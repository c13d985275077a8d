-------------------------- MODULE SeatAvailability --------------------------
(***************************************************************************)
(* The cached count of free seats of a section, availableCount() of        *)
(* modules/seats/seats.service.ts, and its invalidation by every service   *)
(* that changes a seat of module Booking.                                  *)
(*                                                                         *)
(* A writer commits to MySQL and deletes the key afterwards; a reader that *)
(* finds no key counts in MySQL and stores what it counted.  Nothing ties  *)
(* these steps together.                                                   *)
(***************************************************************************)
EXTENDS Booking, Integers

CONSTANTS
  Readers,   \* bound on the requests for the count in progress
  NoCount,   \* what a key that does not exist holds
  Missed,    \* a reader has found no key and has not counted yet
  MaxOwed    \* bound on the invalidations under way

ASSUME CacheMarks ==
  /\ NoCount \notin Nat
  /\ Missed \notin Nat
  /\ NoCount # Missed
  /\ MaxOwed \in Nat

VARIABLES
  cached,    \* seats:available:{sectionId}
  fill,      \* fill[q]: what reader q is about to store
  owed,      \* invalidations of committed changes still to come
  overtaken  \* the cached count was out of date when it was stored or kept

cacheVars == <<cached, fill, owed, overtaken>>
allVars == <<vars, cacheVars>>

Count == 0 .. Cardinality(Seats)
Available == Cardinality({s \in Seats : seatStatus[s] = "available"})

CacheTypeOK ==
  /\ cached \in Count \cup {NoCount}
  /\ fill \in [Readers -> Count \cup {NoCount, Missed}]
  /\ owed \in 0 .. MaxOwed
  /\ overtaken \in BOOLEAN

CacheInit ==
  /\ Init
  /\ cached = NoCount
  /\ fill = [q \in Readers |-> NoCount]
  /\ owed = 0
  /\ overtaken = FALSE

-----------------------------------------------------------------------------
(* availableCount(): GET, SELECT COUNT(-), SETEX.  A hit changes nothing. *)
Misses(q) ==
  /\ fill[q] = NoCount
  /\ cached = NoCount
  /\ fill' = [fill EXCEPT ![q] = Missed]
  /\ UNCHANGED <<vars, cached, owed, overtaken>>

CountsSeats(q) ==
  /\ fill[q] = Missed
  /\ fill' = [fill EXCEPT ![q] = Available]
  /\ UNCHANGED <<vars, cached, owed, overtaken>>

(* Overtaken: the seats have changed since the count, and all the deletes  *)
(* those changes call for are done.                                        *)
StoresCount(q) ==
  /\ fill[q] \in Nat
  /\ cached' = fill[q]
  /\ overtaken' = (fill[q] # Available /\ owed = 0)
  /\ fill' = [fill EXCEPT ![q] = NoCount]
  /\ UNCHANGED <<vars, owed>>

(* invalidateSeatAvailability() *)
Invalidates ==
  /\ owed > 0
  /\ owed' = owed - 1
  /\ cached' = NoCount
  /\ overtaken' = FALSE
  /\ UNCHANGED <<vars, fill>>

(* Redis does not answer, or the writer dies after its commit. *)
InvalidationIsLost ==
  /\ owed > 0
  /\ faults < MaxFaults
  /\ faults' = faults + 1
  /\ owed' = owed - 1
  /\ overtaken' = (cached # NoCount)
  /\ UNCHANGED <<seatStatus, reservations, sweep, eventStatus, saleVars, cached, fill>>

(* The sixty seconds of SETEX are over. *)
Expires ==
  /\ cached # NoCount
  /\ cached' = NoCount
  /\ overtaken' = FALSE
  /\ UNCHANGED <<vars, fill, owed>>

-----------------------------------------------------------------------------
(* The paths that end in a call of invalidateSeatAvailability(). *)
Calls_Mut(path) == IF path = "sweep" THEN 0 ELSE 1
Calls(path) == 1

Then(path) ==
  /\ owed + Calls(path) <= MaxOwed
  /\ owed' = owed + Calls(path)
  /\ UNCHANGED <<cached, fill, overtaken>>

ChangesSeats ==
  \/ Reserve /\ UNCHANGED saleVars /\ Then("create")
  \/ Checkout /\ Then("create")
  \/ \E u \in Users, r \in ReservationIds : Cancel(u, r) /\ UNCHANGED saleVars /\ Then("cancel")
  \/ \E w \in Sweepers : SweepExpire(w) /\ UNCHANGED saleVars /\ Then("sweep")
  \/ \E h \in Handlers : Confirm(h) /\ Then("confirm")
  \/ \E h \in Handlers : Release(h) /\ Then("release")
  \/ \E h \in Handlers : Refund(h) /\ Then("refund")

LeavesSeats ==
  \/ \E r \in ReservationIds : HoldLapses(r) /\ UNCHANGED saleVars
  \/ \E w \in Sweepers : (SweepRead(w) \/ SweepAborts(w)) /\ UNCHANGED saleVars
  \/ CancelEvent /\ UNCHANGED saleVars
  \/ \E o \in checkouts : CheckoutOpens(o) \/ CheckoutFails(o)
  \/ Provider
  \/ \E h \in Handlers : LookUp(h) \/ Mark(h) \/ Notify(h) \/ HandlerDies(h)
  \/ \E h \in Handlers, r \in ReservationIds : IssueTicket(h, r) \/ StampTicket(h, r)

(* What the process had under way is gone, invalidations included; the     *)
(* cached count stays.                                                     *)
CacheRestarts ==
  /\ ServerRestarts
  /\ fill' = [q \in Readers |-> NoCount]
  /\ owed' = 0
  /\ overtaken' = (overtaken \/ owed > 0)
  /\ UNCHANGED cached

CacheNext ==
  \/ ChangesSeats
  \/ LeavesSeats /\ UNCHANGED cacheVars
  \/ \E q \in Readers : Misses(q) \/ CountsSeats(q) \/ StoresCount(q)
  \/ Invalidates
  \/ InvalidationIsLost
  \/ Expires
  \/ CacheRestarts

CacheSpec == CacheInit /\ [][CacheNext]_allVars

-----------------------------------------------------------------------------
(* "invalidated on reserve/expiry/book": every path that changes a seat    *)
(* calls for a delete, so a count can be wrong only until the delete, or   *)
(* if its reader or a lost delete was overtaken by the change.             *)
WrongCountsHaveACause ==
  cached \in Nat /\ cached # Available => owed > 0 \/ overtaken

(* "Fast reads without staleness" (README): when all invalidations have    *)
(* been carried out, the count that is served is right.                    *)
CountsAreCurrent ==
  faults = 0 /\ owed = 0 => cached = NoCount \/ cached = Available
=============================================================================
