----------------------- MODULE SeatAvailabilityProofs ------------------------
(***************************************************************************)
(* Proofs about the cached count of available seats.  It is wrong only for *)
(* a cause, because no service changes a seat without owing a delete; and  *)
(* what is counted is what BookingProofs says of the seats, for the cache  *)
(* takes part in the flow by its failures alone.                           *)
(***************************************************************************)
EXTENDS BookingProofs, SeatAvailability

CountInv == owed \in Nat /\ WrongCountsHaveACause

SeatsStay == UNCHANGED seatStatus

LEMMA SameSeatsSameCount == SeatsStay => Available' = Available
BY DEF SeatsStay, Available

(* The services that do not owe a delete leave every seat as it is. *)
LEMMA OthersLeaveSeats == LeavesSeats => SeatsStay
<1> SUFFICES ASSUME LeavesSeats PROVE UNCHANGED seatStatus
  BY DEF SeatsStay
<1>1. CASE \E r \in ReservationIds : HoldLapses(r)
  BY <1>1 DEF HoldLapses
<1>2. CASE \E w \in Sweepers : SweepRead(w) \/ SweepAborts(w)
  BY <1>2 DEF SweepRead, SweepAborts
<1>3. CASE CancelEvent
  BY <1>3 DEF CancelEvent
<1>4. CASE \E o \in checkouts : CheckoutOpens(o) \/ CheckoutFails(o)
  BY <1>4 DEF CheckoutOpens, CheckoutFails, holdVars
<1>5. CASE Provider
  BY <1>5 DEF Provider, Emit, Deliver, holdVars
<1>6. CASE \E h \in Handlers : LookUp(h) \/ Mark(h) \/ Notify(h) \/ HandlerDies(h)
  BY <1>6 DEF LookUp, Mark, Notify, HandlerDies, holdVars
<1>7. CASE \E h \in Handlers, r \in ReservationIds : IssueTicket(h, r) \/ StampTicket(h, r)
  BY <1>7 DEF IssueTicket, StampTicket, holdVars
<1> QED
  BY <1>1, <1>2, <1>3, <1>4, <1>5, <1>6, <1>7 DEF LeavesSeats

(* All paths that change a seat owe a delete from the same step on. *)
LEMMA ChangesOweDeletes == owed \in Nat /\ ChangesSeats => owed' \in Nat /\ owed' > 0
<1> SUFFICES ASSUME owed \in Nat, ChangesSeats PROVE owed' \in Nat /\ owed' > 0
  OBVIOUS
<1>1. \E path \in {"create", "cancel", "sweep", "confirm", "release", "refund"} : Then(path)
  BY DEF ChangesSeats
<1> QED
  BY <1>1 DEF Then, Calls

LEMMA CountStep == CountInv /\ [CacheNext]_allVars => CountInv'
<1> SUFFICES ASSUME CountInv, [CacheNext]_allVars PROVE CountInv'
  OBVIOUS
<1> USE DEF CountInv, WrongCountsHaveACause
<1>1. NoCount \notin Nat
  BY CacheMarks
<1>2. CASE ChangesSeats
  BY <1>2, ChangesOweDeletes
<1>3. CASE LeavesSeats /\ UNCHANGED cacheVars
  BY <1>3, OthersLeaveSeats, SameSeatsSameCount DEF cacheVars
<1>4. ASSUME NEW q \in Readers, Misses(q) \/ CountsSeats(q) \/ StoresCount(q)
      PROVE  CountInv'
  <2>1. UNCHANGED vars /\ Available' = Available
    BY <1>4, SameSeatsSameCount DEF Misses, CountsSeats, StoresCount, vars, holdVars, SeatsStay
  <2>2. CASE Misses(q) \/ CountsSeats(q)
    BY <2>1, <2>2 DEF Misses, CountsSeats
  <2>3. CASE StoresCount(q)
    <3>1. cached' = fill[q] /\ owed' = owed
      BY <2>3 DEF StoresCount
    <3>2. fill[q] # Available /\ owed = 0 => overtaken'
      <4>1. overtaken' = (fill[q] # Available /\ owed = 0)
        BY <2>3 DEF StoresCount
      <4> QED
        BY <4>1, Zenon
    <3> QED
      BY <2>1, <3>1, <3>2
  <2> QED
    BY <1>4, <2>2, <2>3
<1>5. CASE Invalidates
  BY <1>1, <1>5 DEF Invalidates
<1>6. CASE InvalidationIsLost
  <2>1. cached' = cached /\ owed' \in Nat
    BY <1>6 DEF InvalidationIsLost
  <2>2. cached \in Nat => overtaken'
    <3>1. overtaken' = (cached # NoCount)
      BY <1>6 DEF InvalidationIsLost
    <3> QED
      BY <1>1, <3>1, Zenon
  <2> QED
    BY <2>1, <2>2
<1>7. CASE Expires
  BY <1>1, <1>7 DEF Expires
<1>8. CASE CacheRestarts
  <2>1. Available' = Available
    BY <1>8, SameSeatsSameCount DEF CacheRestarts, ServerRestarts, SeatsStay
  <2>2. cached' = cached /\ owed' = 0
    BY <1>8 DEF CacheRestarts
  <2>3. overtaken \/ owed > 0 => overtaken'
    <3>1. overtaken' = (overtaken \/ owed > 0)
      BY <1>8 DEF CacheRestarts
    <3> QED
      BY <3>1, Zenon
  <2> QED
    BY <2>1, <2>2, <2>3
<1>9. CASE UNCHANGED allVars
  <2>1. Available' = Available
    BY <1>9, SameSeatsSameCount DEF allVars, vars, holdVars, SeatsStay
  <2> QED
    BY <1>9, <2>1 DEF allVars, cacheVars
<1> QED
  BY <1>2, <1>3, <1>4, <1>5, <1>6, <1>7, <1>8, <1>9 DEF CacheNext

(* Whatever readers, services and restarts do side by side: a cached count *)
(* differs from the table only while a delete is due, or because it was    *)
(* stored after the delete its change called for, or outlived a lost one.  *)
THEOREM CountsAreExplained == CacheSpec => []WrongCountsHaveACause
<1>1. CacheInit => CountInv
  BY CacheMarks DEF CacheInit, CountInv, WrongCountsHaveACause
<1>2. CountInv => WrongCountsHaveACause
  BY DEF CountInv
<1> QED
  BY <1>1, <1>2, CountStep, PTL DEF CacheSpec

-----------------------------------------------------------------------------
(* Both at once.  The cache takes part in the flow by its failures alone:  *)
(* every other step of the two is one of the flow, or none.                *)
LEMMA CacheStepsAreSales == [CacheNext]_allVars => [Next]_vars \/ InvalidationIsLost
<1> SUFFICES ASSUME [CacheNext]_allVars PROVE [Next]_vars \/ InvalidationIsLost
  OBVIOUS
<1>1. CASE ChangesSeats
  BY <1>1 DEF ChangesSeats, Next, SaleNext, HoldNext, Handle
<1>2. CASE LeavesSeats
  BY <1>2 DEF LeavesSeats, Next, SaleNext, HoldNext, Handle
<1>3. CASE UNCHANGED vars
  BY <1>3
<1>4. CASE CacheRestarts
  BY <1>4 DEF CacheRestarts, Next
<1> QED
  BY <1>1, <1>2, <1>3, <1>4 DEF CacheNext, Misses, CountsSeats, StoresCount, Invalidates, Expires, allVars

LEMMA CacheKeepsTables == Inv /\ [CacheNext]_allVars => Inv'
<1> SUFFICES ASSUME Inv, [CacheNext]_allVars PROVE Inv'
  OBVIOUS
<1>1. CASE [Next]_vars
  BY <1>1, NextInv
<1>2. CASE InvalidationIsLost
  <2>1. HoldInv' /\ RowsKept /\ HoldTypeOK' /\ Rows' = Rows
    BY <1>2, FailureKeepsRows DEF InvalidationIsLost, Inv
  <2>2. UNCHANGED <<reservations, saleVars>>
    BY <1>2 DEF InvalidationIsLost
  <2> QED
    BY <2>1, <2>2 DEF Inv, TypeOK, OrdersMatchRows, EventsOfSessions, HandlersWork, saleVars, SeatOf
<1> QED
  BY <1>1, <1>2, CacheStepsAreSales

LEMMA CacheInvariance == CacheSpec => []Inv
<1>1. CacheInit => Inv
  BY InitInv DEF CacheInit
<1> QED
  BY <1>1, CacheKeepsTables, PTL DEF CacheSpec

(* The flow with its cached counts, their deletes that come late or not at *)
(* all and the readers that fill the cache in between still implements     *)
(* SeatLedger: what is counted is sold once.                               *)
THEOREM CountedSeatsAreSoldOnce == CacheSpec => SellsEachSeatOnce
<1>1. Inv /\ Inv' /\ [CacheNext]_allVars => [Ledger!LedgerNext]_LedgerView
  <2> SUFFICES ASSUME Inv, Inv', [CacheNext]_allVars PROVE [Ledger!LedgerNext]_LedgerView
    OBVIOUS
  <2>1. CASE [Next]_vars
    BY <2>1, StepOfLedger
  <2>2. CASE InvalidationIsLost
    BY <2>2, LedgerUnchanged DEF InvalidationIsLost
  <2> QED
    BY <2>1, <2>2, CacheStepsAreSales
<1>2. CacheInit => Ledger!LedgerInit
  BY InitOfLedger DEF CacheInit
<1> QED
  BY <1>1, <1>2, CacheInvariance, PTL DEF CacheSpec, SellsEachSeatOnce, Ledger!LedgerSpec

(* The seats that are counted as available are those that no live          *)
(* reservation has, whatever becomes of the counts.                        *)
THEOREM CountedSeatsAgree == CacheSpec => []SeatReservationAgreement
<1>1. Inv => SeatReservationAgreement
  BY DEF Inv, HoldInv
<1> QED
  BY <1>1, CacheInvariance, PTL
=============================================================================
