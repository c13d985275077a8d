---------------------------- MODULE Reservations ----------------------------
(***************************************************************************)
(* Seat holds, as modules/reservations/reservations.service.ts keeps them  *)
(* in the tables "seats" and "reservations", and the sweeper of server.ts. *)
(*                                                                         *)
(* A MySQL transaction that takes its row locks before it looks at a row   *)
(* is one action.  expireOverdue() is two: it reads the overdue rows       *)
(* outside its transaction and later writes what it computed from them.    *)
(***************************************************************************)
EXTENDS Naturals, FiniteSets, Functions

CONSTANTS
  Users,            \* attendees
  Seats,            \* the seats of one event
  ReservationIds,   \* primary keys of table "reservations"
  Timer,            \* the run of expireOverdue started by setInterval
  Listings,         \* runs of expireOverdue started by GET /reservations/me
  MaxFaults         \* bound on the failures of one behaviour

ASSUME FaultBudget == MaxFaults \in Nat

Sweepers == {Timer} \cup Listings

SeatStatus == {"available", "reserved", "booked"}
ReservationStatus == {"pending", "confirmed", "expired", "refunded"}
EventStatus == {"published", "cancelled"}

Row == [user: Users, seat: Seats, status: ReservationStatus, overdue: BOOLEAN]

(* What a sweep remembers of a row between its read and its transaction. *)
StaleRow == [res: ReservationIds, seatWas: SeatStatus]

VARIABLES
  seatStatus,     \* seats.status
  reservations,   \* the rows of table "reservations", by primary key
  sweep,          \* sweep[w]: the rows sweep w has read and not yet written
  eventStatus,    \* events.status, from the moment sales open
  faults          \* failures so far

holdVars == <<seatStatus, reservations, sweep, eventStatus, faults>>

Rows == DOMAIN reservations
SeatOf(r) == reservations[r].seat
StatusOf(r) == reservations[r].status
HasRow(s) == \E r \in Rows : SeatOf(r) = s

HoldTypeOK ==
  /\ seatStatus \in [Seats -> SeatStatus]
  /\ Rows \subseteq ReservationIds
  /\ reservations \in [Rows -> Row]
  /\ sweep \in [Sweepers -> SUBSET StaleRow]
  /\ eventStatus \in EventStatus
  /\ faults \in 0 .. MaxFaults

HoldInit ==
  /\ seatStatus = [s \in Seats |-> "available"]
  /\ reservations = [r \in {} |-> r]
  /\ sweep = [w \in Sweepers |-> {}]
  /\ eventStatus = "published"
  /\ faults = 0

-----------------------------------------------------------------------------
(* Row updates, as the services issue them.                                *)

(* UPDATE reservations SET status = st WHERE id IN R *)
SetReservations(R, st) ==
  [r \in Rows |-> IF r \in R THEN [reservations[r] EXCEPT !.status = st]
                             ELSE reservations[r]]

(* UPDATE seats SET status = st WHERE id IN S *)
SetSeats(S, st) == [s \in Seats |-> IF s \in S THEN st ELSE seatStatus[s]]

(* The filters "id IN R AND status = st" of those updates. *)
ReservationsIn_Mut(R, st) == R \cap Rows
ReservationsIn(R, st) == {r \in R \cap Rows : StatusOf(r) = st}
SeatsIn_Mut(S, st) == S \cap Seats
SeatsIn(S, st) == {s \in S \cap Seats : seatStatus[s] = st}

(* UNIQUE(seat_id) on table "reservations": a row keeps its seat for good, *)
(* whatever becomes of its status.                                         *)
NoUniqueKey_Mut(s) == TRUE
SeatUnclaimed_Mut(s) == \A r \in Rows : SeatOf(r) = s => StatusOf(r) \in {"expired", "refunded"}
SeatUnclaimed(s) == ~HasRow(s)

(* expiresAt < now() AND status = 'pending' *)
Overdue_Mut == {r \in Rows : StatusOf(r) = "pending" /\ ~reservations[r].overdue}
Overdue == {r \in Rows : StatusOf(r) = "pending" /\ reservations[r].overdue}

-----------------------------------------------------------------------------
(* create(): one row per requested seat.  seatFor maps the fresh keys to   *)
(* the de-duplicated seat ids of the request.                              *)
Create(u, seatFor) ==
  /\ DOMAIN seatFor \subseteq ReservationIds \ Rows
  /\ IsInjective(seatFor)
  /\ \A r \in DOMAIN seatFor : seatStatus[seatFor[r]] = "available"
  /\ eventStatus = "published"
  /\ \A r \in DOMAIN seatFor : SeatUnclaimed(seatFor[r])
  /\ seatStatus' = SetSeats({seatFor[r] : r \in DOMAIN seatFor}, "reserved")
  /\ reservations' =
       [r \in Rows \cup DOMAIN seatFor |->
          IF r \in Rows
          THEN reservations[r]
          ELSE [user |-> u, seat |-> seatFor[r], status |-> "pending", overdue |-> FALSE]]
  /\ UNCHANGED <<sweep, eventStatus, faults>>

(* cancel(): the transaction locks the row and looks at its status again. *)
Cancel_Mut(u, r) ==
  /\ r \in Rows
  /\ reservations[r].user = u
  /\ StatusOf(r) = "pending"
  /\ reservations' = SetReservations({r}, "expired")
  /\ seatStatus' = SetSeats({SeatOf(r)}, "expired")
  /\ UNCHANGED <<sweep, eventStatus, faults>>
Cancel(u, r) ==
  /\ r \in Rows
  /\ reservations[r].user = u
  /\ StatusOf(r) = "pending"
  /\ reservations' = SetReservations({r}, "expired")
  /\ seatStatus' = SetSeats(SeatsIn({SeatOf(r)}, "reserved"), "available")
  /\ UNCHANGED <<sweep, eventStatus, faults>>

(* Ten minutes have gone by since the hold was created.  Nothing looks at  *)
(* expiresAt of a row that is not pending any more.                        *)
HoldLapses(r) ==
  /\ r \in Rows
  /\ StatusOf(r) = "pending"
  /\ ~reservations[r].overdue
  /\ reservations' = [reservations EXCEPT ![r].overdue = TRUE]
  /\ UNCHANGED <<seatStatus, sweep, eventStatus, faults>>

(* expireOverdue(), first half: read the overdue rows joined with their    *)
(* seats.  With none it returns, which changes nothing.                    *)
SweepRead(w) ==
  /\ sweep[w] = {}
  /\ Overdue # {}
  /\ sweep' = [sweep EXCEPT ![w] =
                 {[res |-> r, seatWas |-> seatStatus[SeatOf(r)]] : r \in Overdue}]
  /\ UNCHANGED <<seatStatus, reservations, eventStatus, faults>>

SweptRows_Mut(w) == {}
SweptRows(w) == {x.res : x \in sweep[w]}

SweptSeats_Mut(w) == {}
SweptSeats(w) == {SeatOf(x.res) : x \in {y \in sweep[w] : y.seatWas = "reserved"}}

(* expireOverdue(), second half: save every row that was read as expired,  *)
(* and its seat as available if it was *read* as reserved.  save() writes  *)
(* by primary key: what the rows hold by now is not looked at.             *)
SweepExpire(w) ==
  /\ sweep[w] # {}
  /\ reservations' = SetReservations(SweptRows(w), "expired")
  /\ seatStatus' = SetSeats(SweptSeats(w), "available")
  /\ sweep' = [sweep EXCEPT ![w] = {}]
  /\ UNCHANGED <<eventStatus, faults>>

(* The transaction of a sweep rolls back (lost connection, deadlock). *)
SweepAborts(w) ==
  /\ sweep[w] # {}
  /\ faults < MaxFaults
  /\ faults' = faults + 1
  /\ sweep' = [sweep EXCEPT ![w] = {}]
  /\ UNCHANGED <<seatStatus, reservations, eventStatus>>

(* The organizer cancels the event; no hold is touched. *)
CancelEvent ==
  /\ eventStatus' = "cancelled"
  /\ UNCHANGED <<seatStatus, reservations, sweep, faults>>

-----------------------------------------------------------------------------
Reserve ==
  \E u \in Users, R \in SUBSET ReservationIds :
    \E seatFor \in [R -> Seats] : R # {} /\ Create(u, seatFor)

HoldNext ==
  \/ Reserve
  \/ \E u \in Users, r \in ReservationIds : Cancel(u, r)
  \/ \E r \in ReservationIds : HoldLapses(r)
  \/ \E w \in Sweepers : SweepRead(w)
  \/ \E w \in Sweepers : SweepExpire(w)
  \/ \E w \in Sweepers : SweepAborts(w)
  \/ CancelEvent

HoldSpec == HoldInit /\ [][HoldNext]_holdVars

-----------------------------------------------------------------------------
(* Two tables hold one fact: whether a seat is taken.                      *)
SeatStatusFor(st) ==
  CASE st = "pending" -> "reserved"
    [] st = "confirmed" -> "booked"
    [] OTHER -> "available"

(* A seat is reserved exactly when its reservation is pending, booked      *)
(* exactly when it is confirmed, and otherwise for sale: the services      *)
(* update the two tables in the same transactions and by different         *)
(* filters, and a sweep updates both from what it read earlier.            *)
SeatReservationAgreement ==
  /\ \A r \in Rows : seatStatus[SeatOf(r)] = SeatStatusFor(StatusOf(r))
  /\ \A s \in Seats : ~HasRow(s) => seatStatus[s] = "available"

(* A hold that has not lapsed is ended by its owner alone: a sweep that    *)
(* read rows long ago writes only rows that were overdue already.          *)
UnlapsedHoldsAreKept ==
  [][\A r \in Rows :
       /\ StatusOf(r) = "pending"
       /\ ~reservations[r].overdue
       /\ reservations'[r].status = "expired"
       => Cancel(reservations[r].user, r)]_reservations

(* README: "Auto-release".  A seat that is shown as available can be       *)
(* reserved: no row of an ended hold keeps it from being inserted again.   *)
AvailableSeatsCanBeReserved ==
  \A s \in Seats : seatStatus[s] = "available" => SeatUnclaimed(s)
=============================================================================
