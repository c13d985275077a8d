------------------------- MODULE ReservationsProofs -------------------------
(***************************************************************************)
(* Proofs about seat holds.  SeatReservationAgreement is not inductive: a  *)
(* sweep writes what it read long ago.  It is carried by two more facts:   *)
(* the unique index keeps one row per seat for good, and a sweep has seen  *)
(* the seat of each of its rows as reserved, so that it always releases    *)
(* the seat along with the row.                                            *)
(***************************************************************************)
EXTENDS Reservations, TLAPS

(* UNIQUE(seat_id) as an invariant of the table. *)
OneRowPerSeat ==
  \A r1, r2 \in Rows : SeatOf(r1) = SeatOf(r2) => r1 = r2

(* What sweeps in flight remember. *)
SweepsSawReserved ==
  \A w \in Sweepers : \A x \in sweep[w] : x.res \in Rows /\ x.seatWas = "reserved"

HoldInv ==
  /\ HoldTypeOK
  /\ OneRowPerSeat
  /\ SeatReservationAgreement
  /\ SweepsSawReserved

-----------------------------------------------------------------------------
(* A transaction that moves the rows R to status st and their seats to the *)
(* matching seat status keeps the tables well typed and in agreement.      *)
LEMMA MovingTogether ==
  ASSUME HoldInv,
         NEW R \in SUBSET Rows, NEW st \in ReservationStatus,
         reservations' = SetReservations(R, st),
         seatStatus' = SetSeats({SeatOf(r) : r \in R}, SeatStatusFor(st))
  PROVE  /\ Rows' = Rows
         /\ reservations' \in [Rows -> Row]
         /\ seatStatus' \in [Seats -> SeatStatus]
         /\ OneRowPerSeat'
         /\ SeatReservationAgreement'
<1>1. Rows' = Rows
  BY DEF Rows, SetReservations
<1>2. \A r \in Rows : /\ reservations[r] \in Row
                      /\ reservations'[r].seat = reservations[r].seat
                      /\ reservations'[r].status = (IF r \in R THEN st ELSE reservations[r].status)
                      /\ reservations'[r] \in Row
  BY DEF HoldInv, HoldTypeOK, SetReservations, Row
<1>3. reservations' \in [Rows -> Row]
  BY <1>2 DEF SetReservations
<1>4. SeatStatusFor(st) \in SeatStatus
  BY DEF SeatStatusFor, SeatStatus, ReservationStatus
<1>5. seatStatus' \in [Seats -> SeatStatus]
  BY <1>4 DEF HoldInv, HoldTypeOK, SetSeats
<1>6. OneRowPerSeat'
  BY <1>1, <1>2 DEF HoldInv, OneRowPerSeat, SeatOf
<1>7. \A r \in Rows : (SeatOf(r) \in {SeatOf(q) : q \in R}) <=> r \in R
  BY DEF HoldInv, OneRowPerSeat
<1>8. ASSUME NEW r \in Rows
      PROVE  seatStatus'[SeatOf(r)] = SeatStatusFor(reservations'[r].status)
  <2>1. SeatOf(r) \in Seats
    BY <1>2 DEF SeatOf, Row
  <2>2. seatStatus[SeatOf(r)] = SeatStatusFor(StatusOf(r))
    BY DEF HoldInv, SeatReservationAgreement
  <2>3. seatStatus'[SeatOf(r)] = IF r \in R THEN SeatStatusFor(st) ELSE seatStatus[SeatOf(r)]
    BY <1>7, <2>1 DEF SetSeats
  <2> QED
    BY <1>2, <2>2, <2>3 DEF StatusOf
<1>9. ASSUME NEW s \in Seats, ~HasRow(s)'
      PROVE  seatStatus'[s] = "available"
  <2>1. ~HasRow(s)
    BY <1>1, <1>2, <1>9 DEF HasRow, SeatOf
  <2>2. s \notin {SeatOf(q) : q \in R}
    BY <2>1 DEF HasRow
  <2> QED
    BY <2>1, <2>2 DEF HoldInv, SeatReservationAgreement, SetSeats
<1>10. SeatReservationAgreement'
  BY <1>1, <1>2, <1>8, <1>9 DEF SeatReservationAgreement, SeatOf, StatusOf
<1> QED
  BY <1>1, <1>3, <1>5, <1>6, <1>10

(* The filters of the webhook handlers and of cancel() select a set of     *)
(* rows and exactly the seats of those rows.                               *)
LEMMA FiltersMatch ==
  ASSUME HoldInv,
         NEW R \in SUBSET Rows, NEW st \in {"pending", "confirmed"}
  PROVE  SeatsIn({SeatOf(r) : r \in R}, SeatStatusFor(st))
           = {SeatOf(r) : r \in ReservationsIn(R, st)}
<1>1. \A r \in R : /\ SeatOf(r) \in Seats
                   /\ StatusOf(r) \in ReservationStatus
                   /\ seatStatus[SeatOf(r)] = SeatStatusFor(StatusOf(r))
  BY DEF HoldInv, HoldTypeOK, SeatReservationAgreement, Row, SeatOf, StatusOf
<1>2. \A r \in R : (seatStatus[SeatOf(r)] = SeatStatusFor(st)) <=> (StatusOf(r) = st)
  BY <1>1 DEF SeatStatusFor, ReservationStatus
<1> QED
  BY <1>1, <1>2 DEF SeatsIn, ReservationsIn

-----------------------------------------------------------------------------
LEMMA HoldInitInv == HoldInit => HoldInv
<1> SUFFICES ASSUME HoldInit PROVE HoldInv
  OBVIOUS
<1>1. Rows = {}
  BY DEF HoldInit, Rows
<1>2. HoldTypeOK
  BY <1>1, FaultBudget DEF HoldInit, HoldTypeOK, SeatStatus, EventStatus, Rows
<1>3. OneRowPerSeat /\ SeatReservationAgreement /\ SweepsSawReserved
  BY <1>1 DEF HoldInit, OneRowPerSeat, SeatReservationAgreement, SweepsSawReserved
<1> QED
  BY <1>2, <1>3 DEF HoldInv

(* create() inserts rows for seats that had none. *)
LEMMA CreateInv ==
  ASSUME HoldInv, NEW u \in Users, NEW R \in SUBSET ReservationIds,
         NEW seatFor \in [R -> Seats], Create(u, seatFor)
  PROVE  /\ HoldInv'
         /\ Rows' = Rows \cup R
         /\ \A r \in R : reservations'[r].seat = seatFor[r]
         /\ \A r \in Rows : reservations'[r] = reservations[r]
<1>1. DOMAIN seatFor = R /\ R \cap Rows = {}
  BY DEF Create
<1>2. Rows' = Rows \cup R
  BY <1>1 DEF Create, Rows
<1>3. \A r \in Rows : reservations'[r] = reservations[r]
  BY DEF Create
<1>4. \A r \in R : reservations'[r] =
        [user |-> u, seat |-> seatFor[r], status |-> "pending", overdue |-> FALSE]
  BY <1>1 DEF Create
<1>5. ASSUME NEW r \in R
       PROVE  /\ reservations'[r].user = u
              /\ reservations'[r].seat = seatFor[r]
              /\ reservations'[r].status = "pending"
              /\ reservations'[r].overdue = FALSE
              /\ reservations'[r] \in Row
  <2>1. reservations'[r] = [user |-> u, seat |-> seatFor[r], status |-> "pending", overdue |-> FALSE]
    BY <1>4
  <2>2. seatFor[r] \in Seats
    OBVIOUS
  <2> QED
    BY <2>1, <2>2 DEF Row, ReservationStatus
<1>6. \A r \in Rows : reservations[r] \in Row
  BY DEF HoldInv, HoldTypeOK
<1>7. HoldTypeOK'
  <2>1. seatStatus' \in [Seats -> SeatStatus]
    BY DEF Create, SetSeats, HoldInv, HoldTypeOK, SeatStatus
  <2>2. \A r \in Rows' : reservations'[r] \in Row
    BY <1>2, <1>3, <1>5, <1>6 DEF Row, ReservationStatus
  <2>3. reservations' = [r \in Rows' |-> reservations'[r]]
    BY <1>1, <1>2 DEF Create
  <2>4. reservations' \in [Rows' -> Row]
    BY <2>2, <2>3
  <2> QED
    BY <1>2, <2>1, <2>4 DEF Create, HoldInv, HoldTypeOK
<1>8. \A r \in Rows, q \in R : SeatOf(r) # seatFor[q]
  BY <1>1 DEF Create, SeatUnclaimed, HasRow
<1>9. OneRowPerSeat'
  <2>1. \A q1, q2 \in R : seatFor[q1] = seatFor[q2] => q1 = q2
    BY <1>1 DEF Create, IsInjective
  <2>2. \A r1, r2 \in Rows : reservations[r1].seat = reservations[r2].seat => r1 = r2
    BY DEF HoldInv, OneRowPerSeat, SeatOf
  <2>3. \A r \in Rows : reservations'[r].seat = reservations[r].seat
    BY <1>3
  <2>4. \A r \in Rows, q \in R : reservations[r].seat # seatFor[q]
    BY <1>8 DEF SeatOf
  <2>5. \A r \in R : reservations'[r].seat = seatFor[r]
    BY <1>5
  <2> QED
    BY <1>2, <2>1, <2>2, <2>3, <2>4, <2>5 DEF OneRowPerSeat, SeatOf
<1>10. SeatReservationAgreement'
  <2>1. ASSUME NEW r \in Rows
        PROVE  seatStatus'[reservations'[r].seat] = SeatStatusFor(reservations'[r].status)
    <3>1. reservations[r].seat \in Seats
      BY <1>6 DEF Row
    <3>2. seatStatus'[reservations[r].seat] = seatStatus[reservations[r].seat]
      BY <1>1, <1>8, <3>1 DEF Create, SetSeats, SeatOf
    <3> QED
      BY <1>3, <3>2 DEF HoldInv, SeatReservationAgreement, SeatOf, StatusOf
  <2>2. ASSUME NEW r \in R
        PROVE  seatStatus'[reservations'[r].seat] = SeatStatusFor(reservations'[r].status)
    <3>1. seatStatus'[seatFor[r]] = "reserved"
      BY <1>1 DEF Create, SetSeats
    <3> QED
      BY <1>5, <3>1 DEF SeatStatusFor
  <2>3. ASSUME NEW s \in Seats, ~HasRow(s)'
        PROVE  seatStatus'[s] = "available"
    <3>1. ~HasRow(s)
      BY <1>2, <1>3, <2>3 DEF HasRow, SeatOf
    <3>2. \A r \in R : seatFor[r] # s
      BY <1>2, <1>5, <2>3 DEF HasRow, SeatOf
    <3> QED
      BY <1>1, <3>1, <3>2 DEF Create, SetSeats, HoldInv, SeatReservationAgreement
  <2> QED
    BY <1>2, <2>1, <2>2, <2>3 DEF SeatReservationAgreement, SeatOf, StatusOf
<1>11. SweepsSawReserved'
  BY <1>2 DEF Create, HoldInv, SweepsSawReserved
<1> QED
  BY <1>2, <1>3, <1>5, <1>7, <1>9, <1>10, <1>11 DEF HoldInv

LEMMA CancelInv ==
  ASSUME HoldInv, NEW u \in Users, NEW r \in ReservationIds, Cancel(u, r)
  PROVE  HoldInv'
<1>1. r \in Rows /\ StatusOf(r) = "pending"
  BY DEF Cancel
<1>2. SeatsIn({SeatOf(r)}, "reserved") = {SeatOf(r)}
  BY <1>1 DEF HoldInv, HoldTypeOK, SeatReservationAgreement, SeatStatusFor, SeatsIn, SeatOf,
              StatusOf, Row
<1>3. {SeatOf(q) : q \in {r}} = {SeatOf(r)}
  OBVIOUS
<1>4. seatStatus' = SetSeats({SeatOf(q) : q \in {r}}, SeatStatusFor("expired"))
  BY <1>2, <1>3 DEF Cancel, SeatStatusFor
<1>5. /\ Rows' = Rows
      /\ reservations' \in [Rows -> Row]
      /\ seatStatus' \in [Seats -> SeatStatus]
      /\ OneRowPerSeat'
      /\ SeatReservationAgreement'
  <2>1. {r} \in SUBSET Rows /\ "expired" \in ReservationStatus
    BY <1>1 DEF ReservationStatus
  <2>2. reservations' = SetReservations({r}, "expired")
    BY DEF Cancel
  <2> QED
    BY <1>4, <2>1, <2>2, MovingTogether
<1> QED
  BY <1>5 DEF Cancel, HoldInv, HoldTypeOK, SweepsSawReserved

LEMMA HoldLapsesInv ==
  ASSUME HoldInv, NEW r \in ReservationIds, HoldLapses(r)
  PROVE  HoldInv'
<1>1. Rows' = Rows
  BY DEF HoldLapses, Rows
<1>2. \A q \in Rows : /\ reservations[q] \in Row
                      /\ reservations'[q] \in Row
                      /\ reservations'[q].seat = reservations[q].seat
                      /\ reservations'[q].status = reservations[q].status
  BY DEF HoldLapses, HoldInv, HoldTypeOK, Row
<1>3. reservations' \in [Rows -> Row]
  BY <1>2 DEF HoldLapses, Rows, HoldInv, HoldTypeOK
<1>4. HoldTypeOK'
  BY <1>1, <1>3 DEF HoldLapses, HoldInv, HoldTypeOK
<1>5. OneRowPerSeat' /\ SeatReservationAgreement' /\ SweepsSawReserved'
  BY <1>1, <1>2 DEF HoldLapses, HoldInv, OneRowPerSeat, SeatReservationAgreement,
                    SweepsSawReserved, SeatOf, StatusOf, HasRow
<1> QED
  BY <1>4, <1>5 DEF HoldInv

(* A sweep sees the seats of pending rows, which the tables agree are      *)
(* reserved.                                                               *)
LEMMA SweepReadInv ==
  ASSUME HoldInv, NEW w \in Sweepers, SweepRead(w)
  PROVE  HoldInv'
<1> DEFINE seen == {[res |-> r, seatWas |-> seatStatus[SeatOf(r)]] : r \in Overdue}
<1>1. \A r \in Overdue : r \in Rows /\ seatStatus[SeatOf(r)] = "reserved"
  BY DEF Overdue, HoldInv, SeatReservationAgreement, SeatStatusFor
<1>2. \A x \in seen : x.res \in Rows /\ x.seatWas = "reserved"
  BY <1>1
<1>3. seen \in SUBSET StaleRow
  BY <1>1 DEF HoldInv, HoldTypeOK, StaleRow, SeatStatus
<1>4. sweep' = [sweep EXCEPT ![w] = seen]
  BY DEF SweepRead
<1>5. Rows' = Rows /\ seatStatus' = seatStatus /\ reservations' = reservations
  BY DEF SweepRead, Rows
<1>6. HoldTypeOK'
  BY <1>3, <1>4, <1>5 DEF SweepRead, HoldInv, HoldTypeOK
<1>7. SweepsSawReserved'
  BY <1>2, <1>4, <1>5 DEF HoldInv, HoldTypeOK, SweepsSawReserved
<1>8. OneRowPerSeat' /\ SeatReservationAgreement'
  BY <1>5 DEF HoldInv, OneRowPerSeat, SeatReservationAgreement, SeatOf, StatusOf, HasRow
<1> QED
  BY <1>6, <1>7, <1>8 DEF HoldInv

(* A sweep overwrites whatever has become of its rows; since it saw their  *)
(* seats reserved it overwrites those as well.                             *)
LEMMA SweepExpireInv ==
  ASSUME HoldInv, NEW w \in Sweepers, SweepExpire(w)
  PROVE  HoldInv'
<1>1. SweptRows(w) \in SUBSET Rows
  BY DEF SweptRows, HoldInv, SweepsSawReserved
<1>2. SweptSeats(w) = {SeatOf(r) : r \in SweptRows(w)}
  BY DEF SweptSeats, SweptRows, HoldInv, SweepsSawReserved
<1>3. seatStatus' = SetSeats({SeatOf(r) : r \in SweptRows(w)}, SeatStatusFor("expired"))
  BY <1>2 DEF SweepExpire, SeatStatusFor
<1>4. /\ Rows' = Rows
      /\ reservations' \in [Rows -> Row]
      /\ seatStatus' \in [Seats -> SeatStatus]
      /\ OneRowPerSeat'
      /\ SeatReservationAgreement'
  <2>1. "expired" \in ReservationStatus
    BY DEF ReservationStatus
  <2>2. reservations' = SetReservations(SweptRows(w), "expired")
    BY DEF SweepExpire
  <2> QED
    BY <1>1, <1>3, <2>1, <2>2, MovingTogether
<1> QED
  BY <1>4 DEF SweepExpire, HoldInv, HoldTypeOK, SweepsSawReserved

LEMMA SweepAbortsInv ==
  ASSUME HoldInv, NEW w \in Sweepers, SweepAborts(w)
  PROVE  HoldInv'
<1>1. faults' \in 0 .. MaxFaults
  BY FaultBudget DEF SweepAborts, HoldInv, HoldTypeOK
<1> QED
  BY <1>1 DEF SweepAborts, HoldInv, HoldTypeOK, OneRowPerSeat, SeatReservationAgreement,
              SweepsSawReserved, Rows, SeatOf, StatusOf, HasRow

LEMMA CancelEventInv ==
  ASSUME HoldInv, CancelEvent
  PROVE  HoldInv'
BY DEF CancelEvent, HoldInv, HoldTypeOK, EventStatus, OneRowPerSeat, SeatReservationAgreement,
       SweepsSawReserved, Rows, SeatOf, StatusOf, HasRow

LEMMA HoldStepInv == HoldInv /\ [HoldNext]_holdVars => HoldInv'
<1> SUFFICES ASSUME HoldInv, [HoldNext]_holdVars PROVE HoldInv'
  OBVIOUS
<1>1. CASE Reserve
  <2>1. PICK u \in Users, R \in SUBSET ReservationIds :
          \E seatFor \in [R -> Seats] : Create(u, seatFor)
    BY <1>1 DEF Reserve
  <2>2. PICK seatFor \in [R -> Seats] : Create(u, seatFor)
    BY <2>1
  <2> QED
    BY <2>2, CreateInv
<1>2. ASSUME NEW u \in Users, NEW r \in ReservationIds, Cancel(u, r) PROVE HoldInv'
  BY <1>2, CancelInv
<1>3. ASSUME NEW r \in ReservationIds, HoldLapses(r) PROVE HoldInv'
  BY <1>3, HoldLapsesInv
<1>4. ASSUME NEW w \in Sweepers, SweepRead(w) PROVE HoldInv'
  BY <1>4, SweepReadInv
<1>5. ASSUME NEW w \in Sweepers, SweepExpire(w) PROVE HoldInv'
  BY <1>5, SweepExpireInv
<1>6. ASSUME NEW w \in Sweepers, SweepAborts(w) PROVE HoldInv'
  BY <1>6, SweepAbortsInv
<1>7. CASE CancelEvent
  BY <1>7, CancelEventInv
<1>8. CASE UNCHANGED holdVars
  BY <1>8 DEF holdVars, HoldInv, HoldTypeOK, OneRowPerSeat, SeatReservationAgreement,
              SweepsSawReserved, Rows, SeatOf, StatusOf, HasRow
<1> QED
  BY <1>1, <1>2, <1>3, <1>4, <1>5, <1>6, <1>7, <1>8 DEF HoldNext

(* No step of the hold service changes whose a row is or which seat it     *)
(* holds, and none deletes a row.                                          *)
RowsKept ==
  /\ Rows \subseteq Rows'
  /\ \A r \in Rows : /\ reservations'[r].seat = reservations[r].seat
                    /\ reservations'[r].user = reservations[r].user

LEMMA SetReservationsKeepsRows ==
  ASSUME HoldTypeOK, NEW R, NEW st \in ReservationStatus,
         reservations' = SetReservations(R, st)
  PROVE  RowsKept
BY DEF HoldTypeOK, SetReservations, RowsKept, Rows, Row

LEMMA HoldStepKeepsRows == HoldTypeOK /\ [HoldNext]_holdVars => RowsKept
<1> SUFFICES ASSUME HoldTypeOK, [HoldNext]_holdVars PROVE RowsKept
  OBVIOUS
<1>1. CASE Reserve
  <2>1. PICK u \in Users, R \in SUBSET ReservationIds :
          \E seatFor \in [R -> Seats] : Create(u, seatFor)
    BY <1>1 DEF Reserve
  <2>2. PICK seatFor \in [R -> Seats] : Create(u, seatFor)
    BY <2>1
  <2> QED
    BY <2>2 DEF Create, RowsKept, Rows
<1>2. ASSUME NEW u \in Users, NEW r \in ReservationIds, Cancel(u, r) PROVE RowsKept
  BY <1>2, SetReservationsKeepsRows DEF Cancel, ReservationStatus
<1>3. ASSUME NEW r \in ReservationIds, HoldLapses(r) PROVE RowsKept
  BY <1>3 DEF HoldLapses, HoldTypeOK, RowsKept, Rows, Row
<1>4. ASSUME NEW w \in Sweepers, SweepExpire(w) PROVE RowsKept
  BY <1>4, SetReservationsKeepsRows DEF SweepExpire, ReservationStatus
<1>5. CASE UNCHANGED reservations
  BY <1>5 DEF RowsKept, Rows
<1> QED
  BY <1>1, <1>2, <1>3, <1>4, <1>5
     DEF HoldNext, holdVars, SweepRead, SweepAborts, CancelEvent

-----------------------------------------------------------------------------
LEMMA HoldInvariant == HoldSpec => []HoldInv
BY HoldInitInv, HoldStepInv, PTL DEF HoldSpec

(* The hold service keeps its tables well typed. *)
THEOREM HoldTypeCorrect == HoldSpec => []HoldTypeOK
<1>1. HoldInv => HoldTypeOK
  BY DEF HoldInv
<1> QED
  BY <1>1, HoldInvariant, PTL

(* For any number of users, seats, requests and overlapping sweeps, the    *)
(* seat map and the reservations agree after every transaction.            *)
THEOREM HoldAgreement == HoldSpec => []SeatReservationAgreement
<1>1. HoldInv => SeatReservationAgreement
  BY DEF HoldInv
<1> QED
  BY <1>1, HoldInvariant, PTL
=============================================================================
