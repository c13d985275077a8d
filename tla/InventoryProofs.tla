-------------------------- MODULE InventoryProofs --------------------------
(***************************************************************************)
(* Proofs about seats that organizers edit while they are being reserved.  *)
(* The seat map and the reservations do not agree here: a rename puts back *)
(* the status it had read.  What remains is what MySQL's keys keep: one    *)
(* row per seat, whatever its status, and no row without its seat.         *)
(***************************************************************************)
EXTENDS Inventory, ReservationsProofs, FiniteSetTheorems

(* The rows a sweep remembers were overdue, which no row ceases to be. *)
SweepsSawOverdue ==
  \A w \in Sweepers : \A x \in sweep[w] : x.res \in Rows /\ reservations[x.res].overdue

TablesInv ==
  /\ HoldTypeOK
  /\ OneRowPerSeat
  /\ SweepsSawOverdue

InventoryInv ==
  /\ InventoryTypeOK
  /\ TablesInv
  /\ HeldSeatsExist

-----------------------------------------------------------------------------
(* Whatever the statuses were: rows that change their status only.         *)
LEMMA ChangedStatus ==
  ASSUME TablesInv, NEW R, NEW st \in ReservationStatus,
         reservations' = SetReservations(R, st)
  PROVE  /\ Rows' = Rows
         /\ reservations' \in [Rows -> Row]
         /\ \A r \in Rows : /\ reservations'[r].seat = reservations[r].seat
                            /\ reservations'[r].overdue = reservations[r].overdue
                            /\ reservations'[r].status = (IF r \in R THEN st ELSE StatusOf(r))
         /\ OneRowPerSeat'
<1>1. Rows' = Rows
  BY DEF Rows, SetReservations
<1>2. \A r \in Rows : /\ reservations[r] \in Row
                      /\ reservations'[r] \in Row
                      /\ reservations'[r].seat = reservations[r].seat
                      /\ reservations'[r].overdue = reservations[r].overdue
                      /\ reservations'[r].status = (IF r \in R THEN st ELSE reservations[r].status)
  BY DEF TablesInv, HoldTypeOK, SetReservations, Row
<1>3. reservations' \in [Rows -> Row]
  BY <1>2 DEF SetReservations
<1>4. OneRowPerSeat'
  BY <1>1, <1>2 DEF TablesInv, OneRowPerSeat, SeatOf
<1> QED
  BY <1>1, <1>2, <1>3, <1>4 DEF StatusOf

(* The seats are well typed after any UPDATE of their status. *)
LEMMA ChangedSeats ==
  ASSUME HoldTypeOK, NEW S, NEW st \in SeatStatus
  PROVE  SetSeats(S, st) \in [Seats -> SeatStatus]
BY DEF HoldTypeOK, SetSeats

LEMMA CreateTables ==
  ASSUME TablesInv, NEW u \in Users, NEW R \in SUBSET ReservationIds,
         NEW seatFor \in [R -> Seats], Create(u, seatFor)
  PROVE  /\ TablesInv'
         /\ Rows \subseteq Rows'
         /\ \A r \in Rows : reservations'[r] = reservations[r]
<1>1. DOMAIN seatFor = R /\ R \cap Rows = {}
  BY DEF Create
<1>2. Rows' = Rows \cup R
  BY <1>1 DEF Create, Rows
<1>3. \A r \in Rows : reservations'[r] = reservations[r] /\ reservations[r] \in Row
  BY DEF Create, TablesInv, HoldTypeOK
<1>4. \A r \in R : /\ reservations'[r].seat = seatFor[r]
                   /\ reservations'[r] \in Row
  <2> SUFFICES ASSUME NEW r \in R
               PROVE  reservations'[r].seat = seatFor[r] /\ reservations'[r] \in Row
    OBVIOUS
  <2>1. reservations'[r] = [user |-> u, seat |-> seatFor[r], status |-> "pending", overdue |-> FALSE]
    BY <1>1 DEF Create
  <2>2. seatFor[r] \in Seats
    OBVIOUS
  <2> QED
    BY <2>1, <2>2 DEF Row, ReservationStatus
<1>5. HoldTypeOK'
  <2>1. seatStatus' \in [Seats -> SeatStatus]
    BY ChangedSeats DEF Create, TablesInv, SeatStatus
  <2>2. reservations' = [r \in Rows' |-> reservations'[r]]
    BY <1>1, <1>2 DEF Create
  <2>3. reservations' \in [Rows' -> Row]
    BY <1>2, <1>3, <1>4, <2>2
  <2> QED
    BY <1>2, <2>1, <2>3 DEF Create, TablesInv, HoldTypeOK
<1>6. OneRowPerSeat'
  <2>1. \A q1, q2 \in R : seatFor[q1] = seatFor[q2] => q1 = q2
    BY <1>1 DEF Create, IsInjective
  <2>2. \A r1, r2 \in Rows : reservations[r1].seat = reservations[r2].seat => r1 = r2
    BY DEF TablesInv, OneRowPerSeat, SeatOf
  <2>3. \A r \in Rows, q \in R : reservations[r].seat # seatFor[q]
    BY <1>1 DEF Create, SeatUnclaimed, HasRow, SeatOf
  <2> QED
    BY <1>2, <1>3, <1>4, <2>1, <2>2, <2>3 DEF OneRowPerSeat, SeatOf
<1>7. SweepsSawOverdue'
  BY <1>2, <1>3 DEF Create, TablesInv, SweepsSawOverdue
<1> QED
  BY <1>2, <1>3, <1>5, <1>6, <1>7 DEF TablesInv

LEMMA CancelTables ==
  ASSUME TablesInv, NEW u \in Users, NEW r \in ReservationIds, Cancel(u, r)
  PROVE  TablesInv'
<1>1. reservations' = SetReservations({r}, "expired") /\ "expired" \in ReservationStatus
  BY DEF Cancel, ReservationStatus
<1>2. /\ Rows' = Rows
      /\ reservations' \in [Rows -> Row]
      /\ \A q \in Rows : reservations'[q].overdue = reservations[q].overdue
      /\ OneRowPerSeat'
  BY <1>1, ChangedStatus
<1>3. seatStatus' \in [Seats -> SeatStatus]
  BY ChangedSeats DEF Cancel, TablesInv, SeatStatus
<1> QED
  BY <1>2, <1>3 DEF Cancel, TablesInv, HoldTypeOK, SweepsSawOverdue

LEMMA HoldLapsesTables ==
  ASSUME TablesInv, NEW r \in ReservationIds, HoldLapses(r)
  PROVE  TablesInv'
<1>1. Rows' = Rows
  BY DEF HoldLapses, Rows
<1>2. \A q \in Rows : /\ reservations[q] \in Row
                      /\ reservations'[q] \in Row
                      /\ reservations'[q].seat = reservations[q].seat
                      /\ reservations[q].overdue => reservations'[q].overdue
  BY DEF HoldLapses, TablesInv, HoldTypeOK, Row
<1>3. reservations' \in [Rows -> Row]
  BY <1>2 DEF HoldLapses, Rows, TablesInv, HoldTypeOK
<1> QED
  BY <1>1, <1>2, <1>3 DEF HoldLapses, TablesInv, HoldTypeOK, OneRowPerSeat, SweepsSawOverdue, SeatOf

LEMMA SweepReadTables ==
  ASSUME TablesInv, NEW w \in Sweepers, SweepRead(w)
  PROVE  TablesInv'
<1> DEFINE seen == {[res |-> r, seatWas |-> seatStatus[SeatOf(r)]] : r \in Overdue}
<1>1. \A r \in Overdue : /\ r \in Rows /\ r \in ReservationIds
                         /\ reservations[r].overdue
                         /\ seatStatus[SeatOf(r)] \in SeatStatus
  BY DEF Overdue, TablesInv, HoldTypeOK, Row, SeatOf
<1>2. \A x \in seen : x.res \in Rows /\ reservations[x.res].overdue
  BY <1>1
<1>3. seen \in SUBSET StaleRow
  BY <1>1 DEF StaleRow
<1>4. sweep' = [sweep EXCEPT ![w] = seen]
  BY DEF SweepRead
<1>5. Rows' = Rows /\ seatStatus' = seatStatus /\ reservations' = reservations
  BY DEF SweepRead, Rows
<1> HIDE DEF seen
<1>6. HoldTypeOK'
  BY <1>3, <1>4, <1>5 DEF SweepRead, TablesInv, HoldTypeOK
<1>7. SweepsSawOverdue'
  BY <1>2, <1>4, <1>5 DEF TablesInv, HoldTypeOK, SweepsSawOverdue
<1> QED
  BY <1>5, <1>6, <1>7 DEF TablesInv, OneRowPerSeat, SeatOf

LEMMA SweepExpireTables ==
  ASSUME TablesInv, NEW w \in Sweepers, SweepExpire(w)
  PROVE  TablesInv'
<1>1. reservations' = SetReservations(SweptRows(w), "expired") /\ "expired" \in ReservationStatus
  BY DEF SweepExpire, ReservationStatus
<1>2. /\ Rows' = Rows
      /\ reservations' \in [Rows -> Row]
      /\ \A q \in Rows : reservations'[q].overdue = reservations[q].overdue
      /\ OneRowPerSeat'
  BY <1>1, ChangedStatus
<1>3. seatStatus' \in [Seats -> SeatStatus]
  BY ChangedSeats DEF SweepExpire, TablesInv, SeatStatus
<1> QED
  BY <1>2, <1>3 DEF SweepExpire, TablesInv, HoldTypeOK, SweepsSawOverdue

LEMMA SweepAbortsTables ==
  ASSUME TablesInv, NEW w \in Sweepers, SweepAborts(w)
  PROVE  TablesInv'
<1>1. faults' \in 0 .. MaxFaults
  BY FaultBudget DEF SweepAborts, TablesInv, HoldTypeOK
<1> QED
  BY <1>1 DEF SweepAborts, TablesInv, HoldTypeOK, OneRowPerSeat, SweepsSawOverdue, Rows, SeatOf

(* Selling keeps the tables as the keys want them, without the agreement   *)
(* that the proofs of module ReservationsProofs rest on.                   *)
LEMMA SellingTables == TablesInv /\ [HoldNext]_holdVars => TablesInv'
<1> SUFFICES ASSUME TablesInv, [HoldNext]_holdVars PROVE TablesInv'
  OBVIOUS
<1>1. CASE Reserve
  <2>1. PICK u \in Users, R \in SUBSET ReservationIds :
          \E seatFor \in [R -> Seats] : Create(u, seatFor)
    BY <1>1 DEF Reserve
  <2>2. PICK seatFor \in [R -> Seats] : Create(u, seatFor)
    BY <2>1
  <2> QED
    BY <2>2, CreateTables
<1>2. ASSUME NEW u \in Users, NEW r \in ReservationIds, Cancel(u, r) PROVE TablesInv'
  BY <1>2, CancelTables
<1>3. ASSUME NEW r \in ReservationIds, HoldLapses(r) PROVE TablesInv'
  BY <1>3, HoldLapsesTables
<1>4. ASSUME NEW w \in Sweepers, SweepRead(w) PROVE TablesInv'
  BY <1>4, SweepReadTables
<1>5. ASSUME NEW w \in Sweepers, SweepExpire(w) PROVE TablesInv'
  BY <1>5, SweepExpireTables
<1>6. ASSUME NEW w \in Sweepers, SweepAborts(w) PROVE TablesInv'
  BY <1>6, SweepAbortsTables
<1>7. CASE CancelEvent
  BY <1>7 DEF CancelEvent, TablesInv, HoldTypeOK, EventStatus, OneRowPerSeat, SweepsSawOverdue,
              Rows, SeatOf
<1>8. CASE UNCHANGED holdVars
  BY <1>8 DEF holdVars, TablesInv, HoldTypeOK, OneRowPerSeat, SweepsSawOverdue, Rows, SeatOf
<1> QED
  BY <1>1, <1>2, <1>3, <1>4, <1>5, <1>6, <1>7, <1>8 DEF HoldNext

-----------------------------------------------------------------------------
(* What an organizer's request does to the tables of the hold service. *)
LEMMA EditingTables ==
  ASSUME TablesInv, UNCHANGED <<reservations, sweep, eventStatus, faults>>,
         seatStatus' \in [Seats -> SeatStatus]
  PROVE  TablesInv'
BY DEF TablesInv, HoldTypeOK, OneRowPerSeat, SweepsSawOverdue, Rows, SeatOf

LEMMA OneSection == ASSUME NEW row \in Section
                    PROVE  {row} \in SUBSET Section /\ Cardinality({row}) <= 1
<1>1. Cardinality({row}) = 1
  BY FS_Singleton
<1> QED
  BY <1>1

LEMMA InitInventory == InventoryInit => InventoryInv
<1> SUFFICES ASSUME InventoryInit PROVE InventoryInv
  OBVIOUS
<1>1. HoldInv
  BY HoldInitInv DEF InventoryInit
<1>2. TablesInv
  BY <1>1 DEF InventoryInit, HoldInit, HoldInv, TablesInv, SweepsSawOverdue
<1>3. Cardinality({}) <= 1
  BY FS_EmptySet
<1>4. InventoryTypeOK
  BY <1>1, <1>3 DEF InventoryInit, InventoryTypeOK, HoldInv
<1>5. HeldSeatsExist
  BY DEF InventoryInit, HoldInit, HeldSeatsExist, Rows
<1> QED
  BY <1>2, <1>4, <1>5 DEF InventoryInv

(* The requests of organizers, one by one. *)
LEMMA OrganizeInv ==
  ASSUME InventoryInv, NEW w \in Organizers, Organize(w)
  PROVE  InventoryInv'
<1> DEFINE Requests == {Idle} \cup Inserting \cup SavingSeat \cup SavingSection
<1>1. request \in [Organizers -> Requests]
  BY DEF InventoryInv, InventoryTypeOK
<1>2. \A r \in Requests : [request EXCEPT ![w] = r] \in [Organizers -> Requests]
  BY <1>1
<1>3. Idle \in Requests
  OBVIOUS
<1>4. section \in SUBSET Section /\ Cardinality(section) <= 1 /\ seatRows \subseteq Seats
  BY DEF InventoryInv, InventoryTypeOK
<1>5. ASSUME UNCHANGED <<holdVars, section, seatRows>>,
             NEW r \in Requests, request' = [request EXCEPT ![w] = r]
      PROVE  InventoryInv'
  <2>1. TablesInv'
    BY <1>5, SellingTables DEF InventoryInv
  <2>2. InventoryTypeOK'
    BY <1>2, <1>4, <1>5, <2>1 DEF InventoryTypeOK, TablesInv
  <2>3. HeldSeatsExist'
    BY <1>5 DEF holdVars, InventoryInv, HeldSeatsExist, Rows, SeatOf
  <2> QED
    BY <2>1, <2>2, <2>3 DEF InventoryInv
<1>6. ASSUME UNCHANGED <<holdVars, seatRows>>, NEW row \in Section, section' = {row},
             NEW r \in Requests, request' = [request EXCEPT ![w] = r]
      PROVE  InventoryInv'
  <2>1. TablesInv'
    BY <1>6, SellingTables DEF InventoryInv
  <2>2. InventoryTypeOK'
    BY <1>2, <1>4, <1>6, <2>1, OneSection DEF InventoryTypeOK, TablesInv
  <2>3. HeldSeatsExist'
    BY <1>6 DEF holdVars, InventoryInv, HeldSeatsExist, Rows, SeatOf
  <2> QED
    BY <2>1, <2>2, <2>3 DEF InventoryInv
<1>7. ASSUME NEW total \in 1 .. MaxTotal, CreateSection(w, total)
      PROVE  InventoryInv'
  <2>1. /\ [total |-> total, product |-> FALSE] \in Section
        /\ [total |-> total, product |-> TRUE] \in Section
    BY DEF Section
  <2>2. [at |-> "product", row |-> [total |-> total, product |-> TRUE]] \in Requests
    BY <2>1 DEF SavingSection
  <2> HIDE DEF Requests
  <2> QED
    BY <1>6, <1>7, <2>1, <2>2 DEF CreateSection, Begins
<1>8. ASSUME NEW total \in 1 .. MaxTotal, ReadSection(w, total)
      PROVE  InventoryInv'
  <2>1. PICK row \in section : Begins(w, [at |-> "section", row |-> [row EXCEPT !.total = total]])
    BY <1>8 DEF ReadSection
  <2>2. [row EXCEPT !.total = total] \in Section
    BY <1>4 DEF Section
  <2>3. [at |-> "section", row |-> [row EXCEPT !.total = total]] \in Requests
    BY <2>2 DEF SavingSection
  <2> HIDE DEF Requests
  <2> QED
    BY <1>5, <1>8, <2>1, <2>3 DEF ReadSection, Begins
<1>9. CASE SaveSection(w)
  <2>1. request[w] \in SavingSection
    BY <1>1, <1>9 DEF SaveSection, Idle, Inserting, SavingSeat
  <2>2. request[w].row \in Section
    BY <2>1 DEF SavingSection
  <2> HIDE DEF Requests
  <2> QED
    BY <1>3, <1>6, <1>9, <2>2 DEF SaveSection, Ends
<1>10. CASE RequestFails(w)
  <2> HIDE DEF Requests
  <2> QED
    BY <1>3, <1>5, <1>10 DEF RequestFails, Ends
<1>11. ASSUME NEW S \in SUBSET Seats, CountSeats(w, S)
       PROVE  InventoryInv'
  <2>1. [at |-> "insert", seats |-> S] \in Requests
    BY DEF Inserting
  <2> HIDE DEF Requests
  <2> QED
    BY <1>5, <1>11, <2>1 DEF CountSeats, Begins
<1>12. CASE InsertSeats(w)
  <2>1. request[w] \in Inserting
    BY <1>1, <1>12 DEF InsertSeats, Idle, SavingSection, SavingSeat
  <2>2. request[w].seats \subseteq Seats
    BY <2>1 DEF Inserting
  <2> HIDE DEF Requests
  <2>3. TablesInv'
    BY <1>12, SellingTables DEF InsertSeats, InventoryInv
  <2>4. InventoryTypeOK'
    BY <1>2, <1>3, <1>4, <1>12, <2>2, <2>3 DEF InsertSeats, Ends, InventoryTypeOK, TablesInv, Requests
  <2>5. HeldSeatsExist'
    BY <1>12 DEF InsertSeats, holdVars, InventoryInv, HeldSeatsExist, Rows, SeatOf
  <2> QED
    BY <2>3, <2>4, <2>5 DEF InventoryInv
<1>13. ASSUME NEW s \in Seats, ReadSeat(w, s)
       PROVE  InventoryInv'
  <2>1. seatStatus[s] \in SeatStatus
    BY DEF InventoryInv, TablesInv, HoldTypeOK
  <2>2. [at |-> "seat", seat |-> s, status |-> seatStatus[s]] \in Requests
    BY <2>1 DEF SavingSeat
  <2> HIDE DEF Requests
  <2> QED
    BY <1>5, <1>13, <2>2 DEF ReadSeat, Begins
<1>14. CASE SaveSeat(w)
  <2>1. request[w] \in SavingSeat
    BY <1>1, <1>14 DEF SaveSeat, Idle, SavingSection, Inserting
  <2>2. request[w].seat \in Seats /\ request[w].status \in SeatStatus
    BY <2>1 DEF SavingSeat
  <2> HIDE DEF Requests
  <2>3. TablesInv'
    <3>1. seatStatus' \in [Seats -> SeatStatus]
      BY <1>14, <2>2, ChangedSeats DEF SaveSeat, InventoryInv, TablesInv
    <3> QED
      BY <1>14, <3>1, EditingTables DEF SaveSeat, InventoryInv
  <2>4. InventoryTypeOK'
    BY <1>2, <1>3, <1>4, <1>14, <2>2, <2>3 DEF SaveSeat, Ends, InventoryTypeOK, TablesInv, Requests
  <2>5. HeldSeatsExist'
    BY <1>14 DEF SaveSeat, InventoryInv, HeldSeatsExist, Rows, SeatOf
  <2> QED
    BY <2>3, <2>4, <2>5 DEF InventoryInv
<1> HIDE DEF Requests
<1> QED
  BY <1>7, <1>8, <1>9, <1>10, <1>11, <1>12, <1>13, <1>14 DEF Organize

LEMMA InventoryStep == InventoryInv /\ [InventoryNext]_allVars => InventoryInv'
<1> SUFFICES ASSUME InventoryInv, [InventoryNext]_allVars PROVE InventoryInv'
  OBVIOUS
<1>1. CASE Sells
  <2>1. TablesInv'
    BY <1>1, SellingTables DEF Sells, InventoryInv
  <2>2. InventoryTypeOK'
    BY <1>1, <2>1 DEF Sells, inventoryVars, InventoryInv, InventoryTypeOK, TablesInv
  <2>3. HeldSeatsExist'
    BY <1>1 DEF Sells, inventoryVars, InventoryInv, HeldSeatsExist, Rows, SeatOf
  <2> QED
    BY <2>1, <2>2, <2>3 DEF InventoryInv
<1>2. ASSUME NEW w \in Organizers, Organize(w) PROVE InventoryInv'
  BY <1>2, OrganizeInv
<1>3. CASE RemoveSection
  <2>1. TablesInv'
    BY <1>3, SellingTables DEF RemoveSection, InventoryInv
  <2>2. Cardinality({}) <= 1
    BY FS_EmptySet
  <2>3. InventoryTypeOK'
    BY <1>3, <2>1, <2>2 DEF RemoveSection, InventoryInv, InventoryTypeOK, TablesInv
  <2>4. HeldSeatsExist'
    BY <1>3 DEF RemoveSection, holdVars, InventoryInv, HeldSeatsExist, Rows, SeatOf
  <2> QED
    BY <2>1, <2>3, <2>4 DEF InventoryInv
<1>4. ASSUME NEW s \in Seats, RemoveSeat(s) PROVE InventoryInv'
  <2>1. TablesInv'
    <3>1. seatStatus' \in [Seats -> SeatStatus]
      BY <1>4, ChangedSeats DEF RemoveSeat, InventoryInv, TablesInv, SeatStatus
    <3> QED
      BY <1>4, <3>1, EditingTables DEF RemoveSeat, InventoryInv
  <2>2. InventoryTypeOK'
    BY <1>4, <2>1 DEF RemoveSeat, InventoryInv, InventoryTypeOK, TablesInv
  <2>3. HeldSeatsExist'
    BY <1>4 DEF RemoveSeat, Unreferenced, HasRow, InventoryInv, HeldSeatsExist, Rows, SeatOf
  <2> QED
    BY <2>1, <2>2, <2>3 DEF InventoryInv
<1>5. CASE UNCHANGED allVars
  <2>1. TablesInv'
    BY <1>5, SellingTables DEF allVars, InventoryInv
  <2> QED
    BY <1>5, <2>1 DEF allVars, holdVars, inventoryVars, InventoryInv, InventoryTypeOK, TablesInv,
                      HeldSeatsExist, Rows, SeatOf
<1> QED
  BY <1>1, <1>2, <1>3, <1>4, <1>5 DEF InventoryNext

(* Of all steps only the owner's cancel() ends a hold that has not lapsed. *)
LEMMA UnlapsedHoldsStep ==
  ASSUME InventoryInv, [InventoryNext]_allVars, NEW r \in Rows,
         StatusOf(r) = "pending", ~reservations[r].overdue, reservations'[r].status = "expired"
  PROVE  Cancel(reservations[r].user, r)
<1>1. reservations' # reservations
  BY DEF StatusOf
<1>2. HoldNext
  BY <1>1 DEF InventoryNext, Sells, Organize, CreateSection, ReadSection, SaveSection, RequestFails,
              CountSeats, InsertSeats, ReadSeat, SaveSeat, RemoveSection, RemoveSeat, allVars, holdVars
<1>3. TablesInv
  BY DEF InventoryInv
<1>4. CASE Reserve
  <2>1. PICK u \in Users, R \in SUBSET ReservationIds :
          \E seatFor \in [R -> Seats] : Create(u, seatFor)
    BY <1>4 DEF Reserve
  <2>2. PICK seatFor \in [R -> Seats] : Create(u, seatFor)
    BY <2>1
  <2>3. reservations'[r] = reservations[r]
    BY <1>3, <2>2, CreateTables
  <2> QED
    BY <2>3 DEF StatusOf
<1>5. ASSUME NEW u \in Users, NEW q \in ReservationIds, Cancel(u, q)
      PROVE  Cancel(reservations[r].user, r)
  <2>1. reservations' = SetReservations({q}, "expired") /\ "expired" \in ReservationStatus
    BY <1>5 DEF Cancel, ReservationStatus
  <2>2. reservations'[r].status = IF r \in {q} THEN "expired" ELSE StatusOf(r)
    BY <1>3, <2>1, ChangedStatus
  <2>3. r = q
    BY <2>2
  <2>4. u = reservations[r].user
    BY <1>5, <2>3 DEF Cancel
  <2> QED
    BY <1>5, <2>3, <2>4
<1>6. ASSUME NEW q \in ReservationIds, HoldLapses(q) PROVE FALSE
  <2>1. reservations'[r].status = reservations[r].status
    BY <1>3, <1>6 DEF HoldLapses, TablesInv, HoldTypeOK, Row
  <2> QED
    BY <2>1 DEF StatusOf
<1>7. ASSUME NEW w \in Sweepers, SweepExpire(w) PROVE FALSE
  <2>1. reservations' = SetReservations(SweptRows(w), "expired") /\ "expired" \in ReservationStatus
    BY <1>7 DEF SweepExpire, ReservationStatus
  <2>2. reservations'[r].status = IF r \in SweptRows(w) THEN "expired" ELSE StatusOf(r)
    BY <1>3, <2>1, ChangedStatus
  <2>3. r \in SweptRows(w)
    BY <2>2
  <2> QED
    BY <1>3, <2>3 DEF SweptRows, TablesInv, SweepsSawOverdue
<1> QED
  BY <1>1, <1>2, <1>4, <1>5, <1>6, <1>7 DEF HoldNext, SweepRead, SweepAborts, CancelEvent

-----------------------------------------------------------------------------
LEMMA InventoryInvariant == InventorySpec => []InventoryInv
BY InitInventory, InventoryStep, PTL DEF InventorySpec

(* "No double-booking": whatever organizers save over the seats, and       *)
(* whatever sweeps overlap, a seat never has two live reservations.        *)
THEOREM NoDoubleBooking == InventorySpec => []OneLiveHoldPerSeat
<1>1. InventoryInv => OneLiveHoldPerSeat
  BY DEF InventoryInv, TablesInv, OneRowPerSeat, OneLiveHoldPerSeat
<1> QED
  BY <1>1, InventoryInvariant, PTL

(* A seat that was ever reserved is not removed, nor is a section with     *)
(* seats, also when requests overlap.                                      *)
THEOREM SeatsOfHoldsStay == InventorySpec => []HeldSeatsExist
<1>1. InventoryInv => HeldSeatsExist
  BY DEF InventoryInv
<1> QED
  BY <1>1, InventoryInvariant, PTL

(* A hold that has not lapsed is ended by its owner alone, however long    *)
(* ago a sweep read the rows it writes and whatever organizers do.         *)
THEOREM HoldsLastTheirTime == InventorySpec => UnlapsedHoldsAreKept
<1> DEFINE Kept == \A r \in Rows :
                     /\ StatusOf(r) = "pending"
                     /\ ~reservations[r].overdue
                     /\ reservations'[r].status = "expired"
                     => Cancel(reservations[r].user, r)
<1>1. InventoryInv /\ [InventoryNext]_allVars => [Kept]_reservations
  BY UnlapsedHoldsStep
<1> QED
  BY <1>1, InventoryInvariant, PTL DEF InventorySpec, UnlapsedHoldsAreKept

(* There is one row of the section at most, and rows, sweeps and the       *)
(* organizers' requests keep their shapes, however stale what is saved.    *)
THEOREM InventoryTyped == InventorySpec => []InventoryTypeOK
<1>1. InventoryInv => InventoryTypeOK
  BY DEF InventoryInv
<1> QED
  BY <1>1, InventoryInvariant, PTL
=============================================================================
