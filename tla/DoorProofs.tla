----------------------------- MODULE DoorProofs -----------------------------
(***************************************************************************)
(* Proofs about money and tickets, up to the door.                         *)
(*                                                                         *)
(* A payment is recorded in the transaction that confirms the              *)
(* reservations, and a refund finds it by its user: it is that of the      *)
(* reservations because one order's user is the owner of its rows.         *)
(* Tickets follow from paid orders only.                                   *)
(*                                                                         *)
(* No reservation is in two orders and no event is handled twice, so each  *)
(* ticket has one handler in its life: what is done with and in no scan's  *)
(* hands changes no more.  Handlers and scans save whole tickets over each *)
(* other before that; each of those saves leaves the ticket complete, or   *)
(* used, or both, and a ticket that is either remains so.                  *)
(***************************************************************************)
EXTENDS DoorScan, BookingProofs

Paid(r) == \E e \in DOMAIN payments : Pays(e, r)

(* What has a ticket, or is about to have one, was paid for. *)
ServedArePaid ==
  /\ \A r \in DOMAIN tickets : Paid(r)
  /\ \A h \in Handlers : \A r \in todo[h] : Paid(r)

Money ==
  /\ ConfirmedIsPaid
  /\ RefundedHoldsArePaidBack
  /\ ServedArePaid

DoorInv ==
  /\ Inv
  /\ Money
  /\ DoorTypeOK
  /\ \A r \in ReservationIds : admitted[r] > 0 => r \in DOMAIN tickets

-----------------------------------------------------------------------------
(* Rows that come to be confirmed or refunded do so in a webhook handler.  *)
NothingSettles ==
  \A r \in Rows' : reservations'[r].status \in {"confirmed", "refunded"} =>
    r \in Rows /\ reservations'[r].status = StatusOf(r)

PaymentsStand ==
  /\ DOMAIN payments \subseteq DOMAIN payments'
  /\ \A e \in DOMAIN payments : payments[e] = "refunded" => payments'[e] = "refunded"

NothingServed ==
  /\ DOMAIN tickets' \subseteq DOMAIN tickets
  /\ \A h \in Handlers : todo'[h] \subseteq todo[h]

LEMMA PaidStays == ASSUME PaymentsStand, NEW r, Paid(r) PROVE Paid(r)'
BY DEF PaymentsStand, Paid, Pays

LEMMA MoneyStays ==
  ASSUME Money, NothingSettles, PaymentsStand, NothingServed
  PROVE  Money'
<1>1. ConfirmedIsPaid'
  <2> SUFFICES ASSUME NEW r \in Rows', reservations'[r].status = "confirmed"
               PROVE  \E e \in DOMAIN payments' : Pays(e, r)
    BY DEF ConfirmedIsPaid, StatusOf, Pays
  <2>1. r \in Rows /\ StatusOf(r) = "confirmed"
    BY DEF NothingSettles
  <2> QED
    BY <2>1 DEF Money, ConfirmedIsPaid, PaymentsStand
<1>2. RefundedHoldsArePaidBack'
  <2> SUFFICES ASSUME NEW r \in Rows', reservations'[r].status = "refunded"
               PROVE  \E e \in DOMAIN payments' : Pays(e, r) /\ payments'[e] = "refunded"
    BY DEF RefundedHoldsArePaidBack, StatusOf, Pays
  <2>1. r \in Rows /\ StatusOf(r) = "refunded"
    BY DEF NothingSettles
  <2> QED
    BY <2>1 DEF Money, RefundedHoldsArePaidBack, PaymentsStand
<1>3. ServedArePaid'
  <2>1. \A r : Paid(r) => Paid(r)'
    BY PaidStays
  <2> QED
    BY <2>1 DEF Money, ServedArePaid, NothingServed, Paid
<1> QED
  BY <1>1, <1>2, <1>3 DEF Money

(* Updates to other statuses settle nothing. *)
LEMMA EndingSettlesNothing ==
  ASSUME HoldTypeOK, NEW R, reservations' = SetReservations(R, "expired")
  PROVE  NothingSettles
<1>1. Rows' = Rows
  BY DEF Rows, SetReservations
<1>2. \A r \in Rows : reservations'[r].status = IF r \in R THEN "expired" ELSE StatusOf(r)
  BY DEF SetReservations, HoldTypeOK, Row, StatusOf
<1> QED
  BY <1>1, <1>2 DEF NothingSettles

LEMMA HoldingSettlesNothing ==
  ASSUME HoldTypeOK, NEW u \in Users, NEW R \in SUBSET ReservationIds,
         NEW seatFor \in [R -> Seats], Create(u, seatFor)
  PROVE  NothingSettles
BY DEF Create, NothingSettles, Rows, StatusOf

LEMMA HoldNextSettlesNothing == HoldTypeOK /\ [HoldNext]_holdVars => NothingSettles
<1> SUFFICES ASSUME HoldTypeOK, [HoldNext]_holdVars PROVE NothingSettles
  OBVIOUS
<1>1. CASE Reserve
  <2>1. PICK u \in Users, R \in SUBSET ReservationIds :
          \E seatFor \in [R -> Seats] : Create(u, seatFor)
    BY <1>1 DEF Reserve
  <2>2. PICK seatFor \in [R -> Seats] : Create(u, seatFor)
    BY <2>1
  <2> QED
    BY <2>2, HoldingSettlesNothing
<1>2. ASSUME NEW u \in Users, NEW r \in ReservationIds, Cancel(u, r) PROVE NothingSettles
  BY <1>2, EndingSettlesNothing DEF Cancel
<1>3. ASSUME NEW r \in ReservationIds, HoldLapses(r) PROVE NothingSettles
  BY <1>3 DEF HoldLapses, HoldTypeOK, Row, NothingSettles, Rows, StatusOf
<1>4. ASSUME NEW w \in Sweepers, SweepExpire(w) PROVE NothingSettles
  BY <1>4, EndingSettlesNothing DEF SweepExpire
<1>5. CASE UNCHANGED reservations
  BY <1>5 DEF NothingSettles, Rows, StatusOf
<1> QED
  BY <1>1, <1>2, <1>3, <1>4, <1>5
     DEF HoldNext, holdVars, SweepRead, SweepAborts, CancelEvent

-----------------------------------------------------------------------------
(* The rows become confirmed and the payment is there in one transaction.  *)
LEMMA ConfirmMoney ==
  ASSUME Inv, Money, NEW h \in Handlers, Confirm(h)
  PROVE  Money'
<1> DEFINE e == job[h]
           R == ReservationsIn(e.order.res, "pending")
<1>1. e.type = "collection.succeeded" /\ \A r \in e.order.res : Pays(e, r)
  BY DEF Confirm, Pays
<1>2. /\ DOMAIN payments' = DOMAIN payments \cup {e}
      /\ \A x \in DOMAIN payments : payments'[x] = payments[x]
  BY DEF Confirm, Recorded
<1>3. PaymentsStand
  BY <1>2 DEF PaymentsStand
<1>4. Rows' = Rows
  BY DEF Confirm, Rows, SetReservations
<1>5. \A r \in Rows : reservations'[r].status = IF r \in R THEN "confirmed" ELSE StatusOf(r)
  BY DEF Confirm, SetReservations, Inv, HoldInv, HoldTypeOK, Row, StatusOf
<1>6. R \subseteq e.order.res
  BY DEF ReservationsIn
<1>7. todo' = [todo EXCEPT ![h] = e.order.res] /\ tickets' = tickets
      /\ todo \in [Handlers -> SUBSET ReservationIds]
  BY DEF Confirm, Inv, TypeOK
<1> HIDE DEF e, R
<1>8. ConfirmedIsPaid'
  <2> SUFFICES ASSUME NEW r \in Rows, reservations'[r].status = "confirmed"
               PROVE  \E x \in DOMAIN payments' : Pays(x, r)
    BY <1>4 DEF ConfirmedIsPaid, StatusOf, Pays
  <2>1. CASE r \in R
    BY <1>1, <1>2, <1>6, <2>1
  <2>2. CASE r \notin R
    BY <1>2, <1>5, <2>2 DEF Money, ConfirmedIsPaid
  <2> QED
    BY <2>1, <2>2
<1>9. RefundedHoldsArePaidBack'
  <2> SUFFICES ASSUME NEW r \in Rows, reservations'[r].status = "refunded"
               PROVE  \E x \in DOMAIN payments' : Pays(x, r) /\ payments'[x] = "refunded"
    BY <1>4 DEF RefundedHoldsArePaidBack, StatusOf, Pays
  <2>1. StatusOf(r) = "refunded"
    BY <1>5
  <2> QED
    BY <1>2, <2>1 DEF Money, RefundedHoldsArePaidBack
<1>10. ServedArePaid'
  <2>1. \A r : Paid(r) => Paid(r)'
    BY <1>3, PaidStays
  <2>2. \A r \in e.order.res : Paid(r)'
    BY <1>1, <1>2 DEF Paid, Pays
  <2>3. \A g \in Handlers : \A r \in todo'[g] : r \in todo[g] \/ r \in e.order.res
    BY <1>7
  <2> QED
    BY <1>7, <2>1, <2>2, <2>3 DEF Money, ServedArePaid
<1> QED
  BY <1>8, <1>9, <1>10 DEF Money

(* The user of a refunded order owns its rows, and so does the user of the *)
(* payment that confirmed them: it is one of those that are paid back.     *)
LEMMA RefundMoney ==
  ASSUME Inv, Money, NEW h \in Handlers, Refund(h)
  PROVE  Money'
<1> DEFINE o == job[h].order
           R == ReservationsIn(o.res, "confirmed")
<1>1. \A r \in o.res : reservations[r].user = o.user
  BY JobIsAnOrder DEF Refund
<1>2. \A e \in DOMAIN payments : /\ e.order \in sessions
                                 /\ payments'[e] = (IF e.order.user = o.user THEN "refunded" ELSE payments[e])
  BY DEF Inv, TypeOK, EventsOfSessions, Refund, PaidBack
<1>3. DOMAIN payments' = DOMAIN payments
  BY DEF Refund, PaidBack
<1>4. \A e \in DOMAIN payments : \A r \in e.order.res : reservations[r].user = e.order.user
  BY <1>2 DEF Inv, OrdersMatchRows
<1>5. Rows' = Rows
  BY DEF Refund, Rows, SetReservations
<1>6. \A r \in Rows : reservations'[r].status = IF r \in R THEN "refunded" ELSE StatusOf(r)
  BY DEF Refund, SetReservations, Inv, HoldInv, HoldTypeOK, Row, StatusOf
<1>7. \A r \in R : r \in o.res /\ StatusOf(r) = "confirmed"
  BY DEF ReservationsIn
<1>8. todo' = todo /\ DOMAIN tickets' = DOMAIN tickets
  BY DEF Refund, GoesTo, Voided
<1> HIDE DEF o, R
<1>9. ConfirmedIsPaid'
  <2> SUFFICES ASSUME NEW r \in Rows, reservations'[r].status = "confirmed"
               PROVE  \E e \in DOMAIN payments' : Pays(e, r)
    BY <1>5 DEF ConfirmedIsPaid, StatusOf, Pays
  <2>1. StatusOf(r) = "confirmed"
    BY <1>6
  <2> QED
    BY <1>3, <2>1 DEF Money, ConfirmedIsPaid
<1>10. RefundedHoldsArePaidBack'
  <2> SUFFICES ASSUME NEW r \in Rows, reservations'[r].status = "refunded"
               PROVE  \E e \in DOMAIN payments' : Pays(e, r) /\ payments'[e] = "refunded"
    BY <1>5 DEF RefundedHoldsArePaidBack, StatusOf, Pays
  <2>1. CASE r \in R
    <3>1. PICK e \in DOMAIN payments : Pays(e, r)
      BY <1>7, <2>1 DEF Money, ConfirmedIsPaid
    <3>2. e.order.user = o.user
      BY <1>1, <1>4, <1>7, <2>1, <3>1 DEF Pays
    <3> QED
      BY <1>2, <1>3, <3>1, <3>2
  <2>2. CASE r \notin R
    <3>1. PICK e \in DOMAIN payments : Pays(e, r) /\ payments[e] = "refunded"
      BY <1>6, <2>2 DEF Money, RefundedHoldsArePaidBack
    <3> QED
      BY <1>2, <1>3, <3>1
  <2> QED
    BY <2>1, <2>2
<1>11. ServedArePaid'
  BY <1>3, <1>8 DEF Money, ServedArePaid, Paid
<1> QED
  BY <1>9, <1>10, <1>11 DEF Money

LEMMA MoneyStep == Inv /\ Money /\ [Next]_vars => Money'
<1> SUFFICES ASSUME Inv, Money, [Next]_vars PROVE Money'
  OBVIOUS
<1>1. HoldTypeOK /\ todo \in [Handlers -> SUBSET ReservationIds]
  BY DEF Inv, HoldInv, TypeOK
<1>2. UNCHANGED reservations => NothingSettles
  BY DEF NothingSettles, Rows, StatusOf
<1>3. UNCHANGED payments => PaymentsStand
  BY DEF PaymentsStand
<1>4. CASE HoldNext /\ UNCHANGED saleVars
  BY <1>1, <1>3, <1>4, HoldNextSettlesNothing, MoneyStays DEF saleVars, NothingServed
<1>5. CASE Checkout
  <2>1. PICK u \in Users, R \in SUBSET ReservationIds :
          \E seatFor \in [R -> Seats] : CheckoutHold(u, seatFor)
    BY <1>5 DEF Checkout
  <2>2. PICK seatFor \in [R -> Seats] : CheckoutHold(u, seatFor)
    BY <2>1
  <2>3. NothingSettles
    BY <1>1, <2>2, HoldingSettlesNothing DEF CheckoutHold
  <2> QED
    BY <1>3, <2>2, <2>3, MoneyStays DEF CheckoutHold, NothingServed
<1>6. ASSUME NEW h \in Handlers, Confirm(h) PROVE Money'
  BY <1>6, ConfirmMoney
<1>7. ASSUME NEW h \in Handlers, Refund(h) PROVE Money'
  BY <1>7, RefundMoney
<1>8. ASSUME NEW h \in Handlers, NEW r \in ReservationIds, IssueTicket(h, r) PROVE Money'
  <2>1. /\ DOMAIN tickets' = DOMAIN tickets \cup {r} /\ r \in todo[h]
        /\ UNCHANGED <<reservations, payments, todo>>
    BY <1>8 DEF IssueTicket, GoesTo, holdVars
  <2>2. Paid(r)
    BY <2>1 DEF Money, ServedArePaid
  <2> QED
    BY <2>1, <2>2 DEF Money, ConfirmedIsPaid, RefundedHoldsArePaidBack, ServedArePaid, Paid,
                      Rows, StatusOf
<1>9. ASSUME NEW h \in Handlers, NEW r \in ReservationIds, StampTicket(h, r) PROVE Money'
  <2>1. NothingServed
    BY <1>1, <1>9 DEF StampTicket, NothingServed
  <2> QED
    BY <1>2, <1>3, <1>9, <2>1, MoneyStays DEF StampTicket, holdVars
<1>10. ASSUME NEW h \in Handlers, Release(h) PROVE Money'
  <2>1. NothingSettles
    BY <1>1, <1>10, EndingSettlesNothing DEF Release
  <2>2. NothingServed
    BY <1>1, <1>10 DEF Release, EndsJob, GoesTo, NothingServed
  <2> QED
    BY <1>3, <1>10, <2>1, <2>2, MoneyStays DEF Release
<1>11. ASSUME NEW h \in Handlers, LookUp(h) \/ Mark(h) \/ Notify(h) \/ HandlerDies(h) PROVE Money'
  <2>1. NothingServed
    BY <1>1, <1>11 DEF LookUp, Mark, Notify, HandlerDies, EndsJob, GoesTo, NothingServed
  <2> QED
    BY <1>2, <1>3, <1>11, <2>1, MoneyStays DEF LookUp, Mark, Notify, HandlerDies, holdVars
<1>12. CASE ServerRestarts
  <2>1. NothingServed
    BY <1>12 DEF ServerRestarts, NothingServed
  <2> QED
    BY <1>2, <1>3, <1>12, <2>1, MoneyStays DEF ServerRestarts
<1>13. CASE UNCHANGED <<reservations, payments, tickets, todo>>
  BY <1>2, <1>3, <1>13, MoneyStays DEF NothingServed
<1> QED
  BY <1>4, <1>5, <1>6, <1>7, <1>8, <1>9, <1>10, <1>11, <1>12, <1>13
     DEF Next, SaleNext, Provider, Handle, CheckoutOpens, CheckoutFails, Emit, Deliver, vars,
         holdVars, saleVars

LEMMA InitMoney == Init => Money
BY DEF Init, HoldInit, Money, ConfirmedIsPaid, RefundedHoldsArePaidBack, ServedArePaid, Rows

-----------------------------------------------------------------------------
(* Tickets are issued and written but never deleted. *)
LEMMA TicketsStay == Inv /\ [Next]_vars => DOMAIN tickets \subseteq DOMAIN tickets'
<1> SUFFICES ASSUME Inv, [Next]_vars PROVE DOMAIN tickets \subseteq DOMAIN tickets'
  OBVIOUS
<1>1. ASSUME NEW h \in Handlers, Handle(h) PROVE DOMAIN tickets \subseteq DOMAIN tickets'
  BY <1>1 DEF Handle, LookUp, Mark, Confirm, IssueTicket, StampTicket, Release, Refund, Voided, Notify
<1>2. CASE UNCHANGED tickets
  BY <1>2
<1> QED
  BY <1>1, <1>2
     DEF Next, SaleNext, Provider, CheckoutOpens, CheckoutFails, CheckoutHold, Checkout, Emit,
         Deliver, HandlerDies, ServerRestarts, vars, saleVars

(* The sale next to the door: of the door only its restart takes part. *)
LEMMA SaleAtTheDoor ==
  ASSUME DoorInv, [Next]_vars, UNCHANGED admitted,
         scanned' = scanned \/ scanned' = [g \in Scanners |-> {}]
  PROVE  DoorInv'
<1>1. Inv' /\ Money' /\ DOMAIN tickets \subseteq DOMAIN tickets'
  BY NextInv, MoneyStep, TicketsStay DEF DoorInv
<1>2. DoorTypeOK'
  BY <1>1 DEF DoorInv, DoorTypeOK
<1> QED
  BY <1>1, <1>2 DEF DoorInv

LEMMA ScanReadInv ==
  ASSUME DoorInv, NEW g \in Scanners, NEW r \in ReservationIds, ScanRead(g, r)
  PROVE  DoorInv'
<1>1. Inv' /\ Money'
  BY NextInv, MoneyStep DEF ScanRead, DoorInv
<1>2. UNCHANGED <<tickets, admitted>>
  BY DEF ScanRead, vars, saleVars
<1>3. [id |-> r, row |-> tickets[r]] \in [id: DOMAIN tickets, row: Ticket]
  BY DEF ScanRead, DoorInv, Inv, TypeOK
<1>4. DoorTypeOK'
  BY <1>2, <1>3 DEF ScanRead, DoorInv, DoorTypeOK
<1> QED
  BY <1>1, <1>2, <1>4 DEF DoorInv

(* A save of a ticket leaves the sale as it is but for that ticket. *)
LEMMA ScanSaveInv ==
  ASSUME DoorInv, NEW g \in Scanners, NEW t \in scanned[g], ScanSave(g, t)
  PROVE  DoorInv'
<1>1. /\ t \in [id: DOMAIN tickets, row: Ticket]
      /\ DOMAIN tickets' = DOMAIN tickets /\ DOMAIN tickets \subseteq ReservationIds
  BY DEF ScanSave, Used, DoorInv, DoorTypeOK, Inv, HoldInv, HoldTypeOK, TypeOK
<1>2. tickets' \in [DOMAIN tickets' -> Ticket]
  <2>1. [t.row EXCEPT !.used = TRUE] \in Ticket
    BY <1>1 DEF Ticket
  <2> QED
    BY <1>1, <2>1 DEF ScanSave, Used, DoorInv, Inv, TypeOK
<1>3. HoldInv'
  BY HoldUnchanged DEF ScanSave, DoorInv, Inv
<1>4. UNCHANGED <<holdVars, checkouts, sessions, emitted, acked, processed, pc, job, todo,
                  payments, notified>> /\ Rows' = Rows
  BY DEF ScanSave, holdVars, Rows
<1>5. TypeOK'
  BY <1>1, <1>2, <1>3, <1>4 DEF DoorInv, Inv, HoldInv, TypeOK
<1>6. Inv'
  BY <1>3, <1>4, <1>5 DEF DoorInv, Inv, OrdersMatchRows, EventsOfSessions, HandlersWork, holdVars, SeatOf
<1>7. Money'
  BY <1>1, <1>4 DEF DoorInv, Money, ConfirmedIsPaid, RefundedHoldsArePaidBack, ServedArePaid, Paid,
                    holdVars, StatusOf
<1>8. DoorTypeOK'
  <2>1. scanned' \in [Scanners -> SUBSET [id: DOMAIN tickets', row: Ticket]]
    BY <1>1 DEF ScanSave, DoorInv, DoorTypeOK
  <2>2. admitted[t.id] \in 0 .. MaxAdmissions /\ admitted[t.id] < MaxAdmissions
    BY <1>1 DEF ScanSave, DoorInv, DoorTypeOK
  <2>3. admitted[t.id] + 1 \in 0 .. MaxAdmissions
    BY <2>2, AdmissionBudget
  <2>4. admitted' \in [ReservationIds -> 0 .. MaxAdmissions]
    BY <2>3 DEF ScanSave, DoorInv, DoorTypeOK
  <2> QED
    BY <2>1, <2>4 DEF DoorTypeOK
<1>9. \A q \in ReservationIds : admitted'[q] > 0 => q \in DOMAIN tickets'
  BY <1>1 DEF ScanSave, DoorInv, DoorTypeOK
<1> QED
  BY <1>6, <1>7, <1>8, <1>9 DEF DoorInv

LEMMA ScanFailsInv ==
  ASSUME DoorInv, NEW g \in Scanners, ScanFails(g)
  PROVE  DoorInv'
<1>1. HoldInv' /\ RowsKept /\ HoldTypeOK' /\ Rows' = Rows
  BY FailureKeepsRows DEF ScanFails, DoorInv, Inv
<1>2. UNCHANGED <<reservations, saleVars, admitted>>
  BY DEF ScanFails
<1>3. Inv'
  BY <1>1, <1>2 DEF DoorInv, Inv, TypeOK, OrdersMatchRows, EventsOfSessions, HandlersWork, saleVars, SeatOf
<1>4. Money'
  BY <1>2 DEF DoorInv, Money, ConfirmedIsPaid, RefundedHoldsArePaidBack, ServedArePaid, Paid,
              saleVars, Rows, StatusOf
<1>5. DoorTypeOK'
  BY <1>2 DEF ScanFails, DoorInv, DoorTypeOK, saleVars
<1> QED
  BY <1>2, <1>3, <1>4, <1>5 DEF DoorInv, saleVars

LEMMA DoorStep == DoorInv /\ [DoorNext]_allVars => DoorInv'
<1> SUFFICES ASSUME DoorInv, [DoorNext]_allVars PROVE DoorInv'
  OBVIOUS
<1>1. CASE SaleNext /\ UNCHANGED doorVars
  BY <1>1, SaleAtTheDoor DEF Next, doorVars
<1>2. CASE DoorRestarts
  BY <1>2, SaleAtTheDoor DEF DoorRestarts, Next
<1>3. ASSUME NEW g \in Scanners, Scan(g) PROVE DoorInv'
  BY <1>3, ScanReadInv, ScanSaveInv DEF Scan
<1>4. ASSUME NEW g \in Scanners, ScanFails(g) PROVE DoorInv'
  BY <1>4, ScanFailsInv
<1>5. CASE UNCHANGED allVars
  BY <1>5, SaleAtTheDoor DEF allVars, doorVars
<1> QED
  BY <1>1, <1>2, <1>3, <1>4, <1>5 DEF DoorNext

LEMMA InitDoor == DoorInit => DoorInv
<1> SUFFICES ASSUME DoorInit PROVE DoorInv
  OBVIOUS
<1>1. Inv /\ Money
  BY InitInv, InitMoney DEF DoorInit
<1>2. 0 \in 0 .. MaxAdmissions
  BY AdmissionBudget
<1>3. DoorTypeOK
  BY <1>2 DEF DoorInit, DoorTypeOK
<1>4. \A r \in ReservationIds : admitted[r] = 0
  BY DEF DoorInit
<1> QED
  BY <1>1, <1>3, <1>4 DEF DoorInv

LEMMA DoorInvariant == DoorSpec => []DoorInv
BY InitDoor, DoorStep, PTL DEF DoorSpec

-----------------------------------------------------------------------------
(* Wherever a handler dies and whatever is delivered twice, late or out of *)
(* order, a seat is booked only with a recorded payment of its order.      *)
THEOREM NoFreeSeats == Spec => []ConfirmedIsPaid
<1>1. Money => ConfirmedIsPaid
  BY DEF Money
<1> QED
  BY <1>1, InitMoney, MoneyStep, Invariance, PTL DEF Spec

(* The refund transaction finds the payment of every reservation it takes  *)
(* back, though it looks for payments by user and not by order.            *)
THEOREM RefundsFindThePayment == Spec => []RefundedHoldsArePaidBack
<1>1. Money => RefundedHoldsArePaidBack
  BY DEF Money
<1> QED
  BY <1>1, InitMoney, MoneyStep, Invariance, PTL DEF Spec

(* Nobody passes the door for free, though the scan looks at the ticket    *)
(* alone and neither at its reservation nor at a payment.                  *)
THEOREM NobodyEntersForFree == DoorSpec => []EntriesWerePaid
<1>1. DoorInv => EntriesWerePaid
  BY DEF DoorInv, Money, ServedArePaid, Paid, EntriesWerePaid
<1> QED
  BY <1>1, DoorInvariant, PTL

-----------------------------------------------------------------------------
(* Every order was made with reservations of its own.                      *)
OrdersAreDisjoint ==
  \A o1, o2 \in checkouts \cup sessions : o1.res \cap o2.res # {} => o1 = o2

(* A payment that is about to be handled is not recorded yet.              *)
PaymentsAreNew == \A h \in Handlers : pc[h] = "handle" => job[h] \notin DOMAIN payments

(* Complete, or used: every write of a ticket keeps this.                  *)
Served(r) == r \in DOMAIN tickets /\ (tickets[r].ready \/ tickets[r].used)
Serving == {"tickets", "stamp"}

(* Who has tickets to issue issues them, and has served the others.        *)
HandlersServe ==
  \A h \in Handlers :
    /\ todo[h] # {} => pc[h] \in Serving
    /\ pc[h] \in Serving \cup {"notify"} /\ job[h].type = "collection.succeeded"
         => \A r \in job[h].order.res \ todo[h] : Served(r)

OneHandler == HandledOnce /\ OrdersAreDisjoint /\ PaymentsAreNew

TicketInv ==
  /\ DoorInv
  /\ OneHandler
  /\ HandlersServe
  /\ AnnouncedOrdersAreTicketed

-----------------------------------------------------------------------------
(* An order is known by any of its reservations, and so is its payment.    *)
LEMMA OnePayment ==
  ASSUME Inv, OrdersAreDisjoint, NEW d \in acked, NEW e \in acked, NEW r, Pays(d, r), Pays(e, r)
  PROVE  d = e
<1>1. /\ d \in Events /\ e \in Events
      /\ d.order \in sessions /\ e.order \in sessions
  BY DEF Inv, TypeOK, EventsOfSessions
<1>2. d.order = e.order
  BY <1>1 DEF OrdersAreDisjoint, Pays
<1> QED
  BY <1>1, <1>2 DEF Events, Pays

(* Nothing is served of an order whose payment is about to be recorded.    *)
LEMMA UnpaidIsUnserved ==
  ASSUME Inv, Money, OneHandler, NEW h \in Handlers, pc[h] = "handle", NEW r, Pays(job[h], r)
  PROVE  r \notin DOMAIN tickets /\ \A g \in Handlers : r \notin todo[g]
<1>1. job[h] \in acked
  BY JobIsAnOrder
<1>2. \A e \in DOMAIN payments : e \in acked
  BY DEF Inv, TypeOK
<1>3. ~Paid(r)
  BY <1>1, <1>2, OnePayment DEF Paid, OneHandler, PaymentsAreNew
<1> QED
  BY <1>3 DEF Money, ServedArePaid

-----------------------------------------------------------------------------
LEMMA DisjointStep == Inv /\ OrdersAreDisjoint /\ [Next]_vars => OrdersAreDisjoint'
<1> SUFFICES ASSUME Inv, OrdersAreDisjoint, [Next]_vars PROVE OrdersAreDisjoint'
  OBVIOUS
<1>1. CASE Checkout
  <2>1. PICK u \in Users, R \in SUBSET ReservationIds :
          \E seatFor \in [R -> Seats] : CheckoutHold(u, seatFor)
    BY <1>1 DEF Checkout
  <2>2. PICK seatFor \in [R -> Seats] : CheckoutHold(u, seatFor)
    BY <2>1
  <2> DEFINE new == [user |-> u, res |-> DOMAIN seatFor, seats |-> {seatFor[r] : r \in DOMAIN seatFor}]
  <2>3. checkouts' = checkouts \cup {new} /\ sessions' = sessions
    BY <2>2 DEF CheckoutHold
  <2>4. new.res \cap Rows = {}
    BY <2>2 DEF CheckoutHold, Create
  <2>5. \A o \in checkouts \cup sessions : o.res \subseteq Rows
    BY DEF Inv, OrdersMatchRows
  <2> HIDE DEF new
  <2>6. \A o \in checkouts \cup sessions : o.res \cap new.res = {}
    BY <2>4, <2>5
  <2> QED
    BY <2>3, <2>6 DEF OrdersAreDisjoint
<1>2. CASE checkouts' \cup sessions' \subseteq checkouts \cup sessions
  BY <1>2 DEF OrdersAreDisjoint
<1> QED
  BY <1>1, <1>2
     DEF Next, SaleNext, CheckoutOpens, CheckoutFails, Provider, Emit, Deliver, Handle, LookUp, Mark,
         Confirm, IssueTicket, StampTicket, Release, Refund, Notify, HandlerDies, ServerRestarts,
         vars, saleVars

(* What a handler that serves nothing yet may do next. *)
Unserving(h) ==
  /\ todo'[h] = {}
  /\ \/ pc'[h] \in {"idle", "lookup", "mark"}
     \/ pc'[h] = "handle" /\ job'[h] = job[h] /\ job[h] \notin processed
     \/ pc'[h] = "notify" /\ job'[h].type # "collection.succeeded"

Resting(h) == pc'[h] = pc[h] /\ job'[h] = job[h] /\ todo'[h] = todo[h]

ServedStay == \A r : Served(r) => Served(r)'

(* Steps that issue and stamp nothing and record no payment. *)
QuietStep ==
  /\ \A h \in Handlers : Resting(h) \/ Unserving(h)
  /\ DOMAIN payments' = DOMAIN payments
  /\ ServedStay
  /\ \A e \in notified' \ notified : e.type = "collection.succeeded" => \A r \in e.order.res : Served(r)

SaleKeeps == PaymentsAreNew' /\ HandlersServe' /\ AnnouncedOrdersAreTicketed'

LEMMA ServesOn ==
  ASSUME HandlersServe, ServedStay, NEW h \in Handlers, Resting(h)
  PROVE  /\ todo'[h] # {} => pc'[h] \in Serving
         /\ pc'[h] \in Serving \cup {"notify"} /\ job'[h].type = "collection.succeeded"
              => \A r \in job'[h].order.res \ todo'[h] : Served(r)'
BY DEF HandlersServe, Resting, ServedStay

LEMMA QuietKeeps ==
  ASSUME Inv, PaymentsAreNew, HandlersServe, AnnouncedOrdersAreTicketed, QuietStep
  PROVE  SaleKeeps
<1>1. PaymentsAreNew'
  <2>1. DOMAIN payments \subseteq processed
    BY DEF Inv, TypeOK
  <2> QED
    BY <2>1 DEF QuietStep, Resting, Unserving, PaymentsAreNew
<1>2. HandlersServe'
  <2> SUFFICES ASSUME NEW h \in Handlers
               PROVE  /\ todo'[h] # {} => pc'[h] \in Serving
                      /\ pc'[h] \in Serving \cup {"notify"} /\ job'[h].type = "collection.succeeded"
                           => \A r \in job'[h].order.res \ todo'[h] : Served(r)'
    BY DEF HandlersServe, Served, Serving
  <2>1. CASE Resting(h)
    BY <2>1, ServesOn DEF QuietStep
  <2>2. CASE Unserving(h)
    BY <2>2 DEF Unserving, Serving
  <2> QED
    BY <2>1, <2>2 DEF QuietStep
<1>3. AnnouncedOrdersAreTicketed'
  BY DEF AnnouncedOrdersAreTicketed, QuietStep, ServedStay, Served
<1> QED
  BY <1>1, <1>2, <1>3 DEF SaleKeeps

(* A payment is recorded: its handler has the whole order before it. *)
LEMMA ConfirmServes ==
  ASSUME Inv, OneHandler, HandlersServe, AnnouncedOrdersAreTicketed,
         NEW h \in Handlers, Confirm(h)
  PROVE  SaleKeeps
<1> DEFINE e == job[h]
<1>1. /\ pc[h] = "handle" /\ e.type = "collection.succeeded"
      /\ tickets' = tickets /\ job' = job /\ notified' = notified
  BY DEF Confirm
<1>2. \A g \in Handlers : /\ pc'[g] = IF g = h THEN "tickets" ELSE pc[g]
                          /\ todo'[g] = IF g = h THEN e.order.res ELSE todo[g]
  BY DEF Confirm, Inv, TypeOK
<1>3. DOMAIN payments' = DOMAIN payments \cup {e}
  BY DEF Confirm, Recorded
<1>4. PaymentsAreNew'
  <2>1. \A g \in Handlers : pc[g] = "handle" /\ job[g] = e => g = h
    BY <1>1 DEF OneHandler, HandledOnce
  <2> QED
    BY <1>1, <1>2, <1>3, <2>1 DEF OneHandler, PaymentsAreNew
<1>5. HandlersServe'
  BY <1>1, <1>2 DEF HandlersServe, Serving, Served
<1>6. AnnouncedOrdersAreTicketed'
  BY <1>1 DEF AnnouncedOrdersAreTicketed
<1> QED
  BY <1>4, <1>5, <1>6 DEF SaleKeeps

LEMMA IssueServes ==
  ASSUME Inv, OneHandler, HandlersServe, AnnouncedOrdersAreTicketed,
         NEW h \in Handlers, NEW r \in ReservationIds, IssueTicket(h, r)
  PROVE  SaleKeeps
<1>1. /\ pc[h] = "tickets" /\ r \notin DOMAIN tickets
      /\ job' = job /\ todo' = todo /\ payments' = payments /\ notified' = notified
  BY DEF IssueTicket, GoesTo
<1>2. \A g \in Handlers : pc'[g] = IF g = h THEN "stamp" ELSE pc[g]
  BY DEF IssueTicket, GoesTo, Inv, TypeOK
<1>3. /\ DOMAIN tickets' = DOMAIN tickets \cup {r}
      /\ \A q \in DOMAIN tickets : tickets'[q] = tickets[q]
  BY <1>1 DEF IssueTicket
<1>4. ServedStay
  BY <1>3 DEF Served, ServedStay
<1>5. PaymentsAreNew'
  BY <1>1, <1>2 DEF OneHandler, PaymentsAreNew
<1>6. HandlersServe'
  BY <1>1, <1>2, <1>4 DEF HandlersServe, ServedStay, Served, Serving
<1>7. AnnouncedOrdersAreTicketed'
  BY <1>1, <1>4 DEF AnnouncedOrdersAreTicketed, ServedStay, Served
<1> QED
  BY <1>5, <1>6, <1>7 DEF SaleKeeps

(* The stamp forgets what others wrote, and leaves the ticket complete.    *)
LEMMA StampServes ==
  ASSUME Inv, OneHandler, HandlersServe, AnnouncedOrdersAreTicketed,
         NEW h \in Handlers, NEW r \in ReservationIds, StampTicket(h, r)
  PROVE  SaleKeeps
<1>1. /\ pc[h] = "stamp" /\ r \in todo[h] /\ r \in DOMAIN tickets
      /\ job' = job /\ payments' = payments /\ notified' = notified
  BY DEF StampTicket
<1>2. /\ \A g \in Handlers : todo'[g] = IF g = h THEN todo[h] \ {r} ELSE todo[g]
      /\ \A g \in Handlers : g # h => pc'[g] = pc[g]
      /\ pc'[h] = "tickets" \/ (pc'[h] = "notify" /\ todo'[h] = {})
  BY DEF StampTicket, AfterStamp, Inv, TypeOK
<1>3. /\ DOMAIN tickets' = DOMAIN tickets
      /\ \A q \in DOMAIN tickets : q # r => tickets'[q] = tickets[q]
      /\ tickets'[r].ready
  BY <1>1 DEF StampTicket
<1>4. ServedStay /\ Served(r)'
  BY <1>1, <1>3 DEF Served, ServedStay
<1>5. PaymentsAreNew'
  BY <1>1, <1>2 DEF OneHandler, PaymentsAreNew
<1>6. HandlersServe'
  <2> SUFFICES ASSUME NEW g \in Handlers
               PROVE  /\ todo'[g] # {} => pc'[g] \in Serving
                      /\ pc'[g] \in Serving \cup {"notify"} /\ job'[g].type = "collection.succeeded"
                           => \A q \in job'[g].order.res \ todo'[g] : Served(q)'
    BY DEF HandlersServe, Served, Serving
  <2>1. CASE g = h
    <3>1. job[h].type = "collection.succeeded" => \A q \in job[h].order.res \ todo[h] : Served(q)
      BY <1>1 DEF HandlersServe, Serving
    <3> QED
      BY <1>1, <1>2, <1>4, <2>1, <3>1 DEF ServedStay, Serving
  <2>2. CASE g # h
    BY <1>1, <1>2, <1>4, <2>2, ServesOn DEF Resting
  <2> QED
    BY <2>1, <2>2
<1>7. AnnouncedOrdersAreTicketed'
  BY <1>1, <1>4 DEF AnnouncedOrdersAreTicketed, ServedStay, Served
<1> QED
  BY <1>5, <1>6, <1>7 DEF SaleKeeps

LEMMA SaleServes ==
  ASSUME Inv, OneHandler, HandlersServe, AnnouncedOrdersAreTicketed, [Next]_vars
  PROVE  SaleKeeps
<1>1. QuietStep => SaleKeeps
  BY QuietKeeps DEF OneHandler
<1>2. pc \in [Handlers -> Step] /\ job = [g \in Handlers |-> job[g]] /\ todo = [g \in Handlers |-> todo[g]]
  BY DEF Inv, TypeOK
<1>3. \A g \in Handlers : pc[g] \notin Serving => todo[g] = {}
  BY DEF HandlersServe
<1>4. UNCHANGED tickets => ServedStay
  BY DEF ServedStay, Served
<1>5. CASE UNCHANGED <<pc, job, todo, payments, tickets, notified>>
  BY <1>1, <1>5, <1>4 DEF QuietStep, Resting
<1>6. ASSUME NEW h \in Handlers, NEW e \in emitted, Deliver(h, e) PROVE SaleKeeps
  BY <1>1, <1>2, <1>3, <1>6, <1>4 DEF Deliver, QuietStep, Resting, Unserving, Serving
<1>7. ASSUME NEW h \in Handlers, LookUp(h) PROVE SaleKeeps
  BY <1>1, <1>2, <1>3, <1>7, <1>4 DEF LookUp, EndsJob, GoesTo, QuietStep, Resting, Unserving, Serving
<1>8. ASSUME NEW h \in Handlers, Mark(h) PROVE SaleKeeps
  BY <1>1, <1>2, <1>3, <1>8, <1>4 DEF Mark, MarkerTaken, EndsJob, GoesTo, QuietStep, Resting, Unserving, Serving
<1>9. ASSUME NEW h \in Handlers, Release(h) PROVE SaleKeeps
  BY <1>1, <1>2, <1>3, <1>9, <1>4 DEF Release, EndsJob, GoesTo, QuietStep, Resting, Unserving, Serving
<1>10. ASSUME NEW h \in Handlers, Refund(h) PROVE SaleKeeps
  <2>1. ServedStay
    BY <1>10 DEF Refund, Voided, Inv, TypeOK, Ticket, Served, ServedStay
  <2>2. DOMAIN payments' = DOMAIN payments
    BY <1>10 DEF Refund, PaidBack
  <2> QED
    BY <1>1, <1>2, <1>3, <1>10, <2>1, <2>2
       DEF Refund, GoesTo, QuietStep, Resting, Unserving, Serving
<1>11. ASSUME NEW h \in Handlers, Notify(h) PROVE SaleKeeps
  <2>1. notified' \ notified \subseteq {job[h]} /\ pc[h] = "notify" /\ todo[h] = {}
    BY <1>3, <1>11 DEF Notify, Serving
  <2>2. job[h].type = "collection.succeeded" => \A r \in job[h].order.res : Served(r)
    BY <2>1 DEF HandlersServe
  <2> QED
    BY <1>1, <1>2, <1>11, <1>4, <2>1, <2>2 DEF Notify, EndsJob, QuietStep, Resting, Unserving
<1>12. ASSUME NEW h \in Handlers, HandlerDies(h) PROVE SaleKeeps
  BY <1>1, <1>2, <1>12, <1>4 DEF HandlerDies, EndsJob, QuietStep, Resting, Unserving
<1>13. CASE ServerRestarts
  BY <1>1, <1>13, <1>4 DEF ServerRestarts, QuietStep, Unserving
<1> QED
  BY <1>5, <1>6, <1>7, <1>8, <1>9, <1>10, <1>11, <1>12, <1>13, ConfirmServes, IssueServes, StampServes
     DEF Next, SaleNext, Checkout, CheckoutHold, CheckoutOpens, CheckoutFails, Provider, Emit, Handle,
         vars, saleVars

-----------------------------------------------------------------------------
LEMMA SaleTickets ==
  ASSUME TicketInv, [Next]_vars, UNCHANGED admitted,
         scanned' = scanned \/ scanned' = [g \in Scanners |-> {}]
  PROVE  TicketInv'
<1>1. DoorInv'
  BY SaleAtTheDoor DEF TicketInv
<1>2. SaleKeeps
  BY SaleServes DEF TicketInv, DoorInv
<1>3. OneHandler'
  BY <1>2, HandledOnceStep, DisjointStep DEF TicketInv, DoorInv, OneHandler, SaleKeeps
<1> QED
  BY <1>1, <1>2, <1>3 DEF TicketInv, SaleKeeps

(* A scan saves a ticket that is used then, whatever else it puts back.    *)
LEMMA ScanKeeps ==
  ASSUME TicketInv, DoorInv', ServedStay,
         UNCHANGED <<checkouts, sessions, processed, pc, job, todo, payments, notified>>
  PROVE  TicketInv'
<1>1. OneHandler'
  BY DEF TicketInv, OneHandler, HandledOnce, OrdersAreDisjoint, PaymentsAreNew
<1>2. HandlersServe'
  BY DEF TicketInv, HandlersServe, ServedStay, Served, Serving
<1>3. AnnouncedOrdersAreTicketed'
  BY DEF TicketInv, AnnouncedOrdersAreTicketed, ServedStay, Served
<1> QED
  BY <1>1, <1>2, <1>3 DEF TicketInv

LEMMA ScanTickets ==
  ASSUME TicketInv, NEW g \in Scanners, Scan(g) \/ ScanFails(g)
  PROVE  TicketInv'
<1>1. DoorInv'
  BY ScanReadInv, ScanSaveInv, ScanFailsInv DEF TicketInv, Scan
<1>2. UNCHANGED <<checkouts, sessions, processed, pc, job, todo, payments, notified>>
  BY DEF Scan, ScanRead, ScanSave, ScanFails, vars, saleVars
<1>3. ServedStay
  <2>1. CASE UNCHANGED tickets
    BY <2>1 DEF ServedStay, Served
  <2>2. ASSUME NEW t \in scanned[g], ScanSave(g, t) PROVE ServedStay
    <3>1. t \in [id: DOMAIN tickets, row: Ticket]
      BY DEF TicketInv, DoorInv, DoorTypeOK
    <3>2. /\ DOMAIN tickets' = DOMAIN tickets
          /\ \A q \in DOMAIN tickets : q # t.id => tickets'[q] = tickets[q]
          /\ tickets'[t.id].used
      BY <2>2, <3>1 DEF ScanSave, Used, Ticket
    <3> QED
      BY <3>2 DEF ServedStay, Served
  <2> QED
    BY <2>1, <2>2 DEF Scan, ScanRead, ScanFails, vars, saleVars
<1> QED
  BY <1>1, <1>2, <1>3, ScanKeeps

LEMMA TicketStep == TicketInv /\ [DoorNext]_allVars => TicketInv'
<1> SUFFICES ASSUME TicketInv, [DoorNext]_allVars PROVE TicketInv'
  OBVIOUS
<1>1. CASE SaleNext /\ UNCHANGED doorVars
  BY <1>1, SaleTickets DEF Next, doorVars
<1>2. CASE DoorRestarts
  BY <1>2, SaleTickets DEF DoorRestarts, Next
<1>3. ASSUME NEW g \in Scanners, Scan(g) \/ ScanFails(g) PROVE TicketInv'
  BY <1>3, ScanTickets
<1>4. CASE UNCHANGED allVars
  BY <1>4, SaleTickets DEF allVars, doorVars
<1> QED
  BY <1>1, <1>2, <1>3, <1>4 DEF DoorNext

LEMMA InitTickets == DoorInit => TicketInv
<1> SUFFICES ASSUME DoorInit PROVE TicketInv
  OBVIOUS
<1>1. DoorInv
  BY InitDoor
<1>2. OneHandler
  BY DEF DoorInit, Init, OneHandler, HandledOnce, OrdersAreDisjoint, PaymentsAreNew
<1>3. HandlersServe
  BY DEF DoorInit, Init, HandlersServe, Serving
<1>4. AnnouncedOrdersAreTicketed
  BY DEF DoorInit, Init, AnnouncedOrdersAreTicketed
<1> QED
  BY <1>1, <1>2, <1>3, <1>4 DEF TicketInv

LEMMA TicketInvariant == DoorSpec => []TicketInv
BY InitTickets, TicketStep, PTL DEF DoorSpec

-----------------------------------------------------------------------------
(* The columns that end a ticket stay as they are.                         *)
KeepsItsEnd(r) ==
  /\ r \in DOMAIN tickets'
  /\ tickets[r].refunded => tickets'[r].refunded
  /\ tickets[r].used => tickets'[r].used

(* No handler takes up a ticket that is done with: each order is paid for  *)
(* once, and that payment was recorded before there was a ticket.          *)
LEMMA SaleLeavesAlone ==
  ASSUME TicketInv, [Next]_vars, NEW r \in ReservationIds, LeftAlone(r)
  PROVE  (\A h \in Handlers : r \notin todo'[h]) /\ KeepsItsEnd(r)
<1> DEFINE Stays == (\A h \in Handlers : r \notin todo'[h]) /\ KeepsItsEnd(r)
<1>1. /\ todo \in [Handlers -> SUBSET ReservationIds] /\ pc \in [Handlers -> Step]
      /\ tickets[r] \in Ticket /\ r \in DOMAIN tickets /\ \A h \in Handlers : r \notin todo[h]
  BY DEF TicketInv, DoorInv, Inv, TypeOK, LeftAlone
<1>2. CASE UNCHANGED <<todo, tickets>>
  BY <1>1, <1>2 DEF KeepsItsEnd
<1>3. ASSUME NEW h \in Handlers, LookUp(h) \/ Mark(h) \/ Release(h) \/ Notify(h) \/ HandlerDies(h)
      PROVE  Stays
  BY <1>1, <1>3 DEF LookUp, Mark, Release, Notify, HandlerDies, EndsJob, GoesTo, KeepsItsEnd
<1>4. ASSUME NEW h \in Handlers, Confirm(h) PROVE Stays
  <2>1. r \notin job[h].order.res
    BY <1>1, <1>4, UnpaidIsUnserved DEF Confirm, Pays, TicketInv, DoorInv
  <2> QED
    BY <1>1, <1>4, <2>1 DEF Confirm, KeepsItsEnd
<1>5. ASSUME NEW h \in Handlers, Refund(h) PROVE Stays
  BY <1>1, <1>5 DEF Refund, GoesTo, Voided, Ticket, KeepsItsEnd
<1>6. ASSUME NEW h \in Handlers, NEW q \in ReservationIds, IssueTicket(h, q) PROVE Stays
  BY <1>1, <1>6 DEF IssueTicket, GoesTo, KeepsItsEnd
<1>7. ASSUME NEW h \in Handlers, NEW q \in ReservationIds, StampTicket(h, q) PROVE Stays
  <2>1. q # r
    BY <1>1, <1>7 DEF StampTicket
  <2> QED
    BY <1>1, <1>7, <2>1 DEF StampTicket, KeepsItsEnd
<1>8. CASE ServerRestarts
  BY <1>1, <1>8 DEF ServerRestarts, KeepsItsEnd
<1> QED
  BY <1>2, <1>3, <1>4, <1>5, <1>6, <1>7, <1>8
     DEF Next, SaleNext, Checkout, CheckoutHold, CheckoutOpens, CheckoutFails, Provider, Emit, Deliver,
         Handle, vars, saleVars

(* A ticket that is done with and refused is left alone by every step.     *)
LEMMA EndedStep ==
  ASSUME TicketInv, [DoorNext]_allVars, NEW r \in ReservationIds, LeftAlone(r), ~GoodForEntry(r)
  PROVE  LeftAlone(r)' /\ KeepsItsEnd(r) /\ admitted'[r] = admitted[r]
<1> DEFINE Stays == LeftAlone(r)' /\ KeepsItsEnd(r) /\ admitted'[r] = admitted[r]
<1>1. /\ scanned \in [Scanners -> SUBSET [id: DOMAIN tickets, row: Ticket]]
      /\ admitted \in [ReservationIds -> 0 .. MaxAdmissions]
      /\ r \in DOMAIN tickets
  BY DEF TicketInv, DoorInv, DoorTypeOK, LeftAlone
<1>2. ASSUME [Next]_vars, UNCHANGED admitted,
             scanned' = scanned \/ scanned' = [g \in Scanners |-> {}]
      PROVE  Stays
  BY <1>2, SaleLeavesAlone DEF LeftAlone, KeepsItsEnd
<1>3. ASSUME NEW g \in Scanners, NEW q \in ReservationIds, ScanRead(g, q) PROVE Stays
  <2>1. q # r /\ UNCHANGED <<tickets, todo, admitted>>
    BY <1>3 DEF ScanRead, vars, saleVars
  <2>2. \A x \in Scanners : \A t \in scanned'[x] : t.id # r
    BY <1>1, <1>3, <2>1 DEF ScanRead, LeftAlone
  <2> QED
    BY <1>1, <2>1, <2>2 DEF LeftAlone, KeepsItsEnd
<1>4. ASSUME NEW g \in Scanners, NEW t \in scanned[g], ScanSave(g, t) PROVE Stays
  <2>1. t.id # r /\ t.id \in DOMAIN tickets /\ todo' = todo
    BY <1>1, <1>4 DEF ScanSave, LeftAlone
  <2>2. tickets'[r] = tickets[r] /\ DOMAIN tickets' = DOMAIN tickets /\ admitted'[r] = admitted[r]
    BY <1>1, <1>4, <2>1 DEF ScanSave, Used
  <2>3. \A x \in Scanners : \A y \in scanned'[x] : y.id # r
    BY <1>1, <1>4 DEF ScanSave, LeftAlone
  <2> QED
    BY <1>1, <2>1, <2>2, <2>3 DEF LeftAlone, KeepsItsEnd
<1>5. ASSUME NEW g \in Scanners, ScanFails(g) PROVE Stays
  BY <1>1, <1>5 DEF ScanFails, saleVars, LeftAlone, KeepsItsEnd
<1> QED
  BY <1>2, <1>3, <1>4, <1>5 DEF DoorNext, DoorRestarts, Next, Scan, doorVars, allVars

(* A used ticket that no handler and no scan has in its hands never admits *)
(* anybody again: refunds, redeliveries and restarts leave it used.        *)
THEOREM SpentIsFinal == DoorSpec => SpentTicketsAdmitNobody
<1>1. TicketInv /\ [DoorNext]_allVars
        => [\A r \in ReservationIds : Spent(r) => Spent(r)' /\ admitted'[r] = admitted[r]]_allVars
  BY EndedStep DEF Spent, GoodForEntry, KeepsItsEnd
<1> QED
  BY <1>1, TicketInvariant, PTL DEF DoorSpec, SpentTicketsAdmitNobody

(* A confirmation is mailed when every ticket of the order is complete, or *)
(* has been used already, wherever deliveries die and scans overlap them.  *)
THEOREM AnnouncedTicketsExist == DoorSpec => []AnnouncedOrdersAreTicketed
<1>1. TicketInv => AnnouncedOrdersAreTicketed
  BY DEF TicketInv
<1> QED
  BY <1>1, TicketInvariant, PTL

(* A refunded ticket that no handler and no scan has in its hands never    *)
(* admits anybody again.                                                   *)
THEOREM VoidIsFinal == DoorSpec => VoidTicketsAdmitNobody
<1>1. TicketInv /\ [DoorNext]_allVars
        => [\A r \in ReservationIds : Void(r) => Void(r)' /\ admitted'[r] = admitted[r]]_allVars
  BY EndedStep DEF Void, GoodForEntry, KeepsItsEnd
<1> QED
  BY <1>1, TicketInvariant, PTL DEF DoorSpec, VoidTicketsAdmitNobody

(* What a payment finds pending it books in both tables, and what it does  *)
(* not it leaves alone in both.                                            *)
THEOREM PaymentsBookBoth == Spec => PaymentsBookWhatIsHeld
<1>1. ASSUME Inv, NEW h \in Handlers, Confirm(h), NEW r \in job[h].order.res
      PROVE  IF StatusOf(r) = "pending"
             THEN reservations'[r].status = "confirmed" /\ seatStatus'[SeatOf(r)] = "booked"
             ELSE reservations'[r] = reservations[r] /\ seatStatus'[SeatOf(r)] = seatStatus[SeatOf(r)]
  <2> DEFINE o == job[h].order
             R == ReservationsIn(o.res, "pending")
  <2>1. o.res \in SUBSET Rows /\ o.seats = {SeatOf(q) : q \in o.res}
    BY <1>1, JobIsAnOrder DEF Confirm
  <2>2. SeatsIn(o.seats, "reserved") = {SeatOf(q) : q \in R}
    BY <1>1, <2>1, FiltersMatch DEF Inv, SeatStatusFor
  <2>3. /\ reservations' = SetReservations(R, "confirmed")
        /\ seatStatus' = SetSeats({SeatOf(q) : q \in R}, "booked")
    BY <1>1, <2>2 DEF Confirm
  <2>4. r \in R <=> StatusOf(r) = "pending"
    BY <2>1 DEF ReservationsIn
  <2>5. r \in Rows /\ SeatOf(r) \in Seats /\ reservations[r] \in Row /\ seatStatus \in [Seats -> SeatStatus]
    BY <1>1, <2>1 DEF Inv, HoldInv, HoldTypeOK, Row, SeatOf
  <2>6. \A q \in Rows : SeatOf(q) = SeatOf(r) => q = r
    BY <1>1, <2>5 DEF Inv, HoldInv, OneRowPerSeat
  <2>7. SeatOf(r) \in {SeatOf(q) : q \in R} <=> r \in R
    BY <2>1, <2>6 DEF ReservationsIn
  <2> HIDE DEF R, o
  <2>8. reservations'[r] = (IF r \in R THEN [reservations[r] EXCEPT !.status = "confirmed"] ELSE reservations[r])
    BY <2>3, <2>5 DEF SetReservations
  <2>9. seatStatus'[SeatOf(r)] = (IF r \in R THEN "booked" ELSE seatStatus[SeatOf(r)])
    BY <2>3, <2>5, <2>7 DEF SetSeats
  <2> QED
    BY <2>4, <2>5, <2>8, <2>9 DEF Row
<1>2. Inv => [\A h \in Handlers : Confirm(h) =>
       \A r \in job[h].order.res :
         IF StatusOf(r) = "pending"
         THEN reservations'[r].status = "confirmed" /\ seatStatus'[SeatOf(r)] = "booked"
         ELSE reservations'[r] = reservations[r] /\ seatStatus'[SeatOf(r)] = seatStatus[SeatOf(r)]]_vars
  BY <1>1
<1> QED
  BY <1>2, Invariance, PTL DEF PaymentsBookWhatIsHeld

-----------------------------------------------------------------------------
(* A scan saves a whole ticket that it read earlier, and no seat or        *)
(* reservation: what the door does beside the flow is no step of a sale.   *)
LEMMA DoorLeavesReservations == [DoorNext]_allVars => [Next]_vars \/ UNCHANGED reservations
BY DEF DoorNext, Next, Scan, ScanRead, ScanSave, ScanFails, DoorRestarts, allVars, holdVars

(* With the scans of any number of doors, and their failures, beside it    *)
(* the flow still implements SeatLedger: a seat is sold once and to one.   *)
THEOREM DoorsLeaveTheLedger == DoorSpec => SellsEachSeatOnce
<1>1. DoorInv /\ DoorInv' /\ [DoorNext]_allVars => [Ledger!LedgerNext]_LedgerView
  <2> SUFFICES ASSUME Inv, Inv', [DoorNext]_allVars PROVE [Ledger!LedgerNext]_LedgerView
    BY DEF DoorInv
  <2>1. CASE [Next]_vars
    BY <2>1, StepOfLedger
  <2>2. CASE UNCHANGED reservations
    BY <2>2, LedgerUnchanged
  <2> QED
    BY <2>1, <2>2, DoorLeavesReservations
<1>2. DoorInit => Ledger!LedgerInit
  BY InitOfLedger DEF DoorInit
<1> QED
  BY <1>1, <1>2, DoorInvariant, PTL DEF DoorSpec, SellsEachSeatOnce, Ledger!LedgerSpec
=============================================================================
