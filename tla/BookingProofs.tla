---------------------------- MODULE BookingProofs ----------------------------
(***************************************************************************)
(* Proofs about selling seats.  The webhook handlers act on the keys they  *)
(* find in an order's metadata.  That metadata names existing rows, and    *)
(* exactly the seats of those rows, ties the handlers' separate updates of *)
(* the two tables to the agreement module ReservationsProofs establishes.  *)
(* On that rests that the flow implements SeatLedger.                      *)
(***************************************************************************)
EXTENDS Booking, ReservationsProofs

OrdersMatchRows ==
  \A o \in checkouts \cup sessions :
    /\ o.res \subseteq Rows
    /\ o.seats = {SeatOf(r) : r \in o.res}
    /\ \A r \in o.res : reservations[r].user = o.user

EventsOfSessions == \A e \in emitted : e.order \in sessions

PastMarker == {"handle", "tickets", "stamp", "notify"}

HandlersWork ==
  \A h \in Handlers :
    /\ pc[h] # "idle" => job[h] \in acked
    /\ pc[h] \in PastMarker => job[h] \in processed
    /\ todo[h] \subseteq Rows

Inv ==
  /\ TypeOK
  /\ HoldInv
  /\ OrdersMatchRows
  /\ EventsOfSessions
  /\ HandlersWork

-----------------------------------------------------------------------------
LEMMA InitInv == Init => Inv
<1> SUFFICES ASSUME Init PROVE Inv
  OBVIOUS
<1>1. HoldInv
  BY HoldInitInv DEF Init
<1>2. DOMAIN payments = {} /\ DOMAIN tickets = {}
  BY DEF Init
<1>3. TypeOK
  BY <1>1, <1>2 DEF Init, TypeOK, HoldInv, Step
<1> QED
  BY <1>1, <1>3 DEF Init, Inv, OrdersMatchRows, EventsOfSessions, HandlersWork,
                      PastMarker

(* The order a handler works on. *)
LEMMA JobIsAnOrder ==
  ASSUME Inv, NEW h \in Handlers, pc[h] # "idle"
  PROVE  /\ job[h] \in acked
         /\ job[h] \in Events
         /\ job[h].order \in sessions
         /\ job[h].order.res \in SUBSET Rows
         /\ job[h].order.seats = {SeatOf(r) : r \in job[h].order.res}
         /\ \A r \in job[h].order.res : reservations[r].user = job[h].order.user
<1>1. job[h] \in acked
  BY DEF Inv, HandlersWork
<1>2. job[h] \in Events /\ job[h].order \in sessions
  BY <1>1 DEF Inv, TypeOK, EventsOfSessions
<1> QED
  BY <1>1, <1>2 DEF Inv, OrdersMatchRows

(* A handler's transaction that moves the rows of its order from one       *)
(* status to another, and their seats with them.                           *)
LEMMA HandlerMoves ==
  ASSUME Inv, NEW h \in Handlers, pc[h] # "idle",
         NEW from \in {"pending", "confirmed"}, NEW to \in ReservationStatus,
         reservations' = SetReservations(ReservationsIn(job[h].order.res, from), to),
         seatStatus' = SetSeats(SeatsIn(job[h].order.seats, SeatStatusFor(from)), SeatStatusFor(to)),
         UNCHANGED <<sweep, eventStatus, faults>>
  PROVE  HoldInv' /\ RowsKept
<1> DEFINE o == job[h].order
           R == ReservationsIn(o.res, from)
<1>1. o.res \in SUBSET Rows /\ o.seats = {SeatOf(r) : r \in o.res}
  BY JobIsAnOrder
<1>2. HoldInv /\ HoldTypeOK
  BY DEF Inv, HoldInv
<1>3. SeatsIn(o.seats, SeatStatusFor(from)) = {SeatOf(r) : r \in R}
  BY <1>1, <1>2, FiltersMatch
<1>4. R \in SUBSET Rows
  BY DEF ReservationsIn
<1>5. seatStatus' = SetSeats({SeatOf(r) : r \in R}, SeatStatusFor(to))
  BY <1>3
<1>6. reservations' = SetReservations(R, to)
  OBVIOUS
<1> HIDE DEF R, o
<1>7. /\ Rows' = Rows
      /\ reservations' \in [Rows -> Row]
      /\ seatStatus' \in [Seats -> SeatStatus]
      /\ OneRowPerSeat'
      /\ SeatReservationAgreement'
  BY <1>2, <1>4, <1>5, <1>6, MovingTogether
<1>8. RowsKept
  BY <1>2, <1>6, SetReservationsKeepsRows
<1> QED
  BY <1>2, <1>7, <1>8 DEF HoldInv, HoldTypeOK, SweepsSawReserved

LEMMA HoldUnchanged == HoldInv /\ UNCHANGED holdVars => HoldInv' /\ RowsKept
<1>1. HoldInv /\ UNCHANGED holdVars => HoldInv'
  BY HoldStepInv
<1>2. UNCHANGED holdVars => RowsKept
  BY DEF holdVars, RowsKept, Rows
<1> QED
  BY <1>1, <1>2

(* Orders stay matched with rows that are kept. *)
LEMMA OrdersStay ==
  ASSUME OrdersMatchRows, RowsKept,
         checkouts' \cup sessions' \subseteq checkouts \cup sessions
  PROVE  OrdersMatchRows'
<1> SUFFICES ASSUME NEW o \in checkouts \cup sessions
             PROVE  /\ o.res \subseteq Rows'
                    /\ o.seats = {reservations'[r].seat : r \in o.res}
                    /\ \A r \in o.res : reservations'[r].user = o.user
  BY DEF OrdersMatchRows, SeatOf
<1>1. /\ o.res \subseteq Rows
      /\ o.seats = {reservations[r].seat : r \in o.res}
      /\ \A r \in o.res : reservations[r].user = o.user
  BY DEF OrdersMatchRows, SeatOf
<1>2. \A r \in o.res : /\ r \in Rows'
                       /\ reservations'[r].seat = reservations[r].seat
                       /\ reservations'[r].user = reservations[r].user
  BY <1>1 DEF RowsKept
<1>3. {reservations'[r].seat : r \in o.res} = {reservations[r].seat : r \in o.res}
  BY <1>2
<1> QED
  BY <1>1, <1>2, <1>3

(* The parts of Inv about the handlers when no marker or acknowledgement   *)
(* is lost and no handler but h moves.                                     *)
LEMMA OneHandlerMoves ==
  ASSUME Inv, NEW h \in Handlers, Rows \subseteq Rows', HoldTypeOK',
         acked \subseteq acked', processed \subseteq processed',
         pc' = [pc EXCEPT ![h] = pc'[h]], pc'[h] \in Step,
         job' = [job EXCEPT ![h] = job'[h]],
         job'[h] \in acked' \/ (pc'[h] = "idle" /\ job'[h] = NoEvent),
         pc'[h] \in PastMarker => job'[h] \in processed',
         todo' = [todo EXCEPT ![h] = todo'[h]], todo'[h] \subseteq Rows'
  PROVE  /\ HandlersWork'
         /\ pc' \in [Handlers -> Step]
         /\ job' \in [Handlers -> acked' \cup {NoEvent}]
         /\ todo' \in [Handlers -> SUBSET ReservationIds]
<1>1. /\ pc \in [Handlers -> Step]
      /\ job \in [Handlers -> acked \cup {NoEvent}]
      /\ todo \in [Handlers -> SUBSET ReservationIds]
      /\ HandlersWork
  BY DEF Inv, TypeOK
<1>2. job'[h] \in acked' \cup {NoEvent} /\ Rows' \subseteq ReservationIds
  BY DEF HoldTypeOK
<1>3. pc' \in [Handlers -> Step] /\ todo' \in [Handlers -> SUBSET ReservationIds]
  BY <1>1, <1>2
<1>4. job' \in [Handlers -> acked' \cup {NoEvent}]
  BY <1>1, <1>2
<1>5. ASSUME NEW g \in Handlers
      PROVE  /\ pc'[g] # "idle" => job'[g] \in acked'
             /\ pc'[g] \in PastMarker => job'[g] \in processed'
             /\ todo'[g] \subseteq Rows'
  <2>1. CASE g = h
    BY <1>1, <2>1
  <2>2. CASE g # h
    BY <1>1, <2>2 DEF HandlersWork
  <2> QED
    BY <2>1, <2>2
<1> QED
  BY <1>3, <1>4, <1>5 DEF HandlersWork

(* The two ways a handler goes on. *)
LEMMA EndsJobMoves ==
  ASSUME Inv, NEW h \in Handlers, EndsJob(h), Rows \subseteq Rows', HoldTypeOK',
         acked \subseteq acked', processed \subseteq processed'
  PROVE  /\ HandlersWork'
         /\ pc' \in [Handlers -> Step]
         /\ job' \in [Handlers -> acked' \cup {NoEvent}]
         /\ todo' \in [Handlers -> SUBSET ReservationIds]
<1>1. "idle" \in Step /\ "idle" \notin PastMarker
  BY DEF Step, PastMarker
<1>2. /\ pc' = [pc EXCEPT ![h] = "idle"]
      /\ job' = [job EXCEPT ![h] = NoEvent]
      /\ todo' = [todo EXCEPT ![h] = {}]
  BY DEF EndsJob
<1>3. pc'[h] = "idle" /\ job'[h] = NoEvent /\ todo'[h] = {}
  BY <1>2 DEF Inv, TypeOK
<1> QED
  BY <1>1, <1>2, <1>3, OneHandlerMoves

LEMMA GoesToMoves ==
  ASSUME Inv, NEW h \in Handlers, NEW step \in Step, GoesTo(h, step), Rows \subseteq Rows',
         HoldTypeOK', acked \subseteq acked', processed \subseteq processed',
         pc[h] # "idle", step # "idle",
         step \in PastMarker => job[h] \in processed'
  PROVE  /\ HandlersWork'
         /\ pc' \in [Handlers -> Step]
         /\ job' \in [Handlers -> acked' \cup {NoEvent}]
         /\ todo' \in [Handlers -> SUBSET ReservationIds]
<1>1. job[h] \in acked' /\ todo[h] \subseteq Rows'
  BY DEF Inv, HandlersWork
<1>2. /\ pc' = [pc EXCEPT ![h] = step]
      /\ job' = [job EXCEPT ![h] = job[h]]
      /\ todo' = [todo EXCEPT ![h] = todo[h]]
  BY DEF GoesTo, Inv, TypeOK
<1>3. pc'[h] = step /\ job'[h] = job[h] /\ todo'[h] = todo[h]
  BY <1>2 DEF Inv, TypeOK
<1> QED
  BY <1>1, <1>2, <1>3, OneHandlerMoves

-----------------------------------------------------------------------------
(* One lemma per action.                                                   *)

LEMMA HoldNextInv ==
  ASSUME Inv, HoldNext, UNCHANGED saleVars
  PROVE  Inv'
<1>1. HoldInv' /\ RowsKept /\ HoldTypeOK'
  BY HoldStepInv, HoldStepKeepsRows DEF Inv, HoldInv
<1>2. OrdersMatchRows'
  BY <1>1, OrdersStay DEF Inv, saleVars
<1>3. HandlersWork' /\ EventsOfSessions'
  BY <1>1 DEF Inv, HandlersWork, EventsOfSessions, saleVars, RowsKept
<1>4. TypeOK'
  BY <1>1 DEF Inv, TypeOK, saleVars, RowsKept
<1> QED
  BY <1>1, <1>2, <1>3, <1>4 DEF Inv

LEMMA CheckoutHoldInv ==
  ASSUME Inv, NEW u \in Users, NEW R \in SUBSET ReservationIds,
         NEW seatFor \in [R -> Seats], CheckoutHold(u, seatFor)
  PROVE  Inv'
<1> DEFINE o == [user |-> u, res |-> DOMAIN seatFor, seats |-> {seatFor[r] : r \in DOMAIN seatFor}]
<1>0. Create(u, seatFor)
  BY DEF CheckoutHold
<1>1. /\ HoldInv'
      /\ Rows' = Rows \cup R
      /\ \A r \in R : reservations'[r].seat = seatFor[r]
      /\ \A r \in Rows : reservations'[r] = reservations[r]
  BY <1>0, CreateInv DEF Inv
<1>2. \A r \in R : reservations'[r].user = u
  BY <1>0 DEF Create
<1>3. RowsKept /\ HoldTypeOK'
  BY <1>1 DEF RowsKept, HoldInv
<1>4. OrdersMatchRows'
  <2>1. ASSUME NEW q \in checkouts \cup sessions
        PROVE  /\ q.res \subseteq Rows'
               /\ q.seats = {reservations'[r].seat : r \in q.res}
               /\ \A r \in q.res : reservations'[r].user = q.user
    <3>1. /\ q.res \subseteq Rows
          /\ q.seats = {reservations[r].seat : r \in q.res}
          /\ \A r \in q.res : reservations[r].user = q.user
      BY DEF Inv, OrdersMatchRows, SeatOf
    <3>2. {reservations'[r].seat : r \in q.res} = {reservations[r].seat : r \in q.res}
      BY <1>1, <3>1
    <3> QED
      BY <1>1, <3>1, <3>2
  <2>2. o.res = R /\ o.user = u /\ o.seats = {seatFor[r] : r \in R}
    OBVIOUS
  <2>3. {reservations'[r].seat : r \in R} = {seatFor[r] : r \in R}
    BY <1>1
  <2>4. checkouts' = checkouts \cup {o} /\ sessions' = sessions
    BY DEF CheckoutHold
  <2> HIDE DEF o
  <2> QED
    BY <1>1, <1>2, <2>1, <2>2, <2>3, <2>4 DEF OrdersMatchRows, SeatOf
<1>5. HandlersWork' /\ EventsOfSessions'
  BY <1>1 DEF CheckoutHold, Inv, HandlersWork, EventsOfSessions
<1>6. checkouts' \subseteq Orders
  BY DEF CheckoutHold, Inv, TypeOK, Orders
<1>7. TypeOK'
  BY <1>1, <1>3, <1>6 DEF CheckoutHold, Inv, TypeOK
<1> QED
  BY <1>1, <1>4, <1>5, <1>7 DEF Inv

LEMMA CheckoutOpensInv ==
  ASSUME Inv, NEW o \in checkouts, CheckoutOpens(o)
  PROVE  Inv'
<1>1. HoldInv' /\ RowsKept /\ HoldTypeOK' /\ Rows' = Rows
  BY HoldUnchanged DEF CheckoutOpens, Inv, HoldInv, holdVars, Rows
<1>2. OrdersMatchRows'
  BY <1>1, OrdersStay DEF CheckoutOpens, Inv
<1>3. HandlersWork' /\ EventsOfSessions'
  BY <1>1 DEF CheckoutOpens, Inv, HandlersWork, EventsOfSessions
<1>4. TypeOK'
  BY <1>1 DEF CheckoutOpens, Inv, TypeOK
<1> QED
  BY <1>1, <1>2, <1>3, <1>4 DEF Inv

(* A failure spends the budget and touches no row. *)
LEMMA FailureKeepsRows ==
  ASSUME HoldInv, faults < MaxFaults, faults' = faults + 1,
         UNCHANGED <<seatStatus, reservations, eventStatus>>,
         sweep' = sweep \/ sweep' = [w \in Sweepers |-> {}]
  PROVE  HoldInv' /\ RowsKept /\ HoldTypeOK' /\ Rows' = Rows
<1>1. faults' \in 0 .. MaxFaults
  BY FaultBudget DEF HoldInv, HoldTypeOK
<1>2. Rows' = Rows /\ RowsKept
  BY DEF Rows, RowsKept
<1>3. SweepsSawReserved' /\ sweep' \in [Sweepers -> SUBSET StaleRow]
  BY <1>2 DEF HoldInv, HoldTypeOK, SweepsSawReserved
<1>4. HoldTypeOK'
  BY <1>1, <1>2, <1>3 DEF HoldInv, HoldTypeOK
<1>5. OneRowPerSeat' /\ SeatReservationAgreement'
  BY <1>2 DEF HoldInv, OneRowPerSeat, SeatReservationAgreement, SeatOf, StatusOf, HasRow
<1> QED
  BY <1>2, <1>3, <1>4, <1>5 DEF HoldInv

LEMMA CheckoutFailsInv ==
  ASSUME Inv, NEW o \in checkouts, CheckoutFails(o)
  PROVE  Inv'
<1>1. HoldInv' /\ RowsKept /\ HoldTypeOK' /\ Rows' = Rows
  BY FailureKeepsRows DEF CheckoutFails, Inv
<1>2. OrdersMatchRows'
  BY <1>1, OrdersStay DEF CheckoutFails, Inv
<1>3. HandlersWork' /\ EventsOfSessions'
  BY <1>1 DEF CheckoutFails, Inv, HandlersWork, EventsOfSessions
<1>4. TypeOK'
  BY <1>1 DEF CheckoutFails, Inv, TypeOK
<1> QED
  BY <1>1, <1>2, <1>3, <1>4 DEF Inv

LEMMA EmitInv ==
  ASSUME Inv, NEW t \in EventType, NEW o \in sessions, Emit(t, o)
  PROVE  Inv'
<1>1. HoldInv' /\ RowsKept /\ HoldTypeOK' /\ Rows' = Rows
  BY HoldUnchanged DEF Emit, Inv, HoldInv, holdVars, Rows
<1>2. OrdersMatchRows'
  BY <1>1, OrdersStay DEF Emit, Inv
<1>3. Event(t, o) \in Events /\ Event(t, o).order = o
  BY DEF Event, Events, Inv, TypeOK
<1>4. HandlersWork' /\ EventsOfSessions'
  BY <1>1, <1>3 DEF Emit, Inv, HandlersWork, EventsOfSessions
<1>5. TypeOK'
  BY <1>1, <1>3 DEF Emit, Inv, TypeOK
<1> QED
  BY <1>1, <1>2, <1>4, <1>5 DEF Inv

LEMMA DeliverInv ==
  ASSUME Inv, NEW h \in Handlers, NEW e \in emitted, Deliver(h, e)
  PROVE  Inv'
<1>1. HoldInv' /\ RowsKept /\ HoldTypeOK' /\ Rows' = Rows
  BY HoldUnchanged DEF Deliver, Inv, HoldInv, holdVars, Rows
<1>2. OrdersMatchRows' /\ EventsOfSessions'
  BY <1>1, OrdersStay DEF Deliver, Inv, EventsOfSessions
<1>3. acked' = acked \cup {e} /\ processed' = processed
  BY DEF Deliver, Acknowledged
<1>4. /\ pc' = [pc EXCEPT ![h] = "lookup"]
      /\ job' = [job EXCEPT ![h] = e]
      /\ todo' = [todo EXCEPT ![h] = todo[h]]
  BY DEF Deliver, Inv, TypeOK
<1>5. /\ pc'[h] = "lookup" /\ job'[h] = e /\ todo'[h] = todo[h]
      /\ job'[h] \in acked'
  BY <1>3, <1>4 DEF Inv, TypeOK
<1>6. "lookup" \in Step /\ "lookup" \notin PastMarker /\ todo[h] \subseteq Rows'
  BY <1>1 DEF Step, PastMarker, Inv, HandlersWork
<1>7. /\ HandlersWork'
      /\ pc' \in [Handlers -> Step]
      /\ job' \in [Handlers -> acked' \cup {NoEvent}]
      /\ todo' \in [Handlers -> SUBSET ReservationIds]
  BY <1>1, <1>3, <1>4, <1>5, <1>6, OneHandlerMoves
<1>8. TypeOK'
  BY <1>1, <1>3, <1>7 DEF Deliver, Inv, TypeOK
<1> QED
  BY <1>1, <1>2, <1>7, <1>8 DEF Inv

LEMMA LookUpInv ==
  ASSUME Inv, NEW h \in Handlers, LookUp(h)
  PROVE  Inv'
<1>1. HoldInv' /\ RowsKept /\ HoldTypeOK' /\ Rows' = Rows
  BY HoldUnchanged DEF LookUp, Inv, HoldInv, holdVars, Rows
<1>2. OrdersMatchRows' /\ EventsOfSessions'
  BY <1>1, OrdersStay DEF LookUp, Inv, EventsOfSessions
<1>3. "mark" \in Step /\ "mark" \notin PastMarker
  BY DEF Step, PastMarker
<1>4. /\ HandlersWork'
      /\ pc' \in [Handlers -> Step]
      /\ job' \in [Handlers -> acked' \cup {NoEvent}]
      /\ todo' \in [Handlers -> SUBSET ReservationIds]
  <2>1. CASE EndsJob(h)
    BY <1>1, <2>1, EndsJobMoves DEF LookUp
  <2>2. CASE GoesTo(h, "mark")
    BY <1>1, <1>3, <2>2, GoesToMoves DEF LookUp
  <2> QED
    BY <2>1, <2>2 DEF LookUp
<1>5. TypeOK'
  BY <1>1, <1>4 DEF LookUp, Inv, TypeOK
<1> QED
  BY <1>1, <1>2, <1>4, <1>5 DEF Inv

LEMMA MarkInv ==
  ASSUME Inv, NEW h \in Handlers, Mark(h)
  PROVE  Inv'
<1>1. HoldInv' /\ RowsKept /\ HoldTypeOK' /\ Rows' = Rows
  BY HoldUnchanged DEF Mark, Inv, HoldInv, holdVars, Rows
<1>2. OrdersMatchRows' /\ EventsOfSessions'
  BY <1>1, OrdersStay DEF Mark, Inv, EventsOfSessions
<1>3. "handle" \in Step
  BY DEF Step
<1>4. job[h] \in acked /\ pc[h] # "idle"
  BY JobIsAnOrder DEF Mark
<1>5. /\ HandlersWork'
      /\ pc' \in [Handlers -> Step]
      /\ job' \in [Handlers -> acked' \cup {NoEvent}]
      /\ todo' \in [Handlers -> SUBSET ReservationIds]
      /\ processed \subseteq processed' /\ processed' \subseteq acked
  <2>1. CASE EndsJob(h) /\ UNCHANGED processed
    BY <1>1, <2>1, EndsJobMoves DEF Mark, Inv, TypeOK
  <2>2. CASE GoesTo(h, "handle") /\ processed' = processed \cup {job[h]}
    BY <1>1, <1>3, <1>4, <2>2, GoesToMoves DEF Mark, Inv, TypeOK
  <2> QED
    BY <2>1, <2>2 DEF Mark
<1>6. TypeOK'
  BY <1>1, <1>5 DEF Mark, Inv, TypeOK
<1> QED
  BY <1>1, <1>2, <1>5, <1>6 DEF Inv

LEMMA ConfirmInv ==
  ASSUME Inv, NEW h \in Handlers, Confirm(h)
  PROVE  Inv' /\ RowsKept
<1>1. HoldInv' /\ RowsKept
  <2>1. SeatStatusFor("pending") = "reserved" /\ SeatStatusFor("confirmed") = "booked"
    BY DEF SeatStatusFor
  <2>2. /\ reservations' = SetReservations(ReservationsIn(job[h].order.res, "pending"), "confirmed")
        /\ seatStatus' = SetSeats(SeatsIn(job[h].order.seats, SeatStatusFor("pending")),
                                  SeatStatusFor("confirmed"))
        /\ UNCHANGED <<sweep, eventStatus, faults>>
        /\ pc[h] # "idle"
    BY <2>1 DEF Confirm
  <2> QED
    BY <2>2, HandlerMoves DEF ReservationStatus
<1>2. HoldTypeOK' /\ Rows \subseteq Rows'
  BY <1>1 DEF HoldInv, RowsKept
<1>3. OrdersMatchRows' /\ EventsOfSessions'
  BY <1>1, OrdersStay DEF Confirm, Inv, EventsOfSessions
<1>4. /\ job[h] \in acked /\ job[h] \in processed
      /\ job[h].order.res \in SUBSET Rows
  BY JobIsAnOrder DEF Confirm, Inv, HandlersWork, PastMarker
<1>5. /\ HandlersWork'
      /\ pc' \in [Handlers -> Step]
      /\ job' \in [Handlers -> acked' \cup {NoEvent}]
      /\ todo' \in [Handlers -> SUBSET ReservationIds]
  <2>1. /\ pc' = [pc EXCEPT ![h] = "tickets"]
        /\ job' = [job EXCEPT ![h] = job[h]]
        /\ todo' = [todo EXCEPT ![h] = job[h].order.res]
        /\ acked' = acked /\ processed' = processed
    BY DEF Confirm, Inv, TypeOK
  <2>2. /\ pc'[h] = "tickets" /\ job'[h] = job[h] /\ todo'[h] = job[h].order.res
        /\ todo'[h] \subseteq Rows'
    BY <1>2, <1>4, <2>1 DEF Inv, TypeOK
  <2>3. pc'[h] \in Step /\ job'[h] \in acked' /\ job'[h] \in processed'
    BY <1>4, <2>1, <2>2 DEF Step
  <2> QED
    BY <1>2, <1>4, <2>1, <2>2, <2>3, OneHandlerMoves
<1>6. DOMAIN payments' \subseteq processed' /\ payments' \in [DOMAIN payments' -> PaymentStatus]
  BY <1>4 DEF Confirm, Recorded, Inv, TypeOK, PaymentStatus
<1>7. TypeOK'
  BY <1>2, <1>5, <1>6 DEF Confirm, Inv, TypeOK
<1> QED
  BY <1>1, <1>3, <1>5, <1>7 DEF Inv

LEMMA IssueTicketInv ==
  ASSUME Inv, NEW h \in Handlers, NEW r \in ReservationIds, IssueTicket(h, r)
  PROVE  Inv'
<1>1. HoldInv' /\ RowsKept /\ HoldTypeOK' /\ Rows' = Rows
  BY HoldUnchanged DEF IssueTicket, Inv, HoldInv, holdVars, Rows
<1>2. OrdersMatchRows' /\ EventsOfSessions'
  BY <1>1, OrdersStay DEF IssueTicket, Inv, EventsOfSessions
<1>3. job[h] \in processed /\ r \in Rows
  BY DEF IssueTicket, Inv, HandlersWork, PastMarker
<1>4. /\ HandlersWork'
      /\ pc' \in [Handlers -> Step]
      /\ job' \in [Handlers -> acked' \cup {NoEvent}]
      /\ todo' \in [Handlers -> SUBSET ReservationIds]
  BY <1>1, <1>3, GoesToMoves DEF IssueTicket, Step
<1>5. DOMAIN tickets' \subseteq Rows' /\ tickets' \in [DOMAIN tickets' -> Ticket]
  BY <1>1, <1>3 DEF IssueTicket, Inv, TypeOK, Ticket
<1>6. TypeOK'
  BY <1>1, <1>4, <1>5 DEF IssueTicket, Inv, TypeOK
<1> QED
  BY <1>1, <1>2, <1>4, <1>6 DEF Inv

LEMMA StampTicketInv ==
  ASSUME Inv, NEW h \in Handlers, NEW r \in ReservationIds, StampTicket(h, r)
  PROVE  Inv'
<1>1. HoldInv' /\ RowsKept /\ HoldTypeOK' /\ Rows' = Rows
  BY HoldUnchanged DEF StampTicket, Inv, HoldInv, holdVars, Rows
<1>2. OrdersMatchRows' /\ EventsOfSessions'
  BY <1>1, OrdersStay DEF StampTicket, Inv, EventsOfSessions
<1>3. job[h] \in processed /\ job[h] \in acked
  BY DEF StampTicket, Inv, HandlersWork, PastMarker
<1>4. /\ HandlersWork'
      /\ pc' \in [Handlers -> Step]
      /\ job' \in [Handlers -> acked' \cup {NoEvent}]
      /\ todo' \in [Handlers -> SUBSET ReservationIds]
  <2>1. /\ pc' = [pc EXCEPT ![h] = AfterStamp(h, r)]
        /\ job' = [job EXCEPT ![h] = job[h]]
        /\ todo' = [todo EXCEPT ![h] = todo[h] \ {r}]
        /\ acked' = acked /\ processed' = processed
    BY DEF StampTicket, Inv, TypeOK
  <2>2. pc'[h] = AfterStamp(h, r) /\ job'[h] = job[h] /\ todo'[h] = todo[h] \ {r}
    BY <2>1 DEF Inv, TypeOK
  <2>3. pc'[h] \in Step /\ job'[h] \in acked' /\ job'[h] \in processed'
    BY <1>3, <2>1, <2>2 DEF AfterStamp, Step
  <2>4. todo'[h] \subseteq Rows'
    BY <1>1, <2>2 DEF Inv, HandlersWork
  <2> QED
    BY <1>1, <1>3, <2>1, <2>2, <2>3, <2>4, OneHandlerMoves
<1>5. DOMAIN tickets' \subseteq Rows' /\ tickets' \in [DOMAIN tickets' -> Ticket]
  BY <1>1 DEF StampTicket, Inv, TypeOK, Ticket
<1>6. TypeOK'
  BY <1>1, <1>4, <1>5 DEF StampTicket, Inv, TypeOK
<1> QED
  BY <1>1, <1>2, <1>4, <1>6 DEF Inv

LEMMA ReleaseInv ==
  ASSUME Inv, NEW h \in Handlers, Release(h)
  PROVE  Inv' /\ RowsKept
<1>1. HoldInv' /\ RowsKept
  <2>1. SeatStatusFor("pending") = "reserved" /\ SeatStatusFor("expired") = "available"
    BY DEF SeatStatusFor
  <2>2. /\ reservations' = SetReservations(ReservationsIn(job[h].order.res, "pending"), "expired")
        /\ seatStatus' = SetSeats(SeatsIn(job[h].order.seats, SeatStatusFor("pending")),
                                  SeatStatusFor("expired"))
        /\ UNCHANGED <<sweep, eventStatus, faults>>
        /\ pc[h] # "idle"
    BY <2>1 DEF Release
  <2> QED
    BY <2>2, HandlerMoves DEF ReservationStatus
<1>2. HoldTypeOK' /\ Rows \subseteq Rows'
  BY <1>1 DEF HoldInv, RowsKept
<1>3. OrdersMatchRows' /\ EventsOfSessions'
  BY <1>1, OrdersStay DEF Release, Inv, EventsOfSessions
<1>4. job[h] \in processed
  BY DEF Release, Inv, HandlersWork, PastMarker
<1>5. /\ HandlersWork'
      /\ pc' \in [Handlers -> Step]
      /\ job' \in [Handlers -> acked' \cup {NoEvent}]
      /\ todo' \in [Handlers -> SUBSET ReservationIds]
  <2>1. CASE EndsJob(h)
    BY <1>2, <2>1, EndsJobMoves DEF Release
  <2>2. CASE GoesTo(h, "notify")
    BY <1>2, <1>4, <2>2, GoesToMoves DEF Release, Step
  <2> QED
    BY <2>1, <2>2 DEF Release
<1>6. TypeOK'
  BY <1>2, <1>5 DEF Release, Inv, TypeOK
<1> QED
  BY <1>1, <1>3, <1>5, <1>6 DEF Inv

LEMMA RefundInv ==
  ASSUME Inv, NEW h \in Handlers, Refund(h)
  PROVE  Inv' /\ RowsKept
<1>1. HoldInv' /\ RowsKept
  <2>1. SeatStatusFor("confirmed") = "booked" /\ SeatStatusFor("refunded") = "available"
    BY DEF SeatStatusFor
  <2>2. /\ reservations' = SetReservations(ReservationsIn(job[h].order.res, "confirmed"), "refunded")
        /\ seatStatus' = SetSeats(SeatsIn(job[h].order.seats, SeatStatusFor("confirmed")),
                                  SeatStatusFor("refunded"))
        /\ UNCHANGED <<sweep, eventStatus, faults>>
        /\ pc[h] # "idle"
    BY <2>1 DEF Refund
  <2> QED
    BY <2>2, HandlerMoves DEF ReservationStatus
<1>2. HoldTypeOK' /\ Rows \subseteq Rows'
  BY <1>1 DEF HoldInv, RowsKept
<1>3. OrdersMatchRows' /\ EventsOfSessions'
  BY <1>1, OrdersStay DEF Refund, Inv, EventsOfSessions
<1>4. job[h] \in processed
  BY DEF Refund, Inv, HandlersWork, PastMarker
<1>5. /\ HandlersWork'
      /\ pc' \in [Handlers -> Step]
      /\ job' \in [Handlers -> acked' \cup {NoEvent}]
      /\ todo' \in [Handlers -> SUBSET ReservationIds]
  BY <1>2, <1>4, GoesToMoves DEF Refund, Step
<1>6. DOMAIN payments' \subseteq processed' /\ payments' \in [DOMAIN payments' -> PaymentStatus]
  BY DEF Refund, PaidBack, Inv, TypeOK, PaymentStatus
<1>7. DOMAIN tickets' \subseteq Rows' /\ tickets' \in [DOMAIN tickets' -> Ticket]
  BY <1>2 DEF Refund, Voided, Inv, TypeOK, Ticket
<1>8. TypeOK'
  BY <1>2, <1>5, <1>6, <1>7 DEF Refund, Inv, TypeOK
<1> QED
  BY <1>1, <1>3, <1>5, <1>8 DEF Inv

LEMMA NotifyInv ==
  ASSUME Inv, NEW h \in Handlers, Notify(h)
  PROVE  Inv'
<1>1. HoldInv' /\ RowsKept /\ HoldTypeOK' /\ Rows' = Rows
  BY HoldUnchanged DEF Notify, Inv, HoldInv, holdVars, Rows
<1>2. OrdersMatchRows' /\ EventsOfSessions'
  BY <1>1, OrdersStay DEF Notify, Inv, EventsOfSessions
<1>3. job[h] \in processed
  BY DEF Notify, Inv, HandlersWork, PastMarker
<1>4. /\ HandlersWork'
      /\ pc' \in [Handlers -> Step]
      /\ job' \in [Handlers -> acked' \cup {NoEvent}]
      /\ todo' \in [Handlers -> SUBSET ReservationIds]
  BY <1>1, EndsJobMoves DEF Notify
<1>5. TypeOK'
  BY <1>1, <1>3, <1>4 DEF Notify, Inv, TypeOK
<1> QED
  BY <1>1, <1>2, <1>4, <1>5 DEF Inv

LEMMA HandlerDiesInv ==
  ASSUME Inv, NEW h \in Handlers, HandlerDies(h)
  PROVE  Inv'
<1>1. HoldInv' /\ RowsKept /\ HoldTypeOK' /\ Rows' = Rows
  BY FailureKeepsRows DEF HandlerDies, Inv
<1>2. OrdersMatchRows' /\ EventsOfSessions'
  BY <1>1, OrdersStay DEF HandlerDies, Inv, EventsOfSessions
<1>3. /\ HandlersWork'
      /\ pc' \in [Handlers -> Step]
      /\ job' \in [Handlers -> acked' \cup {NoEvent}]
      /\ todo' \in [Handlers -> SUBSET ReservationIds]
  BY <1>1, EndsJobMoves DEF HandlerDies
<1>4. TypeOK'
  BY <1>1, <1>3 DEF HandlerDies, Inv, TypeOK
<1> QED
  BY <1>1, <1>2, <1>3, <1>4 DEF Inv

LEMMA ServerRestartsInv ==
  ASSUME Inv, ServerRestarts
  PROVE  Inv'
<1>1. HoldInv' /\ RowsKept /\ HoldTypeOK' /\ Rows' = Rows
  BY FailureKeepsRows DEF ServerRestarts, Inv
<1>2. OrdersMatchRows' /\ EventsOfSessions'
  BY <1>1, OrdersStay DEF ServerRestarts, Inv, EventsOfSessions
<1>3. HandlersWork'
  BY DEF ServerRestarts, HandlersWork, PastMarker
<1>4. TypeOK'
  BY <1>1 DEF ServerRestarts, Inv, TypeOK, Step
<1> QED
  BY <1>1, <1>2, <1>3, <1>4 DEF Inv

LEMMA StutterInv ==
  ASSUME Inv, UNCHANGED vars
  PROVE  Inv'
<1>1. HoldInv' /\ RowsKept /\ HoldTypeOK' /\ Rows' = Rows
  BY HoldUnchanged DEF vars, Inv, HoldInv, holdVars, Rows
<1>2. OrdersMatchRows'
  BY <1>1, OrdersStay DEF vars, saleVars, Inv
<1> QED
  BY <1>1, <1>2 DEF vars, saleVars, Inv, TypeOK, HandlersWork, EventsOfSessions

LEMMA NextInv == Inv /\ [Next]_vars => Inv'
<1> SUFFICES ASSUME Inv, [Next]_vars PROVE Inv'
  OBVIOUS
<1>1. CASE HoldNext /\ UNCHANGED saleVars
  BY <1>1, HoldNextInv
<1>2. CASE Checkout
  <2>1. PICK u \in Users, R \in SUBSET ReservationIds :
          \E seatFor \in [R -> Seats] : CheckoutHold(u, seatFor)
    BY <1>2 DEF Checkout
  <2>2. PICK seatFor \in [R -> Seats] : CheckoutHold(u, seatFor)
    BY <2>1
  <2> QED
    BY <2>2, CheckoutHoldInv
<1>3. ASSUME NEW o \in checkouts, CheckoutOpens(o) \/ CheckoutFails(o) PROVE Inv'
  BY <1>3, CheckoutOpensInv, CheckoutFailsInv
<1>4. CASE Provider
  BY <1>4, EmitInv, DeliverInv DEF Provider
<1>5. ASSUME NEW h \in Handlers, Handle(h) PROVE Inv'
  BY <1>5, LookUpInv, MarkInv, ConfirmInv, IssueTicketInv, StampTicketInv, ReleaseInv,
     RefundInv, NotifyInv DEF Handle
<1>6. ASSUME NEW h \in Handlers, HandlerDies(h) PROVE Inv'
  BY <1>6, HandlerDiesInv
<1>7. CASE ServerRestarts
  BY <1>7, ServerRestartsInv
<1>8. CASE UNCHANGED vars
  BY <1>8, StutterInv
<1> QED
  BY <1>1, <1>2, <1>3, <1>4, <1>5, <1>6, <1>7, <1>8 DEF Next, SaleNext

LEMMA Invariance == Spec => []Inv
BY InitInv, NextInv, PTL DEF Spec

-----------------------------------------------------------------------------
(* Sessions, markers, handlers, payments and tickets stay well typed: in   *)
(* particular a payment only exists for an event that has its marker, and  *)
(* a ticket only for a reservation that exists.                            *)
THEOREM TypeCorrect == Spec => []TypeOK
<1>1. Inv => TypeOK
  BY DEF Inv
<1> QED
  BY <1>1, Invariance, PTL

(* However sweeps, cancellations, checkouts and any number of concurrent   *)
(* webhook deliveries interleave and wherever they die, a seat is reserved *)
(* iff its reservation is pending and booked iff it is confirmed.          *)
THEOREM Agreement == Spec => []SeatReservationAgreement
<1>1. Inv => SeatReservationAgreement
  BY DEF Inv, HoldInv
<1> QED
  BY <1>1, Invariance, PTL

-----------------------------------------------------------------------------
LEMMA HandledOnceStep == Inv /\ HandledOnce /\ [Next]_vars => HandledOnce'
<1> SUFFICES ASSUME Inv, HandledOnce, [Next]_vars,
                    NEW h1 \in Handlers, NEW h2 \in Handlers,
                    pc'[h1] \in PastMarker, pc'[h2] \in PastMarker, job'[h1] = job'[h2]
             PROVE  h1 = h2
  BY DEF HandledOnce, PastMarker
<1>1. \A h \in Handlers : pc[h] \in PastMarker => job[h] \in processed
  BY DEF Inv, HandlersWork
<1>2. (pc[h1] \in PastMarker /\ pc[h2] \in PastMarker /\ job[h1] = job[h2]) => h1 = h2
  BY DEF HandledOnce, PastMarker
(* A handler gets past the marker only by writing it. *)
<1>3. \A h \in Handlers : pc'[h] \in PastMarker =>
        /\ job'[h] = job[h]
        /\ pc[h] \in PastMarker \/ (job[h] \notin processed /\ Mark(h))
  <2> SUFFICES ASSUME NEW h \in Handlers, pc'[h] \in PastMarker
               PROVE  /\ job'[h] = job[h]
                      /\ pc[h] \in PastMarker \/ (job[h] \notin processed /\ Mark(h))
    OBVIOUS
  <2> USE DEF PastMarker, EndsJob, GoesTo, Inv, TypeOK
  <2>1. CASE UNCHANGED <<pc, job>>
    BY <2>1
  <2>2. ASSUME NEW g \in Handlers, NEW e \in emitted, Deliver(g, e)
        PROVE  job'[h] = job[h] /\ pc[h] \in PastMarker
    BY <2>2 DEF Deliver
  <2>3. ASSUME NEW g \in Handlers, LookUp(g)
        PROVE  job'[h] = job[h] /\ pc[h] \in PastMarker
    BY <2>3 DEF LookUp
  <2>4. ASSUME NEW g \in Handlers, Mark(g)
        PROVE  /\ job'[h] = job[h]
               /\ pc[h] \in PastMarker \/ (job[h] \notin processed /\ Mark(h))
    BY <2>4 DEF Mark, MarkerTaken
  <2>5. ASSUME NEW g \in Handlers,
               \/ Confirm(g) \/ Release(g) \/ Refund(g) \/ Notify(g) \/ HandlerDies(g)
               \/ \E r \in ReservationIds : IssueTicket(g, r) \/ StampTicket(g, r)
        PROVE  job'[h] = job[h] /\ pc[h] \in PastMarker
    BY <2>5 DEF Confirm, Release, Refund, Notify, HandlerDies, IssueTicket, StampTicket,
                AfterStamp
  <2>6. CASE ServerRestarts
    BY <2>6 DEF ServerRestarts
  <2> QED
    BY <2>1, <2>2, <2>3, <2>4, <2>5, <2>6
       DEF Next, SaleNext, vars, saleVars, Checkout, CheckoutHold, CheckoutOpens, CheckoutFails,
           Provider, Emit, Handle
<1>4. \A g, h \in Handlers : Mark(g) /\ pc'[h] \in PastMarker /\ pc[h] \notin PastMarker => g = h
  BY DEF Mark, EndsJob, GoesTo, Inv, TypeOK, PastMarker
<1> QED
  BY <1>1, <1>2, <1>3, <1>4

(* Of any number of deliveries of an event, handled at the same time or    *)
(* not, at most one ever gets to change anything.                          *)
THEOREM Idempotence == Spec => []HandledOnce
<1>1. Init => HandledOnce
  BY DEF Init, HandledOnce
<1> QED
  BY <1>1, HandledOnceStep, Invariance, PTL DEF Spec

-----------------------------------------------------------------------------
(* The ledger.  The unique key makes the entry of a seat that of one       *)
(* reservation for good, so a transaction that moves reservations is one   *)
(* step of the ledger, or none where it writes an end over an end.         *)
SeatsOf(R) == {SeatOf(r) : r \in R}

(* The entries of the ledger, reservation by reservation. *)
EntriesAreRows ==
  /\ LedgerView = [s \in Seats |-> LedgerView[s]]
  /\ \A r \in Rows : /\ SeatOf(r) \in Seats
                     /\ LedgerView[SeatOf(r)] =
                          [state |-> SaleState(StatusOf(r)), holder |-> reservations[r].user]
  /\ \A s \in Seats : ~HasRow(s) => LedgerView[s] = [state |-> "free", holder |-> NoOne]

LEMMA LedgerEntries == HoldInv => EntriesAreRows
<1> SUFFICES ASSUME HoldInv PROVE EntriesAreRows
  OBVIOUS
<1>1. \A r \in Rows : HasRow(SeatOf(r)) /\ SeatOf(r) \in Seats
  BY DEF HoldInv, HoldTypeOK, HasRow, SeatOf, Row
<1>2. \A r \in Rows : RowOf(SeatOf(r)) = r
  <2> SUFFICES ASSUME NEW r \in Rows PROVE RowOf(SeatOf(r)) = r
    OBVIOUS
  <2>1. RowOf(SeatOf(r)) \in Rows /\ SeatOf(RowOf(SeatOf(r))) = SeatOf(r)
    BY DEF RowOf
  <2> QED
    BY <2>1 DEF HoldInv, OneRowPerSeat
<1>3. LedgerView = [s \in Seats |-> LedgerView[s]]
  BY DEF LedgerView
<1>4. \A s \in Seats : ~HasRow(s) => LedgerView[s] = [state |-> "free", holder |-> NoOne]
  BY DEF LedgerView
<1>5. \A r \in Rows : LedgerView[SeatOf(r)] =
        [state |-> SaleState(StatusOf(r)), holder |-> reservations[r].user]
  BY <1>1, <1>2 DEF LedgerView
<1> QED
  BY <1>1, <1>3, <1>4, <1>5 DEF EntriesAreRows

LEMMA LedgerEntriesAfter == HoldInv' => EntriesAreRows'
BY LedgerEntries, PTL

LEMMA LedgerUnchanged == UNCHANGED reservations => UNCHANGED LedgerView
BY DEF LedgerView, HasRow, RowOf, Rows, SeatOf, StatusOf

-----------------------------------------------------------------------------
(* What a transaction that moves the rows R does to the ledger. *)
LEMMA MovedEntries ==
  ASSUME HoldInv, HoldInv', NEW R \in SUBSET Rows, NEW st \in ReservationStatus,
         reservations' = SetReservations(R, st)
  PROVE  LedgerView' = [s \in Seats |->
           IF s \in SeatsOf(R) THEN [LedgerView[s] EXCEPT !.state = SaleState(st)]
                               ELSE LedgerView[s]]
<1>1. EntriesAreRows /\ EntriesAreRows'
  BY LedgerEntries, LedgerEntriesAfter
<1>2. Rows' = Rows
  BY DEF Rows, SetReservations
<1>3. \A r \in Rows : /\ reservations'[r].seat = reservations[r].seat
                      /\ reservations'[r].user = reservations[r].user
                      /\ reservations'[r].status = (IF r \in R THEN st ELSE reservations[r].status)
  BY DEF SetReservations, HoldInv, HoldTypeOK, Row
<1>4. \A r \in Rows : (SeatOf(r) \in SeatsOf(R)) <=> r \in R
  BY DEF SeatsOf, HoldInv, OneRowPerSeat
<1>5. ASSUME NEW s \in Seats
      PROVE  LedgerView'[s] = IF s \in SeatsOf(R)
                              THEN [LedgerView[s] EXCEPT !.state = SaleState(st)]
                              ELSE LedgerView[s]
  <2>1. CASE HasRow(s)
    <3>1. PICK r \in Rows : reservations[r].seat = s
      BY <2>1 DEF HasRow, SeatOf
    <3>2. LedgerView[s] = [state |-> SaleState(reservations[r].status), holder |-> reservations[r].user]
      BY <1>1, <3>1 DEF EntriesAreRows, SeatOf, StatusOf
    <3>3. LedgerView'[s] = [state |-> SaleState(reservations'[r].status), holder |-> reservations'[r].user]
      BY <1>1, <1>2, <1>3, <3>1 DEF EntriesAreRows, SeatOf, StatusOf
    <3>4. s \in SeatsOf(R) <=> r \in R
      BY <1>4, <3>1 DEF SeatOf
    <3>5. CASE r \in R
      BY <1>3, <3>2, <3>3, <3>4, <3>5
    <3>6. CASE r \notin R
      BY <1>3, <3>2, <3>3, <3>4, <3>6
    <3> QED
      BY <3>5, <3>6
  <2>2. CASE ~HasRow(s)
    <3>1. ~HasRow(s)'
      BY <1>2, <1>3, <2>2 DEF HasRow, SeatOf
    <3>2. s \notin SeatsOf(R)
      BY <2>2 DEF HasRow, SeatsOf
    <3>3. LedgerView[s] = [state |-> "free", holder |-> NoOne]
      BY <1>1, <2>2 DEF EntriesAreRows
    <3>4. LedgerView'[s] = [state |-> "free", holder |-> NoOne]
      BY <1>1, <3>1 DEF EntriesAreRows
    <3> QED
      BY <3>2, <3>3, <3>4
  <2> QED
    BY <2>1, <2>2
<1>6. LedgerView' = [s \in Seats |-> LedgerView'[s]]
  BY <1>1 DEF EntriesAreRows
<1> QED
  BY <1>5, <1>6

(* Pending rows that are confirmed are seats sold. *)
LEMMA ConfirmedIsSold ==
  ASSUME HoldInv, HoldInv', NEW R \in SUBSET Rows, \A r \in R : StatusOf(r) = "pending",
         reservations' = SetReservations(R, "confirmed")
  PROVE  Ledger!LedgerNext
<1>1. EntriesAreRows
  BY LedgerEntries
<1>2. SaleState("confirmed") = "sold" /\ SaleState("pending") = "held"
  BY DEF SaleState
<1>3. LedgerView' = [s \in Seats |->
        IF s \in SeatsOf(R) THEN [LedgerView[s] EXCEPT !.state = "sold"] ELSE LedgerView[s]]
  BY <1>2, MovedEntries DEF ReservationStatus
<1>4. SeatsOf(R) \in SUBSET Seats /\ \A s \in SeatsOf(R) : LedgerView[s].state = "held"
  <2>1. ASSUME NEW r \in R
        PROVE  SeatOf(r) \in Seats /\ LedgerView[SeatOf(r)].state = "held"
    <3>1. /\ SeatOf(r) \in Seats
          /\ LedgerView[SeatOf(r)] = [state |-> "held", holder |-> reservations[r].user]
      BY <1>1, <1>2 DEF EntriesAreRows
    <3> QED
      BY <3>1
  <2> QED
    BY <2>1 DEF SeatsOf
<1>5. LedgerView' = [s \in Seats |->
        IF s \in SeatsOf(R)
        THEN [x \in Seats |-> [LedgerView[x] EXCEPT !.state = "sold"]][s] ELSE LedgerView[s]]
  BY <1>3
<1>6. Ledger!Sell(SeatsOf(R))
  BY <1>4, <1>5 DEF Ledger!Sell, Ledger!Write, Ledger!Moved
<1> QED
  BY <1>4, <1>6 DEF Ledger!LedgerNext

(* Rows that expire or are refunded, whatever they were, are sales ended;  *)
(* for those that had ended before nothing changes.                        *)
LEMMA LeavingIsEnded ==
  ASSUME HoldInv, HoldInv', NEW R \in SUBSET Rows, NEW st \in {"expired", "refunded"},
         reservations' = SetReservations(R, st)
  PROVE  Ledger!LedgerNext
<1> DEFINE L == {r \in R : StatusOf(r) \in {"pending", "confirmed"}}
<1>1. EntriesAreRows
  BY LedgerEntries
<1>2. /\ SaleState("confirmed") = "sold" /\ SaleState("pending") = "held"
      /\ SaleState("expired") = "ended" /\ SaleState("refunded") = "ended"
  BY DEF SaleState
<1>3. LedgerView' = [s \in Seats |->
        IF s \in SeatsOf(R) THEN [LedgerView[s] EXCEPT !.state = "ended"] ELSE LedgerView[s]]
  <2>1. SaleState(st) = "ended" /\ st \in ReservationStatus
    BY <1>2 DEF ReservationStatus
  <2> QED
    BY <2>1, MovedEntries
<1>4. \A r \in R : /\ SeatOf(r) \in Seats
                   /\ StatusOf(r) \in ReservationStatus
                   /\ LedgerView[SeatOf(r)] =
                        [state |-> SaleState(StatusOf(r)), holder |-> reservations[r].user]
  BY <1>1 DEF EntriesAreRows, HoldInv, HoldTypeOK, Row, StatusOf
<1>5. SeatsOf(L) \in SUBSET Seats /\ \A s \in SeatsOf(L) : LedgerView[s].state \in {"held", "sold"}
  <2>1. ASSUME NEW r \in L
        PROVE  SeatOf(r) \in Seats /\ LedgerView[SeatOf(r)].state \in {"held", "sold"}
    <3>1. SaleState(StatusOf(r)) \in {"held", "sold"}
      BY <1>2
    <3>2. /\ SeatOf(r) \in Seats
          /\ LedgerView[SeatOf(r)] =
               [state |-> SaleState(StatusOf(r)), holder |-> reservations[r].user]
      BY <1>4
    <3> QED
      BY <3>1, <3>2
  <2> QED
    BY <2>1 DEF SeatsOf
<1>6. \A r \in R \ L : [LedgerView[SeatOf(r)] EXCEPT !.state = "ended"] = LedgerView[SeatOf(r)]
  <2> SUFFICES ASSUME NEW r \in R \ L
               PROVE  [LedgerView[SeatOf(r)] EXCEPT !.state = "ended"] = LedgerView[SeatOf(r)]
    OBVIOUS
  <2>1. SaleState(StatusOf(r)) = "ended"
    BY <1>2, <1>4 DEF ReservationStatus
  <2>2. LedgerView[SeatOf(r)] = [state |-> "ended", holder |-> reservations[r].user]
    BY <1>4, <2>1
  <2> QED
    BY <2>2
<1>7. \A s \in SeatsOf(R) \ SeatsOf(L) : [LedgerView[s] EXCEPT !.state = "ended"] = LedgerView[s]
  BY <1>6 DEF SeatsOf
<1>8. SeatsOf(L) \subseteq SeatsOf(R)
  BY DEF SeatsOf
<1> HIDE DEF L
<1>9. LedgerView' = [s \in Seats |->
        IF s \in SeatsOf(L)
        THEN [x \in Seats |-> [LedgerView[x] EXCEPT !.state = "ended"]][s] ELSE LedgerView[s]]
  BY <1>3, <1>7, <1>8
<1>10. Ledger!End(SeatsOf(L))
  BY <1>5, <1>9 DEF Ledger!End, Ledger!Write, Ledger!Moved
<1> QED
  BY <1>5, <1>10 DEF Ledger!LedgerNext

(* A reservation made is a seat held, for all seats of the request at once. *)
LEMMA CreatedIsHeld ==
  ASSUME HoldInv, HoldInv', NEW u \in Users, NEW R \in SUBSET ReservationIds,
         NEW seatFor \in [R -> Seats], Create(u, seatFor)
  PROVE  Ledger!LedgerNext
<1> DEFINE S == {seatFor[r] : r \in R}
<1>1. EntriesAreRows /\ EntriesAreRows'
  BY LedgerEntries, LedgerEntriesAfter
<1>2. /\ Rows' = Rows \cup R
      /\ \A r \in R : reservations'[r].seat = seatFor[r]
      /\ \A r \in Rows : reservations'[r] = reservations[r]
  BY CreateInv
<1>3. \A r \in R : reservations'[r].user = u /\ reservations'[r].status = "pending"
  BY DEF Create
<1>4. \A s \in S : s \in Seats /\ ~HasRow(s)
  BY DEF Create, SeatUnclaimed
<1>5. \A s \in S : LedgerView[s] = [state |-> "free", holder |-> NoOne]
  BY <1>1, <1>4 DEF EntriesAreRows
<1>6. \A s \in S : LedgerView'[s] = [state |-> "held", holder |-> u]
  <2> SUFFICES ASSUME NEW r \in R
               PROVE  LedgerView'[seatFor[r]] = [state |-> "held", holder |-> u]
    OBVIOUS
  <2>1. LedgerView'[reservations'[r].seat] =
          [state |-> SaleState(reservations'[r].status), holder |-> reservations'[r].user]
    BY <1>1, <1>2 DEF EntriesAreRows, SeatOf, StatusOf
  <2>2. SaleState("pending") = "held"
    BY DEF SaleState
  <2> QED
    BY <1>2, <1>3, <2>1, <2>2
<1>7. ASSUME NEW s \in Seats \ S
      PROVE  LedgerView'[s] = LedgerView[s]
  <2>1. CASE HasRow(s)
    <3>1. PICK r \in Rows : reservations[r].seat = s
      BY <2>1 DEF HasRow, SeatOf
    <3>2. /\ LedgerView[s] = [state |-> SaleState(reservations[r].status), holder |-> reservations[r].user]
          /\ LedgerView'[s] = [state |-> SaleState(reservations'[r].status), holder |-> reservations'[r].user]
      BY <1>1, <1>2, <3>1 DEF EntriesAreRows, SeatOf, StatusOf
    <3> QED
      BY <1>2, <3>2
  <2>2. CASE ~HasRow(s)
    <3>1. ~HasRow(s)'
      BY <1>2, <2>2 DEF HasRow, SeatOf
    <3> QED
      BY <1>1, <2>2, <3>1 DEF EntriesAreRows
  <2> QED
    BY <2>1, <2>2
<1>8. S \in SUBSET Seats
  OBVIOUS
<1> HIDE DEF S
<1>9. LedgerView' = [s \in Seats |->
        IF s \in S THEN [x \in Seats |-> [state |-> "held", holder |-> u]][s] ELSE LedgerView[s]]
  BY <1>1, <1>6, <1>7 DEF EntriesAreRows
<1>10. Ledger!Hold(u, S)
  BY <1>5, <1>8, <1>9 DEF Ledger!Hold, Ledger!Write, Ledger!Fresh
<1> QED
  BY <1>8, <1>10 DEF Ledger!LedgerNext

-----------------------------------------------------------------------------
(* That the time of a hold is over is not in the ledger. *)
LEMMA LapsingIsNothing ==
  ASSUME HoldInv, HoldInv', NEW q \in ReservationIds, HoldLapses(q)
  PROVE  UNCHANGED LedgerView
<1>1. EntriesAreRows /\ EntriesAreRows'
  BY LedgerEntries, LedgerEntriesAfter
<1>2. Rows' = Rows
  BY DEF HoldLapses, Rows
<1>3. \A r \in Rows : /\ reservations'[r].seat = reservations[r].seat
                      /\ reservations'[r].user = reservations[r].user
                      /\ reservations'[r].status = reservations[r].status
  BY DEF HoldLapses, HoldInv, HoldTypeOK, Row
<1>4. ASSUME NEW s \in Seats
      PROVE  LedgerView'[s] = LedgerView[s]
  <2>1. CASE HasRow(s)
    <3>1. PICK r \in Rows : reservations[r].seat = s
      BY <2>1 DEF HasRow, SeatOf
    <3>2. /\ LedgerView[s] = [state |-> SaleState(reservations[r].status), holder |-> reservations[r].user]
          /\ LedgerView'[s] = [state |-> SaleState(reservations'[r].status), holder |-> reservations'[r].user]
      BY <1>1, <1>2, <1>3, <3>1 DEF EntriesAreRows, SeatOf, StatusOf
    <3> QED
      BY <1>3, <3>2
  <2>2. CASE ~HasRow(s)
    <3>1. ~HasRow(s)'
      BY <1>2, <1>3, <2>2 DEF HasRow, SeatOf
    <3> QED
      BY <1>1, <2>2, <3>1 DEF EntriesAreRows
  <2> QED
    BY <2>1, <2>2
<1> QED
  BY <1>1, <1>4 DEF EntriesAreRows

LEMMA HoldStepOfLedger ==
  HoldInv /\ HoldInv' /\ [HoldNext]_holdVars => Ledger!LedgerNext \/ UNCHANGED LedgerView
<1> SUFFICES ASSUME HoldInv, HoldInv', [HoldNext]_holdVars
             PROVE  Ledger!LedgerNext \/ UNCHANGED LedgerView
  OBVIOUS
<1>1. CASE Reserve
  <2>1. PICK u \in Users, R \in SUBSET ReservationIds :
          \E seatFor \in [R -> Seats] : Create(u, seatFor)
    BY <1>1 DEF Reserve
  <2>2. PICK seatFor \in [R -> Seats] : Create(u, seatFor)
    BY <2>1
  <2> QED
    BY <2>2, CreatedIsHeld
<1>2. ASSUME NEW u \in Users, NEW r \in ReservationIds, Cancel(u, r) PROVE Ledger!LedgerNext
  <2>1. {r} \in SUBSET Rows /\ reservations' = SetReservations({r}, "expired")
    BY <1>2 DEF Cancel
  <2> QED
    BY <2>1, LeavingIsEnded
<1>3. ASSUME NEW w \in Sweepers, SweepExpire(w) PROVE Ledger!LedgerNext
  <2>1. SweptRows(w) \in SUBSET Rows /\ reservations' = SetReservations(SweptRows(w), "expired")
    BY <1>3 DEF SweepExpire, SweptRows, HoldInv, SweepsSawReserved
  <2> QED
    BY <2>1, LeavingIsEnded
<1>4. ASSUME NEW r \in ReservationIds, HoldLapses(r) PROVE UNCHANGED LedgerView
  BY <1>4, LapsingIsNothing
<1> QED
  BY <1>1, <1>2, <1>3, <1>4, LedgerUnchanged
     DEF HoldNext, holdVars, SweepRead, SweepAborts, CancelEvent

LEMMA HandlerStepOfLedger ==
  ASSUME Inv, Inv', NEW h \in Handlers, Handle(h)
  PROVE  Ledger!LedgerNext \/ UNCHANGED LedgerView
<1>1. HoldInv /\ HoldInv'
  BY DEF Inv
<1>2. CASE Confirm(h)
  <2> DEFINE R == ReservationsIn(job[h].order.res, "pending")
  <2>1. R \in SUBSET Rows /\ \A r \in R : StatusOf(r) = "pending"
    BY DEF ReservationsIn
  <2>2. reservations' = SetReservations(R, "confirmed")
    BY <1>2 DEF Confirm
  <2> HIDE DEF R
  <2> QED
    BY <1>1, <2>1, <2>2, ConfirmedIsSold
<1>3. CASE Release(h)
  <2> DEFINE R == ReservationsIn(job[h].order.res, "pending")
  <2>1. R \in SUBSET Rows
    BY DEF ReservationsIn
  <2>2. reservations' = SetReservations(R, "expired")
    BY <1>3 DEF Release
  <2> HIDE DEF R
  <2> QED
    BY <1>1, <2>1, <2>2, LeavingIsEnded
<1>4. CASE Refund(h)
  <2> DEFINE R == ReservationsIn(job[h].order.res, "confirmed")
  <2>1. R \in SUBSET Rows
    BY DEF ReservationsIn
  <2>2. reservations' = SetReservations(R, "refunded")
    BY <1>4 DEF Refund
  <2> HIDE DEF R
  <2> QED
    BY <1>1, <2>1, <2>2, LeavingIsEnded
<1>5. CASE UNCHANGED holdVars
  BY <1>5, LedgerUnchanged DEF holdVars
<1> QED
  BY <1>2, <1>3, <1>4, <1>5 DEF Handle, LookUp, Mark, IssueTicket, StampTicket, Notify

LEMMA StepOfLedger == Inv /\ Inv' /\ [Next]_vars => [Ledger!LedgerNext]_LedgerView
<1> SUFFICES ASSUME Inv, Inv', [Next]_vars
             PROVE  Ledger!LedgerNext \/ UNCHANGED LedgerView
  OBVIOUS
<1>1. HoldInv /\ HoldInv'
  BY DEF Inv
<1>2. CASE HoldNext
  BY <1>1, <1>2, HoldStepOfLedger
<1>3. CASE Checkout
  <2>1. PICK u \in Users, R \in SUBSET ReservationIds :
          \E seatFor \in [R -> Seats] : CheckoutHold(u, seatFor)
    BY <1>3 DEF Checkout
  <2>2. PICK seatFor \in [R -> Seats] : Create(u, seatFor)
    BY <2>1 DEF CheckoutHold
  <2> QED
    BY <1>1, <2>2, CreatedIsHeld
<1>4. ASSUME NEW h \in Handlers, Handle(h) PROVE Ledger!LedgerNext \/ UNCHANGED LedgerView
  BY <1>4, HandlerStepOfLedger
<1>5. CASE UNCHANGED reservations
  BY <1>5, LedgerUnchanged
<1> QED
  BY <1>2, <1>3, <1>4, <1>5
     DEF Next, SaleNext, Provider, CheckoutOpens, CheckoutFails, Emit, Deliver, HandlerDies,
         ServerRestarts, vars, holdVars

LEMMA InitOfLedger == Init => Ledger!LedgerInit
<1> SUFFICES ASSUME Init PROVE Ledger!LedgerInit
  OBVIOUS
<1>1. \A s \in Seats : ~HasRow(s)
  BY DEF Init, HoldInit, HasRow, Rows
<1> QED
  BY <1>1 DEF LedgerView, Ledger!LedgerInit, Ledger!Fresh

(* Whatever sweeps, checkouts, deliveries, failures and restarts do to the *)
(* tables, each seat has one sale: a user holds it, it is sold to that     *)
(* user or not, and it ends.  The booking flow implements SeatLedger.      *)
THEOREM ImplementsLedger == Spec => SellsEachSeatOnce
<1>1. Inv /\ [Next]_vars => [Ledger!LedgerNext]_LedgerView
  BY NextInv, StepOfLedger
<1> QED
  BY <1>1, InitOfLedger, Invariance, PTL DEF Spec, SellsEachSeatOnce, Ledger!LedgerSpec
=============================================================================
