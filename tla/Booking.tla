------------------------------- MODULE Booking -------------------------------
(***************************************************************************)
(* Selling held seats: the checkout of modules/payments/payments.service.ts*)
(* the webhook handlers of webhooks.service.ts that the provider's events  *)
(* start, and the ticket generation of modules/tickets/tickets.service.ts  *)
(* they call, over the tables of module Reservations.                      *)
(*                                                                         *)
(* The provider answers for an order with at most one of success, failure  *)
(* and expiry, and refunds only what was paid.  It delivers an event until *)
(* it is acknowledged, perhaps again after that, and in any order.  The    *)
(* controller acknowledges at once and handles afterwards, so a delivery   *)
(* is a job of its own (jobs run concurrently) that may die at any step.   *)
(***************************************************************************)
EXTENDS Reservations

CONSTANTS
  Handlers,   \* bound on the deliveries that are handled at the same time
  NoEvent,    \* what an idle handler works on
  NoOne       \* the holder of a seat without a reservation

(* The metadata of a checkout session: userId, reservationIds, seatIds. *)
Orders == [user: Users, res: SUBSET ReservationIds, seats: SUBSET Seats]

EventType == {"collection.succeeded", "collection.failed", "checkout.expired", "refund.paid"}
Events == [type: EventType, order: Orders]

(* The columns of a ticket the steps below write; ready: its QR payload is saved. *)
Ticket == [ready: BOOLEAN, used: BOOLEAN, refunded: BOOLEAN]

PaymentStatus == {"successful", "refunded"}
Step == {"idle", "lookup", "mark", "handle", "tickets", "stamp", "notify"}

VARIABLES
  checkouts,   \* orders whose session the provider is being asked for
  sessions,    \* orders with a checkout session
  emitted,     \* events the provider has sent
  acked,       \* events answered with 200
  processed,   \* event_id of the rows of processed_webhook_events
  pc,          \* pc[h]: what handler h does next
  job,         \* job[h]: the event handler h works on
  todo,        \* todo[h]: reservations handler h has to issue tickets for
  payments,    \* rows of payments: status, by idempotency_key
  tickets,     \* rows of tickets, by reservation_id
  notified     \* events whose notification was queued

saleVars == <<checkouts, sessions, emitted, acked, processed, pc, job, todo,
              payments, tickets, notified>>
vars == <<holdVars, saleVars>>

TypeOK ==
  /\ HoldTypeOK
  /\ checkouts \subseteq Orders
  /\ sessions \subseteq Orders
  /\ emitted \subseteq Events
  /\ acked \subseteq emitted
  /\ processed \subseteq acked
  /\ pc \in [Handlers -> Step]
  /\ job \in [Handlers -> acked \cup {NoEvent}]
  /\ todo \in [Handlers -> SUBSET ReservationIds]
  /\ DOMAIN payments \subseteq processed
  /\ payments \in [DOMAIN payments -> PaymentStatus]
  /\ DOMAIN tickets \subseteq Rows
  /\ tickets \in [DOMAIN tickets -> Ticket]
  /\ notified \subseteq processed

Init ==
  /\ HoldInit
  /\ checkouts = {} /\ sessions = {}
  /\ emitted = {} /\ acked = {} /\ processed = {}
  /\ pc = [h \in Handlers |-> "idle"]
  /\ job = [h \in Handlers |-> NoEvent]
  /\ todo = [h \in Handlers |-> {}]
  /\ payments = [e \in {} |-> e]
  /\ tickets = [r \in {} |-> r]
  /\ notified = {}

-----------------------------------------------------------------------------
(* createCheckoutSession()                                                 *)

(* Its reads check what create() checks again; create() holds the seats.   *)
CheckoutHold(u, seatFor) ==
  /\ Create(u, seatFor)
  /\ checkouts' = checkouts \cup
       {[user |-> u, res |-> DOMAIN seatFor, seats |-> {seatFor[r] : r \in DOMAIN seatFor}]}
  /\ UNCHANGED <<sessions, emitted, acked, processed, pc, job, todo, payments, tickets, notified>>

(* bachs.checkout.create() answers. *)
CheckoutOpens(o) ==
  /\ o \in checkouts
  /\ checkouts' = checkouts \ {o}
  /\ sessions' = sessions \cup {o}
  /\ UNCHANGED <<holdVars, emitted, acked, processed, pc, job, todo, payments, tickets, notified>>

(* The call fails: the hold is kept, with no session to pay in. *)
CheckoutFails(o) ==
  /\ o \in checkouts
  /\ faults < MaxFaults
  /\ faults' = faults + 1
  /\ checkouts' = checkouts \ {o}
  /\ UNCHANGED <<seatStatus, reservations, sweep, eventStatus, sessions, emitted, acked,
                 processed, pc, job, todo, payments, tickets, notified>>

-----------------------------------------------------------------------------
(* The provider                                                            *)

Event(t, o) == [type |-> t, order |-> o]
Outcomes == {"collection.succeeded", "collection.failed", "checkout.expired"}
Settled(o) == \E t \in Outcomes : Event(t, o) \in emitted

Emit(t, o) ==
  /\ o \in sessions
  /\ IF t = "refund.paid" THEN Event("collection.succeeded", o) \in emitted
                          ELSE ~Settled(o)
  /\ emitted' = emitted \cup {Event(t, o)}
  /\ UNCHANGED <<holdVars, checkouts, sessions, acked, processed, pc, job, todo,
                 payments, tickets, notified>>

Acknowledged_Mut(e) == acked
Acknowledged(e) == acked \cup {e}

(* One delivery: the controller answers 200 and starts the handler. *)
Deliver(h, e) ==
  /\ pc[h] = "idle"
  /\ e \in emitted
  /\ acked' = Acknowledged(e)
  /\ pc' = [pc EXCEPT ![h] = "lookup"]
  /\ job' = [job EXCEPT ![h] = e]
  /\ UNCHANGED <<holdVars, checkouts, sessions, emitted, processed, todo, payments,
                 tickets, notified>>

-----------------------------------------------------------------------------
(* handleBachsWebhook()                                                    *)

EndsJob(h) ==
  /\ pc' = [pc EXCEPT ![h] = "idle"]
  /\ job' = [job EXCEPT ![h] = NoEvent]
  /\ todo' = [todo EXCEPT ![h] = {}]

GoesTo(h, step) ==
  /\ pc' = [pc EXCEPT ![h] = step]
  /\ UNCHANGED <<job, todo>>

LookUp(h) ==
  /\ pc[h] = "lookup"
  /\ IF job[h] \in processed THEN EndsJob(h) ELSE GoesTo(h, "mark")
  /\ UNCHANGED <<holdVars, checkouts, sessions, emitted, acked, processed, payments,
                 tickets, notified>>

(* UNIQUE(event_id): the INSERT of a second marker throws. *)
MarkerPerOrder_Mut(e) == \E x \in processed : x.order = e.order
MarkerTaken_Mut(e) == FALSE
MarkerTaken(e) == e \in processed

Mark(h) ==
  /\ pc[h] = "mark"
  /\ IF MarkerTaken(job[h])
     THEN EndsJob(h) /\ UNCHANGED processed
     ELSE GoesTo(h, "handle") /\ processed' = processed \cup {job[h]}
  /\ UNCHANGED <<holdVars, checkouts, sessions, emitted, acked, payments, tickets, notified>>

(* INSERT of a payment with idempotency_key = event.id *)
Recorded_Mut(e) == payments
Recorded(e) == [x \in DOMAIN payments \cup {e} |->
                  IF x \in DOMAIN payments THEN payments[x] ELSE "successful"]

(* onPaymentSucceeded(), its transaction. *)
Confirm(h) ==
  /\ pc[h] = "handle"
  /\ job[h].type = "collection.succeeded"
  /\ LET o == job[h].order IN
       /\ reservations' = SetReservations(ReservationsIn(o.res, "pending"), "confirmed")
       /\ seatStatus' = SetSeats(SeatsIn(o.seats, "reserved"), "booked")
       /\ todo' = [todo EXCEPT ![h] = o.res]
  /\ payments' = Recorded(job[h])
  /\ pc' = [pc EXCEPT ![h] = "tickets"]
  /\ UNCHANGED <<sweep, eventStatus, faults, checkouts, sessions, emitted, acked, processed,
                 job, tickets, notified>>

(* generateForReservations(): one ticket after the other.  A ticket is     *)
(* inserted to get its id, signed, rendered, uploaded and saved again.     *)
IssueTicket(h, r) ==
  /\ pc[h] = "tickets"
  /\ r \in todo[h]
  /\ r \notin DOMAIN tickets
  /\ tickets' = [x \in DOMAIN tickets \cup {r} |->
                   IF x \in DOMAIN tickets THEN tickets[x]
                   ELSE [ready |-> FALSE, used |-> FALSE, refunded |-> FALSE]]
  /\ GoesTo(h, "stamp")
  /\ UNCHANGED <<holdVars, checkouts, sessions, emitted, acked, processed, payments, notified>>

AfterStamp_Mut(h, r) == "notify"
AfterStamp(h, r) == IF todo[h] = {r} THEN "notify" ELSE "tickets"

(* The second save() writes the entity as it was after the INSERT. *)
StampTicket(h, r) ==
  /\ pc[h] = "stamp"
  /\ r \in todo[h] \cap DOMAIN tickets
  /\ tickets' = [tickets EXCEPT ![r] = [ready |-> TRUE, used |-> FALSE, refunded |-> FALSE]]
  /\ todo' = [todo EXCEPT ![h] = @ \ {r}]
  /\ pc' = [pc EXCEPT ![h] = AfterStamp(h, r)]
  /\ UNCHANGED <<holdVars, checkouts, sessions, emitted, acked, processed, job, payments, notified>>

(* releaseHold(): onPaymentFailed() and onCheckoutExpired(). *)
Release(h) ==
  /\ pc[h] = "handle"
  /\ job[h].type \in {"collection.failed", "checkout.expired"}
  /\ LET o == job[h].order IN
       /\ reservations' = SetReservations(ReservationsIn(o.res, "pending"), "expired")
       /\ seatStatus' = SetSeats(SeatsIn(o.seats, "reserved"), "available")
  /\ IF job[h].type = "collection.failed" THEN GoesTo(h, "notify") ELSE EndsJob(h)
  /\ UNCHANGED <<sweep, eventStatus, faults, checkouts, sessions, emitted, acked, processed,
                 payments, tickets, notified>>

(* UPDATE payments SET status = 'refunded' WHERE user_id = u AND status = 'successful' *)
PaidBack_Mut(u) == payments
PaidBack(u) == [e \in DOMAIN payments |-> IF e.order.user = u THEN "refunded" ELSE payments[e]]

(* UPDATE tickets SET is_refunded = true WHERE reservation_id IN R *)
Voided(R) == [r \in DOMAIN tickets |->
                IF r \in R THEN [tickets[r] EXCEPT !.refunded = TRUE] ELSE tickets[r]]

(* onRefundPaid(): every successful payment of the user, the tickets and   *)
(* what is still confirmed of the order.                                   *)
Refund(h) ==
  /\ pc[h] = "handle"
  /\ job[h].type = "refund.paid"
  /\ LET o == job[h].order IN
       /\ reservations' = SetReservations(ReservationsIn(o.res, "confirmed"), "refunded")
       /\ seatStatus' = SetSeats(SeatsIn(o.seats, "booked"), "available")
       /\ payments' = PaidBack(o.user)
       /\ tickets' = Voided(o.res)
  /\ GoesTo(h, "notify")
  /\ UNCHANGED <<sweep, eventStatus, faults, checkouts, sessions, emitted, acked, processed,
                 notified>>

(* enqueueBookingConfirmation(), enqueuePaymentFailed(), enqueueRefundIssued() *)
Notify(h) ==
  /\ pc[h] = "notify"
  /\ notified' = notified \cup {job[h]}
  /\ EndsJob(h)
  /\ UNCHANGED <<holdVars, checkouts, sessions, emitted, acked, processed, payments, tickets>>

(* A step of a handler throws (database, Redis, storage, queue): whatever  *)
(* it has committed stays, the rest is given up.                           *)
HandlerDies(h) ==
  /\ pc[h] # "idle"
  /\ faults < MaxFaults
  /\ faults' = faults + 1
  /\ EndsJob(h)
  /\ UNCHANGED <<seatStatus, reservations, sweep, eventStatus, checkouts, sessions, emitted,
                 acked, processed, payments, tickets, notified>>

(* The process restarts: only what is in MySQL is left. *)
ServerRestarts ==
  /\ faults < MaxFaults
  /\ faults' = faults + 1
  /\ sweep' = [w \in Sweepers |-> {}]
  /\ checkouts' = {}
  /\ pc' = [h \in Handlers |-> "idle"]
  /\ job' = [h \in Handlers |-> NoEvent]
  /\ todo' = [h \in Handlers |-> {}]
  /\ UNCHANGED <<seatStatus, reservations, eventStatus, sessions, emitted, acked, processed,
                 payments, tickets, notified>>

-----------------------------------------------------------------------------
Checkout ==
  \E u \in Users, R \in SUBSET ReservationIds :
    \E seatFor \in [R -> Seats] : R # {} /\ CheckoutHold(u, seatFor)

Provider ==
  \/ \E t \in EventType, o \in sessions : Emit(t, o)
  \/ \E h \in Handlers, e \in emitted : Deliver(h, e)

Handle(h) ==
  \/ LookUp(h)
  \/ Mark(h)
  \/ Confirm(h)
  \/ \E r \in ReservationIds : IssueTicket(h, r)
  \/ \E r \in ReservationIds : StampTicket(h, r)
  \/ Release(h)
  \/ Refund(h)
  \/ Notify(h)

SaleNext ==
  \/ HoldNext /\ UNCHANGED saleVars
  \/ Checkout
  \/ \E o \in checkouts : CheckoutOpens(o) \/ CheckoutFails(o)
  \/ Provider
  \/ \E h \in Handlers : Handle(h) \/ HandlerDies(h)

Next == SaleNext \/ ServerRestarts

(* A handler that runs goes on; the provider delivers what is not          *)
(* acknowledged as often as it takes to find the server ready for it, and  *)
(* time passes.                                                            *)
Fairness ==
  /\ WF_vars(SweepRead(Timer) /\ UNCHANGED saleVars)
  /\ \A w \in Sweepers : WF_vars(SweepExpire(w) /\ UNCHANGED saleVars)
  /\ \A r \in ReservationIds : WF_vars(HoldLapses(r) /\ UNCHANGED saleVars)
  /\ \A h \in Handlers : WF_vars(Handle(h))
  /\ SF_vars(\E h \in Handlers, e \in emitted \ acked : Deliver(h, e))

Spec == Init /\ [][Next]_vars
FairSpec == Spec /\ Fairness

-----------------------------------------------------------------------------
Pays(e, r) == e.type = "collection.succeeded" /\ r \in e.order.res
Refunds(e, r) == e.type = "refund.paid" /\ r \in e.order.res

(* "processed_webhook_events idempotency": of all deliveries of an event,  *)
(* at most one gets past the marker, though two may look it up before      *)
(* either has written it.                                                  *)
HandledOnce ==
  \A h1, h2 \in Handlers :
    /\ {pc[h1], pc[h2]} \subseteq {"handle", "tickets", "stamp", "notify"}
    /\ job[h1] = job[h2]
    => h1 = h2

(* Whatever happens to reservations, payments and handlers, each seat has  *)
(* one sale in its life, as module SeatLedger puts it: held by one user at *)
(* most once, sold only while held, and ended for good.                    *)
RowOf(s) == CHOOSE r \in Rows : SeatOf(r) = s

SaleState(st) ==
  CASE st = "pending" -> "held"
    [] st = "confirmed" -> "sold"
    [] OTHER -> "ended"

LedgerView ==
  [s \in Seats |->
     IF HasRow(s)
     THEN [state |-> SaleState(StatusOf(RowOf(s))), holder |-> reservations[RowOf(s)].user]
     ELSE [state |-> "free", holder |-> NoOne]]

Ledger == INSTANCE SeatLedger WITH ledger <- LedgerView

SellsEachSeatOnce == Ledger!LedgerSpec

(* A seat is never booked for free: a confirmed reservation has the        *)
(* payment that confirmed it, whatever failed after either was written.    *)
ConfirmedIsPaid ==
  \A r \in Rows :
    StatusOf(r) = "confirmed" => \E e \in DOMAIN payments : Pays(e, r)

(* A reservation whose money went back shows it in both tables: refunded   *)
(* rows have a refunded payment, also when a later sweep or webhook runs.  *)
RefundedHoldsArePaidBack ==
  \A r \in Rows :
    StatusOf(r) = "refunded"
      => \E e \in DOMAIN payments : Pays(e, r) /\ payments[e] = "refunded"

(* The confirmation mail speaks of the whole order: it is queued only when *)
(* each reservation has its ticket, whatever died on the way, and that is  *)
(* complete for good, or has let its owner in by a scan that read it       *)
(* before it was complete and saved it, as it was then, after it.          *)
AnnouncedOrdersAreTicketed ==
  \A e \in notified : e.type = "collection.succeeded" =>
    \A r \in e.order.res : r \in DOMAIN tickets /\ (tickets[r].ready \/ tickets[r].used)

(* A payment that comes after a hold has lapsed, was cancelled or failed   *)
(* books nothing with it: the two filters of onPaymentSucceeded(), one for *)
(* each table, pick the same sales, those that are pending.                *)
PaymentsBookWhatIsHeld ==
  [][\A h \in Handlers : Confirm(h) =>
       \A r \in job[h].order.res :
         IF StatusOf(r) = "pending"
         THEN reservations'[r].status = "confirmed" /\ seatStatus'[SeatOf(r)] = "booked"
         ELSE reservations'[r] = reservations[r] /\ seatStatus'[SeatOf(r)] = seatStatus[SeatOf(r)]]_vars

(* Each reservation that was paid for gets its ticket and its owner the    *)
(* confirmation, however deliveries and sweeps interleave, unless a step   *)
(* fails: an acknowledged event is not delivered for certain again.        *)
PaidOrdersAreServed ==
  \A r \in ReservationIds :
    (\E e \in emitted : Pays(e, r)) ~> (faults > 0 \/ \E e \in notified : Pays(e, r))

(* No hold is kept for ever: it is paid, cancelled, failed or swept.       *)
HoldsEnd ==
  \A r \in ReservationIds : (r \in Rows) ~> (r \in Rows /\ StatusOf(r) # "pending")

-----------------------------------------------------------------------------
(* What the project's own words promise and the steps above do not keep.   *)

(* "does not release seats that are already booked" (unit.expiry.test.ts): *)
(* a confirmed reservation is left by a refund, never by an expiry.        *)
ConfirmedLeavesByRefundOnly ==
  [][\A r \in Rows : StatusOf(r) = "confirmed"
                       => reservations'[r].status \in {"confirmed", "refunded"}]_reservations

(* "Payment confirmed - seats ... booked" (webhooks.service.ts): when the  *)
(* handler goes on to the tickets, the seats it was paid for are booked.   *)
PaymentBooksSeats ==
  [][\A h \in Handlers : Confirm(h) =>
       \A s \in job[h].order.seats : seatStatus'[s] = "booked"]_vars

(* "Ticket isRefunded" (README, Refunds): once the refund of an order has  *)
(* been handled, none of its tickets is good for entry.                    *)
RefundedOrdersHaveNoTicket ==
  \A e \in notified, r \in DOMAIN tickets : Refunds(e, r) => tickets[r].refunded

(* "Reservation CONFIRMED->REFUNDED" (README, Refunds): no reservation of  *)
(* an order whose refund has been handled is confirmed.  A payment that is *)
(* handled after its refund confirms them.                                 *)
RefundsAreFinal ==
  \A e \in notified, r \in Rows : Refunds(e, r) => StatusOf(r) # "confirmed"

(* "Payment SUCCESSFUL -> REFUNDED" (README, Refunds) of the order that is *)
(* refunded: a reservation that stands has a payment that stands.          *)
ConfirmedHasStandingPayment ==
  \A r \in Rows :
    StatusOf(r) = "confirmed"
      => \E e \in DOMAIN payments : Pays(e, r) /\ payments[e] = "successful"
=============================================================================
