------------------------------ MODULE DoorScan ------------------------------
(***************************************************************************)
(* Admission: validate() of modules/tickets/tickets.service.ts, next to    *)
(* the sale and the refunds of module Booking.                             *)
(*                                                                         *)
(* validate() looks at the ticket, decides, and saves the entity it read;  *)
(* no lock or transaction joins the two.  TypeORM's save() compares that   *)
(* entity with the row and writes every column that differs, so a column   *)
(* changed in between is put back to what the scan had read: isRefunded,   *)
(* and the QR payload and URL if the scan read before they were saved.     *)
(***************************************************************************)
EXTENDS Booking

CONSTANTS
  Scanners,       \* bound on the scans in progress at the same time
  MaxAdmissions   \* where counting the admissions of one ticket stops

ASSUME AdmissionBudget == MaxAdmissions \in Nat \ {0}

VARIABLES
  scanned,    \* scanned[g]: the ticket, as it was, that scan g has read as good and not yet saved
  admitted    \* admitted[r]: scans answered with alreadyUsed = false

doorVars == <<scanned, admitted>>
allVars == <<vars, doorVars>>

DoorTypeOK ==
  /\ scanned \in [Scanners -> SUBSET [id: DOMAIN tickets, row: Ticket]]
  /\ admitted \in [ReservationIds -> 0 .. MaxAdmissions]

DoorInit ==
  /\ Init
  /\ scanned = [g \in Scanners |-> {}]
  /\ admitted = [r \in ReservationIds |-> 0]

-----------------------------------------------------------------------------
(* A refunded or used ticket is answered without a change.  The signed PDF *)
(* is uploaded before the second save of the ticket, and myTickets() lists *)
(* the row from its insertion: a ticket may be scanned before it is ready. *)
(* (The upload is a moment after the insertion, of which it is part here.) *)
GoodUntilRefunded_Mut(r) == ~tickets[r].refunded
GoodWhileUnused_Mut(r) == ~tickets[r].used
GoodForEntry(r) == ~tickets[r].refunded /\ ~tickets[r].used

ScanRead(g, r) ==
  /\ scanned[g] = {}
  /\ r \in DOMAIN tickets
  /\ GoodForEntry(r)
  /\ scanned' = [scanned EXCEPT ![g] = {[id |-> r, row |-> tickets[r]]}]
  /\ UNCHANGED <<vars, admitted>>

(* isUsed as the scan has set it, all else as the scan has read it. *)
Used(t) == [tickets EXCEPT ![t.id] = [t.row EXCEPT !.used = TRUE]]

ScanSave(g, t) ==
  /\ t \in scanned[g]
  /\ admitted[t.id] < MaxAdmissions
  /\ tickets' = Used(t)
  /\ admitted' = [admitted EXCEPT ![t.id] = @ + 1]
  /\ scanned' = [scanned EXCEPT ![g] = {}]
  /\ UNCHANGED <<holdVars, checkouts, sessions, emitted, acked, processed, pc, job, todo,
                 payments, notified>>

(* The save fails: the scanner gets an error and nothing is written. *)
ScanFails(g) ==
  /\ scanned[g] # {}
  /\ faults < MaxFaults
  /\ faults' = faults + 1
  /\ scanned' = [scanned EXCEPT ![g] = {}]
  /\ UNCHANGED <<seatStatus, reservations, sweep, eventStatus, saleVars, admitted>>

(* Requests in progress end with the process. *)
DoorRestarts ==
  /\ ServerRestarts
  /\ scanned' = [g \in Scanners |-> {}]
  /\ UNCHANGED admitted

Scan(g) ==
  \/ \E r \in ReservationIds : ScanRead(g, r)
  \/ \E t \in scanned[g] : ScanSave(g, t)

DoorNext ==
  \/ SaleNext /\ UNCHANGED doorVars
  \/ \E g \in Scanners : Scan(g) \/ ScanFails(g)
  \/ DoorRestarts

DoorSpec == DoorInit /\ [][DoorNext]_allVars

-----------------------------------------------------------------------------
(* Nobody is let in for free: the order of every ticket that opened the    *)
(* door has a payment, whatever died between payment and ticket.           *)
EntriesWerePaid ==
  \A r \in ReservationIds : admitted[r] > 0 => \E e \in DOMAIN payments : Pays(e, r)

(* No handler and no scan that read the ticket is still to save it.        *)
LeftAlone(r) ==
  /\ r \in DOMAIN tickets
  /\ \A h \in Handlers : r \notin todo[h]
  /\ \A g \in Scanners : \A t \in scanned[g] : t.id # r

(* A ticket is void when its refund has met neither a scan nor the second  *)
(* save of the ticket, either of which takes it back; spent, likewise,     *)
(* when the entry it gave has met no other save.                           *)
Void(r) == LeftAlone(r) /\ tickets[r].refunded
Spent(r) == LeftAlone(r) /\ tickets[r].used

(* "Ticket isRefunded" (README): nobody enters with a void ticket any more *)
(* and it remains void, whatever is delivered again, retried, scanned or   *)
(* restarted: no handler ever comes back to it.                            *)
VoidTicketsAdmitNobody ==
  [][\A r \in ReservationIds : Void(r) => Void(r)' /\ admitted'[r] = admitted[r]]_allVars

(* "returns alreadyUsed true on second scan" (tickets.service.test.ts): a  *)
(* spent ticket lets nobody else in and remains spent, through refunds,    *)
(* redelivered payments, failed scans and restarts.                        *)
SpentTicketsAdmitNobody ==
  [][\A r \in ReservationIds : Spent(r) => Spent(r)' /\ admitted'[r] = admitted[r]]_allVars

-----------------------------------------------------------------------------
(* What the project's own tests say of the door and the steps above break. *)

(* "Second scan returns alreadyUsed true" (tickets.e2e.test.ts): a ticket  *)
(* lets one person in.                                                     *)
AdmittedOnce == \A r \in ReservationIds : admitted[r] <= 1

(* "marks isUsed true (first scan)" (tickets.service.test.ts): an entry is *)
(* never forgotten.  The second save of a ticket forgets that of a scan    *)
(* made before it, and the next scan, with no other in progress, admits.   *)
EntriesAreRemembered ==
  \A r \in ReservationIds : admitted[r] > 0 => r \in DOMAIN tickets /\ tickets[r].used

(* "refunded ticket is rejected at validation" (tickets.e2e.test.ts): a    *)
(* complete ticket that was refunded stays refunded.                       *)
RefundsOutlastScans ==
  [][\A r \in DOMAIN tickets :
       tickets[r].ready /\ tickets[r].refunded => tickets'[r].refunded]_allVars
=============================================================================
