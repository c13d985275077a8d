----------------------------- MODULE Inventory ------------------------------
(***************************************************************************)
(* The seats of a section, as organizers make, edit and remove them while  *)
(* they are being reserved: sections.service.ts and seats.service.ts next  *)
(* to module Reservations.                                                 *)
(*                                                                         *)
(* The organizers' requests use no transaction of their own.  bulkCreate() *)
(* counts and inserts in two steps.  An edit reads its entity and saves it *)
(* later: save() selects the row again and writes every column in which it *)
(* differs from the entity, the status of a seat included; if the row is   *)
(* gone it is inserted anew.  Foreign keys keep what is referred to.       *)
(***************************************************************************)
EXTENDS Reservations

CONSTANTS
  Organizers,   \* bound on the organizers' requests in progress
  MaxTotal      \* bound on section.totalSeats

ASSUME TotalBound == MaxTotal \in Nat \ {0}

Section == [total: 1 .. MaxTotal, product: BOOLEAN]

VARIABLES
  section,    \* the row of the section in table "sections", if it is there: a set
  seatRows,   \* the seats that have a row in table "seats"
  request     \* request[w]: what organizer request w has read and will save

inventoryVars == <<section, seatRows, request>>
allVars == <<holdVars, inventoryVars>>

Idle == [at |-> "idle"]
Inserting == [at: {"insert"}, seats: SUBSET Seats]
SavingSeat == [at: {"seat"}, seat: Seats, status: SeatStatus]
SavingSection == [at: {"section", "product"}, row: Section]

InventoryTypeOK ==
  /\ HoldTypeOK
  /\ section \in SUBSET Section /\ Cardinality(section) <= 1
  /\ seatRows \subseteq Seats
  /\ request \in [Organizers -> {Idle} \cup Inserting \cup SavingSeat \cup SavingSection]

InventoryInit ==
  /\ HoldInit
  /\ section = {}
  /\ seatRows = {}
  /\ request = [w \in Organizers |-> Idle]

Begins(w, r) == request[w] = Idle /\ request' = [request EXCEPT ![w] = r]
Ends(w) == request' = [request EXCEPT ![w] = Idle]

-----------------------------------------------------------------------------
(* SectionsService.create(): saved once, and again with the product id.    *)
(* One section is followed: a next one begins when nobody works on the     *)
(* last any more.                                                          *)
CreateSection(w, total) ==
  /\ section = {}
  /\ \A x \in Organizers : request[x] = Idle
  /\ section' = {[total |-> total, product |-> FALSE]}
  /\ Begins(w, [at |-> "product", row |-> [total |-> total, product |-> TRUE]])
  /\ UNCHANGED <<holdVars, seatRows>>

(* update(): findOne(), then save() of the entity with its changes. *)
ReadSection(w, total) ==
  /\ \E row \in section : Begins(w, [at |-> "section", row |-> [row EXCEPT !.total = total]])
  /\ UNCHANGED <<holdVars, section, seatRows>>

SaveSection(w) ==
  /\ request[w].at \in {"section", "product"}
  /\ section' = {request[w].row}
  /\ Ends(w)
  /\ UNCHANGED <<holdVars, seatRows>>

(* The provider or MySQL refuses: create() goes on without a product. *)
RequestFails(w) ==
  /\ request[w] # Idle
  /\ Ends(w)
  /\ UNCHANGED <<holdVars, section, seatRows>>

(* seats.section_id refers to the section: no section with seats is removed. *)
RemoveSection ==
  /\ section # {}
  /\ seatRows = {}
  /\ section' = {}
  /\ UNCHANGED <<holdVars, seatRows, request>>

-----------------------------------------------------------------------------
(* A generated id is one that no row and no request knows.                 *)
KnownSeats ==
  seatRows \cup UNION {request[w].seats : w \in {x \in Organizers : request[x].at = "insert"}}
           \cup {request[w].seat : w \in {x \in Organizers : request[x].at = "seat"}}

(* bulkCreate(), up to its check of the capacity *)
CountSeats(w, S) ==
  /\ S # {} /\ S \cap KnownSeats = {}
  /\ \E row \in section : Cardinality(seatRows) + Cardinality(S) <= row.total
  /\ Begins(w, [at |-> "insert", seats |-> S])
  /\ UNCHANGED <<holdVars, section, seatRows>>

InsertSeats(w) ==
  /\ request[w].at = "insert"
  /\ section # {}
  /\ seatRows' = seatRows \cup request[w].seats
  /\ Ends(w)
  /\ UNCHANGED <<holdVars, section>>

(* SeatsService.update() changes the number of a seat. *)
ReadSeat(w, s) ==
  /\ s \in seatRows
  /\ Begins(w, [at |-> "seat", seat |-> s, status |-> seatStatus[s]])
  /\ UNCHANGED <<holdVars, section, seatRows>>

SaveSeat(w) ==
  /\ request[w].at = "seat"
  /\ section # {}
  /\ seatRows' = seatRows \cup {request[w].seat}
  /\ seatStatus' = SetSeats({request[w].seat}, request[w].status)
  /\ Ends(w)
  /\ UNCHANGED <<reservations, sweep, eventStatus, faults, section>>

(* reservations.seat_id refers to the seat, whatever became of the hold. *)
Unreferenced_Mut(s) == \A r \in Rows : SeatOf(r) = s => StatusOf(r) # "pending"
Unreferenced(s) == ~HasRow(s)

(* SeatsService.remove(); a seat that is made later starts available. *)
RemoveSeat(s) ==
  /\ s \in seatRows
  /\ Unreferenced(s)
  /\ seatRows' = seatRows \ {s}
  /\ seatStatus' = SetSeats({s}, "available")
  /\ UNCHANGED <<reservations, sweep, eventStatus, faults, section, request>>

-----------------------------------------------------------------------------
Organize(w) ==
  \/ \E total \in 1 .. MaxTotal : CreateSection(w, total) \/ ReadSection(w, total)
  \/ SaveSection(w)
  \/ RequestFails(w)
  \/ \E S \in SUBSET Seats : CountSeats(w, S)
  \/ InsertSeats(w)
  \/ \E s \in Seats : ReadSeat(w, s)
  \/ SaveSeat(w)

(* create() finds the seats it is asked for in the table, or answers 404.  *)
Sells ==
  /\ HoldNext
  /\ \A r \in DOMAIN reservations' : reservations'[r].seat \in seatRows
  /\ UNCHANGED inventoryVars

InventoryNext ==
  \/ Sells
  \/ \E w \in Organizers : Organize(w)
  \/ RemoveSection
  \/ \E s \in Seats : RemoveSeat(s)

InventorySpec == InventoryInit /\ [][InventoryNext]_allVars

-----------------------------------------------------------------------------
Live(r) == StatusOf(r) \in {"pending", "confirmed"}

(* "No double-booking": a seat has one live reservation at most.  The row  *)
(* lock of create() alone does not see to it, for a stale save of the seat *)
(* makes it available again while it is held.                              *)
OneLiveHoldPerSeat ==
  \A r1, r2 \in Rows : SeatOf(r1) = SeatOf(r2) /\ Live(r1) /\ Live(r2) => r1 = r2

(* Nobody holds a seat that does not exist, and no seat is without its     *)
(* section, also when a removal meets reservations, inserts or stale saves *)
(* of what it removes.                                                     *)
HeldSeatsExist ==
  /\ \A r \in Rows : SeatOf(r) \in seatRows
  /\ seatRows # {} => section # {}

-----------------------------------------------------------------------------
(* What the project's own words promise and the steps above do not keep.   *)

(* "Rename" (README, PATCH /api/seats/:id): renaming a seat does not touch *)
(* whether it is taken.                                                    *)
RenamesKeepTheStatus ==
  [][\A w \in Organizers, s \in Seats : SaveSeat(w) => seatStatus'[s] = seatStatus[s]]_allVars

(* "Section capacity is ... seats" (bulkCreate()): two requests that count *)
(* before either inserts exceed it, and so does a smaller totalSeats.      *)
CapacityIsKept == \A row \in section : Cardinality(seatRows) <= row.total

(* A section that has a product, which checkout needs, keeps it: edits are *)
(* of name, price and totalSeats.  An edit that read the section before    *)
(* create() stored the product id overwrites it with NULL.                 *)
ProductsAreKept ==
  [][\A row \in section : row.product => \A new \in section' : new.product]_allVars
=============================================================================
