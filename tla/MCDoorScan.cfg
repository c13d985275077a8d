SPECIFICATION DoorSpec
CONSTANTS
  Users = {u1}
  Seats = {s1, s2}
  ReservationIds = {r1, r2}
  Timer = timer
  Listings = {}
  MaxFaults = 1
  Handlers = {h1}
  NoEvent = none
  NoOne = noone
  Scanners = {g1}
  MaxAdmissions = 2
SYMMETRY Symmetry
CONSTRAINT OneOrder
INVARIANTS
  EntriesWerePaid
  ConfirmedIsPaid
  RefundedHoldsArePaidBack
  AnnouncedOrdersAreTicketed
PROPERTIES
  PaymentsBookWhatIsHeld
  VoidTicketsAdmitNobody
  SpentTicketsAdmitNobody
CHECK_DEADLOCK FALSE
