SPECIFICATION FairSpec
CONSTANTS
  Users = {u1, u2}
  Seats = {s1}
  ReservationIds = {r1}
  Timer = timer
  Listings = {l1}
  MaxFaults = 2
  Handlers = {h1, h2}
  NoEvent = none
  NoOne = noone
INVARIANTS
  TypeOK
  SeatReservationAgreement
  HandledOnce
PROPERTIES
  SellsEachSeatOnce
  PaidOrdersAreServed
  HoldsEnd
CHECK_DEADLOCK FALSE
