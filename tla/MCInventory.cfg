SPECIFICATION InventorySpec
CONSTANTS
  Users = {u1}
  Seats = {s1, s2}
  ReservationIds = {r1, r2}
  Timer = timer
  Listings = {l1}
  MaxFaults = 1
  Organizers = {w1, w2}
  MaxTotal = 2
SYMMETRY Symmetry
INVARIANTS
  InventoryTypeOK
  OneLiveHoldPerSeat
  HeldSeatsExist
PROPERTY UnlapsedHoldsAreKept
CHECK_DEADLOCK FALSE
