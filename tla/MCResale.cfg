SPECIFICATION HoldSpec
CONSTANTS
  Users = {u1, u2}
  Seats = {s1, s2}
  ReservationIds = {r1, r2, r3}
  Timer = timer
  Listings = {l1, l2}
  MaxFaults = 1
INVARIANT AvailableSeatsCanBeReserved
CHECK_DEADLOCK FALSE
