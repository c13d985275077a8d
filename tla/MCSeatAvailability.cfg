SPECIFICATION CacheSpec
CONSTANTS
  Users = {u1}
  Seats = {s1}
  ReservationIds = {r1}
  Timer = timer
  Listings = {}
  MaxFaults = 1
  Handlers = {h1, h2}
  NoEvent = none
  NoOne = noone
  Readers = {q1, q2}
  NoCount = absent
  Missed = missed
  MaxOwed = 2
SYMMETRY Symmetry
INVARIANTS
  WrongCountsHaveACause
CHECK_DEADLOCK FALSE
