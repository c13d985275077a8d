SPECIFICATION DoorSpec
CONSTANTS
  Users = {u1}
  Seats = {s1}
  ReservationIds = {r1}
  Timer = timer
  Listings = {}
  MaxFaults = 0
  Handlers = {h1}
  NoEvent = none
  NoOne = noone
  Scanners = {g1, g2}
  MaxAdmissions = 2
INVARIANT AdmittedOnce
CHECK_DEADLOCK FALSE
