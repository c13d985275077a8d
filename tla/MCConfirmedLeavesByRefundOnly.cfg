SPECIFICATION Spec
CONSTANTS
  Users = {u1}
  Seats = {s1, s2}
  ReservationIds = {r1, r2}
  Timer = timer
  Listings = {}
  MaxFaults = 0
  Handlers = {h1, h2}
  NoEvent = none
  NoOne = noone
PROPERTY ConfirmedLeavesByRefundOnly
CHECK_DEADLOCK FALSE
