SPECIFICATION Spec
CONSTANTS
  Devices = {d1, d2}
  Calls = {q1, q2}
  AccessLife = 1
  RefreshLife = 2
  Delay = 1
  MaxTime = 4
SYMMETRY Symmetry
INVARIANTS
  TypeOK
  EndedSessionsGrantNothing
  AccessIsBounded
CHECK_DEADLOCK FALSE
