SPECIFICATION FairSpec
CONSTANTS
  Ids = {v1, v2}
  EventIds = {e1}
  Home = v1
  Users = {u1}
  Readers = {q1}
  Writers = {w1, w2}
  MaxSaves = 2
  MaxFaults = 1
INVARIANTS
  WrongListsHaveACause
  OneFavoritePerEvent
PROPERTY StaleListsEnd
CHECK_DEADLOCK FALSE
