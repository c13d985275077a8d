SPECIFICATION FairSpec
CONSTANTS
  EventIds = {e1, e2}
  Writers = {w1, w2}
  Readers = {q1}
  MaxSaves = 3
  MaxFaults = 1
INVARIANTS
  TypeOK
  AnswersAreRecent
PROPERTIES
  SettledCancellationsLast
  StaleListsEnd
  PublishedEventsAreReminded
CHECK_DEADLOCK FALSE
