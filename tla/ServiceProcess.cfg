CONSTANTS
  Requests = {"r1"}
  Events = {"e1"}
  MaxStarts = 2
SPECIFICATION FairSpec
INVARIANTS
  TypeOK
  ExpositionConsistent
  CleanExit
PROPERTIES
  StopsWhenTold
  RequestsComplete
CHECK_DEADLOCK FALSE
