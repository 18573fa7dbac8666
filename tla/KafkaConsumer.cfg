CONSTANTS
  NoMember = NoMember
  Messages = {a, b, other}
  Ignored = {other}
  Members = {m1, m2}
  MaxLog = 3
  MaxErrors = 2
  MaxMoves = 2
SPECIFICATION FairSpec
INVARIANTS
  TypeOK
  AppliedOnce
  LossesBounded
PROPERTIES
  HandledInOrder
  EventuallyHandled
CHECK_DEADLOCK FALSE
