CONSTANTS
  NoMember = NoMember
  Messages = {a, b, other}
  Ignored = {other}
  Members = {m1, m2}
  MaxLog = 3
  MaxErrors = 1
  MaxMoves = 2
SPECIFICATION Spec
INVARIANT CommittedOnlyAfterHandling
CHECK_DEADLOCK FALSE
