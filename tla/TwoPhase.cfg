SPECIFICATION Spec
CONSTANTS
  Call = {c1, c2, c3}
  Participant = {main, audit}
  None = None
INVARIANTS
  TypeOK
  StatusIsTrue
PROPERTIES
  CommitIsAtomic
CHECK_DEADLOCK FALSE
