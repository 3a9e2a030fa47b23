SPECIFICATION Spec
CONSTANTS
  Caller = {u1, u2, u3, u4}
  Key = {k1, k2}
  NoKey = NoKey
  Verifier = {w1, w2}
SYMMETRY Symmetry
INVARIANTS
  TypeOK
  RowsHaveTheirFile
  TornFilesAreExplained
  LeftoversAreExplained
  VerdictsOverlap
CHECK_DEADLOCK FALSE
