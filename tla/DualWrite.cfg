SPECIFICATION Spec
CONSTANTS
  Client = {c1, c2}
  Migrator = migrator
  Key = {k1, k2}
  NoKey = NoKey
SYMMETRY Symmetry
INVARIANTS
  TypeOK
  NewDataIsOnBothSides
  NothingIsLost
  SecondaryCatchesUp
CHECK_DEADLOCK FALSE
