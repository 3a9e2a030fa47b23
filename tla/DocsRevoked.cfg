SPECIFICATION Spec
CONSTANTS
  AppKey = {k1}
  Call = {c1, c2}
  MaxVersion = 2
PROPERTIES
  RevocationIsFinal
CHECK_DEADLOCK FALSE
