SPECIFICATION AuthSpec
CONSTANTS
  AppKey = {k1}
  Call = {c1, c2, c3, c4}
  MaxVersion = 4
  Request = {r1}
SYMMETRY Symmetry
INVARIANTS
  TypeOK
  RequestTypeOK
  OneActiveKey
  KeyAvailable
  AnswersAreTrue
  RotationIsAnnounced
PROPERTIES
  NeverReactivated
CHECK_DEADLOCK FALSE
