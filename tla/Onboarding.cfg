SPECIFICATION Spec
CONSTANTS
  Vendor = {v1, v2}
  Code = {s1, s2}
  Caller = {c1, c2}
SYMMETRY Symmetry
INVARIANTS
  TypeOK
  FlowlessVendorsAreExplained
  SubmissionTakesEffect
  PhantomFlowHasCause
CHECK_DEADLOCK FALSE
