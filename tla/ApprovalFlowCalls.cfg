SPECIFICATION Spec
CONSTANTS
  Vendor = {v1}
  Approver = {a1, a2}
  Call = {c1, c2}
  PresetStages = {}
  ConfigStages = {}
  TransitionTargets = {"LEGAL_APPROVAL"}
  WithdrawTargets = {""}
  AddStages = {"LEGAL_APPROVAL"}
  MaxCopies = 1
  MaxVersion = 3
  MaxResets = 1
  ReadsMayFail = TRUE
  StatementsMayFail = TRUE
SYMMETRY Symmetry
INVARIANTS
  DecisionsAreSigned
