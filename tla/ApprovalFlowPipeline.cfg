SPECIFICATION Spec
CONSTANTS
  Vendor = {v1}
  Approver = {a1, a2}
  Call = {c1}
  PresetStages = {"LEVEL_2_APPROVAL"}
  ConfigStages = {}
  TransitionTargets = {}
  WithdrawTargets = {}
  AddStages = {}
  MaxCopies = 2
  MaxVersion = 7
  MaxResets = 0
  ReadsMayFail = FALSE
  StatementsMayFail = FALSE
SYMMETRY Symmetry
INVARIANTS
  PassedStagesWereSigned
