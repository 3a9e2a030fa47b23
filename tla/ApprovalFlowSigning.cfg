SPECIFICATION SigningSpec
CONSTANTS
  Vendor = {v1}
  Approver = {a1, a2, a3}
  Call = {}
  PresetStages = {"LEVEL_1_APPROVAL", "LEVEL_2_APPROVAL"}
  ConfigStages = {}
  TransitionTargets = {}
  WithdrawTargets = {}
  AddStages = {}
  MaxCopies = 1
  MaxVersion = 15
  MaxResets = 0
  ReadsMayFail = FALSE
  StatementsMayFail = FALSE
PROPERTIES
  EveryFlowIsDecided
CHECK_DEADLOCK FALSE
