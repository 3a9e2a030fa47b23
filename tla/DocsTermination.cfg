SPECIFICATION TxSpec
CONSTANTS
  Vendor = {v1}
  Approver = {a1, a2}
  Call = {}
  PresetStages = {}
  ConfigStages = {}
  TransitionTargets = {}
  WithdrawTargets = {""}
  AddStages = {}
  MaxCopies = 1
  MaxVersion = 4
  MaxResets = 1
  ReadsMayFail = FALSE
  StatementsMayFail = FALSE
INVARIANTS
  RejectionTerminates
