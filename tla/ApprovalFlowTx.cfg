SPECIFICATION TxSpec
CONSTANTS
  Vendor = {v1}
  Approver = {a1, a2}
  Call = {}
  PresetStages = {}
  ConfigStages = {"LEVEL_1_APPROVAL"}
  TransitionTargets = {"LEGAL_APPROVAL", "COMPLETED", "REJECTED"}
  WithdrawTargets = {"", "DATA_COLLECTION"}
  AddStages = {}
  MaxCopies = 1
  MaxVersion = 5
  MaxResets = 1
  ReadsMayFail = FALSE
  StatementsMayFail = TRUE
SYMMETRY Symmetry
INVARIANTS
  TypeOK
  VendorAgreesWithFlow
PROPERTIES
  StageChangesAreVersioned
  AdvancesAreEarned
