CONSTANTS
  PPB = 2
  TxDepth = 2
  Scenes <- AllScenes
SPECIFICATION Spec
INVARIANTS
  PhasesAgree
  InStep
  NeverPastEnd
  Accounting
  NoRecovery
PROPERTIES
  StatusTruthful
  CommandEnds
