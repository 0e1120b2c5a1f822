CONSTANTS
  Interfaces <- Composite
  StringLen = 192
  Requests <- AllRequests
  Address = {1}
  Slots = 1
SPECIFICATION Spec
INVARIANTS
  TypeOK
  DataComplete
  CleanUnlessOvertaken
  AddressAgrees
  ConfigAgrees
  HaltTruthful
  FifosDisjoint
PROPERTIES
  DataInOrder
  TransferEnds
CHECK_DEADLOCK FALSE
