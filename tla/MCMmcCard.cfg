\* A poll without an end and the breakpoint are states the system stays in.
CHECK_DEADLOCK FALSE
CONSTANTS
  Kinds <- AllKinds
  Cap = 3
  PPB = 2
  MaxLen = 3
  Settle = 1
  T1Open = 2
  T1 = 1
  T2 = 1
SPECIFICATION Spec
INVARIANT
  TypeOK
PROPERTIES
  ReadTruthful
  WriteTruthful
  OpenEnds
  CommandsEnd
