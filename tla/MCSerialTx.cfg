CONSTANTS
  Depth = 2
  Packet = 2
  Total = 5
  Wirings <- AllWirings
  Resets = TRUE
SPECIFICATION Spec
INVARIANT
  Conserved
PROPERTY
  Drains
CHECK_DEADLOCK FALSE
