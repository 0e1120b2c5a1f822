SPECIFICATION Spec
CONSTANTS
  Block = 3
  PerFat = 2
  Volumes <- MCVolumes
  Files <- MCFiles
  MaxOpens = 2
  MaxFails = 1
INVARIANTS
  ReadsFile
  KeepsPlace
CHECK_DEADLOCK FALSE
