CONSTANTS
  Uuid = d1
  Others = {d2, d3}
  Payed = {d1, d2}
  Images <- MCImages
  W = 128
  Desc = 1
  Magic = 1
  TotalBlocks = 13
  BlockWords = 2
  ConnMax = 2
  MaxConn = 3
SPECIFICATION Spec
INVARIANT
  DownloadRuns
