SPECIFICATION DeepSpec
CONSTANTS
  FirstBlk = 3
  LastBlk = 80
  BnoRoot = 1
  CntRoot = 2
  MaxLeaf = 4
  MaxInternal = 4
  MaxRun = 0
  MaxCalls = 9
  AllocSizes = {1, 3}
  FreeSpots = {6, 31, 44}
CONSTRAINT DeepSearchable
INVARIANTS
  CallsSucceed
  TreesSound
CHECK_DEADLOCK FALSE
