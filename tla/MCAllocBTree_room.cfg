SPECIFICATION Spec
CONSTANTS
  FirstBlk = 3
  LastBlk = 14
  BnoRoot = 1
  CntRoot = 2
  MaxLeaf = 4
  MaxInternal = 4
  MaxRun = 3
CONSTRAINT Searchable
INVARIANT RoomIsFound
