SPECIFICATION Spec
CONSTANTS
  FirstBlk = 3
  LastBlk = 13
  BnoRoot = 1
  CntRoot = 2
  MaxLeaf = 4
  MaxInternal = 4
  MaxRun = 3
CONSTRAINT Searchable
INVARIANTS
  CallsSucceed
  TreesSound
  RoomIsFoundWhenSearchable
PROPERTIES
  ImplementsAllocator
