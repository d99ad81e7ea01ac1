SPECIFICATION FairSpec
CHECK_DEADLOCK FALSE
CONSTANTS
  First = 1
  Last = 6
  MaxRequest = 2
  MaxReserve = 3
  MaxLeaf = 2
INVARIANTS
  TypeOK
  NoDoubleUse
  TreesAgree
  CountersExact
PROPERTIES
  ImplementsAllocator
  CallsReturn
