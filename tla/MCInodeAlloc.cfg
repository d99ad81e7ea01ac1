SPECIFICATION Spec
CONSTANTS
  FirstBlk = 3
  LastBlk = 18
  InobtRoot = 1
  ChunkInodes = 2
  InopBlock = 1
  Reserved = 1
  MaxLeaf = 2
  MaxInternal = 2
  MaxDepth = 3
  MaxFree = 2
CONSTRAINT FewFree
INVARIANTS
  NeverHandedOutTwice
  AccountsExact
  ChainMatchesTree
  FoundWhenSound
CHECK_DEADLOCK FALSE
