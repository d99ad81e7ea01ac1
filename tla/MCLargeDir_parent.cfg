SPECIFICATION Spec
CONSTRAINT Uncut
CONSTANTS
  Names <- MCNames
  Size <- MCSize
  Hash <- MCHash
  Spelt <- MCSpelt
  Ino <- MCIno
  Self = 5
  Parents = {1, 65}
  Word = 64
  Imported = {FALSE}
  SfCap = 2
  DataRoom = 14
  Leaf1Room = 24
  LeafCap = 2
  NodeCap = 3
  BestsCap = 2
  LastBlk = 14
  LeafLog = 20
  FreeLog = 40
  MaxCut = 10
INVARIANT ParentReadBack
