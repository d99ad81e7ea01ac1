SPECIFICATION Spec
CONSTRAINT Unspoilt
SYMMETRY Names
CONSTANTS
  Files = {f, g}
  FirstBlk = 1
  LastBlk = 4
  CellsPerBlock = 2
  ForkCells = 1
  RefcMaxRecs = 1
  Values = {1, 2}
  MaxCells = 4
  MaxRead = 4
  Imported <- MCImported
INVARIANTS
  ReadsBack
  PositionalReads
  BlocksSound
  SharersAreMarked
