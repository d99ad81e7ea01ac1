SPECIFICATION Spec
CONSTRAINT Unspoilt
CONSTANTS
  Files = {f, g}
  FirstBlk = 1
  LastBlk = 4
  CellsPerBlock = 2
  ForkCells = 1
  RefcMaxRecs = 1
  Values = {1, 2}
  MaxCells = 4
  MaxRead = 4
  Imported <- MCImported
\* TLC refutes each of these: check one at a time.
INVARIANT SharedBlocksKept
\* INVARIANT ContentReplaced
\* INVARIANT GrownRegionIsZero
\* INVARIANT GrownFileReadable
