SPECIFICATION Spec
CONSTRAINT Explored
SYMMETRY Names
CONSTANTS
  Imported <- MCImported
  FmtGroups = {1, 2}
  OffBits = 2
  HiBits = 3
  LoBits = 13
  CntBits = 2
  Ids = {f, g}
  MaxRun = 2
  MaxChunks = 2
  MaxLive = 1
  Low = 15
  High = 1
INVARIANT AcceptedInodesApart
CHECK_DEADLOCK FALSE
