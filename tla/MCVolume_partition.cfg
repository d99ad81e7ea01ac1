SPECIFICATION Spec
CONSTANTS
  x = x
  y = y
  AgBlocks = 3
  Meta = 1
  MinAG = 2
  MaxBlocks = 8
  PartOffset = 4
  Labels = {x, y}
CONSTRAINT Unspoilt
CHECK_DEADLOCK FALSE
SYMMETRY LabelNames
INVARIANT
  GrownOnDisk
