SPECIFICATION Spec
CONSTANTS
  x = x
  y = y
  AgBlocks = 3
  Meta = 1
  MinAG = 2
  MaxBlocks = 8
  PartOffset = 0
  Labels = {x, y}
CONSTRAINT Unspoilt
SYMMETRY LabelNames
INVARIANT
  VolumeSound
  GrownOnDisk
  LabelsAgree
  CountsFollow
