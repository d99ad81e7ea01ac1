SPECIFICATION Spec
CONSTANTS
  x = x
  y = y
  AgBlocks = 3
  Meta = 1
  MinAG = 2
  MaxBlocks = 8
  PartOffset = 0
  Labels = {x, y}
CONSTRAINT Unspoilt
SYMMETRY LabelNames
\* TLC refutes each of these: check one at a time.
INVARIANT GrownCountsFollow
\* INVARIANT RetryFinishes
\* INVARIANT MutationsReconcile
