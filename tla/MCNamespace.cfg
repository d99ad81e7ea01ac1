SPECIFICATION Spec
CONSTRAINT Sane
SYMMETRY BothNames
CONSTANTS
  a = a
  b = b
  Names = {a, b}
  MaxIno = 4
  SFMax = 1
  MaxPath = 2
  MaxSymlinkDepth = 2
  MaxDrift = 1
  Targets <- MCTargets
INVARIANTS
  NoNameDangles
  DirectoriesSound
  LinkCountsExact
