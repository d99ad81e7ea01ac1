SPECIFICATION Spec
CONSTRAINT Sane
CONSTANTS
  a = a
  b = b
  Names = {a, b}
  MaxIno = 4
  SFMax = 1
  MaxPath = 2
  MaxSymlinkDepth = 2
  MaxDrift = 1
  Targets <- MCTargets
\* TLC refutes each of these: check one at a time.
INVARIANT LinksKeepTheInode
\* INVARIANT ReplacedDirsAreEmpty
\* INVARIANT ParentsCountSubdirs
\* INVARIANT DeleteDirFinishes
