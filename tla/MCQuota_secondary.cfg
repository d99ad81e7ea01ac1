SPECIFICATION Spec
CONSTANTS
  Inos = {1, 2, 3, 4, 5}
  Owners <- MCOwners
  Configs <- MCConfigs
  PerBlock = 2
  MaxFiles = 2
  MaxNBlocks = 1
  Space = 3
  MaxFaults = 0
INVARIANT SecondariesWithoutQuota
