SPECIFICATION Spec
CONSTANTS
  FirstBlk = 1
  LastBlk = 5
  RefcMaxRecs = 3
  MaxOwners = 4
INVARIANTS
  RecordsSound
  FreedByLastOwner
