\* Three keys, four writes, one snapshot, tables of one or two entries.
CONSTANTS
  Keys = {1, 2, 3}
  Deletable = {2}
  LastLevel = 2
  MaxMemLevel = 2
  L0Trigger = 2
  LevelLimit = 2
  MaxOutput = 2
  GrandparentLimit = 1
  ExpandedLimit = 4
  Begins = {1}
  Ends = {3}
  MaxWrites = 4
  MaxSnapshots = 1
SPECIFICATION Spec
INVARIANTS TypeOK GetIsNewest ScanIsNewest LevelsDisjoint
CHECK_DEADLOCK FALSE
