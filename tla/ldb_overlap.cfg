\* Three keys, five writes, tables of one or two entries.
CONSTANTS
  Keys = {1, 2, 3}
  Deletable = {}
  LastLevel = 2
  MaxMemLevel = 2
  L0Trigger = 2
  LevelLimit = 2
  MaxOutput = 2
  GrandparentLimit = 1
  ExpandedLimit = 4
  Begins = {1}
  Ends = {3}
  MaxWrites = 5
  MaxSnapshots = 0
SPECIFICATION Spec
INVARIANTS NeverOverlap
CHECK_DEADLOCK FALSE
