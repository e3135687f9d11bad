\* One writer whose first append fails, and a process that dies.
CONSTANTS
  Clients = {1}
  MaxBatch = 2
  MaxForced = 0
  Size <- MCSize
  WriteBuffer = 0
  L0Trigger = 1
  L0Stop = 2
  BlockSize = 4
  HeaderSize = 2
  Faults = {"append", "kill"}
  MaxErrors = 1
  MaxCrashes = 1
SPECIFICATION Spec
PROPERTY NoWriteLost
CHECK_DEADLOCK FALSE
