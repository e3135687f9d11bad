\* Two writers, two batches, a memtable for one group, one error, one crash.
CONSTANTS
  Clients = {1, 2}
  MaxBatch = 2
  MaxForced = 1
  Size <- MCSize
  WriteBuffer = 0
  L0Trigger = 1
  L0Stop = 2
  BlockSize = 4
  HeaderSize = 2
  Faults = {"append", "sync", "create", "table", "manifest", "kill", "power"}
  MaxErrors = 1
  MaxCrashes = 1
SPECIFICATION FairSpec
INVARIANTS TypeOK TablesPresent NewestIsLast BatchesWhole
PROPERTIES PromiseKept CompactedIsInTables CallsReturn
CHECK_DEADLOCK FALSE
