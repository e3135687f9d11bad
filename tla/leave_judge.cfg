\* Every order of departures, locks and returns; locks reported in time, late
\* or too early; transactions that fail or never end.
CONSTANTS
  LockDelay = 1
  MaxNow = 4
  MaxActs = 4
  Faults = {"error", "offline", "reorder"}
SPECIFICATION FairSpec
INVARIANTS TypeOK LockIsNoLeave
PROPERTIES HomeIsCharged TasksEnd
CHECK_DEADLOCK FALSE
