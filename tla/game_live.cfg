\* Every leave reaches the other players, the limit beyond the horizon, while
\* processes die and come back and the server refuses writes.
CONSTANTS
  Devices = {1, 2}
  Rooms = {"r1"}
  Strays = {}
  Limits = {9}
  Bets = {5}
  Skew <- MCNoSkew
  Epoch = 4
  MaxNow = 5
  Budget <- MCBudgetCrash
  Faults = {"kill", "reject"}
SPECIFICATION FairSpec
PROPERTIES StartReachesLobby LeaverIsNamed FirstLeaveStands
CHECK_DEADLOCK FALSE
