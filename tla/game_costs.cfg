\* A player whose app dies on the stats screen.
CONSTANTS
  Devices = {1, 2}
  Rooms = {"r1"}
  Strays = {}
  Limits = {9}
  Bets = {5}
  Skew <- MCNoSkew
  Epoch = 4
  MaxNow = 5
  Budget <- MCBudgetLive
  Faults = {"kill"}
SPECIFICATION FairSpec
PROPERTIES LeavingCosts
CHECK_DEADLOCK FALSE
