\* A leave under way when another phone's time is up.
CONSTANTS
  Devices = {1, 2}
  Rooms = {"r1"}
  Strays = {}
  Limits = {3}
  Bets = {5}
  Skew <- MCSkew
  Epoch = 4
  MaxNow = 6
  Budget <- MCBudgetRace
  Faults = {}
SPECIFICATION Spec
PROPERTIES CongratsIsTrue
CHECK_DEADLOCK FALSE
