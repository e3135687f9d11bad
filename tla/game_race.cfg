\* Two players whose clocks differ, a room and a code that is no room, joins
\* that overlap, a limit that can expire.
CONSTANTS
  Devices = {1, 2}
  Rooms = {"r1"}
  Strays = {"x"}
  Limits = {3}
  Bets = {5}
  Skew <- MCSkew
  Epoch = 4
  MaxNow = 6
  Budget <- MCBudgetRace
  Faults = {}
SPECIFICATION Spec
INVARIANTS TypeOK DeadlineHonoured NoFalseAccusation RidStable
PROPERTIES OwedIsStaked NamesRarelyDiffer PromiseKept RoomSurvives FirstLeaveStands
CHECK_DEADLOCK FALSE
