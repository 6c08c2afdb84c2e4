SPECIFICATION Spec
CONSTANTS
  Objs = {a, b}
  Levels = {1, 2, 3}
  FirstLevel = 1
  EndLevels = {3}
  LampMarks = {0, 1}
  CandleMarks = {0, 2}
  Grain = 2
  MaxFuel = 3
  MaxQuan = 2
  MaxMade = 1
  RotTime = 2
  PrayTime = 2
  MaxMoves = 3
INVARIANTS TypeOK TimersFollowObjects LitMeansBurning
PROPERTIES RoundsSettleTimers ImplementsFuelClock
CHECK_DEADLOCK FALSE
