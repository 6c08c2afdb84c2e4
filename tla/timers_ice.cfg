SPECIFICATION Spec
CONSTANTS
  Objs = {a, b}
  Levels = {1, 2, 3}
  FirstLevel = 1
  EndLevels = {3}
  LampMarks = {0, 1}
  CandleMarks = {0, 2}
  Grain = 2
  MaxFuel = 3
  MaxQuan = 2
  MaxMade = 1
  RotTime = 1
  PrayTime = 0
  MaxMoves = 2
PROPERTIES CorpseKeepsTimer
CHECK_DEADLOCK FALSE
