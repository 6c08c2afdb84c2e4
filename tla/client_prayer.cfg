\* The guard of the second prayer.
CONSTANTS
  Dlvls = {d1, d2, d3}
  Positions = {p, q}
  Timeout = 1
  StuckAfter = 1
  MaxTime = 4
  MaxTurns = 3
SPECIFICATION Spec
INVARIANT MayPrayAgain
