\* Three levels of two places, four steps.
CONSTANTS
  Dlvls = {d1, d2, d3}
  Positions = {p, q}
  Timeout = 1
  StuckAfter = 1
  MaxTime = 4
  MaxTurns = 3
SPECIFICATION Spec
INVARIANTS TypeOK NumbersNameAreas PrevIsPredecessor DecidesOnCurrent TraceIsHistory
PROPERTIES PrayersApart
