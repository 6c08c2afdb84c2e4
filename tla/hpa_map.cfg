\* Four clusters, two of them cut short, and openings of one and of two tiles
SPECIFICATION Spec
CONSTANTS
  Width = 4
  Height = 3
  ClusterSize = 2
  MaxEntranceWidth = 1
  Observations <- MCObservations
  Places <- MCPlaces
  MaxUpdates = 3
  Start = Start
  Target = Target
INVARIANTS
  TypeOK
  EntrancesExact
  FoundIfReachable
PROPERTY SearchLeavesNoTrace
