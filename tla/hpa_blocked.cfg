\* A boulder lies in the middle of an open border
SPECIFICATION Spec
CONSTANTS
  Width = 4
  Height = 2
  ClusterSize = 2
  MaxEntranceWidth = 6
  Observations <- BoulderRolls
  Places <- Ends
  MaxUpdates = 2
  Start = Start
  Target = Target
INVARIANT FindPathTells
