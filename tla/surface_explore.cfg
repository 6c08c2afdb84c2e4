\* A level of four places.
CONSTANTS
  Width = 2
  Height = 2
  Levels <- TwoRooms
  Views <- MCViews
  BoulderSpots <- Behind
  KeeperSpots <- Behind
  Engravings <- InFront
SPECIFICATION Spec
INVARIANTS TypeOK TypesMatchTiles SeenIsLookedAt NoFrontierMissed
