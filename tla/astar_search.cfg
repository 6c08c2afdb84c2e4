\* Every map of four nodes, consistent and inconsistent heuristics.
CONSTANTS
  s = s
  a = a
  b = b
  t = t
  Nodes <- MCNodes
  Start = s
  Target = t
  Graphs <- MCGraphs
  Heuristics <- MCHeuristics
SPECIFICATION FairSpec
INVARIANTS TypeOK QueueIsOpenSet ParentsLead NullMeansUnreachable PathIsReal PathIsCheapest
PROPERTIES SearchEnds
