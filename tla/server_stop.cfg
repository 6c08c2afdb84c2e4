\* Three connections, any of which may ask the server to stop.
CONSTANTS
  Conns = {c1, c2, c3}
SPECIFICATION FairSpec
INVARIANTS TypeOK NothingLeftOver StopsForAReason
PROPERTIES ServedOrReset ShutdownEnds ExitStopsServer
