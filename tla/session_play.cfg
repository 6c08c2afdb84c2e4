\* One connection over its whole life; a chain of 3 stands for the one of 256,
\* whose length becomes 0 in its byte.
CONSTANTS
  Chains = {1, 2, 3}
  ByteRange = 3
  MaxPending = 2
SPECIFICATION FairSpec
INVARIANTS TypeOK RepliesInStep NoOrphanRequest DoneIsTrue
PROPERTIES NoGameLeaked CallReturns HandlerEnds ImplementsRemoteCall
