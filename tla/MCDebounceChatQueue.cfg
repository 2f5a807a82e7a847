CONSTANTS
  Users = {u1, u2}
  ConfigMaxPendingSize = 2
  DefaultMaxPendingSize = 3
  DrainTimeout = 2
  MaxMessages = 3
SPECIFICATION FairSpec
INVARIANTS TypeOK BufferIsNewestRun WorkIsScheduled KeyIsFresh
CHECK_DEADLOCK FALSE
PROPERTIES NoMessageStays DestroyReturns
