SPECIFICATION FairSpec
CONSTANTS
  m1 = m1  m2 = m2  w1 = w1  w2 = w2  NoKey = NoKey
  Messages = {m1, m2}
  Workers = {w1, w2}
  MaxPending = 1
  MaxKeys = 3
  MaxRetries = 1
  RetryEnabled = TRUE
  ChecksMapping = TRUE
  Debounce = 1
  RetryDelay = 1
  StuckAfter = 1
  MaxDeliveries = 2
  MaxFaults = 1
INVARIANTS TypeOK NothingLost LeaseIsBatch KeyOfNewest NoDuplicates WorkIsIndexed
PROPERTY MessagesSettle
CHECK_DEADLOCK FALSE
