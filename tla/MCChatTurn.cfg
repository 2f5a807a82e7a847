SPECIFICATION TurnSpec
CONSTANTS
  m1 = m1  m2 = m2  w1 = w1  w2 = w2  NoKey = NoKey
  Messages = {m1, m2}
  Workers = {w1, w2}
  MaxPending = 1
  MaxKeys = 2
  MaxRetries = 1
  RetryEnabled = TRUE
  ChecksMapping = FALSE
  Debounce = 1
  RetryDelay = 1
  StuckAfter = 3
  StuckReserved = 1
  ReserveWithin = 1
  MaxDeliveries = 2
  MaxFaults = 1
INVARIANTS AtLeastOnce
SYMMETRY Symmetry
CHECK_DEADLOCK FALSE
