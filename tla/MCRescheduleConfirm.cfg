SPECIFICATION FairSpec
CONSTANTS
  Workers = {w1, w2}
  Slots = {1, 2}
  Targets <- OtherSlots
  DailyCap = 2
  PendingTtl = 2
  StaleAfter = 1
  MaxRequests = 2
  MaxTaps = 3
  MaxFaults = 2
INVARIANTS
  TypeOK
  NeverWithoutSession
  WriteHoldsRow
  ConfirmedIsReal
PROPERTY RowIsReleased
CHECK_DEADLOCK FALSE
