SPECIFICATION FairSpec
CONSTANTS
  Workers = {w1, w2}
  Slots = {1, 2}
  Targets <- OtherSlots
  DailyCap = 2
  PendingTtl = 2
  StaleAfter = 1
  MaxRequests = 1
  MaxTaps = 2
  MaxFaults = 1
INVARIANT TapRepeatsConfirmation
CHECK_DEADLOCK FALSE
