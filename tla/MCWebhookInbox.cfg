SPECIFICATION FairSpec
CONSTANTS
  Events = {e1, e2}
  Pods = {p1, p2}
  NoPod = NoPod
  MaxRetries = 2
  BaseRetry = 1
  CapRetry = 1
  ProcessingStuck = 1
  Retention = 1
  RedeliveryWindow = 0
  RetryLimit = 1
  RetryConcurrency = 1
  InlineConcurrency = 1
  MaxFaults = 1
INVARIANTS
  TypeOK
  OneWorker
  SucceedsOnce
  AttemptsBounded
  SlotsConserved
PROPERTIES TerminalIsFinal EveryEventSettles
CHECK_DEADLOCK FALSE
