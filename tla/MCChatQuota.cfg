SPECIFICATION Spec
CONSTANTS
  k1 = k1  k2 = k2  c1 = c1  c2 = c2  w1 = w1  w2 = w2  Anon = Anon
  Keys = {k1, k2}
  Channels = {c1, c2}
  KeyChannel <- OnePerChannel
  Learners = {"L"}
  Flushes = {w1, w2}
  DailyLimit = 1
  BurstLimit = 1
  BurstWindow = 1
  StuckReserved = 1
  Retention = 1
  MaxDay = 2
  MaxFlushes = 2
  MaxFaults = 1
SYMMETRY Symmetry
INVARIANTS CountersMatchRows DailyLimitHolds AnsweredOnce ReplyIsCharged
PROPERTY DeliveredIsFinal
CHECK_DEADLOCK FALSE
