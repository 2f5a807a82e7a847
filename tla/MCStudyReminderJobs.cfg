SPECIFICATION Spec
CONSTANTS
  Sessions = {s1}
  Users = {u1, u2}
  NoUser = NoUser
  StartGen = 2
  Workers = {w1, w2}
  Syncs = {y1}
  Times = {1, 3}
  MaxTime = 1
  Before = 2
  MinLead = 0
  Grace = 1
  Horizon = 2
  Lease = 1
  Backoff = 1
  MaxRetries = 2
  MaxClaims = 2
  MaxEvents = 2
SYMMETRY Symmetric
INVARIANTS
  TypeOK
  RemindedOnce
  SendIsOwned
PROPERTIES
  SentStaysSent
CHECK_DEADLOCK TRUE
