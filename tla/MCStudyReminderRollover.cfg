SPECIFICATION Spec
CONSTANTS
  Sessions = {s1}
  Users = {u1}
  NoUser = NoUser
  StartGen = 1
  Workers = {w1}
  Syncs = {y1}
  Times = {2}
  MaxTime = 2
  Before = 2
  MinLead = 0
  Grace = 1
  Horizon = 3
  Lease = 1
  Backoff = 1
  MaxRetries = 2
  MaxClaims = 2
  MaxEvents = 0
PROPERTIES
  ToldOncePerTime
