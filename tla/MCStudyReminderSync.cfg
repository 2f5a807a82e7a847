SPECIFICATION FairSpec
CONSTANTS
  Sessions = {s1}
  Users = {u1}
  NoUser = NoUser
  StartGen = 2
  Workers = {w1}
  Syncs = {y1, y2}
  Times = {1, 2}
  MaxTime = 0
  Before = 2
  MinLead = 0
  Grace = 1
  Horizon = 2
  Lease = 1
  Backoff = 1
  MaxRetries = 1
  MaxClaims = 1
  MaxEvents = 2
PROPERTIES
  GenerationGrows
  ClaimsEnd
  JobsFollowCalendar
