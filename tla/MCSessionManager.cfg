CONSTANTS
  t1 = t1
  u1 = u1
  u2 = u2
  r1 = r1
  r2 = r2
  r3 = r3
  Threads = {t1}
  Users = {u1, u2}
  Requests <- MCRequests
  Asks <- MCAsks
  Refreshing = {r1}
  Timeout = 1
  MaxTime = 2
  ServiceFails = TRUE
SPECIFICATION Spec
INVARIANTS
  OwnSessionOnly
  OneSessionPerThread
  FreshSessionSurvives
CHECK_DEADLOCK FALSE
