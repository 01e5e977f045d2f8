CONSTANTS
  k1 = k1
  k2 = k2
  c1 = c1
  c2 = c2
  Keys <- MCKeys
  Calls <- MCCalls
  Pauses <- MCPauses
  Answers <- MCAnswers
  r1 = r1
  r2 = r2
  r3 = r3
  Requests <- MCRequests
  Mode <- MCMode
  MaxEntries = 1
  TTL = 1
  MaxTime = 1
  MaxSaves = 2
SPECIFICATION Spec
INVARIANT
  ExecutedOnce
CHECK_DEADLOCK FALSE
