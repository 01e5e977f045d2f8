CONSTANTS
  c1 = c1
  c2 = c2
  s1 = s1
  s2 = s2
  text = text
  Calls <- MCCalls
  Submits <- MCSubmits
  Content <- MCContent
  IdOf <- MCIdOf
  NoSubmit = NoSubmit
  Capacity = 1
  MaxContent = 2
  MaxPings = 1
SPECIFICATION FairSpec
INVARIANTS
  WireIsPrefix
  EveryEventDelivered
  ResultsGoToTheirCalls
PROPERTY
  EverythingEnds
CHECK_DEADLOCK FALSE
