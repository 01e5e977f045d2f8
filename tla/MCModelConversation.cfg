SPECIFICATION Spec
CONSTANTS
  Plans <- MCPlans
  Configs <- MCConfigs
  Apis = {"chat", "responses", "messages"}
  MaxTurns = 2
INVARIANTS CallsArriveWhole TextOnce TruncatedIsNotComplete ResultsArePaired OfferIsRestricted
PROPERTIES CancelEnds
CHECK_DEADLOCK FALSE
