SPECIFICATION Spec
CONSTANTS
  Jobs <- MCJobs
  Editors = {"e1"}
  MaxCases = 4
  MaxTurns = 2
  MaxTime = 1
INVARIANTS EveryCaseOnce VerdictsAreFair
PROPERTY EvaluationEnds
CHECK_DEADLOCK FALSE
