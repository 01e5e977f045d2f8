CONSTANTS
  Agents <- MCAgents
  Root = "root"
  NoAgent = "nobody"
  Tools <- MCTools
  Nameless = ""
  Builtin = "search"
  ClientTools = {"ask"}
  Args <- MCArgs
  Plans <- MCPlans
  Configs <- MCConfigs
  MaxAnswers = 2
SPECIFICATION Spec
INVARIANTS
  TextArrivesWhole
  ArgsArriveOnce
  ResultsMatchTheirCalls
PROPERTIES
  ImplementsProtocol
CHECK_DEADLOCK FALSE
