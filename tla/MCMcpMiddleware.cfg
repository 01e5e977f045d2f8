SPECIFICATION Spec
CONSTANTS
  Servers = {"s1", "s2"}
  ToolsOf <- MCToolsOf
  Base <- MCBase
  UiTools = {"t1"}
  Scripts <- MCScripts
  ClientLists <- MCClientLists
  MaxIterations = 1
  Capacity = 1
  MaxRuns = 2
  MaxInvocations = 3
INVARIANTS CallsAnsweredOnce CallsReachTheirTool
PROPERTIES RunEnds
CHECK_DEADLOCK FALSE
