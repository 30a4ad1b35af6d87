SPECIFICATION FairSpec
CONSTANTS
  idle = idle
  main = main
  a = a
  b = b
  Nobody = Nobody
  Threads <- MCThreads
  Idle = idle
  Main = main
  Prios <- MCPrios
  InitPrio <- MCInitPrio
  NewPrios = {}
  Slice = 2
  MaxNest = 1
  Sleepers = {}
  Victims = {b}
INVARIANTS
  HighestPriorityRuns
  ClosedIsGone
PROPERTIES
  RoundRobin
