SPECIFICATION Spec
CONSTANTS
  idle = idle
  main = main
  a = a
  b = b
  Nobody = Nobody
  Threads <- MCThreads
  Idle = idle
  Main = main
  Prios <- MCPrios
  InitPrio <- MCInitPrio
  NewPrios = {1, 2}
  Slice = 2
  MaxNest = 1
  Sleepers = {a, b}
  Victims = {}
INVARIANTS
  TypeOK
  ReadyQueueExact
  OneThreadOnCore
  TimerOnlyWhenSuspended
