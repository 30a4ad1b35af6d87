SPECIFICATION MCSpec
CONSTANTS
  c0 = c0
  c1 = c1
  a = a
  b = b
  d = d
  irq = irq
  Nobody = Nobody
  Threads <- MCThreads
  Cpus = {c0, c1}
  Bind <- MCBind
  Handlers = {irq}
  Lists = {"sem"}
  Prio <- MCPrio
  Flag = "PRIO"
  InitValue = 1
  ValueMax = 2
  Waits = {"no", "forever"}
  ResetValues = {}
  Detachers = {b}
INVARIANTS
  TypeOK
  SuspendedIsLinked
  SemaphoreServes
PROPERTIES
  CountsTokens
  EveryTimedWaitEnds
