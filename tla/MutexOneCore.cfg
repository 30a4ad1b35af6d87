SPECIFICATION Spec
CONSTANTS
  c0 = c0
  c1 = c1
  a = a
  b = b
  d = d
  Nobody = Nobody
  Threads <- MCThreads
  Cpus = {c0}
  Bind <- MCOneCore
  Lists = {"m"}
  BasePrio <- MCPrio
  NoPrio = 9
  HoldMax = 2
  Waits = {"no", "timed", "forever"}
INVARIANTS
  TypeOK
  TimeoutFindsSuspended
  OwnerHolds
  WaitersServed
  PriorityInheritance
PROPERTIES
  PassesByUrgency
