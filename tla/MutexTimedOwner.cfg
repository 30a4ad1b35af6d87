SPECIFICATION Spec
CONSTANTS
  c0 = c0
  c1 = c1
  a = a
  b = b
  d = d
  Nobody = Nobody
  Threads <- MCThreads
  Cpus = {c0, c1}
  Bind <- MCTwoCores
  Lists = {"m"}
  BasePrio <- MCPrio
  NoPrio = 9
  HoldMax = 1
  Waits = {"no", "timed", "forever"}
INVARIANTS
  OwnerHolds
