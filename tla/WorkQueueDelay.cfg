SPECIFICATION MCSpec
CONSTANTS
  c0 = c0
  a = a
  b = b
  d = d
  irq = irq
  i1 = i1
  i2 = i2
  Timers = {t1, t2, t3}
  NoTimer = NoTimer
  TickMod = 8
  Times = {1, 2}
  HeapSize = 15
  Hdr = 2
  MinSize = 2
  Sizes = {1, 3, 6}
  HeapUsers = {u1, u2}
  Null = Null
  Nobody = Nobody
  Threads <- MCThreads
  Cpus = {c0}
  Bind <- MCBind
  Lists = {"pool", "push", "pop", "completion"}
  Handlers = {irq}
  Prio <- MCPrio
  Flag = "PRIO"
  Waits = {"no", "timed", "forever"}
  Resets = FALSE
  Detachers = {b}
  Blocks = {n1, n2}
  Users = {p, q, r}
  Channels = 2
  NoUser = NoUser
  Works = {w1, w2}
  Clients = {k1, k2}
  Isr = isr
  NoWork = NoWork
  Resubmits = TRUE
  Items = {i1, i2}
  ItemsOf <- MCItems
  NoItem = NoItem
  DqSize = 2
  Lwm = 0
  RbSize = 4
  Lengths = {0, 1, 2, 3, 4, 5, 6}
  MaxPut = 9
  Readers = {r1}
  Writers = {q1}
  PipeSize = 2
  Counts = {1, 2, 3}
  NoThread = NoThread
  Mortals = {x1, x2, x3}
  NoMortal = NoMortal
  HomeOf <- MCHome
  SysCore = c0
  MaxPosts = 4
INVARIANT
  DelayFindsQueue
