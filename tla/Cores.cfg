SPECIFICATION MCSpec
CONSTANTS
  t1 = t1
  t2 = t2
  t3 = t3
  i0 = i0
  i1 = i1
  a = a
  b = b
  d = d
  NULL = NULL
  Threads <- MCThreads
  Cpus = {0, 1}
  Bind <- MCBind
  Cores = {0, 1}
  Tasks <- MCTasks
  Home <- MCHome
  Idle <- MCIdle
  Urgency <- MCUrgency
  Nobody = Nobody
CONSTRAINT
  Apart
INVARIANTS
  MutualExclusion
  OwnerIsInside
  SectionNotPreempted
  WakeUpExact
  RescheduleServed
PROPERTIES
  TakenInOneStep
CHECK_DEADLOCK FALSE
