----------------------------- MODULE SpinLockProofs -----------------------------
(***************************************************************************)
(* Proofs about module SpinLock, for every set of threads, every set of     *)
(* cores and every binding of the threads to the cores.                    *)
(***************************************************************************)
EXTENDS SpinLock, TLAPS

\* A reservation stands only while the lock is free, and a free lock has no
\* holder: why a successful sc.w of exclusive_read_write finds nobody inside.
FreeLock ==
    /\ \A c \in Cpus : resv[c] => lock = 0
    /\ lock = 0 => \A t \in Threads : pc[t] \notin Holding

\* From the second csrrci to rt_hw_local_irq_enable the thread stays on its
\* core with interrupts off.
IrqsOff ==
    \A t \in Threads :
        pc[t] \in {"irqoff", "own", "cs", "disown", "irqon"} =>
            Running(t) /\ ~mie[Bind[t]]

\* The inductive invariant: MutualExclusion alone is not preserved by sc.w
\* (which needs FreeLock) nor by the test of owner (which needs OwnerIsInside).
IInv ==
    /\ TypeOK
    /\ MutualExclusion
    /\ OwnerIsInside
    /\ FreeLock
    /\ IrqsOff

-----------------------------------------------------------------------------

\* Initially nobody is inside.
LEMMA InitInv == Init => IInv
<1> SUFFICES ASSUME Init PROVE IInv
  OBVIOUS
<1>1. TypeOK
  BY DEF Init, TypeOK, Labels
<1>2. MutualExclusion /\ FreeLock /\ IrqsOff
  BY DEF Init, MutualExclusion, FreeLock, IrqsOff, Holding
<1>3. OwnerIsInside
  BY NullAssumption DEF Init, OwnerIsInside
<1> QED
  BY <1>1, <1>2, <1>3 DEF IInv

\* Every step keeps the variables in their types.
LEMMA TypeStep == TypeOK /\ [Next]_vars => TypeOK'
<1> SUFFICES ASSUME TypeOK, [Next]_vars PROVE TypeOK'
  OBVIOUS
<1> USE BindAssumption, NullAssumption DEF TypeOK, Labels
<1>1. ASSUME NEW t \in Threads, TestOwner(t) \/ Advance(t) PROVE TypeOK'
  <2>1. CASE TestOwner(t)
    BY <2>1 DEF TestOwner
  <2>2. CASE LoadReserved(t)
    BY <2>2 DEF LoadReserved
  <2>3. CASE StoreConditional(t)
    <3>1. CASE resv[Bind[t]]
      <4>1. /\ lock' = 1 /\ resv' = [c \in Cpus |-> FALSE]
            /\ pc' = [pc EXCEPT ![t] = "fall"]
            /\ UNCHANGED <<owner, level, mie, saved, cur>>
        BY <2>3, <3>1 DEF StoreConditional
      <4>2. resv' \in [Cpus -> BOOLEAN]
        BY <4>1, Zenon
      <4> QED
        BY <4>1, <4>2
    <3>2. CASE ~resv[Bind[t]]
      BY <2>3, <3>2 DEF StoreConditional
    <3> QED
      BY <3>1, <3>2
  <2>4. CASE FallThrough(t) \/ DisableIrq(t)
    BY <2>4 DEF FallThrough, DisableIrq
  <2>5. CASE SetOwner(t) \/ ClearLock(t)
    BY <2>5 DEF SetOwner, ClearLock
  <2>6. CASE ClearOwner(t) \/ RestoreIrq(t)
    BY <2>6 DEF ClearOwner, RestoreIrq
  <2> QED
    BY <1>1, <2>1, <2>2, <2>3, <2>4, <2>5, <2>6 DEF Advance
<1>2. ASSUME NEW t \in Threads, NEW u \in Threads, Switch(t, u) PROVE TypeOK'
  BY <1>2 DEF Switch
<1>3. CASE UNCHANGED vars
  BY <1>3 DEF vars
<1> QED
  BY <1>1, <1>2, <1>3 DEF Next

\* The interrupt discipline: one step of a thread or a switch keeps IrqsOff.
LEMMA IrqsStep == IInv /\ [Next]_vars => IrqsOff'
<1> SUFFICES ASSUME IInv, [Next]_vars PROVE IrqsOff'
  OBVIOUS
<1> USE BindAssumption DEF IInv, TypeOK, Labels, IrqsOff, Running
<1>1. ASSUME NEW t \in Threads, TestOwner(t) \/ Advance(t) PROVE IrqsOff'
  <2>1. CASE TestOwner(t)
    BY <2>1 DEF TestOwner, OwnerIsInside
  <2>2. CASE LoadReserved(t)
    BY <2>2 DEF LoadReserved
  <2>3. CASE StoreConditional(t)
    BY <2>3 DEF StoreConditional
  <2>4. CASE FallThrough(t)
    BY <2>4 DEF FallThrough
  <2>5. CASE DisableIrq(t)
    BY <2>5 DEF DisableIrq
  <2>6. CASE SetOwner(t)
    BY <2>6 DEF SetOwner
  <2>7. CASE ClearLock(t)
    BY <2>7 DEF ClearLock
  <2>8. CASE ClearOwner(t)
    BY <2>8 DEF ClearOwner
  <2>9. CASE RestoreIrq(t)
    BY <2>9 DEF RestoreIrq
  <2> QED
    BY <1>1, <2>1, <2>2, <2>3, <2>4, <2>5, <2>6, <2>7, <2>8, <2>9 DEF Advance
<1>2. ASSUME NEW t \in Threads, NEW u \in Threads, Switch(t, u) PROVE IrqsOff'
  BY <1>2 DEF Switch
<1>3. CASE UNCHANGED vars
  BY <1>3 DEF vars
<1> QED
  BY <1>1, <1>2, <1>3 DEF Next

\* The lock word: one step keeps mutual exclusion, the meaning of owner and
\* the meaning of a free lock.
LEMMA LockStep ==
    IInv /\ [Next]_vars => (MutualExclusion /\ OwnerIsInside /\ FreeLock)'
<1> SUFFICES ASSUME IInv, [Next]_vars
             PROVE (MutualExclusion /\ OwnerIsInside /\ FreeLock)'
  OBVIOUS
<1> USE BindAssumption, NullAssumption
    DEF IInv, TypeOK, Labels, Holding, MutualExclusion, OwnerIsInside, FreeLock
<1>1. ASSUME NEW t \in Threads, TestOwner(t) \/ Advance(t)
      PROVE (MutualExclusion /\ OwnerIsInside /\ FreeLock)'
  <2>1. CASE TestOwner(t)
    BY <2>1 DEF TestOwner
  <2>2. CASE LoadReserved(t)
    BY <2>2 DEF LoadReserved
  <2>3. CASE StoreConditional(t)
    <3>1. CASE resv[Bind[t]]
      <4>1. lock = 0 /\ \A u \in Threads : pc[u] \notin Holding
        BY <3>1
      <4> QED
        BY <2>3, <3>1, <4>1 DEF StoreConditional
    <3>2. CASE ~resv[Bind[t]]
      BY <2>3, <3>2 DEF StoreConditional
    <3> QED
      BY <3>1, <3>2
  <2>4. CASE FallThrough(t)
    BY <2>4 DEF FallThrough
  <2>5. CASE DisableIrq(t)
    BY <2>5 DEF DisableIrq
  <2>6. CASE SetOwner(t)
    BY <2>6 DEF SetOwner
  <2>7. CASE ClearLock(t)
    BY <2>7 DEF ClearLock
  <2>8. CASE ClearOwner(t)
    BY <2>8 DEF ClearOwner
  <2>9. CASE RestoreIrq(t)
    BY <2>9 DEF RestoreIrq
  <2> QED
    BY <1>1, <2>1, <2>2, <2>3, <2>4, <2>5, <2>6, <2>7, <2>8, <2>9 DEF Advance
<1>2. ASSUME NEW t \in Threads, NEW u \in Threads, Switch(t, u)
      PROVE (MutualExclusion /\ OwnerIsInside /\ FreeLock)'
  BY <1>2 DEF Switch
<1>3. CASE UNCHANGED vars
  BY <1>3 DEF vars
<1> QED
  BY <1>1, <1>2, <1>3 DEF Next

\* The inductive invariant holds in every reachable state.
THEOREM InductiveInvariant == Spec => []IInv
<1>1. IInv /\ [Next]_vars => IInv'
  BY TypeStep, IrqsStep, LockStep DEF IInv
<1> QED
  BY InitInv, <1>1, PTL DEF Spec

\* Every variable of the spinlock keeps its type: lock is 0 or 1, owner a thread or
\* RT_NULL.
THEOREM SpinLockTypeOK == Spec => []TypeOK
<1>1. IInv => TypeOK
  BY DEF IInv
<1> QED
  BY InductiveInvariant, <1>1, PTL

\* rt_spin_lock admits one thread at a time, whatever the number of threads
\* and cores and however interrupts switch threads in the middle of it.
THEOREM SpinLockMutualExclusion == Spec => []MutualExclusion
<1>1. IInv => MutualExclusion
  BY DEF IInv
<1> QED
  BY InductiveInvariant, <1>1, PTL

\* The owner shortcut of rt_spin_lock is never taken by a thread outside.
THEOREM SpinLockOwnerIsInside == Spec => []OwnerIsInside
<1>1. IInv => OwnerIsInside
  BY DEF IInv
<1> QED
  BY InductiveInvariant, <1>1, PTL

\* The critical section of rt_spin_lock is never preempted on its core.
THEOREM SpinLockSectionNotPreempted == Spec => []SectionNotPreempted
<1>1. IInv => SectionNotPreempted
  BY DEF IInv, IrqsOff, SectionNotPreempted
<1> QED
  BY InductiveInvariant, <1>1, PTL

\* Without a change of who is between the sc.w and the write of lock->lock the lock is
\* seen as it was.
LEMMA HeldUnseen ==
    ASSUME \A t \in Threads : pc'[t] \in Holding <=> pc[t] \in Holding
    PROVE  UNCHANGED Held
BY DEF Held

\* A successful sc.w takes a lock that nobody has.
LEMMA StoreAcquires ==
    ASSUME IInv, NEW t \in Threads, StoreConditional(t)
    PROVE  Lock!Acquire(t) \/ UNCHANGED Held
<1>1. pc \in [Threads -> Labels] /\ pc[t] = "sc" /\ Bind[t] \in Cpus
  BY BindAssumption DEF IInv, TypeOK, StoreConditional
<1>2. CASE resv[Bind[t]]
  <2>1. pc' = [pc EXCEPT ![t] = "fall"]
    BY <1>2 DEF StoreConditional
  <2>2. \A u \in Threads : pc[u] \notin Holding
    BY <1>1, <1>2 DEF IInv, FreeLock
  <2>3. ASSUME NEW u \in Threads PROVE Held[u] = 0
    BY <2>2 DEF Held
  <2>4. Held' = [Held EXCEPT ![t] = 1]
    BY <1>1, <2>1, <2>2 DEF Held, Holding
  <2> QED
    BY <2>3, <2>4 DEF Lock!Acquire, Lock!Free
<1>3. CASE ~resv[Bind[t]]
  <2>1. pc' = [pc EXCEPT ![t] = "lr"]
    BY <1>3 DEF StoreConditional
  <2> QED
    BY <1>1, <2>1, HeldUnseen DEF Holding
<1> QED
  BY <1>2, <1>3

\* The write of lock->lock gives it back.
LEMMA ClearReleases ==
    ASSUME IInv, NEW t \in Threads, ClearLock(t)
    PROVE  Lock!Release(t)
<1>1. pc \in [Threads -> Labels] /\ pc[t] = "cs" /\ pc' = [pc EXCEPT ![t] = "disown"]
  BY DEF IInv, TypeOK, ClearLock
<1>2. Held[t] = 1 /\ Held' = [Held EXCEPT ![t] = 0]
  BY <1>1 DEF Held, Holding
<1> QED
  BY <1>2 DEF Lock!Release

\* Nothing else changes who has the lock: the test of owner does not let a thread past
\* the acquisition.
LEMMA OthersUnseen ==
    ASSUME IInv, NEW t \in Threads,
           \/ TestOwner(t) \/ LoadReserved(t) \/ FallThrough(t) \/ DisableIrq(t)
           \/ SetOwner(t) \/ ClearOwner(t) \/ RestoreIrq(t)
           \/ \E u \in Threads : Switch(t, u)
    PROVE  UNCHANGED Held
<1>1. pc \in [Threads -> Labels]
  BY DEF IInv, TypeOK
<1>2. CASE TestOwner(t)
  <2>1. pc[t] = "out" /\ owner # t
    BY <1>2 DEF TestOwner, IInv, OwnerIsInside
  <2>2. pc' = [pc EXCEPT ![t] = "lr"]
    BY <1>2, <2>1 DEF TestOwner
  <2> QED
    BY <1>1, <2>1, <2>2, HeldUnseen DEF Holding
<1>3. CASE LoadReserved(t)
  BY <1>1, <1>3, HeldUnseen DEF LoadReserved, Holding
<1>4. CASE FallThrough(t)
  BY <1>1, <1>4, HeldUnseen DEF FallThrough, Holding
<1>5. CASE DisableIrq(t)
  BY <1>1, <1>5, HeldUnseen DEF DisableIrq, Holding
<1>6. CASE SetOwner(t)
  BY <1>1, <1>6, HeldUnseen DEF SetOwner, Holding
<1>7. CASE ClearOwner(t)
  BY <1>1, <1>7, HeldUnseen DEF ClearOwner, Holding
<1>8. CASE RestoreIrq(t)
  BY <1>1, <1>8, HeldUnseen DEF RestoreIrq, Holding
<1>9. CASE \E u \in Threads : Switch(t, u)
  BY <1>9, HeldUnseen DEF Switch
<1> QED
  BY <1>2, <1>3, <1>4, <1>5, <1>6, <1>7, <1>8, <1>9

\* rt_spin_lock and rt_spin_unlock implement PriorityLock with nobody queued, for any
\* threads, cores and binding: eight accesses to memory and to mstatus, with traps and
\* thread switches between them, are one step that takes a free lock and one that gives
\* it back.
THEOREM SpinLockTakenInOneStep == Spec => TakenInOneStep
<1>1. Init => Lock!Init
  <2> SUFFICES ASSUME Init PROVE Lock!Init
    OBVIOUS
  <2>1. Held = [t \in Threads |-> 0]
    BY DEF Init, Held, Holding
  <2> QED
    BY <2>1 DEF Lock!Init
<1>2. IInv /\ [Next]_vars => [Lock!Next]_<<Held, NULL, {}>>
  <2> SUFFICES ASSUME IInv, [Next]_vars PROVE [Lock!Next]_<<Held, NULL, {}>>
    OBVIOUS
  <2>1. ASSUME NEW t \in Threads, StoreConditional(t) PROVE [Lock!Next]_<<Held, NULL, {}>>
    BY <2>1, StoreAcquires DEF Lock!Next
  <2>2. ASSUME NEW t \in Threads, ClearLock(t) PROVE [Lock!Next]_<<Held, NULL, {}>>
    BY <2>2, ClearReleases DEF Lock!Next
  <2>3. ASSUME NEW t \in Threads,
               \/ TestOwner(t) \/ LoadReserved(t) \/ FallThrough(t) \/ DisableIrq(t)
               \/ SetOwner(t) \/ ClearOwner(t) \/ RestoreIrq(t)
               \/ \E u \in Threads : Switch(t, u)
        PROVE  [Lock!Next]_<<Held, NULL, {}>>
    BY <2>3, OthersUnseen
  <2>4. CASE UNCHANGED vars
    BY <2>4, HeldUnseen DEF vars
  <2> QED
    BY <2>1, <2>2, <2>3, <2>4 DEF Next, Advance
<1> QED
  BY InductiveInvariant, <1>1, <1>2, PTL DEF Spec, TakenInOneStep, Lock!Spec, Lock!vars

===============================================================================
