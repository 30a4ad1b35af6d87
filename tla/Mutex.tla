--------------------------------- MODULE Mutex ---------------------------------
(***************************************************************************)
(* The recursive mutex with priority inheritance of rt-thread/src/ipc.c:    *)
(* rt_mutex_take, rt_mutex_trytake and rt_mutex_release.  Each section runs  *)
(* with the core's interrupts disabled and the mutex's spinlock held; the   *)
(* timeout of a waiting thread does not take the spinlock.                  *)
(***************************************************************************)
EXTENDS IpcObject

CONSTANTS BasePrio,    \* the priority each thread starts with; smaller is more urgent
          NoPrio,      \* original_priority of a mutex without owner (0xff)
          HoldMax,     \* RT_MUTEX_HOLD_MAX
          Waits        \* the kinds of timeout used: "no", "timed", "forever"

Mutexes == Lists

ASSUME MutexAssumption ==
    /\ BasePrio \in [Threads -> Nat] /\ NoPrio \in Nat
    /\ \A t \in Threads : BasePrio[t] < NoPrio
    /\ HoldMax \in Nat \ {0} /\ Waits \subseteq {"no", "timed", "forever"}

VARIABLES value,     \* mutex->value
          owner,     \* mutex->owner
          hold,      \* mutex->hold
          original,  \* mutex->original_priority
          spin,      \* who holds the mutex's spinlock
          prio,      \* current_priority of each thread
          pc,        \* where each thread is in its operation
          obj,       \* the mutex of its operation
          wait,      \* the `time` argument of its rt_mutex_take
          target,    \* the thread its release is resuming
          taken      \* taken[t][m]: successful takes of m by t minus its releases

mutexVars == <<value, owner, hold, original, spin, prio, pc, obj, wait, target, taken>>
vars == <<ipcVars, mutexVars>>

Labels == {"idle", "take", "wait", "release", "resume", "wake"}

Init ==
    /\ IpcInit
    /\ value = [m \in Mutexes |-> 1]
    /\ owner = [m \in Mutexes |-> Nobody]
    /\ hold = [m \in Mutexes |-> 0]
    /\ original = [m \in Mutexes |-> NoPrio]
    /\ spin = [m \in Mutexes |-> Nobody]
    /\ prio = BasePrio
    /\ pc = [t \in Threads |-> "idle"]
    /\ \E m \in Mutexes : obj = [t \in Threads |-> m]
    /\ wait = [t \in Threads |-> "no"]
    /\ target = [t \in Threads |-> Nobody]
    /\ taken = [t \in Threads |-> [m \in Mutexes |-> 0]]

Goto(t, label) == pc' = [pc EXCEPT ![t] = label]
Counted(t, m, n) == taken' = [taken EXCEPT ![t][m] = @ + n]

-----------------------------------------------------------------------------
(* rt_mutex_take(mutex, time) *)

TakeCall(t, m, time) ==
    /\ OnCpu(t) /\ pc[t] = "idle"
    /\ DisableIrq(t) /\ Goto(t, "take")
    /\ obj' = [obj EXCEPT ![t] = m]
    /\ wait' = [wait EXCEPT ![t] = time]
    /\ UNCHANGED <<stat, error, timer, queue, expired,
                   value, owner, hold, original, spin, prio, target, taken>>

\* Seeded fault: hold is not bounded.
TakeAgainUnbounded(t, m) ==
    /\ owner[m] = t
    /\ hold' = [hold EXCEPT ![m] = @ + 1] /\ Counted(t, m, 1)
    /\ Goto(t, "idle")
    /\ error' = [error EXCEPT ![t] = "EOK"]
    /\ UNCHANGED <<stat, timer, queue, value, owner, original, prio>>

\* The owner takes its mutex again, or gets -RT_EFULL.
TakeAgain(t, m) ==
    /\ owner[m] = t
    /\ IF hold[m] < HoldMax
       THEN hold' = [hold EXCEPT ![m] = @ + 1] /\ Counted(t, m, 1)
       ELSE UNCHANGED <<hold, taken>>
    /\ Goto(t, "idle")
    /\ error' = [error EXCEPT ![t] = "EOK"]
    /\ UNCHANGED <<stat, timer, queue, value, owner, original, prio>>

\* value > 0: the mutex is free.
TakeFree(t, m) ==
    /\ owner[m] # t /\ value[m] > 0
    /\ value' = [value EXCEPT ![m] = @ - 1]
    /\ owner' = [owner EXCEPT ![m] = t]
    /\ original' = [original EXCEPT ![m] = prio[t]]
    /\ hold' = [hold EXCEPT ![m] = @ + 1]
    /\ Counted(t, m, 1)
    /\ Goto(t, "idle")
    /\ error' = [error EXCEPT ![t] = "EOK"]
    /\ UNCHANGED <<stat, timer, queue, prio>>

\* time == 0
TakeFails(t, m) ==
    /\ owner[m] # t /\ value[m] = 0 /\ wait[t] = "no"
    /\ error' = [error EXCEPT ![t] = "ETIMEOUT"]
    /\ Goto(t, "idle")
    /\ UNCHANGED <<stat, timer, queue, value, owner, hold, original, prio, taken>>

\* Seeded fault: no priority inheritance.
NoInherit(t, m) == UNCHANGED prio

\* The owner inherits the priority of the waiting thread if that is more urgent.
Inherit(t, m) ==
    prio' = [prio EXCEPT ![owner[m]] = IF prio[t] < @ THEN prio[t] ELSE @]

\* The thread suspends itself in the mutex's list.
TakeWaits(t, m) ==
    /\ owner[m] # t /\ value[m] = 0 /\ wait[t] # "no"
    /\ Inherit(t, m)
    /\ error' = [error EXCEPT ![t] = "EOK"]
    /\ ListSuspend(t, m, "PRIO", prio, wait[t] = "timed")
    /\ Goto(t, "wait")
    /\ UNCHANGED <<value, owner, hold, original, taken>>

\* From spinlock_lock to rt_hw_local_irq_enable.
TakeSection(t) ==
    /\ OnCpu(t) /\ pc[t] = "take" /\ spin[obj[t]] = Nobody
    /\ \/ TakeAgain(t, obj[t]) \/ TakeFree(t, obj[t])
       \/ TakeFails(t, obj[t]) \/ TakeWaits(t, obj[t])
    /\ EnableIrq(t)
    /\ wait' = [wait EXCEPT ![t] = "no"]
    /\ UNCHANGED <<expired, spin, obj, target>>

\* rt_schedule() returned; thread->error tells whether the mutex is ours.
TakeReturn(t) ==
    /\ OnCpu(t) /\ pc[t] = "wait" /\ stat[t] = "RUN"
    /\ IF error[t] = "EOK" THEN Counted(t, obj[t], 1) ELSE UNCHANGED taken
    /\ Goto(t, "idle")
    /\ UNCHANGED <<ipcVars, value, owner, hold, original, spin, prio, obj, wait, target>>

-----------------------------------------------------------------------------
(* rt_mutex_release(mutex) *)

\* A thread releases what it has taken, or something it has not (-RT_ERROR).
ReleaseCall(t, m) ==
    /\ OnCpu(t) /\ pc[t] = "idle"
    /\ DisableIrq(t) /\ Goto(t, "release")
    /\ obj' = [obj EXCEPT ![t] = m]
    /\ UNCHANGED <<stat, error, timer, queue, expired,
                   value, owner, hold, original, spin, prio, wait, target, taken>>

\* The owner gets the priority back it had when it took the mutex.
Restore(t, m) == prio' = [prio EXCEPT ![t] = original[m]]

\* The caller is not the owner.
ReleaseRefused(t, m) ==
    /\ owner[m] # t
    /\ error' = [error EXCEPT ![t] = "ERROR"]
    /\ EnableIrq(t) /\ Goto(t, "idle")
    /\ UNCHANGED <<value, owner, hold, original, spin, prio, taken>>

\* hold stays positive.
ReleaseInner(t, m) ==
    /\ owner[m] = t /\ hold[m] > 1
    /\ hold' = [hold EXCEPT ![m] = @ - 1]
    /\ Counted(t, m, -1)
    /\ EnableIrq(t) /\ Goto(t, "idle")
    /\ UNCHANGED <<error, value, owner, original, spin, prio>>

\* Seeded fault: the waiters are forgotten.
ReleaseForgets(t, m) ==
    /\ owner[m] = t /\ hold[m] = 1
    /\ Restore(t, m)
    /\ hold' = [hold EXCEPT ![m] = 0]
    /\ value' = [value EXCEPT ![m] = 1]
    /\ owner' = [owner EXCEPT ![m] = Nobody]
    /\ original' = [original EXCEPT ![m] = NoPrio]
    /\ Counted(t, m, -1)
    /\ EnableIrq(t) /\ Goto(t, "idle")
    /\ UNCHANGED <<error, spin>>

\* The last release of a mutex nobody waits for.
ReleaseFree(t, m) ==
    /\ owner[m] = t /\ hold[m] = 1 /\ queue[m] = <<>>
    /\ Restore(t, m)
    /\ hold' = [hold EXCEPT ![m] = 0]
    /\ value' = [value EXCEPT ![m] = @ + 1]
    /\ owner' = [owner EXCEPT ![m] = Nobody]
    /\ original' = [original EXCEPT ![m] = NoPrio]
    /\ Counted(t, m, -1)
    /\ EnableIrq(t) /\ Goto(t, "idle")
    /\ UNCHANGED <<error, spin>>

\* Seeded fault: hold of the new owner is not counted.
HandOverUncounted(t, m) ==
    /\ owner[m] = t /\ hold[m] = 1 /\ queue[m] # <<>>
    /\ Restore(t, m)
    /\ owner' = [owner EXCEPT ![m] = Head(queue[m])]
    /\ original' = [original EXCEPT ![m] = prio[Head(queue[m])]]
    /\ hold' = [hold EXCEPT ![m] = 0]
    /\ Counted(t, m, -1)
    /\ spin' = [spin EXCEPT ![m] = t]
    /\ Goto(t, "resume")
    /\ UNCHANGED <<error, irqoff, value>>

\* The last release of a mutex with waiters: the first one becomes the owner,
\* then it is resumed.
ReleaseHandOver(t, m) ==
    /\ owner[m] = t /\ hold[m] = 1 /\ queue[m] # <<>>
    /\ Restore(t, m)
    /\ owner' = [owner EXCEPT ![m] = Head(queue[m])]
    /\ original' = [original EXCEPT ![m] = prio[Head(queue[m])]]
    /\ Counted(t, m, -1)
    /\ spin' = [spin EXCEPT ![m] = t]
    /\ Goto(t, "resume")
    /\ UNCHANGED <<error, irqoff, value, hold>>

ReleaseSection(t) ==
    /\ OnCpu(t) /\ pc[t] = "release" /\ spin[obj[t]] = Nobody
    /\ \/ ReleaseRefused(t, obj[t]) \/ ReleaseInner(t, obj[t])
       \/ ReleaseFree(t, obj[t]) \/ ReleaseHandOver(t, obj[t])
    /\ UNCHANGED <<stat, timer, queue, expired, obj, wait, target>>

\* spinlock_unlock, rt_hw_local_irq_enable
Leave(t) ==
    /\ spin' = [spin EXCEPT ![obj[t]] = Nobody]
    /\ EnableIrq(t) /\ Goto(t, "idle")

\* _ipc_list_resume takes the first thread of the list anew (what it reads from
\* an empty list is not a thread: HandOverFindsWaiter); rt_thread_resume tests
\* its stat.
ResumeTest(t) ==
    /\ OnCpu(t) /\ pc[t] = "resume" /\ queue[obj[t]] # <<>>
    /\ IF stat[Head(queue[obj[t]])] = "SUSPEND"
       THEN /\ target' = [target EXCEPT ![t] = Head(queue[obj[t]])]
            /\ Goto(t, "wake") /\ UNCHANGED <<irqoff, spin>>
       ELSE Leave(t) /\ UNCHANGED target
    /\ UNCHANGED <<stat, error, timer, queue, expired,
                   value, owner, hold, original, prio, obj, wait, taken>>

\* The rest of rt_thread_resume.
ResumeWake(t) ==
    /\ OnCpu(t) /\ pc[t] = "wake"
    /\ WakeUp(target[t])
    /\ target' = [target EXCEPT ![t] = Nobody]
    /\ Leave(t)
    /\ UNCHANGED <<error, expired, value, owner, hold, original, prio, obj, wait, taken>>

-----------------------------------------------------------------------------

ThreadStep(t) ==
    \/ TakeSection(t) \/ TakeReturn(t)
    \/ ReleaseSection(t) \/ ResumeTest(t) \/ ResumeWake(t)

Timeout(t) ==
    \E c \in Cpus : (TimerExpires(c, t) \/ ThreadTimeout(c, t)) /\ UNCHANGED mutexVars

Next ==
    \E t \in Threads :
        \/ \E m \in Mutexes : ReleaseCall(t, m) \/ \E time \in Waits : TakeCall(t, m, time)
        \/ ThreadStep(t)
        \/ Timeout(t)

Spec == Init /\ [][Next]_vars
-----------------------------------------------------------------------------
(* Properties *)

TypeOK ==
    /\ IpcTypeOK
    /\ value \in [Mutexes -> {0, 1}]
    /\ owner \in [Mutexes -> Threads \cup {Nobody}]
    /\ hold \in [Mutexes -> 0..HoldMax]
    /\ original \in [Mutexes -> 0..NoPrio]
    /\ spin \in [Mutexes -> Threads \cup {Nobody}]
    /\ prio \in [Threads -> 0..NoPrio]
    /\ pc \in [Threads -> Labels]
    /\ obj \in [Threads -> Mutexes]
    /\ wait \in [Threads -> {"no", "timed", "forever"}]
    /\ target \in [Threads -> Threads \cup {Nobody}]
    /\ taken \in [Threads -> [Mutexes -> Int]]

\* A mutex that rt_mutex_take gave to a thread is given to no other thread before
\* that one has released it as often as it took it.
MutualExclusion ==
    \A m \in Mutexes, t, u \in Threads : taken[t][m] > 0 /\ taken[u][m] > 0 => t = u

\* Thread t waits in a rt_mutex_take(m) that is going to return RT_EOK.
WillSucceed(t, m) == pc[t] = "wait" /\ obj[t] = m /\ error[t] = "EOK"

\* mutex->owner and mutex->hold say who holds the mutex and how often, or who is
\* about to be told: a thread whose take returns an error never owns the mutex.
OwnerHolds ==
    \A m \in Mutexes, t \in Threads :
        IF owner[m] = t
        THEN \/ taken[t][m] > 0 /\ hold[m] = taken[t][m]
             \/ taken[t][m] = 0 /\ hold[m] = 1 /\ WillSucceed(t, m)
        ELSE taken[t][m] = 0

\* Threads wait only for a mutex that somebody owns: no wake-up is lost.
WaitersHaveOwner ==
    \A m \in Mutexes :
        /\ value[m] = 0 <=> owner[m] # Nobody
        /\ queue[m] # <<>> => owner[m] # Nobody

\* Once the releasing thread has found a waiter there is one to resume.
HandOverFindsWaiter ==
    \A t \in Threads : pc[t] = "resume" => queue[obj[t]] # <<>>

\* rt_mutex_take and rt_mutex_release: nobody waits for a free mutex, and a release
\* that has found a waiter hands the mutex to one.
WaitersServed == WaitersHaveOwner /\ HandOverFindsWaiter

\* Priority inheritance: an owner runs with at least the urgency of every waiter.
OwnerUrgent ==
    \A m \in Mutexes : owner[m] # Nobody =>
        \A t \in ToSet(queue[m]) : prio[owner[m]] <= prio[t]

\* A thread that holds no mutex runs with the priority it was given.
PriorityRestored ==
    \A t \in Threads : (\A m \in Mutexes : owner[m] # t) => prio[t] = BasePrio[t]

\* The waiters of a mutex are sorted by priority (RT_IPC_FLAG_PRIO), so the most
\* urgent one becomes the next owner.
WaitersByUrgency ==
    \A m \in Mutexes : \A i, j \in 1..Len(queue[m]) :
        i < j => prio[queue[m][i]] <= prio[queue[m][j]]

\* Priority inheritance of rt_mutex_take and rt_mutex_release as a whole: the owner
\* is as urgent as its waiters, the waiters are served by urgency, and what was
\* inherited is given back.
PriorityInheritance == OwnerUrgent /\ WaitersByUrgency /\ PriorityRestored
-----------------------------------------------------------------------------
(* The mutex as its users see it, where there is one *)

TheMutex == CHOOSE m \in Mutexes : TRUE

\* What rt_mutex_take and rt_mutex_release have told the threads; the owner that
\* sleeps, or is awake and has not returned yet; the other threads in the list.
Holds == [t \in Threads |-> taken[t][TheMutex]]
Heir == IF owner[TheMutex] # Nobody /\ Holds[owner[TheMutex]] = 0
        THEN owner[TheMutex] ELSE Nobody
WaitingUsers == ToSet(queue[TheMutex]) \ {owner[TheMutex]}

\* The mutex implements PriorityLock: a release that finds waiters makes a most urgent
\* one of them the owner before that one is resumed, and until rt_mutex_take returns
\* there nobody else gets the mutex, a take that times out never does, and rt_mutex_take
\* of a free mutex finds nobody waiting.
Lock == INSTANCE PriorityLock
    WITH Users <- Threads, Urgency <- BasePrio, None <- Nobody,
         holds <- Holds, heir <- Heir, waiting <- WaitingUsers
PassesByUrgency == Lock!Spec
=============================================================================
