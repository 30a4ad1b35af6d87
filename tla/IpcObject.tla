------------------------------- MODULE IpcObject -------------------------------
(***************************************************************************)
(* What the IPC objects of rt-thread/src/ipc.c share: threads that wait in  *)
(* the lists of an object, rt_thread_suspend/rt_thread_resume on them, the  *)
(* timeout that takes a thread out of a list, and the interrupt mask of     *)
(* each core.                                                               *)
(*                                                                         *)
(* A thread runs an operation's section with the interrupts of its core     *)
(* disabled: nothing else of that core then runs, while the other core goes *)
(* on and takes its timer interrupts.  Both cores check the one list of     *)
(* timers, so a thread's timeout may be handled by either.  Which runnable  *)
(* thread a core runs next is left open.                                    *)
(***************************************************************************)
EXTENDS ThreadList

CONSTANTS Threads,     \* the threads using the objects
          Cpus,        \* the cores
          Bind,        \* Bind[t]: the core thread t is bound to
          Lists,       \* the suspend lists of the objects
          Nobody       \* no thread

ASSUME IpcAssumption == Bind \in [Threads -> Cpus] /\ Nobody \notin Threads

VARIABLES stat,      \* "RUN" (READY or RUNNING) or "SUSPEND"
          error,     \* thread->error
          timer,     \* thread->thread_timer is active
          queue,     \* queue[l]: the suspend list l
          irqoff,    \* irqoff[c]: the thread that disabled core c's interrupts
          expired    \* expired[c]: the thread whose timeout core c is handling

ipcVars == <<stat, error, timer, queue, irqoff, expired>>

Errors == {"EOK", "ERROR", "ETIMEOUT"}

IpcTypeOK ==
    /\ stat \in [Threads -> {"RUN", "SUSPEND"}]
    /\ error \in [Threads -> Errors]
    /\ timer \in [Threads -> BOOLEAN]
    /\ queue \in [Lists -> Seq(Threads)]
    /\ irqoff \in [Cpus -> Threads \cup {Nobody}]
    /\ expired \in [Cpus -> Threads \cup {Nobody}]

IpcInit ==
    /\ stat = [t \in Threads |-> "RUN"]
    /\ error = [t \in Threads |-> "EOK"]
    /\ timer = [t \in Threads |-> FALSE]
    /\ queue = [l \in Lists |-> <<>>]
    /\ irqoff = [c \in Cpus |-> Nobody]
    /\ expired = [c \in Cpus |-> Nobody]

-----------------------------------------------------------------------------
(* Steps *)

\* Thread t can execute: its core serves no interrupt and is not held by a
\* section of another thread.
OnCpu(t) ==
    /\ expired[Bind[t]] = Nobody
    /\ irqoff[Bind[t]] \in {t, Nobody}

\* rt_hw_local_irq_disable() / rt_hw_local_irq_enable() around a section of t.
DisableIrq(t) == irqoff' = [irqoff EXCEPT ![Bind[t]] = t]
EnableIrq(t) == irqoff' = [irqoff EXCEPT ![Bind[t]] = Nobody]

\* _ipc_list_suspend and the start of the thread timer.
ListSuspend(t, l, flag, prio, timed) ==
    /\ stat' = [stat EXCEPT ![t] = "SUSPEND"]
    /\ queue' = [Unlink(queue, t) EXCEPT ![l] = Place(@, t, flag, prio)]
    /\ timer' = [timer EXCEPT ![t] = timed]

\* Seeded faults: the woken thread keeps its timer, or its place in the list.
WakeUpTimed(t) ==
    /\ stat' = [stat EXCEPT ![t] = "RUN"]
    /\ queue' = Unlink(queue, t)
    /\ UNCHANGED timer
WakeUpLinked(t) ==
    /\ stat' = [stat EXCEPT ![t] = "RUN"]
    /\ timer' = [timer EXCEPT ![t] = FALSE]
    /\ UNCHANGED queue

\* The part of rt_thread_resume behind its test of stat.
WakeUp(t) ==
    /\ stat' = [stat EXCEPT ![t] = "RUN"]
    /\ queue' = Unlink(queue, t)
    /\ timer' = [timer EXCEPT ![t] = FALSE]

\* rt_thread_resume as one section: a thread that is not suspended is left alone.
ThreadResume(t) ==
    IF stat[t] = "SUSPEND" THEN WakeUp(t) ELSE UNCHANGED <<stat, queue, timer>>

\* rt_timer_check on core c: the timer of t has expired, is removed from the
\* timer list and deactivated; rt_thread_timeout(t) comes next.
TimerExpires(c, t) ==
    /\ irqoff[c] = Nobody /\ expired[c] = Nobody /\ timer[t]
    /\ timer' = [timer EXCEPT ![t] = FALSE]
    /\ expired' = [expired EXCEPT ![c] = t]
    /\ UNCHANGED <<stat, error, queue, irqoff>>

\* Seeded fault: the thread is unlinked but not made ready.
TimeoutSleeps(c, t) ==
    /\ expired[c] = t /\ stat[t] = "SUSPEND"
    /\ error' = [error EXCEPT ![t] = "ETIMEOUT"]
    /\ queue' = Unlink(queue, t)
    /\ expired' = [expired EXCEPT ![c] = Nobody]
    /\ UNCHANGED <<stat, timer, irqoff>>

\* rt_thread_timeout: its RT_ASSERT stops the core unless the thread is suspended.
ThreadTimeout(c, t) ==
    /\ expired[c] = t /\ stat[t] = "SUSPEND"
    /\ error' = [error EXCEPT ![t] = "ETIMEOUT"]
    /\ stat' = [stat EXCEPT ![t] = "RUN"]
    /\ queue' = Unlink(queue, t)
    /\ expired' = [expired EXCEPT ![c] = Nobody]
    /\ UNCHANGED <<timer, irqoff>>

-----------------------------------------------------------------------------
(* Properties every IPC object relies on *)

\* RT_ASSERT((thread->stat & RT_THREAD_STAT_MASK) == RT_THREAD_SUSPEND) in
\* rt_thread_timeout, for a timeout that a core is about to handle.
TimeoutFindsSuspended ==
    \A c \in Cpus : expired[c] # Nobody => stat[expired[c]] = "SUSPEND"

\* A suspended thread is linked exactly once, and only suspended threads are:
\* otherwise a wake-up is lost, or a running thread is woken.
SuspendedIsLinked ==
    /\ \A t \in Threads : stat[t] = "SUSPEND" <=>
          \E l \in Lists : t \in ToSet(queue[l])
    /\ \A l \in Lists : IsInjective(queue[l])
    /\ \A l, m \in Lists : l # m => ToSet(queue[l]) \cap ToSet(queue[m]) = {}
=============================================================================
