------------------------------- MODULE Semaphore -------------------------------
(***************************************************************************)
(* The semaphore of rt-thread/src/ipc.c: rt_sem_take, rt_sem_trytake,       *)
(* rt_sem_release, rt_sem_control(RT_IPC_CMD_RESET) and rt_sem_detach or    *)
(* rt_sem_delete.  Take and release hold the object's spinlock with the     *)
(* interrupts of their core disabled; reset, detach and the timeout of a    *)
(* waiting thread do not take the spinlock.                                 *)
(***************************************************************************)
EXTENDS IpcObject, FiniteSets

CONSTANTS Handlers,    \* interrupt handlers, members of Threads: they only release
          Prio,        \* current_priority of each thread
          Flag,        \* "FIFO" or "PRIO"
          InitValue,   \* the value rt_sem_init is given
          ValueMax,    \* RT_SEM_VALUE_MAX
          Waits,       \* the kinds of timeout used: "no", "timed", "forever"
          ResetValues, \* the values RT_IPC_CMD_RESET is used with
          Detachers    \* the threads that may detach the semaphore

ASSUME SemAssumption ==
    /\ Lists = {"sem"} /\ Flag \in {"FIFO", "PRIO"}
    /\ Waits \subseteq {"no", "timed", "forever"}
    /\ ValueMax \in Nat /\ InitValue \in 0..ValueMax
    /\ ResetValues \subseteq 0..ValueMax
    /\ Prio \in [Threads -> Nat]
    /\ Handlers \subseteq Threads /\ Detachers \subseteq Threads \ Handlers
    /\ IsFiniteSet(Threads)

VARIABLES value,     \* sem->value
          spin,      \* who holds sem->parent.spin_lock
          alive,     \* the object has not been detached or deleted
          pc,        \* where each thread is in its operation
          wait,      \* the `time` argument of its rt_sem_take
          target     \* the waiter its rt_sem_release resumes

semVars == <<value, spin, alive, pc, wait, target>>
vars == <<ipcVars, semVars>>

Waiters == queue["sem"]
Labels == {"idle", "take", "wait", "release", "first", "resume", "wake",
           "reset", "resetpop", "setvalue", "detach", "detachpop", "detached"}

Init ==
    /\ IpcInit
    /\ value = InitValue
    /\ spin = Nobody
    /\ alive = TRUE
    /\ pc = [t \in Threads |-> "idle"]
    /\ wait = [t \in Threads |-> "no"]
    /\ target = [t \in Threads |-> Nobody]

Goto(t, label) == pc' = [pc EXCEPT ![t] = label]

\* A thread calls an operation of the semaphore.  Nobody starts one on an
\* object that is being detached.
Starts(t) ==
    /\ OnCpu(t) /\ pc[t] = "idle" /\ alive
    /\ \A u \in Threads : pc[u] \notin {"detach", "detachpop", "detached"}

-----------------------------------------------------------------------------
(* rt_sem_take(sem, time) *)

\* rt_hw_local_irq_disable(); the core then polls the spinlock.
TakeCall(t, time) ==
    /\ Starts(t)
    /\ DisableIrq(t) /\ Goto(t, "take")
    /\ wait' = [wait EXCEPT ![t] = time]
    /\ UNCHANGED <<stat, error, timer, queue, expired, value, spin, alive, target>>

\* spinlock_lock ... spinlock_unlock, rt_hw_local_irq_enable.
TakeSection(t) ==
    /\ OnCpu(t) /\ pc[t] = "take" /\ spin = Nobody
    /\ EnableIrq(t)
    /\ wait' = [wait EXCEPT ![t] = "no"]
    /\ \/ /\ value > 0
          /\ value' = value - 1
          /\ Goto(t, "idle")
          /\ UNCHANGED <<stat, error, timer, queue>>
       \/ /\ value = 0 /\ wait[t] = "no"
          /\ Goto(t, "idle")
          /\ UNCHANGED <<stat, error, timer, queue, value>>
       \/ /\ value = 0 /\ wait[t] # "no"
          /\ error' = [error EXCEPT ![t] = "EOK"]
          /\ ListSuspend(t, "sem", Flag, Prio, wait[t] = "timed")
          /\ Goto(t, "wait")
          /\ UNCHANGED value
    /\ UNCHANGED <<expired, spin, alive, target>>

\* rt_schedule() returns once the thread is no longer suspended; the result is
\* thread->error.
TakeReturn(t) ==
    /\ OnCpu(t) /\ pc[t] = "wait" /\ stat[t] = "RUN"
    /\ Goto(t, "idle")
    /\ UNCHANGED <<ipcVars, value, spin, alive, wait, target>>

-----------------------------------------------------------------------------
(* rt_sem_release(sem) *)

ReleaseCall(t) ==
    /\ Starts(t)
    /\ DisableIrq(t) /\ Goto(t, "release")
    /\ UNCHANGED <<stat, error, timer, queue, expired, value, spin, alive, wait, target>>

\* Seeded faults: the value counts up although a thread waits; the waiter is
\* woken and the value counts up as well; the value is not bounded.
ReleaseCounts(t) ==
    /\ OnCpu(t) /\ pc[t] = "release" /\ spin = Nobody
    /\ value' = IF value < ValueMax THEN value + 1 ELSE value
    /\ EnableIrq(t) /\ Goto(t, "idle")
    /\ UNCHANGED <<stat, error, timer, queue, expired, spin, alive, wait, target>>
ReleaseTwice(t) ==
    /\ OnCpu(t) /\ pc[t] = "release" /\ spin = Nobody
    /\ value' = IF value < ValueMax THEN value + 1 ELSE value
    /\ IF Waiters # <<>>
       THEN spin' = t /\ Goto(t, "first") /\ UNCHANGED irqoff
       ELSE EnableIrq(t) /\ Goto(t, "idle") /\ UNCHANGED spin
    /\ UNCHANGED <<stat, error, timer, queue, expired, alive, wait, target>>
ReleaseUnbounded(t) ==
    /\ OnCpu(t) /\ pc[t] = "release" /\ spin = Nobody /\ Waiters = <<>>
    /\ value' = value + 1
    /\ EnableIrq(t) /\ Goto(t, "idle")
    /\ UNCHANGED <<stat, error, timer, queue, expired, spin, alive, wait, target>>

\* spinlock_lock, then the list is tested: somebody is to be resumed, or the value
\* counts up.
ReleaseSection(t) ==
    /\ OnCpu(t) /\ pc[t] = "release" /\ spin = Nobody
    /\ \/ /\ Waiters # <<>>
          /\ spin' = t
          /\ Goto(t, "first")
          /\ UNCHANGED <<irqoff, value>>
       \/ /\ Waiters = <<>>
          /\ value' = IF value < ValueMax THEN value + 1 ELSE value  \* -RT_EFULL
          /\ EnableIrq(t) /\ Goto(t, "idle")
          /\ UNCHANGED spin
    /\ UNCHANGED <<stat, error, timer, queue, expired, alive, wait, target>>

\* _ipc_list_resume reads list->next.  With an empty list that is the list head:
\* ResumeAllServes says that the list is not empty here.
ReleaseFirst(t) ==
    /\ OnCpu(t) /\ pc[t] = "first" /\ Waiters # <<>>
    /\ target' = [target EXCEPT ![t] = Head(Waiters)]
    /\ Goto(t, "resume")
    /\ UNCHANGED <<ipcVars, value, spin, alive, wait>>

\* rt_thread_resume's test of stat; its -RT_ERROR is ignored.
ResumeTest(t) ==
    /\ OnCpu(t) /\ pc[t] = "resume"
    /\ IF stat[target[t]] = "SUSPEND"
       THEN Goto(t, "wake") /\ UNCHANGED <<spin, irqoff, target>>
       ELSE /\ spin' = Nobody /\ EnableIrq(t) /\ Goto(t, "idle")
            /\ target' = [target EXCEPT ![t] = Nobody]
    /\ UNCHANGED <<stat, error, timer, queue, expired, value, alive, wait>>

\* The rest of rt_thread_resume, spinlock_unlock, rt_hw_local_irq_enable.
ResumeWake(t) ==
    /\ OnCpu(t) /\ pc[t] = "wake"
    /\ WakeUp(target[t])
    /\ spin' = Nobody /\ EnableIrq(t) /\ Goto(t, "idle")
    /\ target' = [target EXCEPT ![t] = Nobody]
    /\ UNCHANGED <<error, expired, value, alive, wait>>

-----------------------------------------------------------------------------
(* _ipc_list_resume_all: the list is tested, then one waiter is woken with    *)
(* -RT_ERROR in a section of its own.                                        *)

ResumeAllTest(t, label, popLabel) ==
    /\ OnCpu(t) /\ pc[t] = label /\ Waiters # <<>>
    /\ Goto(t, popLabel)
    /\ UNCHANGED <<ipcVars, value, spin, alive, wait, target>>

ResumeAllPop(t, label, popLabel) ==
    /\ OnCpu(t) /\ pc[t] = popLabel /\ Waiters # <<>>
    /\ error' = [error EXCEPT ![Head(Waiters)] = "ERROR"]
    /\ ThreadResume(Head(Waiters))
    /\ Goto(t, label)
    /\ UNCHANGED <<irqoff, expired, value, spin, alive, wait, target>>

ResumeAllDone(t, label, next) ==
    /\ OnCpu(t) /\ pc[t] = label /\ Waiters = <<>>
    /\ Goto(t, next)
    /\ UNCHANGED <<ipcVars, value, spin, alive, wait, target>>

\* rt_sem_control(RT_IPC_CMD_RESET): interrupts stay disabled to the end.
ResetCall(t) ==
    /\ Starts(t)
    /\ DisableIrq(t) /\ Goto(t, "reset")
    /\ UNCHANGED <<stat, error, timer, queue, expired, value, spin, alive, wait, target>>

ResetValue(t) ==
    /\ OnCpu(t) /\ pc[t] = "setvalue"
    /\ value' \in ResetValues
    /\ EnableIrq(t) /\ Goto(t, "idle")
    /\ UNCHANGED <<stat, error, timer, queue, expired, spin, alive, wait, target>>

\* rt_sem_detach, rt_sem_delete: interrupts are enabled between the sections.
\* Threads may wait on the semaphore, but nobody else is inside an operation.
DetachCall(t) ==
    /\ Starts(t) /\ \A u \in Threads : pc[u] \in {"idle", "wait"}
    /\ Goto(t, "detach")
    /\ UNCHANGED <<ipcVars, value, spin, alive, wait, target>>

DetachObject(t) ==
    /\ OnCpu(t) /\ pc[t] = "detached"
    /\ alive' = FALSE
    /\ Goto(t, "idle")
    /\ UNCHANGED <<ipcVars, value, spin, wait, target>>

-----------------------------------------------------------------------------

ThreadStep(t) ==
    \/ TakeSection(t) \/ TakeReturn(t)
    \/ ReleaseSection(t) \/ ReleaseFirst(t) \/ ResumeTest(t) \/ ResumeWake(t)
    \/ ResumeAllTest(t, "reset", "resetpop") \/ ResumeAllPop(t, "reset", "resetpop")
    \/ ResumeAllDone(t, "reset", "setvalue") \/ ResetValue(t)
    \/ ResumeAllTest(t, "detach", "detachpop") \/ ResumeAllPop(t, "detach", "detachpop")
    \/ ResumeAllDone(t, "detach", "detached") \/ DetachObject(t)

Calls(t) ==
    \/ ReleaseCall(t)
    \/ /\ t \notin Handlers
       /\ \/ \E time \in Waits : TakeCall(t, time)
          \/ ResetValues # {} /\ ResetCall(t)
    \/ t \in Detachers /\ DetachCall(t)

\* The timeout of t, on whichever core comes to check it.
Timeout(t) ==
    \E c \in Cpus : (TimerExpires(c, t) \/ ThreadTimeout(c, t)) /\ UNCHANGED semVars

\* Once the semaphore is gone and nobody is in an operation, nothing is left to do.
Finished ==
    /\ ~alive /\ \A t \in Threads : pc[t] = "idle"
    /\ UNCHANGED vars

Next ==
    \/ \E t \in Threads : Calls(t) \/ ThreadStep(t) \/ Timeout(t)
    \/ Finished

Spec == Init /\ [][Next]_vars

(***************************************************************************)
(* A section with the interrupts disabled is the one thing its core          *)
(* executes, and it goes on.  A clock interrupt that is due is taken when    *)
(* the interrupts are enabled, before the next instruction.  Which thread a  *)
(* core runs otherwise is the scheduler's choice, by priority: a thread      *)
(* outside a section may wait for the core for ever.                        *)
(***************************************************************************)
Fairness ==
    \A t \in Threads :
        /\ WF_vars(ThreadStep(t) /\ irqoff[Bind[t]] = t)
        /\ SF_vars(Timeout(t))

FairSpec == Spec /\ Fairness

-----------------------------------------------------------------------------
(* Properties *)

TypeOK ==
    /\ IpcTypeOK
    /\ value \in 0..ValueMax
    /\ spin \in Threads \cup {Nobody}
    /\ alive \in BOOLEAN
    /\ pc \in [Threads -> Labels]
    /\ wait \in [Threads -> {"no", "timed", "forever"}]
    /\ target \in [Threads -> Threads \cup {Nobody}]

\* Tokens on their way: woken waiters that have not returned yet, and
\* releases that have chosen a waiter and not woken it yet.
Granted == {t \in Threads : pc[t] = "wait" /\ stat[t] = "RUN" /\ error[t] = "EOK"}
Waking == {t \in Threads : pc[t] \in {"first", "resume", "wake"}}

\* The semaphore is a counter: every token released is available, or taken by
\* exactly one successful rt_sem_take, and none is taken that was not released.
Counter == INSTANCE CountingSemaphore
    WITH available <- value + Cardinality(Granted) + Cardinality(Waking),
         taking <- {t \in Threads : pc[t] \in {"take", "wait"}}
CountsTokens == Counter!Spec

\* No thread waits for a semaphore whose value is positive.
NoWaitWhileAvailable == value > 0 => Waiters = <<>>

\* rt_sem_detach and rt_sem_delete resume all suspended threads: nobody is left
\* waiting on a semaphore that is gone, and _ipc_list_resume and _ipc_list_resume_all
\* find a suspended thread whenever they go to take one from the list, after a test of
\* the list in an earlier step.
ResumeAllServes ==
    /\ ~alive => \A t \in Threads : stat[t] = "RUN"
    /\ \A t \in Threads : pc[t] \in {"first", "resetpop", "detachpop"} => Waiters # <<>>

\* Both, for the threads of two cores and the handlers of their interrupts.
SemaphoreServes == NoWaitWhileAvailable /\ ResumeAllServes

\* A wait with a finite timeout ends: the thread is made ready, by a release, a reset,
\* a detach or its timer.  When it then runs is the scheduler's choice.
TimedWaitEnds ==
    \A t \in Threads : timer[t] ~> stat[t] = "RUN"
=============================================================================
