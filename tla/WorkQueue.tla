-------------------------------- MODULE WorkQueue --------------------------------
(***************************************************************************)
(* The work queue of components/drivers/src/workqueue.c on one core: its    *)
(* worker thread, delayed works and their timers, cancellation.             *)
(*                                                                         *)
(* A section with interrupts disabled is one step.  Soft timers are not     *)
(* configured, so that _delayed_work_timeout_handler runs in the clock      *)
(* interrupt; when it does is left open.  Between two sections any runnable *)
(* thread may get the core unless another one is in rt_enter_critical.      *)
(***************************************************************************)
EXTENDS ThreadList

CONSTANTS Works,       \* the work items
          Clients,     \* the threads that submit and cancel them
          Isr,         \* an interrupt handler that submits without delay
          NoWork,      \* RT_NULL
          Resubmits    \* whether a work is submitted without delay while its delay runs

ASSUME WorkAssumption ==
    NoWork \notin Works /\ Isr \notin Clients /\ Resubmits \in BOOLEAN

VARIABLES workList,    \* queue->work_list
          delayedList, \* queue->delayed_list
          workCurrent, \* queue->work_current
          sem,         \* the value of queue->sem
          semWaiters,  \* and its suspend list
          pending,     \* the works with RT_WORK_STATE_PENDING
          submitting,  \* the works with RT_WORK_STATE_SUBMITTING
          hasQueue,    \* the works whose workqueue is not RT_NULL
          delayOn,     \* the works whose timer is active
          workerAt,    \* where the worker thread is: "loop", "func", "done" or "ack"
          workerStat,  \* its stat, "RUN" or "SUSPEND"
          funcWaits,   \* work_func has suspended the worker for something of its own
          clientAt,    \* where each client is
          clientWork,  \* and the work that it is about
          answered     \* history: the clients that wait for a work which was executing
                       \* when they began to wait

listVars == <<workList, delayedList, pending, submitting, hasQueue, delayOn>>
semVars == <<sem, semWaiters>>
workerVars == <<workCurrent, workerAt, workerStat, funcWaits>>
clientVars == <<clientAt, clientWork, answered>>
workVars == <<listVars, semVars, workerVars, clientVars>>

WorkInit ==
    /\ workList = <<>> /\ delayedList = <<>> /\ workCurrent = NoWork
    /\ sem = 0 /\ semWaiters = <<>>
    /\ pending = {} /\ submitting = {} /\ hasQueue = {} /\ delayOn = {}
    /\ workerAt = "loop" /\ workerStat = "RUN" /\ funcWaits = FALSE
    /\ clientAt = [c \in Clients |-> "idle"]
    /\ clientWork = [c \in Clients |-> NoWork]
    /\ answered = {}

-----------------------------------------------------------------------------
(* Who may run *)

\* Behind "wild", where a list head is taken for a work, nothing is followed.
CancelLabels ==
    {"cancelall", "readwork", "cutwork", "canceldelayed", "readdelayed", "cutdelayed", "wild"}
Critical == {c \in Clients : clientAt[c] \in CancelLabels}
WorkerRuns == workerStat = "RUN" /\ Critical = {}
ClientRuns(c) == Critical \subseteq {c} /\ workerAt # "ack"

\* A work belongs to one client at a time: nobody uses one whose submission is
\* not complete, or cancels them all meanwhile.
Usable(w) == \A c \in Clients : clientAt[c] = "start" => clientWork[c] # w
Quiet == \A c \in Clients : clientAt[c] # "start"

Starts(c) == IF c = Isr THEN TRUE ELSE ClientRuns(c) /\ clientAt[c] = "idle"

\* Seeded fault: a worker that waits inside work_func is resumed as well.
WakeAnyWorker == workerStat' = "RUN"

\* if (work_current == RT_NULL && the worker is suspended) rt_thread_resume
WakeWorker ==
    workerStat' = IF workCurrent = NoWork THEN "RUN" ELSE workerStat

-----------------------------------------------------------------------------
(* _workqueue_thread_entry *)

WorkerTakes ==
    /\ WorkerRuns /\ workerAt = "loop" /\ workList # <<>>
    /\ workCurrent' = Head(workList)
    /\ workList' = Tail(workList)
    /\ pending' = pending \ {workCurrent'}
    /\ hasQueue' = hasQueue \ {workCurrent'}
    /\ workerAt' = "func"
    /\ UNCHANGED <<delayedList, submitting, delayOn, semVars, workerStat, funcWaits, clientVars>>

WorkerSleeps ==
    /\ WorkerRuns /\ workerAt = "loop" /\ workList = <<>>
    /\ workerStat' = "SUSPEND"
    /\ UNCHANGED <<listVars, semVars, workCurrent, workerAt, funcWaits, clientVars>>

\* work_func suspends the thread, and goes on when what it waits for has come.
FuncWaits ==
    /\ WorkerRuns /\ workerAt = "func"
    /\ workerStat' = "SUSPEND" /\ funcWaits' = TRUE
    /\ UNCHANGED <<listVars, semVars, workCurrent, workerAt, clientVars>>

FuncGoesOn ==
    /\ funcWaits
    /\ workerStat' = "RUN" /\ funcWaits' = FALSE
    /\ UNCHANGED <<listVars, semVars, workCurrent, workerAt, clientVars>>

\* work_func returns, and queue->work_current = RT_NULL.  The worker has not yet
\* entered the critical section of _workqueue_work_completion: "done".
FuncReturns ==
    /\ WorkerRuns /\ workerAt = "func"
    /\ workCurrent' = NoWork
    /\ workerAt' = "done"
    /\ UNCHANGED <<listVars, semVars, workerStat, funcWaits, clientVars>>

(* _workqueue_work_completion: one round of its loop is one step *)

AckBegin ==
    /\ WorkerRuns /\ workerAt = "done"
    /\ workerAt' = "ack"
    /\ UNCHANGED <<listVars, semVars, workCurrent, workerStat, funcWaits, clientVars>>

\* rt_sem_trytake returns RT_EOK: the value is 0 again.
AckTake ==
    /\ WorkerRuns /\ workerAt = "ack" /\ sem > 0
    /\ sem' = sem - 1
    /\ workerAt' = "loop"
    /\ UNCHANGED <<listVars, semWaiters, workCurrent, workerStat, funcWaits, clientVars>>

\* It returns -RT_ETIMEOUT: rt_sem_release wakes a client, or counts.
AckRelease ==
    /\ WorkerRuns /\ workerAt = "ack" /\ sem = 0
    /\ IF semWaiters = <<>>
       THEN sem' = 1 /\ UNCHANGED <<semWaiters, clientAt, answered>>
       ELSE /\ semWaiters' = Tail(semWaiters)
            /\ clientAt' = [clientAt EXCEPT ![Head(semWaiters)] = "idle"]
            /\ answered' = answered \ {Head(semWaiters)}
            /\ UNCHANGED sem
    /\ UNCHANGED <<listVars, workerVars, clientWork>>

-----------------------------------------------------------------------------
(* _workqueue_submit_work(queue, work, ticks) *)

\* A work whose delay runs is submitted again with a delay only, or cancelled first.
Undelayed(w) == Resubmits \/ w \notin submitting

\* ticks == 0.  If the work is executing: -RT_EBUSY.
SubmitNow(c, w) ==
    /\ Starts(c) /\ Usable(w) /\ Undelayed(w)
    /\ LET list == Without(workList, w)
           busy == workCurrent = w
       IN  /\ workList' = IF busy THEN list ELSE Append(list, w)
           /\ pending' = IF busy THEN pending \ {w} ELSE pending \cup {w}
           /\ hasQueue' = IF busy THEN hasQueue ELSE hasQueue \cup {w}
    /\ delayedList' = Without(delayedList, w)
    /\ WakeWorker
    /\ UNCHANGED <<submitting, delayOn, semVars, workCurrent, workerAt, funcWaits, clientVars>>

\* 0 < ticks < RT_TICK_MAX/2: the section; rt_timer_start comes after it.
SubmitDelayed(c, w) ==
    /\ c # Isr /\ Starts(c) /\ Usable(w)
    /\ workList' = Without(workList, w)
    /\ pending' = pending \ {w}
    /\ delayOn' = delayOn \ {w}
    /\ submitting' = submitting \cup {w}
    /\ hasQueue' = hasQueue \cup {w}
    /\ delayedList' = Append(Without(delayedList, w), w)
    /\ clientAt' = [clientAt EXCEPT ![c] = "start"]
    /\ clientWork' = [clientWork EXCEPT ![c] = w]
    /\ UNCHANGED <<semVars, workerVars, answered>>

StartDelay(c) ==
    /\ ClientRuns(c) /\ clientAt[c] = "start"
    /\ delayOn' = delayOn \cup {clientWork[c]}
    /\ clientAt' = [clientAt EXCEPT ![c] = "idle"]
    /\ UNCHANGED <<workList, delayedList, pending, submitting, hasQueue, semVars, workerVars,
                   clientWork, answered>>

\* rt_workqueue_urgent_work: to the head of the list, executing or not.
Urgent(c, w) ==
    /\ Starts(c) /\ Usable(w) /\ Undelayed(w)
    /\ workList' = <<w>> \o Without(workList, w)
    /\ delayedList' = Without(delayedList, w)
    /\ WakeWorker
    /\ UNCHANGED <<pending, submitting, hasQueue, delayOn, semVars, workCurrent, workerAt,
                   funcWaits, clientVars>>

\* _delayed_work_timeout_handler, behind its RT_ASSERT(queue != RT_NULL).  A work
\* that is executing is not queued.
DelayEnds(w) ==
    /\ w \in delayOn /\ w \in hasQueue
    /\ delayOn' = delayOn \ {w}
    /\ submitting' = submitting \ {w}
    /\ delayedList' = Without(delayedList, w)
    /\ IF workCurrent = w
       THEN workList' = Without(workList, w) /\ UNCHANGED pending
       ELSE workList' = Append(Without(workList, w), w) /\ pending' = pending \cup {w}
    /\ WakeWorker
    /\ UNCHANGED <<hasQueue, semVars, workCurrent, workerAt, funcWaits, clientVars>>

-----------------------------------------------------------------------------
(* Cancellation *)

\* The section of _workqueue_cancel_work.
Cancel(w) ==
    /\ workList' = Without(workList, w)
    /\ delayedList' = Without(delayedList, w)
    /\ pending' = pending \ {w}
    /\ hasQueue' = hasQueue \ {w}
    /\ delayOn' = IF w \in submitting THEN delayOn \ {w} ELSE delayOn
    /\ submitting' = submitting \ {w}

\* rt_workqueue_cancel_work; rt_workqueue_cancel_work_sync of a work that does not execute
CancelWork(c, w) ==
    /\ Starts(c) /\ c # Isr /\ Usable(w)
    /\ Cancel(w)
    /\ UNCHANGED <<semVars, workerVars, clientVars>>

\* rt_workqueue_cancel_work_sync finds its work executing
SyncBegin(c, w) ==
    /\ Starts(c) /\ c # Isr /\ Usable(w) /\ workCurrent = w
    /\ clientAt' = [clientAt EXCEPT ![c] = "synctake"]
    /\ clientWork' = [clientWork EXCEPT ![c] = w]
    /\ UNCHANGED <<listVars, semVars, workerVars, answered>>

\* and takes the semaphore: it may have ended in the meantime.
SyncTake(c) ==
    /\ ClientRuns(c) /\ clientAt[c] = "synctake"
    /\ semWaiters' = Append(semWaiters, c)
    /\ clientAt' = [clientAt EXCEPT ![c] = "syncwait"]
    /\ answered' = IF workCurrent = clientWork[c] THEN answered \cup {c} ELSE answered
    /\ UNCHANGED <<listVars, sem, workerVars, clientWork>>

\* rt_workqueue_cancel_all_work: inside rt_enter_critical first the one list,
\* then the other.  An interrupt may come between the test of a list, the reading of its
\* first entry and the section, and empty the list or move the work.
CancelAllBegin(c) ==
    /\ Starts(c) /\ c # Isr /\ Quiet
    /\ clientAt' = [clientAt EXCEPT ![c] = "cancelall"]
    /\ UNCHANGED <<listVars, semVars, workerVars, clientWork, answered>>

CancelTest(c, list, test, read) ==
    /\ ClientRuns(c) /\ clientAt[c] = test /\ list # <<>>
    /\ clientAt' = [clientAt EXCEPT ![c] = read]
    /\ UNCHANGED <<listVars, semVars, workerVars, clientWork, answered>>

\* rt_list_first_entry of a list that is empty by now is the list itself.
CancelRead(c, list, read, cut) ==
    /\ ClientRuns(c) /\ clientAt[c] = read
    /\ IF list = <<>>
       THEN clientAt' = [clientAt EXCEPT ![c] = "wild"] /\ UNCHANGED clientWork
       ELSE /\ clientAt' = [clientAt EXCEPT ![c] = cut]
            /\ clientWork' = [clientWork EXCEPT ![c] = Head(list)]
    /\ UNCHANGED <<listVars, semVars, workerVars, answered>>

CancelCut(c, cut, test) ==
    /\ ClientRuns(c) /\ clientAt[c] = cut
    /\ Cancel(clientWork[c])
    /\ clientAt' = [clientAt EXCEPT ![c] = test]
    /\ UNCHANGED <<semVars, workerVars, clientWork, answered>>

CancelRound(c) ==
    \/ CancelTest(c, workList, "cancelall", "readwork")
    \/ CancelRead(c, workList, "readwork", "cutwork")
    \/ CancelCut(c, "cutwork", "cancelall")
    \/ CancelTest(c, delayedList, "canceldelayed", "readdelayed")
    \/ CancelRead(c, delayedList, "readdelayed", "cutdelayed")
    \/ CancelCut(c, "cutdelayed", "canceldelayed")

CancelNext(c) ==
    /\ ClientRuns(c)
    /\ \/ /\ clientAt[c] = "cancelall" /\ workList = <<>>
          /\ clientAt' = [clientAt EXCEPT ![c] = "canceldelayed"]
       \/ /\ clientAt[c] = "canceldelayed" /\ delayedList = <<>>
          /\ clientAt' = [clientAt EXCEPT ![c] = "idle"]
    /\ UNCHANGED <<listVars, semVars, workerVars, clientWork, answered>>

-----------------------------------------------------------------------------

Worker ==
    \/ WorkerTakes \/ WorkerSleeps \/ FuncWaits \/ FuncGoesOn \/ FuncReturns
    \/ AckBegin \/ AckTake \/ AckRelease

WorkNext ==
    \/ Worker
    \/ \E w \in Works : DelayEnds(w)
    \/ \E c \in Clients \cup {Isr}, w \in Works :
          \/ SubmitNow(c, w) \/ SubmitDelayed(c, w) \/ Urgent(c, w)
          \/ CancelWork(c, w) \/ SyncBegin(c, w)
    \/ \E c \in Clients :
          \/ StartDelay(c) \/ SyncTake(c)
          \/ CancelAllBegin(c) \/ CancelRound(c) \/ CancelNext(c)

WorkSpec == WorkInit /\ [][WorkNext]_workVars

-----------------------------------------------------------------------------
(* Properties *)

WorkTypeOK ==
    /\ workList \in Seq(Works) /\ delayedList \in Seq(Works)
    /\ workCurrent \in Works \cup {NoWork}
    /\ sem \in {0, 1} /\ semWaiters \in Seq(Clients)
    /\ pending \subseteq Works /\ submitting \subseteq Works
    /\ hasQueue \subseteq Works /\ delayOn \subseteq Works
    /\ workerAt \in {"loop", "func", "done", "ack"}
    /\ workerStat \in {"RUN", "SUSPEND"} /\ funcWaits \in BOOLEAN
    /\ clientAt \in [Clients -> {"idle", "start", "synctake", "syncwait"} \cup CancelLabels]
    /\ clientWork \in [Clients -> Works \cup {NoWork}]
    /\ answered \subseteq Clients

\* RT_ASSERT(queue != RT_NULL) of _delayed_work_timeout_handler: a work whose delay
\* runs has a queue to go to when it ends.
DelayFindsQueue == delayOn \subseteq hasQueue

\* A work is in one list at most, and in work_list the worker comes for it; a
\* delay runs only for a work that is in delayed_list and marked as submitted.
WorksReached ==
    /\ IsInjective(workList \o delayedList)
    /\ workerAt = "loop" /\ workerStat = "SUSPEND" => workList = <<>>
    /\ delayOn \subseteq submitting \cap ToSet(delayedList)

\* Submissions and expiring delays leave a worker alone that waits inside the
\* function of a work.
FunctionUndisturbed == funcWaits => workerStat = "SUSPEND" /\ workerAt = "func"

\* rt_workqueue_cancel_work_sync returns when the work that was executing has ended:
\* the end of that work wakes everybody who waits for it.
WaitersAnswered ==
    \A c \in answered : workCurrent = clientWork[c] \/ workerAt \in {"done", "ack"}

\* The work queue neither forgets a work nor wakes what it should not, until
\* rt_workqueue_cancel_all_work takes a list head for a work: an interrupt may empty
\* the list that it has found not empty.
WorksServed ==
    (\A c \in Clients : clientAt[c] # "wild") =>
        DelayFindsQueue /\ WorksReached /\ FunctionUndisturbed /\ WaitersAnswered
=============================================================================
