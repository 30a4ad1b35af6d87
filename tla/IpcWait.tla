-------------------------------- MODULE IpcWait --------------------------------
(***************************************************************************)
(* What the message queue, the mailbox and the event of                     *)
(* rt-thread/src/ipc.c share on top of their suspend lists: how they are    *)
(* used, how a thread starts to wait, and how waiting threads are resumed.  *)
(***************************************************************************)
EXTENDS IpcObject, FiniteSets

CONSTANTS Handlers,    \* interrupt handlers, members of Threads: they send without waiting
          Prio,        \* current_priority of each thread
          Flag,        \* "FIFO" or "PRIO"
          Waits,       \* the kinds of timeout used: "no", "timed", "forever"
          Resets,      \* whether RT_IPC_CMD_RESET is used
          Detachers    \* the threads that may detach the object

\* The timeout of a waiting thread and the reset lock nothing but their own core.
ASSUME WaitAssumption ==
    /\ Flag \in {"FIFO", "PRIO"}
    /\ Waits \subseteq {"no", "timed", "forever"}
    /\ Prio \in [Threads -> Nat] /\ IsFiniteSet(Threads)
    /\ Handlers \subseteq Threads /\ Detachers \subseteq Threads \ Handlers
    /\ Resets \in BOOLEAN
    /\ "timed" \in Waits \/ Resets => \A s, t \in Threads : Bind[s] = Bind[t]

\* The timeouts that t may use.
WaitsOf(t) == IF t \in Handlers THEN {"no"} ELSE Waits

\* thread->error = RT_EOK; the thread suspends in list l and starts its timer if
\* the wait is timed.
Suspend(t, l, time) ==
    /\ error' = [error EXCEPT ![t] = "EOK"]
    /\ ListSuspend(t, l, Flag, Prio, time = "timed")
    /\ UNCHANGED <<irqoff, expired>>

\* timeout -= tick_delta, not below 0, when a woken thread looks again.
Remaining(time) == IF time = "timed" THEN {"timed", "no"} ELSE {time}

\* if (!rt_list_isempty(list)) _ipc_list_resume(list);
ResumeFirst(l) ==
    /\ IF queue[l] = <<>> THEN UNCHANGED <<stat, queue, timer>>
       ELSE ThreadResume(Head(queue[l]))
    /\ UNCHANGED <<error, irqoff, expired>>

\* _ipc_list_resume_all on the lists ls with the interrupts of the core disabled.
ResumeAll(ls) ==
    LET woken == UNION {ToSet(queue[l]) : l \in ls}
    IN  /\ stat' = [t \in Threads |-> IF t \in woken THEN "RUN" ELSE stat[t]]
        /\ error' = [t \in Threads |-> IF t \in woken THEN "ERROR" ELSE error[t]]
        /\ timer' = [t \in Threads |-> timer[t] /\ t \notin woken]
        /\ queue' = [l \in Lists |-> IF l \in ls THEN <<>> ELSE queue[l]]
        /\ UNCHANGED <<irqoff, expired>>

\* The section of one round of _ipc_list_resume_all, when interrupts are enabled
\* between the rounds, as in the detach and the delete of an object: list->next is
\* resumed.  The list was not empty when it was tested, before the section, but a
\* timeout may have emptied it: list->next is then the list itself, and the code writes
\* to and resumes what is no thread.  Nothing is followed behind that ("wild").
ResumeNext(l) ==
    IF queue[l] = <<>> THEN UNCHANGED ipcVars
    ELSE /\ error' = [error EXCEPT ![Head(queue[l])] = "ERROR"]
         /\ ThreadResume(Head(queue[l]))
         /\ UNCHANGED <<irqoff, expired>>
AfterRound(l, label) == IF queue[l] = <<>> THEN "wild" ELSE label
=============================================================================
