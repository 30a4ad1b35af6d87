------------------------------- MODULE Completion -------------------------------
(***************************************************************************)
(* The completion of components/drivers/src/completion.c on one core: one   *)
(* thread at a time waits for an event that threads and interrupt handlers  *)
(* report.                                                                  *)
(***************************************************************************)
EXTENDS IpcWait

ASSUME CompletionAssumption ==
    /\ "completion" \in Lists
    /\ \A s, t \in Threads : Bind[s] = Bind[t]

VARIABLES flag,        \* completion->flag is RT_COMPLETED
          cmPc,        \* where each thread is
          owed         \* history: "yes" if a completion was reported that no wait has
                       \* returned since, "erased" if one that timed out erased it

cmVars == <<flag, cmPc, owed>>

CmInit ==
    /\ flag = FALSE /\ owed = "no"
    /\ cmPc = [t \in Threads |-> "idle"]

CmGoes(t, where) == cmPc' = [cmPc EXCEPT ![t] = where]

\* The object is private to a driver that has one transfer under way: nobody waits
\* while another thread does, as RT_ASSERT(rt_list_isempty(...)) demands.
NobodyWaits == \A t \in Threads : cmPc[t] # "wait"

-----------------------------------------------------------------------------
(* rt_completion_wait(completion, timeout) *)

CmWait(t, time) ==
    /\ OnCpu(t) /\ t \notin Handlers /\ cmPc[t] = "idle" /\ NobodyWaits
    /\ \/ /\ flag
          /\ flag' = FALSE /\ owed' = "no"
          /\ UNCHANGED <<ipcVars, cmPc>>
       \/ /\ ~flag /\ time # "no"
          /\ error' = [error EXCEPT ![t] = "EOK"]
          /\ ListSuspend(t, "completion", "FIFO", Prio, time = "timed")
          /\ CmGoes(t, "wait")
          /\ UNCHANGED <<irqoff, expired, flag, owed>>

Consume(t) ==
    owed' = IF error[t] = "EOK" \/ owed = "no" THEN "no" ELSE "erased"

\* Seeded fault: the flag stays as it is when a waiter was resumed.
WokenKeepsFlag(t) ==
    /\ OnCpu(t) /\ cmPc[t] = "wait" /\ stat[t] = "RUN"
    /\ Consume(t)
    /\ CmGoes(t, "idle")
    /\ UNCHANGED <<ipcVars, flag>>

\* After rt_schedule: result = thread->error, and completion->flag = RT_UNCOMPLETED
\* whatever the result is.
CmWoken(t) ==
    /\ OnCpu(t) /\ cmPc[t] = "wait" /\ stat[t] = "RUN"
    /\ flag' = FALSE
    /\ Consume(t)
    /\ CmGoes(t, "idle")
    /\ UNCHANGED ipcVars

-----------------------------------------------------------------------------
(* rt_completion_done(completion) *)

\* Behind the test of the flag, which is made with interrupts enabled: "done".
CmDoneTest(t) ==
    /\ OnCpu(t) /\ cmPc[t] = "idle"
    /\ IF flag THEN owed' = "yes" /\ UNCHANGED cmPc ELSE CmGoes(t, "done") /\ UNCHANGED owed
    /\ UNCHANGED <<ipcVars, flag>>

CmDone(t) ==
    /\ OnCpu(t) /\ cmPc[t] = "done"
    /\ flag' = TRUE
    /\ ResumeFirst("completion")
    /\ owed' = "yes"
    /\ CmGoes(t, "idle")

CmNext ==
    \E t \in Threads :
        \/ \E time \in WaitsOf(t) : CmWait(t, time)
        \/ CmWoken(t) \/ CmDoneTest(t) \/ CmDone(t)
        \/ \E c \in Cpus : (TimerExpires(c, t) \/ ThreadTimeout(c, t)) /\ UNCHANGED cmVars

CmSpec == IpcInit /\ CmInit /\ [][CmNext]_<<ipcVars, cmVars>>

-----------------------------------------------------------------------------
(* Properties *)

CmTypeOK ==
    /\ flag \in BOOLEAN
    /\ cmPc \in [Threads -> {"idle", "wait", "done"}]
    /\ owed \in {"no", "yes", "erased"}

\* rt_completion_wait and rt_completion_done: nobody sleeps for a completion that has
\* been reported, unless a wait that timed out has erased it; and a completion that
\* a wait has returned is not left for the next one.
CompletionServed ==
    /\ queue["completion"] # <<>> => owed # "yes"
    /\ flag => owed = "yes"
=============================================================================
