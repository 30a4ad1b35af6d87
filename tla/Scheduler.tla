------------------------------- MODULE Scheduler -------------------------------
(***************************************************************************)
(* The scheduler of one core: rt-thread/src/scheduler.c (SMP build) with    *)
(* the thread operations of thread.c that drive it, the time slice of       *)
(* clock.c and the interrupt frame of irq.c and interrupt_gcc.S.            *)
(*                                                                         *)
(* Ready queues are per core and a thread never leaves the core it is bound *)
(* to, so one core with its threads and its interrupts is a closed system  *)
(* as long as no other core touches its threads (module CrossCore is about  *)
(* that).  rt_hw_interrupt_disable() masks the core's interrupts, so a      *)
(* section between it and rt_hw_interrupt_enable() is one atomic step here; *)
(* interrupts, and the thread switches they cause, fall between the steps. *)
(***************************************************************************)
EXTENDS ThreadList

CONSTANTS Threads,     \* the threads bound to this core
          Idle,        \* its idle thread
          Main,        \* the thread running when the model starts
          InitPrio,    \* init_priority of each thread; smaller is more urgent
          Prios,       \* the priorities in use
          NewPrios,    \* those RT_THREAD_CTRL_CHANGE_PRIORITY is called with
          Slice,       \* init_tick
          MaxNest,     \* bound on the nesting of rt_enter_critical
          Sleepers,    \* the threads that sleep with a timeout
          Victims,     \* the threads others delete
          Nobody       \* no thread

ASSUME ThreadAssumption ==
    /\ Idle \in Threads /\ Main \in Threads \ {Idle}
    /\ Sleepers \subseteq Threads \ {Idle}
    /\ Victims \subseteq Threads \ {Idle, Main}
    /\ Nobody \notin Threads
ASSUME PrioAssumption ==
    /\ Prios \subseteq Nat /\ NewPrios \subseteq Prios
    /\ InitPrio \in [Threads -> Prios]
    /\ \A t \in Threads \ {Idle} : InitPrio[t] < InitPrio[Idle]
    /\ \A p \in NewPrios : p < InitPrio[Idle]
ASSUME BoundAssumption == Slice \in Nat \ {0} /\ MaxNest \in Nat

VARIABLES stat,      \* stat & RT_THREAD_STAT_MASK
          yield,     \* stat & RT_THREAD_STAT_YIELD
          oncpu,     \* oncpu # RT_CPU_DETACHED
          prio,      \* current_priority
          timer,     \* thread_timer is active
          remaining, \* remaining_tick
          crit,      \* critical_lock_nest
          pc,        \* "run"; "sched": at the rt_schedule() that ends an operation;
                     \* "suspend": inside rt_thread_suspend; "unqueue", "detach",
                     \* "close": inside rt_thread_delete
          victim,    \* the thread that this call is about
          rq,        \* pcpu->priority_table and pcpu->priority_group
          cur,       \* pcpu->current_thread
          cpuprio,   \* pcpu->current_priority
          flag,      \* pcpu->irq_switch_flag
          isr        \* the interrupt being served (pcpu->irq_nest # 0)

vars == <<stat, yield, oncpu, prio, timer, remaining, crit, pc, victim,
          rq, cur, cpuprio, flag, isr>>

States == {"INIT", "READY", "RUNNING", "SUSPEND", "CLOSE"}
LowestOf(S) == CHOOSE p \in S : \A q \in S : p <= q

-----------------------------------------------------------------------------
(* The ready queue *)

\* rt_schedule_insert_thread for a thread that is not on a core.
Enqueue(q, t, p) ==
    [table |-> [q.table EXCEPT ![p] = Append(@, t)],
     group |-> q.group \cup {p}]

\* rt_schedule_remove_thread: unlink, then clear the priority's bit if its
\* list is empty.
Dequeue(q, t, p) ==
    LET table == Unlink(q.table, t)
    IN  [table |-> table,
         group |-> IF table[p] = <<>> THEN q.group \ {p} ELSE q.group]

\* Seeded fault: the test of oncpu is the wrong way round.
InsertRunning(t) ==
    /\ stat' = [stat EXCEPT ![t] = "RUNNING"]
    /\ UNCHANGED rq

\* rt_schedule_insert_thread: a thread that still has its core becomes RUNNING
\* again, any other one is queued and READY.
InsertThread(t) ==
    IF oncpu[t]
    THEN /\ stat' = [stat EXCEPT ![t] = "RUNNING"]
         /\ UNCHANGED rq
    ELSE /\ stat' = [stat EXCEPT ![t] = "READY"]
         /\ rq' = Enqueue(rq, t, prio[t])

-----------------------------------------------------------------------------
(***************************************************************************)
(* Init: after rt_system_scheduler_start() has switched to Main.  It does   *)
(* not set pcpu->current_priority, which stays at its initial value.       *)
(***************************************************************************)
Init ==
    /\ stat = [t \in Threads |-> IF t = Main THEN "RUNNING"
                                 ELSE IF t = Idle THEN "READY" ELSE "INIT"]
    /\ yield = [t \in Threads |-> FALSE]
    /\ oncpu = [t \in Threads |-> t = Main]
    /\ prio = InitPrio
    /\ timer = [t \in Threads |-> FALSE]
    /\ remaining = [t \in Threads |-> Slice]
    /\ crit = [t \in Threads |-> 0]
    /\ pc = [t \in Threads |-> "run"]
    /\ victim = [t \in Threads |-> Nobody]
    /\ rq = Enqueue([table |-> [p \in Prios |-> <<>>], group |-> {}],
                    Idle, InitPrio[Idle])
    /\ cur = Main
    /\ cpuprio = InitPrio[Idle]
    /\ flag = FALSE
    /\ isr = "none"

-----------------------------------------------------------------------------
(* Choosing the next thread *)

Highest == LowestOf(rq.group)                      \* __rt_ffs(priority_group)
HighestThread == Head(rq.table[Highest])

\* Seeded fault: the comparison with the highest ready priority is reversed.
KeepsCoreReversed(yields) ==
    /\ stat[cur] = "RUNNING"
    /\ prio[cur] > Highest \/ (prio[cur] = Highest /\ ~yields)

\* The current thread stays: it is RUNNING and more urgent than every ready
\* thread, or as urgent and has not yielded.
KeepsCore(yields) ==
    /\ stat[cur] = "RUNNING"
    /\ prio[cur] < Highest \/ (prio[cur] = Highest /\ ~yields)

\* What rt_schedule and rt_scheduler_do_irq_switch do once they may switch.
\* `yields` is the current thread's YIELD bit; the bit is cleared whenever the
\* thread is still RUNNING here.
SwitchThread(yields) ==
    IF rq.group = {}
    THEN /\ yield' = [yield EXCEPT ![cur] = yields]
         /\ UNCHANGED <<stat, oncpu, rq, cur, cpuprio>>
    ELSE /\ yield' = [yield EXCEPT ![cur] = yields /\ stat[cur] # "RUNNING"]
         /\ IF KeepsCore(yields)
            THEN UNCHANGED <<stat, oncpu, rq, cur, cpuprio>>
            ELSE LET to == HighestThread
                     q == IF stat[cur] = "RUNNING"
                          THEN Enqueue(rq, cur, prio[cur]) ELSE rq
                 IN  /\ stat' = [stat EXCEPT ![cur] = IF @ = "RUNNING"
                                                      THEN "READY" ELSE @,
                                             ![to] = "RUNNING"]
                     /\ oncpu' = [oncpu EXCEPT ![cur] = FALSE, ![to] = TRUE]
                     /\ rq' = Dequeue(q, to, prio[to])
                     /\ cur' = to
                     /\ cpuprio' = Highest

\* scheduler_lock_nest == 1 inside rt_schedule: no rt_enter_critical is open.
Unlocked == crit[cur] = 0

\* rt_schedule() at the end of an operation of the current thread.
Schedule ==
    /\ isr = "none" /\ pc[cur] = "sched"
    /\ pc' = [pc EXCEPT ![cur] = "run"]
    /\ IF Unlocked THEN SwitchThread(yield[cur])
                   ELSE UNCHANGED <<stat, yield, oncpu, rq, cur, cpuprio>>
    /\ UNCHANGED <<prio, timer, remaining, crit, victim, flag, isr>>

-----------------------------------------------------------------------------
(* Thread operations, called by the current thread *)

Calls(t) == isr = "none" /\ cur = t /\ pc[t] = "run" /\ t # Idle

\* No thread handle is used by others once its deletion has begun, and a thread does
\* not end while another one is suspending it.
Suspending(u) == \E t \in Threads : victim[t] = u /\ pc[t] = "suspend" /\ stat[t] # "CLOSE"
Usable(u) == \A t \in Threads : victim[t] = u => pc[t] = "suspend"

\* rt_thread_startup: SUSPEND, then rt_thread_resume, then rt_schedule.
Startup(t, u) ==
    /\ Calls(t) /\ stat[u] = "INIT" /\ Usable(u)
    /\ prio' = [prio EXCEPT ![u] = InitPrio[u]]
    /\ stat' = [stat EXCEPT ![u] = "READY"]
    /\ rq' = Enqueue(rq, u, InitPrio[u])
    /\ pc' = [pc EXCEPT ![t] = "sched"]
    /\ UNCHANGED <<yield, oncpu, timer, remaining, crit, victim, cur, cpuprio, flag, isr>>

\* rt_thread_yield: one section up to the return of rt_schedule.
Yield(t) ==
    /\ Calls(t)
    /\ remaining' = [remaining EXCEPT ![t] = Slice]
    /\ IF Unlocked THEN SwitchThread(TRUE)
                   ELSE /\ yield' = [yield EXCEPT ![t] = TRUE]
                        /\ UNCHANGED <<stat, oncpu, rq, cur, cpuprio>>
    /\ UNCHANGED <<prio, timer, crit, pc, victim, flag, isr>>

\* rt_thread_suspend(self), with the timer started for rt_thread_sleep; the
\* thread goes on to rt_schedule() with interrupts enabled.  A thread does not
\* block inside rt_enter_critical.
SuspendSelf(t, timed) ==
    /\ Calls(t) /\ crit[t] = 0 /\ (timed => t \in Sleepers)
    /\ rq' = Dequeue(rq, t, prio[t])
    /\ stat' = [stat EXCEPT ![t] = "SUSPEND"]
    /\ timer' = [timer EXCEPT ![t] = timed]
    /\ pc' = [pc EXCEPT ![t] = "sched"]
    /\ UNCHANGED <<yield, oncpu, prio, remaining, crit, victim, cur, cpuprio, flag, isr>>

\* rt_thread_suspend(other): only a READY thread of this core passes the test of stat.
SuspendTest(t, u) ==
    /\ Calls(t) /\ u \notin {t, Idle} /\ stat[u] = "READY" /\ Usable(u)
    /\ victim' = [victim EXCEPT ![t] = u]
    /\ pc' = [pc EXCEPT ![t] = "suspend"]
    /\ UNCHANGED <<stat, yield, oncpu, prio, timer, remaining, crit, rq,
                   cur, cpuprio, flag, isr>>

\* Seeded fault: the suspended thread stays in its ready list.
SuspendLinked(t) ==
    /\ isr = "none" /\ cur = t /\ pc[t] = "suspend"
    /\ stat' = [stat EXCEPT ![victim[t]] = "SUSPEND"]
    /\ timer' = [timer EXCEPT ![victim[t]] = FALSE]
    /\ victim' = [victim EXCEPT ![t] = Nobody]
    /\ pc' = [pc EXCEPT ![t] = "run"]
    /\ UNCHANGED <<yield, oncpu, prio, remaining, crit, rq, cur, cpuprio, flag, isr>>

\* Its section, whatever the thread has done since the test: one that sleeps with a
\* timeout by now loses its timer.
SuspendOther(t) ==
    /\ isr = "none" /\ cur = t /\ pc[t] = "suspend"
    /\ rq' = Dequeue(rq, victim[t], prio[victim[t]])
    /\ stat' = [stat EXCEPT ![victim[t]] = "SUSPEND"]
    /\ timer' = [timer EXCEPT ![victim[t]] = FALSE]
    /\ victim' = [victim EXCEPT ![t] = Nobody]
    /\ pc' = [pc EXCEPT ![t] = "run"]
    /\ UNCHANGED <<yield, oncpu, prio, remaining, crit, cur, cpuprio, flag, isr>>

\* Seeded fault: the timer of the resumed thread is left running.
ResumeTimed(t, u) ==
    /\ Calls(t) /\ stat[u] = "SUSPEND" /\ Usable(u)
    /\ InsertThread(u)
    /\ pc' = [pc EXCEPT ![t] = "sched"]
    /\ UNCHANGED <<yield, oncpu, prio, timer, remaining, crit, victim,
                   cur, cpuprio, flag, isr>>

\* rt_thread_resume, as the IPC operations call it: then rt_schedule.
Resume(t, u) ==
    /\ Calls(t) /\ stat[u] = "SUSPEND" /\ Usable(u)
    /\ InsertThread(u)
    /\ timer' = [timer EXCEPT ![u] = FALSE]
    /\ pc' = [pc EXCEPT ![t] = "sched"]
    /\ UNCHANGED <<yield, oncpu, prio, remaining, crit, victim, cur, cpuprio, flag, isr>>

\* rt_thread_control(RT_THREAD_CTRL_CHANGE_PRIORITY): a READY thread changes
\* queue; there is no rt_schedule() at the end.
ChangePriority(t, u, p) ==
    /\ Calls(t) /\ u # Idle /\ stat[u] \notin {"INIT", "CLOSE"} /\ Usable(u)
    /\ p # prio[u]
    /\ prio' = [prio EXCEPT ![u] = p]
    /\ rq' = IF stat[u] = "READY"
             THEN Enqueue(Dequeue(rq, u, prio[u]), u, p) ELSE rq
    /\ UNCHANGED <<stat, yield, oncpu, timer, remaining, crit, pc, victim,
                   cur, cpuprio, flag, isr>>

\* rt_enter_critical
EnterCritical(t) ==
    /\ Calls(t) /\ crit[t] < MaxNest
    /\ crit' = [crit EXCEPT ![t] = @ + 1]
    /\ UNCHANGED <<stat, yield, oncpu, prio, timer, remaining, pc, victim,
                   rq, cur, cpuprio, flag, isr>>

\* rt_exit_critical: rt_schedule() when the last level is left.
ExitCritical(t) ==
    /\ Calls(t) /\ crit[t] > 0
    /\ crit' = [crit EXCEPT ![t] = @ - 1]
    /\ pc' = [pc EXCEPT ![t] = IF crit[t] = 1 THEN "sched" ELSE @]
    /\ UNCHANGED <<stat, yield, oncpu, prio, timer, remaining, victim,
                   rq, cur, cpuprio, flag, isr>>

\* _thread_exit: one section, up to the switch to the next thread.
Exit(t) ==
    /\ Calls(t) /\ crit[t] = 0 /\ t # Main /\ ~Suspending(t)
    /\ timer' = [timer EXCEPT ![t] = FALSE]
    /\ LET to == LowestOf(rq.group) IN
         LET next == Head(rq.table[to]) IN
           /\ stat' = [stat EXCEPT ![t] = "CLOSE", ![next] = "RUNNING"]
           /\ oncpu' = [oncpu EXCEPT ![t] = FALSE, ![next] = TRUE]
           /\ rq' = Dequeue(Dequeue(rq, t, prio[t]), next, prio[next])
           /\ cur' = next
           /\ cpuprio' = to
    /\ yield' = [yield EXCEPT ![t] = FALSE]
    /\ UNCHANGED <<prio, remaining, crit, pc, victim, flag, isr>>

(* rt_thread_delete and rt_thread_detach: two tests of stat and three         *)
(* sections, with interrupts enabled between them.                          *)

\* A thread that has not been started is in no list.
DeleteTest(t, u) ==
    /\ Calls(t) /\ u \in Victims \ {t} /\ stat[u] # "CLOSE" /\ Usable(u) /\ ~Suspending(u)
    /\ victim' = [victim EXCEPT ![t] = u]
    /\ pc' = [pc EXCEPT ![t] = IF stat[u] = "INIT" THEN "detach" ELSE "unqueue"]
    /\ UNCHANGED <<stat, yield, oncpu, prio, timer, remaining, crit, rq,
                   cur, cpuprio, flag, isr>>

\* Seeded fault: the deleted thread stays in its ready list.
DeleteLinked(t) ==
    /\ isr = "none" /\ cur = t /\ pc[t] = "unqueue"
    /\ pc' = [pc EXCEPT ![t] = "detach"]
    /\ UNCHANGED <<stat, yield, oncpu, prio, timer, remaining, crit, victim, rq,
                   cur, cpuprio, flag, isr>>

\* rt_schedule_remove_thread; the stat of the thread stays what it was.
DeleteUnqueue(t) ==
    /\ isr = "none" /\ cur = t /\ pc[t] = "unqueue"
    /\ rq' = Dequeue(rq, victim[t], prio[victim[t]])
    /\ pc' = [pc EXCEPT ![t] = "detach"]
    /\ UNCHANGED <<stat, yield, oncpu, prio, timer, remaining, crit, victim,
                   cur, cpuprio, flag, isr>>

\* rt_timer_detach
DeleteTimer(t) ==
    /\ isr = "none" /\ cur = t /\ pc[t] = "detach"
    /\ timer' = [timer EXCEPT ![victim[t]] = FALSE]
    /\ pc' = [pc EXCEPT ![t] = "close"]
    /\ UNCHANGED <<stat, yield, oncpu, prio, remaining, crit, victim,
                   rq, cur, cpuprio, flag, isr>>

\* stat = RT_THREAD_CLOSE and, for a dynamic thread, the defunct list.
DeleteClose(t) ==
    /\ isr = "none" /\ cur = t /\ pc[t] = "close"
    /\ stat' = [stat EXCEPT ![victim[t]] = "CLOSE"]
    /\ yield' = [yield EXCEPT ![victim[t]] = FALSE]
    /\ victim' = [victim EXCEPT ![t] = Nobody]
    /\ pc' = [pc EXCEPT ![t] = "run"]
    /\ UNCHANGED <<oncpu, prio, timer, remaining, crit,
                   rq, cur, cpuprio, flag, isr>>

-----------------------------------------------------------------------------
(* Interrupts: rt_interrupt_enter, the handler, rt_interrupt_leave and        *)
(* rt_scheduler_do_irq_switch, with the core's interrupts masked throughout. *)
(* rt_schedule() inside a handler only sets irq_switch_flag.                 *)

\* Seeded faults: the slice ends one tick late; it ends without the YIELD bit.
TickLate ==
    /\ isr = "none"
    /\ isr' = "tick"
    /\ remaining' = [remaining EXCEPT ![cur] = IF @ = 0 THEN Slice ELSE @ - 1]
    /\ UNCHANGED <<stat, yield, oncpu, prio, timer, crit, pc, victim,
                   rq, cur, cpuprio, flag>>
TickKeeps ==
    /\ isr = "none"
    /\ isr' = "tick"
    /\ remaining' = [remaining EXCEPT ![cur] = IF @ = 1 THEN Slice ELSE @ - 1]
    /\ flag' = (flag \/ remaining[cur] = 1)
    /\ UNCHANGED <<stat, yield, oncpu, prio, timer, crit, pc, victim,
                   rq, cur, cpuprio>>

\* tick_isr -> rt_tick_increase: the time slice of the current thread.
Tick ==
    /\ isr = "none"
    /\ isr' = "tick"
    /\ IF remaining[cur] = 1
       THEN /\ remaining' = [remaining EXCEPT ![cur] = Slice]
            /\ yield' = [yield EXCEPT ![cur] = TRUE]
            /\ flag' = TRUE
       ELSE /\ remaining' = [remaining EXCEPT ![cur] = @ - 1]
            /\ UNCHANGED <<yield, flag>>
    /\ UNCHANGED <<stat, oncpu, prio, timer, crit, pc, victim, rq, cur, cpuprio>>

\* rt_timer_check -> rt_thread_timeout: the timer of a sleeping thread expires.
Timeout(u) ==
    /\ isr = "tick" /\ timer[u]
    /\ timer' = [timer EXCEPT ![u] = FALSE]
    /\ InsertThread(u)
    /\ flag' = TRUE
    /\ UNCHANGED <<yield, oncpu, prio, remaining, crit, pc, victim, cur, cpuprio, isr>>

\* A device interrupt whose handler resumes a thread (rt_sem_release and the like).
DeviceIrq(u) ==
    /\ isr = "none" /\ stat[u] = "SUSPEND" /\ Usable(u)
    /\ isr' = "device"
    /\ InsertThread(u)
    /\ timer' = [timer EXCEPT ![u] = FALSE]
    /\ flag' = TRUE
    /\ UNCHANGED <<yield, oncpu, prio, remaining, crit, pc, victim, cur, cpuprio>>

\* rt_interrupt_leave, rt_scheduler_do_irq_switch
IrqLeave ==
    /\ isr # "none"
    /\ isr' = "none"
    /\ IF flag /\ Unlocked
       THEN flag' = FALSE /\ SwitchThread(yield[cur])
       ELSE UNCHANGED <<flag, stat, yield, oncpu, rq, cur, cpuprio>>
    /\ UNCHANGED <<prio, timer, remaining, crit, pc, victim>>

-----------------------------------------------------------------------------

Next ==
    \/ Schedule
    \/ \E t \in Threads :
          \/ Yield(t) \/ EnterCritical(t) \/ ExitCritical(t) \/ Exit(t)
          \/ SuspendSelf(t, TRUE) \/ SuspendSelf(t, FALSE)
          \/ SuspendOther(t)
          \/ DeleteUnqueue(t) \/ DeleteTimer(t) \/ DeleteClose(t)
          \/ \E u \in Threads :
                \/ Startup(t, u) \/ SuspendTest(t, u) \/ Resume(t, u)
                \/ DeleteTest(t, u)
                \/ \E p \in NewPrios : ChangePriority(t, u, p)
    \/ Tick
    \/ \E u \in Threads : Timeout(u) \/ DeviceIrq(u)
    \/ IrqLeave

Spec == Init /\ [][Next]_vars

\* The thread on the core ends its critical section; it ends the rt_thread_suspend or
\* rt_thread_delete it is in.
LeavesCritical == \E t \in Threads : ExitCritical(t)
CallEnds ==
    \E t \in Threads : SuspendOther(t) \/ DeleteUnqueue(t) \/ DeleteTimer(t) \/ DeleteClose(t)

(***************************************************************************)
(* Fairness: the clock keeps ticking (a pending timer interrupt is taken    *)
(* as soon as the core is back in a thread), handlers end, and threads get  *)
(* on between the interrupts.                                              *)
(***************************************************************************)
Fairness ==
    /\ SF_vars(Tick) /\ WF_vars(IrqLeave)
    /\ SF_vars(Schedule) /\ SF_vars(LeavesCritical) /\ SF_vars(CallEnds)

FairSpec == Spec /\ Fairness

-----------------------------------------------------------------------------
(* Properties *)

TypeOK ==
    /\ stat \in [Threads -> States]
    /\ yield \in [Threads -> BOOLEAN]
    /\ oncpu \in [Threads -> BOOLEAN]
    /\ prio \in [Threads -> Prios]
    /\ timer \in [Threads -> BOOLEAN]
    /\ remaining \in [Threads -> 1..Slice]
    /\ crit \in [Threads -> 0..MaxNest]
    /\ pc \in [Threads -> {"run", "sched", "suspend", "unqueue", "detach", "close"}]
    /\ victim \in [Threads -> Threads \cup {Nobody}]
    /\ rq.table \in [Prios -> Seq(Threads)] /\ rq.group \subseteq Prios
    /\ cur \in Threads /\ cpuprio \in Prios
    /\ flag \in BOOLEAN /\ isr \in {"none", "tick", "device"}

Queued(t, p) == t \in ToSet(rq.table[p])

\* rt_thread_delete has taken u out of its ready list.
Unqueued(u) == \E t \in Threads : victim[t] = u /\ pc[t] \in {"detach", "close"}

\* A READY thread is linked exactly once, in the list of its current
\* priority, and only READY threads are linked (no thread being deleted); and
\* priority_group has exactly the bits of the non-empty lists, although insert,
\* remove and a priority change each update the two separately: otherwise
\* __rt_ffs picks an empty list or misses one.
ReadyQueueExact ==
    /\ \A t \in Threads, p \in Prios :
          Queued(t, p) <=> stat[t] = "READY" /\ prio[t] = p /\ ~Unqueued(t)
    /\ \A p \in Prios : IsInjective(rq.table[p])
    /\ \A p \in Prios : p \in rq.group <=> rq.table[p] # <<>>

\* The core has one thread: current_thread is the only one with oncpu set, and
\* no other thread is RUNNING; so an insert of any other thread queues it.
OneThreadOnCore ==
    /\ \A t \in Threads : oncpu[t] <=> t = cur
    /\ \A t \in Threads : stat[t] = "RUNNING" => t = cur

\* RT_ASSERT(stat == RT_THREAD_SUSPEND) of rt_thread_timeout: a thread whose
\* timer can expire is suspended, whatever woke it or suspended it before.
TimerOnlyWhenSuspended ==
    \A t \in Threads : timer[t] => stat[t] = "SUSPEND"

\* Outside interrupts and rt_enter_critical, no ready thread is more urgent
\* than the running one unless the switch to it is on its way (the current
\* thread is at its rt_schedule() call).
HighestPriorityRuns ==
    isr = "none" /\ Unlocked /\ pc[cur] # "sched" /\ stat[cur] = "RUNNING"
       => \A t \in Threads : stat[t] = "READY" /\ ~Unqueued(t) => prio[cur] <= prio[t]

\* rt_thread_delete removes the thread from the thread queues: a CLOSE thread
\* is in no ready list and never gets the core again.
ClosedIsGone ==
    \A t \in Threads : stat[t] = "CLOSE" =>
        t # cur /\ \A p \in Prios : ~Queued(t, p)

\* Threads that stay the most urgent ready ones share the core: each of them
\* runs again and again, because the tick sets RT_THREAD_STAT_YIELD.
MostUrgent(t) ==
    /\ stat[t] \in {"READY", "RUNNING"} /\ ~Unqueued(t)
    /\ \A u \in Threads : stat[u] \in {"READY", "RUNNING"} => prio[t] <= prio[u]
RoundRobin == \A t \in Threads : <>[]MostUrgent(t) => []<>(cur = t)
=============================================================================
