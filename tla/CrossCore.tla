------------------------------- MODULE CrossCore -------------------------------
(***************************************************************************)
(* Waking a thread of another core: rt_thread_resume of thread.c,           *)
(* rt_schedule_insert_thread, rt_schedule and rt_scheduler_do_irq_switch of *)
(* scheduler.c, trigger_ipi_irq of irq.c and the software interrupt of      *)
(* handle_trap in k210/interrupt.c.                                         *)
(*                                                                         *)
(* A section of the scheduler disables the interrupts of its own core and   *)
(* locks nothing else, so that a section of one core is not atomic for the  *)
(* other: it is modelled in the accesses to priority_group, to the lists,   *)
(* to stat and to oncpu that the two cores have in common.  A list operation*)
(* is one step.  Time slices and priority changes are in module Scheduler.  *)
(***************************************************************************)
EXTENDS ThreadList

CONSTANTS Cores,       \* the cores, 0 .. RT_CPUS_NR - 1
          Tasks,       \* the threads
          Home,        \* bind_cpu of each thread
          Idle,        \* the idle thread of each core
          Urgency,     \* current_priority of each thread; smaller is more urgent
          Nobody       \* no thread

ASSUME CrossAssumption ==
    /\ Cores \subseteq Nat /\ IsFiniteSet(Cores)
    /\ Home \in [Tasks -> Cores] /\ Urgency \in [Tasks -> Nat]
    /\ Idle \in [Cores -> Tasks] /\ \A c \in Cores : Home[Idle[c]] = c
    /\ Nobody \notin Tasks

VARIABLES stat,        \* stat & RT_THREAD_STAT_MASK of each thread
          oncpu,       \* oncpu # RT_CPU_DETACHED
          atSched,     \* the thread is at the rt_schedule() that ends its operation
          current,     \* pcpu->current_thread
          table,       \* pcpu->priority_table
          group,       \* pcpu->priority_group
          switchFlag,  \* pcpu->irq_switch_flag
          isr,         \* the interrupt that the core serves, and where it is
          sec,         \* where the core is in a section of the scheduler
          task,        \* the thread that the section is about
          loaded,      \* the priority_group that it has loaded
          todo,        \* the cores that the loop of trigger_ipi_irq has not reached
          ipiType,     \* pcpu->ipi_type
          msip,        \* the pending bit of the software interrupt
          unheard      \* history: the core has cleared, or is about to clear, an
                       \* interrupt whose type it had not looked at when it was sent

ipiVars == <<ipiType, msip, unheard>>
crossVars == <<stat, oncpu, atSched, current, table, group, switchFlag, isr,
               sec, task, loaded, todo, ipiVars>>

Urgencies == {Urgency[t] : t \in Tasks}

\* Every thread waits for something and the cores are idle.
CrossInit ==
    /\ stat = [t \in Tasks |-> IF t = Idle[Home[t]] THEN "RUNNING" ELSE "SUSPEND"]
    /\ oncpu = [t \in Tasks |-> t = Idle[Home[t]]]
    /\ atSched = [t \in Tasks |-> FALSE]
    /\ current = Idle
    /\ table = [c \in Cores |-> [p \in Urgencies |-> <<>>]]
    /\ group = [c \in Cores |-> {}]
    /\ switchFlag = [c \in Cores |-> FALSE]
    /\ isr = [c \in Cores |-> "none"]
    /\ sec = [c \in Cores |-> "none"]
    /\ task = [c \in Cores |-> Nobody]
    /\ loaded = [c \in Cores |-> {}]
    /\ todo = [c \in Cores |-> {}]
    /\ ipiType = [c \in Cores |-> "none"]
    /\ msip = [c \in Cores |-> FALSE]
    /\ unheard = [c \in Cores |-> FALSE]

\* Where core c goes in its section, and the thread it is about.
Goto(c, place) == sec' = [sec EXCEPT ![c] = place]
EndSection(c) ==
    /\ Goto(c, "none")
    /\ task' = [task EXCEPT ![c] = Nobody]
    /\ loaded' = [loaded EXCEPT ![c] = {}]

\* A thread of core c runs and its interrupts are enabled.
InThread(c) == sec[c] = "none" /\ isr[c] = "none"

-----------------------------------------------------------------------------
(* rt_thread_suspend of the running thread *)

\* rt_schedule_remove_thread loads priority_group if the list of its priority is
\* empty ...
SuspendLoad(c) ==
    LET t == current[c]
    IN  /\ InThread(c) /\ t # Idle[c] /\ ~atSched[t] /\ stat[t] = "RUNNING"
        /\ IF table[c][Urgency[t]] = <<>>
           THEN loaded' = [loaded EXCEPT ![c] = group[c]] /\ Goto(c, "drop")
           ELSE Goto(c, "suspend") /\ UNCHANGED loaded
        /\ task' = [task EXCEPT ![c] = t]
        /\ UNCHANGED <<stat, oncpu, atSched, current, table, group, switchFlag, isr, todo, ipiVars>>

\* ... and stores it without the bit;
SuspendStore(c) ==
    /\ sec[c] = "drop"
    /\ group' = [group EXCEPT ![c] = loaded[c] \ {Urgency[task[c]]}]
    /\ Goto(c, "suspend")
    /\ UNCHANGED <<stat, oncpu, atSched, current, table, switchFlag, isr, task, loaded, todo, ipiVars>>

\* then the thread is suspended, and goes on to rt_schedule().
SuspendDone(c) ==
    /\ sec[c] = "suspend"
    /\ stat' = [stat EXCEPT ![task[c]] = "SUSPEND"]
    /\ atSched' = [atSched EXCEPT ![task[c]] = TRUE]
    /\ EndSection(c)
    /\ UNCHANGED <<oncpu, current, table, group, switchFlag, isr, todo, ipiVars>>

-----------------------------------------------------------------------------
(* rt_thread_resume(t) and rt_schedule_insert_thread(t), from a thread of core c or *)
(* from an interrupt handler; rt_schedule() follows, as after every operation that  *)
(* resumes a thread.                                                                *)

ResumeBegin(c, t) ==
    /\ \/ InThread(c) /\ current[c] # Idle[c] /\ ~atSched[current[c]]
       \/ sec[c] = "none" /\ isr[c] = "device"
    /\ stat[t] = "SUSPEND"
    /\ task' = [task EXCEPT ![c] = t]
    /\ Goto(c, "test")
    /\ UNCHANGED <<stat, oncpu, atSched, current, table, group, switchFlag, isr, loaded, todo, ipiVars>>

\* if (thread->oncpu != RT_CPU_DETACHED)
InsertTest(c) ==
    /\ sec[c] = "test"
    /\ Goto(c, IF oncpu[task[c]] THEN "mark" ELSE "ready")
    /\ UNCHANGED <<stat, oncpu, atSched, current, table, group, switchFlag, isr, task, loaded, todo, ipiVars>>

InsertReady(c) ==
    /\ sec[c] = "ready"
    /\ stat' = [stat EXCEPT ![task[c]] = "READY"]
    /\ Goto(c, "load")
    /\ UNCHANGED <<oncpu, atSched, current, table, group, switchFlag, isr, task, loaded, todo, ipiVars>>

\* Before rt_schedule: a resumed thread may make its waker give way.
ResumeEnd(c) ==
    /\ EndSection(c)
    /\ IF isr[c] = "none" THEN atSched' = [atSched EXCEPT ![current[c]] = TRUE] /\ UNCHANGED switchFlag
       ELSE switchFlag' = [switchFlag EXCEPT ![c] = TRUE] /\ UNCHANGED atSched

InsertRunning(c) ==
    /\ sec[c] = "mark"
    /\ stat' = [stat EXCEPT ![task[c]] = "RUNNING"]
    /\ ResumeEnd(c)
    /\ UNCHANGED <<oncpu, current, table, group, isr, todo, ipiVars>>

\* pcpu->priority_group |= thread->number_mask
InsertLoad(c) ==
    /\ sec[c] = "load"
    /\ loaded' = [loaded EXCEPT ![c] = group[Home[task[c]]]]
    /\ Goto(c, "store")
    /\ UNCHANGED <<stat, oncpu, atSched, current, table, group, switchFlag, isr, task, todo, ipiVars>>

\* Seeded fault: the bit is set for the core that resumes, not for bind_cpu.
InsertStoreHere(c) ==
    /\ sec[c] = "store"
    /\ group' = [group EXCEPT ![c] = loaded[c] \cup {Urgency[task[c]]}]
    /\ Goto(c, "link")
    /\ UNCHANGED <<stat, oncpu, atSched, current, table, switchFlag, isr, task, loaded, todo, ipiVars>>

InsertStore(c) ==
    /\ sec[c] = "store"
    /\ group' = [group EXCEPT ![Home[task[c]]] = loaded[c] \cup {Urgency[task[c]]}]
    /\ Goto(c, "link")
    /\ UNCHANGED <<stat, oncpu, atSched, current, table, switchFlag, isr, task, loaded, todo, ipiVars>>

\* Seeded fault: the other core is not told.
InsertQuietly(c) ==
    /\ sec[c] = "link"
    /\ table' = [table EXCEPT ![Home[task[c]]][Urgency[task[c]]] = Append(@, task[c])]
    /\ ResumeEnd(c)
    /\ UNCHANGED <<stat, oncpu, current, group, isr, todo, ipiVars>>

\* rt_list_insert_before; if (cpu_id != bind_cpu) trigger_ipi_irq(&ipi, bind_cpu);
InsertLink(c) ==
    LET t == task[c]
    IN  /\ sec[c] = "link"
        /\ table' = [table EXCEPT ![Home[t]][Urgency[t]] = Append(@, t)]
        /\ IF Home[t] = c THEN ResumeEnd(c) /\ UNCHANGED todo
           ELSE /\ Goto(c, "send") /\ todo' = [todo EXCEPT ![c] = Cores]
                /\ UNCHANGED <<task, loaded, atSched, switchFlag>>
        /\ UNCHANGED <<stat, oncpu, current, group, isr, ipiVars>>

\* One round of the loop of trigger_ipi_irq: core i gets the interrupt, any other
\* one loses the type of the interrupt it may not have served.
SendRound(c) ==
    LET i == Min(todo[c])
    IN  /\ sec[c] = "send" /\ todo[c] # {}
        /\ IF i = Home[task[c]]
           THEN /\ ipiType' = [ipiType EXCEPT ![i] = "reschedule"]
                /\ msip' = [msip EXCEPT ![i] = TRUE]
                /\ unheard' = [unheard EXCEPT ![i] = @ \/ isr[i] = "served"]
           ELSE ipiType' = [ipiType EXCEPT ![i] = "none"] /\ UNCHANGED <<msip, unheard>>
        /\ todo' = [todo EXCEPT ![c] = @ \ {i}]
        /\ UNCHANGED <<stat, oncpu, atSched, current, table, group, switchFlag, isr, sec, task, loaded>>

SendDone(c) ==
    /\ sec[c] = "send" /\ todo[c] = {}
    /\ ResumeEnd(c)
    /\ UNCHANGED <<stat, oncpu, current, table, group, isr, todo, ipiVars>>

-----------------------------------------------------------------------------
(* rt_schedule() in a thread, and rt_scheduler_do_irq_switch *)

Schedule(c) ==
    /\ InThread(c) /\ atSched[current[c]]
    /\ atSched' = [atSched EXCEPT ![current[c]] = FALSE]
    /\ Goto(c, "pick")
    /\ UNCHANGED <<stat, oncpu, current, table, group, switchFlag, isr, task, loaded, todo, ipiVars>>

\* to_thread is the first of the most urgent list; current_thread->oncpu is
\* RT_CPU_DETACHED from here on.  If the list is empty although its bit is set, the
\* head of the list is taken for a thread: "wild", from where the core is not followed.
Pick(c) ==
    LET first == table[c][Min(group[c])]
    IN  /\ sec[c] = "pick"
        /\ unheard' = [unheard EXCEPT ![c] = FALSE]
        /\ IF group[c] = {}
           THEN EndSection(c) /\ UNCHANGED oncpu
           ELSE /\ oncpu' = [oncpu EXCEPT ![current[c]] = FALSE]
                /\ IF first = <<>> THEN Goto(c, "wild") /\ UNCHANGED task
                   ELSE Goto(c, "decide") /\ task' = [task EXCEPT ![c] = Head(first)]
                /\ UNCHANGED loaded
        /\ UNCHANGED <<stat, atSched, current, table, group, switchFlag, isr, todo, ipiType, msip>>

\* The core is kept by a RUNNING thread as urgent as to_thread; otherwise to_thread
\* leaves its list and gets the core, and a RUNNING thread is queued.
Decide(c) ==
    LET from == current[c]
        to   == task[c]
        keep == stat[from] = "RUNNING" /\ Urgency[from] <= Urgency[to]
        back == [table[c] EXCEPT ![Urgency[from]] = IF stat[from] = "RUNNING" THEN Append(@, from) ELSE @]
        rest == [back EXCEPT ![Urgency[to]] = Without(@, to)]
        bits == group[c] \cup (IF stat[from] = "RUNNING" THEN {Urgency[from]} ELSE {})
    IN  /\ sec[c] = "decide"
        /\ IF keep THEN /\ oncpu' = [oncpu EXCEPT ![from] = TRUE]
                        /\ UNCHANGED <<stat, current, table, group>>
           ELSE /\ stat' = [stat EXCEPT ![from] = IF @ = "RUNNING" THEN "READY" ELSE @, ![to] = "RUNNING"]
                /\ oncpu' = [oncpu EXCEPT ![to] = TRUE]
                /\ current' = [current EXCEPT ![c] = to]
                /\ table' = [table EXCEPT ![c] = rest]
                /\ group' = [group EXCEPT ![c] = IF rest[Urgency[to]] = <<>> THEN bits \ {Urgency[to]} ELSE bits]
        /\ EndSection(c)
        /\ UNCHANGED <<atSched, switchFlag, isr, todo, ipiVars>>

-----------------------------------------------------------------------------
(* Interrupts *)

\* The interrupt of a device, whose handler may resume threads.
DeviceIrq(c) ==
    /\ InThread(c)
    /\ isr' = [isr EXCEPT ![c] = "device"]
    /\ UNCHANGED <<stat, oncpu, atSched, current, table, group, switchFlag, sec, task, loaded, todo, ipiVars>>

\* IRQ_M_SOFT
SoftIrq(c) ==
    /\ InThread(c) /\ msip[c]
    /\ isr' = [isr EXCEPT ![c] = "soft"]
    /\ UNCHANGED <<stat, oncpu, atSched, current, table, group, switchFlag, sec, task, loaded, todo, ipiVars>>

\* switch (self_cpu->ipi_type): rt_schedule() in an interrupt sets irq_switch_flag.
SoftServe(c) ==
    /\ isr[c] = "soft"
    /\ switchFlag' = [switchFlag EXCEPT ![c] = @ \/ ipiType[c] = "reschedule"]
    /\ isr' = [isr EXCEPT ![c] = "served"]
    /\ UNCHANGED <<stat, oncpu, atSched, current, table, group, sec, task, loaded, todo, ipiVars>>

\* clint_ipi_clear(rt_hw_cpu_id());
SoftClear(c) ==
    /\ isr[c] = "served"
    /\ msip' = [msip EXCEPT ![c] = FALSE]
    /\ isr' = [isr EXCEPT ![c] = "leave"]
    /\ UNCHANGED <<stat, oncpu, atSched, current, table, group, switchFlag, sec, task, loaded, todo, ipiType, unheard>>

\* rt_interrupt_leave; rt_scheduler_do_irq_switch if irq_switch_flag is set.
IrqLeave(c) ==
    /\ sec[c] = "none" /\ isr[c] \in {"device", "leave"}
    /\ isr' = [isr EXCEPT ![c] = "none"]
    /\ switchFlag' = [switchFlag EXCEPT ![c] = FALSE]
    /\ IF switchFlag[c] THEN Goto(c, "pick") ELSE UNCHANGED sec
    /\ UNCHANGED <<stat, oncpu, atSched, current, table, group, task, loaded, todo, ipiVars>>

CrossNext ==
    \E c \in Cores :
        \/ SuspendLoad(c) \/ SuspendStore(c) \/ SuspendDone(c)
        \/ \E t \in Tasks : ResumeBegin(c, t)
        \/ InsertTest(c) \/ InsertReady(c) \/ InsertRunning(c) \/ InsertLoad(c) \/ InsertStore(c) \/ InsertLink(c)
        \/ SendRound(c) \/ SendDone(c)
        \/ Schedule(c) \/ Pick(c) \/ Decide(c)
        \/ DeviceIrq(c) \/ SoftIrq(c) \/ SoftServe(c) \/ SoftClear(c) \/ IrqLeave(c)

CrossSpec == CrossInit /\ [][CrossNext]_crossVars

-----------------------------------------------------------------------------
(* Properties *)

CrossTypeOK ==
    /\ stat \in [Tasks -> {"RUNNING", "READY", "SUSPEND"}]
    /\ oncpu \in [Tasks -> BOOLEAN] /\ atSched \in [Tasks -> BOOLEAN]
    /\ current \in [Cores -> Tasks]
    /\ \A c \in Cores : \A p \in Urgencies : table[c][p] \in Seq(Tasks)
    /\ group \in [Cores -> SUBSET Urgencies]
    /\ switchFlag \in [Cores -> BOOLEAN] /\ msip \in [Cores -> BOOLEAN]
    /\ unheard \in [Cores -> BOOLEAN]
    /\ isr \in [Cores -> {"none", "device", "soft", "served", "leave"}]
    /\ sec \in [Cores -> {"none", "drop", "suspend", "test", "mark", "ready", "load", "store",
                          "link", "send", "pick", "decide", "wild"}]
    /\ task \in [Cores -> Tasks \cup {Nobody}]
    /\ loaded \in [Cores -> SUBSET Urgencies] /\ todo \in [Cores -> SUBSET Cores]
    /\ ipiType \in [Cores -> {"none", "reschedule"}]

\* The cores inside a section of the scheduler; sending the interrupt needs no lock.
InSection == {c \in Cores : sec[c] \notin {"none", "send"}}

\* "This function will resume a thread and put it to system ready queue": whenever
\* no section is under way a resumed thread has its core, or waits where the bit of
\* its priority leads to it.
WakeUpKept ==
    InSection = {} =>
        \A t \in Tasks : stat[t] # "SUSPEND" =>
            \/ current[Home[t]] = t
            \/ Urgency[t] \in group[Home[t]] /\ t \in ToSet(table[Home[t]][Urgency[t]])

\* Besides, the ready queue of each core holds its READY threads, once each, and
\* nothing else: a thread that is resumed between its suspension and its switch is
\* not queued while it still has its core, and a core that schedules finds a thread
\* wherever a bit leads it.
WakeUpExact ==
    /\ WakeUpKept
    /\ \A c \in Cores : sec[c] # "wild"
    /\ InSection = {} =>
        /\ \A t \in Tasks :
              LET list == table[Home[t]][Urgency[t]]
              IN  /\ stat[t] = "RUNNING" => current[Home[t]] = t
                  /\ stat[t] = "READY" <=> t \in ToSet(list)
                  /\ IsInjective(list)
        /\ \A c \in Cores : group[c] = {p \in Urgencies : table[c][p] # <<>>}

\* A core does not go on with a less urgent thread than one that was made ready for
\* it, although each core that sends an interrupt clears the ipi_type of the others,
\* its own included: while it does, the interrupt that makes it schedule is pending
\* and says so, or it is about to schedule anyway.  The exception is an interrupt
\* that comes between the look at ipi_type and clint_ipi_clear, when the look found
\* no reschedule: it is cleared unseen, and lost until the core schedules again.
RescheduleServed ==
    \A c \in Cores :
        InThread(c) /\ ~atSched[current[c]] /\ (\A other \in Cores : sec[other] = "none") =>
            \A p \in group[c] : p < Urgency[current[c]] =>
                unheard[c] \/ (msip[c] /\ ipiType[c] = "reschedule")

\* The sections of two cores do not overlap.
Apart == Cardinality(InSection) <= 1
=============================================================================
