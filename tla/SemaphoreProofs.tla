---------------------------- MODULE SemaphoreProofs ----------------------------
(***************************************************************************)
(* Proofs about module Semaphore, for every finite set of threads, every set *)
(* of cores, every binding, all priorities and all values.                  *)
(***************************************************************************)
EXTENDS Semaphore, IpcObjectProofs, FiniteSetTheorems

InSection == {"take", "release", "first", "resume", "wake", "reset", "resetpop", "setvalue"}

\* The thread inside a section is the one that disabled its core's interrupts.
Sections == \A t \in Threads : pc[t] \in InSection => irqoff[Bind[t]] = t

\* What needs no condition: the waiting threads are those in rt_sem_take, and a
\* release resumes one of them.
Base ==
    /\ TypeOK /\ SuspendedIsLinked /\ Sections
    /\ \A t \in Threads : stat[t] = "SUSPEND" => pc[t] = "wait"
    /\ \A t \in Threads : pc[t] \in {"resume", "wake"} => target[t] \in Threads

LEMMA InitBase == Init => Base
<1> SUFFICES ASSUME Init PROVE Base
  OBVIOUS
<1>1. IpcTypeOK /\ SuspendedIsLinked
  BY IpcInitLinked DEF Init
<1>2. TypeOK
  BY <1>1, SemAssumption DEF Init, TypeOK, Labels
<1> QED
  BY <1>1, <1>2 DEF Init, IpcInit, Base, Sections, InSection

-----------------------------------------------------------------------------
(* Each step, without a condition *)

\* The beginning of an operation.
LEMMA CallBase ==
    ASSUME Base, NEW t \in Threads, Calls(t)
    PROVE  /\ Base' /\ UNCHANGED <<stat, error, timer, queue, expired, value, spin, alive, target>>
           /\ pc[t] = "idle" /\ OnCpu(t)
           /\ \E label \in {"take", "release", "reset", "detach"} : pc' = [pc EXCEPT ![t] = label]
<1>1. /\ UNCHANGED <<stat, error, timer, queue, expired, value, spin, alive, target>>
      /\ pc[t] = "idle" /\ OnCpu(t)
      /\ wait' \in [Threads -> {"no", "timed", "forever"}]
      /\ \/ DisableIrq(t) /\ \E label \in {"take", "release", "reset"} : pc' = [pc EXCEPT ![t] = label]
         \/ irqoff' = irqoff /\ pc' = [pc EXCEPT ![t] = "detach"]
  <2>1. CASE ReleaseCall(t)
    BY <2>1 DEF ReleaseCall, Starts, Goto, Base, TypeOK
  <2>2. CASE \E time \in Waits : TakeCall(t, time)
    BY <2>2, SemAssumption DEF TakeCall, Starts, Goto, Base, TypeOK
  <2>3. CASE ResetCall(t)
    BY <2>3 DEF ResetCall, Starts, Goto, Base, TypeOK
  <2>4. CASE DetachCall(t)
    BY <2>4 DEF DetachCall, Starts, Goto, Base, TypeOK, ipcVars
  <2> QED
    BY <2>1, <2>2, <2>3, <2>4 DEF Calls
<1>2. /\ Bind[t] \in Cpus /\ irqoff' \in [Cpus -> Threads \cup {Nobody}]
      /\ pc \in [Threads -> Labels] /\ pc' \in [Threads -> Labels]
  <2>1. Bind[t] \in Cpus /\ irqoff \in [Cpus -> Threads \cup {Nobody}] /\ pc \in [Threads -> Labels]
    BY IpcAssumption DEF Base, TypeOK, IpcTypeOK
  <2>2. irqoff' \in [Cpus -> Threads \cup {Nobody}]
    BY <1>1, <2>1 DEF DisableIrq
  <2>3. PICK label \in {"take", "release", "reset", "detach"} : pc' = [pc EXCEPT ![t] = label]
    BY <1>1
  <2>4. label \in Labels
    BY DEF Labels
  <2> QED
    BY <2>1, <2>2, <2>3, <2>4
<1>3. TypeOK'
  BY <1>1, <1>2 DEF Base, TypeOK, IpcTypeOK
<1>4. SuspendedIsLinked'
  BY <1>1 DEF Base, SuspendedIsLinked
<1>5. Sections'
  BY <1>1, <1>2, IpcAssumption
     DEF Base, Sections, InSection, DisableIrq, OnCpu, TypeOK, IpcTypeOK
<1>6. PICK label \in {"take", "release", "reset", "detach"} : pc' = [pc EXCEPT ![t] = label]
  BY <1>1
<1>7. \A u \in Threads : pc'[u] = IF u = t THEN label ELSE pc[u]
  BY <1>2, <1>6
<1>8. /\ \A u \in Threads : stat'[u] = "SUSPEND" => pc'[u] = "wait"
      /\ \A u \in Threads : pc'[u] \in {"resume", "wake"} => target'[u] \in Threads
  BY <1>1, <1>6, <1>7 DEF Base
<1> QED
  BY <1>1, <1>3, <1>4, <1>5, <1>6, <1>8 DEF Base

\* rt_sem_take with the spinlock: it takes a token, gives up, or starts to wait.
LEMMA TakeSectionBase ==
    ASSUME Base, NEW t \in Threads, TakeSection(t)
    PROVE  /\ Base' /\ pc[t] = "take" /\ stat[t] = "RUN" /\ OnCpu(t) /\ spin = Nobody
           /\ EnableIrq(t) /\ wait' = [wait EXCEPT ![t] = "no"]
           /\ UNCHANGED <<expired, spin, alive, target>>
           /\ \/ /\ UNCHANGED <<stat, error, timer, queue>> /\ pc' = [pc EXCEPT ![t] = "idle"]
                 /\ value > 0 /\ value' = value - 1
              \/ /\ UNCHANGED <<stat, error, timer, queue>> /\ pc' = [pc EXCEPT ![t] = "idle"]
                 /\ value' = value
              \/ /\ value = 0 /\ value' = 0 /\ pc' = [pc EXCEPT ![t] = "wait"]
                 /\ stat' = [stat EXCEPT ![t] = "SUSPEND"] /\ error' = [error EXCEPT ![t] = "EOK"]
                 /\ timer' = [timer EXCEPT ![t] = (wait[t] = "timed")]
                 /\ ToSet(Waiters') = ToSet(Waiters) \cup {t}
<1>1. /\ pc[t] = "take" /\ OnCpu(t) /\ spin = Nobody /\ EnableIrq(t)
      /\ wait' = [wait EXCEPT ![t] = "no"] /\ UNCHANGED <<expired, spin, alive, target>>
  BY DEF TakeSection
<1>2. stat[t] = "RUN"
  BY <1>1 DEF Base, TypeOK, IpcTypeOK
<1>3. /\ value \in 0..ValueMax /\ ValueMax \in Nat /\ pc \in [Threads -> Labels]
      /\ irqoff' \in [Cpus -> Threads \cup {Nobody}]
      /\ wait' \in [Threads -> {"no", "timed", "forever"}]
  BY <1>1, SemAssumption DEF Base, TypeOK, IpcTypeOK, EnableIrq
<1>4. ASSUME NEW label \in {"idle", "wait"}, pc' = [pc EXCEPT ![t] = label]
      PROVE  /\ pc' \in [Threads -> Labels] /\ Sections'
             /\ \A u \in Threads : pc'[u] = IF u = t THEN label ELSE pc[u]
             /\ \A u \in Threads : pc'[u] \in {"resume", "wake"} => target'[u] \in Threads
  <2>1. /\ pc' \in [Threads -> Labels]
        /\ \A u \in Threads : pc'[u] = IF u = t THEN label ELSE pc[u]
    BY <1>3, <1>4 DEF Labels
  <2>2. Sections'
    BY <1>1, <1>3, <1>4, <2>1, IpcAssumption
       DEF Base, Sections, InSection, EnableIrq, OnCpu, TypeOK, IpcTypeOK
  <2>3. \A u \in Threads : pc'[u] \in {"resume", "wake"} => target'[u] \in Threads
    BY <1>1, <1>4, <2>1 DEF Base
  <2> QED
    BY <2>1, <2>2, <2>3
<1>5. CASE \/ /\ UNCHANGED <<stat, error, timer, queue>> /\ pc' = [pc EXCEPT ![t] = "idle"]
              /\ value > 0 /\ value' = value - 1
           \/ /\ UNCHANGED <<stat, error, timer, queue>> /\ pc' = [pc EXCEPT ![t] = "idle"]
              /\ value' = value
  <2>1. value' \in 0..ValueMax
    BY <1>3, <1>5
  <2>2. /\ UNCHANGED <<stat, error, timer, queue>> /\ pc' \in [Threads -> Labels] /\ Sections'
        /\ \A u \in Threads : pc'[u] = IF u = t THEN "idle" ELSE pc[u]
        /\ \A u \in Threads : pc'[u] \in {"resume", "wake"} => target'[u] \in Threads
    BY <1>4, <1>5
  <2>3. TypeOK' /\ SuspendedIsLinked'
    BY <1>1, <1>3, <2>1, <2>2 DEF Base, TypeOK, IpcTypeOK, SuspendedIsLinked
  <2>4. \A u \in Threads : stat'[u] = "SUSPEND" => pc'[u] = "wait"
    BY <1>1, <1>2, <2>2 DEF Base
  <2> QED
    BY <1>1, <1>2, <1>5, <2>2, <2>3, <2>4 DEF Base
<1>6. CASE /\ value = 0 /\ value' = value /\ pc' = [pc EXCEPT ![t] = "wait"]
           /\ error' = [error EXCEPT ![t] = "EOK"]
           /\ ListSuspend(t, "sem", Flag, Prio, wait[t] = "timed")
  <2> DEFINE p == Place(Unlink(queue, t)["sem"], t, Flag, Prio)
             timed == wait[t] = "timed"
  <2>1. /\ stat' = [stat EXCEPT ![t] = "SUSPEND"] /\ timer' = [timer EXCEPT ![t] = timed]
        /\ queue' = [Unlink(queue, t) EXCEPT !["sem"] = p] /\ timed \in BOOLEAN
        /\ "sem" \in Lists /\ IpcTypeOK /\ SuspendedIsLinked
    BY <1>6, SemAssumption DEF ListSuspend, Base, TypeOK
  <2>2. p \in Seq(Threads) /\ ToSet(p) = ToSet(queue["sem"]) \cup {t} /\ IsInjective(p)
    BY <1>2, <2>1, PlaceUnlinked
  <2> HIDE DEF p, timed
  <2>3. /\ queue' \in [Lists -> Seq(Threads)] /\ SuspendedIsLinked'
        /\ ToSet(queue'["sem"]) = ToSet(queue["sem"]) \cup {t}
    BY <1>2, <1>6, <2>1, <2>2, ListSuspendLinks
  <2> QED
    BY <1>1, <1>2, <1>3, <1>4, <1>6, <2>1, <2>3 DEF Base, TypeOK, IpcTypeOK, Errors, Waiters, timed
<1> QED
  BY <1>5, <1>6 DEF TakeSection, Goto

\* Where a step of an operation leads, and what it makes of the interrupt mask.
LEMMA GotoBase ==
    ASSUME Base, NEW t \in Threads, NEW label \in Labels, OnCpu(t), pc' = [pc EXCEPT ![t] = label],
           \/ irqoff' = irqoff /\ (label \in InSection => pc[t] \in InSection)
           \/ EnableIrq(t) /\ label \notin InSection
    PROVE  /\ pc' \in [Threads -> Labels] /\ irqoff' \in [Cpus -> Threads \cup {Nobody}]
           /\ \A u \in Threads : pc'[u] = IF u = t THEN label ELSE pc[u]
           /\ Sections'
<1>1. /\ pc \in [Threads -> Labels] /\ irqoff \in [Cpus -> Threads \cup {Nobody}]
      /\ Bind \in [Threads -> Cpus] /\ Nobody \notin Threads
  BY IpcAssumption DEF Base, TypeOK, IpcTypeOK
<1>2. /\ pc' \in [Threads -> Labels] /\ irqoff' \in [Cpus -> Threads \cup {Nobody}]
      /\ \A u \in Threads : pc'[u] = IF u = t THEN label ELSE pc[u]
  BY <1>1 DEF EnableIrq
<1>3. Sections'
  <2>1. CASE irqoff' = irqoff /\ (label \in InSection => pc[t] \in InSection)
    BY <1>2, <2>1 DEF Base, Sections
  <2>2. CASE EnableIrq(t) /\ label \notin InSection
    <3> SUFFICES ASSUME NEW u \in Threads, pc'[u] \in InSection PROVE irqoff'[Bind[u]] = u
      BY DEF Sections
    <3>1. u # t /\ pc[u] \in InSection
      BY <1>2, <2>2
    <3>2. irqoff[Bind[u]] = u
      BY <3>1 DEF Base, Sections
    <3>3. Bind[u] # Bind[t]
      BY <1>1, <3>1, <3>2 DEF OnCpu
    <3> QED
      BY <1>1, <2>2, <3>2, <3>3 DEF EnableIrq
  <2> QED
    BY <2>1, <2>2
<1> QED
  BY <1>2, <1>3

\* The steps that wake nobody and let nobody wait.
LEMMA QuietBase ==
    ASSUME Base, NEW t \in Threads, NEW label \in Labels, OnCpu(t), pc' = [pc EXCEPT ![t] = label],
           \/ irqoff' = irqoff /\ (label \in InSection => pc[t] \in InSection)
           \/ EnableIrq(t) /\ label \notin InSection,
           UNCHANGED <<stat, error, timer, queue, expired, wait>>,
           stat[t] = "RUN", value' \in 0..ValueMax, spin' \in Threads \cup {Nobody},
           alive' \in BOOLEAN, target' \in [Threads -> Threads \cup {Nobody}],
           \A u \in Threads \ {t} : target'[u] = target[u],
           label \in {"resume", "wake"} => target'[t] \in Threads
    PROVE  Base'
<1>1. /\ pc' \in [Threads -> Labels] /\ irqoff' \in [Cpus -> Threads \cup {Nobody}]
      /\ \A u \in Threads : pc'[u] = IF u = t THEN label ELSE pc[u]
      /\ Sections'
  BY GotoBase
<1>2. TypeOK' /\ SuspendedIsLinked'
  BY <1>1 DEF Base, TypeOK, IpcTypeOK, SuspendedIsLinked
<1>3. /\ \A u \in Threads : stat'[u] = "SUSPEND" => pc'[u] = "wait"
      /\ \A u \in Threads : pc'[u] \in {"resume", "wake"} => target'[u] \in Threads
  BY <1>1 DEF Base
<1> QED
  BY <1>1, <1>2, <1>3 DEF Base

\* rt_sem_take returns, rt_sem_release counts or finds a waiter, a loop of
\* _ipc_list_resume_all goes on or ends, a reset or a detach ends.
LEMMA QuietSteps ==
    ASSUME Base, NEW t \in Threads,
           \/ TakeReturn(t) \/ ReleaseSection(t) \/ ReleaseFirst(t) \/ ResumeTest(t)
           \/ ResetValue(t) \/ DetachObject(t)
           \/ ResumeAllTest(t, "reset", "resetpop") \/ ResumeAllDone(t, "reset", "setvalue")
           \/ ResumeAllTest(t, "detach", "detachpop") \/ ResumeAllDone(t, "detach", "detached")
    PROVE  Base' /\ OnCpu(t) /\ UNCHANGED <<stat, error, timer, queue, expired, wait>>
<1> USE DEF Goto, ipcVars
<1>1. /\ value \in 0..ValueMax /\ ValueMax \in Nat /\ ResetValues \subseteq 0..ValueMax
      /\ spin \in Threads \cup {Nobody} /\ alive \in BOOLEAN
      /\ target \in [Threads -> Threads \cup {Nobody}] /\ queue["sem"] \in Seq(Threads)
  BY SemAssumption DEF Base, TypeOK, IpcTypeOK
<1>2. stat[t] # "RUN" => pc[t] = "wait"
  BY DEF Base, TypeOK, IpcTypeOK
<1>3. CASE TakeReturn(t)
  <2>1. "idle" \in Labels
    BY DEF Labels
  <2> QED
    BY <1>1, <1>2, <1>3, <2>1, QuietBase DEF TakeReturn, InSection
<1>4. CASE ReleaseSection(t)
  <2>1. "idle" \in Labels /\ "first" \in Labels
    BY DEF Labels
  <2>2. /\ pc[t] = "release" /\ OnCpu(t)
        /\ UNCHANGED <<stat, error, timer, queue, expired, alive, wait, target>>
    BY <1>4 DEF ReleaseSection
  <2>3. CASE /\ spin' = t /\ pc' = [pc EXCEPT ![t] = "first"] /\ UNCHANGED <<irqoff, value>>
    BY <1>1, <1>2, <2>1, <2>2, <2>3, QuietBase DEF InSection
  <2>4. CASE /\ value' = IF value < ValueMax THEN value + 1 ELSE value
             /\ EnableIrq(t) /\ pc' = [pc EXCEPT ![t] = "idle"] /\ UNCHANGED spin
    <3>1. value' \in 0..ValueMax
      BY <1>1, <2>4
    <3> QED
      BY <1>1, <1>2, <2>1, <2>2, <2>4, <3>1, QuietBase DEF InSection
  <2> QED
    BY <1>4, <2>2, <2>3, <2>4 DEF ReleaseSection
<1>5. CASE ResumeTest(t)
  <2>1. "idle" \in Labels /\ "wake" \in Labels
    BY DEF Labels
  <2>2. pc[t] = "resume" /\ OnCpu(t) /\ UNCHANGED <<stat, error, timer, queue, expired, value, alive, wait>>
    BY <1>5 DEF ResumeTest
  <2>3. CASE pc' = [pc EXCEPT ![t] = "wake"] /\ UNCHANGED <<spin, irqoff, target>>
    <3>1. target'[t] \in Threads
      BY <2>2, <2>3 DEF Base
    <3> QED
      BY <1>1, <1>2, <2>1, <2>2, <2>3, <3>1, QuietBase DEF InSection
  <2>4. CASE /\ spin' = Nobody /\ EnableIrq(t) /\ pc' = [pc EXCEPT ![t] = "idle"]
             /\ target' = [target EXCEPT ![t] = Nobody]
    <3>1. /\ target' \in [Threads -> Threads \cup {Nobody}]
          /\ \A u \in Threads \ {t} : target'[u] = target[u]
      BY <1>1, <2>4
    <3> QED
      BY <1>1, <1>2, <2>1, <2>2, <2>4, <3>1, QuietBase DEF InSection
  <2> QED
    BY <1>5, <2>2, <2>3, <2>4 DEF ResumeTest
<1>6. CASE ResetValue(t)
  <2>1. "idle" \in Labels
    BY DEF Labels
  <2>2. value' \in 0..ValueMax
    BY <1>1, <1>6 DEF ResetValue
  <2> QED
    BY <1>1, <1>2, <1>6, <2>1, <2>2, QuietBase DEF ResetValue, InSection
<1>7. CASE DetachObject(t)
  <2>1. "idle" \in Labels
    BY DEF Labels
  <2> QED
    BY <1>1, <1>2, <1>7, <2>1, QuietBase DEF DetachObject, InSection
<1>8. ASSUME NEW label \in {"reset", "detach"}, NEW next \in {"resetpop", "setvalue", "detachpop", "detached"},
             next \in {"resetpop", "setvalue"} => label = "reset",
             ResumeAllTest(t, label, next) \/ ResumeAllDone(t, label, next)
      PROVE  Base' /\ OnCpu(t) /\ UNCHANGED <<stat, error, timer, queue, expired, wait>>
  <2>1. next \in Labels
    BY DEF Labels
  <2>2. /\ OnCpu(t) /\ pc[t] = label /\ pc' = [pc EXCEPT ![t] = next]
        /\ UNCHANGED <<ipcVars, value, spin, alive, wait, target>>
    BY <1>8 DEF ResumeAllTest, ResumeAllDone
  <2>3. next \in InSection => pc[t] \in InSection
    BY <1>8, <2>2 DEF InSection
  <2>4. next \notin {"resume", "wake"} /\ label # "wait"
    OBVIOUS
  <2> QED
    BY <1>1, <1>2, <2>1, <2>2, <2>3, <2>4, QuietBase
<1>9. CASE ReleaseFirst(t)
  <2>1. "resume" \in Labels
    BY DEF Labels
  <2>2. /\ pc[t] = "first" /\ OnCpu(t) /\ Waiters # <<>> /\ pc' = [pc EXCEPT ![t] = "resume"]
        /\ target' = [target EXCEPT ![t] = Head(Waiters)]
        /\ UNCHANGED <<stat, error, timer, queue, irqoff, expired, value, spin, alive, wait>>
    BY <1>9 DEF ReleaseFirst
  <2>3. Head(Waiters) \in Threads
    BY <1>1, <2>2, HeadProperties DEF Waiters
  <2>4. /\ target' \in [Threads -> Threads \cup {Nobody}] /\ target'[t] \in Threads
        /\ \A u \in Threads \ {t} : target'[u] = target[u]
    BY <1>1, <2>2, <2>3
  <2> QED
    BY <1>1, <1>2, <2>1, <2>2, <2>4, QuietBase DEF InSection
<1> QED
  BY <1>3, <1>4, <1>5, <1>6, <1>7, <1>8, <1>9

\* rt_sem_release makes its waiter ready.
LEMMA ResumeWakeBase ==
    ASSUME Base, NEW t \in Threads, ResumeWake(t)
    PROVE  /\ Base' /\ OnCpu(t) /\ target[t] \in Threads
           /\ stat' = [stat EXCEPT ![target[t]] = "RUN"]
           /\ timer' = [timer EXCEPT ![target[t]] = FALSE]
           /\ ToSet(Waiters') = ToSet(Waiters) \ {target[t]}
<1> DEFINE w == target[t]
<1>1. /\ OnCpu(t) /\ pc[t] = "wake" /\ WakeUp(w) /\ EnableIrq(t)
      /\ spin' = Nobody /\ pc' = [pc EXCEPT ![t] = "idle"]
      /\ target' = [target EXCEPT ![t] = Nobody] /\ UNCHANGED <<error, expired, value, alive, wait>>
  BY DEF ResumeWake, Goto
<1>2. w \in Threads /\ IpcTypeOK /\ SuspendedIsLinked /\ "sem" \in Lists
  BY <1>1, SemAssumption DEF Base, TypeOK
<1> HIDE DEF w
<1>3. "idle" \in Labels /\ "idle" \notin InSection
  BY DEF Labels, InSection
<1>4. /\ pc' \in [Threads -> Labels] /\ irqoff' \in [Cpus -> Threads \cup {Nobody}]
      /\ \A u \in Threads : pc'[u] = IF u = t THEN "idle" ELSE pc[u]
      /\ Sections'
  BY <1>1, <1>3, GotoBase
<1>5. /\ stat' = [stat EXCEPT ![w] = "RUN"] /\ timer' = [timer EXCEPT ![w] = FALSE]
      /\ queue' = Unlink(queue, w)
  BY <1>1 DEF WakeUp
<1>6. /\ queue' \in [Lists -> Seq(Threads)] /\ SuspendedIsLinked'
      /\ ToSet(queue'["sem"]) = ToSet(queue["sem"]) \ {w}
  BY <1>2, <1>5, RunUnlinks
<1>7. TypeOK'
  BY <1>1, <1>4, <1>5, <1>6 DEF Base, TypeOK, IpcTypeOK
<1>8. /\ \A u \in Threads : stat'[u] = "SUSPEND" => stat[u] = "SUSPEND"
      /\ stat[t] = "RUN"
  BY <1>1, <1>2, <1>5 DEF Base, TypeOK, IpcTypeOK
<1>9. /\ \A u \in Threads : stat'[u] = "SUSPEND" => pc'[u] = "wait"
      /\ \A u \in Threads : pc'[u] \in {"resume", "wake"} => target'[u] \in Threads
  BY <1>1, <1>4, <1>8 DEF Base, TypeOK
<1> QED
  BY <1>1, <1>2, <1>4, <1>5, <1>6, <1>7, <1>9 DEF Base, Waiters, w

\* A round of _ipc_list_resume_all makes the first waiter ready.
LEMMA ResumeAllPopBase ==
    ASSUME Base, NEW t \in Threads, NEW label \in {"reset", "detach"},
           NEW popLabel \in {"resetpop", "detachpop"}, label = "reset" => popLabel = "resetpop",
           ResumeAllPop(t, label, popLabel)
    PROVE  /\ Base' /\ OnCpu(t) /\ Waiters # <<>> /\ Head(Waiters) \in Threads
           /\ stat[Head(Waiters)] = "SUSPEND"
           /\ stat' = [stat EXCEPT ![Head(Waiters)] = "RUN"]
           /\ error' = [error EXCEPT ![Head(Waiters)] = "ERROR"]
           /\ timer' = [timer EXCEPT ![Head(Waiters)] = FALSE]
           /\ ToSet(Waiters') = ToSet(Waiters) \ {Head(Waiters)}
<1> DEFINE h == Head(queue["sem"])
<1>1. /\ OnCpu(t) /\ pc[t] = popLabel /\ queue["sem"] # <<>> /\ ThreadResume(h)
      /\ error' = [error EXCEPT ![h] = "ERROR"] /\ pc' = [pc EXCEPT ![t] = label]
      /\ UNCHANGED <<irqoff, expired, value, spin, alive, wait, target>>
  BY DEF ResumeAllPop, Goto, Waiters
<1>2. IpcTypeOK /\ SuspendedIsLinked /\ "sem" \in Lists
  BY SemAssumption DEF Base, TypeOK
<1>3. h \in Threads /\ stat[h] = "SUSPEND"
  BY <1>1, <1>2, HeadSuspended
<1>4. label \in Labels /\ (label \in InSection => popLabel \in InSection)
  BY DEF Labels, InSection
<1>5. /\ pc' \in [Threads -> Labels] /\ Sections'
      /\ \A u \in Threads : pc'[u] = IF u = t THEN label ELSE pc[u]
  BY <1>1, <1>4, GotoBase
<1>6. error' \in [Threads -> Errors]
  BY <1>1, <1>2 DEF IpcTypeOK, Errors
<1>7. /\ IpcTypeOK' /\ SuspendedIsLinked' /\ stat' = [stat EXCEPT ![h] = "RUN"]
      /\ ToSet(queue'["sem"]) = ToSet(queue["sem"]) \ {h}
  BY <1>1, <1>2, <1>6, HeadResumed
<1>8. timer' = [timer EXCEPT ![h] = FALSE]
  BY <1>1, <1>3 DEF ThreadResume, WakeUp
<1> HIDE DEF h
<1>9. TypeOK'
  BY <1>1, <1>5, <1>7 DEF Base, TypeOK
<1>10. /\ \A u \in Threads : stat'[u] = "SUSPEND" => stat[u] = "SUSPEND"
       /\ stat[t] # "SUSPEND"
  BY <1>1, <1>2, <1>3, <1>7 DEF Base, IpcTypeOK
<1>11. /\ \A u \in Threads : stat'[u] = "SUSPEND" => pc'[u] = "wait"
       /\ \A u \in Threads : pc'[u] \in {"resume", "wake"} => target'[u] \in Threads
  BY <1>1, <1>5, <1>10 DEF Base
<1>12. Base'
  BY <1>5, <1>7, <1>9, <1>11 DEF Base
<1> QED
  BY <1>1, <1>3, <1>7, <1>8, <1>12 DEF Waiters, h

\* The two steps of a timeout.
LEMMA TimeoutBase ==
    ASSUME Base, NEW t \in Threads, NEW c \in Cpus, TimerExpires(c, t) \/ ThreadTimeout(c, t),
           UNCHANGED semVars
    PROVE  /\ Base'
           /\ \/ UNCHANGED <<stat, error, queue>>
              \/ /\ stat[t] = "SUSPEND" /\ stat' = [stat EXCEPT ![t] = "RUN"]
                 /\ error' = [error EXCEPT ![t] = "ETIMEOUT"]
                 /\ ToSet(Waiters') = ToSet(Waiters) \ {t}
<1>1. IpcTypeOK /\ SuspendedIsLinked /\ "sem" \in Lists
  BY SemAssumption DEF Base, TypeOK
<1>2. /\ IpcTypeOK' /\ SuspendedIsLinked'
      /\ \/ UNCHANGED <<stat, error, queue>>
         \/ /\ stat[t] = "SUSPEND" /\ stat' = [stat EXCEPT ![t] = "RUN"]
            /\ error' = [error EXCEPT ![t] = "ETIMEOUT"]
            /\ \A k \in Lists : ToSet(queue'[k]) = ToSet(queue[k]) \ {t}
  BY <1>1, TimeoutUnlinks
<1>3. UNCHANGED <<value, spin, alive, pc, wait, target, irqoff>>
  BY DEF semVars, TimerExpires, ThreadTimeout
<1>4. TypeOK' /\ Sections'
  BY <1>2, <1>3 DEF Base, TypeOK, Sections
<1>5. \A u \in Threads : stat'[u] = "SUSPEND" => stat[u] = "SUSPEND"
  BY <1>1, <1>2 DEF IpcTypeOK
<1>6. Base'
  BY <1>2, <1>3, <1>4, <1>5 DEF Base
<1> QED
  BY <1>1, <1>2, <1>6 DEF Waiters

LEMMA StutterBase ==
    ASSUME Base, UNCHANGED vars PROVE Base'
<1>1. UNCHANGED ipcVars /\ UNCHANGED semVars
  BY DEF vars
<1>2. TypeOK' /\ SuspendedIsLinked'
  BY <1>1 DEF ipcVars, semVars, Base, TypeOK, IpcTypeOK, SuspendedIsLinked
<1> QED
  BY <1>1, <1>2 DEF ipcVars, semVars, Base, Sections

LEMMA StepBase == Base /\ [Next]_vars => Base'
<1> SUFFICES ASSUME Base, [Next]_vars PROVE Base'
  OBVIOUS
<1>1. \A t \in Threads : Calls(t) => Base'
  BY CallBase
<1>2. \A t \in Threads : TakeSection(t) => Base'
  BY TakeSectionBase
<1>3. ASSUME NEW t \in Threads,
             \/ TakeReturn(t) \/ ReleaseSection(t) \/ ReleaseFirst(t) \/ ResumeTest(t)
             \/ ResetValue(t) \/ DetachObject(t)
             \/ ResumeAllTest(t, "reset", "resetpop") \/ ResumeAllDone(t, "reset", "setvalue")
             \/ ResumeAllTest(t, "detach", "detachpop") \/ ResumeAllDone(t, "detach", "detached")
      PROVE  Base'
  BY <1>3, QuietSteps
<1>4. \A t \in Threads : ResumeWake(t) => Base'
  BY ResumeWakeBase
<1>5. \A t \in Threads : ResumeAllPop(t, "reset", "resetpop") => Base'
  BY ResumeAllPopBase
<1>6. \A t \in Threads : ResumeAllPop(t, "detach", "detachpop") => Base'
  BY ResumeAllPopBase
<1>7. ASSUME NEW t \in Threads, NEW c \in Cpus, TimerExpires(c, t) \/ ThreadTimeout(c, t),
             UNCHANGED semVars
      PROVE  Base'
  BY <1>7, TimeoutBase
<1>8. UNCHANGED vars => Base'
  BY StutterBase
<1>9. CASE \E t \in Threads : Calls(t) \/ ThreadStep(t) \/ Timeout(t)
  BY <1>1, <1>2, <1>3, <1>4, <1>5, <1>6, <1>7, <1>9 DEF ThreadStep, Timeout
<1> QED
  BY <1>8, <1>9 DEF Next, Finished

LEMMA AlwaysBase == Spec => []Base
  BY InitBase, StepBase, PTL DEF Spec

\* Every field of the threads and of the semaphore keeps its type: sem->value stays
\* between 0 and RT_SEM_VALUE_MAX.
THEOREM SemaphoreTypeOK == Spec => []TypeOK
<1>1. Base => TypeOK
  BY DEF Base
<1> QED
  BY <1>1, AlwaysBase, PTL

\* Exactly the suspended threads are linked in the semaphore's list, each once, whatever
\* takes them out of it: rt_sem_release, _ipc_list_resume_all or their timeout.
THEOREM SemaphoreSuspendedIsLinked == Spec => []SuspendedIsLinked
<1>1. Base => SuspendedIsLinked
  BY DEF Base
<1> QED
  BY <1>1, AlwaysBase, PTL

-----------------------------------------------------------------------------
(* Where the threads are: who holds the spinlock, what a detach excludes *)

Detaches == {"detach", "detachpop", "detached"}

Phases ==
    /\ \A t \in Threads : pc[t] \in {"first", "resume", "wake"} <=> spin = t
    /\ \A t \in Threads : pc[t] \in Detaches => \A u \in Threads \ {t} : pc[u] \in {"idle", "wait"}
    /\ ~alive => \A t \in Threads : pc[t] \in {"idle", "wait"}
    /\ \A c \in Cpus : irqoff[c] # Nobody => expired[c] = Nobody
    /\ ResetValues = {} => \A t \in Threads : pc[t] \notin {"reset", "resetpop", "setvalue"}

\* A thread goes from one label to the next.
Move(t, label) ==
    /\ OnCpu(t) /\ expired' = expired /\ pc' = [pc EXCEPT ![t] = label]
    /\ irqoff' = irqoff \/ DisableIrq(t) \/ EnableIrq(t)
    /\ \/ /\ Starts(t) /\ UNCHANGED <<spin, alive>>
          /\ \/ label \in {"take", "release"}
             \/ label = "reset" /\ ResetValues # {}
             \/ label = "detach" /\ \A u \in Threads : pc[u] \in {"idle", "wait"}
       \/ pc[t] = "wait" /\ label = "idle" /\ UNCHANGED <<spin, alive>>
       \/ pc[t] = "take" /\ label \in {"idle", "wait"} /\ UNCHANGED <<spin, alive>>
       \/ pc[t] = "release" /\ label = "idle" /\ UNCHANGED <<spin, alive>>
       \/ pc[t] = "release" /\ label = "first" /\ spin = Nobody /\ spin' = t /\ UNCHANGED alive
       \/ pc[t] = "first" /\ label = "resume" /\ UNCHANGED <<spin, alive>>
       \/ pc[t] = "resume" /\ label = "wake" /\ UNCHANGED <<spin, alive>>
       \/ pc[t] \in {"resume", "wake"} /\ label = "idle" /\ spin' = Nobody /\ UNCHANGED alive
       \/ /\ pc[t] \in {"reset", "resetpop", "setvalue"}
          /\ label \in {"idle", "reset", "resetpop", "setvalue"} /\ UNCHANGED <<spin, alive>>
       \/ pc[t] \in Detaches /\ label \in Detaches /\ UNCHANGED <<spin, alive>>
       \/ pc[t] \in Detaches /\ label = "idle" /\ alive' = FALSE /\ UNCHANGED spin

\* Every step is one of these, of a timeout, or changes nothing.
LEMMA Moves ==
    ASSUME [Next]_vars
    PROVE  \/ \E t \in Threads, label \in Labels : Move(t, label)
           \/ \E t \in Threads, c \in Cpus :
                 (TimerExpires(c, t) \/ ThreadTimeout(c, t)) /\ UNCHANGED semVars
           \/ UNCHANGED vars
<1> USE DEF Goto, ipcVars
<1>1. ASSUME NEW t \in Threads, Calls(t) PROVE \E label \in Labels : Move(t, label)
  <2>1. CASE ReleaseCall(t)
    <3>1. Move(t, "release")
      BY <2>1 DEF ReleaseCall, Starts, Move
    <3> QED
      BY <3>1 DEF Labels
  <2>2. CASE \E time \in Waits : TakeCall(t, time)
    <3>1. Move(t, "take")
      BY <2>2 DEF TakeCall, Starts, Move
    <3> QED
      BY <3>1 DEF Labels
  <2>3. CASE ResetValues # {} /\ ResetCall(t)
    <3>1. Move(t, "reset")
      BY <2>3 DEF ResetCall, Starts, Move
    <3> QED
      BY <3>1 DEF Labels
  <2>4. CASE DetachCall(t)
    <3>1. Move(t, "detach")
      BY <2>4 DEF DetachCall, Starts, Move
    <3> QED
      BY <3>1 DEF Labels
  <2> QED
    BY <1>1, <2>1, <2>2, <2>3, <2>4 DEF Calls
<1>2. ASSUME NEW t \in Threads, ThreadStep(t) PROVE \E label \in Labels : Move(t, label)
  <2> USE DEF Detaches
  <2>1. TakeSection(t) => Move(t, "idle") \/ Move(t, "wait")
    BY DEF TakeSection, Move
  <2>2. TakeReturn(t) => Move(t, "idle")
    BY DEF TakeReturn, Move
  <2>3. /\ ReleaseSection(t) => Move(t, "idle") \/ Move(t, "first")
        /\ ReleaseFirst(t) => Move(t, "resume")
    BY DEF ReleaseSection, ReleaseFirst, Move
  <2>4. ResumeTest(t) => Move(t, "idle") \/ Move(t, "wake")
    BY DEF ResumeTest, Move
  <2>5. ResumeWake(t) => Move(t, "idle")
    BY DEF ResumeWake, Move
  <2>6. /\ ResumeAllTest(t, "reset", "resetpop") => Move(t, "resetpop")
        /\ ResumeAllDone(t, "reset", "setvalue") => Move(t, "setvalue")
        /\ ResumeAllTest(t, "detach", "detachpop") => Move(t, "detachpop")
        /\ ResumeAllDone(t, "detach", "detached") => Move(t, "detached")
    BY DEF ResumeAllTest, ResumeAllDone, Move
  <2>7. /\ ResumeAllPop(t, "reset", "resetpop") => Move(t, "reset")
        /\ ResumeAllPop(t, "detach", "detachpop") => Move(t, "detach")
    BY DEF ResumeAllPop, Move
  <2>8. ResetValue(t) => Move(t, "idle")
    BY DEF ResetValue, Move
  <2>9. DetachObject(t) => Move(t, "idle")
    BY DEF DetachObject, Move
  <2>10. \E label \in {"idle", "wait", "first", "resume", "wake", "resetpop", "setvalue", "detachpop",
                       "detached", "reset", "detach"} : Move(t, label)
    BY <1>2, <2>1, <2>2, <2>3, <2>4, <2>5, <2>6, <2>7, <2>8, <2>9 DEF ThreadStep
  <2> QED
    BY <2>10 DEF Labels
<1> QED
  BY <1>1, <1>2 DEF Next, Finished, Timeout

LEMMA StepPhases == Base /\ Phases /\ [Next]_vars => Phases'
<1> SUFFICES ASSUME Base, Phases, [Next]_vars PROVE Phases'
  OBVIOUS
<1>1. /\ pc \in [Threads -> Labels] /\ irqoff \in [Cpus -> Threads \cup {Nobody}]
      /\ expired \in [Cpus -> Threads \cup {Nobody}]
      /\ Bind \in [Threads -> Cpus] /\ Nobody \notin Threads
  BY IpcAssumption DEF Base, TypeOK, IpcTypeOK
<1>2. ASSUME NEW t \in Threads, NEW label \in Labels, Move(t, label) PROVE Phases'
  <2>1. \A u \in Threads : pc'[u] = IF u = t THEN label ELSE pc[u]
    BY <1>1, <1>2 DEF Move
  <2>2. \A u \in Threads : pc'[u] \in {"first", "resume", "wake"} <=> spin' = u
    BY <1>1, <1>2, <2>1 DEF Move, Starts, Phases, Detaches
  <2>3. \A u \in Threads : pc'[u] \in Detaches => \A v \in Threads \ {u} : pc'[v] \in {"idle", "wait"}
    <3> SUFFICES ASSUME NEW u \in Threads, pc'[u] \in Detaches, NEW v \in Threads \ {u}
                 PROVE  pc'[v] \in {"idle", "wait"}
      OBVIOUS
    <3>1. CASE u = t
      BY <1>2, <2>1, <3>1 DEF Move, Phases, Detaches
    <3>2. CASE u # t
      <4>1. pc[u] \in Detaches /\ pc[t] \in {"idle", "wait"} /\ pc[v] \in {"idle", "wait"}
        BY <2>1, <3>2 DEF Phases
      <4>2. label = "idle"
        BY <1>2, <3>2, <4>1 DEF Move, Starts, Detaches
      <4> QED
        BY <2>1, <4>1, <4>2
    <3> QED
      BY <3>1, <3>2
  <2>4. ~alive' => \A u \in Threads : pc'[u] \in {"idle", "wait"}
    <3>1. CASE ~alive
      BY <1>2, <2>1, <3>1 DEF Move, Starts, Phases, Detaches
    <3>2. CASE alive /\ ~alive'
      BY <1>2, <2>1, <3>2 DEF Move, Phases
    <3> QED
      BY <3>1, <3>2
  <2>5. \A c \in Cpus : irqoff'[c] # Nobody => expired'[c] = Nobody
    <3>1. expired' = expired /\ expired[Bind[t]] = Nobody /\ Bind[t] \in Cpus
      BY <1>1, <1>2 DEF Move, OnCpu
    <3>2. \A c \in Cpus : c # Bind[t] => irqoff'[c] = irqoff[c]
      BY <1>1, <1>2 DEF Move, DisableIrq, EnableIrq
    <3> QED
      BY <3>1, <3>2 DEF Phases
  <2>6. ResetValues = {} => \A u \in Threads : pc'[u] \notin {"reset", "resetpop", "setvalue"}
    BY <1>2, <2>1 DEF Move, Phases, Detaches
  <2> QED
    BY <2>2, <2>3, <2>4, <2>5, <2>6 DEF Phases
<1>3. ASSUME NEW t \in Threads, NEW c \in Cpus, TimerExpires(c, t) \/ ThreadTimeout(c, t),
             UNCHANGED semVars
      PROVE  Phases'
  <2>1. /\ UNCHANGED <<pc, spin, alive, irqoff>>
        /\ \/ expired' = [expired EXCEPT ![c] = t] /\ irqoff[c] = Nobody
           \/ expired' = [expired EXCEPT ![c] = Nobody]
    BY <1>3 DEF semVars, TimerExpires, ThreadTimeout
  <2>2. \A e \in Cpus : irqoff'[e] # Nobody => expired'[e] = Nobody
    BY <1>1, <2>1 DEF Phases
  <2> QED
    BY <2>1, <2>2 DEF Phases
<1>4. CASE UNCHANGED vars
  BY <1>4 DEF vars, ipcVars, semVars, Phases
<1> QED
  BY <1>2, <1>3, <1>4, Moves

LEMMA InitPhases == Init => Phases
  BY IpcAssumption DEF Init, IpcInit, Phases, Detaches
-----------------------------------------------------------------------------
(* No thread waits while there is a token *)

\* rt_sem_control(RT_IPC_CMD_RESET) empties the list and sets the value without the
\* spinlock: it is not used, or by threads of the one core that uses the semaphore.
ResetsAlone == ResetValues = {} \/ \A s, t \in Threads : Bind[s] = Bind[t]

\* A reset that is about to set the value has emptied the list.
Available ==
    /\ NoWaitWhileAvailable
    /\ \A t \in Threads : pc[t] = "setvalue" => Waiters = <<>>

\* Two threads of a core are not both inside sections.
LEMMA AloneInSection ==
    ASSUME Base, NEW s \in Threads, NEW t \in Threads, Bind[s] = Bind[t],
           pc[s] \in InSection, OnCpu(t)
    PROVE  s = t
  BY IpcAssumption DEF Base, Sections, OnCpu

\* A step that lets nobody wait and releases a token only if nobody waits.
LEMMA FewerWaiters ==
    ASSUME Base, Base', Available, ToSet(Waiters') \subseteq ToSet(Waiters),
           value' > 0 => value > 0 \/ Waiters = <<>>,
           \A t \in Threads : pc'[t] = "setvalue" => pc[t] = "setvalue" \/ Waiters = <<>>
    PROVE  Available'
<1>1. Waiters \in Seq(Threads) /\ Waiters' \in Seq(Threads)
  BY SemAssumption DEF Base, TypeOK, IpcTypeOK, Waiters
<1>2. (Waiters = <<>> <=> ToSet(Waiters) = {}) /\ (Waiters' = <<>> <=> ToSet(Waiters') = {})
  BY <1>1, EmptyProperties
<1> QED
  BY <1>2 DEF Available, NoWaitWhileAvailable

LEMMA StepAvailable ==
    ASSUME ResetsAlone, Base, Phases, Available, [Next]_vars PROVE Available'
<1> USE DEF Goto
<1>0. Base' /\ pc \in [Threads -> Labels] /\ value \in Int
  BY StepBase, SemAssumption DEF Base, TypeOK
<1>1. ASSUME NEW t \in Threads, Calls(t) PROVE Available'
  <2>1. /\ UNCHANGED <<queue, value>>
        /\ \E label \in {"take", "release", "reset", "detach"} : pc' = [pc EXCEPT ![t] = label]
    BY <1>1, CallBase
  <2>2. \A u \in Threads : pc'[u] = "setvalue" => pc[u] = "setvalue"
    BY <1>0, <2>1
  <2> QED
    BY <1>0, <2>1, <2>2, FewerWaiters DEF Waiters
<1>2. ASSUME NEW t \in Threads, TakeSection(t) PROVE Available'
  <2>1. /\ pc[t] = "take" /\ OnCpu(t)
        /\ pc' = [pc EXCEPT ![t] = "idle"] \/ pc' = [pc EXCEPT ![t] = "wait"]
    BY <1>2, TakeSectionBase
  <2>2. \A u \in Threads : pc'[u] = "setvalue" => pc[u] = "setvalue"
    BY <1>0, <2>1
  <2>3. CASE queue' = queue /\ (value' = value \/ value > 0)
    BY <1>0, <2>2, <2>3, FewerWaiters DEF Waiters
  <2>4. CASE value' = 0
    <3>1. \A u \in Threads : pc'[u] # "setvalue"
      <4> SUFFICES ASSUME NEW u \in Threads, pc[u] = "setvalue" PROVE FALSE
        BY <2>2
      <4>1. Bind[u] = Bind[t]
        BY DEF ResetsAlone, Phases
      <4>2. u = t
        BY <2>1, <4>1, AloneInSection DEF InSection
      <4> QED
        BY <2>1, <4>2
    <3> QED
      BY <2>4, <3>1 DEF Available, NoWaitWhileAvailable
  <2> QED
    BY <1>2, <2>3, <2>4, TakeSectionBase
<1>3. ASSUME NEW t \in Threads,
             \/ TakeReturn(t) \/ ReleaseSection(t) \/ ReleaseFirst(t) \/ ResumeTest(t)
             \/ ResetValue(t) \/ DetachObject(t)
             \/ ResumeAllTest(t, "reset", "resetpop") \/ ResumeAllDone(t, "reset", "setvalue")
             \/ ResumeAllTest(t, "detach", "detachpop") \/ ResumeAllDone(t, "detach", "detached")
      PROVE  Available'
  <2>1. queue' = queue
    BY <1>3, QuietSteps
  <2>2. value' > 0 => value > 0 \/ Waiters = <<>>
    BY <1>0, <1>3 DEF TakeReturn, ReleaseSection, ReleaseFirst, ResumeTest, ResetValue, DetachObject, ResumeAllTest,
                      ResumeAllDone, Available
  <2>3. \A u \in Threads : pc'[u] = "setvalue" => pc[u] = "setvalue" \/ Waiters = <<>>
    BY <1>0, <1>3 DEF TakeReturn, ReleaseSection, ReleaseFirst, ResumeTest, ResetValue, DetachObject, ResumeAllTest,
                      ResumeAllDone
  <2> QED
    BY <1>0, <2>1, <2>2, <2>3, FewerWaiters DEF Waiters
<1>4. ASSUME NEW t \in Threads, ResumeWake(t) PROVE Available'
  <2>1. UNCHANGED value /\ pc' = [pc EXCEPT ![t] = "idle"] /\ ToSet(Waiters') \subseteq ToSet(Waiters)
    BY <1>4, ResumeWakeBase DEF ResumeWake
  <2> QED
    BY <1>0, <2>1, FewerWaiters
<1>5. ASSUME NEW t \in Threads,
             \/ ResumeAllPop(t, "reset", "resetpop") \/ ResumeAllPop(t, "detach", "detachpop")
      PROVE  Available'
  <2>1. /\ UNCHANGED value /\ \A u \in Threads : pc'[u] = "setvalue" => pc[u] = "setvalue"
    BY <1>0, <1>5 DEF ResumeAllPop
  <2>2. ToSet(Waiters') \subseteq ToSet(Waiters)
    BY <1>5, ResumeAllPopBase
  <2> QED
    BY <1>0, <2>1, <2>2, FewerWaiters
<1>6. ASSUME NEW t \in Threads, NEW c \in Cpus, TimerExpires(c, t) \/ ThreadTimeout(c, t),
             UNCHANGED semVars
      PROVE  Available'
  <2>1. UNCHANGED <<value, pc>>
    BY <1>6 DEF semVars
  <2>2. ToSet(Waiters') \subseteq ToSet(Waiters)
    BY <1>6, TimeoutBase DEF Waiters
  <2> QED
    BY <1>0, <2>1, <2>2, FewerWaiters
<1>7. CASE UNCHANGED vars
  BY <1>0, <1>7, FewerWaiters DEF vars, ipcVars, semVars, Waiters
<1> QED
  BY <1>1, <1>2, <1>3, <1>4, <1>5, <1>6, <1>7 DEF Next, Finished, ThreadStep, Timeout

\* No thread waits while the value is positive: rt_sem_release looks for a waiter and
\* counts under the same spinlock as rt_sem_take tests the value and joins the list.
THEOREM SemaphoreNoWaitWhileAvailable == ASSUME ResetsAlone PROVE Spec => []NoWaitWhileAvailable
<1>1. Init => Available
  BY SemAssumption DEF Init, IpcInit, Available, NoWaitWhileAvailable, Waiters
<1>2. Base /\ Phases /\ Available /\ [Next]_vars => Base' /\ Phases' /\ Available'
  BY StepBase, StepPhases, StepAvailable
<1>3. Available => NoWaitWhileAvailable
  BY DEF Available
<1> QED
  BY <1>1, <1>2, <1>3, InitBase, InitPhases, PTL DEF Spec

-----------------------------------------------------------------------------
(* Nobody is left behind by _ipc_list_resume_all *)

\* No thread waits with a finite timeout.  A timeout between the test of the list and
\* the removal of its first thread, in a detach, would leave an empty list to resume.
Untimed == "timed" \notin Waits

NoTimers ==
    /\ \A t \in Threads : timer[t] = FALSE /\ wait[t] # "timed"
    /\ \A c \in Cpus : expired[c] = Nobody

LEMMA NoTimeout ==
    ASSUME NoTimers, NEW t \in Threads, NEW c \in Cpus, TimerExpires(c, t) \/ ThreadTimeout(c, t)
    PROVE  FALSE
  BY IpcAssumption DEF NoTimers, TimerExpires, ThreadTimeout

LEMMA StepNoTimers ==
    ASSUME Untimed, Base, NoTimers, [Next]_vars PROVE NoTimers'
<1>1. /\ timer \in [Threads -> BOOLEAN] /\ wait \in [Threads -> {"no", "timed", "forever"}]
      /\ "sem" \in Lists
  BY SemAssumption DEF Base, TypeOK, IpcTypeOK
<1>2. ASSUME NEW t \in Threads, Calls(t) PROVE NoTimers'
  <2>1. UNCHANGED <<timer, expired>>
    BY <1>2, CallBase
  <2>2. wait' = wait \/ \E time \in Waits : wait' = [wait EXCEPT ![t] = time]
    BY <1>2 DEF Calls, ReleaseCall, TakeCall, ResetCall, DetachCall
  <2> QED
    BY <1>1, <2>1, <2>2 DEF NoTimers, Untimed
<1>3. ASSUME NEW t \in Threads, TakeSection(t) PROVE NoTimers'
  <2>1. /\ timer' = timer \/ timer' = [timer EXCEPT ![t] = (wait[t] = "timed")]
        /\ wait' = [wait EXCEPT ![t] = "no"] /\ expired' = expired
    BY <1>3, TakeSectionBase
  <2>2. (wait[t] = "timed") = FALSE
    BY DEF NoTimers
  <2> QED
    BY <1>1, <2>1, <2>2 DEF NoTimers
<1>4. ASSUME NEW t \in Threads,
             \/ TakeReturn(t) \/ ReleaseSection(t) \/ ReleaseFirst(t) \/ ResumeTest(t)
             \/ ResetValue(t) \/ DetachObject(t)
             \/ ResumeAllTest(t, "reset", "resetpop") \/ ResumeAllDone(t, "reset", "setvalue")
             \/ ResumeAllTest(t, "detach", "detachpop") \/ ResumeAllDone(t, "detach", "detached")
      PROVE  NoTimers'
  BY <1>4, QuietSteps DEF NoTimers
<1>5. ASSUME NEW t \in Threads, NEW u \in Threads, timer' = [timer EXCEPT ![u] = FALSE],
             UNCHANGED <<expired, wait>>
      PROVE  NoTimers'
  BY <1>1, <1>5 DEF NoTimers
<1>6. ASSUME NEW t \in Threads, ResumeWake(t) PROVE NoTimers'
  BY <1>5, <1>6, ResumeWakeBase DEF ResumeWake
<1>7. ASSUME NEW t \in Threads,
             \/ ResumeAllPop(t, "reset", "resetpop") \/ ResumeAllPop(t, "detach", "detachpop")
      PROVE  NoTimers'
  BY <1>5, <1>7, ResumeAllPopBase DEF ResumeAllPop
<1>8. CASE UNCHANGED vars
  BY <1>8 DEF vars, ipcVars, semVars, NoTimers
<1> QED
  BY <1>2, <1>3, <1>4, <1>6, <1>7, <1>8, NoTimeout DEF Next, Finished, ThreadStep, Timeout

\* A release, or a loop of _ipc_list_resume_all, finds a waiter where it found one, and
\* the loop leaves none.
Emptied ==
    /\ \A t \in Threads : pc[t] \in {"first", "resetpop", "detachpop"} => Waiters # <<>>
    /\ \A t \in Threads : pc[t] = "detached" => Waiters = <<>>
    /\ ~alive => Waiters = <<>>

\* A step of a thread in its section, or of the one that detaches, meets no loop of
\* another thread that is about to remove a waiter.
LEMMA NoOtherLoop ==
    ASSUME ResetsAlone, Base, Phases, NEW t \in Threads, OnCpu(t), pc[t] \notin {"idle", "wait"},
           NEW u \in Threads, u # t
    PROVE  pc[u] \notin {"resetpop", "detachpop", "detached"}
<1>1. pc[u] \notin Detaches
  BY DEF Phases
<1>2. pc[u] # "resetpop"
  <2> SUFFICES ASSUME pc[u] = "resetpop" PROVE FALSE
    OBVIOUS
  <2>1. Bind[u] = Bind[t]
    BY DEF ResetsAlone, Phases
  <2> QED
    BY <2>1, AloneInSection DEF InSection
<1> QED
  BY <1>1, <1>2 DEF Detaches

LEMMA StepEmptied ==
    ASSUME ResetsAlone, Base, Phases, NoTimers, Emptied, [Next]_vars PROVE Emptied'
<1> USE DEF Goto
<1>0. Base' /\ pc \in [Threads -> Labels]
  BY StepBase DEF Base, TypeOK
<1>a. Waiters \in Seq(Threads) /\ Waiters' \in Seq(Threads)
  BY <1>0, SemAssumption DEF Base, TypeOK, IpcTypeOK, Waiters
<1>b. (Waiters = <<>> <=> ToSet(Waiters) = {}) /\ (Waiters' = <<>> <=> ToSet(Waiters') = {})
  BY <1>a, EmptyProperties
<1>1. ASSUME NEW t \in Threads, Calls(t) PROVE Emptied'
  <2>1. /\ UNCHANGED <<queue, alive>>
        /\ \E label \in {"take", "release", "reset", "detach"} : pc' = [pc EXCEPT ![t] = label]
    BY <1>1, CallBase
  <2> QED
    BY <1>0, <2>1 DEF Emptied, Waiters
<1>2. ASSUME NEW t \in Threads, TakeSection(t) PROVE Emptied'
  <2>1. /\ pc[t] = "take" /\ OnCpu(t) /\ UNCHANGED alive
        /\ pc' = [pc EXCEPT ![t] = "idle"] \/ pc' = [pc EXCEPT ![t] = "wait"]
        /\ queue' = queue \/ ToSet(Waiters') = ToSet(Waiters) \cup {t}
    BY <1>2, TakeSectionBase
  <2>2. \A u \in Threads : pc'[u] \notin {"first", "resetpop", "detachpop", "detached"}
    <3>1. spin = Nobody
      BY <1>2, TakeSectionBase
    <3>2. \A u \in Threads : pc'[u] # "first"
      BY <1>0, <2>1, <3>1, IpcAssumption DEF Phases
    <3> QED
      BY <1>0, <2>1, <3>2, NoOtherLoop
  <2>3. alive
    BY <2>1 DEF Phases
  <2> QED
    BY <2>1, <2>2, <2>3 DEF Emptied
<1>3. ASSUME NEW t \in Threads,
             \/ TakeReturn(t) \/ ReleaseSection(t) \/ ReleaseFirst(t) \/ ResumeTest(t)
             \/ ResetValue(t) \/ DetachObject(t)
             \/ ResumeAllTest(t, "reset", "resetpop") \/ ResumeAllDone(t, "reset", "setvalue")
             \/ ResumeAllTest(t, "detach", "detachpop") \/ ResumeAllDone(t, "detach", "detached")
      PROVE  Emptied'
  <2>1. queue' = queue
    BY <1>3, QuietSteps
  <2>2. ~alive' => ~alive \/ Waiters = <<>>
    BY <1>3 DEF TakeReturn, ReleaseSection, ReleaseFirst, ResumeTest, ResetValue, DetachObject, ResumeAllTest,
                ResumeAllDone, Emptied
  <2>3. \A u \in Threads : pc'[u] = "detached" => pc[u] = "detached" \/ Waiters = <<>>
    BY <1>0, <1>3 DEF TakeReturn, ReleaseSection, ReleaseFirst, ResumeTest, ResetValue, DetachObject, ResumeAllTest,
                      ResumeAllDone
  <2>4. \A u \in Threads : pc'[u] \in {"first", "resetpop", "detachpop"} =>
            pc'[u] = pc[u] \/ Waiters # <<>>
    BY <1>0, <1>3 DEF TakeReturn, ReleaseSection, ReleaseFirst, ResumeTest, ResetValue, DetachObject, ResumeAllTest,
                      ResumeAllDone
  <2> QED
    BY <2>1, <2>2, <2>3, <2>4 DEF Emptied, Waiters
<1>4. ASSUME NEW t \in Threads, OnCpu(t), NEW label \in {"idle", "reset", "detach"},
             pc[t] \in {"wake", "resetpop", "detachpop"},
             pc' = [pc EXCEPT ![t] = label], UNCHANGED alive, ToSet(Waiters') \subseteq ToSet(Waiters)
      PROVE  Emptied'
  <2>1. \A u \in Threads : pc'[u] \notin {"resetpop", "detachpop", "detached"}
    BY <1>0, <1>4, NoOtherLoop
  <2>2. ASSUME NEW u \in Threads, pc'[u] = "first" PROVE FALSE
    <3>1. u # t /\ pc[u] = "first" /\ spin = u
      BY <1>0, <1>4, <2>2 DEF Phases
    <3>2. pc[t] # "wake"
      BY <3>1 DEF Phases
    <3>3. pc[t] # "detachpop"
      BY <3>1 DEF Phases, Detaches
    <3>4. pc[t] = "resetpop"
      BY <1>4, <3>2, <3>3
    <3>5. Bind[u] = Bind[t]
      BY <3>4 DEF ResetsAlone, Phases
    <3> QED
      BY <1>4, <3>1, <3>5, AloneInSection DEF InSection
  <2> QED
    BY <1>b, <1>4, <2>1, <2>2 DEF Emptied
<1>5. ASSUME NEW t \in Threads, ResumeWake(t) PROVE Emptied'
  <2>1. ToSet(Waiters') \subseteq ToSet(Waiters)
    BY <1>5, ResumeWakeBase
  <2> QED
    BY <1>4, <1>5, <2>1 DEF ResumeWake
<1>6. ASSUME NEW t \in Threads,
             \/ ResumeAllPop(t, "reset", "resetpop") \/ ResumeAllPop(t, "detach", "detachpop")
      PROVE  Emptied'
  <2>1. ToSet(Waiters') \subseteq ToSet(Waiters)
    BY <1>6, ResumeAllPopBase
  <2> QED
    BY <1>4, <1>6, <2>1 DEF ResumeAllPop
<1>7. CASE UNCHANGED vars
  BY <1>7 DEF vars, ipcVars, semVars, Waiters, Emptied
<1> QED
  BY <1>1, <1>2, <1>3, <1>5, <1>6, <1>7, NoTimeout DEF Next, Finished, ThreadStep, Timeout

\* The two promises together: no thread waits for a token that is there, and
\* _ipc_list_resume_all resumes every waiter and never looks for one that is not there.
THEOREM SemaphoreServesAll == ASSUME ResetsAlone, Untimed PROVE Spec => []SemaphoreServes
<1> DEFINE IInv == Base /\ Phases /\ Available /\ NoTimers /\ Emptied
<1>1. Init => IInv
  <2> SUFFICES ASSUME Init PROVE IInv
    OBVIOUS
  <2>1. Available /\ NoTimers /\ Emptied
    BY SemAssumption DEF Init, IpcInit, Available, NoWaitWhileAvailable, Waiters, NoTimers, Emptied
  <2> QED
    BY <2>1, InitBase, InitPhases
<1>2. IInv /\ [Next]_vars => IInv'
  BY StepBase, StepPhases, StepAvailable, StepNoTimers, StepEmptied
<1>3. IInv => SemaphoreServes
  <2> SUFFICES ASSUME IInv PROVE SemaphoreServes
    OBVIOUS
  <2>1. ~alive => \A t \in Threads : stat[t] = "RUN"
    <3> SUFFICES ASSUME ~alive, NEW t \in Threads PROVE stat[t] = "RUN"
      OBVIOUS
    <3>1. Lists = {"sem"} /\ queue["sem"] = <<>> /\ ToSet(<<>>) = {}
      BY SemAssumption DEF Emptied, Waiters, ToSet
    <3>2. stat[t] # "SUSPEND"
      BY <3>1 DEF Base, SuspendedIsLinked
    <3> QED
      BY <3>2 DEF Base, TypeOK, IpcTypeOK
  <2> QED
    BY <2>1 DEF SemaphoreServes, ResumeAllServes, Available, Emptied
<1> HIDE DEF IInv
<1> QED
  BY <1>1, <1>2, <1>3, PTL DEF Spec
-----------------------------------------------------------------------------
(* Every token is counted: the refinement of CountingSemaphore *)

\* A timeout does not come between the choice of a waiter and its wake-up: no thread
\* waits with a finite timeout, or all run on one core, whose interrupts
\* rt_sem_release has disabled.
Exclusive == Untimed \/ \A c, d \in Cpus : c = d

\* rt_sem_release still finds the waiter it has chosen first in the list, and a
\* waiter has no error yet.
Chosen ==
    /\ \A t \in Threads : pc[t] \in {"resume", "wake"} =>
          Waiters # <<>> /\ target[t] = Head(Waiters)
    /\ \A t \in Threads : pc[t] = "first" => Waiters # <<>>
    /\ \A t \in Threads : stat[t] = "SUSPEND" => error[t] = "EOK"
    /\ Untimed => NoTimers

LEMMA ChosenSuspended ==
    ASSUME Base, Chosen, NEW t \in Threads, pc[t] \in {"resume", "wake"}
    PROVE  target[t] \in Threads /\ stat[target[t]] = "SUSPEND"
<1>1. "sem" \in Lists /\ IpcTypeOK /\ SuspendedIsLinked
  BY SemAssumption DEF Base, TypeOK
<1>2. queue["sem"] # <<>> /\ target[t] = Head(queue["sem"])
  BY DEF Chosen, Waiters
<1> QED
  BY <1>1, <1>2, HeadSuspended

\* While a release holds the spinlock, no timeout removes a waiter.
LEMMA NoTimeoutAtRelease ==
    ASSUME Exclusive, Base, Phases, Chosen, NEW t \in Threads, pc[t] \in {"first", "resume", "wake"},
           NEW u \in Threads, NEW c \in Cpus
    PROVE  ~ThreadTimeout(c, u)
<1> SUFFICES ASSUME ThreadTimeout(c, u) PROVE FALSE
  OBVIOUS
<1>1. expired[c] = u /\ u # Nobody
  BY IpcAssumption DEF ThreadTimeout
<1>2. ~Untimed
  BY <1>1 DEF Chosen, NoTimers
<1>3. Bind[t] \in Cpus /\ c = Bind[t]
  BY <1>2, IpcAssumption DEF Exclusive
<1>4. irqoff[c] = t /\ t # Nobody
  BY <1>3, IpcAssumption DEF Base, Sections, InSection
<1> QED
  BY <1>1, <1>4 DEF Phases

LEMMA StepChosen ==
    ASSUME ResetValues = {}, Exclusive, Base, Phases, Chosen, [Next]_vars PROVE Chosen'
<1> USE DEF Goto
<1>0. /\ pc \in [Threads -> Labels] /\ stat \in [Threads -> {"RUN", "SUSPEND"}]
      /\ error \in [Threads -> Errors] /\ target \in [Threads -> Threads \cup {Nobody}]
      /\ Nobody \notin Threads
  BY IpcAssumption DEF Base, TypeOK, IpcTypeOK
<1>a. Untimed => NoTimers'
  BY StepNoTimers DEF Chosen
<1>1. ASSUME NEW t \in Threads, Calls(t) PROVE Chosen'
  <2>1. /\ UNCHANGED <<queue, target, stat, error>>
        /\ \E label \in {"take", "release", "reset", "detach"} : pc' = [pc EXCEPT ![t] = label]
    BY <1>1, CallBase
  <2> QED
    BY <1>0, <1>a, <2>1 DEF Chosen, Waiters
<1>2. ASSUME NEW t \in Threads, TakeSection(t) PROVE Chosen'
  <2>1. /\ pc[t] = "take" /\ spin = Nobody
        /\ pc' = [pc EXCEPT ![t] = "idle"] \/ pc' = [pc EXCEPT ![t] = "wait"]
    BY <1>2, TakeSectionBase
  <2>2. \A u \in Threads : pc'[u] \notin {"first", "resume", "wake"}
    BY <1>0, <2>1 DEF Phases
  <2>3. \/ UNCHANGED <<stat, error>>
        \/ stat' = [stat EXCEPT ![t] = "SUSPEND"] /\ error' = [error EXCEPT ![t] = "EOK"]
    BY <1>2, TakeSectionBase
  <2>4. \A u \in Threads : stat'[u] = "SUSPEND" => error'[u] = "EOK"
    BY <1>0, <2>3 DEF Chosen
  <2> QED
    BY <1>a, <2>2, <2>4 DEF Chosen
<1>3. ASSUME NEW t \in Threads,
             \/ TakeReturn(t) \/ ReleaseSection(t) \/ ReleaseFirst(t) \/ ResumeTest(t)
             \/ ResetValue(t) \/ DetachObject(t)
             \/ ResumeAllTest(t, "reset", "resetpop") \/ ResumeAllDone(t, "reset", "setvalue")
             \/ ResumeAllTest(t, "detach", "detachpop") \/ ResumeAllDone(t, "detach", "detached")
      PROVE  Chosen'
  <2>1. UNCHANGED <<queue, stat, error>>
    BY <1>3, QuietSteps
  <2>2. ASSUME NEW u \in Threads, pc'[u] \in {"resume", "wake"}
        PROVE  Waiters # <<>> /\ target'[u] = Head(Waiters)
    <3>1. \/ pc[u] \in {"resume", "wake"} /\ target'[u] = target[u]
          \/ u = t /\ Waiters # <<>> /\ target'[u] = Head(Waiters)
      BY <1>0, <1>3, <2>2 DEF TakeReturn, ReleaseSection, ReleaseFirst, ResumeTest, ResetValue, DetachObject,
                              ResumeAllTest, ResumeAllDone
    <3> QED
      BY <3>1 DEF Chosen
  <2>3. \A u \in Threads : pc'[u] = "first" => Waiters # <<>>
    <3>1. \A u \in Threads : pc'[u] = "first" => pc[u] = "first" \/ Waiters # <<>>
      BY <1>0, <1>3 DEF TakeReturn, ReleaseSection, ReleaseFirst, ResumeTest, ResetValue,
                        DetachObject, ResumeAllTest, ResumeAllDone
    <3> QED
      BY <3>1 DEF Chosen
  <2> QED
    BY <1>a, <2>1, <2>2, <2>3 DEF Chosen, Waiters
<1>4. ASSUME NEW t \in Threads, ResumeWake(t) PROVE Chosen'
  <2>1. pc[t] = "wake" /\ pc' = [pc EXCEPT ![t] = "idle"] /\ UNCHANGED error
    BY <1>4 DEF ResumeWake
  <2>2. \A u \in Threads : pc'[u] \notin {"first", "resume", "wake"}
    BY <1>0, <2>1 DEF Phases
  <2>3. \A u \in Threads : stat'[u] = "SUSPEND" => stat[u] = "SUSPEND"
    BY <1>0, <1>4, ResumeWakeBase
  <2> QED
    BY <1>a, <2>1, <2>2, <2>3 DEF Chosen
<1>5. ASSUME NEW t \in Threads, ResumeAllPop(t, "reset", "resetpop") PROVE FALSE
  BY <1>5 DEF ResumeAllPop, Phases
<1>6. ASSUME NEW t \in Threads, ResumeAllPop(t, "detach", "detachpop") PROVE Chosen'
  <2>1. pc[t] = "detachpop" /\ pc' = [pc EXCEPT ![t] = "detach"]
    BY <1>6 DEF ResumeAllPop
  <2>2. \A u \in Threads : pc'[u] \notin {"first", "resume", "wake"}
    BY <1>0, <2>1 DEF Phases, Detaches
  <2>3. /\ Head(Waiters) \in Threads /\ stat' = [stat EXCEPT ![Head(Waiters)] = "RUN"]
        /\ error' = [error EXCEPT ![Head(Waiters)] = "ERROR"]
    BY <1>6, ResumeAllPopBase
  <2>4. \A u \in Threads : stat'[u] = "SUSPEND" => error'[u] = "EOK"
    BY <1>0, <2>3 DEF Chosen
  <2> QED
    BY <1>a, <2>2, <2>4 DEF Chosen
<1>7. ASSUME NEW t \in Threads, NEW c \in Cpus, TimerExpires(c, t), UNCHANGED semVars
      PROVE  Chosen'
  BY <1>a, <1>7 DEF TimerExpires, semVars, Chosen, Waiters
<1>8. ASSUME NEW t \in Threads, NEW c \in Cpus, ThreadTimeout(c, t), UNCHANGED semVars
      PROVE  Chosen'
  <2>1. \A u \in Threads : pc'[u] \notin {"first", "resume", "wake"}
    BY <1>8, NoTimeoutAtRelease DEF semVars
  <2>2. stat' = [stat EXCEPT ![t] = "RUN"] /\ error' = [error EXCEPT ![t] = "ETIMEOUT"]
    BY <1>8 DEF ThreadTimeout
  <2>3. \A u \in Threads : stat'[u] = "SUSPEND" => error'[u] = "EOK"
    BY <1>0, <2>2 DEF Chosen
  <2> QED
    BY <1>a, <2>1, <2>3 DEF Chosen
<1>9. CASE UNCHANGED vars
  BY <1>a, <1>9 DEF vars, ipcVars, semVars, Waiters, Chosen
<1> QED
  BY <1>1, <1>2, <1>3, <1>4, <1>5, <1>6, <1>7, <1>8, <1>9 DEF Next, Finished, ThreadStep, Timeout
Tokens == value + Cardinality(Granted) + Cardinality(Waking)
Taking == {t \in Threads : pc[t] \in {"take", "wait"}}

LEMMA TokensType ==
    ASSUME Base
    PROVE  /\ IsFiniteSet(Granted) /\ Cardinality(Granted) \in Nat
           /\ IsFiniteSet(Waking) /\ Cardinality(Waking) \in Nat
           /\ value \in 0..ValueMax /\ ValueMax \in Nat
<1>1. Granted \subseteq Threads /\ Waking \subseteq Threads /\ IsFiniteSet(Threads)
  BY SemAssumption DEF Granted, Waking
<1>2. IsFiniteSet(Granted) /\ IsFiniteSet(Waking)
  BY <1>1, FS_Subset
<1> QED
  BY <1>2, FS_CardinalityType, SemAssumption DEF Base, TypeOK

\* A step that changes the state of no other thread changes the sets by this thread.
LEMMA OthersCounted ==
    ASSUME Base, NEW t \in Threads, NEW label \in Labels, pc' = [pc EXCEPT ![t] = label],
           UNCHANGED <<stat, error>>
    PROVE  /\ \A u \in Threads : pc'[u] = IF u = t THEN label ELSE pc[u]
           /\ Granted' \ {t} = Granted \ {t} /\ Waking' \ {t} = Waking \ {t}
           /\ Taking' \ {t} = Taking \ {t}
<1>1. \A u \in Threads : pc'[u] = IF u = t THEN label ELSE pc[u]
  BY DEF Base, TypeOK
<1> QED
  BY <1>1 DEF Granted, Waking, Taking

\* The beginning of an operation: a take begins, or the tokens are as before.
LEMMA CallCounted ==
    ASSUME Base, NEW t \in Threads, Calls(t)
    PROVE  Counter!Begin(t) \/ UNCHANGED <<Tokens, Taking>>
<1>1. /\ UNCHANGED <<stat, error, value>> /\ pc[t] = "idle"
      /\ \E label \in {"take", "release", "reset", "detach"} : pc' = [pc EXCEPT ![t] = label]
  BY CallBase
<1>2. PICK label \in {"take", "release", "reset", "detach"} : pc' = [pc EXCEPT ![t] = label]
  BY <1>1
<1>3. label \in Labels
  BY DEF Labels
<1>4. /\ \A u \in Threads : pc'[u] = IF u = t THEN label ELSE pc[u]
      /\ Granted' \ {t} = Granted \ {t} /\ Waking' \ {t} = Waking \ {t} /\ Taking' \ {t} = Taking \ {t}
  BY <1>1, <1>2, <1>3, OthersCounted
<1>5. t \notin Granted /\ t \notin Granted' /\ t \notin Waking /\ t \notin Waking' /\ t \notin Taking
  BY <1>1, <1>4 DEF Granted, Waking, Taking
<1>6. Granted' = Granted /\ Waking' = Waking
  BY <1>4, <1>5
<1>7. Tokens' = Tokens
  BY <1>1, <1>6 DEF Tokens
<1>8. t \in Taking' <=> label = "take"
  BY <1>4 DEF Taking
<1>9. CASE label = "take"
  <2>1. Taking' = Taking \cup {t}
    BY <1>4, <1>8, <1>9
  <2> QED
    BY <1>5, <1>7, <2>1 DEF Counter!Begin, Tokens, Taking
<1>10. CASE label # "take"
  BY <1>4, <1>5, <1>7, <1>8, <1>10
<1> QED
  BY <1>9, <1>10

\* rt_sem_take: a token is acquired, or the thread gives up, or it waits.
LEMMA TakeCounted ==
    ASSUME Base, NEW t \in Threads, TakeSection(t)
    PROVE  Counter!Acquire(t) \/ Counter!GiveUp(t) \/ UNCHANGED <<Tokens, Taking>>
<1>0. /\ pc[t] = "take" /\ pc \in [Threads -> Labels] /\ stat \in [Threads -> {"RUN", "SUSPEND"}]
      /\ error \in [Threads -> Errors] /\ value \in Nat
      /\ Cardinality(Granted) \in Nat /\ Cardinality(Waking) \in Nat
  BY TokensType, TakeSectionBase DEF Base, TypeOK, IpcTypeOK
<1>1. CASE /\ UNCHANGED <<stat, error>> /\ pc' = [pc EXCEPT ![t] = "idle"]
           /\ (value' = value \/ (value > 0 /\ value' = value - 1))
  <2>1. "idle" \in Labels
    BY DEF Labels
  <2>2. /\ \A u \in Threads : pc'[u] = IF u = t THEN "idle" ELSE pc[u]
        /\ Granted' \ {t} = Granted \ {t} /\ Waking' \ {t} = Waking \ {t} /\ Taking' \ {t} = Taking \ {t}
    BY <1>1, <2>1, OthersCounted
  <2>3. /\ t \notin Granted /\ t \notin Granted' /\ t \notin Waking /\ t \notin Waking'
        /\ t \in Taking /\ t \notin Taking'
    BY <1>0, <2>2 DEF Granted, Waking, Taking
  <2>4. Granted' = Granted /\ Waking' = Waking /\ Taking' = Taking \ {t}
    BY <2>2, <2>3
  <2>5. Tokens' = Tokens \/ (Tokens > 0 /\ Tokens' = Tokens - 1)
    BY <1>0, <1>1, <2>4 DEF Tokens
  <2> QED
    BY <2>3, <2>4, <2>5 DEF Counter!Acquire, Counter!GiveUp, Tokens, Taking
<1>2. CASE /\ value' = value /\ pc' = [pc EXCEPT ![t] = "wait"]
           /\ stat' = [stat EXCEPT ![t] = "SUSPEND"] /\ error' = [error EXCEPT ![t] = "EOK"]
  <2>1. \A u \in Threads : /\ pc'[u] = (IF u = t THEN "wait" ELSE pc[u])
                           /\ stat'[u] = (IF u = t THEN "SUSPEND" ELSE stat[u])
                           /\ error'[u] = (IF u = t THEN "EOK" ELSE error[u])
    BY <1>0, <1>2
  <2>2. Granted' = Granted /\ Waking' = Waking /\ Taking' = Taking
    BY <1>0, <2>1 DEF Granted, Waking, Taking
  <2> QED
    BY <1>2, <2>2 DEF Tokens
<1>3. \/ /\ UNCHANGED <<stat, error>> /\ pc' = [pc EXCEPT ![t] = "idle"]
         /\ (value' = value \/ (value > 0 /\ value' = value - 1))
      \/ /\ value' = value /\ pc' = [pc EXCEPT ![t] = "wait"]
         /\ stat' = [stat EXCEPT ![t] = "SUSPEND"] /\ error' = [error EXCEPT ![t] = "EOK"]
  BY TakeSectionBase
<1> QED
  BY ONLY <1>1, <1>2, <1>3

\* rt_sem_take returns: it acquires the token it was granted, or gives up.
LEMMA ReturnCounted ==
    ASSUME Base, NEW t \in Threads, TakeReturn(t)
    PROVE  Counter!Acquire(t) \/ Counter!GiveUp(t)
<1>0. /\ pc[t] = "wait" /\ stat[t] = "RUN" /\ pc' = [pc EXCEPT ![t] = "idle"]
      /\ UNCHANGED <<stat, error, value>> /\ "idle" \in Labels
  BY DEF TakeReturn, Goto, ipcVars, Labels
<1>1. /\ \A u \in Threads : pc'[u] = IF u = t THEN "idle" ELSE pc[u]
      /\ Granted' \ {t} = Granted \ {t} /\ Waking' \ {t} = Waking \ {t} /\ Taking' \ {t} = Taking \ {t}
  BY <1>0, OthersCounted
<1>2. /\ t \notin Granted' /\ t \notin Waking /\ t \notin Waking'
      /\ t \in Taking /\ t \notin Taking'
  BY <1>0, <1>1 DEF Granted, Waking, Taking
<1>3. Granted' = Granted \ {t} /\ Waking' = Waking /\ Taking' = Taking \ {t}
  BY <1>1, <1>2
<1>4. /\ IsFiniteSet(Granted) /\ Cardinality(Granted) \in Nat /\ Cardinality(Waking) \in Nat
      /\ value \in Nat
  BY TokensType
<1>5. CASE t \in Granted
  <2>1. Cardinality(Granted') = Cardinality(Granted) - 1 /\ Cardinality(Granted') \in Nat
    BY <1>3, <1>4, <1>5, FS_RemoveElement, FS_CardinalityType
  <2>2. Tokens > 0 /\ Tokens' = Tokens - 1
    BY <1>0, <1>3, <1>4, <2>1 DEF Tokens
  <2> QED
    BY <1>2, <1>3, <2>2 DEF Counter!Acquire, Tokens, Taking
<1>6. CASE t \notin Granted
  <2>1. Tokens' = Tokens
    BY <1>0, <1>3, <1>6 DEF Tokens
  <2> QED
    BY <1>2, <1>3, <2>1 DEF Counter!GiveUp, Tokens, Taking
<1> QED
  BY <1>5, <1>6

\* rt_sem_release: a token for the waiter it has chosen, or for the value; none at
\* RT_SEM_VALUE_MAX.
LEMMA ReleaseCounted ==
    ASSUME Base, NEW t \in Threads, ReleaseSection(t)
    PROVE  Counter!Release \/ UNCHANGED <<Tokens, Taking>>
<1>0. pc[t] = "release" /\ UNCHANGED <<stat, error>> /\ "idle" \in Labels /\ "first" \in Labels
  BY DEF ReleaseSection, Labels
<1>1. /\ IsFiniteSet(Waking) /\ Cardinality(Granted) \in Nat /\ Cardinality(Waking) \in Nat
      /\ value \in Nat
  BY TokensType
<1>2. CASE pc' = [pc EXCEPT ![t] = "first"] /\ UNCHANGED value
  <2>1. /\ \A u \in Threads : pc'[u] = IF u = t THEN "first" ELSE pc[u]
        /\ Granted' \ {t} = Granted \ {t} /\ Waking' \ {t} = Waking \ {t} /\ Taking' \ {t} = Taking \ {t}
    BY <1>0, <1>2, OthersCounted
  <2>2. /\ t \notin Granted' /\ t \notin Granted /\ t \notin Waking /\ t \in Waking'
        /\ t \notin Taking /\ t \notin Taking'
    BY <1>0, <2>1 DEF Granted, Waking, Taking
  <2>3. Granted' = Granted /\ Waking' = Waking \cup {t} /\ Taking' = Taking
    BY <2>1, <2>2
  <2>4. Cardinality(Waking') = Cardinality(Waking) + 1
    BY <1>1, <2>2, <2>3, FS_AddElement
  <2>5. Tokens' = Tokens + 1
    BY <1>1, <1>2, <2>3, <2>4 DEF Tokens
  <2> QED
    BY <2>3, <2>5 DEF Counter!Release, Tokens, Taking
<1>3. CASE pc' = [pc EXCEPT ![t] = "idle"] /\ value' \in {value, value + 1}
  <2>1. /\ \A u \in Threads : pc'[u] = IF u = t THEN "idle" ELSE pc[u]
        /\ Granted' \ {t} = Granted \ {t} /\ Waking' \ {t} = Waking \ {t} /\ Taking' \ {t} = Taking \ {t}
    BY <1>0, <1>3, OthersCounted
  <2>2. /\ t \notin Granted' /\ t \notin Granted /\ t \notin Waking /\ t \notin Waking'
        /\ t \notin Taking /\ t \notin Taking'
    BY <1>0, <2>1 DEF Granted, Waking, Taking
  <2>3. Granted' = Granted /\ Waking' = Waking /\ Taking' = Taking
    BY <2>1, <2>2
  <2>4. Tokens' = Tokens \/ Tokens' = Tokens + 1
    BY <1>1, <1>3, <2>3 DEF Tokens
  <2> QED
    BY <2>3, <2>4 DEF Counter!Release, Tokens, Taking
<1> QED
  BY <1>2, <1>3 DEF ReleaseSection, Goto

\* rt_sem_release takes the first of the list: its token is counted already.
LEMMA FirstCounted ==
    ASSUME Base, NEW t \in Threads, ReleaseFirst(t) PROVE UNCHANGED <<Tokens, Taking>>
<1>1. pc[t] = "first" /\ pc' = [pc EXCEPT ![t] = "resume"] /\ UNCHANGED <<stat, error, value>>
  BY DEF ReleaseFirst, Goto, ipcVars
<1>2. \A u \in Threads : pc'[u] = IF u = t THEN "resume" ELSE pc[u]
  BY <1>1 DEF Base, TypeOK
<1>3. Granted' = Granted /\ Waking' = Waking /\ Taking' = Taking
  BY <1>1, <1>2 DEF Granted, Waking, Taking
<1> QED
  BY <1>1, <1>3 DEF Tokens

\* rt_sem_release finds its waiter suspended and wakes it: its token is granted.
LEMMA WakeCounted ==
    ASSUME Base, Chosen, NEW t \in Threads, ResumeTest(t) \/ ResumeWake(t)
    PROVE  UNCHANGED <<Tokens, Taking>>
<1> DEFINE w == target[t]
<1>0. /\ pc \in [Threads -> Labels] /\ stat \in [Threads -> {"RUN", "SUSPEND"}]
      /\ pc[t] \in {"resume", "wake"} /\ UNCHANGED <<error, value>>
  BY DEF ResumeTest, ResumeWake, Base, TypeOK, IpcTypeOK
<1>1. w \in Threads /\ stat[w] = "SUSPEND" /\ pc[w] = "wait" /\ error[w] = "EOK"
  BY <1>0, ChosenSuspended DEF Base, Chosen
<1>2. CASE ResumeTest(t)
  <2>1. pc[t] = "resume" /\ pc' = [pc EXCEPT ![t] = "wake"] /\ UNCHANGED stat
    BY <1>1, <1>2 DEF ResumeTest, Goto
  <2>2. \A u \in Threads : pc'[u] = IF u = t THEN "wake" ELSE pc[u]
    BY <1>0, <2>1
  <2>3. Granted' = Granted /\ Waking' = Waking /\ Taking' = Taking
    BY <1>0, <2>1, <2>2 DEF Granted, Waking, Taking
  <2> QED
    BY <1>0, <2>3 DEF Tokens
<1>3. CASE ResumeWake(t)
  <2>1. pc' = [pc EXCEPT ![t] = "idle"] /\ stat' = [stat EXCEPT ![w] = "RUN"]
    BY <1>3, ResumeWakeBase DEF ResumeWake, Goto
  <2> HIDE DEF w
  <2>2. w # t
    BY <1>0, <1>1
  <2>3. \A u \in Threads : /\ pc'[u] = (IF u = t THEN "idle" ELSE pc[u])
                           /\ stat'[u] = (IF u = w THEN "RUN" ELSE stat[u])
                           /\ error'[u] = error[u]
    BY <1>0, <2>1
  <2>4. w \notin Granted /\ Granted' = Granted \cup {w}
    BY <1>0, <1>1, <2>2, <2>3 DEF Granted
  <2>5. t \in Waking /\ Waking' = Waking \ {t}
    BY <1>0, <2>3 DEF Waking
  <2>6. Taking' = Taking
    BY <1>0, <2>3 DEF Taking
  <2>7. /\ IsFiniteSet(Granted) /\ Cardinality(Granted) \in Nat
        /\ IsFiniteSet(Waking) /\ Cardinality(Waking) \in Nat /\ value \in Nat
    BY TokensType
  <2>8. /\ Cardinality(Granted') = Cardinality(Granted) + 1
        /\ Cardinality(Waking') = Cardinality(Waking) - 1
    BY <2>4, <2>5, <2>7, FS_AddElement, FS_RemoveElement
  <2>9. Tokens' = Tokens
    BY <1>0, <2>7, <2>8 DEF Tokens
  <2> QED
    BY <2>6, <2>9
<1> QED
  BY <1>2, <1>3

\* The other steps of a reset or a detach: who is resumed by them is granted nothing.
LEMMA LoopCounted ==
    ASSUME Base, NEW t \in Threads,
           \/ DetachObject(t)
           \/ ResumeAllTest(t, "detach", "detachpop") \/ ResumeAllDone(t, "detach", "detached")
           \/ ResumeAllPop(t, "detach", "detachpop")
    PROVE  UNCHANGED <<Tokens, Taking>>
<1>0. /\ pc \in [Threads -> Labels] /\ stat \in [Threads -> {"RUN", "SUSPEND"}]
      /\ error \in [Threads -> Errors] /\ pc[t] \in Detaches /\ UNCHANGED value
  BY DEF Base, TypeOK, IpcTypeOK, Detaches, DetachObject, ResumeAllTest, ResumeAllDone, ResumeAllPop
<1>1. \E label \in {"idle", "detach", "detachpop", "detached"} : pc' = [pc EXCEPT ![t] = label]
  BY DEF DetachObject, ResumeAllTest, ResumeAllDone, ResumeAllPop, Goto
<1>2. /\ Waking' = Waking /\ Taking' = Taking
      /\ \A u \in Threads : pc[u] = "wait" <=> pc'[u] = "wait"
  BY <1>0, <1>1 DEF Waking, Taking, Detaches
<1>3. Granted' = Granted
  <2>1. CASE UNCHANGED <<stat, error>>
    BY <1>2, <2>1 DEF Granted
  <2>2. CASE ResumeAllPop(t, "detach", "detachpop")
    <3> DEFINE h == Head(Waiters)
    <3>1. /\ stat[h] = "SUSPEND" /\ h \in Threads
          /\ stat' = [stat EXCEPT ![h] = "RUN"] /\ error' = [error EXCEPT ![h] = "ERROR"]
      BY <2>2, ResumeAllPopBase
    <3> HIDE DEF h
    <3>2. \A u \in Threads : /\ stat'[u] = (IF u = h THEN "RUN" ELSE stat[u])
                             /\ error'[u] = (IF u = h THEN "ERROR" ELSE error[u])
      BY <1>0, <3>1
    <3> QED
      BY <1>2, <3>1, <3>2 DEF Granted
  <2> QED
    BY <2>1, <2>2 DEF DetachObject, ResumeAllTest, ResumeAllDone, ipcVars
<1> QED
  BY <1>0, <1>2, <1>3 DEF Tokens

\* A thread whose wait times out is granted nothing.
LEMMA TimeoutCounted ==
    ASSUME Base, NEW t \in Threads, NEW c \in Cpus, TimerExpires(c, t) \/ ThreadTimeout(c, t),
           UNCHANGED semVars
    PROVE  UNCHANGED <<Tokens, Taking>>
<1>0. /\ UNCHANGED <<pc, value>> /\ stat \in [Threads -> {"RUN", "SUSPEND"}]
      /\ error \in [Threads -> Errors]
  BY DEF semVars, Base, TypeOK, IpcTypeOK
<1>1. Waking' = Waking /\ Taking' = Taking
  BY <1>0 DEF Waking, Taking
<1>2. Granted' = Granted
  <2>1. CASE UNCHANGED <<stat, error>>
    BY <1>0, <2>1 DEF Granted
  <2>2. CASE /\ stat[t] = "SUSPEND" /\ stat' = [stat EXCEPT ![t] = "RUN"]
             /\ error' = [error EXCEPT ![t] = "ETIMEOUT"]
    <3>1. \A u \in Threads : /\ stat'[u] = (IF u = t THEN "RUN" ELSE stat[u])
                             /\ error'[u] = (IF u = t THEN "ETIMEOUT" ELSE error[u])
      BY <1>0, <2>2
    <3> QED
      BY <1>0, <2>2, <3>1 DEF Granted
  <2> QED
    BY <2>1, <2>2, TimeoutBase
<1> QED
  BY <1>0, <1>1, <1>2 DEF Tokens

\* Every step of the semaphore is one of the counter, or none.
LEMMA StepCounted ==
    ASSUME ResetValues = {}, Base, Phases, Chosen, [Next]_vars
    PROVE  [Counter!Next]_<<Tokens, Taking>>
<1>1. ASSUME NEW t \in Threads, Calls(t) PROVE [Counter!Next]_<<Tokens, Taking>>
  BY <1>1, CallCounted DEF Counter!Next
<1>2. ASSUME NEW t \in Threads, TakeSection(t) PROVE [Counter!Next]_<<Tokens, Taking>>
  BY <1>2, TakeCounted DEF Counter!Next
<1>3. ASSUME NEW t \in Threads, TakeReturn(t) PROVE [Counter!Next]_<<Tokens, Taking>>
  BY <1>3, ReturnCounted DEF Counter!Next
<1>4. ASSUME NEW t \in Threads, ReleaseSection(t) PROVE [Counter!Next]_<<Tokens, Taking>>
  BY <1>4, ReleaseCounted DEF Counter!Next
<1>5. ASSUME NEW t \in Threads, ReleaseFirst(t) \/ ResumeTest(t) \/ ResumeWake(t)
      PROVE  [Counter!Next]_<<Tokens, Taking>>
  BY <1>5, FirstCounted, WakeCounted
<1>6. ASSUME NEW t \in Threads,
             \/ DetachObject(t)
             \/ ResumeAllTest(t, "detach", "detachpop") \/ ResumeAllDone(t, "detach", "detached")
             \/ ResumeAllPop(t, "detach", "detachpop")
      PROVE  [Counter!Next]_<<Tokens, Taking>>
  BY <1>6, LoopCounted
<1>7. ASSUME NEW t \in Threads,
             \/ ResumeAllTest(t, "reset", "resetpop") \/ ResumeAllPop(t, "reset", "resetpop")
             \/ ResumeAllDone(t, "reset", "setvalue") \/ ResetValue(t)
      PROVE  FALSE
  BY <1>7 DEF ResumeAllTest, ResumeAllPop, ResumeAllDone, ResetValue, Phases
<1>8. ASSUME NEW t \in Threads, NEW c \in Cpus, TimerExpires(c, t) \/ ThreadTimeout(c, t),
             UNCHANGED semVars
      PROVE  [Counter!Next]_<<Tokens, Taking>>
  BY <1>8, TimeoutCounted
<1>9. CASE UNCHANGED vars
  BY <1>9 DEF vars, ipcVars, semVars, Tokens, Taking, Granted, Waking
<1> QED
  BY <1>1, <1>2, <1>3, <1>4, <1>5, <1>6, <1>7, <1>8, <1>9 DEF Next, Finished, ThreadStep, Timeout

\* The semaphore implements CountingSemaphore: a token counts as available from the
\* spinlock section of rt_sem_release, although the waiter is made ready in a later
\* step, until rt_sem_take returns RT_EOK with it; none is lost and none is made.
THEOREM SemaphoreCountsTokens ==
    ASSUME ResetValues = {}, Exclusive PROVE Spec => CountsTokens
<1> DEFINE IInv == Base /\ Phases /\ Chosen
<1>1. Init => IInv /\ Tokens \in Nat /\ Taking = {}
  <2> SUFFICES ASSUME Init PROVE IInv /\ Tokens \in Nat /\ Taking = {}
    OBVIOUS
  <2>1. Base /\ Phases
    BY InitBase, InitPhases
  <2>2. Chosen
    BY DEF Init, IpcInit, Chosen, NoTimers
  <2>3. Tokens \in Nat
    BY <2>1, TokensType DEF Tokens
  <2>4. Taking = {}
    BY DEF Init, Taking
  <2> QED
    BY <2>1, <2>2, <2>3, <2>4
<1>2. IInv /\ [Next]_vars => IInv'
  BY StepBase, StepPhases, StepChosen
<1>3. IInv /\ [Next]_vars => [Counter!Next]_<<Tokens, Taking>>
  BY StepCounted
<1> HIDE DEF IInv
<1> QED
  BY <1>1, <1>2, <1>3, PTL DEF Spec, CountsTokens, Counter!Spec, Tokens, Taking

-----------------------------------------------------------------------------
(* On one core, whoever times out is still suspended *)

LEMMA StepTimeouts == ASSUME OneCpu, Timeouts, [Next]_vars PROVE Timeouts'
<1>1. ASSUME NEW t \in Threads, Calls(t) \/ ThreadStep(t) PROVE OnCpu(t) /\ ThreadsMove
  <2>1. CASE Calls(t)
    BY <2>1 DEF Calls, ReleaseCall, TakeCall, ResetCall, DetachCall, Starts, ipcVars, ThreadsMove
  <2>2. CASE TakeSection(t)
    <3>1. /\ OnCpu(t) /\ expired' = expired
          /\ UNCHANGED <<stat, timer>> \/ ListSuspend(t, "sem", Flag, Prio, wait[t] = "timed")
      BY <2>2 DEF TakeSection
    <3> QED
      BY <3>1, SleepMoves DEF ThreadsMove
  <2>3. CASE ResumeWake(t)
    BY <2>3 DEF ResumeWake, WakeUp, Wakes, ThreadsMove
  <2>4. CASE ResumeAllPop(t, "reset", "resetpop") \/ ResumeAllPop(t, "detach", "detachpop")
    BY <2>4, ResumeMoves DEF ResumeAllPop
  <2>5. CASE \/ TakeReturn(t) \/ ReleaseSection(t) \/ ReleaseFirst(t) \/ ResumeTest(t) \/ ResetValue(t) \/ DetachObject(t)
             \/ ResumeAllTest(t, "reset", "resetpop") \/ ResumeAllDone(t, "reset", "setvalue")
             \/ ResumeAllTest(t, "detach", "detachpop") \/ ResumeAllDone(t, "detach", "detached")
    BY <2>5 DEF TakeReturn, ReleaseSection, ReleaseFirst, ResumeTest, ResetValue, DetachObject,
                ResumeAllTest, ResumeAllDone, ipcVars, ThreadsMove
  <2> QED
    BY <1>1, <2>1, <2>2, <2>3, <2>4, <2>5 DEF ThreadStep
<1>2. ASSUME NEW t \in Threads, Calls(t) \/ ThreadStep(t) PROVE Timeouts'
  BY <1>1, <1>2, MoveKeepsTimeouts
<1>3. ASSUME NEW t \in Threads, Timeout(t) PROVE Timeouts'
  BY <1>3, TimeoutKeepsTimeouts DEF Timeout
<1>4. CASE UNCHANGED vars
  BY <1>4, StutterKeepsTimeouts DEF vars
<1> QED
  BY <1>2, <1>3, <1>4 DEF Next, Finished

\* RT_ASSERT in rt_thread_timeout: on one core, whoever times out in rt_sem_take is
\* still suspended, whatever releases, resets and detaches come before its timeout.
THEOREM SemaphoreTimeoutFindsSuspended == ASSUME OneCpu PROVE Spec => []TimeoutFindsSuspended
<1>1. Init => Timeouts
  BY InitTimeouts DEF Init
<1>2. Timeouts /\ [Next]_vars => Timeouts'
  BY StepTimeouts
<1> QED
  BY <1>1, <1>2, TimeoutsSound, PTL DEF Spec
=============================================================================
