------------------------------- MODULE SpinLock -------------------------------
(***************************************************************************)
(* The kernel's own spinlock, rt_spin_lock/rt_spin_unlock of               *)
(* rt-thread/src/cpu.c, at the grain of its memory accesses: the test of   *)
(* `owner`, the lr.w/sc.w loop of exclusive_read_write (context_gcc.S), the *)
(* two writes that disable interrupts, the write of `owner`, and the three *)
(* writes of the unlock.  Threads are bound to a core; a core whose         *)
(* interrupts are enabled may switch threads between any two of them.      *)
(*                                                                         *)
(* exclusive_read_write has no `ret`: once sc.w succeeds, execution runs    *)
(* into rt_hw_local_irq_disable and returns from there.  The interrupt      *)
(* state rt_spin_lock then saves in `level` is the one AFTER that first     *)
(* csrrci.                                                                  *)
(***************************************************************************)
EXTENDS Naturals

CONSTANTS Threads,   \* the threads that use the lock
          Cpus,      \* the cores
          Bind,      \* Bind[t]: the core thread t is bound to (bind_cpu)
          NULL       \* RT_NULL

ASSUME BindAssumption == Bind \in [Threads -> Cpus]
ASSUME NullAssumption == NULL \notin Threads

VARIABLES lock,      \* lock->lock, 0 or 1
          owner,     \* lock->owner
          pc,        \* where each thread is in rt_spin_lock/rt_spin_unlock
          level,     \* level[t]: the MIE bit rt_spin_lock returned to t
          mie,       \* mie[c]: the MIE bit of mstatus on core c
          saved,     \* saved[t]: the MIE bit in the context of a thread switched out
          resv,      \* resv[c]: core c holds an lr.w reservation on the lock word
          cur        \* cur[c]: the thread running on core c

vars == <<lock, owner, pc, level, mie, saved, resv, cur>>

(***************************************************************************)
(* The program counter: "out" of the lock, about to execute "lr" or "sc",  *)
(* at the csrrci it falls into ("fall"), at rt_hw_local_irq_disable        *)
(* ("irqoff"), at the write of owner ("own"), in the critical section      *)
(* ("cs"), at the unlock's write of owner ("disown") and at its            *)
(* rt_hw_local_irq_enable ("irqon").                                       *)
(***************************************************************************)
Labels == {"out", "lr", "sc", "fall", "irqoff", "own", "cs", "disown", "irqon"}

\* Between its successful sc.w and its atomic_set(&lock->lock, 0).
Holding == {"fall", "irqoff", "own", "cs"}

Running(t) == cur[Bind[t]] = t

(***************************************************************************)
(* rt_spin_lock_init leaves owner as the zero-initialised static object.   *)
(* Threads start with interrupts enabled (rt_hw_stack_init).               *)
(***************************************************************************)
Init ==
    /\ lock = 0
    /\ owner = NULL
    /\ pc = [t \in Threads |-> "out"]
    /\ level = [t \in Threads |-> FALSE]
    /\ mie = [c \in Cpus |-> TRUE]
    /\ saved = [t \in Threads |-> TRUE]
    /\ resv = [c \in Cpus |-> FALSE]
    /\ cur \in {f \in [Cpus -> Threads \cup {NULL}] :
                  \A c \in Cpus : IF \E t \in Threads : Bind[t] = c
                                  THEN f[c] \in Threads /\ Bind[f[c]] = c
                                  ELSE f[c] = NULL}

-----------------------------------------------------------------------------
(* rt_spin_lock *)

\* if (lock->owner != rt_thread_self())
TestOwner(t) ==
    /\ Running(t) /\ pc[t] = "out"
    /\ pc' = [pc EXCEPT ![t] = IF owner # t THEN "lr" ELSE "irqoff"]
    /\ UNCHANGED <<lock, owner, level, mie, saved, resv, cur>>

\* lr.w / bnez: reading a taken lock branches back and changes nothing.
LoadReserved(t) ==
    /\ Running(t) /\ pc[t] = "lr" /\ lock = 0
    /\ resv' = [resv EXCEPT ![Bind[t]] = TRUE]
    /\ pc' = [pc EXCEPT ![t] = "sc"]
    /\ UNCHANGED <<lock, owner, level, mie, saved, cur>>

\* Seeded fault: a plain read-modify-write instead of sc.w.
StoreAlways(t) ==
    /\ Running(t) /\ pc[t] = "sc"
    /\ lock' = lock + 1
    /\ pc' = [pc EXCEPT ![t] = "fall"]
    /\ UNCHANGED <<owner, level, mie, saved, resv, cur>>

\* Seeded fault: the store does not end the reservation of the other core.
StoreKeepsReserved(t) ==
    /\ Running(t) /\ pc[t] = "sc"
    /\ IF resv[Bind[t]]
       THEN /\ lock' = 1
            /\ resv' = [resv EXCEPT ![Bind[t]] = FALSE]
            /\ pc' = [pc EXCEPT ![t] = "fall"]
       ELSE /\ pc' = [pc EXCEPT ![t] = "lr"]
            /\ UNCHANGED <<lock, resv>>
    /\ UNCHANGED <<owner, level, mie, saved, cur>>

\* sc.w / bnez: succeeds only while the reservation stands; a store ends every
\* reservation on the word.
StoreConditional(t) ==
    /\ Running(t) /\ pc[t] = "sc"
    /\ IF resv[Bind[t]]
       THEN /\ lock' = 1
            /\ resv' = [c \in Cpus |-> FALSE]
            /\ pc' = [pc EXCEPT ![t] = "fall"]
       ELSE /\ pc' = [pc EXCEPT ![t] = "lr"]
            /\ UNCHANGED <<lock, resv>>
    /\ UNCHANGED <<owner, level, mie, saved, cur>>

\* The csrrci that exclusive_read_write falls through to.
FallThrough(t) ==
    /\ Running(t) /\ pc[t] = "fall"
    /\ mie' = [mie EXCEPT ![Bind[t]] = FALSE]
    /\ pc' = [pc EXCEPT ![t] = "irqoff"]
    /\ UNCHANGED <<lock, owner, level, saved, resv, cur>>

\* Seeded fault: csrrsi in place of csrrci.
EnablesIrq(t) ==
    /\ Running(t) /\ pc[t] = "irqoff"
    /\ level' = [level EXCEPT ![t] = mie[Bind[t]]]
    /\ mie' = [mie EXCEPT ![Bind[t]] = TRUE]
    /\ pc' = [pc EXCEPT ![t] = "own"]
    /\ UNCHANGED <<lock, owner, saved, resv, cur>>

\* level = rt_hw_local_irq_disable()
DisableIrq(t) ==
    /\ Running(t) /\ pc[t] = "irqoff"
    /\ level' = [level EXCEPT ![t] = mie[Bind[t]]]
    /\ mie' = [mie EXCEPT ![Bind[t]] = FALSE]
    /\ pc' = [pc EXCEPT ![t] = "own"]
    /\ UNCHANGED <<lock, owner, saved, resv, cur>>

\* lock->owner = rt_thread_self()
SetOwner(t) ==
    /\ Running(t) /\ pc[t] = "own"
    /\ owner' = t
    /\ pc' = [pc EXCEPT ![t] = "cs"]
    /\ UNCHANGED <<lock, level, mie, saved, resv, cur>>

-----------------------------------------------------------------------------
(* rt_spin_unlock *)

\* atomic_set(&lock->lock, 0)
ClearLock(t) ==
    /\ Running(t) /\ pc[t] = "cs"
    /\ lock' = 0
    /\ resv' = [c \in Cpus |-> FALSE]
    /\ pc' = [pc EXCEPT ![t] = "disown"]
    /\ UNCHANGED <<owner, level, mie, saved, cur>>

\* Seeded fault: the unlock forgets lock->owner.
KeepsOwner(t) ==
    /\ Running(t) /\ pc[t] = "disown"
    /\ pc' = [pc EXCEPT ![t] = "irqon"]
    /\ UNCHANGED <<lock, owner, level, mie, saved, resv, cur>>

\* lock->owner = RT_NULL
ClearOwner(t) ==
    /\ Running(t) /\ pc[t] = "disown"
    /\ owner' = NULL
    /\ pc' = [pc EXCEPT ![t] = "irqon"]
    /\ UNCHANGED <<lock, level, mie, saved, resv, cur>>

\* rt_hw_local_irq_enable(level)
RestoreIrq(t) ==
    /\ Running(t) /\ pc[t] = "irqon"
    /\ mie' = [mie EXCEPT ![Bind[t]] = level[t]]
    /\ pc' = [pc EXCEPT ![t] = "out"]
    /\ UNCHANGED <<lock, owner, level, saved, resv, cur>>

-----------------------------------------------------------------------------
(* Context switches between threads of one core: by an interrupt, at any   *)
(* point where MIE is set, or voluntarily (rt_thread_yield, rt_thread_delay)*)
(* outside the lock.  Each thread resumes with the MIE bit it was switched  *)
(* out with.  A switch lasts far longer than an lr.w reservation does on    *)
(* this core, so none survives it.                                         *)

Switch(t, u) ==
    /\ Running(t) /\ u # t /\ Bind[u] = Bind[t]
    /\ mie[Bind[t]] \/ pc[t] = "out"
    /\ saved' = [saved EXCEPT ![t] = mie[Bind[t]]]
    /\ mie' = [mie EXCEPT ![Bind[t]] = saved[u]]
    /\ resv' = [resv EXCEPT ![Bind[t]] = FALSE]
    /\ cur' = [cur EXCEPT ![Bind[t]] = u]
    /\ UNCHANGED <<lock, owner, pc, level>>

\* What t executes between entering rt_spin_lock and leaving rt_spin_unlock.
Advance(t) ==
    \/ LoadReserved(t) \/ StoreConditional(t) \/ FallThrough(t)
    \/ DisableIrq(t) \/ SetOwner(t) \/ ClearLock(t) \/ ClearOwner(t)
    \/ RestoreIrq(t)

Next ==
    \/ \E t \in Threads : TestOwner(t) \/ Advance(t)
    \/ \E t, u \in Threads : Switch(t, u)

Spec == Init /\ [][Next]_vars

-----------------------------------------------------------------------------
(* Properties *)

TypeOK ==
    /\ lock \in {0, 1}
    /\ owner \in Threads \cup {NULL}
    /\ pc \in [Threads -> Labels]
    /\ level \in [Threads -> BOOLEAN]
    /\ mie \in [Cpus -> BOOLEAN]
    /\ saved \in [Threads -> BOOLEAN]
    /\ resv \in [Cpus -> BOOLEAN]
    /\ cur \in [Cpus -> Threads \cup {NULL}]

\* At most one thread is between the acquisition and the release of
\* rt_spin_lock, although the test of owner, the lr/sc pair and the late
\* write owner = RT_NULL of the previous holder all interleave.
MutualExclusion ==
    \A t, u \in Threads : pc[t] \in Holding /\ pc[u] \in Holding => t = u

\* The test `owner != self` of rt_spin_lock skips the acquisition.  A thread
\* that is not inside the lock must therefore never find itself in owner.
OwnerIsInside ==
    \A t \in Threads : owner = t => pc[t] \in {"cs", "disown"}

\* The critical section of rt_spin_lock runs with interrupts disabled and its
\* thread is on its core: nothing on that core can preempt the holder there.
SectionNotPreempted ==
    \A t \in Threads : pc[t] \in {"own", "cs"} => Running(t) /\ ~mie[Bind[t]]

-----------------------------------------------------------------------------
(* The lock as its users see it *)

\* How often each thread has the lock, from the sc.w that succeeds to the write that
\* clears lock->lock.
Held == [t \in Threads |-> IF pc[t] \in Holding THEN 1 ELSE 0]

\* rt_spin_lock and rt_spin_unlock implement PriorityLock, with nobody queued: as the
\* threads of all cores see it the lock is taken in one step, while it is free, and
\* given back in one step by the thread that has it.
Lock == INSTANCE PriorityLock
    WITH Users <- Threads, Urgency <- [t \in Threads |-> 0], None <- NULL,
         holds <- Held, heir <- NULL, waiting <- {}
TakenInOneStep == Lock!Spec
=============================================================================
