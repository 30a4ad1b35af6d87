--------------------------- MODULE SchedulerProofs ---------------------------
(***************************************************************************)
(* Proofs about module Scheduler, for every set of threads, all priorities, *)
(* every time slice and every nesting of rt_enter_critical, under the       *)
(* condition NoTimedVictim.                                                 *)
(***************************************************************************)
EXTENDS Scheduler, ListProofs

\* No thread that sleeps with a timeout is deleted by another one: otherwise the
\* timeout may come between the sections of rt_thread_delete (run SchedulerDelete).
NoTimedVictim == Sleepers \cap Victims = {}

\* Thread t is linked in the list of priority p.
Linked(q, t, p) == t \in ToSet(q.table[p])

\* The lists hold nothing twice, and priority_group has the bits of the others
\* than the empty ones.
QueueOK(q) ==
    /\ q.table \in [Prios -> Seq(Threads)] /\ q.group \subseteq Prios
    /\ \A p \in Prios : IsInjective(q.table[p])
    /\ \A p \in Prios : p \in q.group <=> q.table[p] # <<>>

Exact ==
    /\ QueueOK(rq)
    /\ \A t \in Threads, p \in Prios :
          Linked(rq, t, p) <=> stat[t] = "READY" /\ prio[t] = p /\ ~Unqueued(t)

\* The thread on the core is not being deleted; the idle thread never leaves the
\* scheduler, so that there is always a thread to switch to.
OnCore ==
    /\ OneThreadOnCore
    /\ stat[cur] \in {"RUNNING", "SUSPEND"} /\ ~Unqueued(cur)
    /\ stat[Idle] \in {"READY", "RUNNING"} /\ prio[Idle] = InitPrio[Idle]

Timers == \A t \in Threads : timer[t] => t \in Sleepers /\ stat[t] = "SUSPEND"

\* A thread suspends or deletes another one only in the steps of rt_thread_suspend and
\* of rt_thread_delete, never itself or the idle thread.
Deletions ==
    \A t \in Threads :
        /\ pc[t] \in {"run", "sched"} => victim[t] = Nobody
        /\ pc[t] = "suspend" => victim[t] \in Threads \ {t, Idle}
        /\ pc[t] \in {"unqueue", "detach", "close"} => victim[t] \in Victims \ {t}

\* The inductive invariant.  That the ready queue is exact rests on who has the
\* core (rt_schedule_insert_thread does not queue a thread that has it), and on
\* nobody but the deleting thread using a thread that is being deleted.
IInv == TypeOK /\ Exact /\ OnCore /\ Timers /\ Deletions

-----------------------------------------------------------------------------
(* The operations on the ready queue *)

\* rt_list_remove on the table of a ready queue.
LEMMA UnlinkTable ==
    ASSUME NEW q, QueueOK(q), NEW t
    PROVE  /\ Unlink(q.table, t) \in [Prios -> Seq(Threads)]
           /\ \A p \in Prios : /\ ToSet(Unlink(q.table, t)[p]) = ToSet(q.table[p]) \ {t}
                               /\ IsInjective(Unlink(q.table, t)[p])
<1>1. q.table \in [Prios -> Seq(Threads)] /\ DOMAIN q.table = Prios
  BY DEF QueueOK
<1>2. ASSUME NEW p \in Prios
      PROVE  /\ Unlink(q.table, t)[p] \in Seq(Threads)
             /\ ToSet(Unlink(q.table, t)[p]) = ToSet(q.table[p]) \ {t}
             /\ IsInjective(Unlink(q.table, t)[p])
  <2>1. Unlink(q.table, t)[p] = Without(q.table[p], t)
    BY <1>1 DEF Unlink
  <2>2. q.table[p] \in Seq(Threads) /\ IsInjective(q.table[p])
    BY <1>1 DEF QueueOK
  <2> QED
    BY <2>1, <2>2, WithoutProperties
<1>3. Unlink(q.table, t) = [p \in Prios |-> Unlink(q.table, t)[p]]
  BY <1>1 DEF Unlink
<1> QED
  BY <1>2, <1>3

\* An inserted thread is linked in the list of its priority, and nobody else moves.
LEMMA EnqueueLinks ==
    ASSUME NEW q, QueueOK(q), NEW t \in Threads, NEW p \in Prios, ~Linked(q, t, p)
    PROVE  /\ QueueOK(Enqueue(q, t, p))
           /\ \A u \in Threads, r \in Prios :
                 Linked(Enqueue(q, t, p), u, r) <=> Linked(q, u, r) \/ (u = t /\ r = p)
<1> DEFINE e == Enqueue(q, t, p)
           a == Append(q.table[p], t)
<1>1. /\ q.table \in [Prios -> Seq(Threads)] /\ q.group \subseteq Prios
      /\ q.table[p] \in Seq(Threads) /\ IsInjective(q.table[p]) /\ t \notin ToSet(q.table[p])
  BY DEF QueueOK, Linked
<1>2. e.table = [q.table EXCEPT ![p] = a] /\ e.group = q.group \cup {p}
  BY DEF Enqueue
<1>3. a \in Seq(Threads) /\ a # <<>> /\ ToSet(a) = ToSet(q.table[p]) \cup {t} /\ IsInjective(a)
  BY <1>1, AppendAdds
<1> HIDE DEF e, a
<1>4. QueueOK(e)
  BY <1>1, <1>2, <1>3 DEF QueueOK
<1>5. \A u \in Threads, r \in Prios : Linked(e, u, r) <=> Linked(q, u, r) \/ (u = t /\ r = p)
  BY <1>1, <1>2, <1>3 DEF Linked
<1> QED
  BY <1>4, <1>5 DEF e

\* A removed thread that is in no list but that of priority p is in none afterwards,
\* and the bit of p stays exact.
LEMMA DequeueUnlinks ==
    ASSUME NEW q, QueueOK(q), NEW t, NEW p \in Prios,
           \A r \in Prios : r # p => ~Linked(q, t, r)
    PROVE  /\ QueueOK(Dequeue(q, t, p))
           /\ \A u \in Threads, r \in Prios :
                 Linked(Dequeue(q, t, p), u, r) <=> Linked(q, u, r) /\ u # t
<1> DEFINE d == Dequeue(q, t, p)
           w == Unlink(q.table, t)
<1>1. /\ w \in [Prios -> Seq(Threads)]
      /\ \A r \in Prios : ToSet(w[r]) = ToSet(q.table[r]) \ {t} /\ IsInjective(w[r])
  BY UnlinkTable
<1>2. d.table = w /\ d.group = IF w[p] = <<>> THEN q.group \ {p} ELSE q.group
  BY DEF Dequeue
<1> HIDE DEF d, w
<1>3. /\ q.table \in [Prios -> Seq(Threads)] /\ q.group \subseteq Prios
      /\ \A r \in Prios : r \in q.group <=> q.table[r] # <<>>
  BY DEF QueueOK
<1>4. ASSUME NEW r \in Prios PROVE r \in q.group <=> ToSet(q.table[r]) # {}
  <2>1. q.table[r] \in Seq(Threads) /\ (r \in q.group <=> q.table[r] # <<>>)
    BY <1>3
  <2>2. q.table[r] = <<>> <=> ToSet(q.table[r]) = {}
    BY ONLY <2>1, EmptyProperties
  <2> QED
    BY <2>1, <2>2
<1>5. ASSUME NEW r \in Prios PROVE w[r] # <<>> <=> ToSet(w[r]) # {}
  BY <1>1, EmptyProperties
<1>6. \A r \in Prios : r # p => ToSet(w[r]) = ToSet(q.table[r])
  BY <1>1 DEF Linked
<1>7. p \in q.group \/ w[p] = <<>>
  BY <1>1, <1>4, <1>5
<1>8. \A r \in Prios : r \in d.group <=> w[r] # <<>>
  BY <1>2, <1>4, <1>5, <1>6, <1>7
<1>9. QueueOK(d)
  BY <1>1, <1>2, <1>3, <1>8 DEF QueueOK
<1>10. \A u \in Threads, r \in Prios : Linked(d, u, r) <=> Linked(q, u, r) /\ u # t
  BY <1>1, <1>2 DEF Linked
<1> QED
  BY <1>9, <1>10 DEF d

\* __rt_ffs(priority_group) leads to a thread, in the most urgent list there is.
LEMMA HighestLinked ==
    ASSUME NEW q, QueueOK(q), q.group # {}
    PROVE  LET h == LowestOf(q.group)
           IN  /\ h \in Prios /\ \A r \in q.group : h <= r
               /\ Head(q.table[h]) \in Threads /\ Linked(q, Head(q.table[h]), h)
<1> DEFINE h == LowestOf(q.group)
<1>1. q.group \subseteq Nat
  BY PrioAssumption DEF QueueOK
<1>2. h = Min(q.group)
  BY DEF LowestOf, Min
<1>3. h \in q.group /\ \A r \in q.group : h <= r
  BY <1>1, <1>2, MinInSet
<1> HIDE DEF h
<1>4. h \in Prios /\ q.table[h] \in Seq(Threads) /\ q.table[h] # <<>>
  BY <1>3 DEF QueueOK
<1>5. Head(q.table[h]) \in Threads /\ Linked(q, Head(q.table[h]), h)
  BY <1>4, HeadProperties DEF Linked
<1> QED
  BY <1>3, <1>4, <1>5 DEF h

-----------------------------------------------------------------------------
(* The initial state *)

LEMMA InitInv == Init => IInv
<1> SUFFICES ASSUME Init PROVE IInv
  OBVIOUS
<1> USE ThreadAssumption, PrioAssumption, BoundAssumption
<1> DEFINE q == [table |-> [p \in Prios |-> <<>>], group |-> {}]
<1>1. ToSet(<<>>) = {} /\ IsInjective(<<>>)
  BY DEF ToSet, IsInjective
<1>2. QueueOK(q) /\ \A t \in Threads, p \in Prios : ~Linked(q, t, p)
  BY <1>1 DEF QueueOK, Linked
<1>3. InitPrio[Idle] \in Prios /\ Idle \in Threads /\ Main \in Threads /\ Main # Idle
  OBVIOUS
<1>4. rq = Enqueue(q, Idle, InitPrio[Idle])
  BY DEF Init
<1> HIDE DEF q
<1>5. /\ QueueOK(rq)
      /\ \A t \in Threads, p \in Prios : Linked(rq, t, p) <=> t = Idle /\ p = InitPrio[Idle]
  <2>1. QueueOK(q) /\ Idle \in Threads /\ InitPrio[Idle] \in Prios
    BY <1>2, <1>3
  <2>2. ~Linked(q, Idle, InitPrio[Idle])
    BY <1>2, <1>3
  <2>3. /\ QueueOK(rq)
        /\ \A t \in Threads, p \in Prios :
              Linked(rq, t, p) <=> Linked(q, t, p) \/ (t = Idle /\ p = InitPrio[Idle])
    BY ONLY <1>4, <2>1, <2>2, EnqueueLinks
  <2> QED
    BY <1>2, <2>3
<1>6. \A t \in Threads : ~Unqueued(t)
  BY DEF Init, Unqueued
<1>7. stat = [t \in Threads |-> IF t = Main THEN "RUNNING" ELSE IF t = Idle THEN "READY" ELSE "INIT"]
  BY DEF Init
<1>8. Exact
  BY <1>3, <1>5, <1>6, <1>7 DEF Exact, Init
<1>9. TypeOK
  <2>1. stat \in [Threads -> States]
    BY <1>7 DEF States
  <2>2. rq.table \in [Prios -> Seq(Threads)] /\ rq.group \subseteq Prios
    BY <1>5 DEF QueueOK
  <2>3. cur \in Threads /\ cpuprio \in Prios /\ prio \in [Threads -> Prios]
    BY <1>3 DEF Init
  <2>4. /\ remaining \in [Threads -> 1..Slice] /\ crit \in [Threads -> 0..MaxNest]
        /\ yield \in [Threads -> BOOLEAN] /\ oncpu \in [Threads -> BOOLEAN]
        /\ timer \in [Threads -> BOOLEAN]
    BY DEF Init
  <2>5. /\ pc \in [Threads -> {"run", "sched", "suspend", "unqueue", "detach", "close"}]
        /\ victim \in [Threads -> Threads \cup {Nobody}]
        /\ flag \in BOOLEAN /\ isr \in {"none", "tick", "device"}
    BY DEF Init
  <2> QED
    BY <2>1, <2>2, <2>3, <2>4, <2>5 DEF TypeOK
<1>10. OnCore
  BY <1>3, <1>6, <1>7 DEF OnCore, OneThreadOnCore, Init
<1>11. Timers /\ Deletions
  BY DEF Timers, Deletions, Init
<1> QED
  BY <1>8, <1>9, <1>10, <1>11 DEF IInv

-----------------------------------------------------------------------------
(* What the steps do to the ready queue and the core *)

\* A thread that moves on outside rt_thread_delete has unqueued nobody.
LEMMA MoveKeepsUnqueued ==
    ASSUME IInv, NEW t \in Threads, NEW l, {pc[t], l} \cap {"detach", "close"} = {},
           pc' = [pc EXCEPT ![t] = l], \A u \in Threads \ {t} : victim'[u] = victim[u]
    PROVE  \A v : Unqueued(v)' <=> Unqueued(v)
<1>1. pc'[t] = l /\ \A u \in Threads \ {t} : pc'[u] = pc[u]
  BY DEF IInv, TypeOK
<1> QED
  BY <1>1 DEF Unqueued

\* rt_thread_delete takes its victims out of their lists, and nobody else.
LEMMA UnqueuedIsVictim ==
    ASSUME IInv, NEW u \in Threads, Unqueued(u) PROVE u \in Victims
  BY DEF IInv, Deletions, Unqueued

\* A thread that others may use is not unqueued.
LEMMA UsableIsQueued ==
    ASSUME NEW u, Usable(u) PROVE ~Unqueued(u)
  BY DEF Usable, Unqueued

\* rt_schedule_insert_thread keeps the queue exact: a thread that has the core
\* becomes RUNNING and is not queued.
LEMMA InsertKeeps ==
    ASSUME IInv, NEW u \in Threads, stat[u] = "SUSPEND", ~Unqueued(u), InsertThread(u),
           timer' = [timer EXCEPT ![u] = FALSE], UNCHANGED <<oncpu, prio, cur>>,
           \A v : Unqueued(v)' <=> Unqueued(v)
    PROVE  Exact' /\ OnCore' /\ Timers' /\ stat' \in [Threads -> States]
<1> DEFINE p == prio[u]
<1>1. /\ stat \in [Threads -> States] /\ prio \in [Threads -> Prios] /\ p \in Prios
      /\ timer \in [Threads -> BOOLEAN]
  BY DEF IInv, TypeOK
<1>2. /\ QueueOK(rq) /\ \A r \in Prios : ~Linked(rq, u, r)
      /\ \A t \in Threads, r \in Prios :
            Linked(rq, t, r) <=> stat[t] = "READY" /\ prio[t] = r /\ ~Unqueued(t)
  BY DEF IInv, Exact
<1>3. \A t : Unqueued(t)' <=> Unqueued(t)
  OBVIOUS
<1>4. u # Idle /\ (oncpu[u] <=> u = cur)
  BY DEF IInv, OnCore, OneThreadOnCore
<1>5. CASE oncpu[u]
  <2>1. stat' = [stat EXCEPT ![u] = "RUNNING"] /\ rq' = rq /\ u = cur
    BY <1>4, <1>5 DEF InsertThread
  <2>2. Exact'
    BY <1>1, <1>2, <1>3, <2>1 DEF Exact, Linked
  <2>3. OnCore'
    BY <1>1, <1>3, <1>4, <2>1 DEF IInv, OnCore, OneThreadOnCore
  <2> QED
    BY <1>1, <2>1, <2>2, <2>3 DEF IInv, Timers, States
<1>6. CASE ~oncpu[u]
  <2>1. stat' = [stat EXCEPT ![u] = "READY"] /\ rq' = Enqueue(rq, u, p) /\ u # cur
    BY <1>4, <1>6 DEF InsertThread
  <2>2. /\ QueueOK(rq')
        /\ \A t \in Threads, r \in Prios : Linked(rq', t, r) <=> Linked(rq, t, r) \/ (t = u /\ r = p)
    BY <1>1, <1>2, <2>1, EnqueueLinks
  <2>3. Exact'
    BY <1>1, <1>2, <1>3, <2>1, <2>2 DEF Exact, Linked
  <2>4. OnCore'
    BY <1>1, <1>3, <1>4, <2>1 DEF IInv, OnCore, OneThreadOnCore
  <2> QED
    BY <1>1, <2>1, <2>3, <2>4 DEF IInv, Timers, States
<1> QED
  BY <1>5, <1>6

\* What rt_schedule and rt_scheduler_do_irq_switch leave: the thread on the core is
\* as urgent as any ready thread, if it is RUNNING.
MostUrgentOnCore ==
    stat[cur] = "RUNNING" =>
        \A t \in Threads : stat[t] = "READY" /\ ~Unqueued(t) => prio[cur] <= prio[t]

\* A switch, or the decision not to switch, of rt_schedule.
LEMMA SwitchKeeps ==
    ASSUME IInv, NEW y \in BOOLEAN, SwitchThread(y), UNCHANGED <<prio, timer>>,
           \A v : Unqueued(v)' <=> Unqueued(v)
    PROVE  /\ Exact' /\ OnCore' /\ Timers' /\ MostUrgentOnCore'
           /\ stat' \in [Threads -> States] /\ yield' \in [Threads -> BOOLEAN]
           /\ oncpu' \in [Threads -> BOOLEAN] /\ cur' \in Threads /\ cpuprio' \in Prios
<1>1. /\ stat \in [Threads -> States] /\ prio \in [Threads -> Prios]
      /\ timer \in [Threads -> BOOLEAN] /\ yield \in [Threads -> BOOLEAN]
      /\ oncpu \in [Threads -> BOOLEAN] /\ cur \in Threads /\ cpuprio \in Prios
  BY DEF IInv, TypeOK
<1>2. /\ QueueOK(rq)
      /\ \A t \in Threads, r \in Prios :
            Linked(rq, t, r) <=> stat[t] = "READY" /\ prio[t] = r /\ ~Unqueued(t)
  BY DEF IInv, Exact
<1>3. \A t : Unqueued(t)' <=> Unqueued(t)
  OBVIOUS
<1>4. /\ \A t \in Threads : oncpu[t] <=> t = cur
      /\ \A t \in Threads : stat[t] = "RUNNING" => t = cur
      /\ stat[cur] \in {"RUNNING", "SUSPEND"} /\ ~Unqueued(cur)
      /\ stat[Idle] \in {"READY", "RUNNING"} /\ prio[Idle] = InitPrio[Idle]
  BY DEF IInv, OnCore, OneThreadOnCore
<1>5. yield' \in [Threads -> BOOLEAN]
  BY <1>1 DEF SwitchThread
<1>6. \A t \in Threads : stat[t] = "READY" /\ ~Unqueued(t) => prio[t] \in rq.group
  BY <1>1, <1>2 DEF QueueOK, Linked, ToSet
<1>7. /\ \A r \in Prios : r \in Int
      /\ \A t \in Threads : prio[t] \in Int
  <2>1. \A r \in Prios : r \in Int
    BY PrioAssumption
  <2>2. \A t \in Threads : prio[t] \in Prios
    BY <1>1
  <2> QED
    BY ONLY <2>1, <2>2
<1>8. CASE UNCHANGED <<stat, oncpu, rq, cur, cpuprio>> /\ (rq.group = {} \/ KeepsCore(y))
  <2>1. Exact' /\ OnCore' /\ Timers'
    BY <1>3, <1>8 DEF IInv, Exact, OnCore, OneThreadOnCore, Timers, Linked
  <2>2. MostUrgentOnCore
    <3> SUFFICES ASSUME stat[cur] = "RUNNING", NEW t \in Threads, stat[t] = "READY", ~Unqueued(t)
                 PROVE  prio[cur] <= prio[t]
      BY DEF MostUrgentOnCore
    <3>1. prio[t] \in rq.group /\ KeepsCore(y)
      BY <1>6, <1>8
    <3>2. Highest \in Prios /\ Highest <= prio[t]
      BY <1>2, <3>1, HighestLinked DEF Highest
    <3> QED
      <4>1. prio[cur] \in Int /\ prio[t] \in Int /\ Highest \in Int
        BY <1>1, <1>7, <3>2
      <4>2. prio[cur] < Highest \/ prio[cur] = Highest
        BY <3>1 DEF KeepsCore
      <4> HIDE DEF Highest
      <4> QED
        BY ONLY <3>2, <4>1, <4>2
  <2>3. MostUrgentOnCore'
    BY <1>3, <1>8, <2>2 DEF MostUrgentOnCore
  <2> QED
    BY <1>1, <1>5, <1>8, <2>1, <2>3
<1>9. CASE rq.group # {} /\ ~KeepsCore(y)
  <2> DEFINE h == Highest
             to == HighestThread
             q == IF stat[cur] = "RUNNING" THEN Enqueue(rq, cur, prio[cur]) ELSE rq
  <2>1. /\ stat' = [stat EXCEPT ![cur] = IF @ = "RUNNING" THEN "READY" ELSE @, ![to] = "RUNNING"]
        /\ oncpu' = [oncpu EXCEPT ![cur] = FALSE, ![to] = TRUE]
        /\ rq' = Dequeue(q, to, prio[to]) /\ cur' = to /\ cpuprio' = h
    BY <1>9 DEF SwitchThread
  <2>2. h \in Prios /\ (\A r \in rq.group : h <= r) /\ to \in Threads /\ Linked(rq, to, h)
    BY <1>2, <1>9, HighestLinked DEF Highest, HighestThread
  <2> HIDE DEF h, to
  <2>3. stat[to] = "READY" /\ prio[to] = h /\ ~Unqueued(to) /\ to # cur
    BY <1>2, <1>4, <2>2
  <2>4. /\ QueueOK(q)
        /\ \A t \in Threads, r \in Prios : Linked(q, t, r) <=>
              Linked(rq, t, r) \/ (stat[cur] = "RUNNING" /\ t = cur /\ r = prio[cur])
    <3>1. CASE stat[cur] = "RUNNING"
      <4>1. ~Linked(rq, cur, prio[cur]) /\ prio[cur] \in Prios
        BY <1>1, <1>2, <3>1
      <4> QED
        BY <1>1, <1>2, <3>1, <4>1, EnqueueLinks
    <3>2. CASE stat[cur] # "RUNNING"
      BY <1>2, <3>2
    <3> QED
      BY <3>1, <3>2
  <2> HIDE DEF q
  <2>5. \A r \in Prios : r # h => ~Linked(q, to, r)
    BY <1>2, <2>2, <2>3, <2>4
  <2>6. /\ QueueOK(rq')
        /\ \A t \in Threads, r \in Prios : Linked(rq', t, r) <=> Linked(q, t, r) /\ t # to
    BY <2>1, <2>2, <2>3, <2>4, <2>5, DequeueUnlinks
  <2>7. /\ stat'[to] = "RUNNING" /\ stat'[cur] = IF stat[cur] = "RUNNING" THEN "READY" ELSE stat[cur]
        /\ \A t \in Threads : t # to /\ t # cur => stat'[t] = stat[t]
        /\ stat' \in [Threads -> States] /\ oncpu' \in [Threads -> BOOLEAN]
    BY <1>1, <2>1, <2>2, <2>3 DEF States
  <2>8. Exact'
    <3>1. ASSUME NEW t \in Threads, NEW r \in Prios
          PROVE  Linked(rq', t, r) <=> stat'[t] = "READY" /\ prio[t] = r /\ ~Unqueued(t)
      BY <1>1, <1>2, <1>4, <2>3, <2>4, <2>6, <2>7
    <3> QED
      BY <1>3, <2>6, <3>1 DEF Exact
  <2>9. OnCore'
    <3>1. OneThreadOnCore'
      BY <1>1, <1>4, <2>1, <2>2, <2>3, <2>7 DEF OneThreadOnCore
    <3>2. stat'[Idle] \in {"READY", "RUNNING"}
      BY <1>4, <2>3, <2>7, ThreadAssumption
    <3> QED
      BY <1>3, <1>4, <2>1, <2>3, <2>7, <3>1, <3>2 DEF OnCore
  <2>10. Timers'
    BY <1>1, <1>4, <2>3, <2>7 DEF IInv, Timers
  <2>11. MostUrgentOnCore'
    <3> SUFFICES ASSUME NEW t \in Threads, stat'[t] = "READY", ~Unqueued(t)
                 PROVE  prio[to] <= prio[t]
      BY <1>3, <2>1 DEF MostUrgentOnCore
    <3>1. CASE t = cur
      <4>1. stat[cur] = "RUNNING" /\ ~(prio[cur] < h)
        BY <1>4, <1>9, <2>7, <3>1 DEF KeepsCore, h
      <4>2. prio[cur] \in Int /\ h \in Int
        BY <1>1, <1>7, <2>2
      <4> QED
        BY <2>3, <3>1, <4>1, <4>2
    <3>2. CASE t # cur
      BY <1>6, <2>2, <2>3, <2>7, <3>2
    <3> QED
      BY <3>1, <3>2
  <2> QED
    BY <1>5, <2>1, <2>2, <2>7, <2>8, <2>9, <2>10, <2>11
<1> QED
  BY <1>8, <1>9 DEF SwitchThread

\* rt_schedule_remove_thread takes the thread out of its list, whatever its stat is.
LEMMA RemoveKeeps ==
    ASSUME IInv, NEW u \in Threads
    PROVE  LET q == Dequeue(rq, u, prio[u])
           IN  /\ QueueOK(q)
               /\ \A t \in Threads, r \in Prios : Linked(q, t, r) <=>
                     stat[t] = "READY" /\ prio[t] = r /\ ~Unqueued(t) /\ t # u
<1>1. QueueOK(rq) /\ prio[u] \in Prios
  BY DEF IInv, Exact, TypeOK
<1>2. \A t \in Threads, r \in Prios :
            Linked(rq, t, r) <=> stat[t] = "READY" /\ prio[t] = r /\ ~Unqueued(t)
  BY DEF IInv, Exact
<1>3. \A r \in Prios : r # prio[u] => ~Linked(rq, u, r)
  BY <1>2
<1>4. /\ QueueOK(Dequeue(rq, u, prio[u]))
      /\ \A t \in Threads, r \in Prios :
            Linked(Dequeue(rq, u, prio[u]), t, r) <=> Linked(rq, t, r) /\ t # u
  BY ONLY <1>1, <1>3, DequeueUnlinks
<1> QED
  BY <1>2, <1>4

\* A step that does not touch the queue, the core, or the threads' states.
LEMMA SameKeeps ==
    ASSUME IInv, UNCHANGED <<stat, oncpu, prio, timer, rq, cur>>,
           \A v : Unqueued(v)' <=> Unqueued(v)
    PROVE  Exact' /\ OnCore' /\ Timers'
  BY DEF IInv, Exact, OnCore, OneThreadOnCore, Timers, Linked

-----------------------------------------------------------------------------
(* The steps *)

LEMMA ScheduleKeeps == IInv /\ Schedule => IInv'
<1> SUFFICES ASSUME IInv, Schedule PROVE IInv'
  OBVIOUS
<1>1. /\ yield[cur] \in BOOLEAN /\ cur \in Threads
      /\ pc' = [pc EXCEPT ![cur] = "run"] /\ pc[cur] = "sched"
      /\ UNCHANGED <<prio, timer, remaining, crit, victim, flag, isr>>
  BY DEF IInv, TypeOK, Schedule
<1>2. /\ Exact' /\ OnCore' /\ Timers'
      /\ stat' \in [Threads -> States] /\ yield' \in [Threads -> BOOLEAN]
      /\ oncpu' \in [Threads -> BOOLEAN] /\ cur' \in Threads /\ cpuprio' \in Prios
  <2>0. \A v : Unqueued(v)' <=> Unqueued(v)
    BY <1>1, MoveKeepsUnqueued
  <2>1. CASE SwitchThread(yield[cur])
    BY <1>1, <2>0, <2>1, SwitchKeeps
  <2>2. CASE UNCHANGED <<stat, yield, oncpu, rq, cur, cpuprio>>
    BY <1>1, <2>0, <2>2, SameKeeps DEF IInv, TypeOK
  <2> QED
    BY <2>1, <2>2 DEF Schedule
<1>3. TypeOK'
  BY <1>1, <1>2 DEF IInv, TypeOK, Exact, QueueOK
<1>4. Deletions'
  BY <1>1 DEF IInv, Deletions, TypeOK
<1> QED
  BY <1>2, <1>3, <1>4 DEF IInv

LEMMA YieldKeeps == ASSUME NEW t \in Threads PROVE IInv /\ Yield(t) => IInv'
<1> SUFFICES ASSUME IInv, Yield(t) PROVE IInv'
  OBVIOUS
<1>1. /\ cur = t /\ remaining' = [remaining EXCEPT ![t] = Slice]
      /\ UNCHANGED <<prio, timer, crit, pc, victim, flag, isr>>
  BY DEF Yield, Calls
<1>2. /\ Exact' /\ OnCore' /\ Timers'
      /\ stat' \in [Threads -> States] /\ yield' \in [Threads -> BOOLEAN]
      /\ oncpu' \in [Threads -> BOOLEAN] /\ cur' \in Threads /\ cpuprio' \in Prios
  <2>0. \A v : Unqueued(v)' <=> Unqueued(v)
    BY <1>1 DEF Unqueued
  <2>1. CASE SwitchThread(TRUE)
    BY <1>1, <2>0, <2>1, SwitchKeeps
  <2>2. CASE yield' = [yield EXCEPT ![t] = TRUE] /\ UNCHANGED <<stat, oncpu, rq, cur, cpuprio>>
    BY <1>1, <2>0, <2>2, SameKeeps DEF IInv, TypeOK
  <2> QED
    BY <2>1, <2>2 DEF Yield
<1>3. remaining' \in [Threads -> 1..Slice]
  BY <1>1, BoundAssumption DEF IInv, TypeOK
<1>4. TypeOK'
  BY <1>1, <1>2, <1>3 DEF IInv, TypeOK, Exact, QueueOK
<1>5. Deletions'
  BY <1>1 DEF IInv, Deletions
<1> QED
  BY <1>2, <1>4, <1>5 DEF IInv

LEMMA StartupKeeps ==
    ASSUME NEW t \in Threads, NEW u \in Threads PROVE IInv /\ Startup(t, u) => IInv'
<1> SUFFICES ASSUME IInv, Startup(t, u) PROVE IInv'
  OBVIOUS
<1> DEFINE p == InitPrio[u]
<1>1. /\ stat[u] = "INIT" /\ ~Unqueued(u) /\ p \in Prios /\ cur = t
      /\ prio' = [prio EXCEPT ![u] = p] /\ stat' = [stat EXCEPT ![u] = "READY"]
      /\ rq' = Enqueue(rq, u, p) /\ pc' = [pc EXCEPT ![t] = "sched"] /\ pc[t] = "run"
      /\ UNCHANGED <<yield, oncpu, timer, remaining, crit, victim, cur, cpuprio, flag, isr>>
  BY PrioAssumption, UsableIsQueued DEF Startup, Calls
<1> HIDE DEF p
<1>2. /\ QueueOK(rq) /\ ~Linked(rq, u, p)
      /\ \A v \in Threads, r \in Prios :
            Linked(rq, v, r) <=> stat[v] = "READY" /\ prio[v] = r /\ ~Unqueued(v)
  BY <1>1 DEF IInv, Exact
<1>3. /\ QueueOK(rq')
      /\ \A v \in Threads, r \in Prios : Linked(rq', v, r) <=> Linked(rq, v, r) \/ (v = u /\ r = p)
  BY <1>1, <1>2, EnqueueLinks
<1>4. \A v : Unqueued(v)' <=> Unqueued(v)
  BY <1>1, MoveKeepsUnqueued
<1>5. /\ stat \in [Threads -> States] /\ prio \in [Threads -> Prios]
      /\ stat' \in [Threads -> States] /\ prio' \in [Threads -> Prios]
  BY <1>1 DEF IInv, TypeOK, States
<1>6. Exact'
  BY <1>1, <1>2, <1>3, <1>4, <1>5 DEF Exact
<1>7. OnCore'
  BY <1>1, <1>4, <1>5 DEF IInv, OnCore, OneThreadOnCore
<1>8. Timers' /\ Deletions'
  BY <1>1, <1>5 DEF IInv, Timers, Deletions, TypeOK
<1>9. TypeOK'
  BY <1>1, <1>3, <1>5 DEF IInv, TypeOK, QueueOK
<1> QED
  BY <1>6, <1>7, <1>8, <1>9 DEF IInv

LEMMA SuspendSelfKeeps ==
    ASSUME NEW t \in Threads, NEW timed \in BOOLEAN
    PROVE  IInv /\ SuspendSelf(t, timed) => IInv'
<1> SUFFICES ASSUME IInv, SuspendSelf(t, timed) PROVE IInv'
  OBVIOUS
<1>1. /\ cur = t /\ t # Idle /\ pc[t] = "run" /\ (timed => t \in Sleepers)
      /\ rq' = Dequeue(rq, t, prio[t]) /\ stat' = [stat EXCEPT ![t] = "SUSPEND"]
      /\ timer' = [timer EXCEPT ![t] = timed] /\ pc' = [pc EXCEPT ![t] = "sched"]
      /\ UNCHANGED <<yield, oncpu, prio, remaining, crit, victim, cur, cpuprio, flag, isr>>
  BY DEF SuspendSelf, Calls
<1>2. /\ QueueOK(rq')
      /\ \A v \in Threads, r \in Prios :
            Linked(rq', v, r) <=> stat[v] = "READY" /\ prio[v] = r /\ ~Unqueued(v) /\ v # t
  BY <1>1, RemoveKeeps
<1>3. \A v : Unqueued(v)' <=> Unqueued(v)
  BY <1>1, MoveKeepsUnqueued
<1>4. stat \in [Threads -> States] /\ stat' \in [Threads -> States]
  BY <1>1 DEF IInv, TypeOK, States
<1>5. Exact'
  BY <1>1, <1>2, <1>3, <1>4 DEF Exact
<1>6. OnCore'
  BY <1>1, <1>3, <1>4 DEF IInv, OnCore, OneThreadOnCore
<1>7. Timers' /\ Deletions'
  BY <1>1, <1>4 DEF IInv, Timers, Deletions, TypeOK
<1>8. TypeOK'
  BY <1>1, <1>2, <1>4 DEF IInv, TypeOK, QueueOK
<1> QED
  BY <1>5, <1>6, <1>7, <1>8 DEF IInv

LEMMA SuspendTestKeeps ==
    ASSUME NEW t \in Threads, NEW u \in Threads PROVE IInv /\ SuspendTest(t, u) => IInv'
<1> SUFFICES ASSUME IInv, SuspendTest(t, u) PROVE IInv'
  OBVIOUS
<1>1. /\ pc[t] = "run" /\ u # t /\ u # Idle
      /\ victim' = [victim EXCEPT ![t] = u] /\ pc' = [pc EXCEPT ![t] = "suspend"]
      /\ UNCHANGED <<stat, yield, oncpu, prio, timer, remaining, crit, rq, cur, cpuprio, flag, isr>>
  BY DEF SuspendTest, Calls
<1>2. \A v : Unqueued(v)' <=> Unqueued(v)
  BY <1>1, MoveKeepsUnqueued DEF IInv, TypeOK
<1>3. Exact' /\ OnCore' /\ Timers'
  BY <1>1, <1>2, SameKeeps
<1>4. TypeOK' /\ Deletions'
  BY <1>1 DEF IInv, TypeOK, Deletions
<1> QED
  BY <1>3, <1>4 DEF IInv

LEMMA SuspendOtherKeeps ==
    ASSUME NEW t \in Threads PROVE IInv /\ SuspendOther(t) => IInv'
<1> SUFFICES ASSUME IInv, SuspendOther(t) PROVE IInv'
  OBVIOUS
<1> DEFINE u == victim[t]
<1>1. /\ cur = t /\ pc[t] = "suspend"
      /\ rq' = Dequeue(rq, u, prio[u]) /\ stat' = [stat EXCEPT ![u] = "SUSPEND"]
      /\ timer' = [timer EXCEPT ![u] = FALSE]
      /\ victim' = [victim EXCEPT ![t] = Nobody] /\ pc' = [pc EXCEPT ![t] = "run"]
      /\ UNCHANGED <<yield, oncpu, prio, remaining, crit, cur, cpuprio, flag, isr>>
  BY DEF SuspendOther
<1>2. u \in Threads \ {t, Idle}
  BY <1>1 DEF IInv, Deletions
<1>3. \A v : Unqueued(v)' <=> Unqueued(v)
  BY <1>1, MoveKeepsUnqueued DEF IInv, TypeOK
<1> HIDE DEF u
<1>4. /\ QueueOK(rq')
      /\ \A v \in Threads, r \in Prios :
            Linked(rq', v, r) <=> stat[v] = "READY" /\ prio[v] = r /\ ~Unqueued(v) /\ v # u
  BY <1>1, <1>2, RemoveKeeps
<1>5. stat \in [Threads -> States] /\ stat' \in [Threads -> States]
  BY <1>1, <1>2 DEF IInv, TypeOK, States
<1>6. Exact'
  BY <1>1, <1>2, <1>3, <1>4, <1>5 DEF Exact
<1>7. OnCore'
  BY <1>1, <1>2, <1>3, <1>5 DEF IInv, OnCore, OneThreadOnCore
<1>8. Timers' /\ Deletions'
  BY <1>1, <1>2, <1>5 DEF IInv, Timers, Deletions, TypeOK
<1>9. TypeOK'
  BY <1>1, <1>2, <1>4, <1>5 DEF IInv, TypeOK, QueueOK
<1> QED
  BY <1>6, <1>7, <1>8, <1>9 DEF IInv

LEMMA ResumeKeeps ==
    ASSUME NEW t \in Threads, NEW u \in Threads PROVE IInv /\ Resume(t, u) => IInv'
<1> SUFFICES ASSUME IInv, Resume(t, u) PROVE IInv'
  OBVIOUS
<1>1. /\ stat[u] = "SUSPEND" /\ ~Unqueued(u) /\ InsertThread(u) /\ pc[t] = "run"
      /\ timer' = [timer EXCEPT ![u] = FALSE] /\ pc' = [pc EXCEPT ![t] = "sched"]
      /\ UNCHANGED <<yield, oncpu, prio, remaining, crit, victim, cur, cpuprio, flag, isr>>
  BY UsableIsQueued DEF Resume, Calls
<1>2. Exact' /\ OnCore' /\ Timers' /\ stat' \in [Threads -> States]
  <2>1. \A v : Unqueued(v)' <=> Unqueued(v)
    BY <1>1, MoveKeepsUnqueued
  <2> QED
    BY <1>1, <2>1, InsertKeeps
<1>3. TypeOK'
  BY <1>1, <1>2 DEF IInv, TypeOK, Exact, QueueOK
<1>4. Deletions'
  BY <1>1 DEF IInv, Deletions, TypeOK
<1> QED
  BY <1>2, <1>3, <1>4 DEF IInv

LEMMA ChangePriorityKeeps ==
    ASSUME NEW t \in Threads, NEW u \in Threads, NEW p \in NewPrios
    PROVE  IInv /\ ChangePriority(t, u, p) => IInv'
<1> SUFFICES ASSUME IInv, ChangePriority(t, u, p) PROVE IInv'
  OBVIOUS
<1>1. /\ p \in Prios /\ u # Idle /\ ~Unqueued(u) /\ prio' = [prio EXCEPT ![u] = p]
      /\ UNCHANGED <<stat, yield, oncpu, timer, remaining, crit, pc, victim, cur,
                     cpuprio, flag, isr>>
  BY PrioAssumption, UsableIsQueued DEF ChangePriority
<1>2. /\ stat \in [Threads -> States] /\ prio \in [Threads -> Prios]
      /\ prio' \in [Threads -> Prios]
      /\ QueueOK(rq)
      /\ \A v \in Threads, r \in Prios :
            Linked(rq, v, r) <=> stat[v] = "READY" /\ prio[v] = r /\ ~Unqueued(v)
  BY <1>1 DEF IInv, TypeOK, Exact
<1>3. \A v : Unqueued(v)' <=> Unqueued(v)
  BY <1>1 DEF Unqueued
<1>4. Exact'
  <2>1. CASE stat[u] = "READY"
    <3> DEFINE q == Dequeue(rq, u, prio[u])
    <3>1. rq' = Enqueue(q, u, p)
      BY <2>1 DEF ChangePriority
    <3>2. /\ QueueOK(q)
          /\ \A v \in Threads, r \in Prios : Linked(q, v, r) <=>
                stat[v] = "READY" /\ prio[v] = r /\ ~Unqueued(v) /\ v # u
      BY RemoveKeeps
    <3> HIDE DEF q
    <3>3. ~Linked(q, u, p)
      BY <1>1, <3>2
    <3>4. /\ QueueOK(rq')
          /\ \A v \in Threads, r \in Prios : Linked(rq', v, r) <=> Linked(q, v, r) \/ (v = u /\ r = p)
      BY <1>1, <3>1, <3>2, <3>3, EnqueueLinks
    <3> QED
      BY <1>1, <1>2, <1>3, <2>1, <3>2, <3>4 DEF Exact
  <2>2. CASE stat[u] # "READY"
    <3>1. rq' = rq
      BY <2>2 DEF ChangePriority
    <3> QED
      BY <1>1, <1>2, <1>3, <2>2, <3>1 DEF Exact, Linked
  <2> QED
    BY <2>1, <2>2
<1>5. OnCore'
  BY <1>1, <1>2, <1>3 DEF IInv, OnCore, OneThreadOnCore
<1>6. Timers' /\ Deletions'
  BY <1>1 DEF IInv, Timers, Deletions
<1>7. TypeOK'
  BY <1>1, <1>2, <1>4 DEF IInv, TypeOK, Exact, QueueOK
<1> QED
  BY <1>4, <1>5, <1>6, <1>7 DEF IInv

LEMMA CriticalKeeps ==
    ASSUME NEW t \in Threads
    PROVE  IInv /\ (EnterCritical(t) \/ ExitCritical(t)) => IInv'
<1> SUFFICES ASSUME IInv, EnterCritical(t) \/ ExitCritical(t) PROVE IInv'
  OBVIOUS
<1>1. UNCHANGED <<stat, yield, oncpu, prio, timer, remaining, victim, rq, cur, cpuprio, flag, isr>>
  BY DEF EnterCritical, ExitCritical
<1>2. /\ pc[t] = "run"
      /\ pc' = pc \/ pc' = [pc EXCEPT ![t] = IF crit[t] = 1 THEN "sched" ELSE @]
  BY DEF EnterCritical, ExitCritical, Calls
<1>3. Exact' /\ OnCore' /\ Timers'
  <2>1. \A v : Unqueued(v)' <=> Unqueued(v)
    BY <1>1, <1>2 DEF IInv, TypeOK, Unqueued
  <2> QED
    BY <1>1, <2>1, SameKeeps
<1>4. crit \in [Threads -> 0..MaxNest] /\ MaxNest \in Nat
  BY BoundAssumption DEF IInv, TypeOK
<1>5. crit' \in [Threads -> 0..MaxNest]
  <2>1. CASE EnterCritical(t)
    BY <1>4, <2>1 DEF EnterCritical
  <2>2. CASE ExitCritical(t)
    BY <1>4, <2>2 DEF ExitCritical
  <2> QED
    BY <2>1, <2>2
<1>6. TypeOK'
  BY <1>1, <1>2, <1>5 DEF IInv, TypeOK
<1>7. Deletions'
  BY <1>1, <1>2 DEF IInv, Deletions, TypeOK
<1> QED
  BY <1>3, <1>6, <1>7 DEF IInv

\* There is always a thread to switch to: the idle thread is READY when another
\* thread has the core.
LEMMA IdleIsReady ==
    ASSUME IInv, cur # Idle
    PROVE  /\ rq.group # {} /\ stat[HighestThread] = "READY" /\ ~Unqueued(HighestThread)
           /\ HighestThread \in Threads \ {cur} /\ Highest \in Prios
           /\ prio[HighestThread] = Highest
<1>1. Idle \in Threads /\ ~Unqueued(Idle)
  BY ThreadAssumption, UnqueuedIsVictim
<1>2. /\ QueueOK(rq) /\ prio[Idle] \in Prios
      /\ \A t \in Threads, r \in Prios :
            Linked(rq, t, r) <=> stat[t] = "READY" /\ prio[t] = r /\ ~Unqueued(t)
  BY <1>1 DEF IInv, Exact, TypeOK
<1>3. stat[Idle] = "READY"
  BY <1>1 DEF IInv, OnCore, OneThreadOnCore
<1>4. Linked(rq, Idle, prio[Idle])
  BY <1>1, <1>2, <1>3
<1>5. rq.group # {}
  BY <1>2, <1>4 DEF QueueOK, Linked, ToSet
<1>6. /\ Highest \in Prios /\ HighestThread \in Threads
      /\ Linked(rq, HighestThread, Highest)
  BY <1>2, <1>5, HighestLinked DEF Highest, HighestThread
<1>7. stat[cur] # "READY"
  BY DEF IInv, OnCore
<1> QED
  BY <1>2, <1>5, <1>6, <1>7

LEMMA ExitKeeps == ASSUME NEW t \in Threads PROVE IInv /\ Exit(t) => IInv'
<1> SUFFICES ASSUME IInv, Exit(t) PROVE IInv'
  OBVIOUS
<1> DEFINE h == Highest
           to == HighestThread
           q == Dequeue(rq, t, prio[t])
<1>1. /\ cur = t /\ t # Idle /\ pc[t] = "run"
      /\ timer' = [timer EXCEPT ![t] = FALSE]
      /\ stat' = [stat EXCEPT ![t] = "CLOSE", ![to] = "RUNNING"]
      /\ oncpu' = [oncpu EXCEPT ![t] = FALSE, ![to] = TRUE]
      /\ rq' = Dequeue(q, to, prio[to]) /\ cur' = to /\ cpuprio' = h
      /\ yield' = [yield EXCEPT ![t] = FALSE]
      /\ UNCHANGED <<prio, remaining, crit, pc, victim, flag, isr>>
  BY DEF Exit, Calls, HighestThread, Highest
<1>2. /\ stat[to] = "READY" /\ ~Unqueued(to) /\ to \in Threads /\ to # t /\ h \in Prios
      /\ prio[to] = h
  BY <1>1, IdleIsReady
<1>3. /\ QueueOK(q)
      /\ \A v \in Threads, r \in Prios : Linked(q, v, r) <=>
            stat[v] = "READY" /\ prio[v] = r /\ ~Unqueued(v) /\ v # t
  BY RemoveKeeps
<1> HIDE DEF h, to, q
<1>4. \A r \in Prios : r # h => ~Linked(q, to, r)
  BY <1>2, <1>3
<1>5. /\ QueueOK(rq')
      /\ \A v \in Threads, r \in Prios : Linked(rq', v, r) <=> Linked(q, v, r) /\ v # to
  BY <1>1, <1>2, <1>3, <1>4, DequeueUnlinks
<1>6. \A v : Unqueued(v)' <=> Unqueued(v)
  BY <1>1 DEF Unqueued
<1>7. /\ stat \in [Threads -> States] /\ stat' \in [Threads -> States]
      /\ oncpu' \in [Threads -> BOOLEAN] /\ yield' \in [Threads -> BOOLEAN]
      /\ timer' \in [Threads -> BOOLEAN] /\ oncpu \in [Threads -> BOOLEAN]
  BY <1>1, <1>2 DEF IInv, TypeOK, States
<1>8. /\ stat'[to] = "RUNNING" /\ stat'[t] = "CLOSE"
      /\ \A v \in Threads \ {t, to} : stat'[v] = stat[v]
  BY <1>1, <1>2, <1>7
<1>9. Exact'
  BY <1>1, <1>2, <1>3, <1>5, <1>6, <1>8 DEF Exact
<1>10. OneThreadOnCore'
  BY <1>1, <1>2, <1>7, <1>8 DEF IInv, OnCore, OneThreadOnCore
<1>11. OnCore'
  BY <1>1, <1>2, <1>6, <1>8, <1>10, ThreadAssumption DEF IInv, OnCore
<1>12. Timers'
  BY <1>1, <1>2, <1>8 DEF IInv, Timers, TypeOK
<1>13. Deletions'
  BY <1>1 DEF IInv, Deletions
<1>14. TypeOK'
  BY <1>1, <1>2, <1>5, <1>7 DEF IInv, TypeOK, QueueOK
<1> QED
  BY <1>9, <1>11, <1>12, <1>13, <1>14 DEF IInv

LEMMA DeleteTestKeeps ==
    ASSUME NEW t \in Threads, NEW u \in Threads PROVE IInv /\ DeleteTest(t, u) => IInv'
<1> SUFFICES ASSUME IInv, DeleteTest(t, u) PROVE IInv'
  OBVIOUS
<1>1. /\ cur = t /\ pc[t] = "run" /\ u \in Victims \ {t}
      /\ victim' = [victim EXCEPT ![t] = u]
      /\ pc' = [pc EXCEPT ![t] = IF stat[u] = "INIT" THEN "detach" ELSE "unqueue"]
      /\ UNCHANGED <<stat, yield, oncpu, prio, timer, remaining, crit, rq, cur, cpuprio, flag, isr>>
  BY DEF DeleteTest, Calls
<1>2. /\ victim \in [Threads -> Threads \cup {Nobody}]
      /\ pc \in [Threads -> {"run", "sched", "suspend", "unqueue", "detach", "close"}]
  BY DEF IInv, TypeOK
<1>3. \A v \in Threads : Unqueued(v)' => Unqueued(v) \/ (v = u /\ stat[u] = "INIT")
  BY <1>1, <1>2 DEF Unqueued
<1>4. \A v \in Threads : Unqueued(v) => Unqueued(v)'
  BY <1>1, <1>2 DEF Unqueued
<1>5. Exact'
  BY <1>1, <1>3, <1>4 DEF IInv, Exact, Linked
<1>6. OnCore'
  BY <1>1, <1>3 DEF IInv, OnCore, OneThreadOnCore, TypeOK
<1>7. Timers' /\ Deletions'
  BY <1>1, <1>2 DEF IInv, Timers, Deletions
<1>8. TypeOK'
  BY <1>1 DEF IInv, TypeOK
<1> QED
  BY <1>5, <1>6, <1>7, <1>8 DEF IInv

LEMMA DeleteUnqueueKeeps ==
    ASSUME NEW t \in Threads PROVE IInv /\ DeleteUnqueue(t) => IInv'
<1> SUFFICES ASSUME IInv, DeleteUnqueue(t) PROVE IInv'
  OBVIOUS
<1> DEFINE u == victim[t]
<1>1. /\ cur = t /\ pc[t] = "unqueue"
      /\ rq' = Dequeue(rq, u, prio[u]) /\ pc' = [pc EXCEPT ![t] = "detach"]
      /\ UNCHANGED <<stat, yield, oncpu, prio, timer, remaining, crit, victim, cur, cpuprio,
                     flag, isr>>
  BY DEF DeleteUnqueue
<1>2. u \in Victims \ {t} /\ u \in Threads
  BY <1>1, ThreadAssumption DEF IInv, Deletions
<1>3. \A v \in Threads : ~Unqueued(v)' <=> ~Unqueued(v) /\ v # u
  BY <1>1 DEF IInv, TypeOK, Unqueued
<1> HIDE DEF u
<1>4. /\ QueueOK(rq')
      /\ \A v \in Threads, r \in Prios :
            Linked(rq', v, r) <=> stat[v] = "READY" /\ prio[v] = r /\ ~Unqueued(v) /\ v # u
  BY <1>1, <1>2, RemoveKeeps
<1>5. Exact'
  BY <1>1, <1>3, <1>4 DEF Exact
<1>6. OnCore'
  BY <1>1, <1>2, <1>3 DEF IInv, OnCore, OneThreadOnCore
<1>7. Timers' /\ Deletions'
  BY <1>1 DEF IInv, Timers, Deletions, TypeOK
<1>8. TypeOK'
  BY <1>1, <1>4 DEF IInv, TypeOK, QueueOK
<1> QED
  BY <1>5, <1>6, <1>7, <1>8 DEF IInv

LEMMA DeleteTimerKeeps == ASSUME NEW t \in Threads PROVE IInv /\ DeleteTimer(t) => IInv'
<1> SUFFICES ASSUME IInv, DeleteTimer(t) PROVE IInv'
  OBVIOUS
<1>1. /\ pc[t] = "detach"
      /\ timer' = [timer EXCEPT ![victim[t]] = FALSE] /\ pc' = [pc EXCEPT ![t] = "close"]
      /\ UNCHANGED <<stat, yield, oncpu, prio, remaining, crit, victim, rq, cur, cpuprio, flag, isr>>
  BY DEF DeleteTimer
<1>2. \A v : Unqueued(v)' <=> Unqueued(v)
  BY <1>1 DEF IInv, TypeOK, Unqueued
<1>3. Exact' /\ OnCore'
  BY <1>1, <1>2 DEF IInv, Exact, Linked, OnCore, OneThreadOnCore
<1>4. Timers' /\ Deletions'
  BY <1>1 DEF IInv, Timers, Deletions, TypeOK
<1>5. TypeOK'
  BY <1>1 DEF IInv, TypeOK
<1> QED
  BY <1>3, <1>4, <1>5 DEF IInv

\* The thread that is being deleted has no timer any more, because no thread that
\* sleeps with a timeout is deleted.
LEMMA DeleteCloseKeeps ==
    ASSUME NoTimedVictim, NEW t \in Threads PROVE IInv /\ DeleteClose(t) => IInv'
<1> SUFFICES ASSUME IInv, DeleteClose(t) PROVE IInv'
  OBVIOUS
<1> DEFINE w == victim[t]
<1>1. /\ pc[t] = "close"
      /\ stat' = [stat EXCEPT ![w] = "CLOSE"] /\ yield' = [yield EXCEPT ![w] = FALSE]
      /\ victim' = [victim EXCEPT ![t] = Nobody] /\ pc' = [pc EXCEPT ![t] = "run"]
      /\ UNCHANGED <<oncpu, prio, timer, remaining, crit, rq, cur, cpuprio, flag, isr>>
  BY DEF DeleteClose
<1>2. /\ victim \in [Threads -> Threads \cup {Nobody}] /\ w \in Victims /\ w \in Threads
      /\ pc \in [Threads -> {"run", "sched", "suspend", "unqueue", "detach", "close"}]
      /\ Nobody \notin Threads /\ Idle \in Threads /\ Idle \notin Victims /\ Unqueued(w)
  BY <1>1, ThreadAssumption DEF IInv, TypeOK, Deletions, Unqueued
<1>3. \A v \in Threads : v # w => (Unqueued(v)' <=> Unqueued(v))
  BY <1>1, <1>2 DEF Unqueued
<1>4. stat \in [Threads -> States] /\ stat' \in [Threads -> States] /\ w # cur
  BY <1>1, <1>2 DEF IInv, TypeOK, States, OnCore
<1> HIDE DEF w
<1>5. /\ \A v \in Threads : v # w => stat'[v] = stat[v]
      /\ w \in Threads => stat'[w] = "CLOSE"
  BY <1>1, <1>4
<1>6. ASSUME NEW v \in Threads, NEW r \in Prios
      PROVE  Linked(rq', v, r) <=> stat'[v] = "READY" /\ prio'[v] = r /\ ~Unqueued(v)'
  <2>1. Linked(rq', v, r) <=> stat[v] = "READY" /\ prio[v] = r /\ ~Unqueued(v)
    BY <1>1 DEF IInv, Exact
  <2>2. CASE v = w
    BY <1>2, <1>5, <2>1, <2>2
  <2>3. CASE v # w
    BY <1>1, <1>3, <1>5, <2>1, <2>3
  <2> QED
    BY <2>2, <2>3
<1>7. Exact'
  BY <1>1, <1>6 DEF IInv, Exact
<1>8. OnCore'
  <2>1. cur \in Threads
    BY DEF IInv, TypeOK
  <2>2. Idle \in Threads /\ Idle # w /\ ~Unqueued(cur) /\ cur' = cur
    BY <1>1, <1>2 DEF IInv, OnCore
  <2>3. OneThreadOnCore'
    BY <1>1, <1>5 DEF IInv, OnCore, OneThreadOnCore
  <2>4. ~Unqueued(cur)'
    BY <1>3, <1>4, <2>1, <2>2
  <2>5. stat'[cur] = stat[cur] /\ stat'[Idle] = stat[Idle]
    BY <1>4, <1>5, <2>1, <2>2
  <2> QED
    BY <1>1, <2>2, <2>3, <2>4, <2>5 DEF IInv, OnCore
<1>9. Timers'
  BY <1>1, <1>2, <1>5 DEF IInv, Timers, NoTimedVictim
<1>10. Deletions'
  BY <1>1 DEF IInv, Deletions, TypeOK
<1>11. TypeOK'
  BY <1>1, <1>4 DEF IInv, TypeOK
<1> QED
  BY <1>7, <1>8, <1>9, <1>10, <1>11 DEF IInv

LEMMA TickKeepsInv == IInv /\ Tick => IInv'
<1> SUFFICES ASSUME IInv, Tick PROVE IInv'
  OBVIOUS
<1>1. /\ isr' = "tick"
      /\ UNCHANGED <<stat, oncpu, prio, timer, crit, pc, victim, rq, cur, cpuprio>>
  BY DEF Tick
<1>2. Exact' /\ OnCore' /\ Timers'
  <2>1. \A v : Unqueued(v)' <=> Unqueued(v)
    BY <1>1 DEF Unqueued
  <2> QED
    BY <1>1, <2>1, SameKeeps
<1>3. /\ remaining \in [Threads -> 1..Slice] /\ Slice \in Nat \ {0} /\ cur \in Threads
      /\ yield \in [Threads -> BOOLEAN] /\ flag \in BOOLEAN
  BY BoundAssumption DEF IInv, TypeOK
<1>4. /\ remaining' \in [Threads -> 1..Slice] /\ yield' \in [Threads -> BOOLEAN]
      /\ flag' \in BOOLEAN
  <2>1. CASE remaining[cur] = 1
    <3>1. /\ remaining' = [remaining EXCEPT ![cur] = Slice]
          /\ yield' = [yield EXCEPT ![cur] = TRUE] /\ flag' = TRUE
      BY <2>1 DEF Tick
    <3>2. Slice \in 1..Slice
      BY <1>3
    <3> QED
      BY <1>3, <3>1, <3>2
  <2>2. CASE remaining[cur] # 1
    <3>1. /\ remaining' = [remaining EXCEPT ![cur] = remaining[cur] - 1]
          /\ yield' = yield /\ flag' = flag
      BY <2>2 DEF Tick
    <3>2. remaining[cur] - 1 \in 1..Slice
      BY <1>3, <2>2
    <3> QED
      BY <1>3, <3>1, <3>2
  <2> QED
    BY <2>1, <2>2
<1>5. TypeOK' /\ Deletions'
  BY <1>1, <1>4 DEF IInv, TypeOK, Deletions
<1> QED
  BY <1>2, <1>5 DEF IInv

LEMMA TimeoutKeeps ==
    ASSUME NoTimedVictim, NEW u \in Threads PROVE IInv /\ Timeout(u) => IInv'
<1> SUFFICES ASSUME IInv, Timeout(u) PROVE IInv'
  OBVIOUS
<1>1. /\ InsertThread(u) /\ timer[u] /\ timer' = [timer EXCEPT ![u] = FALSE] /\ flag' = TRUE
      /\ UNCHANGED <<yield, oncpu, prio, remaining, crit, pc, victim, cur, cpuprio, isr>>
  BY DEF Timeout
<1>2. u \in Sleepers /\ stat[u] = "SUSPEND"
  BY <1>1 DEF IInv, Timers
<1>3. ~Unqueued(u) /\ \A v : Unqueued(v)' <=> Unqueued(v)
  BY <1>1, <1>2, UnqueuedIsVictim DEF Unqueued, NoTimedVictim
<1>4. Exact' /\ OnCore' /\ Timers' /\ stat' \in [Threads -> States]
  BY <1>1, <1>2, <1>3, InsertKeeps
<1>5. TypeOK' /\ Deletions'
  BY <1>1, <1>4 DEF IInv, TypeOK, Exact, QueueOK, Deletions
<1> QED
  BY <1>4, <1>5 DEF IInv

LEMMA DeviceIrqKeeps == ASSUME NEW u \in Threads PROVE IInv /\ DeviceIrq(u) => IInv'
<1> SUFFICES ASSUME IInv, DeviceIrq(u) PROVE IInv'
  OBVIOUS
<1>1. /\ InsertThread(u) /\ stat[u] = "SUSPEND" /\ ~Unqueued(u)
      /\ timer' = [timer EXCEPT ![u] = FALSE] /\ flag' = TRUE /\ isr' = "device"
      /\ UNCHANGED <<yield, oncpu, prio, remaining, crit, pc, victim, cur, cpuprio>>
  BY UsableIsQueued DEF DeviceIrq
<1>2. Exact' /\ OnCore' /\ Timers' /\ stat' \in [Threads -> States]
  <2>1. \A v : Unqueued(v)' <=> Unqueued(v)
    BY <1>1 DEF Unqueued
  <2> QED
    BY <1>1, <2>1, InsertKeeps
<1>3. TypeOK' /\ Deletions'
  BY <1>1, <1>2 DEF IInv, TypeOK, Exact, QueueOK, Deletions
<1> QED
  BY <1>2, <1>3 DEF IInv

LEMMA IrqLeaveKeeps == IInv /\ IrqLeave => IInv'
<1> SUFFICES ASSUME IInv, IrqLeave PROVE IInv'
  OBVIOUS
<1>1. yield[cur] \in BOOLEAN /\ isr' = "none" /\ UNCHANGED <<prio, timer, remaining, crit, pc, victim>>
  BY DEF IInv, TypeOK, IrqLeave
<1>2. /\ Exact' /\ OnCore' /\ Timers' /\ flag' \in BOOLEAN
      /\ stat' \in [Threads -> States] /\ yield' \in [Threads -> BOOLEAN]
      /\ oncpu' \in [Threads -> BOOLEAN] /\ cur' \in Threads /\ cpuprio' \in Prios
  <2>0. \A v : Unqueued(v)' <=> Unqueued(v)
    BY <1>1 DEF Unqueued
  <2>1. CASE flag' = FALSE /\ SwitchThread(yield[cur])
    BY <1>1, <2>0, <2>1, SwitchKeeps
  <2>2. CASE UNCHANGED <<flag, stat, yield, oncpu, rq, cur, cpuprio>>
    BY <1>1, <2>0, <2>2, SameKeeps DEF IInv, TypeOK
  <2> QED
    BY <2>1, <2>2 DEF IrqLeave
<1>3. TypeOK' /\ Deletions'
  BY <1>1, <1>2 DEF IInv, TypeOK, Exact, QueueOK, Deletions
<1> QED
  BY <1>2, <1>3 DEF IInv

LEMMA StepInv == NoTimedVictim /\ IInv /\ [Next]_vars => IInv'
<1> SUFFICES ASSUME NoTimedVictim, IInv, [Next]_vars PROVE IInv'
  OBVIOUS
<1>1. CASE Schedule
  BY <1>1, ScheduleKeeps
<1>2. ASSUME NEW t \in Threads,
             \/ Yield(t) \/ EnterCritical(t) \/ ExitCritical(t) \/ Exit(t)
             \/ SuspendSelf(t, TRUE) \/ SuspendSelf(t, FALSE)
             \/ SuspendOther(t) \/ DeleteUnqueue(t) \/ DeleteTimer(t) \/ DeleteClose(t)
      PROVE  IInv'
  BY <1>2, YieldKeeps, CriticalKeeps, ExitKeeps, SuspendSelfKeeps, SuspendOtherKeeps,
     DeleteUnqueueKeeps, DeleteTimerKeeps, DeleteCloseKeeps
<1>3. ASSUME NEW t \in Threads, NEW u \in Threads,
             \/ Startup(t, u) \/ SuspendTest(t, u) \/ Resume(t, u) \/ DeleteTest(t, u)
             \/ \E p \in NewPrios : ChangePriority(t, u, p)
      PROVE  IInv'
  BY <1>3, StartupKeeps, SuspendTestKeeps, ResumeKeeps, DeleteTestKeeps, ChangePriorityKeeps
<1>4. CASE Tick
  BY <1>4, TickKeepsInv
<1>5. ASSUME NEW u \in Threads, Timeout(u) \/ DeviceIrq(u) PROVE IInv'
  BY <1>5, TimeoutKeeps, DeviceIrqKeeps
<1>6. CASE IrqLeave
  BY <1>6, IrqLeaveKeeps
<1>7. CASE UNCHANGED vars
  <2>1. \A v : Unqueued(v)' <=> Unqueued(v)
    BY <1>7 DEF vars, Unqueued
  <2>2. Exact' /\ OnCore' /\ Timers'
    BY <1>7, <2>1, SameKeeps DEF vars
  <2> QED
    BY <1>7, <2>2 DEF vars, IInv, TypeOK, Deletions
<1> QED
  BY <1>1, <1>2, <1>3, <1>4, <1>5, <1>6, <1>7 DEF Next

LEMMA AlwaysInv == ASSUME NoTimedVictim PROVE Spec => []IInv
<1>1. IInv /\ [Next]_vars => IInv'
  BY StepInv
<1> QED
  BY <1>1, InitInv, PTL DEF Spec

-----------------------------------------------------------------------------
(* The invariants *)

\* Every field of every thread and of the core keeps its type: the time slice and
\* the nesting stay within their bounds, whatever order the sections come in.
THEOREM SchedulerTypeOK == ASSUME NoTimedVictim PROVE Spec => []TypeOK
<1>1. IInv => TypeOK
  BY DEF IInv
<1> QED
  BY <1>1, AlwaysInv, PTL

\* The ready lists hold exactly the READY threads, each once and in the list of its
\* current_priority, and priority_group has exactly the bits of the lists that are
\* not empty, at every step of rt_schedule_insert_thread and rt_schedule_remove_thread.
THEOREM SchedulerReadyQueueExact == ASSUME NoTimedVictim PROVE Spec => []ReadyQueueExact
<1>1. IInv => ReadyQueueExact
  BY DEF IInv, Exact, QueueOK, Linked, Queued, ReadyQueueExact
<1> QED
  BY <1>1, AlwaysInv, PTL

\* One thread has the core, and no other is RUNNING: rt_schedule and the switch on
\* the way out of an interrupt always move oncpu and the RUNNING stat together.
THEOREM SchedulerOneThreadOnCore == ASSUME NoTimedVictim PROVE Spec => []OneThreadOnCore
<1>1. IInv => OneThreadOnCore
  BY DEF IInv, OnCore
<1> QED
  BY <1>1, AlwaysInv, PTL

\* The assertion of rt_thread_timeout: a thread whose timer can expire is suspended.
THEOREM SchedulerTimerOnlyWhenSuspended ==
    ASSUME NoTimedVictim PROVE Spec => []TimerOnlyWhenSuspended
<1>1. IInv => TimerOnlyWhenSuspended
  BY DEF IInv, Timers, TimerOnlyWhenSuspended
<1> QED
  BY <1>1, AlwaysInv, PTL

\* A CLOSE thread is in no ready list and is not on the core: nothing that races with
\* the sections of rt_thread_delete puts it back.
THEOREM SchedulerClosedIsGone == ASSUME NoTimedVictim PROVE Spec => []ClosedIsGone
<1>1. IInv => ClosedIsGone
  BY DEF IInv, Exact, OnCore, Linked, Queued, ClosedIsGone
<1> QED
  BY <1>1, AlwaysInv, PTL

-----------------------------------------------------------------------------
(***************************************************************************)
(* The most urgent ready thread runs, as long as nobody changes a priority  *)
(* with RT_THREAD_CTRL_CHANGE_PRIORITY (which does not reschedule: run      *)
(* SchedulerPriority).                                                      *)
(***************************************************************************)

\* The inductive form of HighestPriorityRuns: a handler that made a thread READY has
\* set irq_switch_flag.
Urgent ==
    Unlocked /\ pc[cur] # "sched" /\ (isr = "none" \/ ~flag) => MostUrgentOnCore

\* A step after which the RUNNING thread's priority is what it was, and no thread has
\* become READY.
LEMMA FewerReady ==
    ASSUME MostUrgentOnCore, UNCHANGED <<cur, prio>>,
           stat'[cur] = "RUNNING" => stat[cur] = "RUNNING",
           \A t \in Threads :
               stat'[t] = "READY" /\ ~Unqueued(t)' => stat[t] = "READY" /\ ~Unqueued(t)
    PROVE  MostUrgentOnCore'
BY DEF MostUrgentOnCore

LEMMA ExitUrgent ==
    ASSUME IInv, NEW t \in Threads, Exit(t) PROVE MostUrgentOnCore'
<1>1. /\ cur = t /\ t # Idle /\ cur' = HighestThread
      /\ stat' = [stat EXCEPT ![t] = "CLOSE", ![HighestThread] = "RUNNING"]
      /\ UNCHANGED <<prio, victim, pc>>
  BY DEF Exit, Calls, HighestThread, Highest
<1>2. HighestThread \in Threads /\ prio[HighestThread] = Highest
  BY <1>1, IdleIsReady
<1>3. stat \in [Threads -> States] /\ prio \in [Threads -> Prios] /\ QueueOK(rq)
  BY DEF IInv, TypeOK, Exact
<1>4. \A u : Unqueued(u)' <=> Unqueued(u)
  BY <1>1 DEF Unqueued
<1> SUFFICES ASSUME NEW u \in Threads, stat'[u] = "READY", ~Unqueued(u)
             PROVE  Highest <= prio[u]
  BY <1>1, <1>2, <1>4 DEF MostUrgentOnCore
<1>5. stat[u] = "READY"
  BY <1>1, <1>2, <1>3
<1>6. prio[u] \in rq.group
  BY <1>3, <1>5 DEF IInv, Exact, QueueOK, Linked, ToSet
<1> QED
  BY <1>3, <1>6, HighestLinked DEF Highest

LEMMA StepUrgent ==
    ASSUME NewPrios = {}, IInv, Urgent, [Next]_vars PROVE Urgent'
<1> USE DEF Urgent, Unlocked
<1>1. /\ cur \in Threads /\ pc \in [Threads -> {"run", "sched", "suspend", "unqueue", "detach", "close"}]
      /\ yield[cur] \in BOOLEAN /\ stat \in [Threads -> States]
      /\ crit \in [Threads -> 0..MaxNest] /\ MaxNest \in Nat
  BY BoundAssumption DEF IInv, TypeOK
<1>2. CASE Schedule
  <2>1. CASE crit[cur] = 0
    <3>1. /\ SwitchThread(yield[cur]) /\ UNCHANGED <<prio, timer, victim>>
          /\ pc[cur] = "sched" /\ pc' = [pc EXCEPT ![cur] = "run"]
      BY <1>2, <2>1 DEF Schedule
    <3>2. MostUrgentOnCore'
      BY <1>1, <3>1, SwitchKeeps, MoveKeepsUnqueued
    <3> QED
      BY <3>2
  <2>2. CASE crit[cur] # 0
    BY <1>2, <2>2 DEF Schedule
  <2> QED
    BY <2>1, <2>2
<1>3. ASSUME NEW t \in Threads, Yield(t) PROVE Urgent'
  <2>1. CASE crit[cur] = 0
    <3>1. SwitchThread(TRUE) /\ UNCHANGED <<prio, timer, victim, pc>>
      BY <1>3, <2>1 DEF Yield
    <3>2. \A v : Unqueued(v)' <=> Unqueued(v)
      BY <3>1 DEF Unqueued
    <3>3. MostUrgentOnCore'
      BY <3>1, <3>2, SwitchKeeps
    <3> QED
      BY <3>3
  <2>2. CASE crit[cur] # 0
    <3>1. UNCHANGED <<cur, crit>>
      BY <1>3, <2>2 DEF Yield
    <3> QED
      BY <2>2, <3>1
  <2> QED
    BY <2>1, <2>2
<1>4. ASSUME NEW t \in Threads, EnterCritical(t) \/ ExitCritical(t) PROVE Urgent'
  <2>1. CASE EnterCritical(t)
    BY <1>1, <2>1 DEF EnterCritical, Calls
  <2>2. CASE ExitCritical(t)
    <3>1. cur' = t /\ crit'[t] = crit[t] - 1 /\ crit[t] \in Nat /\ crit[t] > 0
      BY <1>1, <2>2 DEF ExitCritical, Calls
    <3>2. crit[t] = 1 => pc'[t] = "sched"
      BY <1>1, <2>2 DEF ExitCritical
    <3> QED
      BY <3>1, <3>2
  <2> QED
    BY <1>4, <2>1, <2>2
<1>5. ASSUME NEW t \in Threads, Exit(t) PROVE Urgent'
  BY <1>5, ExitUrgent
<1>6. ASSUME NEW t \in Threads, NEW timed \in BOOLEAN, SuspendSelf(t, timed) PROVE Urgent'
  BY <1>1, <1>6 DEF SuspendSelf, Calls
<1>7. ASSUME NEW t \in Threads, DeleteTimer(t) PROVE Urgent'
  <2>1. /\ UNCHANGED <<stat, victim, prio, cur, crit, isr>> /\ isr = "none"
        /\ cur = t /\ pc[t] = "detach" /\ pc' = [pc EXCEPT ![t] = "close"]
    BY <1>7 DEF DeleteTimer
  <2>2. \A u : Unqueued(u)' <=> Unqueued(u)
    BY <1>1, <2>1 DEF Unqueued
  <2> QED
    BY <2>1, <2>2, FewerReady
<1>8. ASSUME NEW t \in Threads, DeleteClose(t) PROVE Urgent'
  <2>1. /\ stat' = [stat EXCEPT ![victim[t]] = "CLOSE"]
        /\ victim' = [victim EXCEPT ![t] = Nobody] /\ pc' = [pc EXCEPT ![t] = "run"]
        /\ UNCHANGED <<prio, cur, crit, isr>> /\ isr = "none" /\ cur = t /\ pc[t] = "close"
    BY <1>8 DEF DeleteClose
  <2>2. victim \in [Threads -> Threads \cup {Nobody}]
    BY DEF IInv, TypeOK
  <2>3. ASSUME NEW u \in Threads
        PROVE  stat'[u] = "READY" /\ ~Unqueued(u)' => stat[u] = "READY" /\ ~Unqueued(u)
    BY <1>1, <2>1, <2>2 DEF Unqueued
  <2>4. stat'[cur] = "RUNNING" => stat[cur] = "RUNNING"
    BY <1>1, <2>1
  <2> QED
    BY <2>1, <2>3, <2>4, FewerReady
<1>9. ASSUME NEW t \in Threads, NEW u \in Threads, Startup(t, u) \/ Resume(t, u)
      PROVE  Urgent'
  BY <1>1, <1>9 DEF Startup, Resume, Calls
<1>10. ASSUME NEW t \in Threads, SuspendOther(t) PROVE Urgent'
  <2>1. /\ stat' = [stat EXCEPT ![victim[t]] = "SUSPEND"] /\ cur = t /\ isr = "none"
        /\ pc[t] = "suspend" /\ pc' = [pc EXCEPT ![t] = "run"]
        /\ victim' = [victim EXCEPT ![t] = Nobody] /\ UNCHANGED <<prio, cur, crit, isr>>
    BY <1>10 DEF SuspendOther
  <2>2. \A v : Unqueued(v)' <=> Unqueued(v)
    BY <2>1, MoveKeepsUnqueued DEF IInv, TypeOK
  <2>3. \A v \in Threads : stat'[v] \in {"READY", "RUNNING"} => stat[v] = stat'[v]
    BY <1>1, <2>1
  <2> QED
    BY <1>1, <2>1, <2>2, <2>3, FewerReady
<1>11. ASSUME NEW t \in Threads, DeleteUnqueue(t) PROVE Urgent'
  <2>1. /\ pc' = [pc EXCEPT ![t] = "detach"] /\ isr = "none" /\ cur = t /\ pc[t] = "unqueue"
        /\ UNCHANGED <<stat, prio, victim, cur, crit, isr>>
    BY <1>11 DEF DeleteUnqueue
  <2>2. \A v \in Threads : Unqueued(v) => Unqueued(v)'
    BY <1>1, <2>1 DEF Unqueued
  <2> QED
    BY <2>1, <2>2, FewerReady
<1>16. ASSUME NEW t \in Threads, NEW u \in Threads, SuspendTest(t, u) \/ DeleteTest(t, u)
       PROVE  Urgent'
  <2>1. /\ isr = "none" /\ cur = t /\ pc[t] = "run" /\ UNCHANGED <<stat, prio, cur, crit, isr>>
        /\ \E l : pc' = [pc EXCEPT ![t] = l] /\ victim' = [victim EXCEPT ![t] = u]
    BY <1>16 DEF SuspendTest, DeleteTest, Calls
  <2>2. \A v \in Threads : Unqueued(v) => Unqueued(v)'
    BY <1>1, <2>1 DEF IInv, TypeOK, Unqueued
  <2> QED
    BY <2>1, <2>2, FewerReady
<1>12. CASE Tick
  <2>1. CASE flag'
    BY <1>12, <2>1 DEF Tick
  <2>2. CASE ~flag'
    <3>1. isr = "none" /\ UNCHANGED <<stat, prio, cur, pc, crit, victim>>
      BY <1>12 DEF Tick
    <3>2. \A v : Unqueued(v)' <=> Unqueued(v)
      BY <3>1 DEF Unqueued
    <3> QED
      BY <3>1, <3>2, FewerReady
  <2> QED
    BY <2>1, <2>2
<1>13. ASSUME NEW u \in Threads, Timeout(u) \/ DeviceIrq(u) PROVE Urgent'
  BY <1>13 DEF Timeout, DeviceIrq
<1>14. CASE IrqLeave
  <2>1. CASE flag /\ crit[cur] = 0
    <3>1. SwitchThread(yield[cur]) /\ UNCHANGED <<prio, timer, victim, pc>>
      BY <1>14, <2>1 DEF IrqLeave
    <3>2. \A v : Unqueued(v)' <=> Unqueued(v)
      BY <3>1 DEF Unqueued
    <3>3. MostUrgentOnCore'
      BY <1>1, <3>1, <3>2, SwitchKeeps
    <3> QED
      BY <3>3
  <2>2. CASE crit[cur] # 0
    BY <1>14, <2>2 DEF IrqLeave
  <2>3. CASE ~flag
    <3>1. UNCHANGED <<stat, prio, cur, pc, crit, victim>>
      BY <1>14, <2>3 DEF IrqLeave
    <3>2. \A v : Unqueued(v)' <=> Unqueued(v)
      BY <3>1 DEF Unqueued
    <3> QED
      BY <2>3, <3>1, <3>2, FewerReady
  <2> QED
    BY <2>1, <2>2, <2>3
<1>15. CASE UNCHANGED vars
  <2>1. UNCHANGED <<stat, prio, cur, pc, crit, victim, isr, flag>>
    BY <1>15 DEF vars
  <2>2. \A v : Unqueued(v)' <=> Unqueued(v)
    BY <2>1 DEF Unqueued
  <2> QED
    BY <2>1, <2>2, FewerReady
<1> QED
  BY <1>2, <1>3, <1>4, <1>5, <1>6, <1>7, <1>8, <1>9, <1>10, <1>11, <1>12, <1>13, <1>14, <1>15,
     <1>16 DEF Next

\* Without changes of priority, no ready thread is more urgent than the RUNNING one
\* outside interrupts and rt_enter_critical, unless the RUNNING thread is on its way
\* into rt_schedule: every wake-up is followed by its reschedule.
THEOREM SchedulerHighestPriorityRuns ==
    ASSUME NoTimedVictim, NewPrios = {} PROVE Spec => []HighestPriorityRuns
<1>1. Init => Urgent
  <2> SUFFICES ASSUME Init PROVE MostUrgentOnCore
    BY DEF Urgent
  <2>1. \A t \in Threads : stat[t] = "READY" => t = Idle
    BY DEF Init
  <2>2. cur = Main /\ prio = InitPrio /\ Main \in Threads \ {Idle} /\ Idle \in Threads
    BY ThreadAssumption DEF Init
  <2>3. InitPrio[Main] < InitPrio[Idle] /\ InitPrio[Main] \in Prios /\ InitPrio[Idle] \in Prios
    BY <2>2, PrioAssumption
  <2>4. \A r \in Prios : r \in Int
    BY PrioAssumption
  <2>5. InitPrio[Main] <= InitPrio[Idle]
    BY <2>3, <2>4
  <2> QED
    BY <2>1, <2>2, <2>5 DEF MostUrgentOnCore
<1>2. IInv /\ Urgent /\ [Next]_vars => Urgent'
  BY StepUrgent
<1>3. Urgent => HighestPriorityRuns
  BY DEF Urgent, MostUrgentOnCore, HighestPriorityRuns
<1> QED
  BY <1>1, <1>2, <1>3, AlwaysInv, PTL DEF Spec
=============================================================================
