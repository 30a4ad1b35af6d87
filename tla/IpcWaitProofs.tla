----------------------------- MODULE IpcWaitProofs -----------------------------
(***************************************************************************)
(* Proofs about the objects whose threads wait as in module IpcWait: what    *)
(* its steps do to the lists of waiting threads, then the message queue     *)
(* (MessageQueue), the memory pool (MemPool), the completion (Completion),  *)
(* the data queue (DataQueue), the mailbox (Mailbox) and the event (Event), *)
(* for every set of threads, cores, lists, nodes, blocks, items, mails and  *)
(* flags, every size, every binding, every priority and both orders.        *)
(***************************************************************************)
EXTENDS MessageQueue, MemPool, DataQueue, Completion, Mailbox, Event, IpcObjectProofs

-----------------------------------------------------------------------------
(* The lists: each step keeps IpcTypeOK and SuspendedIsLinked, and adds or      *)
(* removes the threads it is about                                             *)

\* A thread that starts to wait is linked into the list, and into no other.
LEMMA SuspendLinks ==
    ASSUME IpcTypeOK, SuspendedIsLinked, NEW t \in Threads, NEW l \in Lists, NEW time,
           stat[t] = "RUN", Suspend(t, l, time)
    PROVE  /\ IpcTypeOK' /\ SuspendedIsLinked'
           /\ \A k \in Lists : ToSet(queue'[k]) = IF k = l THEN ToSet(queue[k]) \cup {t}
                                                  ELSE ToSet(queue[k])
<1> DEFINE p == Place(Unlink(queue, t)[l], t, Flag, Prio)
           timed == time = "timed"
<1>1. /\ stat' = [stat EXCEPT ![t] = "SUSPEND"] /\ error' = [error EXCEPT ![t] = "EOK"]
      /\ timer' = [timer EXCEPT ![t] = timed] /\ timed \in BOOLEAN
      /\ queue' = [Unlink(queue, t) EXCEPT ![l] = p] /\ UNCHANGED <<irqoff, expired>>
  BY DEF Suspend, ListSuspend
<1>2. p \in Seq(Threads) /\ ToSet(p) = ToSet(queue[l]) \cup {t} /\ IsInjective(p)
  BY PlaceUnlinked
<1> HIDE DEF p, timed
<1>3. /\ queue' \in [Lists -> Seq(Threads)] /\ SuspendedIsLinked'
      /\ \A k \in Lists : ToSet(queue'[k]) = IF k = l THEN ToSet(queue[k]) \cup {t}
                                             ELSE ToSet(queue[k])
  BY <1>1, <1>2, ListSuspendLinks
<1>4. IpcTypeOK'
  BY <1>1, <1>3 DEF IpcTypeOK, Errors
<1> QED
  BY <1>3, <1>4

\* If a thread waits, the first one becomes ready.
LEMMA ResumeFirstUnlinks ==
    ASSUME IpcTypeOK, SuspendedIsLinked, NEW l \in Lists, ResumeFirst(l)
    PROVE  /\ IpcTypeOK' /\ SuspendedIsLinked'
           /\ error' = error
           /\ queue[l] = <<>> => UNCHANGED <<stat, queue>>
           /\ queue[l] # <<>> =>
                 /\ stat' = [stat EXCEPT ![Head(queue[l])] = "RUN"]
                 /\ \A k \in Lists : ToSet(queue'[k]) = ToSet(queue[k]) \ {Head(queue[l])}
<1>1. CASE queue[l] = <<>>
  BY <1>1 DEF ResumeFirst, IpcTypeOK, SuspendedIsLinked
<1>2. CASE queue[l] # <<>>
  <2>1. ThreadResume(Head(queue[l])) /\ UNCHANGED <<error, irqoff, expired>>
    BY <1>2 DEF ResumeFirst
  <2>2. error' \in [Threads -> Errors]
    BY <2>1 DEF IpcTypeOK
  <2> QED
    BY <1>2, <2>1, <2>2, HeadResumed
<1> QED
  BY <1>1, <1>2

\* If a thread still waits, the first one becomes ready with an error.
LEMMA ResumeNextUnlinks ==
    ASSUME IpcTypeOK, SuspendedIsLinked, NEW l \in Lists, ResumeNext(l)
    PROVE  /\ IpcTypeOK' /\ SuspendedIsLinked'
           /\ queue[l] = <<>> => UNCHANGED ipcVars
           /\ queue[l] # <<>> =>
                 /\ Head(queue[l]) \in Threads /\ stat[Head(queue[l])] = "SUSPEND"
                 /\ error' = [error EXCEPT ![Head(queue[l])] = "ERROR"]
                 /\ stat' = [stat EXCEPT ![Head(queue[l])] = "RUN"]
                 /\ \A k \in Lists : ToSet(queue'[k]) = ToSet(queue[k]) \ {Head(queue[l])}
           /\ \A u \in Threads : stat'[u] = "SUSPEND" =>
                 stat[u] = "SUSPEND" /\ error'[u] = error[u]
           /\ \A k \in Lists : ToSet(queue'[k]) \subseteq ToSet(queue[k])
<1>1. CASE queue[l] = <<>>
  <2>1. UNCHANGED ipcVars
    BY <1>1 DEF ResumeNext
  <2>2. UNCHANGED <<stat, error, queue, timer, irqoff, expired>>
    BY <2>1 DEF ipcVars
  <2> QED
    BY <1>1, <2>1, <2>2 DEF IpcTypeOK, SuspendedIsLinked
<1>2. CASE queue[l] # <<>>
  <2>1. /\ ThreadResume(Head(queue[l])) /\ UNCHANGED <<irqoff, expired>>
        /\ error' = [error EXCEPT ![Head(queue[l])] = "ERROR"]
    BY <1>2 DEF ResumeNext
  <2>2. Head(queue[l]) \in Threads /\ stat[Head(queue[l])] = "SUSPEND"
    BY <1>2, HeadSuspended
  <2>3. error' \in [Threads -> Errors]
    BY <2>1 DEF IpcTypeOK, Errors
  <2>4. /\ IpcTypeOK' /\ SuspendedIsLinked'
        /\ stat' = [stat EXCEPT ![Head(queue[l])] = "RUN"]
        /\ \A k \in Lists : ToSet(queue'[k]) = ToSet(queue[k]) \ {Head(queue[l])}
    BY <1>2, <2>1, <2>2, <2>3, HeadResumed
  <2>5. \A u \in Threads : stat'[u] = "SUSPEND" => stat[u] = "SUSPEND" /\ error'[u] = error[u]
    BY <2>1, <2>2, <2>4 DEF IpcTypeOK
  <2> QED
    BY <1>2, <2>1, <2>2, <2>4, <2>5
<1> QED
  BY <1>1, <1>2

LEMMA ResumeAllUnlinks ==
    ASSUME IpcTypeOK, SuspendedIsLinked, NEW ls \in SUBSET Lists, ResumeAll(ls)
    PROVE  /\ IpcTypeOK' /\ SuspendedIsLinked'
           /\ \A l \in ls : queue'[l] = <<>>
           /\ \A l \in Lists \ ls : queue'[l] = queue[l]
           /\ \A t \in Threads :
                 IF t \in UNION {ToSet(queue[l]) : l \in ls}
                 THEN stat'[t] = "RUN" /\ error'[t] = "ERROR"
                 ELSE stat'[t] = stat[t] /\ error'[t] = error[t]
<1> DEFINE woken == UNION {ToSet(queue[l]) : l \in ls}
<1>1. /\ stat' = [t \in Threads |-> IF t \in woken THEN "RUN" ELSE stat[t]]
      /\ error' = [t \in Threads |-> IF t \in woken THEN "ERROR" ELSE error[t]]
      /\ timer' = [t \in Threads |-> timer[t] /\ t \notin woken]
      /\ queue' = [l \in Lists |-> IF l \in ls THEN <<>> ELSE queue[l]]
      /\ UNCHANGED <<irqoff, expired>>
  BY DEF ResumeAll
<1>2. \A t : t \in woken <=> \E l \in ls : t \in ToSet(queue[l])
  OBVIOUS
<1> HIDE DEF woken
<1>3. IpcTypeOK'
  <2>1. timer' \in [Threads -> BOOLEAN]
    BY <1>1
  <2>2. queue' \in [Lists -> Seq(Threads)]
    BY <1>1 DEF IpcTypeOK
  <2> QED
    BY <1>1, <2>1, <2>2 DEF IpcTypeOK, Errors
<1>4. ToSet(<<>>) = {} /\ IsInjective(<<>>)
  BY DEF ToSet, IsInjective
<1>5. \A l \in Lists : ToSet(queue'[l]) = IF l \in ls THEN {} ELSE ToSet(queue[l])
  BY <1>1, <1>4
<1>6. SuspendedIsLinked'
  <2>1. ASSUME NEW t \in Threads
        PROVE  stat'[t] = "SUSPEND" <=> \E l \in Lists : t \in ToSet(queue'[l])
    <3>1. CASE t \in woken
      <4>1. PICK l \in ls : t \in ToSet(queue[l])
        BY <1>2, <3>1
      <4>2. \A k \in Lists : k # l => t \notin ToSet(queue[k])
        BY <4>1 DEF SuspendedIsLinked
      <4> QED
        BY <1>1, <1>5, <3>1, <4>1, <4>2
    <3>2. CASE t \notin woken
      <4>1. stat'[t] = stat[t]
        BY <1>1, <3>2
      <4>2. stat[t] = "SUSPEND" <=> \E l \in Lists : t \in ToSet(queue[l])
        BY DEF SuspendedIsLinked
      <4>3. \A l \in Lists : t \in ToSet(queue'[l]) <=> t \in ToSet(queue[l])
        BY <1>2, <1>5, <3>2
      <4> QED
        BY <4>1, <4>2, <4>3
    <3> QED
      BY <3>1, <3>2
  <2>2. \A l \in Lists : IsInjective(queue'[l])
    BY <1>1, <1>4 DEF SuspendedIsLinked
  <2>3. \A l, m \in Lists : l # m => ToSet(queue'[l]) \cap ToSet(queue'[m]) = {}
    BY <1>5 DEF SuspendedIsLinked
  <2> QED
    BY <2>1, <2>2, <2>3 DEF SuspendedIsLinked
<1>7. \A l \in ls : queue'[l] = <<>>
  BY <1>1
<1>8. \A l \in Lists \ ls : queue'[l] = queue[l]
  BY <1>1
<1>9. ASSUME NEW t \in Threads
      PROVE  IF t \in woken THEN stat'[t] = "RUN" /\ error'[t] = "ERROR"
             ELSE stat'[t] = stat[t] /\ error'[t] = error[t]
  BY <1>1
<1> QED
  BY <1>3, <1>6, <1>7, <1>8, <1>9 DEF woken
-----------------------------------------------------------------------------
(* The message queue *)

\* The suspended threads wait in the loop of their operation, receivers in the
\* one list and senders in the other.
MqWaiting ==
    /\ \A t \in Threads : stat[t] = "SUSPEND" => pc[t] = "wait" /\ error[t] = "EOK"
    /\ \A t \in ToSet(queue["recv"]) : op[t] = "recv"
    /\ \A t \in ToSet(queue["send"]) : op[t] \in {"send", "urgent"}

\* NodesConserved, with the two lists apart.
MqNodesInPlace ==
    /\ IsInjective(free) /\ IsInjective(linked) /\ ToSet(free) \cap ToSet(linked) = {}
    /\ \A s, t \in Holders : hold[s] = hold[t] => s = t
    /\ \A n \in Nodes :
          n \in ToSet(free) \/ n \in ToSet(linked) \/ \E t \in Holders : hold[t] = n
    /\ \A t \in Holders :
          hold[t] \in Nodes /\ hold[t] \notin ToSet(free) /\ hold[t] \notin ToSet(linked)
    /\ entry = Len(linked)

MqIInv == TypeOK /\ SuspendedIsLinked /\ MqWaiting /\ MqNodesInPlace

MqReceivers == Looking({"recv"})
MqSenders == Looking({"send", "urgent"})

-----------------------------------------------------------------------------

LEMMA MqInitInv == Init => MqIInv /\ NoWaitInVain
<1> SUFFICES ASSUME Init PROVE MqIInv /\ NoWaitInVain
  OBVIOUS
<1> USE IpcAssumption, WaitAssumption, MqAssumption DEF Init
<1>1. /\ free \in Seq(Nodes) /\ ToSet(free) = Nodes /\ IsInjective(free)
  BY SetToSeqProperties
<1>2. IpcTypeOK /\ SuspendedIsLinked
  BY IpcInitLinked
<1>3. ToSet(<<>>) = {} /\ IsInjective(<<>>) /\ Len(<<>>) = 0
  BY DEF ToSet, IsInjective
<1>4. TypeOK
  BY <1>1, <1>2 DEF TypeOK, Labels
<1>5. /\ queue["recv"] = <<>> /\ queue["send"] = <<>>
      /\ \A t \in Threads : stat[t] = "RUN"
  BY DEF IpcInit
<1>6. MqWaiting
  BY <1>3, <1>5 DEF MqWaiting
<1>7. Holders = {}
  BY DEF Holders
<1>8. MqNodesInPlace
  BY <1>1, <1>3, <1>7 DEF MqNodesInPlace
<1>9. NoWaitInVain
  BY <1>5 DEF NoWaitInVain
<1> QED
  BY <1>2, <1>4, <1>6, <1>8, <1>9 DEF MqIInv

-----------------------------------------------------------------------------
(* The threads and their lists *)

\* A step that leaves the lists alone and moves only t, which is not suspended.
LEMMA MqOneMoves ==
    ASSUME MqIInv, NEW t \in Threads, stat[t] = "RUN", UNCHANGED ipcVars,
           \A u \in Threads : u # t => pc'[u] = pc[u] /\ op'[u] = op[u]
    PROVE  IpcTypeOK' /\ SuspendedIsLinked' /\ MqWaiting'
<1>1. UNCHANGED <<stat, error, timer, queue, irqoff, expired>>
  BY DEF ipcVars
<1>2. IpcTypeOK' /\ SuspendedIsLinked'
  BY <1>1 DEF MqIInv, TypeOK, IpcTypeOK, SuspendedIsLinked
<1>3. /\ "recv" \in Lists /\ "send" \in Lists
      /\ queue["recv"] \in Seq(Threads) /\ queue["send"] \in Seq(Threads)
  BY MqAssumption DEF MqIInv, TypeOK, IpcTypeOK
<1>4. ASSUME NEW l \in {"recv", "send"}, NEW u \in ToSet(queue[l])
      PROVE  u \in Threads /\ u # t
  <2>1. u \in Threads
    BY <1>3, LenProperties, ElementOfSeq DEF ToSet
  <2> QED
    BY <1>3, <2>1 DEF MqIInv, SuspendedIsLinked
<1>5. MqWaiting'
  BY <1>1, <1>4 DEF MqIInv, MqWaiting
<1> QED
  BY <1>2, <1>5

\* A thread that starts to wait in the list of its operation.
LEMMA MqOneWaits ==
    ASSUME MqIInv, NEW t \in Threads, NEW l \in {"recv", "send"}, stat[t] = "RUN",
           Suspend(t, l, wait[t]), pc' = [pc EXCEPT ![t] = "wait"], UNCHANGED op,
           l = "recv" => op[t] = "recv", l = "send" => op[t] \in {"send", "urgent"}
    PROVE  IpcTypeOK' /\ SuspendedIsLinked' /\ MqWaiting'
<1>1. l \in Lists /\ "recv" \in Lists /\ "send" \in Lists
  BY MqAssumption
<1>2. /\ IpcTypeOK' /\ SuspendedIsLinked'
      /\ \A k \in Lists : ToSet(queue'[k]) = IF k = l THEN ToSet(queue[k]) \cup {t}
                                             ELSE ToSet(queue[k])
  BY <1>1, SuspendLinks DEF MqIInv, TypeOK
<1>3. stat' = [stat EXCEPT ![t] = "SUSPEND"] /\ error' = [error EXCEPT ![t] = "EOK"]
  BY DEF Suspend, ListSuspend
<1>4. \A u \in Threads : stat'[u] = "SUSPEND" => pc'[u] = "wait" /\ error'[u] = "EOK"
  BY <1>3 DEF MqIInv, TypeOK, IpcTypeOK, MqWaiting
<1>5. /\ \A u \in ToSet(queue'["recv"]) : op'[u] = "recv"
      /\ \A u \in ToSet(queue'["send"]) : op'[u] \in {"send", "urgent"}
  BY <1>1, <1>2 DEF MqIInv, MqWaiting
<1> QED
  BY <1>2, <1>4, <1>5 DEF MqWaiting

\* A step that resumes the first thread of a list, if there is one, and moves
\* only t, which is not suspended.
LEMMA MqOneWakes ==
    ASSUME MqIInv, NEW t \in Threads, NEW l \in {"recv", "send"}, stat[t] = "RUN",
           ResumeFirst(l), UNCHANGED op, \A u \in Threads : u # t => pc'[u] = pc[u]
    PROVE  IpcTypeOK' /\ SuspendedIsLinked' /\ MqWaiting'
<1>1. l \in Lists /\ "recv" \in Lists /\ "send" \in Lists
  BY MqAssumption
<1>2. /\ IpcTypeOK' /\ SuspendedIsLinked'
      /\ error' = error
      /\ queue[l] = <<>> => UNCHANGED <<stat, queue>>
      /\ queue[l] # <<>> =>
            /\ stat' = [stat EXCEPT ![Head(queue[l])] = "RUN"]
            /\ \A k \in Lists : ToSet(queue'[k]) = ToSet(queue[k]) \ {Head(queue[l])}
  BY <1>1, ResumeFirstUnlinks DEF MqIInv, TypeOK
<1>3. \A u \in Threads : stat'[u] = "SUSPEND" => stat[u] = "SUSPEND"
  BY <1>2 DEF MqIInv, TypeOK, IpcTypeOK
<1>4. \A u \in Threads : stat'[u] = "SUSPEND" => pc'[u] = "wait" /\ error'[u] = "EOK"
  BY <1>2, <1>3 DEF MqIInv, MqWaiting
<1>5. \A k \in Lists : ToSet(queue'[k]) \subseteq ToSet(queue[k])
  BY <1>2
<1>6. /\ \A u \in ToSet(queue'["recv"]) : op'[u] = "recv"
      /\ \A u \in ToSet(queue'["send"]) : op'[u] \in {"send", "urgent"}
  BY <1>1, <1>5 DEF MqIInv, MqWaiting
<1> QED
  BY <1>2, <1>4, <1>6 DEF MqWaiting

\* A step that takes suspended threads out of their lists and moves none of them.
LEMMA MqSomeLeave ==
    ASSUME MqIInv, IpcTypeOK', SuspendedIsLinked', UNCHANGED op,
           \A u \in Threads : stat[u] = "SUSPEND" => pc'[u] = pc[u],
           \A k \in Lists : ToSet(queue'[k]) \subseteq ToSet(queue[k]),
           \A u \in Threads : stat'[u] = "SUSPEND" =>
                                 stat[u] = "SUSPEND" /\ error'[u] = error[u]
    PROVE  MqWaiting'
  BY MqAssumption DEF MqIInv, MqWaiting

\* A thread that is not in the loop of an operation is not suspended.
LEMMA MqNotWaiting ==
    ASSUME MqIInv, NEW t \in Threads, pc[t] # "wait" PROVE stat[t] = "RUN"
  BY DEF MqIInv, TypeOK, IpcTypeOK, MqWaiting

\* The rounds of a detach move the thread that detaches and change nothing of the queue.
MqRounds == {"poprecv", "popsend"}
MqAtDetach == {"detach", "wild"} \cup MqRounds
LEMMA MqDetachMoves ==
    ASSUME NEW t, NEW l, NEW r \in MqRounds, DetachTest(t, l, r) \/ DetachRound(t, l, r)
    PROVE  /\ pc[t] \in MqAtDetach /\ \E p \in MqAtDetach : pc' = [pc EXCEPT ![t] = p]
           /\ UNCHANGED <<entry, linked, free, buf, alive, op, wait, hold, data>>
  BY DEF MqRounds, MqAtDetach, DetachTest, DetachRound, AfterRound

LEMMA MqThreadsStep == MqIInv /\ [Next]_vars => IpcTypeOK' /\ SuspendedIsLinked' /\ MqWaiting'
<1> SUFFICES ASSUME MqIInv, [Next]_vars PROVE IpcTypeOK' /\ SuspendedIsLinked' /\ MqWaiting'
  OBVIOUS
<1> DEFINE P == IpcTypeOK' /\ SuspendedIsLinked' /\ MqWaiting'
<1>a. /\ pc \in [Threads -> Labels]
      /\ op \in [Threads -> {"send", "urgent", "recv"}]
  BY DEF MqIInv, TypeOK
<1>1. ASSUME NEW t \in Threads, NEW o, NEW m, NEW time, Call(t, o, m, time) PROVE P
  BY <1>1, MqNotWaiting, MqOneMoves DEF Call
<1>2. ASSUME NEW t \in Threads, CopyIn(t) \/ CopyOut(t) PROVE P
  <2>1. stat[t] = "RUN" /\ UNCHANGED ipcVars /\ UNCHANGED op
    BY <1>2, MqNotWaiting DEF CopyIn, CopyOut
  <2>2. \A u \in Threads : u # t => pc'[u] = pc[u]
    BY <1>2, <1>a DEF CopyIn, CopyOut
  <2> QED
    BY <2>1, <2>2, MqOneMoves
<1>3. ASSUME NEW t \in Threads, WaitFails(t) \/ LookAgain(t) PROVE P
  <2>1. stat[t] = "RUN" /\ UNCHANGED ipcVars /\ UNCHANGED op
    BY <1>3 DEF WaitFails, LookAgain
  <2>2. \A u \in Threads : u # t => pc'[u] = pc[u]
    BY <1>3, <1>a DEF WaitFails, LookAgain, Return
  <2> QED
    BY <2>1, <2>2, MqOneMoves
<1>4. ASSUME NEW t \in Threads, GetNode(t) PROVE P
  <2>1. stat[t] = "RUN" /\ op[t] \in {"send", "urgent"} /\ UNCHANGED op
    BY <1>4, MqNotWaiting DEF GetNode
  <2>2. CASE UNCHANGED ipcVars
    <3>1. \A u \in Threads : u # t => pc'[u] = pc[u]
      BY <1>4, <1>a DEF GetNode, Return
    <3> QED
      BY <2>1, <2>2, <3>1, MqOneMoves
  <2>3. CASE Suspend(t, "send", wait[t]) /\ pc' = [pc EXCEPT ![t] = "wait"]
    BY <2>1, <2>3, MqOneWaits
  <2> QED
    BY <1>4, <2>2, <2>3 DEF GetNode
<1>5. ASSUME NEW t \in Threads, TakeNode(t) PROVE P
  <2>1. stat[t] = "RUN" /\ op[t] = "recv" /\ UNCHANGED op
    BY <1>5, MqNotWaiting DEF TakeNode
  <2>2. CASE UNCHANGED ipcVars
    <3>1. \A u \in Threads : u # t => pc'[u] = pc[u]
      BY <1>5, <1>a DEF TakeNode, Return
    <3> QED
      BY <2>1, <2>2, <3>1, MqOneMoves
  <2>3. CASE Suspend(t, "recv", wait[t]) /\ pc' = [pc EXCEPT ![t] = "wait"]
    BY <2>1, <2>3, MqOneWaits
  <2> QED
    BY <1>5, <2>2, <2>3 DEF TakeNode
<1>6. ASSUME NEW t \in Threads, Link(t) PROVE P
  <2>1. stat[t] = "RUN" /\ ResumeFirst("recv") /\ UNCHANGED op
    BY <1>6, MqNotWaiting DEF Link
  <2>2. \A u \in Threads : u # t => pc'[u] = pc[u]
    BY <1>6, <1>a DEF Link, Return
  <2> QED
    BY <2>1, <2>2, MqOneWakes
<1>7. ASSUME NEW t \in Threads, FreeNode(t) PROVE P
  <2>1. stat[t] = "RUN" /\ ResumeFirst("send") /\ UNCHANGED op
    BY <1>7, MqNotWaiting DEF FreeNode
  <2>2. \A u \in Threads : u # t => pc'[u] = pc[u]
    BY <1>7, <1>a DEF FreeNode, Return
  <2> QED
    BY <2>1, <2>2, MqOneWakes
<1>8. ASSUME NEW t \in Threads, Reset(t) PROVE P
  <2>1. ResumeAll({"recv", "send"}) /\ UNCHANGED <<pc, op>> /\ {"recv", "send"} \in SUBSET Lists
    BY <1>8, MqAssumption DEF Reset
  <2>2. IpcTypeOK /\ SuspendedIsLinked
    BY DEF MqIInv, TypeOK
  <2>3. /\ IpcTypeOK' /\ SuspendedIsLinked'
        /\ \A l \in {"recv", "send"} : queue'[l] = <<>>
        /\ \A l \in Lists \ {"recv", "send"} : queue'[l] = queue[l]
        /\ \A u \in Threads :
              IF u \in UNION {ToSet(queue[l]) : l \in {"recv", "send"}}
              THEN stat'[u] = "RUN" /\ error'[u] = "ERROR"
              ELSE stat'[u] = stat[u] /\ error'[u] = error[u]
    BY <2>1, <2>2, ResumeAllUnlinks
  <2>4. \A u \in Threads : stat'[u] = "SUSPEND" => stat[u] = "SUSPEND" /\ error'[u] = error[u]
    BY <2>3
  <2>5. ToSet(<<>>) = {}
    BY DEF ToSet
  <2>6. \A k \in Lists : ToSet(queue'[k]) \subseteq ToSet(queue[k])
    BY <2>3, <2>5
  <2> QED
    BY <2>1, <2>3, <2>4, <2>6, MqSomeLeave
<1>9. ASSUME NEW t \in Threads, DetachCall(t) \/ DetachObject(t) PROVE P
  <2>1. stat[t] = "RUN" /\ UNCHANGED ipcVars /\ UNCHANGED op
    BY <1>9, MqNotWaiting DEF DetachCall, DetachObject
  <2>2. \A u \in Threads : u # t => pc'[u] = pc[u]
    BY <1>9, <1>a DEF DetachCall, DetachObject
  <2> QED
    BY <2>1, <2>2, MqOneMoves
<1>10. ASSUME NEW t \in Threads, NEW l \in {"recv", "send"}, NEW r \in MqRounds,
              DetachTest(t, l, r) \/ DetachRound(t, l, r)
       PROVE  P
  <2>1. CASE DetachTest(t, l, r)
    <3>1. stat[t] = "RUN" /\ UNCHANGED ipcVars /\ UNCHANGED op
      BY <2>1, MqNotWaiting DEF DetachTest
    <3>2. \A u \in Threads : u # t => pc'[u] = pc[u]
      BY <2>1, <1>a DEF DetachTest
    <3> QED
      BY <3>1, <3>2, MqOneMoves
  <2>2. CASE DetachRound(t, l, r)
    <3>1. /\ ResumeNext(l) /\ UNCHANGED op /\ l \in Lists /\ pc[t] = r
          /\ \A u \in Threads : u # t => pc'[u] = pc[u]
      BY <2>2, <1>a, MqAssumption DEF DetachRound
    <3>2. IpcTypeOK /\ SuspendedIsLinked /\ stat[t] = "RUN"
      BY <3>1, MqNotWaiting DEF MqIInv, TypeOK, MqRounds
    <3>3. /\ IpcTypeOK' /\ SuspendedIsLinked'
          /\ \A u \in Threads : stat'[u] = "SUSPEND" =>
                stat[u] = "SUSPEND" /\ error'[u] = error[u]
          /\ \A k \in Lists : ToSet(queue'[k]) \subseteq ToSet(queue[k])
      BY <3>1, <3>2, ResumeNextUnlinks
    <3>4. \A u \in Threads : stat[u] = "SUSPEND" => pc'[u] = pc[u]
      BY <3>1, <3>2
    <3> QED
      BY <3>1, <3>3, <3>4, MqSomeLeave
  <2> QED
    BY <1>10, <2>1, <2>2
<1>11. ASSUME NEW t \in Threads, Timeout(t) PROVE P
  <2>1. PICK c \in Cpus : TimerExpires(c, t) \/ ThreadTimeout(c, t)
    BY <1>11 DEF Timeout
  <2>2. IpcTypeOK /\ SuspendedIsLinked /\ UNCHANGED <<pc, op>>
    BY <1>11 DEF MqIInv, TypeOK, Timeout, mqVars
  <2>3. /\ IpcTypeOK' /\ SuspendedIsLinked'
        /\ \/ UNCHANGED <<stat, error, queue>>
           \/ /\ stat[t] = "SUSPEND" /\ stat' = [stat EXCEPT ![t] = "RUN"]
              /\ error' = [error EXCEPT ![t] = "ETIMEOUT"]
              /\ \A k \in Lists : ToSet(queue'[k]) = ToSet(queue[k]) \ {t}
    BY <2>1, <2>2, TimeoutUnlinks
  <2>4. \A u \in Threads : stat'[u] = "SUSPEND" => stat[u] = "SUSPEND" /\ error'[u] = error[u]
    BY <2>2, <2>3 DEF IpcTypeOK
  <2>5. \A k \in Lists : ToSet(queue'[k]) \subseteq ToSet(queue[k])
    BY <2>3
  <2> QED
    BY <2>2, <2>3, <2>4, <2>5, MqSomeLeave
<1>12. CASE UNCHANGED vars
  BY <1>12 DEF vars, ipcVars, mqVars, MqIInv, TypeOK, IpcTypeOK, SuspendedIsLinked, MqWaiting
<1> QED
  BY <1>1, <1>2, <1>3, <1>4, <1>5, <1>6, <1>7, <1>8, <1>9, <1>10, <1>11, <1>12
     DEF Next, Calls, ThreadStep, Finished, MqRounds

-----------------------------------------------------------------------------
(* The nodes *)

\* The copies and the waiting change nothing about who has which node.
LEMMA MqNodesStay ==
    ASSUME MqNodesInPlace, UNCHANGED <<entry, linked, free>>, Holders' = Holders,
           \A t \in Holders : hold'[t] = hold[t]
    PROVE  MqNodesInPlace'
  BY DEF MqNodesInPlace

\* Thread t takes node n out of a list.
LEMMA MqNodeTaken ==
    ASSUME MqIInv, NEW t \in Threads, NEW n \in Nodes, t \notin Holders,
           Holders' = Holders \cup {t}, hold' = [hold EXCEPT ![t] = n],
           n \in ToSet(free) \/ n \in ToSet(linked),
           IsInjective(free'), ToSet(free') = ToSet(free) \ {n},
           IsInjective(linked'), ToSet(linked') = ToSet(linked) \ {n}, entry' = Len(linked')
    PROVE  MqNodesInPlace'
<1>1. hold \in [Threads -> Nodes \cup {NoNode}] /\ Holders \subseteq Threads
  BY DEF MqIInv, TypeOK, Holders
<1>2. hold'[t] = n /\ \A u \in Holders : hold'[u] = hold[u] /\ hold[u] # n
  BY <1>1 DEF MqIInv, MqNodesInPlace
<1>3. \A u, v \in Holders' : hold'[u] = hold'[v] => u = v
  BY <1>2 DEF MqIInv, MqNodesInPlace
<1>4. ASSUME NEW m \in Nodes
      PROVE  m \in ToSet(free') \/ m \in ToSet(linked') \/ \E u \in Holders' : hold'[u] = m
  BY <1>2 DEF MqIInv, MqNodesInPlace
<1>5. \A u \in Holders' :
         hold'[u] \in Nodes /\ hold'[u] \notin ToSet(free') /\ hold'[u] \notin ToSet(linked')
  BY <1>2 DEF MqIInv, MqNodesInPlace
<1>6. ToSet(free') \cap ToSet(linked') = {}
  BY DEF MqIInv, MqNodesInPlace
<1> QED
  BY <1>3, <1>4, <1>5, <1>6 DEF MqNodesInPlace

\* Thread t puts its node into one of the lists.
LEMMA MqNodeGiven ==
    ASSUME MqIInv, NEW t \in Holders, Holders' = Holders \ {t},
           \A u \in Holders \ {t} : hold'[u] = hold[u],
           IsInjective(free'), IsInjective(linked'), entry' = Len(linked'),
           \/ ToSet(free') = ToSet(free) \cup {hold[t]} /\ ToSet(linked') = ToSet(linked)
           \/ ToSet(free') = ToSet(free) /\ ToSet(linked') = ToSet(linked) \cup {hold[t]}
    PROVE  MqNodesInPlace'
<1>1. /\ hold[t] \notin ToSet(free) /\ hold[t] \notin ToSet(linked)
      /\ \A u \in Holders \ {t} : hold[u] # hold[t]
  BY DEF MqIInv, MqNodesInPlace
<1>2. \A u, v \in Holders' : hold'[u] = hold'[v] => u = v
  BY DEF MqIInv, MqNodesInPlace
<1>3. ASSUME NEW m \in Nodes
      PROVE  m \in ToSet(free') \/ m \in ToSet(linked') \/ \E u \in Holders' : hold'[u] = m
  BY DEF MqIInv, MqNodesInPlace
<1>4. \A u \in Holders' :
         hold'[u] \in Nodes /\ hold'[u] \notin ToSet(free') /\ hold'[u] \notin ToSet(linked')
  BY <1>1 DEF MqIInv, MqNodesInPlace
<1>5. ToSet(free') \cap ToSet(linked') = {}
  BY <1>1 DEF MqIInv, MqNodesInPlace
<1> QED
  BY <1>2, <1>3, <1>4, <1>5 DEF MqNodesInPlace

\* The steps that move a node, and what they make of the types of the lists.
MqTypeOK ==
    /\ entry \in 0..EntryMax
    /\ linked \in Seq(Nodes) /\ free \in Seq(Nodes)
    /\ hold \in [Threads -> Nodes \cup {NoNode}]

LEMMA MqGetNodeMoves ==
    ASSUME MqIInv, NEW t \in Threads, GetNode(t) PROVE MqNodesInPlace' /\ MqTypeOK'
<1>1. TypeOK /\ MqNodesInPlace /\ UNCHANGED <<entry, linked>> /\ pc[t] = "enter"
  BY DEF MqIInv, GetNode
<1>2. CASE UNCHANGED free /\ (Return(t) \/ (UNCHANGED hold /\ pc' = [pc EXCEPT ![t] = "wait"]))
  <2>1. Holders' = Holders /\ \A u \in Holders : hold'[u] = hold[u]
    BY <1>1, <1>2 DEF Holders, Return, TypeOK
  <2>2. hold' \in [Threads -> Nodes \cup {NoNode}]
    BY <1>1, <1>2 DEF Return, TypeOK
  <2> QED
    BY <1>1, <1>2, <2>1, <2>2, MqNodesStay DEF TypeOK, MqTypeOK
<1>3. CASE /\ free # <<>> /\ free' = Tail(free) /\ hold' = [hold EXCEPT ![t] = Head(free)]
           /\ pc' = [pc EXCEPT ![t] = "copy"]
  <2> DEFINE n == Head(free)
  <2>1. free \in Seq(Nodes) /\ IsInjective(free)
    BY <1>1 DEF TypeOK, MqNodesInPlace
  <2>2. /\ free' \in Seq(Nodes) /\ ToSet(free') = ToSet(free) \ {n} /\ IsInjective(free')
        /\ n \in ToSet(free)
    BY <1>3, <2>1, TailProperties
  <2>3. n \in Nodes
    BY <1>3, <2>1, HeadProperties
  <2>4. hold' = [hold EXCEPT ![t] = n]
    BY <1>3
  <2> HIDE DEF n
  <2>5. Holders' = Holders \cup {t} /\ t \notin Holders
    BY <1>1, <1>3 DEF Holders, TypeOK
  <2>6. /\ IsInjective(linked') /\ ToSet(linked') = ToSet(linked) \ {n}
        /\ entry' = Len(linked')
    BY <1>1, <2>2 DEF MqNodesInPlace
  <2>7. MqNodesInPlace'
    BY <2>2, <2>3, <2>4, <2>5, <2>6, MqNodeTaken
  <2>8. MqTypeOK'
    BY <1>1, <2>2, <2>3, <2>4 DEF TypeOK, MqTypeOK
  <2> QED
    BY <2>7, <2>8
<1> QED
  BY <1>2, <1>3 DEF GetNode

LEMMA MqTakeNodeMoves ==
    ASSUME MqIInv, NEW t \in Threads, TakeNode(t) PROVE MqNodesInPlace' /\ MqTypeOK'
<1>1. TypeOK /\ MqNodesInPlace /\ UNCHANGED free /\ pc[t] = "enter"
  BY DEF MqIInv, TakeNode
<1>2. CASE /\ UNCHANGED <<entry, linked>>
           /\ Return(t) \/ (UNCHANGED hold /\ pc' = [pc EXCEPT ![t] = "wait"])
  <2>1. Holders' = Holders /\ \A u \in Holders : hold'[u] = hold[u]
    BY <1>1, <1>2 DEF Holders, Return, TypeOK
  <2>2. hold' \in [Threads -> Nodes \cup {NoNode}]
    BY <1>1, <1>2 DEF Return, TypeOK
  <2> QED
    BY <1>1, <1>2, <2>1, <2>2, MqNodesStay DEF TypeOK, MqTypeOK
<1>3. CASE /\ entry > 0 /\ linked' = Tail(linked) /\ entry' = entry - 1
           /\ hold' = [hold EXCEPT ![t] = Head(linked)] /\ pc' = [pc EXCEPT ![t] = "copy"]
  <2> DEFINE n == Head(linked)
  <2>1. linked \in Seq(Nodes) /\ IsInjective(linked) /\ entry = Len(linked) /\ entry \in 0..EntryMax
    BY <1>1 DEF TypeOK, MqNodesInPlace
  <2>2. linked # <<>>
    BY <1>3, <2>1
  <2>3. /\ linked' \in Seq(Nodes) /\ ToSet(linked') = ToSet(linked) \ {n}
        /\ IsInjective(linked') /\ n \in ToSet(linked) /\ Len(linked') = Len(linked) - 1
    BY <1>3, <2>1, <2>2, TailProperties
  <2>4. n \in Nodes
    BY <2>1, <2>2, HeadProperties
  <2>5. hold' = [hold EXCEPT ![t] = n]
    BY <1>3
  <2> HIDE DEF n
  <2>6. Holders' = Holders \cup {t} /\ t \notin Holders
    BY <1>1, <1>3 DEF Holders, TypeOK
  <2>7. /\ IsInjective(free') /\ ToSet(free') = ToSet(free) \ {n}
        /\ entry' = Len(linked')
    BY <1>1, <1>3, <2>1, <2>3 DEF MqNodesInPlace
  <2>8. MqNodesInPlace'
    BY <2>3, <2>4, <2>5, <2>6, <2>7, MqNodeTaken
  <2>9. entry' \in 0..EntryMax
    BY <1>3, <2>1, MqAssumption
  <2>10. MqTypeOK'
    BY <1>1, <2>3, <2>4, <2>5, <2>9 DEF TypeOK, MqTypeOK
  <2> QED
    BY <2>8, <2>10
<1> QED
  BY <1>2, <1>3 DEF TakeNode

LEMMA MqLinkMoves ==
    ASSUME MqIInv, NEW t \in Threads, Link(t) PROVE MqNodesInPlace' /\ MqTypeOK'
<1> DEFINE n == hold[t]
<1>1. /\ TypeOK /\ MqNodesInPlace /\ UNCHANGED free /\ pc[t] = "finish" /\ Return(t)
      /\ linked' = IF op[t] = "send" THEN Append(linked, n) ELSE <<n>> \o linked
      /\ entry' = IF entry < EntryMax THEN entry + 1 ELSE entry
  BY DEF MqIInv, Link
<1>2. linked \in Seq(Nodes) /\ IsInjective(linked)
  BY <1>1 DEF TypeOK, MqNodesInPlace
<1>b. entry = Len(linked) /\ entry \in 0..EntryMax /\ Len(linked) \in Nat
  BY <1>1, <1>2, LenProperties DEF TypeOK, MqNodesInPlace
<1>3. t \in Holders /\ n \in Nodes /\ n \notin ToSet(linked)
  BY <1>1 DEF Holders, MqNodesInPlace
<1> HIDE DEF n
<1> DEFINE p == <<n>>
<1>4. p \in Seq(Nodes) /\ Len(p) = 1 /\ ToSet(p) = {n} /\ IsInjective(p)
  BY <1>3, SingleProperties
<1>a. /\ op[t] = "send" => linked' = linked \o p
      /\ op[t] # "send" => linked' = p \o linked
  BY <1>1, <1>2, <1>3, AppendIsConcat
<1> HIDE DEF p
<1>5. /\ linked' \in Seq(Nodes) /\ Len(linked') = Len(linked) + 1
      /\ ToSet(linked') = ToSet(linked) \cup {n} /\ IsInjective(linked')
  <2>1. CASE op[t] = "send"
    <3>1. linked' = linked \o p
      BY <1>a, <2>1
    <3>2. ToSet(linked) \cap ToSet(p) = {}
      BY <1>3, <1>4
    <3>3. /\ linked' \in Seq(Nodes) /\ Len(linked') = Len(linked) + Len(p)
          /\ ToSet(linked') = ToSet(linked) \cup ToSet(p) /\ IsInjective(linked')
      <4>1. p \in Seq(Nodes) /\ IsInjective(p)
        BY <1>4
      <4> QED
        BY ONLY <1>2, <3>1, <3>2, <4>1, ConcatKeeps
    <3> QED
      BY <1>4, <3>3, Zenon
  <2>2. CASE op[t] # "send"
    <3>1. linked' = p \o linked
      BY <1>a, <2>2
    <3>2. ToSet(p) \cap ToSet(linked) = {}
      BY <1>3, <1>4
    <3>3. /\ linked' \in Seq(Nodes) /\ Len(linked') = Len(p) + Len(linked)
          /\ ToSet(linked') = ToSet(p) \cup ToSet(linked) /\ IsInjective(linked')
      <4>1. p \in Seq(Nodes) /\ IsInjective(p)
        BY <1>4
      <4> QED
        BY ONLY <1>2, <3>1, <3>2, <4>1, ConcatKeeps
    <3>4. Len(p) + Len(linked) = Len(linked) + 1
      BY <1>4, <1>b
    <3>5. ToSet(p) \cup ToSet(linked) = ToSet(linked) \cup {n}
      BY <1>4, Zenon
    <3> QED
      BY <3>3, <3>4, <3>5, Zenon
  <2> QED
    BY <2>1, <2>2
<1>6. entry' = Len(linked') /\ entry' \in 0..EntryMax
  <2>1. Len(linked) < Cardinality(Nodes)
    BY <1>2, <1>3, MqAssumption, ShorterThanSet
  <2>2. Cardinality(Nodes) \in Nat /\ Cardinality(Nodes) <= EntryMax /\ EntryMax \in Nat
    BY MqAssumption, FS_CardinalityType
  <2>3. entry < EntryMax
    BY <1>b, <2>1, <2>2
  <2> QED
    BY <1>1, <1>b, <1>5, <2>2, <2>3
<1>7. Holders' = Holders \ {t} /\ \A u \in Holders \ {t} : hold'[u] = hold[u]
  BY <1>1 DEF Holders, Return, TypeOK
<1>8. hold' \in [Threads -> Nodes \cup {NoNode}]
  BY <1>1 DEF Return, TypeOK
<1>9. MqNodesInPlace'
  BY <1>1, <1>3, <1>5, <1>6, <1>7, MqNodeGiven DEF n, MqNodesInPlace
<1> QED
  BY <1>1, <1>5, <1>6, <1>8, <1>9 DEF MqTypeOK, TypeOK

LEMMA MqFreeNodeMoves ==
    ASSUME MqIInv, NEW t \in Threads, FreeNode(t) PROVE MqNodesInPlace' /\ MqTypeOK'
<1> DEFINE n == hold[t]
<1>1. /\ TypeOK /\ MqNodesInPlace /\ UNCHANGED <<entry, linked>> /\ pc[t] = "finish" /\ Return(t)
      /\ free' = <<n>> \o free
  BY DEF MqIInv, FreeNode
<1>2. free \in Seq(Nodes) /\ IsInjective(free)
  BY <1>1 DEF TypeOK, MqNodesInPlace
<1>3. t \in Holders /\ n \in Nodes /\ n \notin ToSet(free)
  BY <1>1 DEF Holders, MqNodesInPlace
<1> HIDE DEF n
<1> DEFINE p == <<n>>
<1>4. p \in Seq(Nodes) /\ ToSet(p) = {n} /\ IsInjective(p) /\ free' = p \o free
  BY <1>1, <1>3, SingleProperties
<1> HIDE DEF p
<1>5. ToSet(p) \cap ToSet(free) = {}
  BY <1>3, <1>4
<1>6. free' \in Seq(Nodes) /\ ToSet(free') = ToSet(p) \cup ToSet(free) /\ IsInjective(free')
  BY <1>2, <1>4, <1>5, ConcatKeeps
<1>7. Holders' = Holders \ {t} /\ \A u \in Holders \ {t} : hold'[u] = hold[u]
  BY <1>1 DEF Holders, Return, TypeOK
<1>8. hold' \in [Threads -> Nodes \cup {NoNode}]
  BY <1>1 DEF Return, TypeOK
<1>9. IsInjective(linked') /\ entry' = Len(linked') /\ ToSet(linked') = ToSet(linked)
  BY <1>1 DEF MqNodesInPlace
<1>10. ToSet(free') = ToSet(free) \cup {hold[t]}
  BY <1>4, <1>6 DEF n
<1>11. MqNodesInPlace'
  BY <1>3, <1>6, <1>7, <1>9, <1>10, MqNodeGiven
<1> QED
  BY <1>1, <1>6, <1>8, <1>11 DEF MqTypeOK, TypeOK

LEMMA MqResetMoves ==
    ASSUME MqIInv, NEW t \in Threads, Reset(t) PROVE MqNodesInPlace' /\ MqTypeOK'
<1>1. /\ TypeOK /\ MqNodesInPlace /\ UNCHANGED <<pc, hold>>
      /\ free' = Reverse(linked) \o free /\ linked' = <<>> /\ entry' = 0
  BY DEF MqIInv, Reset
<1> DEFINE r == Reverse(linked)
<1>2. /\ linked \in Seq(Nodes) /\ IsInjective(linked) /\ free \in Seq(Nodes) /\ IsInjective(free)
      /\ ToSet(free) \cap ToSet(linked) = {}
  BY <1>1 DEF TypeOK, MqNodesInPlace
<1>3. r \in Seq(Nodes) /\ ToSet(r) = ToSet(linked) /\ IsInjective(r)
  BY <1>2, ReverseProperties
<1>4. free' = r \o free
  BY <1>1
<1> HIDE DEF r
<1>5. ToSet(r) \cap ToSet(free) = {}
  BY <1>2, <1>3
<1>6. free' \in Seq(Nodes) /\ ToSet(free') = ToSet(r) \cup ToSet(free) /\ IsInjective(free')
  BY <1>2, <1>3, <1>4, <1>5, ConcatKeeps
<1>7. ToSet(linked') = {} /\ IsInjective(linked') /\ Len(linked') = 0 /\ linked' \in Seq(Nodes)
  BY <1>1 DEF ToSet, IsInjective
<1>8. Holders' = Holders
  BY <1>1 DEF Holders
<1>9. MqNodesInPlace'
  BY <1>1, <1>3, <1>6, <1>7, <1>8 DEF MqNodesInPlace
<1> QED
  BY <1>1, <1>6, <1>7, <1>9, MqAssumption DEF MqTypeOK, TypeOK

LEMMA MqNodesStep == MqIInv /\ [Next]_vars => MqNodesInPlace' /\ MqTypeOK'
<1> SUFFICES ASSUME MqIInv, [Next]_vars PROVE MqNodesInPlace' /\ MqTypeOK'
  OBVIOUS
<1> DEFINE P == MqNodesInPlace' /\ MqTypeOK'
           Still == /\ UNCHANGED <<entry, linked, free>> /\ Holders' = Holders
                    /\ \A t \in Holders : hold'[t] = hold[t]
                    /\ hold' \in [Threads -> Nodes \cup {NoNode}]
<1>a. TypeOK /\ MqNodesInPlace
  BY DEF MqIInv
<1>b. ASSUME Still PROVE P
  BY <1>a, <1>b, MqNodesStay DEF TypeOK, MqTypeOK
<1>1. ASSUME NEW t \in Threads, NEW o, NEW m, NEW time, Call(t, o, m, time) PROVE Still
  BY <1>1, <1>a DEF Call, Holders, TypeOK
<1>2. ASSUME NEW t \in Threads, CopyIn(t) \/ CopyOut(t) PROVE Still
  BY <1>2, <1>a DEF CopyIn, CopyOut, Holders, TypeOK
<1>3. ASSUME NEW t \in Threads, WaitFails(t) \/ LookAgain(t) PROVE Still
  BY <1>3, <1>a DEF WaitFails, LookAgain, Return, Holders, TypeOK
<1>4. ASSUME NEW t \in Threads, DetachCall(t) \/ DetachObject(t) PROVE Still
  BY <1>4, <1>a DEF DetachCall, DetachObject, Holders, TypeOK
<1>5. ASSUME NEW t \in Threads, NEW l, NEW r \in MqRounds, DetachTest(t, l, r) \/ DetachRound(t, l, r)
      PROVE  Still
  BY <1>5, <1>a, MqDetachMoves DEF MqAtDetach, MqRounds, Holders, TypeOK
<1>6. ASSUME NEW t \in Threads, Timeout(t) PROVE Still
  BY <1>6, <1>a DEF Timeout, mqVars, Holders, TypeOK
<1>7. CASE UNCHANGED vars
  <2>1. Still
    BY <1>7, <1>a DEF vars, mqVars, Holders, TypeOK
  <2> QED
    BY <1>b, <2>1
<1> HIDE DEF Still
<1> QED
  BY <1>b, <1>1, <1>2, <1>3, <1>4, <1>5, <1>6, <1>7,
     MqGetNodeMoves, MqTakeNodeMoves, MqLinkMoves, MqFreeNodeMoves, MqResetMoves
     DEF Next, Calls, ThreadStep, Finished, MqRounds

LEMMA MqTypeStep == MqIInv /\ [Next]_vars => TypeOK'
<1> SUFFICES ASSUME MqIInv, [Next]_vars PROVE TypeOK'
  OBVIOUS
<1>1. IpcTypeOK' /\ MqTypeOK' /\ TypeOK /\ MqNodesInPlace
  BY MqThreadsStep, MqNodesStep DEF MqIInv
<1> DEFINE Rest == /\ buf' \in [Nodes -> Msgs \cup {NoMsg}]
                   /\ alive' \in BOOLEAN
                   /\ op' \in [Threads -> {"send", "urgent", "recv"}]
                   /\ pc' \in [Threads -> Labels]
                   /\ wait' \in [Threads -> {"no", "timed", "forever"}]
                   /\ data' \in [Threads -> Msgs \cup {NoMsg}]
<1> USE <1>1 DEF TypeOK, Labels
<1>2. ASSUME NEW t \in Threads, Calls(t) PROVE Rest
  <2>1. ASSUME NEW o \in {"send", "urgent", "recv"}, NEW m \in Msgs \cup {NoMsg},
               NEW time \in {"no", "timed", "forever"}, Call(t, o, m, time)
        PROVE  Rest
    BY <2>1 DEF Call
  <2>2. CASE Reset(t) \/ DetachCall(t)
    BY <2>2 DEF Reset, DetachCall
  <2>3. Payload[t] \subseteq Msgs /\ WaitsOf(t) \subseteq {"no", "timed", "forever"}
        /\ Waits \subseteq {"no", "timed", "forever"}
    BY MqAssumption, WaitAssumption DEF WaitsOf
  <2> HIDE DEF Rest
  <2> QED
    BY <1>2, <2>1, <2>2, <2>3 DEF Calls
<1>3. ASSUME NEW t \in Threads, GetNode(t) \/ TakeNode(t) PROVE Rest
  BY <1>3 DEF GetNode, TakeNode, Return
<1>4. ASSUME NEW t \in Threads, CopyIn(t) \/ CopyOut(t) PROVE Rest
  <2>1. hold[t] \in Nodes
    BY <1>4 DEF CopyIn, CopyOut, MqNodesInPlace, Holders
  <2> QED
    BY <1>4, <2>1 DEF CopyIn, CopyOut
<1>5. ASSUME NEW t \in Threads, Link(t) \/ FreeNode(t) \/ WaitFails(t) PROVE Rest
  BY <1>5 DEF Link, FreeNode, WaitFails, Return
<1>6. ASSUME NEW t \in Threads, LookAgain(t) PROVE Rest
  <2>1. PICK time \in Remaining(wait[t]) : wait' = [wait EXCEPT ![t] = time]
    BY <1>6 DEF LookAgain
  <2>2. time \in {"no", "timed", "forever"}
    BY <2>1 DEF Remaining
  <2> QED
    BY <1>6, <2>1, <2>2 DEF LookAgain
<1>7. ASSUME NEW t \in Threads, DetachObject(t) PROVE Rest
  BY <1>7 DEF DetachObject
<1>12. ASSUME NEW t \in Threads, NEW l, NEW r \in MqRounds, DetachTest(t, l, r) \/ DetachRound(t, l, r)
       PROVE  Rest
  BY <1>12, MqDetachMoves DEF MqAtDetach, MqRounds
<1>8. ASSUME NEW t \in Threads, Timeout(t) PROVE Rest
  BY <1>8 DEF Timeout, mqVars
<1>9. ASSUME UNCHANGED vars PROVE Rest
  BY <1>9 DEF vars, mqVars
<1> HIDE <1>1 DEF Rest, TypeOK, Labels
<1>10. ASSUME NEW t \in Threads, ThreadStep(t) PROVE Rest
  BY <1>3, <1>4, <1>5, <1>6, <1>7, <1>10, <1>12 DEF ThreadStep, MqRounds
<1>11. Rest
  BY <1>2, <1>8, <1>9, <1>10 DEF Next, Finished
<1> QED
  BY <1>1, <1>11 DEF Rest, MqTypeOK, TypeOK

LEMMA MqInductive == MqIInv /\ [Next]_vars => MqIInv'
  BY MqTypeStep, MqThreadsStep, MqNodesStep DEF MqIInv

-----------------------------------------------------------------------------
(* Nobody waits in vain *)

\* One thread more or less that looks for something counts for one.
LEMMA MqLookingCounts ==
    ASSUME NEW A \in SUBSET Threads, NEW B \in SUBSET Threads, NEW t \in Threads
    PROVE  /\ Cardinality(A) \in Nat /\ Cardinality(B) \in Nat
           /\ A \subseteq B => Cardinality(A) <= Cardinality(B)
           /\ A \ {t} \subseteq B => Cardinality(A) <= Cardinality(B) + 1
           /\ A \cup {t} \subseteq B /\ t \notin A => Cardinality(A) + 1 <= Cardinality(B)
<1>1. IsFiniteSet(Threads)
  BY WaitAssumption
<1>2. IsFiniteSet(A) /\ IsFiniteSet(B)
  BY <1>1, FS_Subset
<1>3. Cardinality(A) \in Nat /\ Cardinality(B) \in Nat
  BY <1>2, FS_CardinalityType
<1>4. A \subseteq B => Cardinality(A) <= Cardinality(B)
  BY <1>2, FS_Subset
<1>5. ASSUME A \ {t} \subseteq B PROVE Cardinality(A) <= Cardinality(B) + 1
  <2>1. /\ IsFiniteSet(A \ {t})
        /\ Cardinality(A \ {t}) = IF t \in A THEN Cardinality(A) - 1 ELSE Cardinality(A)
    BY <1>2, FS_RemoveElement
  <2>2. Cardinality(A \ {t}) <= Cardinality(B)
    BY <1>2, <1>5, FS_Subset
  <2> QED
    BY <1>3, <2>1, <2>2
<1>6. ASSUME A \cup {t} \subseteq B, t \notin A PROVE Cardinality(A) + 1 <= Cardinality(B)
  <2>1. Cardinality(A \cup {t}) = Cardinality(A) + 1
    BY <1>2, <1>6, FS_AddElement
  <2>2. Cardinality(A \cup {t}) <= Cardinality(B)
    BY <1>2, <1>6, FS_Subset
  <2> QED
    BY <2>1, <2>2
<1> QED
  BY <1>3, <1>4, <1>5, <1>6

\* A half of NoWaitInVain is kept by a step that adds no message (no free node)
\* while nobody stops looking,
LEMMA MqStillServed ==
    ASSUME NEW ops, NEW m \in Nat, NEW n \in Nat, m <= Cardinality(Looking(ops)), n <= m,
           Looking(ops) \subseteq Looking(ops)'
    PROVE  n <= Cardinality(Looking(ops)')
<1>1. PICK A \in SUBSET Threads : A = Looking(ops)
  BY DEF Looking
<1>2. PICK B \in SUBSET Threads : B = Looking(ops)'
  BY DEF Looking
<1>3. /\ Cardinality(A) <= Cardinality(B)
      /\ Cardinality(A) \in Nat /\ Cardinality(B) \in Nat
  <2>1. A \subseteq B /\ IsFiniteSet(A) /\ IsFiniteSet(B)
    BY <1>1, <1>2, WaitAssumption, FS_Subset
  <2> QED
    BY <2>1, FS_Subset, FS_CardinalityType
<1> QED
  BY <1>1, <1>2, <1>3

\* by one that takes a message and stops looking,
LEMMA MqTakenServed ==
    ASSUME NEW ops, NEW m \in Nat, NEW n \in Nat, m <= Cardinality(Looking(ops)), n + 1 <= m,
           NEW t \in Threads, Looking(ops) \ {t} \subseteq Looking(ops)'
    PROVE  n <= Cardinality(Looking(ops)')
<1>1. PICK A \in SUBSET Threads : A = Looking(ops)
  BY DEF Looking
<1>2. PICK B \in SUBSET Threads : B = Looking(ops)'
  BY DEF Looking
<1>3. A \ {t} \subseteq B
  BY <1>1, <1>2
<1>4. /\ Cardinality(A) <= Cardinality(B) + 1
      /\ Cardinality(A) \in Nat /\ Cardinality(B) \in Nat
  BY <1>3, MqLookingCounts
<1> QED
  BY <1>1, <1>2, <1>4

\* and by one that adds a message and wakes a thread that will look for it.
LEMMA MqAddedServed ==
    ASSUME NEW ops, NEW m \in Nat, NEW n \in Nat, m <= Cardinality(Looking(ops)), n <= m + 1,
           NEW t \in Threads, t \notin Looking(ops), Looking(ops) \cup {t} \subseteq Looking(ops)'
    PROVE  n <= Cardinality(Looking(ops)')
<1>1. PICK A \in SUBSET Threads : A = Looking(ops)
  BY DEF Looking
<1>2. PICK B \in SUBSET Threads : B = Looking(ops)'
  BY DEF Looking
<1>3. A \cup {t} \subseteq B /\ t \notin A
  BY <1>1, <1>2
<1>4. /\ Cardinality(A) + 1 <= Cardinality(B)
      /\ Cardinality(A) \in Nat /\ Cardinality(B) \in Nat
  BY <1>3, MqLookingCounts
<1> QED
  BY <1>1, <1>2, <1>4

\* The counters are natural numbers.
LEMMA MqCounters == TypeOK => entry \in Nat /\ Len(free) \in Nat
  BY MqAssumption, LenProperties DEF TypeOK

\* The steps that change neither the nodes nor a list keep both halves, as long as
\* nobody stops looking.
LEMMA MqNothingServed ==
    ASSUME MqIInv, NoWaitInVain, UNCHANGED <<entry, free>>,
           queue'["recv"] # <<>> => queue["recv"] # <<>>,
           queue'["send"] # <<>> => queue["send"] # <<>>,
           \A t \in Threads : \A ops : t \in Looking(ops) => t \in Looking(ops)'
    PROVE  NoWaitInVain'
<1>1. entry \in Nat /\ Len(free) \in Nat
  BY MqCounters DEF MqIInv
<1>2. MqReceivers \subseteq MqReceivers' /\ MqSenders \subseteq MqSenders'
  BY DEF MqReceivers, MqSenders, Looking
<1> QED
  BY <1>1, <1>2, MqStillServed DEF NoWaitInVain, MqReceivers, MqSenders

\* A list whose members were members before is empty if it was.
LEMMA MqStaysEmpty ==
    ASSUME IpcTypeOK, IpcTypeOK', NEW l \in Lists, ToSet(queue'[l]) \subseteq ToSet(queue[l])
    PROVE  queue'[l] # <<>> => queue[l] # <<>>
<1>1. PICK s \in Seq(Threads) : s = queue[l]
  BY DEF IpcTypeOK
<1>2. PICK r \in Seq(Threads) : r = queue'[l]
  BY DEF IpcTypeOK
<1>3. (s = <<>> <=> ToSet(s) = {}) /\ (r = <<>> <=> ToSet(r) = {})
  BY EmptyProperties
<1> QED
  BY <1>1, <1>2, <1>3

LEMMA MqServedGet ==
    ASSUME MqIInv, NoWaitInVain, NEW t \in Threads, GetNode(t) PROVE NoWaitInVain'
<1>1. /\ pc[t] = "enter" /\ op[t] \in {"send", "urgent"} /\ stat[t] = "RUN"
      /\ UNCHANGED <<entry, op>> /\ TypeOK /\ IpcTypeOK
  BY MqNotWaiting DEF GetNode, MqIInv, TypeOK
<1>2. /\ IpcTypeOK' /\ "recv" \in Lists /\ "send" \in Lists
      /\ entry \in Nat /\ Len(free) \in Nat
  BY MqThreadsStep, MqAssumption, <1>1, MqCounters DEF Next, ThreadStep
<1>3. CASE free = <<>> /\ UNCHANGED free
  <2>1. Len(free') = 0 /\ Cardinality(MqSenders') \in Nat
    <3>1. PICK B \in SUBSET Threads : B = MqSenders'
      BY DEF MqSenders, Looking
    <3> QED
      BY <1>3, <3>1, MqLookingCounts
  <2>2. queue'["recv"] # <<>> => queue["recv"] # <<>>
    <3>1. CASE UNCHANGED ipcVars
      BY <3>1 DEF ipcVars
    <3>2. CASE Suspend(t, "send", wait[t])
      <4>1. \A k \in Lists : ToSet(queue'[k]) = IF k = "send" THEN ToSet(queue[k]) \cup {t}
                                                ELSE ToSet(queue[k])
        BY <1>1, <1>2, <3>2, SuspendLinks DEF MqIInv
      <4> QED
        BY <1>1, <1>2, <4>1, MqStaysEmpty
    <3> QED
      BY <1>3, <3>1, <3>2 DEF GetNode
  <2>3. MqReceivers \subseteq MqReceivers'
    <3>1. ASSUME NEW u \in Threads, u # t
          PROVE  stat'[u] = stat[u] /\ error'[u] = error[u] /\ pc'[u] = pc[u]
      BY <1>1, <1>3, <3>1 DEF GetNode, Suspend, ListSuspend, Return, ipcVars, TypeOK, IpcTypeOK
    <3> QED
      BY <1>1, <3>1 DEF MqReceivers, Looking
  <2> QED
    BY <1>1, <1>2, <2>1, <2>2, <2>3, MqStillServed DEF NoWaitInVain, MqReceivers, MqSenders
<1>4. CASE /\ free # <<>> /\ free' = Tail(free) /\ pc' = [pc EXCEPT ![t] = "copy"]
           /\ UNCHANGED ipcVars
  <2>1. /\ free \in Seq(Nodes) /\ IsInjective(free)
    BY <1>1 DEF MqIInv, MqNodesInPlace, TypeOK
  <2>2. Len(free') \in Nat /\ Len(free') + 1 <= Len(free)
    <3>1. free' \in Seq(Nodes) /\ Len(free') = Len(free) - 1
      BY <1>4, <2>1, TailProperties
    <3> QED
      BY <1>2, <3>1, LenProperties
  <2>3. UNCHANGED <<stat, error, queue>>
    BY <1>4 DEF ipcVars
  <2>4. \A u \in Threads : u # t => pc'[u] = pc[u]
    BY <1>1, <1>4 DEF TypeOK
  <2>5. MqReceivers \subseteq MqReceivers' /\ MqSenders \ {t} \subseteq MqSenders'
    BY <1>1, <2>3, <2>4 DEF MqReceivers, MqSenders, Looking
  <2>6. queue'["recv"] # <<>> => entry' <= Cardinality(MqReceivers')
    BY <1>1, <1>2, <2>3, <2>5, MqStillServed DEF NoWaitInVain, MqReceivers
  <2>7. queue'["send"] # <<>> => Len(free') <= Cardinality(MqSenders')
    BY <1>2, <2>2, <2>3, <2>5, MqTakenServed DEF NoWaitInVain, MqSenders
  <2> QED
    BY <2>6, <2>7 DEF NoWaitInVain, MqReceivers, MqSenders
<1> QED
  BY <1>3, <1>4 DEF GetNode

LEMMA MqServedTake ==
    ASSUME MqIInv, NoWaitInVain, NEW t \in Threads, TakeNode(t) PROVE NoWaitInVain'
<1>1. /\ pc[t] = "enter" /\ op[t] = "recv" /\ stat[t] = "RUN"
      /\ UNCHANGED <<free, op>> /\ TypeOK /\ IpcTypeOK
  BY MqNotWaiting DEF TakeNode, MqIInv, TypeOK
<1>2. /\ IpcTypeOK' /\ "recv" \in Lists /\ "send" \in Lists
      /\ entry \in Nat /\ Len(free) \in Nat
  BY MqThreadsStep, MqAssumption, <1>1, MqCounters DEF Next, ThreadStep
<1>3. CASE entry = 0 /\ UNCHANGED entry
  <2>1. entry' = 0 /\ Cardinality(MqReceivers') \in Nat
    <3>1. PICK B \in SUBSET Threads : B = MqReceivers'
      BY DEF MqReceivers, Looking
    <3> QED
      BY <1>3, <3>1, MqLookingCounts
  <2>2. queue'["send"] # <<>> => queue["send"] # <<>>
    <3>1. CASE UNCHANGED ipcVars
      BY <3>1 DEF ipcVars
    <3>2. CASE Suspend(t, "recv", wait[t])
      <4>1. \A k \in Lists : ToSet(queue'[k]) = IF k = "recv" THEN ToSet(queue[k]) \cup {t}
                                                ELSE ToSet(queue[k])
        BY <1>1, <1>2, <3>2, SuspendLinks DEF MqIInv
      <4> QED
        BY <1>1, <1>2, <4>1, MqStaysEmpty
    <3> QED
      BY <1>3, <3>1, <3>2 DEF TakeNode
  <2>3. MqSenders \subseteq MqSenders'
    <3>1. ASSUME NEW u \in Threads, u # t
          PROVE  stat'[u] = stat[u] /\ error'[u] = error[u] /\ pc'[u] = pc[u]
      BY <1>1, <1>3, <3>1 DEF TakeNode, Suspend, ListSuspend, Return, ipcVars, TypeOK, IpcTypeOK
    <3> QED
      BY <1>1, <3>1 DEF MqSenders, Looking
  <2> QED
    BY <1>1, <1>2, <2>1, <2>2, <2>3, MqStillServed DEF NoWaitInVain, MqReceivers, MqSenders
<1>4. CASE /\ entry > 0 /\ entry' = entry - 1 /\ pc' = [pc EXCEPT ![t] = "copy"]
           /\ UNCHANGED ipcVars
  <2>1. entry' \in Nat /\ entry' + 1 <= entry
    BY <1>2, <1>4
  <2>2. UNCHANGED <<stat, error, queue>>
    BY <1>4 DEF ipcVars
  <2>3. \A u \in Threads : u # t => pc'[u] = pc[u]
    BY <1>1, <1>4 DEF TypeOK
  <2>4. MqSenders \subseteq MqSenders' /\ MqReceivers \ {t} \subseteq MqReceivers'
    BY <1>1, <2>2, <2>3 DEF MqReceivers, MqSenders, Looking
  <2>5. queue'["send"] # <<>> => Len(free') <= Cardinality(MqSenders')
    BY <1>1, <1>2, <2>2, <2>4, MqStillServed DEF NoWaitInVain, MqSenders
  <2>6. queue'["recv"] # <<>> => entry' <= Cardinality(MqReceivers')
    BY <1>2, <2>1, <2>2, <2>4, MqTakenServed DEF NoWaitInVain, MqReceivers
  <2> QED
    BY <2>5, <2>6 DEF NoWaitInVain, MqReceivers, MqSenders
<1> QED
  BY <1>3, <1>4 DEF TakeNode

\* What both Link and FreeNode do to the threads: the woken one looks for what it
\* waited for, and nobody stops looking.
LEMMA MqWokenLooks ==
    ASSUME MqIInv, NEW t \in Threads, NEW l \in {"recv", "send"}, NEW ops,
           l = "recv" => ops = {"recv"}, l = "send" => ops = {"send", "urgent"},
           pc[t] = "finish", Return(t), UNCHANGED op, ResumeFirst(l)
    PROVE  /\ \A u \in Threads : \A o : u \in Looking(o) => u \in Looking(o)'
           /\ \A k \in {"recv", "send"} : queue'[k] # <<>> => queue[k] # <<>>
           /\ queue'[l] # <<>> =>
                 \E h \in Threads : h \notin Looking(ops) /\ h \in Looking(ops)'
<1>1. TypeOK /\ IpcTypeOK /\ SuspendedIsLinked /\ l \in Lists /\ "recv" \in Lists /\ "send" \in Lists
  BY MqAssumption DEF MqIInv, TypeOK
<1>2. /\ IpcTypeOK' /\ error' = error
      /\ queue[l] = <<>> => UNCHANGED <<stat, queue>>
      /\ queue[l] # <<>> =>
            /\ stat' = [stat EXCEPT ![Head(queue[l])] = "RUN"]
            /\ \A k \in Lists : ToSet(queue'[k]) = ToSet(queue[k]) \ {Head(queue[l])}
  BY <1>1, ResumeFirstUnlinks
<1>3. \A u \in Threads : u # t => pc'[u] = pc[u]
  BY <1>1 DEF Return, TypeOK
<1>4. \A u \in Threads : stat[u] = "RUN" => stat'[u] = "RUN"
  BY <1>1, <1>2 DEF IpcTypeOK
<1>5. ASSUME NEW u \in Threads, NEW o, u \in Looking(o) PROVE u \in Looking(o)'
  BY <1>2, <1>3, <1>4, <1>5 DEF Looking
<1>6. ASSUME NEW k \in {"recv", "send"} PROVE queue'[k] # <<>> => queue[k] # <<>>
  <2>1. ToSet(queue'[k]) \subseteq ToSet(queue[k]) /\ k \in Lists
    BY <1>1, <1>2
  <2> QED
    BY <1>1, <1>2, <2>1, MqStaysEmpty
<1>7. ASSUME queue'[l] # <<>>
      PROVE  \E h \in Threads : h \notin Looking(ops) /\ h \in Looking(ops)'
  <2> DEFINE h == Head(queue[l])
  <2>1. queue[l] # <<>>
    BY <1>6, <1>7
  <2>2. h \in Threads /\ h \in ToSet(queue[l]) /\ stat[h] = "SUSPEND"
    BY <1>1, <2>1, HeadSuspended
  <2>3. stat' = [stat EXCEPT ![h] = "RUN"]
    BY <1>2, <2>1
  <2> HIDE DEF h
  <2>4. pc[h] = "wait" /\ error[h] = "EOK" /\ op[h] \in ops
    BY <2>2 DEF MqIInv, MqWaiting
  <2>5. h \notin Looking(ops)
    BY <2>2, <2>4 DEF Looking
  <2>6. stat'[h] = "RUN" /\ pc'[h] = "wait" /\ error'[h] = "EOK"
    BY <1>1, <1>2, <1>3, <2>2, <2>3, <2>4 DEF IpcTypeOK
  <2>7. h \in Looking(ops)'
    BY <2>2, <2>4, <2>6 DEF Looking
  <2> QED
    BY <2>2, <2>5, <2>7
<1> QED
  BY <1>5, <1>6, <1>7

LEMMA MqServedLink ==
    ASSUME MqIInv, NoWaitInVain, NEW t \in Threads, Link(t) PROVE NoWaitInVain'
<1>1. /\ pc[t] = "finish" /\ Return(t) /\ UNCHANGED <<free, op>> /\ ResumeFirst("recv")
      /\ entry' = IF entry < EntryMax THEN entry + 1 ELSE entry
  BY DEF Link
<1>2. /\ entry \in Nat /\ Len(free) \in Nat /\ entry' \in Nat /\ entry' <= entry + 1
  BY <1>1, MqCounters DEF MqIInv
<1>3. /\ \A u \in Threads : \A o : u \in Looking(o) => u \in Looking(o)'
      /\ \A k \in {"recv", "send"} : queue'[k] # <<>> => queue[k] # <<>>
      /\ queue'["recv"] # <<>> =>
            \E h \in Threads : h \notin Looking({"recv"}) /\ h \in Looking({"recv"})'
  BY <1>1, MqWokenLooks
<1>4. MqSenders \subseteq MqSenders' /\ MqReceivers \subseteq MqReceivers'
  BY <1>3 DEF MqSenders, MqReceivers, Looking
<1>5. queue'["send"] # <<>> => Len(free') <= Cardinality(MqSenders')
  BY <1>1, <1>2, <1>3, <1>4, MqStillServed DEF NoWaitInVain, MqSenders
<1>6. ASSUME queue'["recv"] # <<>> PROVE entry' <= Cardinality(MqReceivers')
  <2>1. PICK h \in Threads : h \notin MqReceivers /\ h \in MqReceivers'
    BY <1>3, <1>6 DEF MqReceivers
  <2>2. MqReceivers \cup {h} \subseteq MqReceivers'
    BY <1>4, <2>1
  <2>3. entry <= Cardinality(MqReceivers)
    BY <1>3, <1>6 DEF NoWaitInVain, MqReceivers
  <2> QED
    BY <1>2, <2>1, <2>2, <2>3, MqAddedServed DEF MqReceivers
<1> QED
  BY <1>5, <1>6 DEF NoWaitInVain, MqReceivers, MqSenders

LEMMA MqServedFree ==
    ASSUME MqIInv, NoWaitInVain, NEW t \in Threads, FreeNode(t) PROVE NoWaitInVain'
<1>1. /\ pc[t] = "finish" /\ Return(t) /\ UNCHANGED <<entry, op>> /\ ResumeFirst("send")
      /\ free' = <<hold[t]>> \o free
  BY DEF FreeNode
<1>2. /\ entry \in Nat /\ Len(free) \in Nat /\ Len(free') \in Nat /\ Len(free') <= Len(free) + 1
  <2>1. entry \in Nat /\ Len(free) \in Nat /\ free \in Seq(Nodes)
    BY MqCounters DEF MqIInv, TypeOK
  <2>2. hold[t] \in Nodes
    BY <1>1 DEF MqIInv, MqNodesInPlace, Holders
  <2>3. Len(free') = Len(<<hold[t]>>) + Len(free)
    BY <1>1, <2>1, <2>2, ConcatProperties
  <2> QED
    BY <2>1, <2>3
<1>3. /\ \A u \in Threads : \A o : u \in Looking(o) => u \in Looking(o)'
      /\ \A k \in {"recv", "send"} : queue'[k] # <<>> => queue[k] # <<>>
      /\ queue'["send"] # <<>> => \E h \in Threads :
            h \notin Looking({"send", "urgent"}) /\ h \in Looking({"send", "urgent"})'
  BY <1>1, MqWokenLooks
<1>4. MqSenders \subseteq MqSenders' /\ MqReceivers \subseteq MqReceivers'
  BY <1>3 DEF MqSenders, MqReceivers, Looking
<1>5. queue'["recv"] # <<>> => entry' <= Cardinality(MqReceivers')
  BY <1>1, <1>2, <1>3, <1>4, MqStillServed DEF NoWaitInVain, MqReceivers
<1>6. ASSUME queue'["send"] # <<>> PROVE Len(free') <= Cardinality(MqSenders')
  <2>1. PICK h \in Threads : h \notin MqSenders /\ h \in MqSenders'
    BY <1>3, <1>6 DEF MqSenders
  <2>2. MqSenders \cup {h} \subseteq MqSenders'
    BY <1>4, <2>1
  <2>3. Len(free) <= Cardinality(MqSenders)
    BY <1>3, <1>6 DEF NoWaitInVain, MqSenders
  <2> QED
    BY <1>2, <2>1, <2>2, <2>3, MqAddedServed DEF MqSenders
<1> QED
  BY <1>5, <1>6 DEF NoWaitInVain, MqReceivers, MqSenders

LEMMA MqServedStep == MqIInv /\ NoWaitInVain /\ [Next]_vars => NoWaitInVain'
<1> SUFFICES ASSUME MqIInv, NoWaitInVain, [Next]_vars PROVE NoWaitInVain'
  OBVIOUS
<1>a. /\ TypeOK /\ IpcTypeOK /\ SuspendedIsLinked /\ IpcTypeOK'
      /\ "recv" \in Lists /\ "send" \in Lists
  BY MqThreadsStep, MqAssumption DEF MqIInv, TypeOK
<1> DEFINE Same == UNCHANGED <<entry, free>> /\ UNCHANGED queue
           Look == \A t \in Threads : \A ops : t \in Looking(ops) => t \in Looking(ops)'
<1>1. ASSUME NEW t \in Threads, NEW o, NEW m, NEW time, Call(t, o, m, time) PROVE Same /\ Look
  BY <1>1, <1>a DEF Call, ipcVars, Looking, TypeOK
<1>2. ASSUME NEW t \in Threads, CopyIn(t) \/ CopyOut(t) PROVE Same /\ Look
  BY <1>2, <1>a DEF CopyIn, CopyOut, ipcVars, Looking, TypeOK
<1>3. ASSUME NEW t \in Threads, WaitFails(t) \/ LookAgain(t) PROVE Same /\ Look
  BY <1>3, <1>a DEF WaitFails, LookAgain, Return, ipcVars, Looking, TypeOK
<1>4. ASSUME NEW t \in Threads, DetachCall(t) \/ DetachObject(t) PROVE Same /\ Look
  BY <1>4, <1>a DEF DetachCall, DetachObject, ipcVars, Looking, TypeOK
<1>5. ASSUME NEW t \in Threads, NEW l \in {"recv", "send"}, NEW r \in MqRounds,
             DetachTest(t, l, r) \/ DetachRound(t, l, r)
      PROVE  NoWaitInVain'
  <2>1. /\ UNCHANGED <<entry, free, op>> /\ l \in Lists
        /\ pc[t] \in MqAtDetach /\ \E p \in MqAtDetach : pc' = [pc EXCEPT ![t] = p]
    BY <1>5, <1>a, MqDetachMoves
  <2>2. /\ \A u \in Threads : pc[u] \in {"enter", "wait"} => pc'[u] = pc[u]
        /\ \A u \in Threads : stat[u] = "SUSPEND" => pc[u] = "wait"
    BY <2>1, <1>a DEF MqAtDetach, MqRounds, TypeOK, MqIInv, MqWaiting
  <2>3. CASE UNCHANGED ipcVars
    <3>1. UNCHANGED <<stat, error, queue>>
      BY <2>3 DEF ipcVars
    <3>2. Look
      BY <2>1, <2>2, <3>1 DEF Looking
    <3> QED
      BY <2>1, <3>1, <3>2, MqNothingServed
  <2>4. CASE ResumeNext(l)
    <3>1. /\ queue[l] = <<>> => UNCHANGED ipcVars
          /\ queue[l] # <<>> =>
                /\ Head(queue[l]) \in Threads /\ stat[Head(queue[l])] = "SUSPEND"
                /\ error' = [error EXCEPT ![Head(queue[l])] = "ERROR"]
                /\ stat' = [stat EXCEPT ![Head(queue[l])] = "RUN"]
          /\ \A k \in Lists : ToSet(queue'[k]) \subseteq ToSet(queue[k])
      BY <1>a, <2>1, <2>4, ResumeNextUnlinks
    <3>2. CASE queue[l] = <<>>
      BY <2>3, <3>1, <3>2
    <3>3. CASE queue[l] # <<>>
      <4>1. Look
        BY <1>a, <2>1, <2>2, <3>1, <3>3 DEF Looking, IpcTypeOK
      <4>2. \A k \in {"recv", "send"} : queue'[k] # <<>> => queue[k] # <<>>
        BY <1>a, <3>1, MqStaysEmpty
      <4> QED
        BY <2>1, <4>1, <4>2, MqNothingServed
    <3> QED
      BY <3>2, <3>3
  <2> QED
    BY <1>5, <2>3, <2>4 DEF DetachTest, DetachRound
<1>6. ASSUME NEW t \in Threads, Timeout(t) PROVE NoWaitInVain'
  <2>1. PICK c \in Cpus : TimerExpires(c, t) \/ ThreadTimeout(c, t)
    BY <1>6 DEF Timeout
  <2>2. UNCHANGED <<entry, free, pc, op>>
    BY <1>6 DEF Timeout, mqVars
  <2>3. \/ UNCHANGED <<stat, error, queue>>
        \/ /\ stat[t] = "SUSPEND" /\ stat' = [stat EXCEPT ![t] = "RUN"]
           /\ error' = [error EXCEPT ![t] = "ETIMEOUT"]
           /\ \A k \in Lists : ToSet(queue'[k]) = ToSet(queue[k]) \ {t}
    BY <1>a, <2>1, TimeoutUnlinks
  <2>4. Look
    BY <1>a, <2>2, <2>3 DEF MqIInv, MqWaiting, Looking, IpcTypeOK
  <2>5. \A k \in {"recv", "send"} : queue'[k] # <<>> => queue[k] # <<>>
    <3>1. CASE UNCHANGED <<stat, error, queue>>
      BY <3>1
    <3>2. CASE \A k \in Lists : ToSet(queue'[k]) = ToSet(queue[k]) \ {t}
      BY <1>a, <3>2, MqStaysEmpty
    <3> QED
      BY <2>3, <3>1, <3>2
  <2> QED
    BY <2>2, <2>4, <2>5, MqNothingServed
<1>7. ASSUME NEW t \in Threads, Reset(t) PROVE NoWaitInVain'
  <2>1. ResumeAll({"recv", "send"}) /\ {"recv", "send"} \in SUBSET Lists
    BY <1>7, <1>a DEF Reset
  <2>2. \A l \in {"recv", "send"} : queue'[l] = <<>>
    BY <1>a, <2>1, ResumeAllUnlinks
  <2> QED
    BY <2>2 DEF NoWaitInVain
<1>8. ASSUME UNCHANGED vars PROVE Same /\ Look
  BY <1>8 DEF vars, ipcVars, mqVars, Looking
<1>9. ASSUME Same, Look PROVE NoWaitInVain'
  BY <1>9, MqNothingServed
<1> HIDE DEF Same, Look
<1>10. ASSUME NEW t \in Threads, ThreadStep(t) PROVE NoWaitInVain'
  BY <1>2, <1>3, <1>4, <1>5, <1>9, <1>10, MqServedGet, MqServedTake, MqServedLink, MqServedFree
     DEF ThreadStep, MqRounds
<1>11. ASSUME NEW t \in Threads, Calls(t) PROVE NoWaitInVain'
  BY <1>1, <1>4, <1>7, <1>9, <1>11 DEF Calls
<1> QED
  BY <1>6, <1>8, <1>9, <1>10, <1>11 DEF Next, Finished

-----------------------------------------------------------------------------
(* Theorems *)

\* The variables keep their types.
THEOREM MqTypes == Spec => []TypeOK
<1>1. Init => MqIInv
  BY MqInitInv
<1>2. MqIInv => TypeOK
  BY DEF MqIInv
<1> QED
  BY <1>1, <1>2, MqInductive, PTL DEF Spec

\* Whatever the number of threads, nodes and priorities, and although messages
\* are copied with nothing locked: every node of msg_pool is in the free list, in
\* the queue or in the hands of one thread of rt_mq_send_wait, rt_mq_urgent or
\* rt_mq_recv, and mq->entry counts the queued ones.
THEOREM MqNodesConserved == Spec => []NodesConserved
<1>1. Init => MqIInv
  BY MqInitInv
<1>2. MqIInv => NodesConserved
  <2> SUFFICES ASSUME MqIInv PROVE NodesConserved
    OBVIOUS
  <2>1. /\ free \in Seq(Nodes) /\ linked \in Seq(Nodes)
        /\ IsInjective(free) /\ IsInjective(linked) /\ ToSet(free) \cap ToSet(linked) = {}
    BY DEF MqIInv, TypeOK, MqNodesInPlace
  <2>2. IsInjective(free \o linked)
    BY <2>1, ConcatKeeps
  <2>3. ToSet(free) \subseteq Nodes /\ ToSet(linked) \subseteq Nodes
    BY <2>1, LenProperties, ElementOfSeq DEF ToSet
  <2>4. ToSet(free) \cup ToSet(linked) \cup {hold[t] : t \in Holders} = Nodes
    BY <2>3 DEF MqIInv, MqNodesInPlace
  <2> QED
    BY <2>2, <2>4 DEF MqIInv, MqNodesInPlace, NodesConserved
<1> QED
  BY <1>1, <1>2, MqInductive, PTL DEF Spec

\* The list of _ipc_list_suspend holds exactly the suspended threads, each once,
\* through every timeout, reset and detach.
THEOREM MqSuspendedIsLinked == Spec => []SuspendedIsLinked
<1>1. Init => MqIInv
  BY MqInitInv
<1>2. MqIInv => SuspendedIsLinked
  BY DEF MqIInv
<1> QED
  BY <1>1, <1>2, MqInductive, PTL DEF Spec

\* No wake-up is lost: rt_mq_send_wait and rt_mq_recv resume one waiting thread
\* for every message linked and every node freed, even if another thread is
\* faster and takes what the woken one was to find.
THEOREM MqNoWaitInVain == Spec => []NoWaitInVain
<1>1. Init => MqIInv /\ NoWaitInVain
  BY MqInitInv
<1>2. (MqIInv /\ NoWaitInVain) /\ [Next]_vars => (MqIInv /\ NoWaitInVain)'
  BY MqInductive, MqServedStep
<1> QED
  BY <1>1, <1>2, PTL DEF Spec

-----------------------------------------------------------------------------
(* The message queue implements BoundedChannel *)

\* A sender has a message all along, and the node it fills, the nodes in the queue and
\* the node a receiver has taken hold messages.
MqContents ==
    /\ \A t \in Threads : Sends(t) => data[t] \in Msgs
    /\ \A t \in Threads : Sends(t) /\ pc[t] = "finish" => buf[hold[t]] = data[t]
    /\ \A t \in Threads : op[t] = "recv" /\ pc[t] = "copy" => buf[hold[t]] \in Msgs
    /\ \A n \in ToSet(linked) : buf[n] \in Msgs

\* Link adds the node to the queue, at one of its ends.
LEMMA MqLinkAdds ==
    ASSUME NEW s \in Seq(Nodes), NEW n \in Nodes, IsInjective(s), n \notin ToSet(s)
    PROVE  /\ ToSet(Append(s, n)) = ToSet(s) \cup {n}
           /\ ToSet(<<n>> \o s) = ToSet(s) \cup {n}
<1> DEFINE p == <<n>>
<1>1. p \in Seq(Nodes) /\ ToSet(p) = {n} /\ IsInjective(p) /\ Append(s, n) = s \o p
  BY SingleProperties, AppendIsConcat
<1> HIDE DEF p
<1>2. ToSet(s \o p) = ToSet(s) \cup ToSet(p)
  <2>1. ToSet(s) \cap ToSet(p) = {}
    BY <1>1
  <2> QED
    BY ONLY <1>1, <2>1, IsInjective(s), s \in Seq(Nodes), ConcatKeeps
<1>3. ToSet(p \o s) = ToSet(p) \cup ToSet(s)
  <2>1. ToSet(p) \cap ToSet(s) = {}
    BY <1>1
  <2> QED
    BY ONLY <1>1, <2>1, IsInjective(s), s \in Seq(Nodes), ConcatKeeps
<1> QED
  BY <1>1, <1>2, <1>3 DEF p

LEMMA MqContentsInitial == Init => MqContents
  BY DEF Init, MqContents, Sends, ToSet

\* A step of thread t that writes no node keeps the contents if t and the queue have
\* messages after it.
LEMMA MqContentsKept ==
    ASSUME MqContents, NEW t \in Threads, UNCHANGED buf,
           \A u \in Threads \ {t} : /\ op'[u] = op[u] /\ pc'[u] = pc[u]
                                    /\ data'[u] = data[u] /\ hold'[u] = hold[u],
           Sends(t)' => data'[t] \in Msgs,
           Sends(t)' /\ pc'[t] = "finish" => buf[hold'[t]] = data'[t],
           op'[t] = "recv" /\ pc'[t] = "copy" => buf[hold'[t]] \in Msgs,
           \A n \in ToSet(linked') : buf[n] \in Msgs
    PROVE  MqContents'
<1>1. ASSUME NEW u \in Threads, u # t
      PROVE  /\ Sends(u)' = Sends(u)
             /\ Sends(u)' => data'[u] \in Msgs
             /\ Sends(u)' /\ pc'[u] = "finish" => buf'[hold'[u]] = data'[u]
             /\ op'[u] = "recv" /\ pc'[u] = "copy" => buf'[hold'[u]] \in Msgs
  BY <1>1 DEF MqContents, Sends
<1>2. \A n \in ToSet(linked)' : buf'[n] \in Msgs
  BY DEF ToSet
<1> QED
  BY <1>1, <1>2 DEF MqContents, Sends

LEMMA MqContentsStep == MqIInv /\ MqContents /\ [Next]_vars => MqContents'
<1> SUFFICES ASSUME MqIInv, MqContents, [Next]_vars PROVE MqContents'
  OBVIOUS
<1>a. TypeOK /\ MqNodesInPlace
  BY DEF MqIInv
<1>b. \A n \in ToSet(linked) : buf[n] \in Msgs
  BY DEF MqContents
<1>1. ASSUME NEW t \in Threads, Calls(t) PROVE MqContents'
  <2>1. ASSUME NEW o \in {"send", "urgent"}, NEW m \in Payload[t], NEW time, Call(t, o, m, time)
        PROVE  MqContents'
    <3>1. m \in Msgs
      BY MqAssumption
    <3>2. \A n \in ToSet(linked') : buf[n] \in Msgs
      BY <1>b, <2>1 DEF Call
    <3> QED
      BY <1>a, <2>1, <3>1, <3>2, MqContentsKept DEF Call, TypeOK, Sends
  <2>2. ASSUME NEW time, Call(t, "recv", NoMsg, time) PROVE MqContents'
    <3>1. \A n \in ToSet(linked') : buf[n] \in Msgs
      BY <1>b, <2>2 DEF Call
    <3> QED
      BY <1>a, <2>2, <3>1, MqContentsKept DEF Call, TypeOK, Sends
  <2>3. CASE Reset(t)
    <3>1. ToSet(linked') = {}
      BY <2>3 DEF Reset, ToSet
    <3>2. UNCHANGED <<buf, op, pc, hold, data>>
      BY <2>3 DEF Reset
    <3> QED
      BY <3>1, <3>2 DEF MqContents, Sends, ToSet
  <2>4. CASE DetachCall(t)
    <3>1. \A n \in ToSet(linked') : buf[n] \in Msgs
      BY <1>b, <2>4 DEF DetachCall
    <3> QED
      BY <1>a, <2>4, <3>1, MqContentsKept DEF DetachCall, TypeOK, Sends
  <2> QED
    BY <1>1, <2>1, <2>2, <2>3, <2>4 DEF Calls
<1>2. ASSUME NEW t \in Threads, GetNode(t) PROVE MqContents'
  <2>1. \A n \in ToSet(linked') : buf[n] \in Msgs
    BY <1>b, <1>2 DEF GetNode
  <2>2. /\ UNCHANGED <<op, buf>> /\ op[t] # "recv" /\ pc[t] = "enter"
        /\ \/ Return(t)
           \/ /\ pc'[t] \in {"copy", "wait"} /\ UNCHANGED data
              /\ \A u \in Threads \ {t} : pc'[u] = pc[u] /\ hold'[u] = hold[u]
    BY <1>2, <1>a DEF GetNode, TypeOK
  <2>3. Sends(t) => data[t] \in Msgs
    BY DEF MqContents
  <2>4. CASE Return(t)
    BY <1>a, <2>1, <2>2, <2>4, MqContentsKept DEF Return, TypeOK, Sends
  <2>5. CASE ~Return(t)
    <3>1. Sends(t)
      BY <1>a, <2>2 DEF Sends, TypeOK
    <3> QED
      BY <2>1, <2>2, <2>3, <2>5, <3>1, MqContentsKept
  <2> QED
    BY <2>4, <2>5
<1>3. ASSUME NEW t \in Threads, CopyIn(t) PROVE MqContents'
  <2>1. /\ buf' = [buf EXCEPT ![hold[t]] = data[t]] /\ hold[t] \in Nodes
        /\ UNCHANGED <<linked, op, hold, data>> /\ t \in Holders
        /\ pc' = [pc EXCEPT ![t] = "finish"] /\ pc[t] = "copy" /\ op[t] # "recv"
    BY <1>3, <1>a DEF CopyIn, Holders, MqNodesInPlace
  <2>2. \A u \in Holders \ {t} : buf'[hold[u]] = buf[hold[u]]
    BY <1>a, <2>1 DEF TypeOK, MqNodesInPlace
  <2>3. buf'[hold[t]] = data[t]
    BY <1>a, <2>1 DEF TypeOK
  <2>4. \A n \in ToSet(linked)' : buf'[n] \in Msgs
    <3>1. hold[t] \notin ToSet(linked) /\ ToSet(linked)' = ToSet(linked)
      BY <1>a, <2>1 DEF MqNodesInPlace
    <3>2. ToSet(linked) \subseteq Nodes
      BY <1>a, LenProperties, ElementOfSeq DEF TypeOK, ToSet
    <3> QED
      BY <1>a, <1>b, <2>1, <3>1, <3>2 DEF TypeOK
  <2>5. \A u \in Threads : Sends(u)' = Sends(u)
    BY <1>a, <2>1 DEF Sends, TypeOK
  <2>6. \A u \in Threads : pc'[u] = IF u = t THEN "finish" ELSE pc[u]
    BY <1>a, <2>1 DEF TypeOK
  <2>7. \A u \in Threads : pc[u] \in {"copy", "finish"} => u \in Holders
    BY DEF Holders
  <2> QED
    BY <2>1, <2>2, <2>3, <2>4, <2>5, <2>6, <2>7 DEF MqContents
<1>4. ASSUME NEW t \in Threads, Link(t) PROVE MqContents'
  <2>1. /\ Return(t) /\ UNCHANGED <<buf, op>> /\ Sends(t) /\ pc[t] = "finish" /\ t \in Holders
        /\ linked' = IF op[t] = "send" THEN Append(linked, hold[t]) ELSE <<hold[t]>> \o linked
    BY <1>4 DEF Link, Sends, Holders
  <2>2. ToSet(linked') = ToSet(linked) \cup {hold[t]}
    <3>1. linked \in Seq(Nodes) /\ IsInjective(linked)
          /\ hold[t] \in Nodes /\ hold[t] \notin ToSet(linked)
      BY <1>a, <2>1 DEF TypeOK, MqNodesInPlace
    <3> QED
      BY <2>1, <3>1, MqLinkAdds
  <2>3. buf[hold[t]] \in Msgs
    BY <2>1 DEF MqContents
  <2>4. \A n \in ToSet(linked') : buf[n] \in Msgs
    BY <1>b, <2>2, <2>3
  <2> QED
    BY <1>a, <2>1, <2>4, MqContentsKept DEF Return, TypeOK, Sends
<1>5. ASSUME NEW t \in Threads, TakeNode(t) PROVE MqContents'
  <2>1. CASE entry > 0
    <3>1. linked \in Seq(Nodes) /\ linked # <<>> /\ IsInjective(linked)
      BY <1>a, <2>1 DEF TypeOK, MqNodesInPlace
    <3>2. Head(linked) \in ToSet(linked) /\ ToSet(Tail(linked)) \subseteq ToSet(linked)
      BY <3>1, TailProperties
    <3>3. /\ linked' = Tail(linked) /\ hold' = [hold EXCEPT ![t] = Head(linked)]
          /\ pc' = [pc EXCEPT ![t] = "copy"] /\ UNCHANGED <<buf, op, data>> /\ op[t] = "recv"
      BY <1>5, <2>1 DEF TakeNode
    <3>4. buf[hold'[t]] \in Msgs
      BY <1>a, <1>b, <3>2, <3>3 DEF TypeOK
    <3>5. \A n \in ToSet(linked') : buf[n] \in Msgs
      BY <1>b, <3>2, <3>3
    <3> QED
      BY <1>a, <3>3, <3>4, <3>5, MqContentsKept DEF TypeOK, Sends
  <2>2. CASE ~(entry > 0)
    <3>1. /\ UNCHANGED <<linked, buf, op>> /\ op[t] = "recv"
          /\ \/ Return(t)
             \/ pc' = [pc EXCEPT ![t] = "wait"] /\ UNCHANGED <<hold, data>>
      BY <1>5, <2>2 DEF TakeNode
    <3>2. \A n \in ToSet(linked') : buf[n] \in Msgs
      BY <1>b, <3>1
    <3>3. CASE Return(t)
      BY <1>a, <3>1, <3>2, <3>3, MqContentsKept DEF Return, TypeOK, Sends
    <3>4. CASE pc' = [pc EXCEPT ![t] = "wait"] /\ UNCHANGED <<hold, data>>
      BY <1>a, <3>1, <3>2, <3>4, MqContentsKept DEF TypeOK, Sends
    <3> QED
      BY <3>1, <3>3, <3>4
  <2> QED
    BY <2>1, <2>2
<1>6. ASSUME NEW t \in Threads, CopyOut(t) PROVE MqContents'
  <2>1. \A n \in ToSet(linked') : buf[n] \in Msgs
    BY <1>b, <1>6 DEF CopyOut
  <2> QED
    BY <1>a, <1>6, <2>1, MqContentsKept DEF CopyOut, TypeOK, Sends
<1>7. ASSUME NEW t \in Threads, FreeNode(t) \/ WaitFails(t) PROVE MqContents'
  <2>1. \A n \in ToSet(linked') : buf[n] \in Msgs
    BY <1>b, <1>7 DEF FreeNode, WaitFails
  <2> QED
    BY <1>a, <1>7, <2>1, MqContentsKept DEF FreeNode, WaitFails, Return, TypeOK, Sends
<1>8. ASSUME NEW t \in Threads, LookAgain(t) PROVE MqContents'
  <2>1. \A n \in ToSet(linked') : buf[n] \in Msgs
    BY <1>b, <1>8 DEF LookAgain
  <2>2. /\ UNCHANGED <<buf, op, hold, data>> /\ pc' = [pc EXCEPT ![t] = "enter"]
        /\ pc[t] = "wait"
    BY <1>8 DEF LookAgain
  <2>3. Sends(t)' => Sends(t)
    BY <1>a, <2>2 DEF Sends, TypeOK
  <2>4. Sends(t) => data[t] \in Msgs
    BY DEF MqContents
  <2> QED
    BY <1>a, <2>1, <2>2, <2>3, <2>4, MqContentsKept DEF TypeOK
<1>9. ASSUME NEW t \in Threads, DetachObject(t) PROVE MqContents'
  <2>1. \A n \in ToSet(linked') : buf[n] \in Msgs
    BY <1>b, <1>9 DEF DetachObject
  <2> QED
    BY <1>a, <1>9, <2>1, MqContentsKept DEF DetachObject, TypeOK, Sends
<1>10. ASSUME UNCHANGED mqVars PROVE MqContents'
  BY <1>10 DEF mqVars, MqContents, Sends, ToSet
<1>11. ASSUME NEW t \in Threads, NEW l, NEW r \in MqRounds,
              DetachTest(t, l, r) \/ DetachRound(t, l, r)
       PROVE  MqContents'
  <2>1. /\ UNCHANGED <<linked, buf, op, hold, data>>
        /\ pc[t] \in MqAtDetach /\ \E p \in MqAtDetach : pc' = [pc EXCEPT ![t] = p]
    BY <1>11, MqDetachMoves
  <2>2. \A n \in ToSet(linked') : buf[n] \in Msgs
    BY <1>b, <2>1
  <2> QED
    BY <1>a, <2>1, <2>2, MqContentsKept DEF MqAtDetach, MqRounds, TypeOK, Sends
<1> QED
  BY <1>1, <1>2, <1>3, <1>4, <1>5, <1>6, <1>7, <1>8, <1>9, <1>10, <1>11
     DEF Next, ThreadStep, Timeout, Finished, vars, MqRounds

\* The variables of BoundedChannel: the messages in the queue, and those each thread
\* sends, has taken out of the queue, and has received.
MqMessages(s, b) == [i \in 1..Len(s) |-> b[s[i]]]
MqItems == MqMessages(linked, buf)
MqSending == [t \in Threads |-> IF Sends(t) THEN data[t] ELSE NoMsg]
MqTaken == [t \in Threads |-> IF op[t] = "recv" /\ pc[t] = "copy" THEN buf[hold[t]] ELSE NoMsg]
MqReceived == [t \in Threads |-> IF op[t] = "recv" /\ pc[t] = "finish" THEN data[t] ELSE NoMsg]

\* The messages of the queue follow its nodes: at the end, at the front,
LEMMA MqItemsLinked ==
    ASSUME NEW s \in Seq(Nodes), NEW n \in Nodes, NEW b
    PROVE  /\ MqMessages(Append(s, n), b) = Append(MqMessages(s, b), b[n])
           /\ MqMessages(<<n>> \o s, b) = <<b[n]>> \o MqMessages(s, b)
<1>1. Len(s) \in Nat
  OBVIOUS
<1> DEFINE f == [i \in 1..Len(s) |-> b[s[i]]]
           V == {b[s[i]] : i \in 1..Len(s)} \cup {b[n]}
<1>2. f \in Seq(V) /\ Len(f) = Len(s) /\ b[n] \in V
  BY <1>1
<1>3. [i \in 1..Len(Append(s, n)) |-> b[Append(s, n)[i]]] = Append(f, b[n])
  <2>1. /\ Append(f, b[n]) \in Seq(V) /\ Len(Append(f, b[n])) = Len(s) + 1
        /\ \A i \in 1..Len(s) : Append(f, b[n])[i] = b[s[i]]
        /\ Append(f, b[n])[Len(s) + 1] = b[n]
    BY <1>1, <1>2
  <2>2. /\ Len(Append(s, n)) = Len(s) + 1
        /\ \A i \in 1..Len(s) : Append(s, n)[i] = s[i]
        /\ Append(s, n)[Len(s) + 1] = n
    BY <1>1
  <2> HIDE DEF f
  <2> QED
    BY <1>1, <2>1, <2>2
<1>4. [i \in 1..Len(<<n>> \o s) |-> b[(<<n>> \o s)[i]]] = <<b[n]>> \o f
  <2> DEFINE g == <<b[n]>> \o f
             r == <<n>> \o s
  <2>1. /\ g \in Seq(V) /\ Len(g) = Len(s) + 1
        /\ \A i \in 2..Len(s) + 1 : g[i] = b[s[i - 1]]
        /\ g[1] = b[n]
    BY <1>1, <1>2
  <2>2. /\ Len(r) = Len(s) + 1
        /\ \A i \in 2..Len(s) + 1 : r[i] = s[i - 1]
        /\ r[1] = n
    BY <1>1
  <2> HIDE DEF f, g, r, V
  <2>3. g = [i \in 1..Len(r) |-> g[i]]
    BY <2>1, <2>2
  <2>4. \A i \in 1..Len(r) : g[i] = b[r[i]]
    BY <1>1, <2>1, <2>2
  <2>5. [i \in 1..Len(r) |-> b[r[i]]] = g
    BY <2>3, <2>4
  <2> QED
    BY <2>5 DEF g, r
<1> QED
  BY <1>3, <1>4 DEF MqMessages

\* and without the first.
LEMMA MqItemsTaken ==
    ASSUME NEW s \in Seq(Nodes), s # <<>>, NEW b
    PROVE  /\ MqMessages(s, b) # <<>> /\ Head(MqMessages(s, b)) = b[Head(s)]
           /\ MqMessages(Tail(s), b) = Tail(MqMessages(s, b))
<1> DEFINE f == [i \in 1..Len(s) |-> b[s[i]]]
           V == {b[s[i]] : i \in 1..Len(s)}
<1>1. Len(s) \in Nat \ {0}
  OBVIOUS
<1>2. f \in Seq(V) /\ Len(f) = Len(s) /\ f # <<>> /\ Head(f) = b[Head(s)]
  BY <1>1
<1>3. /\ Tail(f) \in Seq(V) /\ Len(Tail(f)) = Len(s) - 1
      /\ \A i \in 1..Len(s) - 1 : Tail(f)[i] = b[s[i + 1]]
  BY <1>1, <1>2
<1>4. /\ Len(Tail(s)) = Len(s) - 1
      /\ \A i \in 1..Len(s) - 1 : Tail(s)[i] = s[i + 1]
  BY <1>1
<1>5. [i \in 1..Len(Tail(s)) |-> b[Tail(s)[i]]] = Tail(f)
  <2> DEFINE g == Tail(f)
             r == Tail(s)
  <2>1. /\ g \in Seq(V) /\ Len(g) = Len(s) - 1 /\ Len(r) = Len(s) - 1
        /\ \A i \in 1..Len(s) - 1 : g[i] = b[s[i + 1]] /\ r[i] = s[i + 1]
    BY <1>3, <1>4
  <2> HIDE DEF f, g, r, V
  <2>2. g = [i \in 1..Len(r) |-> g[i]]
    BY <2>1
  <2>3. \A i \in 1..Len(r) : g[i] = b[r[i]]
    BY <2>1
  <2>4. [i \in 1..Len(r) |-> b[r[i]]] = g
    BY <2>2, <2>3
  <2> QED
    BY <2>4 DEF g, r
<1> QED
  BY <1>2, <1>5 DEF MqMessages

\* A step of thread t changes nothing for the others.
LEMMA MqOthersStay ==
    ASSUME NEW t \in Threads,
           \A u \in Threads \ {t} : /\ op'[u] = op[u] /\ pc'[u] = pc[u] /\ data'[u] = data[u]
                                    /\ op[u] = "recv" /\ pc[u] = "copy" =>
                                          buf'[hold'[u]] = buf[hold[u]]
    PROVE  /\ MqSending' = [MqSending EXCEPT ![t] = IF Sends(t)' THEN data'[t] ELSE NoMsg]
           /\ MqTaken' = [MqTaken EXCEPT ![t] = IF op'[t] = "recv" /\ pc'[t] = "copy"
                                                THEN buf'[hold'[t]] ELSE NoMsg]
           /\ MqReceived' = [MqReceived EXCEPT ![t] = IF op'[t] = "recv" /\ pc'[t] = "finish"
                                                      THEN data'[t] ELSE NoMsg]
<1>1. ASSUME NEW u \in Threads, u # t PROVE MqSending'[u] = MqSending[u]
  BY <1>1 DEF MqSending, Sends
<1>2. ASSUME NEW u \in Threads, u # t PROVE MqTaken'[u] = MqTaken[u]
  BY <1>2 DEF MqTaken
<1>3. ASSUME NEW u \in Threads, u # t PROVE MqReceived'[u] = MqReceived[u]
  BY <1>3 DEF MqReceived
<1>4. /\ MqSending'[t] = IF Sends(t)' THEN data'[t] ELSE NoMsg
      /\ MqTaken'[t] = IF op'[t] = "recv" /\ pc'[t] = "copy" THEN buf'[hold'[t]] ELSE NoMsg
      /\ MqReceived'[t] = IF op'[t] = "recv" /\ pc'[t] = "finish" THEN data'[t] ELSE NoMsg
  BY DEF MqSending, MqTaken, MqReceived, Sends
<1>5. MqSending' = [u \in Threads |-> MqSending'[u]] /\ MqSending = [u \in Threads |-> MqSending[u]]
  BY DEF MqSending
<1>6. MqTaken' = [u \in Threads |-> MqTaken'[u]] /\ MqTaken = [u \in Threads |-> MqTaken[u]]
  BY DEF MqTaken
<1>7. /\ MqReceived' = [u \in Threads |-> MqReceived'[u]]
      /\ MqReceived = [u \in Threads |-> MqReceived[u]]
  BY DEF MqReceived
<1>8. MqSending' = [MqSending EXCEPT ![t] = MqSending'[t]]
  BY <1>1, <1>5
<1>9. MqTaken' = [MqTaken EXCEPT ![t] = MqTaken'[t]]
  BY <1>2, <1>6
<1>10. MqReceived' = [MqReceived EXCEPT ![t] = MqReceived'[t]]
  BY <1>3, <1>7
<1> QED
  BY <1>4, <1>8, <1>9, <1>10

MqAbstract == <<MqItems, MqSending, MqTaken, MqReceived>>

\* What a thread's own entries are.
LEMMA MqEntries ==
    ASSUME NEW t \in Threads
    PROVE  /\ MqSending[t] = IF Sends(t) THEN data[t] ELSE NoMsg
           /\ MqTaken[t] = IF op[t] = "recv" /\ pc[t] = "copy" THEN buf[hold[t]] ELSE NoMsg
           /\ MqReceived[t] = IF op[t] = "recv" /\ pc[t] = "finish" THEN data[t] ELSE NoMsg
           /\ MqSending = [MqSending EXCEPT ![t] = MqSending[t]]
           /\ MqTaken = [MqTaken EXCEPT ![t] = MqTaken[t]]
           /\ MqReceived = [MqReceived EXCEPT ![t] = MqReceived[t]]
  BY DEF MqSending, MqTaken, MqReceived

LEMMA MqItemsSame ==
    ASSUME UNCHANGED <<linked, buf>> PROVE UNCHANGED MqItems
  BY DEF MqItems

\* A call of rt_mq_send_wait or rt_mq_urgent offers a message; one of rt_mq_recv is no step.
LEMMA MqCallRefines ==
    ASSUME MqIInv, NEW t \in Threads, NEW o \in {"send", "urgent", "recv"},
           NEW m \in Msgs \cup {NoMsg}, o # "recv" => m \in Msgs, NEW time, Call(t, o, m, time)
    PROVE  (\E n \in Msgs : Channel!Offer(t, n)) \/ UNCHANGED MqAbstract
<1>1. /\ TypeOK /\ UNCHANGED <<linked, buf, hold>> /\ pc[t] = "idle"
      /\ op' = [op EXCEPT ![t] = o] /\ data' = [data EXCEPT ![t] = m]
      /\ pc' = [pc EXCEPT ![t] = "enter"]
  BY DEF MqIInv, Call
<1>2. op'[t] = o /\ data'[t] = m /\ pc'[t] = "enter"
  BY <1>1 DEF TypeOK
<1>3. /\ MqSending' = [MqSending EXCEPT ![t] = IF Sends(t)' THEN data'[t] ELSE NoMsg]
      /\ MqTaken' = [MqTaken EXCEPT ![t] = NoMsg]
      /\ MqReceived' = [MqReceived EXCEPT ![t] = NoMsg]
  <2>1. \A u \in Threads \ {t} : op'[u] = op[u] /\ pc'[u] = pc[u] /\ data'[u] = data[u]
    BY <1>1 DEF TypeOK
  <2> QED
    BY <1>1, <1>2, <2>1, MqOthersStay
<1>4. MqSending[t] = NoMsg /\ MqTaken[t] = NoMsg /\ MqReceived[t] = NoMsg
  BY <1>1, MqEntries DEF Sends
<1>5. UNCHANGED <<MqItems, MqTaken, MqReceived>>
  BY <1>1, <1>3, <1>4, MqItemsSame, MqEntries
<1>6. Sends(t)' <=> o # "recv"
  BY <1>2 DEF Sends
<1>7. CASE o # "recv"
  <2>1. m \in Msgs /\ MqSending[t] = NoMsg /\ MqSending' = [MqSending EXCEPT ![t] = m]
    BY <1>2, <1>3, <1>4, <1>6, <1>7
  <2>2. Channel!Offer(t, m)
    BY <1>5, <2>1 DEF Channel!Offer, MqItems, MqMessages, MqSending, MqTaken, MqReceived
  <2> QED
    BY <2>1, <2>2
<1>8. CASE o = "recv"
  BY <1>3, <1>4, <1>5, <1>6, <1>8, MqEntries DEF MqAbstract
<1> QED
  BY <1>7, <1>8

\* An operation that returns without a message, or that goes to sleep or looks again.
LEMMA MqWaitRefines ==
    ASSUME MqIInv, NEW t \in Threads, UNCHANGED <<linked, buf, op>>,
           pc[t] \in {"enter", "wait"},
           \/ Return(t)
           \/ /\ UNCHANGED <<hold, data>>
              /\ \E p \in {"enter", "wait"} : pc' = [pc EXCEPT ![t] = p]
    PROVE  Channel!GiveUp(t) \/ UNCHANGED MqAbstract
<1>1. TypeOK
  BY DEF MqIInv
<1>2. \A u \in Threads \ {t} : /\ op'[u] = op[u] /\ pc'[u] = pc[u] /\ data'[u] = data[u]
                               /\ hold'[u] = hold[u]
  BY <1>1 DEF Return, TypeOK
<1>3. pc'[t] \in {"idle", "enter", "wait"}
  BY <1>1 DEF Return, TypeOK
<1>4. /\ MqSending' = [MqSending EXCEPT ![t] = IF Sends(t)' THEN data'[t] ELSE NoMsg]
      /\ MqTaken' = [MqTaken EXCEPT ![t] = NoMsg]
      /\ MqReceived' = [MqReceived EXCEPT ![t] = NoMsg]
  BY <1>2, <1>3, MqOthersStay
<1>5. MqTaken[t] = NoMsg /\ MqReceived[t] = NoMsg
  BY MqEntries
<1>6. UNCHANGED <<MqItems, MqTaken, MqReceived>>
  BY <1>4, <1>5, MqItemsSame, MqEntries
<1>7. CASE Return(t)
  <2>1. ~Sends(t)'
    BY <1>1, <1>7 DEF Return, TypeOK, Sends
  <2>2. MqSending' = [MqSending EXCEPT ![t] = NoMsg]
    BY <1>4, <2>1
  <2>3. Channel!GiveUp(t)
    BY <1>6, <2>2 DEF Channel!GiveUp, MqItems, MqMessages, MqSending, MqTaken, MqReceived
  <2> QED
    BY <2>3
<1>8. CASE ~Return(t)
  <2>1. UNCHANGED data /\ \E p \in {"enter", "wait"} : pc' = [pc EXCEPT ![t] = p]
    BY <1>8
  <2>2. Sends(t)' = Sends(t) /\ data'[t] = data[t]
    BY <1>1, <2>1 DEF TypeOK, Sends
  <2>3. MqSending' = MqSending
    BY <1>4, <2>2, MqEntries
  <2> QED
    BY <1>6, <2>3 DEF MqAbstract
<1> QED
  BY <1>7, <1>8

\* A sender that gets its node, and the copy into it, are no steps: nobody else has it.
LEMMA MqCopyRefines ==
    ASSUME MqIInv, NEW t \in Threads, UNCHANGED <<linked, op, data>>,
           op[t] \in {"send", "urgent"},
           \/ /\ pc[t] = "enter" /\ pc' = [pc EXCEPT ![t] = "copy"] /\ UNCHANGED buf
              /\ \E n \in Nodes : hold' = [hold EXCEPT ![t] = n]
           \/ CopyIn(t)
    PROVE  UNCHANGED MqAbstract
<1>1. TypeOK /\ MqNodesInPlace
  BY DEF MqIInv
<1>2. \A u \in Threads \ {t} : pc'[u] = pc[u] /\ hold'[u] = hold[u]
  BY <1>1 DEF CopyIn, TypeOK
<1>3. pc[t] \in {"enter", "copy"} /\ pc'[t] \in {"copy", "finish"}
  BY <1>1 DEF CopyIn, TypeOK
<1>4. UNCHANGED MqItems
  <2>1. CASE UNCHANGED buf
    BY <2>1, MqItemsSame
  <2>2. CASE CopyIn(t)
    <3>1. /\ hold[t] \in Nodes /\ hold[t] \notin ToSet(linked)
          /\ buf' = [buf EXCEPT ![hold[t]] = data[t]]
      BY <1>1, <2>2 DEF CopyIn, Holders, MqNodesInPlace
    <3>2. \A i \in 1..Len(linked) : linked[i] \in Nodes /\ linked[i] \in ToSet(linked)
      BY <1>1, LenProperties, ElementOfSeq DEF TypeOK, ToSet
    <3>3. \A i \in 1..Len(linked) : buf'[linked[i]] = buf[linked[i]]
      BY <1>1, <3>1, <3>2 DEF TypeOK
    <3> QED
      BY <3>3 DEF MqItems, MqMessages
  <2> QED
    BY <2>1, <2>2
<1>5. ASSUME NEW u \in Threads \ {t}, op[u] = "recv", pc[u] = "copy"
      PROVE  buf'[hold'[u]] = buf[hold[u]]
  <2>1. hold'[u] = hold[u] /\ u \in Holders
    BY <1>2, <1>5 DEF Holders
  <2>2. CASE CopyIn(t)
    <3>1. /\ hold[t] # hold[u] /\ hold[t] \in Nodes /\ hold[u] \in Nodes
          /\ buf' = [buf EXCEPT ![hold[t]] = data[t]]
      BY <1>1, <2>1, <2>2 DEF CopyIn, Holders, MqNodesInPlace
    <3> QED
      BY <1>1, <2>1, <3>1 DEF TypeOK
  <2>3. CASE UNCHANGED buf
    BY <2>1, <2>3
  <2> QED
    BY <2>2, <2>3
<1>6. /\ MqSending' = [MqSending EXCEPT ![t] = IF Sends(t)' THEN data'[t] ELSE NoMsg]
      /\ MqTaken' = [MqTaken EXCEPT ![t] = NoMsg]
      /\ MqReceived' = [MqReceived EXCEPT ![t] = NoMsg]
  BY <1>2, <1>5, MqOthersStay
<1>7. MqTaken[t] = NoMsg /\ MqReceived[t] = NoMsg
  BY MqEntries
<1>8. Sends(t) /\ Sends(t)' /\ data'[t] = data[t]
  BY <1>1, <1>3 DEF Sends, TypeOK
<1> QED
  BY <1>4, <1>6, <1>7, <1>8, MqEntries DEF MqAbstract

\* The link puts the message into the channel.
LEMMA MqLinkRefines ==
    ASSUME MqIInv, MqContents, NEW t \in Threads, Link(t) PROVE Channel!Put(t)
<1>1. /\ TypeOK /\ MqNodesInPlace /\ Return(t) /\ UNCHANGED <<buf, op>>
      /\ Sends(t) /\ pc[t] = "finish" /\ t \in Holders
      /\ linked' = IF op[t] = "send" THEN Append(linked, hold[t]) ELSE <<hold[t]>> \o linked
  BY DEF MqIInv, Link, Sends, Holders
<1>2. /\ linked \in Seq(Nodes) /\ IsInjective(linked)
      /\ hold[t] \in Nodes /\ hold[t] \notin ToSet(linked)
  BY <1>1 DEF TypeOK, MqNodesInPlace
<1>3. buf[hold[t]] = data[t] /\ data[t] \in Msgs /\ data[t] # NoMsg
  BY <1>1, MqAssumption DEF MqContents
<1>4. \A u \in Threads \ {t} : pc'[u] = pc[u] /\ data'[u] = data[u] /\ hold'[u] = hold[u]
  BY <1>1 DEF Return, TypeOK
<1>5. pc'[t] = "idle" /\ ~Sends(t)'
  BY <1>1 DEF Return, TypeOK, Sends
<1>6. /\ MqSending' = [MqSending EXCEPT ![t] = NoMsg]
      /\ MqTaken' = [MqTaken EXCEPT ![t] = NoMsg]
      /\ MqReceived' = [MqReceived EXCEPT ![t] = NoMsg]
  BY <1>1, <1>4, <1>5, MqOthersStay
<1>7. MqSending[t] = data[t] /\ MqTaken[t] = NoMsg /\ MqReceived[t] = NoMsg
  BY <1>1, MqEntries DEF Sends
<1>8. UNCHANGED <<MqTaken, MqReceived>>
  BY <1>6, <1>7, MqEntries
<1>9. MqItems' \in {Append(MqItems, MqSending[t]), <<MqSending[t]>> \o MqItems}
  <2>1. /\ MqMessages(Append(linked, hold[t]), buf) = Append(MqItems, buf[hold[t]])
        /\ MqMessages(<<hold[t]>> \o linked, buf) = <<buf[hold[t]]>> \o MqItems
    BY <1>2, MqItemsLinked DEF MqItems
  <2>2. MqItems' = MqMessages(linked', buf)
    BY <1>1 DEF MqItems
  <2>3. MqItems' \in {Append(MqItems, buf[hold[t]]), <<buf[hold[t]]>> \o MqItems}
    BY <1>1, <2>1, <2>2
  <2> QED
    BY <1>3, <1>7, <2>3
<1>10. Len(MqItems) < Cardinality(Nodes)
  <2>1. Len(linked) < Cardinality(Nodes)
    BY <1>2, MqAssumption, ShorterThanSet
  <2>2. Len(MqItems) = Len(linked)
    BY <1>2 DEF MqItems, MqMessages
  <2> QED
    BY <2>1, <2>2
<1>11. MqSending[t] # NoMsg
  BY <1>3, <1>7
<1> QED
  BY <1>6, <1>8, <1>9, <1>10, <1>11
     DEF Channel!Put, MqItems, MqMessages, MqSending, MqTaken, MqReceived

\* A receiver takes the first message out of the channel
LEMMA MqTakeRefines ==
    ASSUME MqIInv, NEW t \in Threads, TakeNode(t), entry > 0 PROVE Channel!Take(t)
<1>1. /\ TypeOK /\ MqNodesInPlace /\ UNCHANGED <<buf, op, data>> /\ op[t] = "recv"
      /\ pc[t] = "enter" /\ linked' = Tail(linked)
      /\ hold' = [hold EXCEPT ![t] = Head(linked)] /\ pc' = [pc EXCEPT ![t] = "copy"]
  BY DEF MqIInv, TakeNode
<1>2. linked \in Seq(Nodes) /\ linked # <<>>
  BY <1>1 DEF TypeOK, MqNodesInPlace
<1>3. \A u \in Threads \ {t} : pc'[u] = pc[u] /\ hold'[u] = hold[u]
  BY <1>1 DEF TypeOK
<1>4. pc'[t] = "copy" /\ hold'[t] = Head(linked) /\ ~Sends(t)' /\ ~Sends(t)
  BY <1>1 DEF TypeOK, Sends
<1>5. /\ MqSending' = [MqSending EXCEPT ![t] = NoMsg]
      /\ MqTaken' = [MqTaken EXCEPT ![t] = buf[Head(linked)]]
      /\ MqReceived' = [MqReceived EXCEPT ![t] = NoMsg]
  BY <1>1, <1>3, <1>4, MqOthersStay
<1>6. UNCHANGED <<MqSending, MqReceived>>
  BY <1>1, <1>4, <1>5, MqEntries
<1>7. MqItems # <<>> /\ Head(MqItems) = buf[Head(linked)] /\ MqItems' = Tail(MqItems)
  <2>1. /\ MqItems # <<>> /\ Head(MqItems) = buf[Head(linked)]
        /\ MqMessages(Tail(linked), buf) = Tail(MqItems)
    BY <1>2, MqItemsTaken DEF MqItems
  <2>2. MqItems' = MqMessages(Tail(linked), buf)
    BY <1>1 DEF MqItems
  <2> QED
    BY <2>1, <2>2
<1>8. MqTaken' = [MqTaken EXCEPT ![t] = Head(MqItems)]
  BY <1>5, <1>7
<1> QED
  BY <1>6, <1>7, <1>8 DEF Channel!Take, MqItems, MqMessages, MqSending, MqTaken, MqReceived

\* and copies it into its buffer.
LEMMA MqDeliverRefines ==
    ASSUME MqIInv, MqContents, NEW t \in Threads, CopyOut(t) PROVE Channel!Deliver(t)
<1>1. /\ TypeOK /\ UNCHANGED <<linked, buf, op, hold>> /\ op[t] = "recv" /\ pc[t] = "copy"
      /\ data' = [data EXCEPT ![t] = buf[hold[t]]] /\ pc' = [pc EXCEPT ![t] = "finish"]
  BY DEF MqIInv, CopyOut
<1>2. \A u \in Threads \ {t} : pc'[u] = pc[u] /\ data'[u] = data[u]
  BY <1>1 DEF TypeOK
<1>3. pc'[t] = "finish" /\ data'[t] = buf[hold[t]] /\ ~Sends(t)' /\ ~Sends(t)
  BY <1>1 DEF TypeOK, Sends
<1>4. /\ MqSending' = [MqSending EXCEPT ![t] = NoMsg]
      /\ MqTaken' = [MqTaken EXCEPT ![t] = NoMsg]
      /\ MqReceived' = [MqReceived EXCEPT ![t] = buf[hold[t]]]
  BY <1>1, <1>2, <1>3, MqOthersStay
<1>5. MqTaken[t] = buf[hold[t]] /\ MqSending[t] = NoMsg
  BY <1>1, <1>3, MqEntries
<1>6. UNCHANGED <<MqItems, MqSending>>
  BY <1>1, <1>4, <1>5, MqItemsSame, MqEntries
<1>7. MqTaken[t] # NoMsg
  BY <1>1, <1>5, MqAssumption DEF MqContents
<1>8. MqReceived' = [MqReceived EXCEPT ![t] = MqTaken[t]]
  BY <1>4, <1>5
<1> QED
  BY <1>4, <1>6, <1>7, <1>8 DEF Channel!Deliver, MqItems, MqMessages, MqSending, MqTaken, MqReceived

\* rt_mq_recv returns,
LEMMA MqReturnRefines ==
    ASSUME MqIInv, NEW t \in Threads, FreeNode(t) PROVE Channel!Return(t)
<1>1. /\ TypeOK /\ UNCHANGED <<linked, buf, op>> /\ op[t] = "recv" /\ pc[t] = "finish"
      /\ Return(t)
  BY DEF MqIInv, FreeNode
<1>2. \A u \in Threads \ {t} : pc'[u] = pc[u] /\ data'[u] = data[u] /\ hold'[u] = hold[u]
  BY <1>1 DEF Return, TypeOK
<1>3. pc'[t] = "idle" /\ ~Sends(t)' /\ ~Sends(t)
  BY <1>1 DEF Return, TypeOK, Sends
<1>4. /\ MqSending' = [MqSending EXCEPT ![t] = NoMsg]
      /\ MqTaken' = [MqTaken EXCEPT ![t] = NoMsg]
      /\ MqReceived' = [MqReceived EXCEPT ![t] = NoMsg]
  BY <1>1, <1>2, <1>3, MqOthersStay
<1>5. MqTaken[t] = NoMsg /\ MqSending[t] = NoMsg
  BY <1>1, <1>3, MqEntries
<1>6. UNCHANGED <<MqItems, MqSending, MqTaken>>
  BY <1>1, <1>4, <1>5, MqItemsSame, MqEntries
<1> QED
  BY <1>4, <1>6 DEF Channel!Return, MqItems, MqMessages, MqSending, MqTaken, MqReceived

\* RT_IPC_CMD_RESET drops the messages of the queue, and no other.
LEMMA MqResetRefines ==
    ASSUME MqIInv, NEW t \in Threads, Reset(t) PROVE Channel!Clear
<1>1. UNCHANGED <<buf, op, pc, hold, data>> /\ linked' = <<>>
  BY DEF Reset
<1>2. UNCHANGED <<MqSending, MqTaken, MqReceived>>
  BY <1>1 DEF MqSending, MqTaken, MqReceived, Sends
<1>3. MqItems' = <<>>
  BY <1>1 DEF MqItems, MqMessages
<1> QED
  BY <1>2, <1>3 DEF Channel!Clear, MqItems, MqMessages, MqSending, MqTaken, MqReceived

\* A thread that goes to detach the queue, or comes back from it.
LEMMA MqDetachRefines ==
    ASSUME TypeOK, NEW t \in Threads, UNCHANGED <<linked, buf, op, data, hold>>,
           pc[t] \in {"idle"} \cup MqAtDetach, NEW p \in {"idle"} \cup MqAtDetach,
           pc' = [pc EXCEPT ![t] = p]
    PROVE  UNCHANGED MqAbstract
<1>1. \A u \in Threads \ {t} : pc'[u] = pc[u]
  BY DEF TypeOK
<1>2. pc'[t] = p /\ ~Sends(t) /\ ~Sends(t)'
  BY DEF TypeOK, Sends, MqAtDetach, MqRounds
<1>3. /\ MqSending' = [MqSending EXCEPT ![t] = NoMsg]
      /\ MqTaken' = [MqTaken EXCEPT ![t] = NoMsg]
      /\ MqReceived' = [MqReceived EXCEPT ![t] = NoMsg]
  BY <1>1, <1>2, MqOthersStay DEF MqAtDetach, MqRounds
<1>4. MqSending[t] = NoMsg /\ MqTaken[t] = NoMsg /\ MqReceived[t] = NoMsg
  BY <1>2, MqEntries DEF MqAtDetach, MqRounds
<1> QED
  BY <1>3, <1>4, MqItemsSame, MqEntries DEF MqAbstract

LEMMA MqStepRefines ==
    MqIInv /\ MqContents /\ [Next]_vars => [Channel!Next]_MqAbstract
<1> SUFFICES ASSUME MqIInv, MqContents, [Next]_vars PROVE Channel!Next \/ UNCHANGED MqAbstract
  OBVIOUS
<1> DEFINE Mapped == Channel!Next \/ UNCHANGED MqAbstract
<1>a. Channel!Clear => Channel!Next
  BY DEF Channel!Next
<1>b. ASSUME NEW t \in Threads
      PROVE  /\ \A n \in Msgs : Channel!Offer(t, n) => Channel!Next
             /\ Channel!GiveUp(t) \/ Channel!Put(t) \/ Channel!Take(t) \/ Channel!Deliver(t)
                   \/ Channel!Return(t) => Channel!Next
  BY DEF Channel!Next
<1>c. ASSUME UNCHANGED mqVars PROVE UNCHANGED MqAbstract
  BY <1>c DEF mqVars, MqAbstract, MqItems, MqMessages, MqSending, MqTaken, MqReceived, Sends
<1>1. ASSUME NEW t \in Threads, Calls(t) PROVE Mapped
  <2>1. ASSUME NEW o \in {"send", "urgent"}, NEW m \in Payload[t], NEW time, Call(t, o, m, time)
        PROVE  Mapped
    <3>1. m \in Msgs
      BY MqAssumption
    <3>2. (\E n \in Msgs : Channel!Offer(t, n)) \/ UNCHANGED MqAbstract
      BY <2>1, <3>1, MqCallRefines
    <3> QED
      BY <1>b, <3>2
  <2>2. ASSUME NEW time, Call(t, "recv", NoMsg, time) PROVE Mapped
    <3>1. (\E n \in Msgs : Channel!Offer(t, n)) \/ UNCHANGED MqAbstract
      BY <2>2, MqCallRefines
    <3> QED
      BY <1>b, <3>1
  <2>3. CASE Reset(t)
    BY <1>a, <2>3, MqResetRefines
  <2>4. CASE DetachCall(t)
    <3>1. /\ UNCHANGED <<linked, buf, op, data, hold>> /\ pc[t] = "idle"
          /\ pc' = [pc EXCEPT ![t] = "detach"] /\ TypeOK
      BY <2>4 DEF DetachCall, MqIInv
    <3> QED
      BY <3>1, MqDetachRefines DEF MqAtDetach
  <2> HIDE DEF Mapped
  <2> QED
    BY <1>1, <2>1, <2>2, <2>3, <2>4 DEF Calls
<1>2. ASSUME NEW t \in Threads, GetNode(t) PROVE Mapped
  <2>1. CASE free # <<>>
    <3>1. TypeOK
      BY DEF MqIInv
    <3>2. Head(free) \in Nodes
      BY <2>1, <3>1, HeadProperties DEF TypeOK
    <3>3. /\ UNCHANGED <<linked, buf, op, data>> /\ op[t] \in {"send", "urgent"}
          /\ pc[t] = "enter" /\ pc' = [pc EXCEPT ![t] = "copy"]
          /\ \E n \in Nodes : hold' = [hold EXCEPT ![t] = n]
      BY <1>2, <2>1, <3>2 DEF GetNode
    <3> QED
      BY <3>3, MqCopyRefines
  <2>2. CASE free = <<>>
    <3>1. /\ UNCHANGED <<linked, buf, op>> /\ pc[t] \in {"enter", "wait"}
          /\ \/ Return(t)
             \/ /\ UNCHANGED <<hold, data>>
                /\ \E p \in {"enter", "wait"} : pc' = [pc EXCEPT ![t] = p]
      BY <1>2, <2>2 DEF GetNode
    <3> QED
      BY <1>b, <3>1, MqWaitRefines
  <2> QED
    BY <2>1, <2>2
<1>3. ASSUME NEW t \in Threads, CopyIn(t) PROVE Mapped
  <2>1. UNCHANGED <<linked, op, data>> /\ op[t] \in {"send", "urgent"}
    BY <1>3 DEF CopyIn
  <2> QED
    BY <1>3, <2>1, MqCopyRefines
<1>4. ASSUME NEW t \in Threads, Link(t) PROVE Mapped
  BY <1>4, <1>b, MqLinkRefines
<1>5. ASSUME NEW t \in Threads, TakeNode(t) PROVE Mapped
  <2>1. CASE entry > 0
    BY <1>5, <1>b, <2>1, MqTakeRefines
  <2>2. CASE ~(entry > 0)
    <3>1. /\ UNCHANGED <<linked, buf, op>> /\ pc[t] \in {"enter", "wait"}
          /\ \/ Return(t)
             \/ /\ UNCHANGED <<hold, data>>
                /\ \E p \in {"enter", "wait"} : pc' = [pc EXCEPT ![t] = p]
      BY <1>5, <2>2 DEF TakeNode
    <3> QED
      BY <1>b, <3>1, MqWaitRefines
  <2> QED
    BY <2>1, <2>2
<1>6. ASSUME NEW t \in Threads, CopyOut(t) PROVE Mapped
  BY <1>6, <1>b, MqDeliverRefines
<1>7. ASSUME NEW t \in Threads, FreeNode(t) PROVE Mapped
  BY <1>7, <1>b, MqReturnRefines
<1>8. ASSUME NEW t \in Threads, WaitFails(t) \/ LookAgain(t) PROVE Mapped
  <2>1. /\ UNCHANGED <<linked, buf, op>> /\ pc[t] \in {"enter", "wait"}
        /\ \/ Return(t)
           \/ /\ UNCHANGED <<hold, data>>
              /\ \E p \in {"enter", "wait"} : pc' = [pc EXCEPT ![t] = p]
    BY <1>8 DEF WaitFails, LookAgain
  <2> QED
    BY <1>b, <2>1, MqWaitRefines
<1>9. ASSUME NEW t \in Threads, DetachObject(t) PROVE Mapped
  <2>1. /\ UNCHANGED <<linked, buf, op, data, hold>> /\ pc[t] = "detach"
        /\ pc' = [pc EXCEPT ![t] = "idle"] /\ TypeOK
    BY <1>9 DEF DetachObject, MqIInv
  <2> QED
    BY <2>1, MqDetachRefines DEF MqAtDetach
<1>13. ASSUME NEW t \in Threads, NEW l, NEW r \in MqRounds,
              DetachTest(t, l, r) \/ DetachRound(t, l, r)
       PROVE  Mapped
  <2>1. /\ UNCHANGED <<linked, buf, op, data, hold>> /\ TypeOK
        /\ pc[t] \in MqAtDetach /\ \E p \in MqAtDetach : pc' = [pc EXCEPT ![t] = p]
    BY <1>13, MqDetachMoves DEF MqIInv
  <2> QED
    BY <2>1, MqDetachRefines
<1>10. ASSUME UNCHANGED mqVars PROVE Mapped
  BY <1>10, <1>c
<1> HIDE DEF Mapped
<1>11. ASSUME NEW t \in Threads, ThreadStep(t) PROVE Mapped
  BY <1>2, <1>3, <1>4, <1>5, <1>6, <1>7, <1>8, <1>9, <1>11, <1>13
     DEF ThreadStep, MqRounds
<1>12. Mapped
  BY <1>1, <1>10, <1>11 DEF Next, Timeout, Finished, vars
<1> QED
  BY <1>12 DEF Mapped

\* The message queue implements BoundedChannel, with any number of threads, nodes and
\* messages: although rt_mq_send_wait and rt_mq_recv copy with nothing locked, messages
\* are received in the order of their links, urgent ones first, each at most once and
\* with the content its sender passed.
THEOREM MqDeliversInOrder == Spec => DeliversInOrder
<1> DEFINE IInv == MqIInv /\ MqContents
<1>1. Init => IInv /\ Channel!Init
  <2>1. Init => IInv
    BY MqInitInv, MqContentsInitial
  <2>2. Init => Channel!Init
    BY DEF Init, Channel!Init, Sends
  <2> QED
    BY <2>1, <2>2
<1>2. IInv /\ [Next]_vars => IInv'
  BY MqInductive, MqContentsStep
<1>3. IInv /\ [Next]_vars => [Channel!Next]_(Channel!vars)
  BY MqStepRefines DEF Channel!vars, MqAbstract, MqItems, MqMessages, MqSending, MqTaken, MqReceived
<1> HIDE DEF IInv
<1> QED
  BY <1>1, <1>2, <1>3, PTL DEF Spec, DeliversInOrder, Channel!Spec

-----------------------------------------------------------------------------
(***************************************************************************)
(* The memory pool (MemPool): as for the message queue, a thread is counted *)
(* from the moment it is woken until it has looked.                         *)
(***************************************************************************)

\* The suspended threads wait in the loop of rt_mp_alloc.
MpWaiting == \A t \in Threads : stat[t] = "SUSPEND" => mpPc[t] = "wait" /\ error[t] = "EOK"

MpInv == MpTypeOK /\ SuspendedIsLinked /\ MpWaiting /\ BlocksConserved /\ NoBlockInVain

\* Once more block than before, with one more thread that comes for it; one less, with
\* one thread less; or threads that have left the list.
LEMMA MpStillServed ==
    ASSUME NEW A \in SUBSET Threads, NEW B \in SUBSET Threads, NEW m \in Nat, NEW n \in Nat,
           m <= Cardinality(A), NEW t \in Threads,
           \/ n <= m /\ A \subseteq B
           \/ n + 1 <= m /\ A \ {t} \subseteq B
           \/ n <= m + 1 /\ A \cup {t} \subseteq B /\ t \notin A
    PROVE  n <= Cardinality(B)
<1>1. /\ Cardinality(A) \in Nat /\ Cardinality(B) \in Nat
      /\ A \subseteq B => Cardinality(A) <= Cardinality(B)
      /\ A \ {t} \subseteq B => Cardinality(A) <= Cardinality(B) + 1
      /\ A \cup {t} \subseteq B /\ t \notin A => Cardinality(A) + 1 <= Cardinality(B)
  BY MqLookingCounts
<1> QED
  BY <1>1

LEMMA MpComingThreads == MpComing \in SUBSET Threads /\ MpComing' \in SUBSET Threads
  BY DEF MpComing

\* block_free_count and the list at the first use of the pool.
LEMMA MpInitial == IpcInit /\ MpInit => MpInv
<1>. SUFFICES ASSUME IpcInit, MpInit PROVE MpInv
  OBVIOUS
<1>1. IpcTypeOK /\ SuspendedIsLinked
  BY IpcInitLinked
<1>2. /\ blockList \in Seq(Blocks) /\ Len(blockList) = Cardinality(Blocks)
      /\ ToSet(blockList) = Blocks /\ IsInjective(blockList)
  BY MpAssumption, SetToSeqProperties DEF MpInit
<1>3. Cardinality(Blocks) \in Nat
  BY MpAssumption, FS_CardinalityType
<1>4. MpTypeOK
  BY <1>1, <1>2, <1>3 DEF MpTypeOK, MpInit, MpLabels
<1>5. BlocksConserved
  BY <1>2 DEF BlocksConserved, MpInit
<1>6. MpWaiting /\ NoBlockInVain
  BY MpAssumption DEF MpWaiting, NoBlockInVain, IpcInit
<1> QED
  BY <1>1, <1>4, <1>5, <1>6 DEF MpInv

\* A step of a thread that is awake, on no list and on no block, while those that come
\* for a block still do.
LEMMA MpThreadMoves ==
    ASSUME MpInv, UNCHANGED <<ipcVars, blockFree, blockList, blockUsed>>,
           poolAlive' \in BOOLEAN,
           mpPc' \in [Threads -> MpLabels],
           mpTime' \in [Threads -> {"no", "timed", "forever"}],
           \A u \in Threads : stat[u] = "SUSPEND" => mpPc'[u] = mpPc[u],
           blockFree = 0 \/ MpComing \subseteq MpComing'
    PROVE  MpInv'
<1>1. UNCHANGED <<stat, error, timer, queue, irqoff, expired>>
  BY DEF ipcVars
<1>2. MpTypeOK' /\ SuspendedIsLinked'
  BY <1>1 DEF MpInv, MpTypeOK, IpcTypeOK, SuspendedIsLinked
<1>3. MpWaiting'
  BY <1>1 DEF MpInv, MpWaiting
<1>4. BlocksConserved'
  BY DEF MpInv, BlocksConserved
<1>5. NoBlockInVain'
  <2>. SUFFICES ASSUME queue'["pool"] # <<>> PROVE blockFree <= Cardinality(MpComing')
    BY DEF NoBlockInVain
  <2>1. blockFree \in Nat /\ blockFree <= Cardinality(MpComing)
    BY <1>1, MpAssumption, FS_CardinalityType DEF MpInv, MpTypeOK, NoBlockInVain
  <2>2. IsFiniteSet(MpComing')
    BY WaitAssumption, MpComingThreads, FS_Subset
  <2>3. Cardinality(MpComing') \in Nat
    BY <2>2, FS_CardinalityType
  <2>4. MpComing \subseteq MpComing' => Cardinality(MpComing) <= Cardinality(MpComing')
    BY <2>2, FS_Subset
  <2>5. Cardinality(MpComing) \in Nat
    BY WaitAssumption, MpComingThreads, FS_Subset, FS_CardinalityType
  <2> QED
    BY <2>1, <2>3, <2>4, <2>5
<1> QED
  BY <1>2, <1>3, <1>4, <1>5 DEF MpInv

LEMMA MpCallMoves ==
    ASSUME MpInv, NEW t \in Threads,
           \/ \E time \in WaitsOf(t) : AllocCall(t, time)
           \/ AllocWoken(t) \/ MpDetachCall(t) \/ MpDetachTest(t) \/ MpDetachObject(t)
    PROVE  MpInv'
<1>1. /\ mpPc \in [Threads -> MpLabels]
      /\ mpTime \in [Threads -> {"no", "timed", "forever"}] /\ poolAlive \in BOOLEAN
      /\ MpWaiting
  BY DEF MpInv, MpTypeOK
<1>2. CASE \E time \in WaitsOf(t) : AllocCall(t, time)
  <2>1. PICK time \in WaitsOf(t) : AllocCall(t, time)
    BY <1>2
  <2>2. time \in {"no", "timed", "forever"}
    BY WaitAssumption DEF WaitsOf
  <2>3. /\ mpPc[t] = "idle" /\ mpPc' = [mpPc EXCEPT ![t] = "enter"]
        /\ mpTime' = [mpTime EXCEPT ![t] = time]
        /\ UNCHANGED <<ipcVars, blockFree, blockList, blockUsed, poolAlive>>
    BY <2>1 DEF AllocCall
  <2>4. MpComing \subseteq MpComing'
    BY <1>1, <2>3 DEF MpComing, ipcVars
  <2>5. \A u \in Threads : stat[u] = "SUSPEND" => mpPc'[u] = mpPc[u]
    BY <1>1, <2>3 DEF MpWaiting
  <2> QED
    BY <1>1, <2>2, <2>3, <2>4, <2>5, MpThreadMoves DEF MpLabels
<1>3. CASE AllocWoken(t)
  <2>1. /\ mpPc[t] = "wait" /\ stat[t] = "RUN"
        /\ UNCHANGED <<ipcVars, blockFree, blockList, blockUsed, poolAlive>>
    BY <1>3 DEF AllocWoken
  <2>2. /\ mpPc' = [mpPc EXCEPT ![t] = IF error[t] # "EOK" THEN "idle" ELSE "enter"]
        /\ mpTime' \in [Threads -> {"no", "timed", "forever"}]
    BY <1>1, <1>3 DEF AllocWoken, Leave, Remaining
  <2>3. MpComing \subseteq MpComing'
    BY <1>1, <2>1, <2>2 DEF MpComing, ipcVars
  <2>4. \A u \in Threads : stat[u] = "SUSPEND" => mpPc'[u] = mpPc[u]
    BY <1>1, <2>1, <2>2
  <2>5. mpPc' \in [Threads -> MpLabels]
    BY <1>1, <2>2 DEF MpLabels
  <2> QED
    BY <1>1, <2>1, <2>2, <2>3, <2>4, <2>5, MpThreadMoves
<1>4. CASE MpDetachCall(t) \/ MpDetachTest(t) \/ MpDetachObject(t)
  <2>1. /\ mpPc[t] \in {"idle", "detach"} /\ poolAlive' \in BOOLEAN
        /\ UNCHANGED <<ipcVars, blockFree, blockList, blockUsed, mpTime>>
    BY <1>1, <1>4 DEF MpDetachCall, MpDetachTest, MpDetachObject, MpLabels
  <2>2. /\ mpPc' \in [Threads -> MpLabels]
        /\ \A u \in Threads : u # t => mpPc'[u] = mpPc[u]
    BY <1>1, <1>4 DEF MpDetachCall, MpDetachTest, MpDetachObject, MpLabels
  <2>3. MpComing \subseteq MpComing'
    BY <2>1, <2>2 DEF MpComing, ipcVars
  <2>4. \A u \in Threads : stat[u] = "SUSPEND" => mpPc'[u] = mpPc[u]
    BY <1>1, <2>1, <2>2 DEF MpWaiting
  <2> QED
    BY <1>1, <2>1, <2>2, <2>3, <2>4, MpThreadMoves
<1> QED
  BY <1>2, <1>3, <1>4

\* The first block of the list goes to a thread that no longer comes for one.
LEMMA MpBlockTaken ==
    ASSUME MpInv, NEW t \in Threads, Alloc(t), blockFree > 0
    PROVE  MpInv'
<1>1. /\ mpPc[t] = "enter" /\ blockFree' = blockFree - 1 /\ blockList' = Tail(blockList)
      /\ blockUsed' = blockUsed \cup {Head(blockList)}
      /\ mpPc' = [mpPc EXCEPT ![t] = "idle"] /\ mpTime' = [mpTime EXCEPT ![t] = "no"]
      /\ UNCHANGED <<stat, error, timer, queue, irqoff, expired, poolAlive>>
  BY DEF Alloc, Leave, ipcVars
<1>2. /\ blockList \in Seq(Blocks) /\ IsInjective(blockList) /\ blockFree = Len(blockList)
      /\ ToSet(blockList) = Blocks \ blockUsed /\ blockUsed \subseteq Blocks
      /\ blockFree \in 0..Cardinality(Blocks) /\ Cardinality(Blocks) \in Nat
  BY MpAssumption, FS_CardinalityType DEF MpInv, MpTypeOK, BlocksConserved
<1>3. blockList # <<>>
  BY <1>2, EmptySeq
<1>4. /\ Tail(blockList) \in Seq(Blocks) /\ Len(Tail(blockList)) = Len(blockList) - 1
      /\ Head(blockList) \in ToSet(blockList)
      /\ ToSet(Tail(blockList)) = ToSet(blockList) \ {Head(blockList)}
      /\ IsInjective(Tail(blockList))
  BY <1>2, <1>3, TailProperties
<1>5. BlocksConserved'
  BY <1>1, <1>2, <1>4 DEF BlocksConserved
<1>6. MpTypeOK' /\ SuspendedIsLinked'
  <2>1. IpcTypeOK' /\ SuspendedIsLinked'
    BY <1>1 DEF MpInv, MpTypeOK, IpcTypeOK, SuspendedIsLinked
  <2>2. blockFree' \in 0..Cardinality(Blocks) /\ blockList' \in Seq(Blocks)
        /\ blockUsed' \subseteq Blocks
    BY <1>1, <1>2, <1>4
  <2> QED
    BY <1>1, <2>1, <2>2 DEF MpInv, MpTypeOK, MpLabels
<1>7. MpWaiting'
  BY <1>1 DEF MpInv, MpTypeOK, MpWaiting
<1>8. NoBlockInVain'
  <2>1. MpComing \ {t} \subseteq MpComing'
    BY <1>1 DEF MpInv, MpTypeOK, MpComing
  <2>2. queue["pool"] # <<>> => blockFree' <= Cardinality(MpComing')
    <3>. SUFFICES ASSUME queue["pool"] # <<>> PROVE blockFree' <= Cardinality(MpComing')
      OBVIOUS
    <3>1. blockFree <= Cardinality(MpComing)
      BY DEF MpInv, NoBlockInVain
    <3>2. blockFree \in Nat /\ blockFree' \in Nat /\ blockFree' + 1 <= blockFree
      BY <1>1, <1>2
    <3> QED
      BY <2>1, <3>1, <3>2, MpComingThreads, MpStillServed
  <2> QED
    BY <1>1, <2>2 DEF NoBlockInVain
<1> QED
  BY <1>5, <1>6, <1>7, <1>8 DEF MpInv

\* rt_list_insert_after at the head of suspend_thread.
LEMMA MpBlockMissed ==
    ASSUME MpInv, NEW t \in Threads, Alloc(t), blockFree = 0
    PROVE  MpInv'
<1>1. /\ mpPc[t] = "enter" /\ stat[t] = "RUN"
      /\ UNCHANGED <<blockFree, blockList, blockUsed, poolAlive>>
      /\ mpPc \in [Threads -> MpLabels]
      /\ mpTime \in [Threads -> {"no", "timed", "forever"}] /\ poolAlive \in BOOLEAN
  BY DEF Alloc, MpInv, MpTypeOK, IpcTypeOK, MpWaiting
<1>2. CASE Leave(t) /\ UNCHANGED ipcVars
  <2>1. /\ mpPc' \in [Threads -> MpLabels]
        /\ mpTime' \in [Threads -> {"no", "timed", "forever"}]
        /\ \A u \in Threads : stat[u] = "SUSPEND" => mpPc'[u] = mpPc[u]
    BY <1>1, <1>2 DEF Leave, MpLabels
  <2> QED
    BY <1>1, <1>2, <2>1, MpThreadMoves
<1>3. CASE /\ SuspendFirst(t, mpTime[t] = "timed") /\ mpPc' = [mpPc EXCEPT ![t] = "wait"]
           /\ mpTime' = mpTime
  <2> DEFINE p == <<t>> \o Unlink(queue, t)["pool"]
             timed == mpTime[t] = "timed"
  <2>1. /\ error' = [error EXCEPT ![t] = "EOK"] /\ stat' = [stat EXCEPT ![t] = "SUSPEND"]
        /\ queue' = [Unlink(queue, t) EXCEPT !["pool"] = p]
        /\ timer' = [timer EXCEPT ![t] = timed] /\ timed \in BOOLEAN
        /\ UNCHANGED <<irqoff, expired>>
    BY <1>3 DEF SuspendFirst
  <2>2. /\ IpcTypeOK /\ SuspendedIsLinked /\ queue \in [Lists -> Seq(Threads)]
        /\ \A k \in Lists : IsInjective(queue[k])
        /\ "pool" \in Lists /\ t \notin ToSet(queue["pool"])
    BY <1>1, MpAssumption DEF MpInv, MpTypeOK, IpcTypeOK, SuspendedIsLinked
  <2>3. PICK u \in Seq(Threads) :
            /\ u = Unlink(queue, t)["pool"]
            /\ ToSet(u) = ToSet(queue["pool"]) \ {t} /\ IsInjective(u)
    <3>1. /\ Unlink(queue, t)["pool"] \in Seq(Threads)
          /\ ToSet(Unlink(queue, t)["pool"]) = ToSet(queue["pool"]) \ {t}
          /\ IsInjective(Unlink(queue, t)["pool"])
      BY ONLY <2>2, UnlinkProperties
    <3> QED
      BY <3>1
  <2>4. PICK one \in Seq(Threads) : one = <<t>> /\ ToSet(one) = {t} /\ IsInjective(one)
    BY SingleProperties
  <2>5. ToSet(one) \cap ToSet(u) = {}
    BY <2>3, <2>4
  <2>6. /\ one \o u \in Seq(Threads) /\ ToSet(one \o u) = ToSet(one) \cup ToSet(u)
        /\ IsInjective(one \o u)
    BY ONLY <2>3, <2>4, <2>5, ConcatKeeps
  <2>7. p \in Seq(Threads) /\ ToSet(p) = ToSet(queue["pool"]) \cup {t} /\ IsInjective(p)
    <3>1. p = one \o u
      BY <2>3, <2>4
    <3> QED
      BY <2>2, <2>3, <2>4, <2>6, <3>1
  <2> HIDE DEF p, timed
  <2>8. queue' \in [Lists -> Seq(Threads)] /\ SuspendedIsLinked'
    BY <1>1, <2>1, <2>2, <2>7, ListSuspendLinks
  <2>9. IpcTypeOK'
    BY <2>1, <2>2, <2>8 DEF IpcTypeOK, Errors
  <2>10. MpTypeOK'
    BY <1>1, <1>3, <2>9 DEF MpInv, MpTypeOK, MpLabels
  <2>11. MpWaiting'
    BY <1>1, <1>3, <2>1, <2>2 DEF MpInv, MpWaiting, IpcTypeOK
  <2>12. BlocksConserved'
    BY <1>1 DEF MpInv, BlocksConserved
  <2>13. NoBlockInVain'
    <3>1. IsFiniteSet(MpComing')
      BY WaitAssumption, MpComingThreads, FS_Subset
    <3>2. Cardinality(MpComing') \in Nat
      BY <3>1, FS_CardinalityType
    <3> QED
      BY <1>1, <3>2 DEF NoBlockInVain
  <2> QED
    BY <2>8, <2>10, <2>11, <2>12, <2>13 DEF MpInv
<1> QED
  BY <1>1, <1>2, <1>3 DEF Alloc

\* A thread that leaves the list and does not come for a block: it was resumed with
\* -RT_ERROR by the detach of the pool, or its timeout was handled.
LEMMA MpThreadLeaves ==
    ASSUME MpInv, IpcTypeOK', SuspendedIsLinked',
           UNCHANGED <<blockFree, blockList, blockUsed, poolAlive, mpTime>>,
           mpPc' \in [Threads -> MpLabels],
           \A u \in Threads :
              \/ mpPc'[u] = mpPc[u]
              \/ stat[u] # "SUSPEND" /\ mpPc[u] = "pop" /\ mpPc'[u] \in {"detach", "wild"},
           ToSet(queue'["pool"]) \subseteq ToSet(queue["pool"]),
           \A u \in Threads :
              \/ stat'[u] = stat[u] /\ error'[u] = error[u]
              \/ stat[u] = "SUSPEND" /\ stat'[u] = "RUN" /\ error'[u] # "EOK"
    PROVE  MpInv'
<1>1. MpTypeOK' /\ MpWaiting' /\ BlocksConserved'
  BY DEF MpInv, MpTypeOK, MpWaiting, BlocksConserved
<1>2. MpComing' = MpComing
  BY DEF MpComing
<1>3. queue'["pool"] # <<>> => queue["pool"] # <<>>
  BY MpAssumption, MqStaysEmpty DEF MpInv, MpTypeOK
<1>4. NoBlockInVain'
  BY <1>2, <1>3 DEF MpInv, NoBlockInVain
<1> QED
  BY <1>1, <1>4 DEF MpInv

\* The block becomes the first of the list, and the first thread comes for it.
LEMMA MpBlockFreed ==
    ASSUME MpInv, NEW t \in Threads, NEW b \in Blocks, MpFree(t, b)
    PROVE  MpInv'
<1>1. /\ b \in blockUsed /\ blockFree' = blockFree + 1 /\ blockList' = <<b>> \o blockList
      /\ blockUsed' = blockUsed \ {b} /\ UNCHANGED <<poolAlive, mpPc, mpTime>>
  BY DEF MpFree
<1>2. /\ blockList \in Seq(Blocks) /\ IsInjective(blockList) /\ blockFree = Len(blockList)
      /\ ToSet(blockList) = Blocks \ blockUsed /\ blockUsed \subseteq Blocks
      /\ blockFree \in Nat /\ IsFiniteSet(Blocks) /\ Cardinality(Blocks) \in Nat
  BY MpAssumption, FS_CardinalityType DEF MpInv, MpTypeOK, BlocksConserved
<1>3. PICK one \in Seq(Blocks) : /\ one = <<b>> /\ Len(one) = 1
                                 /\ ToSet(one) = {b} /\ IsInjective(one)
  BY SingleProperties
<1>4. ToSet(one) \cap ToSet(blockList) = {} /\ b \notin ToSet(blockList)
  BY <1>1, <1>2, <1>3
<1>5. /\ one \o blockList \in Seq(Blocks) /\ Len(one \o blockList) = 1 + Len(blockList)
      /\ ToSet(one \o blockList) = ToSet(one) \cup ToSet(blockList)
      /\ IsInjective(one \o blockList)
  <2>1. blockList \in Seq(Blocks) /\ IsInjective(blockList) /\ IsInjective(one)
    BY <1>2, <1>3
  <2>2. /\ one \o blockList \in Seq(Blocks)
        /\ Len(one \o blockList) = Len(one) + Len(blockList)
        /\ ToSet(one \o blockList) = ToSet(one) \cup ToSet(blockList)
        /\ IsInjective(one \o blockList)
    BY ONLY <2>1, <1>4, ConcatKeeps
  <2> QED
    BY <1>3, <2>2
<1>6. BlocksConserved'
  <2>1. ToSet(blockList') = Blocks \ blockUsed'
    BY <1>1, <1>2, <1>3, <1>5
  <2>2. blockFree' = Len(blockList')
    BY <1>1, <1>2, <1>3, <1>5
  <2> QED
    BY <1>1, <1>3, <1>5, <2>1, <2>2 DEF BlocksConserved
<1>7. blockFree' \in 0..Cardinality(Blocks) /\ blockList' \in Seq(Blocks)
  <2>1. Len(blockList) < Cardinality(Blocks)
    BY <1>2, <1>4, ShorterThanSet
  <2> QED
    BY <1>1, <1>2, <1>3, <1>5, <2>1
<1>8. /\ IpcTypeOK /\ SuspendedIsLinked /\ queue \in [Lists -> Seq(Threads)]
      /\ "pool" \in Lists /\ error \in [Threads -> Errors] /\ stat \in [Threads -> {"RUN", "SUSPEND"}]
  BY MpAssumption DEF MpInv, MpTypeOK, IpcTypeOK
<1>9. CASE queue["pool"] = <<>>
  <2>1. UNCHANGED <<stat, error, timer, queue, irqoff, expired>>
    BY <1>9 DEF MpFree, ipcVars
  <2>2. IpcTypeOK' /\ SuspendedIsLinked' /\ MpWaiting'
    BY <1>1, <1>8, <2>1 DEF MpInv, MpWaiting, IpcTypeOK, SuspendedIsLinked
  <2>3. NoBlockInVain'
    BY <1>9, <2>1 DEF NoBlockInVain
  <2>4. MpTypeOK'
    BY <1>1, <1>2, <1>7, <2>2 DEF MpInv, MpTypeOK
  <2> QED
    BY <1>6, <2>2, <2>3, <2>4 DEF MpInv
<1>10. CASE queue["pool"] # <<>>
  <2> DEFINE h == Head(queue["pool"])
  <2>1. /\ error' = [error EXCEPT ![h] = "EOK"] /\ ThreadResume(h)
        /\ UNCHANGED <<irqoff, expired>>
    BY <1>10 DEF MpFree
  <2>2. h \in Threads /\ stat[h] = "SUSPEND"
    BY <1>8, <1>10, HeadSuspended
  <2>3. error' \in [Threads -> Errors]
    BY <1>8, <2>1 DEF Errors
  <2>4. IpcTypeOK' /\ SuspendedIsLinked' /\ stat' = [stat EXCEPT ![h] = "RUN"]
    BY <1>8, <1>10, <2>1, <2>3, HeadResumed
  <2> HIDE DEF h
  <2>5. MpWaiting'
    BY <1>1, <1>8, <2>1, <2>4 DEF MpInv, MpWaiting
  <2>6. mpPc[h] = "wait" /\ h \notin MpComing
    BY <2>2 DEF MpInv, MpWaiting, MpComing
  <2>7. MpComing \cup {h} \subseteq MpComing'
    BY <1>1, <1>8, <2>1, <2>2, <2>4, <2>6 DEF MpComing
  <2>8. blockFree' <= Cardinality(MpComing')
    <3>1. blockFree <= Cardinality(MpComing)
      BY <1>10 DEF MpInv, NoBlockInVain
    <3>2. blockFree \in Nat /\ blockFree' \in Nat /\ blockFree' <= blockFree + 1
      BY <1>1, <1>2
    <3> QED
      BY <2>2, <2>6, <2>7, <3>1, <3>2, MpComingThreads, MpStillServed
  <2>9. MpTypeOK'
    BY <1>1, <1>2, <1>7, <2>4 DEF MpInv, MpTypeOK
  <2> QED
    BY <1>6, <2>4, <2>5, <2>8, <2>9 DEF MpInv, NoBlockInVain
<1> QED
  BY <1>9, <1>10

LEMMA MpStep == MpInv /\ [MpNext]_mpVars => MpInv'
<1>. SUFFICES ASSUME MpInv, [MpNext]_mpVars PROVE MpInv'
  OBVIOUS
<1>1. IpcTypeOK /\ SuspendedIsLinked /\ "pool" \in Lists
  BY MpAssumption DEF MpInv, MpTypeOK
<1>2. stat \in [Threads -> {"RUN", "SUSPEND"}] /\ error \in [Threads -> Errors]
  BY <1>1 DEF IpcTypeOK
<1>3. ASSUME NEW t \in Threads, Alloc(t) PROVE MpInv'
  <2>1. blockFree > 0 \/ blockFree = 0
    BY <1>3 DEF Alloc
  <2> QED
    BY <1>3, <2>1, MpBlockTaken, MpBlockMissed
<1>4. ASSUME NEW t \in Threads, MpDetachRound(t) PROVE MpInv'
  <2>1. /\ ResumeNext("pool") /\ mpPc[t] = "pop" /\ UNCHANGED mpTime
        /\ UNCHANGED <<blockFree, blockList, blockUsed, poolAlive>>
        /\ mpPc' = [mpPc EXCEPT ![t] = AfterRound("pool", "detach")]
    BY <1>4 DEF MpDetachRound
  <2>2. /\ mpPc \in [Threads -> MpLabels] /\ mpPc' \in [Threads -> MpLabels]
        /\ \A u \in Threads : u # t => mpPc'[u] = mpPc[u]
    BY <2>1 DEF AfterRound, MpInv, MpTypeOK, MpLabels
  <2>3. stat[t] # "SUSPEND" /\ mpPc'[t] \in {"detach", "wild"}
    BY <2>1, <2>2 DEF MpInv, MpWaiting, AfterRound
  <2>4. /\ IpcTypeOK' /\ SuspendedIsLinked'
        /\ queue["pool"] = <<>> => UNCHANGED ipcVars
        /\ queue["pool"] # <<>> =>
              /\ Head(queue["pool"]) \in Threads /\ stat[Head(queue["pool"])] = "SUSPEND"
              /\ error' = [error EXCEPT ![Head(queue["pool"])] = "ERROR"]
              /\ stat' = [stat EXCEPT ![Head(queue["pool"])] = "RUN"]
        /\ \A k \in Lists : ToSet(queue'[k]) \subseteq ToSet(queue[k])
    BY <1>1, <2>1, ResumeNextUnlinks
  <2>5. \A u \in Threads :
              \/ stat'[u] = stat[u] /\ error'[u] = error[u]
              \/ stat[u] = "SUSPEND" /\ stat'[u] = "RUN" /\ error'[u] # "EOK"
    BY <1>2, <2>4 DEF ipcVars
  <2>6. \A u \in Threads :
           \/ mpPc'[u] = mpPc[u]
           \/ stat[u] # "SUSPEND" /\ mpPc[u] = "pop" /\ mpPc'[u] \in {"detach", "wild"}
    BY <2>1, <2>2, <2>3
  <2> QED
    BY <1>1, <2>1, <2>2, <2>4, <2>5, <2>6, MpThreadLeaves
<1>5. ASSUME NEW t \in Threads, NEW c \in Cpus, TimerExpires(c, t) \/ ThreadTimeout(c, t),
             UNCHANGED poolVars
      PROVE  MpInv'
  <2>1. /\ IpcTypeOK' /\ SuspendedIsLinked'
        /\ \/ UNCHANGED <<stat, error, queue>>
           \/ /\ stat[t] = "SUSPEND" /\ stat' = [stat EXCEPT ![t] = "RUN"]
              /\ error' = [error EXCEPT ![t] = "ETIMEOUT"]
              /\ \A k \in Lists : ToSet(queue'[k]) = ToSet(queue[k]) \ {t}
    BY <1>1, <1>5, TimeoutUnlinks
  <2>2. ToSet(queue'["pool"]) \subseteq ToSet(queue["pool"])
    BY <1>1, <2>1
  <2>3. \A u \in Threads :
              \/ stat'[u] = stat[u] /\ error'[u] = error[u]
              \/ stat[u] = "SUSPEND" /\ stat'[u] = "RUN" /\ error'[u] # "EOK"
    BY <1>2, <2>1
  <2>4. mpPc \in [Threads -> MpLabels]
    BY DEF MpInv, MpTypeOK
  <2> QED
    BY <1>5, <2>1, <2>2, <2>3, <2>4, MpThreadLeaves DEF poolVars
<1>6. CASE UNCHANGED mpVars
  <2>1. /\ UNCHANGED <<stat, error, timer, queue, irqoff, expired>>
        /\ UNCHANGED <<blockFree, blockList, blockUsed, poolAlive, mpPc, mpTime>>
    BY <1>6 DEF mpVars, ipcVars, poolVars
  <2>2. IpcTypeOK' /\ SuspendedIsLinked'
    BY <1>1, <2>1 DEF IpcTypeOK, SuspendedIsLinked
  <2>3. ToSet(queue'["pool"]) \subseteq ToSet(queue["pool"]) /\ mpPc \in [Threads -> MpLabels]
    BY <2>1 DEF MpInv, MpTypeOK
  <2> QED
    BY <2>1, <2>2, <2>3, MpThreadLeaves
<1>7. CASE MpNext
  <2>1. PICK t \in Threads :
            \/ \E time \in WaitsOf(t) : AllocCall(t, time)
            \/ \E b \in Blocks : MpFree(t, b)
            \/ Alloc(t) \/ AllocWoken(t)
            \/ t \in Detachers /\ MpDetachCall(t)
            \/ MpDetachTest(t) \/ MpDetachRound(t) \/ MpDetachObject(t)
            \/ \E c \in Cpus : (TimerExpires(c, t) \/ ThreadTimeout(c, t)) /\ UNCHANGED poolVars
    BY <1>7 DEF MpNext
  <2>2. CASE \/ \E time \in WaitsOf(t) : AllocCall(t, time)
             \/ AllocWoken(t) \/ MpDetachCall(t) \/ MpDetachTest(t) \/ MpDetachObject(t)
    BY <2>2, MpCallMoves
  <2>3. CASE \E b \in Blocks : MpFree(t, b)
    BY <2>3, MpBlockFreed
  <2>4. CASE Alloc(t) \/ MpDetachRound(t)
    BY <1>3, <1>4, <2>4
  <2>5. CASE \E c \in Cpus : (TimerExpires(c, t) \/ ThreadTimeout(c, t)) /\ UNCHANGED poolVars
    BY <1>5, <2>5
  <2> QED
    BY <2>1, <2>2, <2>3, <2>4, <2>5
<1> QED
  BY <1>6, <1>7

\* block_free_count stays between zero and the number of blocks, and the rest of the
\* pool and its threads has its type.
THEOREM MpTypes == MpSpec => []MpTypeOK
<1>1. MpInv => MpTypeOK
  BY DEF MpInv
<1> QED
  BY MpInitial, MpStep, <1>1, PTL DEF MpSpec

\* rt_mp_alloc and rt_mp_free neither lose nor double a block, block_free_count counts
\* the list, and no thread sleeps in rt_mp_alloc for a block that is free unless a
\* thread that has been woken comes for it; for every set of blocks and threads.
THEOREM MpPoolServes == MpSpec => []PoolServes
<1>1. MpInv => PoolServes
  BY DEF MpInv, PoolServes
<1> QED
  BY MpInitial, MpStep, <1>1, PTL DEF MpSpec

-----------------------------------------------------------------------------
(***************************************************************************)
(* The completion (Completion): only one thread waits, and the history owed *)
(* is "yes" exactly while the flag is set.                                  *)
(***************************************************************************)

CmWaiting ==
    /\ \A t \in Threads : stat[t] = "SUSPEND" => cmPc[t] = "wait"
    /\ \A s, t \in Threads : cmPc[s] = "wait" /\ cmPc[t] = "wait" => s = t

CmFlagged == (flag <=> owed = "yes") /\ (queue["completion"] # <<>> => ~flag)

CmInv == IpcTypeOK /\ SuspendedIsLinked /\ CmTypeOK /\ CmWaiting /\ CmFlagged

LEMMA CmInitial == IpcInit /\ CmInit => CmInv
<1>. SUFFICES ASSUME IpcInit, CmInit PROVE CmInv
  OBVIOUS
<1>1. IpcTypeOK /\ SuspendedIsLinked
  BY IpcInitLinked
<1>2. CmTypeOK /\ CmWaiting /\ CmFlagged
  BY DEF CmInit, IpcInit, CmTypeOK, CmWaiting, CmFlagged
<1> QED
  BY <1>1, <1>2 DEF CmInv

\* Nobody waits yet when a thread starts to.
LEMMA CmWaitKeeps ==
    ASSUME CmInv, NEW t \in Threads, NEW time, CmWait(t, time)
    PROVE  CmInv'
<1>1. /\ cmPc[t] = "idle" /\ stat[t] = "RUN" /\ NobodyWaits /\ "completion" \in Lists
      /\ cmPc \in [Threads -> {"idle", "wait", "done"}] /\ IpcTypeOK /\ SuspendedIsLinked
  BY CompletionAssumption DEF CmWait, CmInv, CmTypeOK, CmWaiting, IpcTypeOK
<1>2. CASE flag
  <2>1. /\ UNCHANGED <<stat, error, timer, queue, irqoff, expired, cmPc>>
        /\ flag' = FALSE /\ owed' = "no"
    BY <1>2 DEF CmWait, ipcVars
  <2>2. IpcTypeOK' /\ SuspendedIsLinked'
    BY <1>1, <2>1 DEF IpcTypeOK, SuspendedIsLinked
  <2>3. CmTypeOK' /\ CmWaiting' /\ CmFlagged'
    BY <2>1 DEF CmInv, CmTypeOK, CmWaiting, CmFlagged
  <2> QED
    BY <2>2, <2>3 DEF CmInv
<1>3. CASE ~flag
  <2> DEFINE p == Place(Unlink(queue, t)["completion"], t, "FIFO", Prio)
             timed == time = "timed"
  <2>1. /\ error' = [error EXCEPT ![t] = "EOK"] /\ stat' = [stat EXCEPT ![t] = "SUSPEND"]
        /\ queue' = [Unlink(queue, t) EXCEPT !["completion"] = p]
        /\ timer' = [timer EXCEPT ![t] = timed] /\ timed \in BOOLEAN
        /\ UNCHANGED <<irqoff, expired, flag, owed>> /\ cmPc' = [cmPc EXCEPT ![t] = "wait"]
    BY <1>3 DEF CmWait, ListSuspend, CmGoes
  <2>2. p \in Seq(Threads) /\ ToSet(p) = ToSet(queue["completion"]) \cup {t} /\ IsInjective(p)
    BY <1>1, PlaceUnlinked
  <2> HIDE DEF p, timed
  <2>3. queue' \in [Lists -> Seq(Threads)] /\ SuspendedIsLinked'
    BY <1>1, <2>1, <2>2, ListSuspendLinks
  <2>4. IpcTypeOK'
    BY <1>1, <2>1, <2>3 DEF IpcTypeOK, Errors
  <2>5. CmTypeOK'
    BY <1>1, <2>1 DEF CmInv, CmTypeOK
  <2>6. CmWaiting'
    BY <1>1, <2>1 DEF CmInv, CmWaiting, NobodyWaits, IpcTypeOK
  <2>7. CmFlagged'
    BY <1>3, <2>1 DEF CmInv, CmFlagged
  <2> QED
    BY <2>3, <2>4, <2>5, <2>6, <2>7 DEF CmInv
<1> QED
  BY <1>2, <1>3

\* The steps that leave the list alone.
LEMMA CmMovesKeep ==
    ASSUME CmInv, NEW t \in Threads, CmWoken(t) \/ CmDoneTest(t)
    PROVE  CmInv'
<1>1. UNCHANGED <<stat, error, timer, queue, irqoff, expired>>
  BY DEF CmWoken, CmDoneTest, ipcVars
<1>2. IpcTypeOK' /\ SuspendedIsLinked'
  BY <1>1 DEF CmInv, IpcTypeOK, SuspendedIsLinked
<1>3. CASE CmWoken(t)
  <2>1. flag' = FALSE /\ owed' \in {"no", "erased"} /\ cmPc' = [cmPc EXCEPT ![t] = "idle"]
        /\ stat[t] = "RUN"
    BY <1>3 DEF CmWoken, Consume, CmGoes
  <2>2. CmTypeOK' /\ CmWaiting' /\ CmFlagged'
    BY <1>1, <2>1 DEF CmInv, CmTypeOK, CmWaiting, CmFlagged
  <2> QED
    BY <1>2, <2>2 DEF CmInv
<1>4. CASE CmDoneTest(t)
  <2>1. /\ cmPc[t] = "idle" /\ flag' = flag
        /\ IF flag THEN owed' = "yes" /\ cmPc' = cmPc
           ELSE cmPc' = [cmPc EXCEPT ![t] = "done"] /\ owed' = owed
    BY <1>4 DEF CmDoneTest, CmGoes
  <2>2. CmTypeOK' /\ CmWaiting' /\ CmFlagged'
    BY <1>1, <2>1 DEF CmInv, CmTypeOK, CmWaiting, CmFlagged
  <2> QED
    BY <1>2, <2>2 DEF CmInv
<1> QED
  BY <1>3, <1>4

\* The only thread of the list is resumed.
LEMMA CmDoneKeeps ==
    ASSUME CmInv, NEW t \in Threads, CmDone(t)
    PROVE  CmInv'
<1> DEFINE h == Head(queue["completion"])
<1>1. /\ cmPc[t] = "done" /\ flag' = TRUE /\ owed' = "yes"
      /\ cmPc' = [cmPc EXCEPT ![t] = "idle"] /\ ResumeFirst("completion")
      /\ "completion" \in Lists /\ IpcTypeOK /\ SuspendedIsLinked
  BY CompletionAssumption DEF CmDone, CmGoes, CmInv
<1>2. /\ IpcTypeOK' /\ SuspendedIsLinked'
      /\ queue["completion"] = <<>> => UNCHANGED <<stat, queue>>
      /\ queue["completion"] # <<>> =>
            /\ stat' = [stat EXCEPT ![h] = "RUN"]
            /\ \A k \in Lists : ToSet(queue'[k]) = ToSet(queue[k]) \ {h}
  BY <1>1, ResumeFirstUnlinks
<1>3. queue["completion"] # <<>> => h \in Threads /\ h \in ToSet(queue["completion"])
  BY <1>1, HeadSuspended
<1> HIDE DEF h
<1>4. CmTypeOK'
  BY <1>1 DEF CmInv, CmTypeOK
<1>5. CmWaiting'
  BY <1>1, <1>2 DEF CmInv, CmTypeOK, CmWaiting, IpcTypeOK
<1>6. queue'["completion"] = <<>>
  <2>1. CASE queue["completion"] = <<>>
    BY <1>2, <2>1
  <2>2. CASE queue["completion"] # <<>>
    <3>1. PICK s \in Seq(Threads) : s = queue["completion"]
      BY <1>1 DEF IpcTypeOK
    <3>2. PICK r \in Seq(Threads) : r = queue'["completion"]
      BY <1>1, <1>2 DEF IpcTypeOK
    <3>3. \A u \in ToSet(s) : u \in Threads
      BY LenProperties, ElementOfSeq DEF ToSet
    <3>4. ASSUME NEW u \in ToSet(s) PROVE u = h
      <4>1. u \in Threads /\ stat[u] = "SUSPEND" /\ stat[h] = "SUSPEND"
        BY <1>1, <1>3, <2>2, <3>1, <3>3 DEF SuspendedIsLinked
      <4> QED
        BY <1>3, <2>2, <4>1 DEF CmInv, CmWaiting
    <3>5. ToSet(r) = {}
      BY <1>1, <1>2, <2>2, <3>1, <3>2, <3>4
    <3> QED
      BY <3>2, <3>5, EmptyProperties
  <2> QED
    BY <2>1, <2>2
<1>7. CmFlagged'
  BY <1>1, <1>6 DEF CmFlagged
<1> QED
  BY <1>2, <1>4, <1>5, <1>7 DEF CmInv

LEMMA CmStep == CmInv /\ [CmNext]_<<ipcVars, cmVars>> => CmInv'
<1>. SUFFICES ASSUME CmInv, [CmNext]_<<ipcVars, cmVars>> PROVE CmInv'
  OBVIOUS
<1>1. /\ IpcTypeOK /\ SuspendedIsLinked /\ "completion" \in Lists
      /\ stat \in [Threads -> {"RUN", "SUSPEND"}]
  BY CompletionAssumption DEF CmInv, IpcTypeOK
<1>2. ASSUME NEW t \in Threads, NEW c \in Cpus, TimerExpires(c, t) \/ ThreadTimeout(c, t),
             UNCHANGED cmVars
      PROVE  CmInv'
  <2>1. /\ IpcTypeOK' /\ SuspendedIsLinked'
        /\ \/ UNCHANGED <<stat, error, queue>>
           \/ /\ stat[t] = "SUSPEND" /\ stat' = [stat EXCEPT ![t] = "RUN"]
              /\ error' = [error EXCEPT ![t] = "ETIMEOUT"]
              /\ \A k \in Lists : ToSet(queue'[k]) = ToSet(queue[k]) \ {t}
    BY <1>1, <1>2, TimeoutUnlinks
  <2>2. ToSet(queue'["completion"]) \subseteq ToSet(queue["completion"])
    BY <1>1, <2>1
  <2>3. queue'["completion"] # <<>> => queue["completion"] # <<>>
    BY <1>1, <2>1, <2>2, MqStaysEmpty
  <2>4. \A u \in Threads : stat'[u] = "SUSPEND" => stat[u] = "SUSPEND"
    BY <1>1, <2>1
  <2>5. CmTypeOK' /\ CmWaiting' /\ CmFlagged'
    BY <1>2, <2>3, <2>4 DEF CmInv, CmTypeOK, CmWaiting, CmFlagged, cmVars
  <2> QED
    BY <2>1, <2>5 DEF CmInv
<1>3. CASE UNCHANGED <<ipcVars, cmVars>>
  <2>1. /\ UNCHANGED <<stat, error, timer, queue, irqoff, expired>>
        /\ UNCHANGED <<flag, cmPc, owed>>
    BY <1>3 DEF ipcVars, cmVars
  <2> QED
    BY <2>1 DEF CmInv, IpcTypeOK, SuspendedIsLinked, CmTypeOK, CmWaiting, CmFlagged
<1>4. CASE CmNext
  BY <1>2, <1>4, CmWaitKeeps, CmMovesKeep, CmDoneKeeps DEF CmNext
<1> QED
  BY <1>3, <1>4

\* rt_completion_wait and rt_completion_done, for every set of threads and handlers:
\* nobody sleeps for a completion that has been reported and not erased, and none is
\* left over for the next wait.
THEOREM CmCompletionServed == CmSpec => []CompletionServed
<1>1. CmInv => CompletionServed
  BY DEF CmInv, CmFlagged, CompletionServed
<1> QED
  BY CmInitial, CmStep, <1>1, PTL DEF CmSpec

\* The flag, the list and the threads of a completion stay within their types.
THEOREM CmTypes == CmSpec => []CmTypeOK
<1>1. CmInv => CmTypeOK
  BY DEF CmInv
<1> QED
  BY CmInitial, CmStep, <1>1, PTL DEF CmSpec

-----------------------------------------------------------------------------
(***************************************************************************)
(* The data queue (DataQueue), for every size and low water mark: first the *)
(* ring, then the threads and their lists, then who waits for what.         *)
(***************************************************************************)

\* An index that is advanced by no more than the size of the ring.
Slot(i) == IF i < DqSize THEN i ELSE i - DqSize

LEMMA SlotIsModulo ==
    ASSUME NEW i \in 0..2*DqSize - 1 PROVE i % DqSize = Slot(i)
  BY DqAssumption DEF Slot

\* RingAgrees, with what Store and TakeOut rely on.
DqRing ==
    /\ DqLen(putIndex, getIndex, isEmpty) = Len(dqStored)
    /\ isEmpty => putIndex = getIndex
    /\ isEmpty <=> Len(dqStored) = 0
    /\ isFull <=> Len(dqStored) = DqSize
    /\ \A i \in 1..Len(dqStored) : dqItems[Slot(getIndex + i - 1)] = dqStored[i]

LEMMA DqStoredBounded ==
    ASSUME DqTypeOK, DqRing
    PROVE  /\ Len(dqStored) \in 0..DqSize
           /\ putIndex = Slot(getIndex + Len(dqStored))
<1> USE DqAssumption
<1>1. putIndex \in 0..DqSize - 1 /\ getIndex \in 0..DqSize - 1 /\ isEmpty \in BOOLEAN
  BY DEF DqTypeOK
<1>2. CASE isEmpty
  BY <1>1, <1>2 DEF DqRing, Slot
<1>3. CASE ~isEmpty
  <2>1. Len(dqStored) = IF putIndex > getIndex THEN putIndex - getIndex
                        ELSE DqSize + putIndex - getIndex
    BY <1>3 DEF DqRing, DqLen
  <2> QED
    BY <1>1, <2>1 DEF Slot
<1> QED
  BY <1>2, <1>3

LEMMA DqRingAgrees == ASSUME DqTypeOK, DqRing PROVE RingAgrees
<1>1. Len(dqStored) \in 0..DqSize /\ getIndex \in 0..DqSize - 1 /\ dqStored \in Seq(Items)
  BY DqStoredBounded DEF DqTypeOK
<1>2. isEmpty <=> dqStored = <<>>
  BY <1>1, EmptySeq DEF DqRing
<1>3. ASSUME NEW i \in 1..Len(dqStored)
      PROVE  dqItems[(getIndex + i - 1) % DqSize] = dqStored[i]
  <2>1. getIndex + i - 1 \in 0..2*DqSize - 1
    BY <1>1, DqAssumption
  <2>2. (getIndex + i - 1) % DqSize = Slot(getIndex + i - 1)
    BY <2>1, SlotIsModulo
  <2> QED
    BY <2>2 DEF DqRing
<1> QED
  BY <1>2, <1>3 DEF RingAgrees, DqRing

\* The place behind the last item is free.
LEMMA StoreKeepsRing ==
    ASSUME DqTypeOK, DqRing, NEW item \in Items, ~isFull, Store(item)
    PROVE  /\ DqRing' /\ Len(dqStored') = Len(dqStored) + 1
           /\ dqItems' \in [0..DqSize - 1 -> Items \cup {NoItem}]
           /\ putIndex' \in 0..DqSize - 1 /\ getIndex' \in 0..DqSize - 1
           /\ isEmpty' \in BOOLEAN /\ isFull' \in BOOLEAN /\ dqStored' \in Seq(Items)
<1> USE DqAssumption
<1>1. /\ putIndex \in 0..DqSize - 1 /\ getIndex \in 0..DqSize - 1
      /\ isEmpty \in BOOLEAN /\ isFull \in BOOLEAN /\ dqStored \in Seq(Items)
      /\ dqItems \in [0..DqSize - 1 -> Items \cup {NoItem}]
  BY DEF DqTypeOK
<1>2. /\ dqItems' = [dqItems EXCEPT ![putIndex] = item]
      /\ putIndex' = Advance(putIndex) /\ getIndex' = getIndex /\ isEmpty' = FALSE
      /\ isFull' = IF putIndex' = getIndex THEN TRUE ELSE isFull
      /\ dqStored' = Append(dqStored, item)
  BY DEF Store
<1> DEFINE n == Len(dqStored)
<1>3. n \in 0..DqSize /\ n # DqSize /\ putIndex = Slot(getIndex + n)
  BY DqStoredBounded DEF DqRing
<1>4. /\ dqStored' \in Seq(Items) /\ Len(dqStored') = n + 1 /\ dqStored'[n + 1] = item
      /\ \A i \in 1..n : dqStored'[i] = dqStored[i]
  BY <1>1, <1>2, AppendProperties
<1>5. \A i \in 1..n : dqItems[Slot(getIndex + i - 1)] = dqStored[i]
  BY DEF DqRing
<1> HIDE DEF n
<1>6. putIndex' \in 0..DqSize - 1
  BY <1>1, <1>2 DEF Advance
<1>7. dqItems' \in [0..DqSize - 1 -> Items \cup {NoItem}]
  BY <1>1, <1>2
<1>8. isEmpty' \in BOOLEAN /\ isFull' \in BOOLEAN
  BY <1>1, <1>2
<1>9. DqLen(putIndex', getIndex', isEmpty') = n + 1
  BY <1>1, <1>2, <1>3 DEF DqLen, Advance, Slot
<1>10. isFull' <=> n + 1 = DqSize
  BY <1>1, <1>2, <1>3 DEF Advance, Slot
<1>11. ASSUME NEW i \in 1..n + 1 PROVE dqItems'[Slot(getIndex' + i - 1)] = dqStored'[i]
  <2>1. CASE i = n + 1
    BY <1>1, <1>2, <1>3, <1>4, <2>1
  <2>2. CASE i \in 1..n
    <3>1. Slot(getIndex + i - 1) \in 0..DqSize - 1 /\ Slot(getIndex + i - 1) # putIndex
      BY <1>1, <1>3, <2>2 DEF Slot
    <3>2. dqItems'[Slot(getIndex + i - 1)] = dqItems[Slot(getIndex + i - 1)]
      BY <1>1, <1>2, <3>1
    <3> QED
      BY <1>2, <1>4, <1>5, <2>2, <3>2
  <2> QED
    BY <1>3, <2>1, <2>2
<1>12. DqRing'
  BY <1>2, <1>3, <1>4, <1>9, <1>10, <1>11 DEF DqRing
<1> QED
  BY <1>1, <1>2, <1>4, <1>6, <1>7, <1>8, <1>12 DEF n

LEMMA TakeOutKeepsRing ==
    ASSUME DqTypeOK, DqRing, ~isEmpty, TakeOut
    PROVE  /\ DqRing' /\ Len(dqStored') = Len(dqStored) - 1 /\ dqItems' = dqItems
           /\ DqLen(putIndex, getIndex', isEmpty') = Len(dqStored')
           /\ putIndex' \in 0..DqSize - 1 /\ getIndex' \in 0..DqSize - 1
           /\ isEmpty' \in BOOLEAN /\ isFull' \in BOOLEAN /\ dqStored' \in Seq(Items)
<1> USE DqAssumption
<1>1. /\ putIndex \in 0..DqSize - 1 /\ getIndex \in 0..DqSize - 1
      /\ isEmpty \in BOOLEAN /\ isFull \in BOOLEAN /\ dqStored \in Seq(Items)
  BY DEF DqTypeOK
<1>2. /\ getIndex' = Advance(getIndex) /\ isFull' = FALSE
      /\ isEmpty' = IF putIndex = getIndex' THEN TRUE ELSE isEmpty
      /\ dqStored' = Tail(dqStored) /\ dqItems' = dqItems /\ putIndex' = putIndex
  BY DEF TakeOut
<1> DEFINE n == Len(dqStored)
<1>3. n \in 1..DqSize /\ putIndex = Slot(getIndex + n) /\ dqStored # <<>>
  BY <1>1, EmptySeq, DqStoredBounded DEF DqRing
<1>4. /\ dqStored' \in Seq(Items) /\ Len(dqStored') = n - 1
      /\ \A i \in 1..n - 1 : dqStored'[i] = dqStored[i + 1]
  BY <1>1, <1>2, <1>3, HeadTailProperties
<1>5. \A i \in 1..n : dqItems[Slot(getIndex + i - 1)] = dqStored[i]
  BY DEF DqRing
<1> HIDE DEF n
<1>6. getIndex' \in 0..DqSize - 1
  BY <1>1, <1>2 DEF Advance
<1>7. isEmpty' \in BOOLEAN /\ isFull' \in BOOLEAN
  BY <1>1, <1>2
<1>8. isEmpty' <=> n - 1 = 0
  BY <1>1, <1>2, <1>3 DEF Advance, Slot
<1>9. DqLen(putIndex, getIndex', isEmpty') = n - 1
  BY <1>1, <1>2, <1>3, <1>8 DEF DqLen, Advance, Slot
<1>10. ASSUME NEW i \in 1..n - 1 PROVE dqItems'[Slot(getIndex' + i - 1)] = dqStored'[i]
  <2>1. i + 1 \in 1..n /\ Slot(getIndex' + i - 1) = Slot(getIndex + (i + 1) - 1)
    BY <1>1, <1>2, <1>3 DEF Slot, Advance
  <2> QED
    BY <1>2, <1>4, <1>5, <2>1
<1>a. (isFull' <=> n - 1 = DqSize) /\ (isEmpty' => putIndex' = getIndex')
  BY <1>1, <1>2, <1>3
<1>b. /\ DqLen(putIndex', getIndex', isEmpty') = Len(dqStored')
      /\ isEmpty' <=> Len(dqStored') = 0
      /\ isFull' <=> Len(dqStored') = DqSize
      /\ \A i \in 1..Len(dqStored') : dqItems'[Slot(getIndex' + i - 1)] = dqStored'[i]
  BY <1>2, <1>4, <1>8, <1>9, <1>10, <1>a
<1>11. DqRing'
  BY <1>a, <1>b DEF DqRing
<1> QED
  BY <1>1, <1>2, <1>4, <1>6, <1>7, <1>9, <1>11 DEF n

\* Who waits, and where; a push that waits has its item.
DqWaiting ==
    /\ \A t \in Threads :
          stat[t] = "SUSPEND" => error[t] = "EOK" /\ dqPc[t] \in {"push", "pop"}
    /\ \A l \in {"push", "pop"} : \A t \in ToSet(queue[l]) : dqPc[t] = l

DqCalling ==
    /\ dqAlive \in BOOLEAN
    /\ dqPc \in [Threads -> DqLabels]
    /\ dqTime \in [Threads -> {"no", "timed", "forever", "reset", "deinit"}]
    /\ dqItem \in [Threads -> Items \cup {NoItem}]
    /\ \A t \in Threads : dqPc[t] = "push" => dqItem[t] \in Items

\* Those counted by DqComing.
DqLook(where) == {t \in Threads : dqPc[t] = where /\ stat[t] = "RUN" /\ error[t] = "EOK"}

DqThreads == IpcTypeOK /\ SuspendedIsLinked /\ DqWaiting /\ DqCalling

DqInv == DqThreads /\ DqTypeOK /\ DqRing /\ NoItemInVain

LEMMA DqLists ==
    /\ "push" \in Lists /\ "pop" \in Lists
    /\ \A where : DqLook(where) \in SUBSET Threads /\ DqLook(where)' \in SUBSET Threads
    /\ \A where : DqComing(where) = Cardinality(DqLook(where))
    /\ \A where : DqComing(where)' = Cardinality(DqLook(where)')
  BY DqAssumption DEF DqLook, DqComing

LEMMA DqInitial == IpcInit /\ DqInit => DqInv
<1>. SUFFICES ASSUME IpcInit, DqInit PROVE DqInv
  OBVIOUS
<1>1. IpcTypeOK /\ SuspendedIsLinked
  BY IpcInitLinked
<1>2. DqSize \in Nat \ {0} /\ "push" \in Lists /\ "pop" \in Lists
  BY DqAssumption
<1>3. ToSet(<<>>) = {} /\ <<>> \in Seq(Items) /\ Len(<<>>) = 0
  BY DEF ToSet
<1>4. DqTypeOK /\ DqCalling
  <2>1. dqItems \in [0..DqSize - 1 -> Items \cup {NoItem}]
    BY DEF DqInit
  <2>2. putIndex \in 0..DqSize - 1 /\ getIndex \in 0..DqSize - 1
    BY <1>2 DEF DqInit
  <2>3. /\ dqPc \in [Threads -> DqLabels]
        /\ dqTime \in [Threads -> {"no", "timed", "forever", "reset", "deinit"}]
        /\ dqItem \in [Threads -> Items \cup {NoItem}]
        /\ \A t \in Threads : dqPc[t] = "push" => dqItem[t] \in Items
    BY DEF DqInit, DqLabels
  <2>4. isEmpty \in BOOLEAN /\ isFull \in BOOLEAN /\ dqAlive \in BOOLEAN
    BY DEF DqInit
  <2>5. dqStored \in Seq(Items)
    BY <1>3 DEF DqInit
  <2> QED
    BY <2>1, <2>2, <2>3, <2>4, <2>5 DEF DqTypeOK, DqCalling
<1>5. DqRing
  BY <1>2, <1>3 DEF DqInit, DqRing, DqLen
<1>6. DqWaiting /\ NoItemInVain
  BY <1>2, <1>3 DEF IpcInit, DqWaiting, NoItemInVain
<1> QED
  BY <1>1, <1>4, <1>5, <1>6 DEF DqInv, DqThreads

\* A step of t that changes no list,
LEMMA DqOneMoves ==
    ASSUME DqThreads, NEW t \in Threads, stat[t] = "RUN", UNCHANGED ipcVars, DqCalling',
           \A u \in Threads \ {t} : dqPc'[u] = dqPc[u]
    PROVE  /\ DqThreads' /\ queue' = queue
           /\ \A where : DqLook(where) \ {t} \subseteq DqLook(where)'
           /\ \A where : dqPc[t] # where => DqLook(where) \subseteq DqLook(where)'
<1>1. UNCHANGED <<stat, error, timer, queue, irqoff, expired>>
  BY DEF ipcVars
<1>2. IpcTypeOK' /\ SuspendedIsLinked'
  BY <1>1 DEF DqThreads, IpcTypeOK, SuspendedIsLinked
<1>3. ASSUME NEW l \in {"push", "pop"}, NEW u \in ToSet(queue[l])
      PROVE  u \in Threads \ {t}
  <2>1. l \in Lists
    BY DqLists
  <2>2. queue[l] \in Seq(Threads)
    BY <2>1 DEF DqThreads, IpcTypeOK
  <2>3. u \in Threads
    BY <2>2, LenProperties, ElementOfSeq DEF ToSet
  <2> QED
    BY <2>1, <2>3 DEF DqThreads, SuspendedIsLinked
<1>4. DqWaiting'
  BY <1>1, <1>3 DEF DqThreads, DqWaiting
<1> QED
  BY <1>1, <1>2, <1>4 DEF DqThreads, DqLook

\* one by which t starts to wait,
LEMMA DqOneWaits ==
    ASSUME DqThreads, NEW t \in Threads, stat[t] = "RUN", NEW l \in {"push", "pop"}, NEW time,
           SuspendLast(t, l, time), DqCalling', dqPc' = [dqPc EXCEPT ![t] = l]
    PROVE  /\ DqThreads'
           /\ \A k \in {"push", "pop"} : k # l /\ queue'[k] # <<>> => queue[k] # <<>>
           /\ \A where : DqLook(where) \ {t} \subseteq DqLook(where)'
<1> DEFINE p == Place(Unlink(queue, t)[l], t, "FIFO", Prio)
           timed == time = "timed"
<1>1. /\ IpcTypeOK /\ SuspendedIsLinked /\ l \in Lists
      /\ dqPc \in [Threads -> DqLabels]
      /\ stat \in [Threads -> {"RUN", "SUSPEND"}] /\ error \in [Threads -> Errors]
  BY DqLists DEF DqThreads, DqCalling, IpcTypeOK
<1>2. /\ error' = [error EXCEPT ![t] = "EOK"] /\ stat' = [stat EXCEPT ![t] = "SUSPEND"]
      /\ queue' = [Unlink(queue, t) EXCEPT ![l] = p]
      /\ timer' = [timer EXCEPT ![t] = timed] /\ timed \in BOOLEAN
      /\ UNCHANGED <<irqoff, expired>>
  BY DEF SuspendLast, ListSuspend
<1>3. p \in Seq(Threads) /\ ToSet(p) = ToSet(queue[l]) \cup {t} /\ IsInjective(p)
  BY <1>1, PlaceUnlinked
<1> HIDE DEF p, timed
<1>4. /\ queue' \in [Lists -> Seq(Threads)] /\ SuspendedIsLinked'
      /\ \A k \in Lists : ToSet(queue'[k]) = IF k = l THEN ToSet(queue[k]) \cup {t}
                                             ELSE ToSet(queue[k])
  BY <1>1, <1>2, <1>3, ListSuspendLinks
<1>5. IpcTypeOK'
  BY <1>1, <1>2, <1>4 DEF IpcTypeOK, Errors
<1>6. DqWaiting'
  <2>1. \A u \in Threads :
            stat'[u] = "SUSPEND" => error'[u] = "EOK" /\ dqPc'[u] \in {"push", "pop"}
    BY <1>1, <1>2 DEF DqThreads, DqWaiting
  <2>2. ASSUME NEW k \in {"push", "pop"}, NEW u \in ToSet(queue'[k])
        PROVE  dqPc'[u] = k
    <3>1. k \in Lists
      BY DqLists
    <3>2. CASE u \in ToSet(queue[k])
      <4>1. queue[k] \in Seq(Threads)
        BY <3>1 DEF DqThreads, IpcTypeOK
      <4>2. u \in Threads
        BY <3>2, <4>1, LenProperties, ElementOfSeq DEF ToSet
      <4>3. u # t /\ dqPc[u] = k
        BY <3>1, <3>2, <4>2 DEF DqThreads, DqWaiting, SuspendedIsLinked
      <4> QED
        BY <1>1, <4>2, <4>3
    <3>3. CASE u \notin ToSet(queue[k])
      BY <1>1, <1>4, <2>2, <3>1, <3>3
    <3> QED
      BY <3>2, <3>3
  <2> QED
    BY <2>1, <2>2 DEF DqWaiting
<1>7. ASSUME NEW k \in {"push", "pop"}, k # l, queue'[k] # <<>>
      PROVE  queue[k] # <<>>
  <2>1. k \in Lists
    BY DqLists
  <2> QED
    BY <1>1, <1>4, <1>5, <1>7, <2>1, MqStaysEmpty
<1>8. \A where : DqLook(where) \ {t} \subseteq DqLook(where)'
  BY <1>1, <1>2 DEF DqLook
<1> QED
  BY <1>4, <1>5, <1>6, <1>7, <1>8 DEF DqThreads

\* and one by which the first thread of a list is resumed, if there is one.
LEMMA DqOneWakes ==
    ASSUME DqThreads, NEW t \in Threads, stat[t] = "RUN", NEW l \in {"push", "pop"},
           ResumeFirst(l), DqCalling', \A u \in Threads \ {t} : dqPc'[u] = dqPc[u]
    PROVE  /\ DqThreads'
           /\ \A k \in {"push", "pop"} : queue'[k] # <<>> => queue[k] # <<>>
           /\ \A where : DqLook(where) \ {t} \subseteq DqLook(where)'
           /\ queue[l] # <<>> =>
                 \E h \in Threads \ {t} : /\ h \notin DqLook(l)
                                          /\ (DqLook(l) \ {t}) \cup {h} \subseteq DqLook(l)'
<1> DEFINE h == Head(queue[l])
<1>1. /\ IpcTypeOK /\ SuspendedIsLinked /\ l \in Lists
      /\ dqPc \in [Threads -> DqLabels]
      /\ stat \in [Threads -> {"RUN", "SUSPEND"}] /\ error \in [Threads -> Errors]
  BY DqLists DEF DqThreads, DqCalling, IpcTypeOK
<1>2. /\ IpcTypeOK' /\ SuspendedIsLinked'
      /\ error' = error
      /\ queue[l] = <<>> => UNCHANGED <<stat, queue>>
      /\ queue[l] # <<>> =>
            /\ stat' = [stat EXCEPT ![h] = "RUN"]
            /\ \A k \in Lists : ToSet(queue'[k]) = ToSet(queue[k]) \ {h}
  BY <1>1, ResumeFirstUnlinks
<1>3. queue[l] # <<>> => h \in Threads /\ h \in ToSet(queue[l]) /\ stat[h] = "SUSPEND"
  BY <1>1, HeadSuspended
<1> HIDE DEF h
<1>4. \A k \in Lists : ToSet(queue'[k]) \subseteq ToSet(queue[k])
  BY <1>2
<1>5. ASSUME NEW k \in {"push", "pop"}, queue'[k] # <<>>
      PROVE  queue[k] # <<>>
  <2>1. k \in Lists
    BY DqLists
  <2> QED
    BY <1>1, <1>2, <1>4, <1>5, <2>1, MqStaysEmpty
<1>6. ASSUME NEW u \in Threads, stat'[u] = "SUSPEND"
      PROVE  stat[u] = "SUSPEND" /\ u # t
  BY <1>1, <1>2, <1>3, <1>6
<1>7. DqWaiting'
  <2>1. \A u \in Threads :
            stat'[u] = "SUSPEND" => error'[u] = "EOK" /\ dqPc'[u] \in {"push", "pop"}
    BY <1>2, <1>6 DEF DqThreads, DqWaiting
  <2>2. ASSUME NEW k \in {"push", "pop"}, NEW u \in ToSet(queue'[k])
        PROVE  dqPc'[u] = k
    <3>1. k \in Lists /\ u \in ToSet(queue[k])
      BY <1>4, DqLists
    <3>2. queue[k] \in Seq(Threads)
      BY <3>1 DEF DqThreads, IpcTypeOK
    <3>3. u \in Threads
      BY <3>1, <3>2, LenProperties, ElementOfSeq DEF ToSet
    <3>4. u # t /\ dqPc[u] = k
      BY <3>1, <3>3 DEF DqThreads, DqWaiting, SuspendedIsLinked
    <3> QED
      BY <3>3, <3>4
  <2> QED
    BY <2>1, <2>2 DEF DqWaiting
<1>8. \A where : DqLook(where) \ {t} \subseteq DqLook(where)'
  BY <1>1, <1>2, <1>3 DEF DqLook
<1>9. ASSUME queue[l] # <<>>
      PROVE  /\ h \in Threads \ {t} /\ h \notin DqLook(l)
             /\ (DqLook(l) \ {t}) \cup {h} \subseteq DqLook(l)'
  <2>1. h \in Threads \ {t} /\ stat[h] = "SUSPEND" /\ dqPc[h] = l /\ error[h] = "EOK"
    BY <1>3, <1>9 DEF DqThreads, DqWaiting
  <2>2. h \notin DqLook(l)
    BY <2>1 DEF DqLook
  <2>3. h \in DqLook(l)'
    BY <1>1, <1>2, <1>9, <2>1 DEF DqLook
  <2> QED
    BY <1>8, <2>1, <2>2, <2>3
<1> QED
  BY <1>2, <1>5, <1>7, <1>8, <1>9 DEF DqThreads

\* An item or an awake push less, but not both.
LEMMA DqPushServed ==
    ASSUME NEW A \in SUBSET Threads, NEW B \in SUBSET Threads, NEW m \in Nat, NEW n \in Nat,
           m + Cardinality(A) > Lwm, NEW t \in Threads,
           \/ n >= m /\ A \subseteq B
           \/ n >= m + 1 /\ A \ {t} \subseteq B
           \/ n + 1 >= m /\ A \cup {t} \subseteq B /\ t \notin A
    PROVE  n + Cardinality(B) > Lwm
<1>1. /\ Cardinality(A) \in Nat /\ Cardinality(B) \in Nat
      /\ A \subseteq B => Cardinality(A) <= Cardinality(B)
      /\ A \ {t} \subseteq B => Cardinality(A) <= Cardinality(B) + 1
      /\ A \cup {t} \subseteq B /\ t \notin A => Cardinality(A) + 1 <= Cardinality(B)
  BY MqLookingCounts
<1>2. Lwm \in Nat
  BY DqAssumption
<1> QED
  BY <1>1, <1>2

\* NoItemInVain, in its two halves.
PopServed == queue["pop"] # <<>> => Len(dqStored) <= Cardinality(DqLook("pop"))
PushServed ==
    queue["push"] # <<>> /\ ~Resetting => Len(dqStored) + Cardinality(DqLook("push")) > Lwm

LEMMA DqServedHalves ==
    /\ NoItemInVain <=> PopServed /\ PushServed
    /\ NoItemInVain' <=> PopServed' /\ PushServed'
  BY DqLists DEF NoItemInVain, PopServed, PushServed

\* Nobody sleeps in vain if the ring is empty, or full.
LEMMA DqEdgesServed ==
    /\ Len(dqStored') = 0 => PopServed'
    /\ Len(dqStored') = DqSize => PushServed'
<1>1. /\ Cardinality(DqLook("pop")') \in Nat /\ Cardinality(DqLook("push")') \in Nat
      /\ DqSize \in Nat /\ Lwm \in Nat /\ Lwm < DqSize
  BY DqLists, WaitAssumption, FS_Subset, FS_CardinalityType, DqAssumption
<1> QED
  BY <1>1 DEF PopServed, PushServed

LEMMA DqPushKeeps ==
    ASSUME DqInv, NEW t \in Threads, NEW item \in Items,
           NEW time \in {"no", "timed", "forever", "reset", "deinit"},
           stat[t] = "RUN", dqPc[t] \in {"idle", "push"}, PushSection(t, item, time),
           UNCHANGED dqAlive
    PROVE  DqInv'
<1>1. /\ DqThreads /\ DqTypeOK /\ DqRing /\ PopServed /\ PushServed
      /\ dqPc \in [Threads -> DqLabels]
      /\ Len(dqStored) \in Nat
  BY DqServedHalves, LenProperties DEF DqInv, DqThreads, DqCalling, DqTypeOK
<1>2. t \notin DqLook("pop")
  BY DEF DqLook
<1>3. \A u \in Threads \ {t} : dqPc'[u] = dqPc[u]
  BY <1>1 DEF PushSection, DqReturns, DqCalls
<1>4. DqCalling'
  BY DEF DqInv, DqThreads, DqCalling, PushSection, DqReturns, DqCalls, DqLabels
<1>5. Resetting <=> Resetting'
  <2>1. dqPc'[t] \in {"idle", "push"}
    BY <1>1 DEF PushSection, DqReturns, DqCalls
  <2>2. \A u \in Threads : dqPc[u] \in {"reset"} \cup ResetCritical
                              <=> dqPc'[u] \in {"reset"} \cup ResetCritical
    BY <1>3, <2>1 DEF ResetCritical
  <2> QED
    BY <2>2 DEF Resetting
<1>6. CASE ~isFull /\ Store(item) /\ ResumeFirst("pop")
  <2>1. /\ DqRing' /\ Len(dqStored') = Len(dqStored) + 1 /\ DqTypeOK'
    BY <1>1, <1>4, <1>6, StoreKeepsRing DEF DqTypeOK, DqCalling
  <2>2. /\ DqThreads'
        /\ \A k \in {"push", "pop"} : queue'[k] # <<>> => queue[k] # <<>>
        /\ \A where : DqLook(where) \ {t} \subseteq DqLook(where)'
        /\ queue["pop"] # <<>> =>
              \E h \in Threads \ {t} : /\ h \notin DqLook("pop")
                                       /\ (DqLook("pop") \ {t}) \cup {h} \subseteq DqLook("pop")'
    BY <1>1, <1>3, <1>4, <1>6, DqOneWakes
  <2>3. PopServed'
    <3>. SUFFICES ASSUME queue'["pop"] # <<>>
                  PROVE  Len(dqStored') <= Cardinality(DqLook("pop")')
      BY DEF PopServed
    <3>1. Len(dqStored) <= Cardinality(DqLook("pop"))
      BY <1>1, <2>2 DEF PopServed
    <3>2. PICK h \in Threads : /\ h \notin DqLook("pop")
                               /\ DqLook("pop") \cup {h} \subseteq DqLook("pop")'
      BY <1>2, <2>2
    <3>3. Len(dqStored') \in Nat /\ Len(dqStored') <= Len(dqStored) + 1
      BY <1>1, <2>1
    <3> QED
      BY <1>1, <3>1, <3>2, <3>3, DqLists, MpStillServed
  <2>4. PushServed'
    <3>. SUFFICES ASSUME queue'["push"] # <<>>, ~Resetting'
                  PROVE  Len(dqStored') + Cardinality(DqLook("push")') > Lwm
      BY DEF PushServed
    <3>1. Len(dqStored) + Cardinality(DqLook("push")) > Lwm
      BY <1>1, <1>5, <2>2 DEF PushServed
    <3>2. Len(dqStored') \in Nat /\ Len(dqStored') >= Len(dqStored) + 1
      BY <1>1, <2>1
    <3> QED
      BY <1>1, <2>2, <3>1, <3>2, DqLists, DqPushServed
  <2> QED
    BY <2>1, <2>2, <2>3, <2>4, DqServedHalves DEF DqInv
<1>7. CASE isFull /\ UNCHANGED dqData /\ UNCHANGED ipcVars
  <2>1. DqRing' /\ DqTypeOK' /\ dqStored' = dqStored /\ Len(dqStored') = DqSize
    BY <1>1, <1>4, <1>7 DEF DqRing, DqTypeOK, DqCalling, dqData
  <2>2. DqThreads' /\ queue' = queue /\ DqLook("pop") \subseteq DqLook("pop")'
    BY <1>1, <1>3, <1>4, <1>7, DqOneMoves
  <2>3. PopServed'
    <3>. SUFFICES ASSUME queue'["pop"] # <<>>
                  PROVE  Len(dqStored') <= Cardinality(DqLook("pop")')
      BY DEF PopServed
    <3>1. Len(dqStored) <= Cardinality(DqLook("pop"))
      BY <1>1, <2>2 DEF PopServed
    <3>2. Len(dqStored') \in Nat /\ Len(dqStored') <= Len(dqStored)
      BY <1>1, <2>1
    <3> QED
      BY <1>1, <2>2, <3>1, <3>2, DqLists, MpStillServed
  <2>4. PushServed'
    BY <2>1, DqEdgesServed
  <2> QED
    BY <2>1, <2>2, <2>3, <2>4, DqServedHalves DEF DqInv
<1>8. CASE isFull /\ SuspendLast(t, "push", time) /\ DqCalls(t, "push", time, item)
           /\ UNCHANGED dqData
  <2>1. DqRing' /\ DqTypeOK' /\ dqStored' = dqStored /\ Len(dqStored') = DqSize
    BY <1>1, <1>4, <1>8 DEF DqRing, DqTypeOK, DqCalling, dqData
  <2>2. /\ DqThreads'
        /\ \A k \in {"push", "pop"} : k # "push" /\ queue'[k] # <<>> => queue[k] # <<>>
        /\ \A where : DqLook(where) \ {t} \subseteq DqLook(where)'
    BY <1>1, <1>4, <1>8, DqOneWaits DEF DqCalls
  <2>3. PopServed'
    <3>. SUFFICES ASSUME queue'["pop"] # <<>>
                  PROVE  Len(dqStored') <= Cardinality(DqLook("pop")')
      BY DEF PopServed
    <3>1. Len(dqStored) <= Cardinality(DqLook("pop"))
      BY <1>1, <2>2 DEF PopServed
    <3>2. Len(dqStored') \in Nat /\ Len(dqStored') <= Len(dqStored)
      BY <1>1, <2>1
    <3>3. DqLook("pop") \subseteq DqLook("pop")'
      BY <1>2, <2>2
    <3> QED
      BY <1>1, <3>1, <3>2, <3>3, DqLists, MpStillServed
  <2>4. PushServed'
    BY <2>1, DqEdgesServed
  <2> QED
    BY <2>1, <2>2, <2>3, <2>4, DqServedHalves DEF DqInv
<1> QED
  BY <1>6, <1>7, <1>8 DEF PushSection

LEMMA DqPopKeeps ==
    ASSUME DqInv, NEW t \in Threads, NEW time \in {"no", "timed", "forever", "reset", "deinit"},
           stat[t] = "RUN", dqPc[t] \in {"idle", "pop"}, PopSection(t, time),
           UNCHANGED dqAlive
    PROVE  DqInv'
<1>1. /\ DqThreads /\ DqTypeOK /\ DqRing /\ PopServed /\ PushServed
      /\ dqPc \in [Threads -> DqLabels]
      /\ Len(dqStored) \in Nat
  BY DqServedHalves, LenProperties DEF DqInv, DqThreads, DqCalling, DqTypeOK
<1>2. t \notin DqLook("push")
  BY DEF DqLook
<1>3. \A u \in Threads \ {t} : dqPc'[u] = dqPc[u]
  BY <1>1 DEF PopSection, DqReturns, DqCalls
<1>4. DqCalling'
  BY DEF DqInv, DqThreads, DqCalling, PopSection, DqReturns, DqCalls, DqLabels
<1>5. Resetting <=> Resetting'
  <2>1. dqPc'[t] \in {"idle", "pop"}
    BY <1>1 DEF PopSection, DqReturns, DqCalls
  <2>2. \A u \in Threads : dqPc[u] \in {"reset"} \cup ResetCritical
                              <=> dqPc'[u] \in {"reset"} \cup ResetCritical
    BY <1>3, <2>1 DEF ResetCritical
  <2> QED
    BY <2>2 DEF Resetting
<1>6. CASE ~isEmpty /\ TakeOut /\ ResumePush
  <2>1. /\ DqRing' /\ Len(dqStored') = Len(dqStored) - 1 /\ DqTypeOK'
        /\ DqLen(putIndex, getIndex', isEmpty') = Len(dqStored')
        /\ Len(dqStored') \in Nat
    BY <1>1, <1>4, <1>6, TakeOutKeepsRing, LenProperties DEF DqTypeOK, DqCalling
  <2>2. /\ DqThreads'
        /\ \A k \in {"push", "pop"} : queue'[k] # <<>> => queue[k] # <<>>
        /\ \A where : DqLook(where) \ {t} \subseteq DqLook(where)'
        /\ \/ Len(dqStored') > Lwm
           \/ queue["push"] = <<>>
           \/ \E h \in Threads \ {t} : /\ h \notin DqLook("push")
                                       /\ (DqLook("push") \ {t}) \cup {h} \subseteq DqLook("push")'
    <3>1. CASE Len(dqStored') <= Lwm
      <4>1. ResumeFirst("push")
        BY <1>6, <2>1, <3>1 DEF ResumePush
      <4> QED
        BY <1>1, <1>3, <1>4, <4>1, DqOneWakes
    <3>2. CASE Len(dqStored') > Lwm
      <4>1. UNCHANGED ipcVars
        BY <1>6, <2>1, <3>2, DqAssumption DEF ResumePush
      <4> QED
        BY <1>1, <1>3, <1>4, <3>2, <4>1, DqOneMoves
    <3> QED
      BY <2>1, <3>1, <3>2, DqAssumption
  <2>3. PopServed'
    <3>. SUFFICES ASSUME queue'["pop"] # <<>>
                  PROVE  Len(dqStored') <= Cardinality(DqLook("pop")')
      BY DEF PopServed
    <3>1. Len(dqStored) <= Cardinality(DqLook("pop"))
      BY <1>1, <2>2 DEF PopServed
    <3>2. Len(dqStored') + 1 <= Len(dqStored)
      BY <1>1, <2>1
    <3> QED
      BY <1>1, <2>1, <2>2, <3>1, <3>2, DqLists, MpStillServed
  <2>4. PushServed'
    <3>. SUFFICES ASSUME queue'["push"] # <<>>, ~Resetting'
                  PROVE  Len(dqStored') + Cardinality(DqLook("push")') > Lwm
      BY DEF PushServed
    <3>1. Len(dqStored) + Cardinality(DqLook("push")) > Lwm
      BY <1>1, <1>5, <2>2 DEF PushServed
    <3>2. CASE Len(dqStored') > Lwm
      <4>1. Cardinality(DqLook("push")') \in Nat /\ Lwm \in Nat
        BY DqLists, MqLookingCounts, DqAssumption
      <4> QED
        BY <2>1, <3>2, <4>1
    <3>3. CASE ~(Len(dqStored') > Lwm)
      <4>1. PICK h \in Threads : /\ h \notin DqLook("push")
                                 /\ DqLook("push") \cup {h} \subseteq DqLook("push")'
        BY <1>2, <2>2, <3>3
      <4>2. Len(dqStored') + 1 >= Len(dqStored)
        BY <1>1, <2>1
      <4> QED
        BY <1>1, <2>1, <3>1, <4>1, <4>2, DqLists, DqPushServed
    <3> QED
      BY <3>2, <3>3
  <2> QED
    BY <2>1, <2>2, <2>3, <2>4, DqServedHalves DEF DqInv
<1>7. CASE isEmpty /\ UNCHANGED dqData /\ UNCHANGED ipcVars
  <2>1. DqRing' /\ DqTypeOK' /\ dqStored' = dqStored /\ Len(dqStored') = 0
    BY <1>1, <1>4, <1>7 DEF DqRing, DqTypeOK, DqCalling, dqData
  <2>2. DqThreads' /\ queue' = queue /\ DqLook("push") \subseteq DqLook("push")'
    BY <1>1, <1>3, <1>4, <1>7, DqOneMoves
  <2>3. PopServed'
    BY <2>1, DqEdgesServed
  <2>4. PushServed'
    <3>. SUFFICES ASSUME queue'["push"] # <<>>, ~Resetting'
                  PROVE  Len(dqStored') + Cardinality(DqLook("push")') > Lwm
      BY DEF PushServed
    <3>1. Len(dqStored) + Cardinality(DqLook("push")) > Lwm
      BY <1>1, <1>5, <2>2 DEF PushServed
    <3>2. Len(dqStored') \in Nat /\ Len(dqStored') >= Len(dqStored)
      BY <1>1, <2>1
    <3> QED
      BY <1>1, <2>2, <3>1, <3>2, DqLists, DqPushServed
  <2> QED
    BY <2>1, <2>2, <2>3, <2>4, DqServedHalves DEF DqInv
<1>8. CASE isEmpty /\ SuspendLast(t, "pop", time) /\ DqCalls(t, "pop", time, NoItem)
           /\ UNCHANGED dqData
  <2>1. DqRing' /\ DqTypeOK' /\ dqStored' = dqStored /\ Len(dqStored') = 0
    BY <1>1, <1>4, <1>8 DEF DqRing, DqTypeOK, DqCalling, dqData
  <2>2. /\ DqThreads'
        /\ \A k \in {"push", "pop"} : k # "pop" /\ queue'[k] # <<>> => queue[k] # <<>>
        /\ \A where : DqLook(where) \ {t} \subseteq DqLook(where)'
    BY <1>1, <1>4, <1>8, DqOneWaits DEF DqCalls
  <2>3. PopServed'
    BY <2>1, DqEdgesServed
  <2>4. PushServed'
    <3>. SUFFICES ASSUME queue'["push"] # <<>>, ~Resetting'
                  PROVE  Len(dqStored') + Cardinality(DqLook("push")') > Lwm
      BY DEF PushServed
    <3>1. Len(dqStored) + Cardinality(DqLook("push")) > Lwm
      BY <1>1, <1>5, <2>2 DEF PushServed
    <3>2. Len(dqStored') \in Nat /\ Len(dqStored') >= Len(dqStored)
      BY <1>1, <2>1
    <3>3. DqLook("push") \subseteq DqLook("push")'
      BY <1>2, <2>2
    <3> QED
      BY <1>1, <3>1, <3>2, <3>3, DqLists, DqPushServed
  <2> QED
    BY <2>1, <2>2, <2>3, <2>4, DqServedHalves DEF DqInv
<1> QED
  BY <1>6, <1>7, <1>8 DEF PopSection

\* The steps that leave the lists alone, and the ring or all of what it holds.
LEMMA DqMovesKeep ==
    ASSUME DqInv, NEW t \in Threads, stat[t] = "RUN", UNCHANGED ipcVars, DqCalling', DqTypeOK',
           \A u \in Threads \ {t} : dqPc'[u] = dqPc[u],
           t \notin DqLook("push"), t \notin DqLook("pop"),
           DqRing', dqStored' = dqStored \/ Len(dqStored') = 0,
           \/ Resetting'
           \/ queue["push"] = <<>>
           \/ dqStored' = dqStored /\ ~Resetting
    PROVE  DqInv'
<1>1. DqThreads /\ PopServed /\ PushServed /\ Len(dqStored) \in Nat
  BY DqServedHalves, LenProperties DEF DqInv, DqTypeOK
<1>2. /\ DqThreads' /\ queue' = queue
      /\ DqLook("push") \subseteq DqLook("push")' /\ DqLook("pop") \subseteq DqLook("pop")'
  BY <1>1, DqOneMoves
<1>3. PopServed'
  <2>1. CASE dqStored' = dqStored
    <3>. SUFFICES ASSUME queue'["pop"] # <<>>
                  PROVE  Len(dqStored') <= Cardinality(DqLook("pop")')
      BY DEF PopServed
    <3>1. Len(dqStored) <= Cardinality(DqLook("pop"))
      BY <1>1, <1>2 DEF PopServed
    <3>2. Len(dqStored') \in Nat /\ Len(dqStored') <= Len(dqStored)
      BY <1>1, <2>1
    <3> QED
      BY <1>1, <1>2, <3>1, <3>2, DqLists, MpStillServed
  <2>2. CASE Len(dqStored') = 0
    BY <2>2, DqEdgesServed
  <2> QED
    BY <2>1, <2>2
<1>4. PushServed'
  <2>1. CASE Resetting' \/ queue["push"] = <<>>
    BY <1>2, <2>1 DEF PushServed
  <2>2. CASE dqStored' = dqStored /\ ~Resetting
    <3>. SUFFICES ASSUME queue'["push"] # <<>>
                  PROVE  Len(dqStored') + Cardinality(DqLook("push")') > Lwm
      BY DEF PushServed
    <3>1. Len(dqStored) + Cardinality(DqLook("push")) > Lwm
      BY <1>1, <1>2, <2>2 DEF PushServed
    <3>2. Len(dqStored') \in Nat /\ Len(dqStored') >= Len(dqStored)
      BY <1>1, <2>2
    <3> QED
      BY <1>1, <1>2, <3>1, <3>2, DqLists, DqPushServed
  <2> QED
    BY <2>1, <2>2
<1> QED
  BY <1>2, <1>3, <1>4, DqServedHalves DEF DqInv

\* A thread leaves a list and does not look again: it was resumed with -RT_ERROR by
\* the reset, or its timeout was handled.
LEMMA DqThreadLeaves ==
    ASSUME DqInv, UNCHANGED <<dqData, dqAlive, dqTime, dqItem>>, IpcTypeOK', SuspendedIsLinked',
           dqPc' \in [Threads -> DqLabels],
           \A u \in Threads :
              \/ dqPc'[u] = dqPc[u]
              \/ /\ stat[u] # "SUSPEND" /\ dqPc[u] \in {"reset"} \cup ResetCritical
                 /\ dqPc'[u] \in {"reset"} \cup ResetCritical,
           \A k \in Lists : ToSet(queue'[k]) \subseteq ToSet(queue[k]),
           \A u \in Threads :
              \/ stat'[u] = stat[u] /\ error'[u] = error[u]
              \/ stat[u] = "SUSPEND" /\ stat'[u] = "RUN" /\ error'[u] # "EOK"
    PROVE  DqInv'
<1>1. /\ UNCHANGED <<dqItems, putIndex, getIndex, isEmpty, isFull, dqStored, dqAlive>>
      /\ UNCHANGED <<dqTime, dqItem>>
  BY DEF dqData
<1>2. DqCalling' /\ DqTypeOK' /\ DqRing' /\ (Resetting' <=> Resetting)
  BY <1>1 DEF DqInv, DqThreads, DqCalling, DqTypeOK, DqRing, Resetting, ResetCritical
<1>3. DqWaiting'
  <2>1. ASSUME NEW u \in Threads, stat'[u] = "SUSPEND"
        PROVE  error'[u] = "EOK" /\ dqPc'[u] \in {"push", "pop"}
    BY <2>1 DEF DqInv, DqThreads, DqWaiting
  <2>2. ASSUME NEW l \in {"push", "pop"}, NEW u \in ToSet(queue'[l]) PROVE dqPc'[u] = l
    <3>1. l \in Lists /\ u \in ToSet(queue[l])
      BY DqLists
    <3>2. queue[l] \in Seq(Threads)
      BY <3>1 DEF DqInv, DqThreads, IpcTypeOK
    <3>3. u \in Threads
      BY <3>1, <3>2, LenProperties, ElementOfSeq DEF ToSet
    <3>4. stat[u] = "SUSPEND"
      BY <3>1, <3>3 DEF DqInv, DqThreads, SuspendedIsLinked
    <3> QED
      BY <3>1, <3>3, <3>4 DEF DqInv, DqThreads, DqWaiting
  <2> QED
    BY <2>1, <2>2 DEF DqWaiting
<1>4. \A where \in {"push", "pop"} : DqLook(where)' = DqLook(where)
  BY <1>1 DEF DqLook, ResetCritical
<1>5. \A k \in {"push", "pop"} : queue'[k] # <<>> => queue[k] # <<>>
  BY DqLists, MqStaysEmpty DEF DqInv, DqThreads
<1>6. PopServed' /\ PushServed'
  BY <1>1, <1>2, <1>4, <1>5, DqServedHalves DEF DqInv, PopServed, PushServed
<1> QED
  BY <1>2, <1>3, <1>6, DqServedHalves DEF DqInv, DqThreads

LEMMA DqWokenKeeps ==
    ASSUME DqInv, NEW t \in Threads, Woken(t)
    PROVE  DqInv'
<1>1. /\ stat[t] = "RUN" /\ dqPc[t] \in {"push", "pop"} /\ DqCalling /\ UNCHANGED dqAlive
      /\ dqTime[t] \in {"no", "timed", "forever", "reset", "deinit"}
  BY DEF Woken, DqInv, DqThreads, DqCalling
<1>2. CASE error[t] # "EOK" /\ DqReturns(t) /\ UNCHANGED <<ipcVars, dqData>>
  <2>1. DqCalling' /\ \A u \in Threads \ {t} : dqPc'[u] = dqPc[u]
    BY <1>1, <1>2 DEF DqCalling, DqReturns, DqCalls, DqLabels
  <2>2. DqRing' /\ DqTypeOK' /\ dqStored' = dqStored
    BY <1>2, <2>1 DEF DqInv, DqRing, DqTypeOK, DqCalling, dqData
  <2>3. Resetting => Resetting'
    BY <1>1, <2>1 DEF Resetting, ResetCritical
  <2>4. t \notin DqLook("push") /\ t \notin DqLook("pop")
    BY <1>2 DEF DqLook
  <2> QED
    BY <1>1, <1>2, <2>1, <2>2, <2>3, <2>4, DqMovesKeep
<1>3. CASE error[t] = "EOK" /\ dqPc[t] = "push" /\ PushSection(t, dqItem[t], dqTime[t])
  <2>1. dqItem[t] \in Items
    BY <1>1, <1>3 DEF DqCalling
  <2> QED
    BY <1>1, <1>3, <2>1, DqPushKeeps
<1>4. CASE error[t] = "EOK" /\ dqPc[t] = "pop" /\ PopSection(t, dqTime[t])
  BY <1>1, <1>4, DqPopKeeps
<1> QED
  BY <1>2, <1>3, <1>4 DEF Woken

LEMMA DqResetKeeps ==
    ASSUME DqInv, NEW t \in Threads,
           \/ \E why \in {"reset", "deinit"} : ResetSection(t, why)
           \/ ResetEnter(t) \/ ResetNext(t)
           \/ ResetTest(t, "pop", "respop", "takepop")
           \/ ResetTest(t, "push", "respush", "takepush")
    PROVE  DqInv'
<1>1. /\ dqPc[t] \in {"idle", "reset", "respop", "respush"} /\ UNCHANGED ipcVars /\ DqCalling
      /\ dqPc \in [Threads -> DqLabels]
  BY DEF ResetSection, ResetEnter, ResetNext, ResetTest, MayCall, DqInv, DqThreads, DqCalling
<1>2. stat[t] = "RUN" /\ t \notin DqLook("push") /\ t \notin DqLook("pop")
  BY <1>1 DEF DqInv, DqThreads, DqWaiting, IpcTypeOK, DqLook
<1>3. CASE \E why \in {"reset", "deinit"} : ResetSection(t, why)
  <2>1. PICK why \in {"reset", "deinit"} : ResetSection(t, why)
    BY <1>3
  <2>2. /\ DqCalls(t, "reset", why, NoItem) /\ UNCHANGED <<dqItems, dqAlive>>
        /\ getIndex' = 0 /\ putIndex' = 0 /\ isEmpty' = TRUE /\ isFull' = FALSE
        /\ dqStored' = <<>>
    BY <2>1 DEF ResetSection
  <2>3. DqCalling' /\ dqPc'[t] = "reset" /\ \A u \in Threads \ {t} : dqPc'[u] = dqPc[u]
    BY <1>1, <2>2 DEF DqCalling, DqCalls, DqLabels
  <2>4. <<>> \in Seq(Items) /\ Len(<<>>) = 0 /\ DqSize \in Nat \ {0}
    BY DqAssumption
  <2>5. DqTypeOK'
    <3>1. putIndex' \in 0..DqSize - 1 /\ getIndex' \in 0..DqSize - 1
      BY <2>2, <2>4
    <3>2. dqItems' \in [0..DqSize - 1 -> Items \cup {NoItem}]
      BY <2>2 DEF DqInv, DqTypeOK
    <3>3. isEmpty' \in BOOLEAN /\ isFull' \in BOOLEAN /\ dqStored' \in Seq(Items)
      BY <2>2, <2>4
    <3> QED
      BY <2>3, <3>1, <3>2, <3>3 DEF DqTypeOK, DqCalling
  <2>6. DqRing' /\ Len(dqStored') = 0
    BY <2>2, <2>4 DEF DqRing, DqLen
  <2>7. Resetting'
    BY <2>3 DEF Resetting
  <2> QED
    BY <1>1, <1>2, <2>3, <2>5, <2>6, <2>7, DqMovesKeep
<1>4. CASE \/ ResetEnter(t)
           \/ ResetTest(t, "pop", "respop", "takepop")
           \/ ResetTest(t, "push", "respush", "takepush")
  <2>1. PICK p \in {"respop", "takepop", "takepush"} : dqPc' = [dqPc EXCEPT ![t] = p]
    BY <1>4 DEF ResetEnter, ResetTest
  <2>2. /\ UNCHANGED <<dqItems, putIndex, getIndex, isEmpty, isFull, dqStored, dqAlive>>
        /\ UNCHANGED <<dqTime, dqItem>>
    BY <1>4 DEF ResetEnter, ResetTest, dqData
  <2>3. DqCalling' /\ DqTypeOK' /\ DqRing'
    BY <1>1, <2>1, <2>2 DEF DqInv, DqCalling, DqTypeOK, DqRing, DqLabels, ResetCritical
  <2>4. Resetting' /\ \A u \in Threads \ {t} : dqPc'[u] = dqPc[u]
    BY <1>1, <2>1 DEF Resetting, ResetCritical
  <2> QED
    BY <1>1, <1>2, <2>2, <2>3, <2>4, DqMovesKeep
<1>5. CASE ResetNext(t)
  <2>1. UNCHANGED <<dqItems, putIndex, getIndex, isEmpty, isFull, dqStored>>
    BY <1>5 DEF ResetNext, dqData
  <2>2. /\ DqCalling' /\ \A u \in Threads \ {t} : dqPc'[u] = dqPc[u]
        /\ dqPc'[t] = "respush" \/ queue["push"] = <<>>
    BY <1>1, <1>5 DEF ResetNext, DqCalling, DqReturns, DqCalls, DqLabels, ResetCritical
  <2>3. DqTypeOK' /\ DqRing'
    BY <2>1, <2>2 DEF DqInv, DqCalling, DqTypeOK, DqRing
  <2>4. Resetting' \/ queue["push"] = <<>>
    BY <2>2 DEF Resetting, ResetCritical
  <2> QED
    BY <1>1, <1>2, <2>1, <2>2, <2>3, <2>4, DqMovesKeep
<1> QED
  BY <1>3, <1>4, <1>5

LEMMA DqLeavesKeep ==
    ASSUME DqInv, NEW t \in Threads,
           \/ ResetResume(t, "pop", "respop", "takepop")
           \/ ResetResume(t, "push", "respush", "takepush")
           \/ DqTimeout(t)
    PROVE  DqInv'
<1>1. /\ IpcTypeOK /\ SuspendedIsLinked /\ dqPc \in [Threads -> DqLabels]
      /\ stat \in [Threads -> {"RUN", "SUSPEND"}] /\ error \in [Threads -> Errors]
  BY DEF DqInv, DqThreads, DqCalling, IpcTypeOK
<1>2. ASSUME NEW l \in {"pop", "push"}, NEW where \in {"respop", "respush"},
             NEW round \in {"takepop", "takepush"}, ResetResume(t, l, where, round)
      PROVE  DqInv'
  <2>1. /\ ResumeNext(l) /\ l \in Lists /\ dqPc[t] = round
        /\ dqPc' = [dqPc EXCEPT ![t] = AfterRound(l, where)]
        /\ UNCHANGED <<dqData, dqAlive, dqTime, dqItem>>
    BY <1>2, DqLists DEF ResetResume
  <2>2. /\ IpcTypeOK' /\ SuspendedIsLinked'
        /\ queue[l] = <<>> => UNCHANGED ipcVars
        /\ queue[l] # <<>> =>
              /\ Head(queue[l]) \in Threads /\ stat[Head(queue[l])] = "SUSPEND"
              /\ error' = [error EXCEPT ![Head(queue[l])] = "ERROR"]
              /\ stat' = [stat EXCEPT ![Head(queue[l])] = "RUN"]
        /\ \A k \in Lists : ToSet(queue'[k]) \subseteq ToSet(queue[k])
    BY <1>1, <2>1, ResumeNextUnlinks
  <2>3. \A u \in Threads :
              \/ stat'[u] = stat[u] /\ error'[u] = error[u]
              \/ stat[u] = "SUSPEND" /\ stat'[u] = "RUN" /\ error'[u] # "EOK"
    BY <1>1, <2>2 DEF ipcVars
  <2>4. AfterRound(l, where) \in ResetCritical
    BY DEF AfterRound, ResetCritical
  <2>5. stat[t] # "SUSPEND" /\ round \in ResetCritical
    BY <2>1 DEF DqInv, DqThreads, DqWaiting, ResetCritical
  <2>6. /\ dqPc' \in [Threads -> DqLabels]
        /\ \A u \in Threads :
              \/ dqPc'[u] = dqPc[u]
              \/ /\ stat[u] # "SUSPEND" /\ dqPc[u] \in {"reset"} \cup ResetCritical
                 /\ dqPc'[u] \in {"reset"} \cup ResetCritical
    BY <1>1, <2>1, <2>4, <2>5 DEF DqLabels
  <2> QED
    BY <2>1, <2>2, <2>3, <2>6, DqThreadLeaves
<1>3. CASE DqTimeout(t)
  <2>1. PICK c \in Cpus : TimerExpires(c, t) \/ ThreadTimeout(c, t)
    BY <1>3 DEF DqTimeout
  <2>2. /\ IpcTypeOK' /\ SuspendedIsLinked'
        /\ \/ UNCHANGED <<stat, error, queue>>
           \/ /\ stat[t] = "SUSPEND" /\ stat' = [stat EXCEPT ![t] = "RUN"]
              /\ error' = [error EXCEPT ![t] = "ETIMEOUT"]
              /\ \A k \in Lists : ToSet(queue'[k]) = ToSet(queue[k]) \ {t}
    BY <1>1, <2>1, TimeoutUnlinks
  <2>3. \A k \in Lists : ToSet(queue'[k]) \subseteq ToSet(queue[k])
    BY <2>2
  <2>4. \A u \in Threads :
              \/ stat'[u] = stat[u] /\ error'[u] = error[u]
              \/ stat[u] = "SUSPEND" /\ stat'[u] = "RUN" /\ error'[u] # "EOK"
    BY <1>1, <2>2
  <2> QED
    BY <1>1, <1>3, <2>2, <2>3, <2>4, DqThreadLeaves DEF DqTimeout, dqVars, dqCall
<1> QED
  BY <1>2, <1>3

LEMMA DqNextKeeps == DqInv /\ [DqNext]_<<ipcVars, dqVars>> => DqInv'
<1>. SUFFICES ASSUME DqInv, [DqNext]_<<ipcVars, dqVars>> PROVE DqInv'
  OBVIOUS
<1>1. CASE UNCHANGED <<ipcVars, dqVars>>
  <2>1. UNCHANGED <<stat, error, timer, queue, irqoff, expired>>
    BY <1>1 DEF ipcVars
  <2>2. IpcTypeOK' /\ SuspendedIsLinked'
    BY <2>1 DEF DqInv, DqThreads, IpcTypeOK, SuspendedIsLinked
  <2>3. dqPc \in [Threads -> DqLabels]
    BY DEF DqInv, DqThreads, DqCalling
  <2> QED
    BY <1>1, <2>1, <2>2, <2>3, DqThreadLeaves DEF dqVars, dqCall
<1>2. CASE DqNext
  <2>1. PICK t \in Threads : DqStep(t) \/ DqTimeout(t)
    BY <1>2 DEF DqNext
  <2>2. ASSUME MayCall(t) PROVE stat[t] = "RUN" /\ dqPc[t] = "idle"
    BY <2>2 DEF MayCall, DqInv, DqThreads, DqWaiting, IpcTypeOK
  <2>3. ASSUME NEW time \in WaitsOf(t), Pop(t, time) PROVE DqInv'
    <3>1. time \in {"no", "timed", "forever", "reset", "deinit"}
      BY WaitAssumption DEF WaitsOf
    <3> QED
      BY <2>2, <2>3, <3>1, DqPopKeeps DEF Pop
  <2>4. ASSUME NEW time \in WaitsOf(t), NEW item \in ItemsOf[t], Push(t, item, time)
        PROVE  DqInv'
    <3>1. time \in {"no", "timed", "forever", "reset", "deinit"}
      BY WaitAssumption DEF WaitsOf
    <3>2. item \in Items
      BY DqAssumption
    <3> QED
      BY <2>2, <2>4, <3>1, <3>2, DqPushKeeps DEF Push
  <2> QED
    BY <2>1, <2>3, <2>4, DqWokenKeeps, DqResetKeeps, DqLeavesKeep
       DEF DqStep, ResetStep
<1> QED
  BY <1>1, <1>2

\* The indices stay inside the ring, and the rest of the data queue has its type.
THEOREM DqTypes == DqSpec => []DqTypeOK
<1>1. DqInv => DqTypeOK
  BY DEF DqInv
<1> QED
  BY DqInitial, DqNextKeeps, <1>1, PTL DEF DqSpec

\* rt_data_queue_push and rt_data_queue_pop, for every size and low water mark and any
\* number of threads and handlers: the items come out in the order in which they went
\* in, the flags and rt_data_queue_len agree with them, and nobody sleeps for an item
\* or a place that nobody comes for.
THEOREM DqDataQueueServes == DqSpec => []DataQueueServes
<1>1. DqInv => DataQueueServes
  BY DqRingAgrees DEF DqInv, DataQueueServes
<1> QED
  BY DqInitial, DqNextKeeps, <1>1, PTL DEF DqSpec

-----------------------------------------------------------------------------
(***************************************************************************)
(* The mailbox (Mailbox), for every size and every set of mails, as long as *)
(* nobody comes between the unprotected statements of a woken thread: first *)
(* the ring of mails, then the threads and their lists, then who waits for  *)
(* what.                                                                    *)
(***************************************************************************)

\* An offset that is advanced by no more than the size of the pool.
MbWrap(i) == IF i < MbSize THEN i ELSE i - MbSize

LEMMA MbWrapIsModulo ==
    ASSUME NEW i \in 0..2*MbSize - 1 PROVE i % MbSize = MbWrap(i)
  BY MbAssumption DEF MbWrap

\* The n slots of p from out on hold the mails q, and in is behind them.
MbRing(n, q, in, out, p) ==
    /\ in \in Slots /\ out \in Slots /\ p \in [Slots -> Mails \cup {NoMail}]
    /\ q \in Seq(Mails) /\ n \in 0..MbSize /\ Len(q) = n
    /\ in = MbWrap(out + n)
    /\ \A i \in 1..n : p[MbWrap(out + i - 1)] = q[i]

\* The slot at in is free: a mail may be written there,
LEMMA MbSlotWritten ==
    ASSUME NEW n \in Nat, NEW q, NEW in, NEW out, NEW p, MbRing(n, q, in, out, p), n # MbSize,
           NEW v \in Mails
    PROVE  MbRing(n, q, in, out, [p EXCEPT ![in] = v]) /\ [p EXCEPT ![in] = v][in] = v
<1>1. /\ in \in Slots /\ out \in Slots /\ p \in [Slots -> Mails \cup {NoMail}]
      /\ q \in Seq(Mails) /\ n \in 0..MbSize /\ Len(q) = n
      /\ in = MbWrap(out + n)
      /\ \A i \in 1..n : p[MbWrap(out + i - 1)] = q[i]
  BY DEF MbRing
<1> DEFINE w == [p EXCEPT ![in] = v]
<1>2. /\ w \in [Slots -> Mails \cup {NoMail}] /\ w[in] = v
      /\ \A i \in Slots : i # in => w[i] = p[i]
  BY <1>1
<1> HIDE DEF w
<1>3. ASSUME NEW i \in 1..n PROVE w[MbWrap(out + i - 1)] = q[i]
  <2>1. MbWrap(out + i - 1) \in Slots /\ MbWrap(out + i - 1) # in
    BY <1>1, MbAssumption DEF MbWrap, Slots
  <2> QED
    BY <1>1, <1>2, <2>1
<1>4. MbRing(n, q, in, out, w) /\ w[in] = v
  BY <1>1, <1>2, <1>3 DEF MbRing
<1> QED
  BY <1>4 DEF w

\* and counts once in has passed it.
LEMMA MbPutCounted ==
    ASSUME NEW n \in Nat, NEW q, NEW in, NEW out, NEW p, MbRing(n, q, in, out, p), n # MbSize,
           NEW v \in Mails, p[in] = v
    PROVE  MbRing(n + 1, Append(q, v), Following(in), out, p)
<1> USE MbAssumption
<1>1. /\ in \in Slots /\ out \in Slots /\ p \in [Slots -> Mails \cup {NoMail}]
      /\ q \in Seq(Mails) /\ n \in 0..MbSize /\ Len(q) = n
      /\ in = MbWrap(out + n)
      /\ \A i \in 1..n : p[MbWrap(out + i - 1)] = q[i]
  BY DEF MbRing
<1> DEFINE r == Append(q, v)
<1>2. /\ r \in Seq(Mails) /\ Len(r) = n + 1 /\ r[n + 1] = v
      /\ \A i \in 1..n : r[i] = q[i]
  BY <1>1, AppendProperties
<1> HIDE DEF r
<1>3. Following(in) \in Slots /\ Following(in) = MbWrap(out + (n + 1)) /\ n + 1 \in 0..MbSize
  BY <1>1 DEF Following, MbWrap, Slots
<1>4. ASSUME NEW i \in 1..n + 1 PROVE p[MbWrap(out + i - 1)] = r[i]
  <2>1. CASE i = n + 1
    BY <1>1, <1>2, <2>1
  <2>2. CASE i \in 1..n
    BY <1>1, <1>2, <2>2
  <2> QED
    BY <1>1, <2>1, <2>2
<1>5. MbRing(n + 1, r, Following(in), out, p)
  BY <1>1, <1>2, <1>3, <1>4 DEF MbRing
<1> QED
  BY <1>5 DEF r

\* The mail at out is the oldest, and does not count once out has passed it.
LEMMA MbGetCounted ==
    ASSUME NEW n \in Nat, NEW q, NEW in, NEW out, NEW p, MbRing(n, q, in, out, p), n # 0
    PROVE  MbRing(n - 1, Tail(q), in, Following(out), p) /\ p[out] = Head(q) /\ q # <<>>
<1> USE MbAssumption
<1>1. /\ in \in Slots /\ out \in Slots /\ p \in [Slots -> Mails \cup {NoMail}]
      /\ q \in Seq(Mails) /\ n \in 0..MbSize /\ Len(q) = n
      /\ in = MbWrap(out + n)
      /\ \A i \in 1..n : p[MbWrap(out + i - 1)] = q[i]
  BY DEF MbRing
<1>2. q # <<>> /\ Head(q) = q[1] /\ n \in 1..MbSize
  BY <1>1
<1> DEFINE r == Tail(q)
<1>3. r \in Seq(Mails) /\ Len(r) = n - 1 /\ \A i \in 1..n - 1 : r[i] = q[i + 1]
  BY <1>1, <1>2, HeadTailProperties
<1> HIDE DEF r
<1>4. p[out] = Head(q)
  <2>1. MbWrap(out + 1 - 1) = out /\ 1 \in 1..n
    BY <1>1, <1>2 DEF MbWrap, Slots
  <2> QED
    BY <1>1, <1>2, <2>1
<1>5. Following(out) \in Slots /\ in = MbWrap(Following(out) + (n - 1)) /\ n - 1 \in 0..MbSize
  BY <1>1, <1>2 DEF Following, MbWrap, Slots
<1>6. ASSUME NEW i \in 1..n - 1 PROVE p[MbWrap(Following(out) + i - 1)] = r[i]
  <2>1. i + 1 \in 1..n /\ MbWrap(Following(out) + i - 1) = MbWrap(out + (i + 1) - 1)
    BY <1>1, <1>2 DEF Following, MbWrap, Slots
  <2> QED
    BY <1>1, <1>3, <2>1
<1>7. MbRing(n - 1, r, in, Following(out), p)
  BY <1>1, <1>3, <1>5, <1>6 DEF MbRing
<1> QED
  BY <1>2, <1>4, <1>7 DEF r

\* An urgent mail goes in front of the oldest.
LEMMA MbUrgentCounted ==
    ASSUME NEW n \in Nat, NEW q, NEW in, NEW out, NEW p, MbRing(n, q, in, out, p), n # MbSize,
           NEW v \in Mails, NEW o, o = IF out > 0 THEN out - 1 ELSE MbSize - 1
    PROVE  MbRing(n + 1, <<v>> \o q, in, o, [p EXCEPT ![o] = v])
<1> USE MbAssumption
<1>1. /\ in \in Slots /\ out \in Slots /\ p \in [Slots -> Mails \cup {NoMail}]
      /\ q \in Seq(Mails) /\ n \in 0..MbSize /\ Len(q) = n
      /\ in = MbWrap(out + n)
      /\ \A i \in 1..n : p[MbWrap(out + i - 1)] = q[i]
  BY DEF MbRing
<1> DEFINE r == <<v>> \o q
           w == [p EXCEPT ![o] = v]
<1>2. /\ r \in Seq(Mails) /\ Len(r) = n + 1 /\ r[1] = v
      /\ \A i \in 2..n + 1 : r[i] = q[i - 1]
  BY <1>1
<1>3. o \in Slots
  BY <1>1 DEF Slots
<1>4. /\ w \in [Slots -> Mails \cup {NoMail}] /\ w[o] = v
      /\ \A i \in Slots : i # o => w[i] = p[i]
  BY <1>1, <1>3
<1> HIDE DEF r, w
<1>5. in = MbWrap(o + (n + 1)) /\ n + 1 \in 0..MbSize
  BY <1>1 DEF MbWrap, Slots
<1>6. ASSUME NEW i \in 1..n + 1 PROVE w[MbWrap(o + i - 1)] = r[i]
  <2>1. CASE i = 1
    <3>1. MbWrap(o + i - 1) = o
      BY <1>3, <2>1 DEF MbWrap, Slots
    <3> QED
      BY <1>2, <1>4, <2>1, <3>1
  <2>2. CASE i \in 2..n + 1
    <3>1. /\ i - 1 \in 1..n /\ MbWrap(o + i - 1) = MbWrap(out + (i - 1) - 1)
          /\ MbWrap(o + i - 1) \in Slots /\ MbWrap(o + i - 1) # o
      BY <1>1, <2>2 DEF MbWrap, Slots
    <3> QED
      BY <1>1, <1>2, <1>4, <2>2, <3>1
  <2> QED
    BY <1>1, <2>1, <2>2
<1>7. MbRing(n + 1, r, in, o, w)
  BY <1>1, <1>2, <1>3, <1>4, <1>5, <1>6 DEF MbRing
<1> QED
  BY <1>7 DEF r, w

\* Where a thread is in no send and no receive that can still go on.
MbOutside == {"idle", "detach", "poprecv", "popsend", "wild"}

\* Who waits, and where; a thread that sends has its mail.
MbWaiting ==
    /\ \A t \in Threads :
          stat[t] = "SUSPEND" => mbPc[t] \in {"wait", "link", "timer"} /\ error[t] = "EOK"
    /\ \A l \in {"mbrecv", "mbsend"} : \A t \in ToSet(queue[l]) : WaitList(t) = l
    /\ \A t \in Threads : mbOp[t] # "recv" /\ mbPc[t] \notin MbOutside => mbValue[t] \in Mails

\* The lists, but for one thread that has suspended itself and is in none yet.
MbLoose(t) ==
    /\ stat[t] = "SUSPEND"
    /\ \A u \in Threads \ {t} : stat[u] = "SUSPEND" <=> \E l \in Lists : u \in ToSet(queue[l])
    /\ \A l \in Lists : IsInjective(queue[l]) /\ t \notin ToSet(queue[l])
    /\ \A l, m \in Lists : l # m => ToSet(queue[l]) \cap ToSet(queue[m]) = {}
MbLinked ==
    /\ \A t \in Threads : mbPc[t] = "link" => MbLoose(t)
    /\ (\A t \in Threads : mbPc[t] # "link") => SuspendedIsLinked

\* The threads, and what they need to move on.
MbThreads == MbTypeOK /\ IpcTypeOK /\ MbLinked /\ MbWaiting

\* The mails, or the free slots, that the threads in list l wait for, and the threads
\* that NoMailInVain counts for them.
MbLeft(l) == IF l = "mbrecv" THEN mbEntry ELSE MbSize - mbEntry
MbComes(t) ==
    \/ mbPc[t] \in {"enter", "again", "slot", "offset", "load", "store"}
    \/ mbPc[t] = "wait" /\ stat[t] = "RUN" /\ error[t] = "EOK"
MbWakes(t) == mbPc[t] \in {"resume", "choose", "test", "wake"}
MbFor(l) ==
    {t \in Threads : \/ WaitList(t) = l /\ MbComes(t)
                     \/ OtherList(t) = l /\ MbWakes(t)}

\* NoMailInVain, list by list.
MbServed ==
    \A l \in {"mbrecv", "mbsend"} : queue[l] # <<>> => MbLeft(l) <= Cardinality(MbFor(l))

\* A thread has moved an offset, and entry does not count it yet; what entry and the
\* mails will be when it does.
MbAhead(t) == mbPc[t] \in {"load", "store"}
MbEntryAfter(t) == IF mbOp[t] = "recv" THEN mbEntry - 1 ELSE mbEntry + 1
MbMailsAfter(t) == IF mbOp[t] = "recv" THEN Tail(mails) ELSE Append(mails, mbValue[t])

\* The ring holds the mails, or those that the thread that is ahead will leave.
MbContents ==
    /\ mails \in Seq(Mails) /\ mbEntry \in 0..MbSize /\ Len(mails) = mbEntry
    /\ (\A t \in Threads : ~MbAhead(t)) => MbRing(mbEntry, mails, inOffset, outOffset, pool)
    /\ \A t \in Threads :
          MbAhead(t) => MbRing(MbEntryAfter(t), MbMailsAfter(t), inOffset, outOffset, pool)

\* What a thread that goes on after a wake-up has found and read.
MbHolds(t) ==
    /\ mbPc[t] \in {"sleep", "link"} => MustWait(t)
    /\ mbPc[t] = "sleep" => error[t] = "EOK"
    /\ mbPc[t] \in {"slot", "offset", "load", "store"} => ~MustWait(t)
    /\ mbPc[t] \in {"offset", "load", "store"} /\ mbOp[t] = "recv" => mbValue[t] = Head(mails)
    /\ mbPc[t] = "offset" /\ mbOp[t] # "recv" => pool[inOffset] = mbValue[t]
    /\ mbPc[t] = "store" => mbReg[t] = mbEntry
    /\ mbPc[t] \in {"choose", "test", "wake"} => queue[OtherList(t)] # <<>>
    /\ mbPc[t] \in {"test", "wake"} => mbTarget[t] = Head(queue[OtherList(t)])
MbPhases == \A t \in Threads : MbHolds(t)

MbInv == MbThreads /\ MbContents /\ MbPhases /\ MbServed

\* A step with nobody but t between the unprotected statements.
MbAlone(t) == disturbed' = FALSE /\ \A u \in Threads \ {t} : mbPc[u] \notin UnprotectedAt

LEMMA MbLists ==
    /\ "mbrecv" \in Lists /\ "mbsend" \in Lists
    /\ \A l : MbFor(l) \in SUBSET Threads /\ MbFor(l)' \in SUBSET Threads
    /\ \A t : WaitList(t) \in {"mbrecv", "mbsend"} /\ OtherList(t) \in {"mbrecv", "mbsend"}
    /\ \A t : WaitList(t) # OtherList(t)
  BY MbAssumption DEF MbFor, WaitList, OtherList

\* Whoever is not waiting, about to be linked or about to start its timer is not suspended.
LEMMA MbNotWaiting ==
    ASSUME MbThreads, NEW t \in Threads, mbPc[t] \notin {"wait", "link", "timer"}
    PROVE  stat[t] = "RUN"
  BY DEF MbThreads, IpcTypeOK, MbWaiting

\* Nobody else is about to be linked.
LEMMA MbAllLinked ==
    ASSUME MbThreads, NEW t \in Threads, MbAlone(t), mbPc[t] # "link"
    PROVE  SuspendedIsLinked /\ IpcTypeOK
  BY DEF MbThreads, MbLinked, MbAlone, UnprotectedAt

\* A member of a list is a thread that is suspended.
LEMMA MbListed ==
    ASSUME MbThreads, NEW l \in {"mbrecv", "mbsend"}, NEW t \in ToSet(queue[l])
    PROVE  /\ t \in Threads /\ stat[t] = "SUSPEND" /\ WaitList(t) = l
           /\ mbPc[t] \in {"wait", "timer"} /\ error[t] = "EOK" /\ t \notin MbFor(l)
<1>1. l \in Lists
  BY MbLists
<1>2. queue[l] \in Seq(Threads)
  BY <1>1 DEF MbThreads, IpcTypeOK
<1>3. t \in Threads
  BY <1>2, LenProperties, ElementOfSeq DEF ToSet
<1>4. stat[t] = "SUSPEND" /\ mbPc[t] # "link"
  <2>1. CASE \A u \in Threads : mbPc[u] # "link"
    BY <1>1, <1>3, <2>1 DEF MbThreads, MbLinked, SuspendedIsLinked
  <2>2. ASSUME NEW u \in Threads, mbPc[u] = "link" PROVE stat[t] = "SUSPEND" /\ mbPc[t] # "link"
    <3>1. /\ \A s \in Threads \ {u} :
                stat[s] = "SUSPEND" <=> \E k \in Lists : s \in ToSet(queue[k])
          /\ u \notin ToSet(queue[l])
          /\ mbPc[t] = "link" => t \notin ToSet(queue[l])
      BY <1>1, <1>3, <2>2 DEF MbThreads, MbLinked, MbLoose
    <3> QED
      BY <1>1, <1>3, <3>1
  <2> QED
    BY <2>1, <2>2
<1>5. WaitList(t) = l /\ mbPc[t] \in {"wait", "timer"} /\ error[t] = "EOK"
  BY <1>3, <1>4 DEF MbThreads, MbWaiting
<1> QED
  BY <1>3, <1>4, <1>5 DEF MbFor, MbComes, MbWakes

LEMMA MbGoes ==
    ASSUME MbTypeOK, NEW t \in Threads, NEW label \in MbLabels, MbGoto(t, label)
    PROVE  /\ mbPc' \in [Threads -> MbLabels] /\ mbPc'[t] = label
           /\ \A u \in Threads \ {t} : mbPc'[u] = mbPc[u]
  BY DEF MbTypeOK, MbGoto

\* MbReturn, and what it leaves.
LEMMA MbReturnTypes ==
    ASSUME MbTypeOK, NEW t \in Threads, MbReturn(t)
    PROVE  /\ mbPc' \in [Threads -> MbLabels]
           /\ mbWait' \in [Threads -> {"no", "timed", "forever"}]
           /\ mbValue' \in [Threads -> Mails \cup {NoMail}]
           /\ mbReg' \in [Threads -> 0..MbEntryMax]
           /\ mbTarget' \in [Threads -> Threads \cup {Nobody}]
           /\ mbPc'[t] = "idle"
           /\ \A u \in Threads \ {t} : /\ mbPc'[u] = mbPc[u] /\ mbValue'[u] = mbValue[u]
                                       /\ mbReg'[u] = mbReg[u] /\ mbTarget'[u] = mbTarget[u]
<1>1. "idle" \in MbLabels /\ MbGoto(t, "idle")
  BY DEF MbLabels, MbReturn
<1>2. /\ mbPc' \in [Threads -> MbLabels] /\ mbPc'[t] = "idle"
      /\ \A u \in Threads \ {t} : mbPc'[u] = mbPc[u]
  BY <1>1, MbGoes
<1>3. /\ mbWait \in [Threads -> {"no", "timed", "forever"}]
      /\ mbValue \in [Threads -> Mails \cup {NoMail}] /\ mbReg \in [Threads -> 0..MbEntryMax]
      /\ mbTarget \in [Threads -> Threads \cup {Nobody}] /\ 0 \in 0..MbEntryMax
  BY MbAssumption DEF MbTypeOK
<1>4. /\ mbWait' = [mbWait EXCEPT ![t] = "no"] /\ mbValue' = [mbValue EXCEPT ![t] = NoMail]
      /\ mbReg' = [mbReg EXCEPT ![t] = 0] /\ mbTarget' = [mbTarget EXCEPT ![t] = Nobody]
  BY DEF MbReturn
<1>5. /\ mbWait' \in [Threads -> {"no", "timed", "forever"}]
      /\ mbReg' \in [Threads -> 0..MbEntryMax]
      /\ \A u \in Threads \ {t} : mbReg'[u] = mbReg[u]
  BY <1>3, <1>4
<1>6. /\ mbValue' \in [Threads -> Mails \cup {NoMail}]
      /\ mbTarget' \in [Threads -> Threads \cup {Nobody}]
      /\ \A u \in Threads \ {t} : mbValue'[u] = mbValue[u] /\ mbTarget'[u] = mbTarget[u]
  BY <1>3, <1>4
<1> QED
  BY <1>2, <1>5, <1>6

\* A step that moves t alone, and changes no list,
MbMoves(t) ==
    /\ UNCHANGED <<stat, queue>> /\ IpcTypeOK' /\ MbTypeOK'
    /\ \A u \in Threads \ {t} : /\ mbPc'[u] = mbPc[u] /\ mbOp'[u] = mbOp[u]
                                /\ mbValue'[u] = mbValue[u] /\ error'[u] = error[u]
    /\ mbPc[t] # "link" /\ mbPc'[t] # "link"
    /\ stat[t] = "SUSPEND" => mbPc'[t] = "wait" /\ error'[t] = error[t] /\ mbOp'[t] = mbOp[t]
    /\ mbOp'[t] # "recv" /\ mbPc'[t] \notin MbOutside => mbValue'[t] \in Mails

LEMMA MbOneMoves ==
    ASSUME MbThreads, NEW t \in Threads, MbAlone(t), MbMoves(t)
    PROVE  MbThreads' /\ \A l : MbFor(l) \ {t} \subseteq MbFor(l)'
<1>1. /\ stat' = stat /\ queue' = queue /\ IpcTypeOK' /\ MbTypeOK'
      /\ \A u \in Threads \ {t} : /\ mbPc'[u] = mbPc[u] /\ mbOp'[u] = mbOp[u]
                                  /\ mbValue'[u] = mbValue[u] /\ error'[u] = error[u]
      /\ mbPc[t] # "link" /\ mbPc'[t] # "link"
      /\ stat[t] = "SUSPEND" => mbPc'[t] = "wait" /\ error'[t] = error[t] /\ mbOp'[t] = mbOp[t]
      /\ mbOp'[t] # "recv" /\ mbPc'[t] \notin MbOutside => mbValue'[t] \in Mails
  BY DEF MbMoves
<1>2. MbLinked'
  <2>1. SuspendedIsLinked'
    BY <1>1, MbAllLinked DEF SuspendedIsLinked
  <2>2. \A u \in Threads : mbPc'[u] # "link"
    BY <1>1 DEF MbAlone, UnprotectedAt
  <2> QED
    BY <2>1, <2>2 DEF MbLinked
<1>3. MbWaiting'
  <2>1. \A u \in Threads :
            stat'[u] = "SUSPEND" => mbPc'[u] \in {"wait", "link", "timer"} /\ error'[u] = "EOK"
    BY <1>1 DEF MbThreads, MbWaiting
  <2>2. ASSUME NEW l \in {"mbrecv", "mbsend"}, NEW u \in ToSet(queue'[l])
        PROVE  WaitList(u)' = l
    <3>1. u \in Threads /\ stat[u] = "SUSPEND" /\ WaitList(u) = l
      BY <1>1, MbListed
    <3>2. mbOp'[u] = mbOp[u]
      BY <1>1, <3>1
    <3> QED
      BY <3>1, <3>2 DEF WaitList
  <2>3. \A u \in Threads : mbOp'[u] # "recv" /\ mbPc'[u] \notin MbOutside => mbValue'[u] \in Mails
    BY <1>1 DEF MbThreads, MbWaiting
  <2> QED
    BY <2>1, <2>2, <2>3 DEF MbWaiting
<1>4. \A l : MbFor(l) \ {t} \subseteq MbFor(l)'
  BY <1>1 DEF MbFor, MbComes, MbWakes, WaitList, OtherList
<1> QED
  BY <1>1, <1>2, <1>3, <1>4 DEF MbThreads

\* one by which t starts to wait, in the locked section,
LEMMA MbOneWaits ==
    ASSUME MbThreads, NEW t \in Threads, MbAlone(t), mbPc[t] = "enter",
           Suspend(t, WaitList(t), mbWait[t]), MbGoto(t, "wait"), MbTypeOK',
           UNCHANGED <<mbOp, mbValue>>
    PROVE  /\ MbThreads'
           /\ \A l \in {"mbrecv", "mbsend"} :
                 l # WaitList(t) /\ queue'[l] # <<>> => queue[l] # <<>>
           /\ \A l : MbFor(l) \ {t} \subseteq MbFor(l)'
<1> DEFINE l == WaitList(t)
<1>1. /\ IpcTypeOK /\ SuspendedIsLinked /\ l \in Lists /\ l \in {"mbrecv", "mbsend"}
      /\ stat[t] = "RUN" /\ DOMAIN mbPc = Threads
      /\ stat \in [Threads -> {"RUN", "SUSPEND"}] /\ error \in [Threads -> Errors]
  <2>1. DOMAIN mbPc = Threads
    BY DEF MbThreads, MbTypeOK
  <2> QED
    BY <2>1, MbLists, MbNotWaiting, MbAllLinked DEF MbThreads, IpcTypeOK
<1>2. /\ error' = [error EXCEPT ![t] = "EOK"] /\ stat' = [stat EXCEPT ![t] = "SUSPEND"]
      /\ mbPc' = [mbPc EXCEPT ![t] = "wait"]
  BY DEF Suspend, ListSuspend, MbGoto
<1>3. /\ IpcTypeOK' /\ SuspendedIsLinked'
      /\ \A k \in Lists : ToSet(queue'[k]) = IF k = l THEN ToSet(queue[k]) \cup {t}
                                             ELSE ToSet(queue[k])
  BY <1>1, SuspendLinks
<1> HIDE DEF l
<1>4. MbWaiting'
  <2>1. \A u \in Threads :
            stat'[u] = "SUSPEND" => mbPc'[u] \in {"wait", "link", "timer"} /\ error'[u] = "EOK"
    BY <1>1, <1>2 DEF MbThreads, MbWaiting
  <2>2. ASSUME NEW k \in {"mbrecv", "mbsend"}, NEW u \in ToSet(queue'[k])
        PROVE  WaitList(u)' = k
    <3>1. k \in Lists
      BY MbLists
    <3>2. WaitList(u)' = WaitList(u)
      BY DEF WaitList
    <3>3. CASE u \in ToSet(queue[k])
      BY <3>2, <3>3, MbListed
    <3>4. CASE u \notin ToSet(queue[k])
      <4>1. k = l /\ u = t
        BY <1>3, <2>2, <3>1, <3>4
      <4> QED
        BY <3>2, <4>1 DEF l
    <3> QED
      BY <3>3, <3>4
  <2>3. \A u \in Threads : mbOp'[u] # "recv" /\ mbPc'[u] \notin MbOutside => mbValue'[u] \in Mails
    BY <1>1, <1>2 DEF MbThreads, MbWaiting, MbOutside
  <2> QED
    BY <2>1, <2>2, <2>3 DEF MbWaiting
<1>5. ASSUME NEW k \in {"mbrecv", "mbsend"}, k # l, queue'[k] # <<>>
      PROVE  queue[k] # <<>>
  <2>1. k \in Lists
    BY MbLists
  <2>2. ToSet(queue'[k]) \subseteq ToSet(queue[k])
    BY <1>3, <1>5, <2>1
  <2> QED
    BY <1>1, <1>3, <1>5, <2>1, <2>2, MqStaysEmpty
<1>6. \A k : MbFor(k) \ {t} \subseteq MbFor(k)'
  BY <1>1, <1>2 DEF MbFor, MbComes, MbWakes, WaitList, OtherList
<1>7. MbLinked'
  <2>1. \A u \in Threads : mbPc'[u] # "link"
    BY <1>1, <1>2 DEF MbAlone, UnprotectedAt
  <2> QED
    BY <1>3, <2>1 DEF MbLinked
<1> QED
  BY <1>3, <1>4, <1>5, <1>6, <1>7 DEF MbThreads, l

\* the two by which it does after a wake-up: it suspends itself,
LEMMA MbOneSleeps ==
    ASSUME MbThreads, NEW t \in Threads, MbAlone(t), mbPc[t] = "sleep", error[t] = "EOK",
           stat' = [stat EXCEPT ![t] = "SUSPEND"], timer' = [timer EXCEPT ![t] = FALSE],
           UNCHANGED <<error, queue, irqoff, expired>>,
           MbGoto(t, "link"), MbTypeOK', UNCHANGED <<mbOp, mbValue>>
    PROVE  MbThreads' /\ \A l : MbFor(l) \subseteq MbFor(l)'
<1>1. /\ IpcTypeOK /\ SuspendedIsLinked /\ stat[t] = "RUN" /\ DOMAIN mbPc = Threads
      /\ stat \in [Threads -> {"RUN", "SUSPEND"}]
  <2>1. DOMAIN mbPc = Threads
    BY DEF MbThreads, MbTypeOK
  <2> QED
    BY <2>1, MbNotWaiting, MbAllLinked DEF IpcTypeOK
<1>2. mbPc' = [mbPc EXCEPT ![t] = "link"]
  BY DEF MbGoto
<1>3. IpcTypeOK'
  BY <1>1 DEF IpcTypeOK
<1>4. MbLinked'
  <2>1. \A u \in Threads \ {t} : mbPc'[u] # "link"
    BY <1>1, <1>2 DEF MbAlone, UnprotectedAt
  <2>2. stat'[t] = "SUSPEND" /\ \A u \in Threads \ {t} : stat'[u] = stat[u]
    BY <1>1
  <2>3. MbLoose(t)'
    BY <1>1, <2>2 DEF MbLoose, SuspendedIsLinked
  <2> QED
    BY <1>1, <1>2, <2>1, <2>3 DEF MbLinked
<1>5. MbWaiting'
  <2>1. \A u \in Threads :
            stat'[u] = "SUSPEND" => mbPc'[u] \in {"wait", "link", "timer"} /\ error'[u] = "EOK"
    BY <1>1, <1>2 DEF MbThreads, MbWaiting
  <2>2. \A l \in {"mbrecv", "mbsend"} : \A u \in ToSet(queue'[l]) : WaitList(u)' = l
    BY DEF MbThreads, MbWaiting, WaitList
  <2>3. \A u \in Threads : mbOp'[u] # "recv" /\ mbPc'[u] \notin MbOutside => mbValue'[u] \in Mails
    BY <1>1, <1>2 DEF MbThreads, MbWaiting, MbOutside
  <2> QED
    BY <2>1, <2>2, <2>3 DEF MbWaiting
<1>6. \A l : MbFor(l) \subseteq MbFor(l)'
  BY <1>1, <1>2 DEF MbFor, MbComes, MbWakes, WaitList, OtherList
<1> QED
  BY <1>3, <1>4, <1>5, <1>6 DEF MbThreads

\* and is inserted into its list,
LEMMA MbOneLinks ==
    ASSUME MbThreads, NEW t \in Threads, MbAlone(t), mbPc[t] = "link",
           queue' = [queue EXCEPT ![WaitList(t)] = Place(@, t, Flag, Prio)],
           UNCHANGED <<stat, error, timer, irqoff, expired>>,
           MbGoto(t, "timer"), MbTypeOK', UNCHANGED <<mbOp, mbValue>>
    PROVE  /\ MbThreads'
           /\ \A l \in {"mbrecv", "mbsend"} :
                 l # WaitList(t) /\ queue'[l] # <<>> => queue[l] # <<>>
           /\ \A l : MbFor(l) \subseteq MbFor(l)'
<1> DEFINE l == WaitList(t)
           p == Place(queue[l], t, Flag, Prio)
<1>1. /\ l \in Lists /\ l \in {"mbrecv", "mbsend"} /\ MbLoose(t) /\ IpcTypeOK
      /\ DOMAIN mbPc = Threads /\ queue \in [Lists -> Seq(Threads)]
  BY MbLists DEF MbThreads, MbTypeOK, MbLinked, IpcTypeOK
<1>2. mbPc' = [mbPc EXCEPT ![t] = "timer"] /\ queue' = [queue EXCEPT ![l] = p]
  BY DEF MbGoto
<1>3. p \in Seq(Threads) /\ ToSet(p) = ToSet(queue[l]) \cup {t} /\ IsInjective(p)
  <2>1. queue[l] \in Seq(Threads) /\ IsInjective(queue[l]) /\ t \notin ToSet(queue[l])
    BY <1>1 DEF MbLoose
  <2> QED
    BY ONLY <2>1, t \in Threads, PlaceProperties
<1>4. \A u : WaitList(u)' = WaitList(u)
  BY DEF WaitList
<1> HIDE DEF l, p
<1>5. /\ queue' \in [Lists -> Seq(Threads)]
      /\ \A k \in Lists : queue'[k] = IF k = l THEN p ELSE queue[k]
  BY <1>1, <1>2, <1>3
<1>6. \A k \in Lists : \A s :
          s \in ToSet(queue'[k]) <=> s \in ToSet(queue[k]) \/ (k = l /\ s = t)
  <2>1. ASSUME NEW k \in Lists, NEW s
        PROVE  s \in ToSet(queue'[k]) <=> s \in ToSet(queue[k]) \/ (k = l /\ s = t)
    <3>1. CASE k = l
      <4>1. queue'[k] = p
        BY <1>5, <3>1
      <4> QED
        BY <1>3, <3>1, <4>1
    <3>2. CASE k # l
      <4>1. queue'[k] = queue[k]
        BY <1>5, <3>2
      <4> QED
        BY <3>2, <4>1
    <3> QED
      BY <3>1, <3>2
  <2> QED
    BY <2>1
<1>7. IpcTypeOK'
  BY <1>1, <1>5 DEF IpcTypeOK
<1>8. SuspendedIsLinked'
  <2>1. ASSUME NEW u \in Threads
        PROVE  stat'[u] = "SUSPEND" <=> \E k \in Lists : u \in ToSet(queue'[k])
    <3>1. CASE u = t
      <4>1. stat'[u] = "SUSPEND" /\ u \in ToSet(queue'[l])
        BY <1>1, <1>6, <3>1 DEF MbLoose
      <4> QED
        BY <1>1, <4>1
    <3>2. CASE u # t
      <4>1. \A k \in Lists : u \in ToSet(queue'[k]) <=> u \in ToSet(queue[k])
        BY <1>6, <3>2
      <4>2. stat[u] = "SUSPEND" <=> \E k \in Lists : u \in ToSet(queue[k])
        BY <1>1, <3>2 DEF MbLoose
      <4> QED
        BY <4>1, <4>2
    <3> QED
      BY <3>1, <3>2
  <2>2. \A k \in Lists : IsInjective(queue'[k])
    BY <1>1, <1>3, <1>5 DEF MbLoose
  <2>3. \A k, m \in Lists : k # m => ToSet(queue'[k]) \cap ToSet(queue'[m]) = {}
    <3> SUFFICES ASSUME NEW k \in Lists, NEW m \in Lists, k # m,
                        NEW s, s \in ToSet(queue'[k]), s \in ToSet(queue'[m])
                 PROVE  FALSE
      OBVIOUS
    <3>1. ~(s \in ToSet(queue[k]) /\ s \in ToSet(queue[m]))
      BY <1>1 DEF MbLoose
    <3>2. t \notin ToSet(queue[k]) /\ t \notin ToSet(queue[m])
      BY <1>1 DEF MbLoose
    <3>3. /\ s \in ToSet(queue[k]) \/ (k = l /\ s = t)
          /\ s \in ToSet(queue[m]) \/ (m = l /\ s = t)
      BY <1>6
    <3> QED
      BY <3>1, <3>2, <3>3
  <2> QED
    BY <2>1, <2>2, <2>3 DEF SuspendedIsLinked
<1>9. MbLinked'
  <2>1. \A u \in Threads : mbPc'[u] # "link"
    BY <1>1, <1>2 DEF MbAlone, UnprotectedAt
  <2> QED
    BY <1>8, <2>1 DEF MbLinked
<1>10. MbWaiting'
  <2>1. \A u \in Threads :
            stat'[u] = "SUSPEND" => mbPc'[u] \in {"wait", "link", "timer"} /\ error'[u] = "EOK"
    BY <1>1, <1>2 DEF MbThreads, MbWaiting
  <2>2. ASSUME NEW k \in {"mbrecv", "mbsend"}, NEW u \in ToSet(queue'[k])
        PROVE  WaitList(u)' = k
    <3>1. k \in Lists
      BY MbLists
    <3>2. u \in ToSet(queue[k]) \/ (k = l /\ u = t)
      BY <1>6, <2>2, <3>1
    <3>3. u \in ToSet(queue[k]) => WaitList(u) = k
      BY MbListed
    <3> QED
      BY <1>4, <3>2, <3>3 DEF l
  <2>3. \A u \in Threads : mbOp'[u] # "recv" /\ mbPc'[u] \notin MbOutside => mbValue'[u] \in Mails
    BY <1>1, <1>2 DEF MbThreads, MbWaiting, MbOutside
  <2> QED
    BY <2>1, <2>2, <2>3 DEF MbWaiting
<1>11. \A k \in {"mbrecv", "mbsend"} : k # l /\ queue'[k] # <<>> => queue[k] # <<>>
  BY <1>5, MbLists
<1>12. \A k : MbFor(k) \subseteq MbFor(k)'
  BY <1>1, <1>2 DEF MbFor, MbComes, MbWakes, WaitList, OtherList
<1> QED
  BY <1>7, <1>9, <1>10, <1>11, <1>12 DEF MbThreads, l

\* and one by which the first thread of the other list is resumed, if there is one.
LEMMA MbOneWakes ==
    ASSUME MbThreads, NEW t \in Threads, MbAlone(t), stat[t] = "RUN", MbTypeOK',
           UNCHANGED mbOp, mbPc'[t] = "idle",
           NEW l \in {"mbrecv", "mbsend"}, l = OtherList(t), ResumeFirst(l),
           \A u \in Threads \ {t} : mbPc'[u] = mbPc[u] /\ mbValue'[u] = mbValue[u]
    PROVE  /\ MbThreads'
           /\ \A k \in {"mbrecv", "mbsend"} : queue'[k] # <<>> => queue[k] # <<>>
           /\ \A k : MbFor(k) \ {t} \subseteq MbFor(k)'
           /\ queue[l] # <<>> =>
                 \E h \in Threads \ {t} : /\ h \notin MbFor(l)
                                          /\ (MbFor(l) \ {t}) \cup {h} \subseteq MbFor(l)'
<1> PICK h : h = Head(queue[l])
  OBVIOUS
<1>1. /\ IpcTypeOK /\ SuspendedIsLinked /\ l \in Lists
      /\ stat \in [Threads -> {"RUN", "SUSPEND"}] /\ error \in [Threads -> Errors]
  <2>1. mbPc[t] # "link"
    BY DEF MbThreads, MbLinked, MbLoose
  <2>2. SuspendedIsLinked /\ IpcTypeOK
    BY <2>1, MbAllLinked
  <2> QED
    BY <2>2, MbLists DEF IpcTypeOK
<1>2. /\ IpcTypeOK' /\ SuspendedIsLinked'
      /\ error' = error
      /\ queue[l] = <<>> => UNCHANGED <<stat, queue>>
      /\ queue[l] # <<>> =>
            /\ stat' = [stat EXCEPT ![h] = "RUN"]
            /\ \A k \in Lists : ToSet(queue'[k]) = ToSet(queue[k]) \ {h}
  BY <1>1, ResumeFirstUnlinks
<1>3. queue[l] # <<>> => h \in Threads /\ h \in ToSet(queue[l]) /\ stat[h] = "SUSPEND"
  BY <1>1, HeadSuspended
<1>4. \A k \in Lists : ToSet(queue'[k]) \subseteq ToSet(queue[k])
  BY <1>2
<1>5. ASSUME NEW k \in {"mbrecv", "mbsend"}, queue'[k] # <<>>
      PROVE  queue[k] # <<>>
  <2>1. k \in Lists
    BY MbLists
  <2> QED
    BY <1>1, <1>2, <1>4, <1>5, <2>1, MqStaysEmpty
<1>6. ASSUME NEW u \in Threads, stat'[u] = "SUSPEND"
      PROVE  stat[u] = "SUSPEND" /\ u # t
  BY <1>1, <1>2, <1>3, <1>6
<1>7. MbWaiting'
  <2>1. \A u \in Threads :
            stat'[u] = "SUSPEND" => mbPc'[u] \in {"wait", "link", "timer"} /\ error'[u] = "EOK"
    BY <1>2, <1>6 DEF MbThreads, MbWaiting
  <2>2. ASSUME NEW k \in {"mbrecv", "mbsend"}, NEW u \in ToSet(queue'[k])
        PROVE  WaitList(u)' = k
    <3>1. k \in Lists /\ u \in ToSet(queue[k])
      BY <1>4, MbLists
    <3>2. WaitList(u) = k
      BY <3>1, MbListed
    <3> QED
      BY <3>2 DEF WaitList
  <2>3. \A u \in Threads : mbOp'[u] # "recv" /\ mbPc'[u] \notin MbOutside => mbValue'[u] \in Mails
    BY DEF MbThreads, MbWaiting, MbOutside
  <2> QED
    BY <2>1, <2>2, <2>3 DEF MbWaiting
<1>8. \A k : MbFor(k) \ {t} \subseteq MbFor(k)'
  <2>1. \A u \in Threads : stat[u] = "RUN" => stat'[u] = "RUN"
    BY <1>1, <1>2, <1>3
  <2> QED
    BY <1>2, <2>1 DEF MbFor, MbComes, MbWakes, WaitList, OtherList
<1>9. ASSUME queue[l] # <<>>
      PROVE  /\ h \in Threads \ {t} /\ h \notin MbFor(l)
             /\ (MbFor(l) \ {t}) \cup {h} \subseteq MbFor(l)'
  <2>1. /\ h \in Threads /\ stat[h] = "SUSPEND" /\ WaitList(h) = l
        /\ mbPc[h] \in {"wait", "timer"} /\ error[h] = "EOK" /\ h \notin MbFor(l)
    BY <1>1, <1>3, <1>9, MbListed
  <2>2. h # t /\ mbPc[h] = "wait"
    BY <2>1 DEF MbAlone, UnprotectedAt
  <2>3. mbPc'[h] = "wait" /\ stat'[h] = "RUN" /\ error'[h] = "EOK" /\ WaitList(h)' = l
    BY <1>1, <1>2, <1>9, <2>1, <2>2 DEF WaitList
  <2>4. h \in MbFor(l)'
    BY <2>1, <2>3 DEF MbFor, MbComes
  <2> QED
    BY <1>8, <2>1, <2>2, <2>4
<1>10. MbLinked'
  <2>1. \A u \in Threads : mbPc'[u] # "link"
    BY DEF MbAlone, UnprotectedAt
  <2> QED
    BY <1>2, <2>1 DEF MbLinked
<1> QED
  BY <1>2, <1>5, <1>7, <1>8, <1>9, <1>10 DEF MbThreads

\* A step that takes suspended threads out of their lists, with an error, and moves no
\* thread but one that is in no operation.
LEMMA MbSomeLeave ==
    ASSUME MbThreads, IpcTypeOK', SuspendedIsLinked', MbTypeOK', NEW t \in Threads, MbAlone(t),
           UNCHANGED <<mbOp, mbValue>>, \A u \in Threads \ {t} : mbPc'[u] = mbPc[u],
           mbPc[t] # "link", mbPc'[t] = mbPc[t] \/ {mbPc[t], mbPc'[t]} \subseteq MbOutside,
           \A k \in Lists : ToSet(queue'[k]) \subseteq ToSet(queue[k]),
           \A u \in Threads : stat'[u] = "SUSPEND" => stat[u] = "SUSPEND" /\ error'[u] = error[u],
           \A u \in Threads : stat[u] = "RUN" => stat'[u] = "RUN" /\ error'[u] = error[u]
    PROVE  /\ MbThreads'
           /\ \A l \in {"mbrecv", "mbsend"} : queue'[l] # <<>> => queue[l] # <<>>
           /\ \A l : MbFor(l) \subseteq MbFor(l)'
<1>1. IpcTypeOK /\ IpcTypeOK'
  BY DEF MbThreads
<1>2. ASSUME NEW k \in {"mbrecv", "mbsend"}
      PROVE  /\ queue'[k] # <<>> => queue[k] # <<>>
             /\ \A u \in ToSet(queue'[k]) : WaitList(u)' = k
  <2>1. k \in Lists
    BY MbLists
  <2>2. queue'[k] # <<>> => queue[k] # <<>>
    BY <1>1, <2>1, MqStaysEmpty
  <2>3. ASSUME NEW u \in ToSet(queue'[k]) PROVE WaitList(u)' = k
    <3>1. u \in ToSet(queue[k])
      BY <2>1
    <3>2. WaitList(u) = k
      BY <3>1, MbListed
    <3> QED
      BY <3>2 DEF WaitList
  <2> QED
    BY <2>2, <2>3
<1>3. \A u \in Threads :
          stat'[u] = "SUSPEND" => mbPc'[u] \in {"wait", "link", "timer"} /\ error'[u] = "EOK"
  BY DEF MbThreads, MbWaiting, MbOutside
<1>4. \A u \in Threads : mbOp'[u] # "recv" /\ mbPc'[u] \notin MbOutside => mbValue'[u] \in Mails
  BY DEF MbThreads, MbWaiting
<1>5. MbWaiting'
  BY <1>2, <1>3, <1>4 DEF MbWaiting
<1>6. \A l : MbFor(l) \subseteq MbFor(l)'
  BY DEF MbFor, MbComes, MbWakes, WaitList, OtherList, MbOutside
<1>7. MbLinked'
  <2>1. \A u \in Threads : mbPc'[u] # "link"
    BY DEF MbAlone, UnprotectedAt, MbOutside
  <2> QED
    BY <2>1 DEF MbLinked
<1> QED
  BY <1>1, <1>2, <1>5, <1>6, <1>7 DEF MbThreads

\* Who waits in list l is served as before: no mail (no free slot) more, one less and t
\* gone, one more and t come, or t gone and h come.
LEMMA MbStillServed ==
    ASSUME NEW l, MbLeft(l) \in Nat, MbLeft(l)' \in Nat,
           MbLeft(l) <= Cardinality(MbFor(l)), NEW t \in Threads,
           \/ MbLeft(l)' <= MbLeft(l) /\ MbFor(l) \subseteq MbFor(l)'
           \/ MbLeft(l)' + 1 <= MbLeft(l) /\ MbFor(l) \ {t} \subseteq MbFor(l)'
           \/ /\ MbLeft(l)' <= MbLeft(l) + 1 /\ t \notin MbFor(l)
              /\ MbFor(l) \cup {t} \subseteq MbFor(l)'
           \/ /\ MbLeft(l)' <= MbLeft(l)
              /\ \E h \in Threads \ {t} : /\ h \notin MbFor(l)
                                          /\ (MbFor(l) \ {t}) \cup {h} \subseteq MbFor(l)'
    PROVE  MbLeft(l)' <= Cardinality(MbFor(l)')
<1>1. PICK A \in SUBSET Threads : A = MbFor(l)
  BY MbLists
<1>2. PICK B \in SUBSET Threads : B = MbFor(l)'
  BY MbLists
<1>3. PICK m \in Nat : m = MbLeft(l)
  OBVIOUS
<1>4. PICK n \in Nat : n = MbLeft(l)'
  OBVIOUS
<1>5. CASE \/ n <= m /\ A \subseteq B
           \/ n + 1 <= m /\ A \ {t} \subseteq B
           \/ n <= m + 1 /\ A \cup {t} \subseteq B /\ t \notin A
  BY <1>1, <1>2, <1>3, <1>4, <1>5, MpStillServed
<1>6. ASSUME n <= m, NEW h \in Threads \ {t}, h \notin A, (A \ {t}) \cup {h} \subseteq B
      PROVE  n <= Cardinality(B)
  <2>1. PICK C \in SUBSET Threads : C = A \ {t}
    OBVIOUS
  <2>2. Cardinality(A) \in Nat /\ Cardinality(C) \in Nat /\ Cardinality(A) <= Cardinality(C) + 1
    BY <2>1, MqLookingCounts
  <2>3. Cardinality(B) \in Nat /\ Cardinality(C) + 1 <= Cardinality(B)
    BY <1>6, <2>1, MqLookingCounts
  <2> QED
    BY <1>1, <1>3, <1>6, <2>2, <2>3
<1> QED
  BY <1>1, <1>2, <1>3, <1>4, <1>5, <1>6

\* MailsServed, from the invariant.
LEMMA MbInvServes == ASSUME MbInv PROVE MbTypeOK /\ MailsServed
<1> USE MbAssumption
<1>1. /\ MbTypeOK /\ mails \in Seq(Mails) /\ mbEntry \in 0..MbSize /\ Len(mails) = mbEntry
  BY DEF MbInv, MbThreads, MbContents
<1>2. ASSUME Unprotected = {} PROVE Ring = mails /\ inOffset = (outOffset + mbEntry) % MbSize
  <2>1. MbRing(mbEntry, mails, inOffset, outOffset, pool)
    BY <1>2 DEF MbInv, MbContents, MbAhead, Unprotected, UnprotectedAt
  <2>2. /\ outOffset \in Slots /\ inOffset = MbWrap(outOffset + mbEntry)
        /\ \A i \in 1..mbEntry : pool[MbWrap(outOffset + i - 1)] = mails[i]
    BY <2>1 DEF MbRing
  <2>3. /\ (outOffset + mbEntry) % MbSize = MbWrap(outOffset + mbEntry)
        /\ \A i \in 1..mbEntry : (outOffset + i - 1) % MbSize = MbWrap(outOffset + i - 1)
    <3>1. /\ outOffset + mbEntry \in 0..2*MbSize - 1
          /\ \A i \in 1..mbEntry : outOffset + i - 1 \in 0..2*MbSize - 1
      BY <1>1, <2>2 DEF Slots
    <3> QED
      BY <3>1, MbWrapIsModulo
  <2>4. \A i \in 1..mbEntry : pool[(outOffset + i - 1) % MbSize] = mails[i]
    BY <2>2, <2>3
  <2>5. mails = [i \in 1..mbEntry |-> mails[i]]
    BY <1>1
  <2> QED
    BY <2>2, <2>3, <2>4, <2>5 DEF Ring
<1>3. \A t \in Threads : mbOp[t] = "recv" /\ mbPc[t] \in {"offset", "load", "store"}
                            => mbValue[t] = Head(mails)
  BY DEF MbInv, MbPhases, MbHolds
<1>4. NoMailInVain
  <2>1. /\ MbFor("mbrecv") = MbComing({"recv"}) \cup MbResuming({"send", "urgent"})
        /\ MbFor("mbsend") = MbComing({"send", "urgent"}) \cup MbResuming({"recv"})
    BY <1>1 DEF MbTypeOK, MbFor, MbComes, MbWakes, WaitList, OtherList, MbComing, MbResuming
  <2> QED
    BY <2>1 DEF MbInv, MbServed, MbLeft, NoMailInVain
<1> QED
  BY <1>1, <1>2, <1>3, <1>4 DEF MailsServed, MailsInOrder, MailsKept

LEMMA MbInitial == IpcInit /\ MbInit => MbInv
<1>. SUFFICES ASSUME IpcInit, MbInit PROVE MbInv
  OBVIOUS
<1> USE MbAssumption DEF MbInit
<1>1. IpcTypeOK /\ SuspendedIsLinked
  BY IpcInitLinked
<1>2. ToSet(<<>>) = {} /\ <<>> \in Seq(Mails) /\ Len(<<>>) = 0
  BY DEF ToSet
<1>3. MbTypeOK
  <2>1. pool \in [Slots -> Mails \cup {NoMail}]
    OBVIOUS
  <2>2. /\ mbOp \in [Threads -> {"send", "urgent", "recv"}]
        /\ mbPc \in [Threads -> MbLabels] /\ mbTarget \in [Threads -> Threads \cup {Nobody}]
        /\ mbWait \in [Threads -> {"no", "timed", "forever"}]
        /\ mbValue \in [Threads -> Mails \cup {NoMail}]
        /\ mbReg \in [Threads -> 0..MbEntryMax]
    BY DEF MbLabels
  <2>3. mbEntry \in 0..MbEntryMax /\ inOffset \in Slots /\ outOffset \in Slots
    BY DEF Slots
  <2>4. mbAlive \in BOOLEAN /\ disturbed \in BOOLEAN /\ mails \in Seq(Mails)
    BY <1>2
  <2> QED
    BY <2>1, <2>2, <2>3, <2>4 DEF MbTypeOK
<1>4. MbWaiting /\ MbServed
  BY <1>2, MbLists DEF IpcInit, MbWaiting, MbServed, MbOutside
<1>5. MbPhases
  BY DEF MbPhases, MbHolds
<1>6. MbContents
  <2>1. MbRing(mbEntry, mails, inOffset, outOffset, pool)
    BY <1>2, <1>3 DEF MbRing, MbTypeOK, Slots, MbWrap
  <2> QED
    BY <1>2, <2>1 DEF MbContents, MbAhead
<1>7. MbLinked
  BY <1>1 DEF MbLinked
<1> QED
  BY <1>1, <1>3, <1>4, <1>5, <1>6, <1>7 DEF MbInv, MbThreads

\* A step of t with nobody between the unprotected statements: what t needs is enough.
LEMMA MbAloneStep ==
    ASSUME NEW t \in Threads, MbAlone(t), \A u \in Threads \ {t} : mbPc'[u] = mbPc[u],
           mails' \in Seq(Mails), mbEntry' \in 0..MbSize, Len(mails') = mbEntry',
           ~MbAhead(t)' => MbRing(mbEntry', mails', inOffset', outOffset', pool'),
           MbAhead(t)' => MbRing(MbEntryAfter(t)', MbMailsAfter(t)', inOffset', outOffset', pool'),
           MbHolds(t)'
    PROVE  MbContents' /\ MbPhases'
<1>1. \A u \in Threads \ {t} : mbPc'[u] \notin UnprotectedAt
  BY DEF MbAlone
<1>2. \A u \in Threads \ {t} : MbHolds(u)' /\ ~MbAhead(u)'
  BY <1>1 DEF UnprotectedAt, MbHolds, MbAhead
<1>3. MbPhases'
  BY <1>2 DEF MbPhases
<1>4. MbContents'
  BY <1>2 DEF MbContents
<1> QED
  BY <1>3, <1>4

LEMMA MbCounts ==
    /\ MbContents => \A l \in {"mbrecv", "mbsend"} : MbLeft(l) \in Nat
    /\ MbContents' => \A l \in {"mbrecv", "mbsend"} : MbLeft(l)' \in Nat
  BY MbAssumption DEF MbContents, MbLeft

\* Whoever must wait finds nothing left of what it comes for.
LEMMA MbMustWaitLeft ==
    ASSUME MbContents, NEW t PROVE MustWait(t) <=> MbLeft(WaitList(t)) = 0
  BY MbAssumption DEF MbContents, MustWait, MbLeft, WaitList

\* The ring before a step with nobody else between the unprotected statements.
LEMMA MbRingBefore ==
    ASSUME MbInv, NEW t \in Threads, MbAlone(t)
    PROVE  /\ mails \in Seq(Mails) /\ mbEntry \in 0..MbSize /\ Len(mails) = mbEntry
           /\ ~MbAhead(t) => MbRing(mbEntry, mails, inOffset, outOffset, pool)
           /\ MbAhead(t) => MbRing(MbEntryAfter(t), MbMailsAfter(t), inOffset, outOffset, pool)
           /\ MbHolds(t)
<1>1. \A u \in Threads \ {t} : ~MbAhead(u)
  BY DEF MbAlone, UnprotectedAt, MbAhead
<1> QED
  BY <1>1 DEF MbInv, MbContents, MbPhases

\* A step of t that touches no list.
LEMMA MbLoneMove ==
    ASSUME MbInv, NEW t \in Threads, MbAlone(t), MbMoves(t),
           mails' \in Seq(Mails), mbEntry' \in 0..MbSize, Len(mails') = mbEntry',
           ~MbAhead(t)' => MbRing(mbEntry', mails', inOffset', outOffset', pool'),
           MbAhead(t)' => MbRing(MbEntryAfter(t)', MbMailsAfter(t)', inOffset', outOffset', pool'),
           MbHolds(t)',
           \A l \in {"mbrecv", "mbsend"} :
              \/ queue[l] = <<>> \/ MbLeft(l)' = 0
              \/ MbLeft(l)' <= MbLeft(l) /\ (t \in MbFor(l) => t \in MbFor(l)')
              \/ MbLeft(l)' + 1 <= MbLeft(l)
              \/ MbLeft(l)' <= MbLeft(l) + 1 /\ t \notin MbFor(l) /\ t \in MbFor(l)'
    PROVE  MbInv'
<1>1. MbThreads' /\ queue' = queue /\ \A l : MbFor(l) \ {t} \subseteq MbFor(l)'
  BY MbOneMoves DEF MbInv, MbMoves
<1>2. MbContents' /\ MbPhases'
  <2>1. \A u \in Threads \ {t} : mbPc'[u] = mbPc[u]
    BY DEF MbMoves
  <2> QED
    BY <2>1, MbAloneStep
<1>3. ASSUME NEW l \in {"mbrecv", "mbsend"}, queue'[l] # <<>>
      PROVE  MbLeft(l)' <= Cardinality(MbFor(l)')
  <2>1. MbLeft(l) \in Nat /\ MbLeft(l)' \in Nat
    BY <1>2, MbCounts DEF MbInv
  <2>2. MbLeft(l) <= Cardinality(MbFor(l)) /\ MbFor(l) \ {t} \subseteq MbFor(l)'
    BY <1>1, <1>3 DEF MbInv, MbServed
  <2>3. CASE MbLeft(l)' = 0
    <3>1. IsFiniteSet(MbFor(l)')
      BY MbLists, WaitAssumption, FS_Subset
    <3>2. Cardinality(MbFor(l)') \in Nat
      BY <3>1, FS_CardinalityType
    <3> QED
      BY <2>3, <3>2
  <2>4. CASE MbLeft(l)' <= MbLeft(l) /\ (t \in MbFor(l) => t \in MbFor(l)')
    <3>1. MbFor(l) \subseteq MbFor(l)'
      BY <2>2, <2>4
    <3> QED
      BY <2>1, <2>2, <2>4, <3>1, MbStillServed
  <2>5. CASE MbLeft(l)' + 1 <= MbLeft(l)
    BY <2>1, <2>2, <2>5, MbStillServed
  <2>6. CASE MbLeft(l)' <= MbLeft(l) + 1 /\ t \notin MbFor(l) /\ t \in MbFor(l)'
    <3>1. MbFor(l) \cup {t} \subseteq MbFor(l)'
      BY <2>2, <2>6
    <3> QED
      BY <2>1, <2>2, <2>6, <3>1, MbStillServed
  <2> QED
    BY <1>1, <1>3, <2>3, <2>4, <2>5, <2>6
<1> QED
  BY <1>1, <1>2, <1>3 DEF MbInv, MbServed

\* The types after a step that leaves the mails alone,
LEMMA MbTypesAfter ==
    ASSUME MbTypeOK, UNCHANGED mbShared, disturbed' = FALSE, mbAlive' \in BOOLEAN,
           mbOp' \in [Threads -> {"send", "urgent", "recv"}],
           mbPc' \in [Threads -> MbLabels], mbWait' \in [Threads -> {"no", "timed", "forever"}],
           mbValue' \in [Threads -> Mails \cup {NoMail}], mbReg' \in [Threads -> 0..MbEntryMax],
           mbTarget' \in [Threads -> Threads \cup {Nobody}]
    PROVE  MbTypeOK'
  BY DEF MbTypeOK, mbShared

\* and one such step, which touches no list either.
LEMMA MbPlainMove ==
    ASSUME MbInv, NEW t \in Threads, MbAlone(t), MbMoves(t), UNCHANGED mbShared,
           ~MbAhead(t), ~MbAhead(t)', MbHolds(t)',
           \A l \in {"mbrecv", "mbsend"} :
              t \in MbFor(l) => t \in MbFor(l)' \/ queue[l] = <<>> \/ MbLeft(l) = 0
    PROVE  MbInv'
<1>1. UNCHANGED <<mbEntry, inOffset, outOffset, pool, mails>>
  BY DEF mbShared
<1>2. /\ mails \in Seq(Mails) /\ mbEntry \in 0..MbSize /\ Len(mails) = mbEntry
      /\ MbRing(mbEntry, mails, inOffset, outOffset, pool)
  BY MbRingBefore
<1>3. ASSUME NEW l \in {"mbrecv", "mbsend"}
      PROVE  \/ queue[l] = <<>> \/ MbLeft(l)' = 0
             \/ MbLeft(l)' <= MbLeft(l) /\ (t \in MbFor(l) => t \in MbFor(l)')
  <2>1. MbLeft(l) \in Nat /\ MbLeft(l)' = MbLeft(l)
    BY <1>1, MbCounts DEF MbInv, MbLeft
  <2> QED
    BY <2>1
<1>4. /\ mails' \in Seq(Mails) /\ mbEntry' \in 0..MbSize /\ Len(mails') = mbEntry'
      /\ MbRing(mbEntry', mails', inOffset', outOffset', pool')
  BY <1>1, <1>2
<1> QED
  BY <1>3, <1>4, MbLoneMove

LEMMA MbCallKeeps ==
    ASSUME MbInv, NEW t \in Threads, MbAlone(t), NEW o \in {"send", "urgent", "recv"},
           NEW v \in Mails \cup {NoMail}, o # "recv" => v \in Mails,
           NEW time \in {"no", "timed", "forever"}, MbCall(t, o, v, time)
    PROVE  MbInv'
<1>1. /\ mbPc[t] = "idle" /\ mbOp' = [mbOp EXCEPT ![t] = o]
      /\ mbValue' = [mbValue EXCEPT ![t] = v] /\ mbWait' = [mbWait EXCEPT ![t] = time]
      /\ MbGoto(t, "enter") /\ UNCHANGED <<ipcVars, mbShared, mbAlive, mbReg, mbTarget>>
  BY DEF MbCall
<1>2. MbTypeOK /\ IpcTypeOK /\ stat[t] = "RUN" /\ "enter" \in MbLabels /\ disturbed' = FALSE
  BY <1>1, MbNotWaiting DEF MbInv, MbThreads, MbLabels, MbAlone
<1>3. /\ mbPc' \in [Threads -> MbLabels] /\ mbPc'[t] = "enter"
      /\ \A u \in Threads \ {t} : mbPc'[u] = mbPc[u]
  BY <1>1, <1>2, MbGoes
<1>4. /\ mbOp \in [Threads -> {"send", "urgent", "recv"}]
      /\ mbValue \in [Threads -> Mails \cup {NoMail}] /\ mbAlive \in BOOLEAN
      /\ mbWait \in [Threads -> {"no", "timed", "forever"}]
      /\ mbReg \in [Threads -> 0..MbEntryMax]
      /\ mbTarget \in [Threads -> Threads \cup {Nobody}]
  BY <1>2 DEF MbTypeOK
<1>5. /\ \A u \in Threads \ {t} : mbOp'[u] = mbOp[u] /\ mbValue'[u] = mbValue[u]
      /\ mbOp'[t] = o /\ mbValue'[t] = v
  BY <1>1, <1>4
<1>6. MbTypeOK'
  <2>1. /\ mbOp' \in [Threads -> {"send", "urgent", "recv"}]
        /\ mbValue' \in [Threads -> Mails \cup {NoMail}]
        /\ mbWait' \in [Threads -> {"no", "timed", "forever"}]
    BY <1>1, <1>4
  <2> QED
    BY <1>1, <1>2, <1>3, <1>4, <2>1, MbTypesAfter
<1>7. MbMoves(t)
  <2>1. UNCHANGED <<stat, error, timer, queue, irqoff, expired>>
    BY <1>1 DEF ipcVars
  <2>2. IpcTypeOK'
    BY <1>2, <2>1 DEF IpcTypeOK
  <2> QED
    BY <1>1, <1>2, <1>3, <1>5, <1>6, <2>1, <2>2 DEF MbMoves
<1>8. MbHolds(t)' /\ ~MbAhead(t) /\ ~MbAhead(t)'
  BY <1>1, <1>3 DEF MbHolds, MbAhead
<1>9. \A l : t \notin MbFor(l)
  BY <1>1 DEF MbFor, MbComes, MbWakes
<1> QED
  BY <1>1, <1>7, <1>8, <1>9, MbPlainMove

\* A thread goes away with nothing, and with an error if its wait has failed.
LEMMA MbReturnKeeps ==
    ASSUME MbInv, NEW t \in Threads, MbAlone(t), stat[t] = "RUN", ~MbAhead(t), MbReturn(t),
           UNCHANGED <<stat, timer, queue, irqoff, expired, mbShared, mbAlive, mbOp>>,
           error' \in [Threads -> Errors], \A u \in Threads \ {t} : error'[u] = error[u],
           \A l \in {"mbrecv", "mbsend"} : t \in MbFor(l) => queue[l] = <<>> \/ MbLeft(l) = 0
    PROVE  MbInv'
<1>1. MbTypeOK /\ IpcTypeOK /\ mbPc[t] # "link" /\ disturbed' = FALSE
  BY DEF MbInv, MbThreads, MbLinked, MbLoose, MbAlone
<1>2. /\ mbPc' \in [Threads -> MbLabels]
      /\ mbWait' \in [Threads -> {"no", "timed", "forever"}]
      /\ mbValue' \in [Threads -> Mails \cup {NoMail}]
      /\ mbReg' \in [Threads -> 0..MbEntryMax]
      /\ mbTarget' \in [Threads -> Threads \cup {Nobody}]
      /\ mbPc'[t] = "idle"
      /\ \A u \in Threads \ {t} : mbPc'[u] = mbPc[u] /\ mbValue'[u] = mbValue[u]
  BY <1>1, MbReturnTypes
<1>3. MbTypeOK'
  <2>1. mbOp' \in [Threads -> {"send", "urgent", "recv"}] /\ mbAlive' \in BOOLEAN
    BY <1>1 DEF MbTypeOK
  <2> QED
    BY <1>1, <1>2, <2>1, MbTypesAfter
<1>4. MbMoves(t)
  <2>1. IpcTypeOK'
    BY <1>1 DEF IpcTypeOK
  <2> QED
    BY <1>1, <1>2, <1>3, <2>1 DEF MbMoves, MbOutside
<1>5. MbHolds(t)' /\ ~MbAhead(t)'
  BY <1>2 DEF MbHolds, MbAhead
<1> QED
  BY <1>4, <1>5, MbPlainMove

\* A thread goes on to label, and touches nothing.
LEMMA MbGoesOn ==
    ASSUME MbInv, NEW t \in Threads, MbAlone(t), NEW label \in MbLabels, MbGoto(t, label),
           UNCHANGED <<stat, queue, mbShared, mbOp, mbValue, mbReg>>, mbAlive' \in BOOLEAN,
           mbWait' \in [Threads -> {"no", "timed", "forever"}],
           mbTarget' \in [Threads -> Threads \cup {Nobody}],
           IpcTypeOK', \A u \in Threads \ {t} : error'[u] = error[u],
           {mbPc[t], label} \cap {"link", "load", "store"} = {},
           stat[t] = "SUSPEND" => label = "wait" /\ error'[t] = error[t],
           mbPc[t] \notin MbOutside \/ label \in MbOutside, MbHolds(t)',
           \A l \in {"mbrecv", "mbsend"} :
              t \in MbFor(l) => t \in MbFor(l)' \/ queue[l] = <<>> \/ MbLeft(l) = 0
    PROVE  MbInv'
<1>1. MbTypeOK /\ disturbed' = FALSE
  BY DEF MbInv, MbThreads, MbAlone
<1>2. /\ mbPc' \in [Threads -> MbLabels] /\ mbPc'[t] = label
      /\ \A u \in Threads \ {t} : mbPc'[u] = mbPc[u]
  BY <1>1, MbGoes
<1>3. MbTypeOK'
  <2>1. /\ mbOp' \in [Threads -> {"send", "urgent", "recv"}]
        /\ mbValue' \in [Threads -> Mails \cup {NoMail}] /\ mbReg' \in [Threads -> 0..MbEntryMax]
    BY <1>1 DEF MbTypeOK
  <2> QED
    BY <1>1, <1>2, <2>1, MbTypesAfter
<1>4. mbOp'[t] # "recv" /\ mbPc'[t] \notin MbOutside => mbValue'[t] \in Mails
  BY <1>2 DEF MbInv, MbThreads, MbWaiting
<1>5. MbMoves(t)
  BY <1>2, <1>3, <1>4 DEF MbMoves
<1>6. ~MbAhead(t) /\ ~MbAhead(t)'
  BY <1>2 DEF MbAhead
<1> QED
  BY <1>5, <1>6, MbPlainMove

\* What MbGoesOn needs when the thread has nothing to remember.
LEMMA MbGoesOnTypes ==
    ASSUME MbInv
    PROVE  /\ MbTypeOK /\ IpcTypeOK
           /\ mbAlive \in BOOLEAN /\ mbWait \in [Threads -> {"no", "timed", "forever"}]
           /\ mbTarget \in [Threads -> Threads \cup {Nobody}]
           /\ UNCHANGED ipcVars => IpcTypeOK' /\ UNCHANGED <<stat, queue, error>>
  BY DEF MbInv, MbThreads, MbTypeOK, IpcTypeOK, ipcVars

LEMMA MbWaitFailsKeeps ==
    ASSUME MbInv, NEW t \in Threads, MbAlone(t), MbWaitFails(t) PROVE MbInv'
<1>1. /\ mbPc[t] = "wait" /\ stat[t] = "RUN" /\ error[t] # "EOK" /\ MbReturn(t)
      /\ UNCHANGED <<stat, error, timer, queue, irqoff, expired, mbShared, mbAlive, mbOp>>
  BY DEF MbWaitFails, ipcVars
<1>2. ~MbAhead(t) /\ \A l : t \notin MbFor(l)
  BY <1>1 DEF MbAhead, MbFor, MbComes, MbWakes
<1>3. error' \in [Threads -> Errors]
  BY <1>1 DEF MbInv, MbThreads, IpcTypeOK
<1> QED
  BY <1>1, <1>2, <1>3, MbReturnKeeps

LEMMA MbLookAgainKeeps ==
    ASSUME MbInv, NEW t \in Threads, MbAlone(t), MbLookAgain(t) PROVE MbInv'
<1>1. PICK time \in Remaining(mbWait[t]) :
        /\ mbPc[t] = "wait" /\ stat[t] = "RUN" /\ error[t] = "EOK"
        /\ mbWait' = [mbWait EXCEPT ![t] = time] /\ MbGoto(t, "again")
        /\ UNCHANGED <<ipcVars, mbShared, mbAlive, mbOp, mbValue, mbReg, mbTarget>>
  BY DEF MbLookAgain
<1>2. /\ MbTypeOK /\ mbAlive \in BOOLEAN /\ mbWait \in [Threads -> {"no", "timed", "forever"}]
      /\ mbTarget \in [Threads -> Threads \cup {Nobody}]
      /\ IpcTypeOK' /\ UNCHANGED <<stat, queue, error>>
  BY <1>1, MbGoesOnTypes
<1>3. time \in {"no", "timed", "forever"} /\ "again" \in MbLabels
  BY <1>2 DEF Remaining, MbLabels, UnprotectedAt
<1>4. mbWait' \in [Threads -> {"no", "timed", "forever"}] /\ mbPc'[t] = "again"
  BY <1>1, <1>2, <1>3, MbGoes
<1>5. MbHolds(t)'
  BY <1>4 DEF MbHolds
<1>6. \A l : t \in MbFor(l) => t \in MbFor(l)'
  BY <1>1, <1>4 DEF MbFor, MbComes, MbWakes, WaitList
<1>7. {mbPc[t], "again"} \cap {"link", "load", "store"} = {} /\ mbPc[t] \notin MbOutside
  BY <1>1 DEF MbOutside
<1> QED
  BY <1>1, <1>2, <1>3, <1>4, <1>5, <1>6, <1>7, MbGoesOn

\* A thread that has suspended itself and is linked starts its timer.
LEMMA MbStartTimerKeeps ==
    ASSUME MbInv, NEW t \in Threads, MbAlone(t), MbStartTimer(t) PROVE MbInv'
<1>1. /\ mbPc[t] \in {"timer", "off"} /\ timer' = [timer EXCEPT ![t] = (mbWait[t] = "timed")]
      /\ MbGoto(t, "wait")
      /\ UNCHANGED <<stat, error, queue, irqoff, expired, mbShared, mbAlive, mbOp, mbWait,
                     mbValue, mbReg, mbTarget>>
  BY DEF MbStartTimer
<1>2. /\ MbTypeOK /\ IpcTypeOK /\ mbAlive \in BOOLEAN
      /\ mbWait \in [Threads -> {"no", "timed", "forever"}]
      /\ mbTarget \in [Threads -> Threads \cup {Nobody}]
  BY MbGoesOnTypes
<1>3. IpcTypeOK' /\ "wait" \in MbLabels
  BY <1>1, <1>2 DEF IpcTypeOK, MbLabels
<1>4. mbPc'[t] = "wait"
  BY <1>1, <1>2, <1>3, MbGoes
<1>5. MbHolds(t)' /\ \A l : t \notin MbFor(l)
  BY <1>1, <1>4 DEF MbHolds, MbFor, MbComes, MbWakes
<1>6. {mbPc[t], "wait"} \cap {"link", "load", "store"} = {} /\ mbPc[t] \notin MbOutside
  BY <1>1 DEF MbOutside
<1> QED
  BY <1>1, <1>2, <1>3, <1>4, <1>5, <1>6, MbGoesOn

\* The steps of a detach that take nobody out of a list.
LEMMA MbDetachKeeps ==
    ASSUME MbInv, NEW t \in Threads, MbAlone(t),
           \/ MbDetach(t) \/ MbDetachObject(t)
           \/ \E l, r : r \in {"poprecv", "popsend"} /\ MbDetachTest(t, l, r)
    PROVE  MbInv'
<1>1. PICK label \in {"detach", "poprecv", "popsend", "idle"} :
        /\ mbPc[t] \in {"idle", "detach"} /\ MbGoto(t, label) /\ mbAlive' \in {mbAlive, FALSE}
        /\ UNCHANGED <<ipcVars, mbShared, mbOp, mbWait, mbValue, mbReg, mbTarget>>
  <2>1. CASE MbDetach(t)
    BY <2>1 DEF MbDetach
  <2>2. CASE MbDetachObject(t)
    BY <2>2 DEF MbDetachObject
  <2>3. ASSUME NEW l, NEW r \in {"poprecv", "popsend"}, MbDetachTest(t, l, r)
        PROVE  /\ mbPc[t] \in {"idle", "detach"} /\ MbGoto(t, r) /\ mbAlive' \in {mbAlive, FALSE}
               /\ UNCHANGED <<ipcVars, mbShared, mbOp, mbWait, mbValue, mbReg, mbTarget>>
    BY <2>3 DEF MbDetachTest
  <2> QED
    BY <2>1, <2>2, <2>3
<1>2. /\ MbTypeOK /\ mbAlive \in BOOLEAN /\ mbWait \in [Threads -> {"no", "timed", "forever"}]
      /\ mbTarget \in [Threads -> Threads \cup {Nobody}]
      /\ IpcTypeOK' /\ UNCHANGED <<stat, queue, error>>
  BY <1>1, MbGoesOnTypes
<1>3. label \in MbLabels /\ label \in MbOutside /\ stat[t] = "RUN" /\ mbAlive' \in BOOLEAN
  BY <1>1, <1>2, MbNotWaiting DEF MbInv, MbLabels, MbOutside
<1>4. mbPc'[t] = label
  BY <1>1, <1>2, <1>3, MbGoes
<1>5. MbHolds(t)' /\ \A l : t \notin MbFor(l)
  BY <1>1, <1>4 DEF MbHolds, MbFor, MbComes, MbWakes
<1>6. {mbPc[t], label} \cap {"link", "load", "store"} = {}
  BY <1>1
<1>7. mbWait' \in [Threads -> {"no", "timed", "forever"}]
  BY <1>1, <1>2
<1>8. mbTarget' \in [Threads -> Threads \cup {Nobody}]
  BY <1>1, <1>2
<1>9. UNCHANGED <<stat, queue, mbShared, mbOp, mbValue, mbReg>>
  BY <1>1, <1>2
<1> QED
  BY <1>1, <1>2, <1>3, <1>5, <1>6, <1>7, <1>8, <1>9, MbGoesOn

\* Those who come have come before, and who waits did.
LEMMA MbQuietServed ==
    ASSUME MbInv, MbContents', UNCHANGED mbEntry, NEW t \in Threads,
           \A l \in {"mbrecv", "mbsend"} : /\ queue'[l] # <<>> => queue[l] # <<>>
                                           /\ MbFor(l) \subseteq MbFor(l)'
    PROVE  MbServed'
<1>1. ASSUME NEW l \in {"mbrecv", "mbsend"}, queue'[l] # <<>>
      PROVE  MbLeft(l)' <= Cardinality(MbFor(l)')
  <2>1. MbLeft(l) \in Nat /\ MbLeft(l)' = MbLeft(l)
    BY MbCounts DEF MbInv, MbLeft
  <2>2. MbLeft(l) <= Cardinality(MbFor(l)) /\ MbFor(l) \subseteq MbFor(l)'
    BY <1>1 DEF MbInv, MbServed
  <2> QED
    BY <2>1, <2>2, MbStillServed
<1> QED
  BY <1>1 DEF MbServed

\* The resumption of a waiting thread by a detach, and a timeout.
LEMMA MbLeaveKeeps ==
    ASSUME MbInv, NEW t \in Threads, MbAlone(t), mbPc[t] # "link",
           IpcTypeOK', SuspendedIsLinked', MbTypeOK', UNCHANGED <<mbShared, mbOp, mbValue>>,
           \A u \in Threads \ {t} : mbPc'[u] = mbPc[u],
           \/ mbPc'[t] = mbPc[t] /\ mbPc[t] \notin UnprotectedAt
           \/ {mbPc[t], mbPc'[t]} \subseteq MbOutside,
           \A k \in Lists : ToSet(queue'[k]) \subseteq ToSet(queue[k]),
           \A u \in Threads : stat'[u] = "SUSPEND" => stat[u] = "SUSPEND" /\ error'[u] = error[u],
           \A u \in Threads : stat[u] = "RUN" => stat'[u] = "RUN" /\ error'[u] = error[u]
    PROVE  MbInv'
<1>1. /\ MbThreads'
      /\ \A l \in {"mbrecv", "mbsend"} : queue'[l] # <<>> => queue[l] # <<>>
      /\ \A l : MbFor(l) \subseteq MbFor(l)'
  <2>1. mbPc'[t] = mbPc[t] \/ {mbPc[t], mbPc'[t]} \subseteq MbOutside
    OBVIOUS
  <2> QED
    BY <2>1, MbSomeLeave DEF MbInv
<1>2. UNCHANGED <<mbEntry, inOffset, outOffset, pool, mails>>
  BY DEF mbShared
<1>3. ~MbAhead(t) /\ ~MbAhead(t)' /\ MbHolds(t)'
  BY DEF MbAhead, MbHolds, UnprotectedAt, MbOutside
<1>4. /\ mails \in Seq(Mails) /\ mbEntry \in 0..MbSize /\ Len(mails) = mbEntry
      /\ MbRing(mbEntry, mails, inOffset, outOffset, pool)
  BY <1>3, MbRingBefore
<1>5. MbContents' /\ MbPhases'
  BY <1>2, <1>3, <1>4, MbAloneStep
<1>6. MbServed'
  BY <1>1, <1>2, <1>5, MbQuietServed
<1> QED
  BY <1>1, <1>5, <1>6 DEF MbInv

LEMMA MbDetachRoundKeeps ==
    ASSUME MbInv, NEW t \in Threads, MbAlone(t), NEW l \in {"mbrecv", "mbsend"},
           NEW r \in {"poprecv", "popsend"}, MbDetachRound(t, l, r)
    PROVE  MbInv'
<1>1. PICK label \in {"detach", "wild"} :
        /\ mbPc[t] = r /\ ResumeNext(l) /\ MbGoto(t, label)
        /\ UNCHANGED <<mbShared, mbAlive, mbOp, mbWait, mbValue, mbReg, mbTarget>>
  BY DEF MbDetachRound, AfterRound
<1>2. /\ MbTypeOK /\ mbAlive \in BOOLEAN /\ mbWait \in [Threads -> {"no", "timed", "forever"}]
      /\ mbTarget \in [Threads -> Threads \cup {Nobody}]
  BY MbGoesOnTypes
<1>3. /\ label \in MbLabels /\ disturbed' = FALSE /\ stat[t] = "RUN" /\ mbPc[t] # "link"
      /\ mbOp \in [Threads -> {"send", "urgent", "recv"}]
      /\ mbValue \in [Threads -> Mails \cup {NoMail}] /\ mbReg \in [Threads -> 0..MbEntryMax]
  BY <1>1, <1>2, MbNotWaiting DEF MbLabels, UnprotectedAt, MbAlone, MbInv, MbTypeOK
<1>4. /\ mbPc' \in [Threads -> MbLabels] /\ mbPc'[t] = label
      /\ \A u \in Threads \ {t} : mbPc'[u] = mbPc[u]
  BY <1>1, <1>2, <1>3, MbGoes
<1>5. MbTypeOK'
  BY <1>1, <1>2, <1>3, <1>4, MbTypesAfter
<1>6. IpcTypeOK /\ SuspendedIsLinked /\ l \in Lists
  BY <1>3, MbAllLinked, MbLists DEF MbInv
<1>7. /\ IpcTypeOK' /\ SuspendedIsLinked'
      /\ \A u \in Threads : stat'[u] = "SUSPEND" => stat[u] = "SUSPEND" /\ error'[u] = error[u]
      /\ \A k \in Lists : ToSet(queue'[k]) \subseteq ToSet(queue[k])
  BY <1>1, <1>6, ResumeNextUnlinks
<1>8. \A u \in Threads : stat[u] = "RUN" => stat'[u] = "RUN" /\ error'[u] = error[u]
  <2>1. CASE queue[l] = <<>>
    BY <1>1, <2>1 DEF ResumeNext, ipcVars
  <2>2. CASE queue[l] # <<>>
    <3>1. /\ Head(queue[l]) \in Threads /\ stat[Head(queue[l])] = "SUSPEND"
          /\ error' = [error EXCEPT ![Head(queue[l])] = "ERROR"]
          /\ stat' = [stat EXCEPT ![Head(queue[l])] = "RUN"]
      BY <1>1, <1>6, <2>2, ResumeNextUnlinks
    <3> QED
      BY <1>6, <3>1 DEF IpcTypeOK
  <2> QED
    BY <2>1, <2>2
<1>9. {mbPc[t], mbPc'[t]} \subseteq MbOutside
  BY <1>1, <1>4 DEF MbOutside
<1>10. UNCHANGED <<mbShared, mbOp, mbValue>>
  BY <1>1
<1> QED
  BY <1>3, <1>4, <1>5, <1>7, <1>8, <1>9, <1>10, MbLeaveKeeps

LEMMA MbTimeoutKeeps ==
    ASSUME MbInv, NEW t \in Threads, Unprotected = {}, disturbed' = FALSE, MbTimeout(t)
    PROVE  MbInv'
<1>1. PICK c \in Cpus : TimerExpires(c, t) \/ ThreadTimeout(c, t)
  BY DEF MbTimeout
<1>2. UNCHANGED <<mbShared, mbAlive, mbOp, mbPc, mbWait, mbValue, mbReg, mbTarget>>
  BY DEF MbTimeout
<1>3. MbAlone(t) /\ mbPc[t] \notin UnprotectedAt /\ mbPc[t] # "link"
  BY DEF MbAlone, Unprotected, UnprotectedAt
<1>4. IpcTypeOK /\ SuspendedIsLinked
  BY <1>3, MbAllLinked DEF MbInv
<1>5. /\ IpcTypeOK' /\ SuspendedIsLinked'
      /\ \/ UNCHANGED <<stat, error, queue>>
         \/ /\ stat[t] = "SUSPEND" /\ stat' = [stat EXCEPT ![t] = "RUN"]
            /\ error' = [error EXCEPT ![t] = "ETIMEOUT"]
            /\ \A k \in Lists : ToSet(queue'[k]) = ToSet(queue[k]) \ {t}
  BY <1>1, <1>4, TimeoutUnlinks
<1>6. /\ \A u \in Threads : stat'[u] = "SUSPEND" => stat[u] = "SUSPEND" /\ error'[u] = error[u]
      /\ \A u \in Threads : stat[u] = "RUN" => stat'[u] = "RUN" /\ error'[u] = error[u]
      /\ \A k \in Lists : ToSet(queue'[k]) \subseteq ToSet(queue[k])
  BY <1>4, <1>5 DEF IpcTypeOK
<1>7. MbTypeOK'
  <2>1. MbTypeOK
    BY DEF MbInv, MbThreads
  <2> QED
    BY <1>2, <2>1 DEF MbTypeOK, mbShared
<1>8. UNCHANGED <<mbShared, mbOp, mbValue>> /\ \A u \in Threads : mbPc'[u] = mbPc[u]
  BY <1>2
<1> QED
  BY <1>3, <1>5, <1>6, <1>7, <1>8, MbLeaveKeeps

\* A thread that must wait finds nothing left of what it comes for, and comes for nothing
\* else.
LEMMA MbMustWaitFor ==
    ASSUME MbContents, NEW t, MustWait(t), ~MbWakes(t), NEW l, t \in MbFor(l)
    PROVE  MbLeft(l) = 0
<1>1. l = WaitList(t)
  BY DEF MbFor
<1> QED
  BY <1>1, MbMustWaitLeft

\* The condition of the loop.
LEMMA MbAgainKeeps ==
    ASSUME MbInv, NEW t \in Threads, MbAlone(t), MbAgain(t) PROVE MbInv'
<1>1. mbPc[t] = "again" /\ UNCHANGED <<stat, timer, queue, irqoff, expired, mbShared, mbAlive, mbOp>>
  BY DEF MbAgain
<1>2. /\ MbTypeOK /\ IpcTypeOK /\ mbAlive \in BOOLEAN
      /\ mbWait \in [Threads -> {"no", "timed", "forever"}]
      /\ mbTarget \in [Threads -> Threads \cup {Nobody}] /\ MbContents
      /\ error \in [Threads -> Errors]
  BY MbGoesOnTypes DEF MbInv, IpcTypeOK
<1>3. /\ stat[t] = "RUN" /\ ~MbAhead(t) /\ ~MbWakes(t)
      /\ {"sleep", "slot"} \subseteq MbLabels
  BY <1>1, MbNotWaiting DEF MbInv, MbAhead, MbWakes, MbLabels, UnprotectedAt
<1>4. MustWait(t)' <=> MustWait(t)
  BY <1>1 DEF MustWait, mbShared
<1>5. mbPc[t] \notin MbOutside
  BY <1>1 DEF MbOutside
<1>6. CASE ~MustWait(t)
  <2>1. MbGoto(t, "slot") /\ UNCHANGED <<error, mbWait, mbValue, mbReg, mbTarget>>
    BY <1>6 DEF MbAgain
  <2>2. mbPc'[t] = "slot"
    BY <1>2, <1>3, <2>1, MbGoes
  <2>3. MbHolds(t)'
    BY <1>4, <1>6, <2>2 DEF MbHolds
  <2>4. \A l : t \in MbFor(l) => t \in MbFor(l)'
    BY <1>1, <2>2 DEF MbFor, MbComes, MbWakes, WaitList
  <2>5. IpcTypeOK'
    BY <1>1, <1>2, <2>1 DEF IpcTypeOK
  <2>6. {mbPc[t], "slot"} \cap {"link", "load", "store"} = {}
    BY <1>1
  <2> QED
    BY <1>1, <1>2, <1>3, <1>5, <2>1, <2>3, <2>4, <2>5, <2>6, MbGoesOn
<1>7. CASE MustWait(t)
  <2>1. PICK e \in {"EOK", "ETIMEOUT"} :
          /\ error' = [error EXCEPT ![t] = e] /\ (mbWait[t] # "no" => e = "EOK")
    BY <1>7 DEF MbAgain
  <2>2. /\ error' \in [Threads -> Errors] /\ \A u \in Threads \ {t} : error'[u] = error[u]
        /\ mbWait[t] # "no" => error'[t] = "EOK"
    BY <1>2, <2>1 DEF Errors
  <2>3. \A l : t \in MbFor(l) => MbLeft(l) = 0
    BY <1>2, <1>3, <1>7, MbMustWaitFor
  <2>4. CASE mbWait[t] = "no"
    <3>1. MbReturn(t)
      BY <1>7, <2>4 DEF MbAgain
    <3> QED
      BY <1>1, <1>3, <2>2, <2>3, <3>1, MbReturnKeeps
  <2>5. CASE mbWait[t] # "no"
    <3>1. MbGoto(t, "sleep") /\ UNCHANGED <<mbWait, mbValue, mbReg, mbTarget>>
      BY <1>7, <2>5 DEF MbAgain
    <3>2. mbPc'[t] = "sleep"
      BY <1>2, <1>3, <3>1, MbGoes
    <3>3. MbHolds(t)'
      BY <1>4, <1>7, <2>2, <2>5, <3>2 DEF MbHolds
    <3>4. IpcTypeOK'
      BY <1>1, <1>2, <2>2 DEF IpcTypeOK
    <3>5. {mbPc[t], "sleep"} \cap {"link", "load", "store"} = {}
      BY <1>1
    <3> QED
      BY <1>1, <1>2, <1>3, <1>5, <2>2, <2>3, <3>1, <3>3, <3>4, <3>5, MbGoesOn
  <2> QED
    BY <2>4, <2>5
<1> QED
  BY <1>6, <1>7

\* The other list is empty, or its head is the thread to resume, and sleeps: while nobody
\* disturbs it the thread reads what it has tested.
LEMMA MbLooksKeeps ==
    ASSUME MbInv, NEW t \in Threads, MbAlone(t), MbResume(t) \/ MbChoose(t) \/ MbTest(t)
    PROVE  MbInv'
<1>1. /\ mbPc[t] \in {"resume", "choose", "test"}
      /\ UNCHANGED <<ipcVars, mbShared, mbAlive, mbOp>>
  BY DEF MbResume, MbChoose, MbTest
<1>2. /\ MbTypeOK /\ mbAlive \in BOOLEAN /\ mbWait \in [Threads -> {"no", "timed", "forever"}]
      /\ mbTarget \in [Threads -> Threads \cup {Nobody}]
      /\ IpcTypeOK' /\ UNCHANGED <<stat, queue, error>>
  BY <1>1, MbGoesOnTypes
<1>3. /\ stat[t] = "RUN" /\ ~MbAhead(t) /\ mbPc[t] \notin MbOutside
      /\ {"choose", "test", "wake"} \subseteq MbLabels
      /\ \A label \in {"choose", "test", "wake"} :
            {mbPc[t], label} \cap {"link", "load", "store"} = {}
  BY <1>1, MbNotWaiting DEF MbInv, MbAhead, MbOutside, MbLabels, UnprotectedAt
<1>4. /\ mbPc[t] \in {"choose", "test"} => queue[OtherList(t)] # <<>>
      /\ mbPc[t] = "test" => mbTarget[t] = Head(queue[OtherList(t)])
  BY DEF MbInv, MbPhases, MbHolds
<1>5. IpcTypeOK /\ SuspendedIsLinked /\ OtherList(t) \in Lists
  <2>1. mbPc[t] # "link"
    BY <1>1
  <2> QED
    BY <2>1, MbAllLinked, MbLists DEF MbInv
<1>6. \A l \in {"mbrecv", "mbsend"} : t \in MbFor(l) => l = OtherList(t)
  BY <1>1 DEF MbFor, MbComes
<1>7. CASE mbPc[t] = "resume" /\ queue[OtherList(t)] = <<>>
  <2>1. MbReturn(t)
    BY <1>7 DEF MbResume, MbChoose, MbTest
  <2>2. error' \in [Threads -> Errors]
    BY <1>2 DEF IpcTypeOK
  <2>3. UNCHANGED <<stat, timer, queue, irqoff, expired, mbShared, mbAlive, mbOp>>
    BY <1>1 DEF ipcVars
  <2> QED
    BY <1>2, <1>3, <1>6, <1>7, <2>1, <2>2, <2>3, MbReturnKeeps
<1>8. CASE ~(mbPc[t] = "resume" /\ queue[OtherList(t)] = <<>>)
  <2>1. queue[OtherList(t)] # <<>>
    BY <1>1, <1>4, <1>8
  <2>2. Head(queue[OtherList(t)]) \in Threads /\ stat[Head(queue[OtherList(t)])] = "SUSPEND"
    BY <1>5, <2>1, HeadSuspended
  <2>3. PICK label \in {"choose", "test", "wake"} :
          /\ MbGoto(t, label) /\ UNCHANGED <<mbWait, mbValue, mbReg>>
          /\ mbTarget' \in [Threads -> Threads \cup {Nobody}]
          /\ label \in {"test", "wake"} => mbTarget'[t] = Head(queue[OtherList(t)])
    <3>1. CASE MbResume(t)
      BY <1>2, <2>1, <3>1 DEF MbResume
    <3>2. CASE MbChoose(t)
      <4>1. /\ MbGoto(t, "test") /\ UNCHANGED <<mbWait, mbValue, mbReg>>
            /\ mbTarget' = [mbTarget EXCEPT ![t] = Head(queue[OtherList(t)])]
        BY <2>1, <3>2 DEF MbChoose
      <4> QED
        BY <1>2, <2>2, <4>1
    <3>3. CASE MbTest(t)
      <4>1. mbPc[t] = "test" /\ stat[mbTarget[t]] = "SUSPEND"
        BY <1>4, <2>2, <3>3 DEF MbTest
      <4>2. MbGoto(t, "wake") /\ UNCHANGED <<mbWait, mbValue, mbReg, mbTarget>>
        BY <3>3, <4>1 DEF MbTest
      <4> QED
        BY <1>2, <1>4, <4>1, <4>2
    <3> QED
      BY <3>1, <3>2, <3>3
  <2>4. label \in MbLabels /\ {mbPc[t], label} \cap {"link", "load", "store"} = {}
    BY <1>3
  <2>5. mbPc'[t] = label
    BY <1>2, <2>3, <2>4, MbGoes
  <2>6. queue'[OtherList(t)'] = queue[OtherList(t)]
    BY <1>1, <1>2 DEF OtherList
  <2>7. MbHolds(t)'
    BY <2>1, <2>3, <2>5, <2>6 DEF MbHolds
  <2>8. \A l : t \in MbFor(l) => t \in MbFor(l)'
    BY <1>1, <2>5 DEF MbFor, MbComes, MbWakes, OtherList
  <2>9. /\ UNCHANGED <<stat, queue, mbShared, mbOp, mbValue, mbReg>> /\ mbAlive' \in BOOLEAN
        /\ mbWait' \in [Threads -> {"no", "timed", "forever"}]
    BY <1>1, <1>2, <2>3
  <2> QED
    BY <1>2, <1>3, <2>3, <2>4, <2>7, <2>8, <2>9, MbGoesOn
<1> QED
  BY <1>7, <1>8

\* A step of the operation itself, after a wake-up.
LEMMA MbWorks ==
    ASSUME MbInv, NEW t \in Threads, mbPc[t] \in {"slot", "offset", "load", "store"},
           UNCHANGED <<ipcVars, mbOp>>, MbTypeOK', mbPc'[t] # "link",
           \A u \in Threads \ {t} : mbPc'[u] = mbPc[u], mbOp'[t] # "recv" => mbValue'[t] \in Mails,
           \A u \in Threads \ {t} : mbValue'[u] = mbValue[u]
    PROVE  MbMoves(t)
<1>1. stat[t] = "RUN" /\ IpcTypeOK' /\ UNCHANGED <<stat, queue, error>>
  BY MbNotWaiting, MbGoesOnTypes DEF MbInv
<1> QED
  BY <1>1 DEF MbMoves

\* The mail is read, or written.
LEMMA MbSlotKeeps ==
    ASSUME MbInv, NEW t \in Threads, MbAlone(t), MbSlot(t) PROVE MbInv'
<1>1. /\ mbPc[t] = "slot" /\ MbGoto(t, "offset")
      /\ UNCHANGED <<ipcVars, mbEntry, inOffset, outOffset, mails, mbAlive, mbOp, mbWait, mbReg,
                   mbTarget>>
  BY DEF MbSlot
<1>2. MbTypeOK /\ IpcTypeOK /\ MbAlone(t) /\ stat[t] = "RUN" /\ disturbed' = FALSE
  BY <1>1, MbNotWaiting DEF MbInv, MbThreads, MbAlone
<1>3. /\ mails \in Seq(Mails) /\ mbEntry \in 0..MbSize /\ Len(mails) = mbEntry
      /\ MbRing(mbEntry, mails, inOffset, outOffset, pool) /\ MbHolds(t)
  BY <1>1, <1>2, MbRingBefore DEF MbAhead
<1>4. /\ mbPc'[t] = "offset" /\ \A u \in Threads \ {t} : mbPc'[u] = mbPc[u]
      /\ mbPc' \in [Threads -> MbLabels]
  <2>1. "offset" \in MbLabels
    BY DEF MbLabels, UnprotectedAt
  <2> QED
    BY <1>1, <1>2, <2>1, MbGoes
<1>5. ~MustWait(t) /\ (mbOp[t] # "recv" => mbValue[t] \in Mails)
  BY <1>1, <1>3 DEF MbHolds, MbInv, MbThreads, MbWaiting, MbOutside
<1>6. /\ MbRing(mbEntry, mails, inOffset, outOffset, pool')
      /\ mbValue' \in [Threads -> Mails \cup {NoMail}]
      /\ \A u \in Threads \ {t} : mbValue'[u] = mbValue[u]
      /\ IF mbOp[t] = "recv" THEN mbValue'[t] = Head(mails)
         ELSE mbValue'[t] = mbValue[t] /\ pool'[inOffset] = mbValue[t]
  <2>1. CASE mbOp[t] = "recv"
    <3>1. mbValue' = [mbValue EXCEPT ![t] = pool[outOffset]] /\ pool' = pool
      BY <2>1 DEF MbSlot
    <3>2. mbEntry # 0
      BY <1>5, <2>1 DEF MustWait
    <3>3. pool[outOffset] = Head(mails)
      <4>1. MbRing(mbEntry, mails, inOffset, outOffset, pool) /\ mbEntry \in Nat
        BY <1>3, MbAssumption
      <4> QED
        BY ONLY <3>2, <4>1, MbGetCounted
    <3>4. pool[outOffset] \in Mails \cup {NoMail}
      BY <1>2 DEF MbTypeOK
    <3> QED
      BY <1>2, <1>3, <2>1, <3>1, <3>3, <3>4 DEF MbTypeOK
  <2>2. CASE mbOp[t] # "recv"
    <3>1. pool' = [pool EXCEPT ![inOffset] = mbValue[t]] /\ mbValue' = mbValue
      BY <2>2 DEF MbSlot
    <3>2. mbEntry # MbSize
      BY <1>5, <2>2 DEF MustWait
    <3>3. MbRing(mbEntry, mails, inOffset, outOffset, pool') /\ pool'[inOffset] = mbValue[t]
      <4>1. MbRing(mbEntry, mails, inOffset, outOffset, pool) /\ mbEntry \in Nat
        BY <1>3, MbAssumption
      <4>2. mbValue[t] \in Mails
        BY <1>5, <2>2
      <4>3. /\ MbRing(mbEntry, mails, inOffset, outOffset, [pool EXCEPT ![inOffset] = mbValue[t]])
            /\ [pool EXCEPT ![inOffset] = mbValue[t]][inOffset] = mbValue[t]
        BY ONLY <3>2, <4>1, <4>2, MbSlotWritten
      <4> QED
        BY <3>1, <4>3, Zenon
    <3> QED
      BY <1>2, <2>2, <3>1, <3>3 DEF MbTypeOK
  <2> QED
    BY <2>1, <2>2
<1>7. MbTypeOK'
  <2>1. pool' \in [Slots -> Mails \cup {NoMail}]
    BY <1>6 DEF MbRing
  <2> QED
    BY <1>1, <1>2, <1>4, <1>6, <2>1 DEF MbTypeOK
<1>8. MbHolds(t)' /\ ~MbAhead(t)'
  BY <1>1, <1>4, <1>5, <1>6 DEF MbHolds, MbAhead, MustWait
<1>9. \A l : MbLeft(l)' = MbLeft(l) /\ (t \in MbFor(l) => t \in MbFor(l)')
  BY <1>1, <1>4 DEF MbFor, MbComes, MbWakes, WaitList, OtherList, MbLeft
<1>10. \A l \in {"mbrecv", "mbsend"} : MbLeft(l) \in Nat
  BY MbCounts DEF MbInv
<1>11. mbOp'[t] # "recv" => mbValue'[t] \in Mails
  BY <1>1, <1>5, <1>6
<1>12. \A l \in {"mbrecv", "mbsend"} :
          MbLeft(l)' <= MbLeft(l) /\ (t \in MbFor(l) => t \in MbFor(l)')
  BY <1>9, <1>10
<1>13. MbMoves(t)
  BY <1>1, <1>2, <1>4, <1>6, <1>7, <1>11, MbWorks
<1> QED
  BY <1>1, <1>2, <1>3, <1>4, <1>6, <1>7, <1>8, <1>11, <1>12, <1>13, MbLoneMove

\* The offset passes the mail: the ring is that of MbEntryAfter now.
LEMMA MbOffsetKeeps ==
    ASSUME MbInv, NEW t \in Threads, MbAlone(t), MbOffset(t) PROVE MbInv'
<1>1. /\ mbPc[t] = "offset" /\ MbGoto(t, "load")
      /\ UNCHANGED <<ipcVars, mbEntry, pool, mails, mbAlive, mbOp, mbWait, mbValue, mbReg,
                   mbTarget>>
  BY DEF MbOffset
<1>2. MbTypeOK /\ IpcTypeOK /\ MbAlone(t) /\ stat[t] = "RUN" /\ disturbed' = FALSE
  BY <1>1, MbNotWaiting DEF MbInv, MbThreads, MbAlone
<1>3. /\ mails \in Seq(Mails) /\ mbEntry \in 0..MbSize /\ Len(mails) = mbEntry
      /\ MbRing(mbEntry, mails, inOffset, outOffset, pool) /\ MbHolds(t)
  BY <1>1, <1>2, MbRingBefore DEF MbAhead
<1>4. /\ mbPc'[t] = "load" /\ \A u \in Threads \ {t} : mbPc'[u] = mbPc[u]
      /\ mbPc' \in [Threads -> MbLabels]
  <2>1. "load" \in MbLabels
    BY DEF MbLabels, UnprotectedAt
  <2> QED
    BY <1>1, <1>2, <2>1, MbGoes
<1>5. ~MustWait(t) /\ (mbOp[t] # "recv" => mbValue[t] \in Mails)
  BY <1>1, <1>3 DEF MbHolds, MbInv, MbThreads, MbWaiting, MbOutside
<1>6. MbRing(mbEntry, mails, inOffset, outOffset, pool) /\ mbEntry \in Nat
  BY <1>3, MbAssumption
<1>7. MbRing(MbEntryAfter(t)', MbMailsAfter(t)', inOffset', outOffset', pool')
  <2>1. CASE mbOp[t] = "recv"
    <3>1. outOffset' = Following(outOffset) /\ inOffset' = inOffset
      BY <2>1 DEF MbOffset
    <3>2. mbEntry # 0
      BY <1>5, <2>1 DEF MustWait
    <3>3. MbRing(mbEntry - 1, Tail(mails), inOffset, Following(outOffset), pool)
      BY ONLY <1>6, <3>2, MbGetCounted
    <3> QED
      BY <1>1, <2>1, <3>1, <3>3, Zenon DEF MbEntryAfter, MbMailsAfter
  <2>2. CASE mbOp[t] # "recv"
    <3>1. inOffset' = Following(inOffset) /\ outOffset' = outOffset
      BY <2>2 DEF MbOffset
    <3>2. mbEntry # MbSize /\ mbValue[t] \in Mails /\ pool[inOffset] = mbValue[t]
      BY <1>1, <1>3, <1>5, <2>2 DEF MustWait, MbHolds
    <3>3. MbRing(mbEntry + 1, Append(mails, mbValue[t]), Following(inOffset), outOffset, pool)
      BY ONLY <1>6, <3>2, MbPutCounted
    <3> QED
      BY <1>1, <2>2, <3>1, <3>3, Zenon DEF MbEntryAfter, MbMailsAfter
  <2> QED
    BY <2>1, <2>2
<1>8. MbTypeOK'
  <2>1. inOffset' \in Slots /\ outOffset' \in Slots
    BY <1>7 DEF MbRing
  <2> QED
    BY <1>1, <1>2, <1>4, <2>1 DEF MbTypeOK
<1>9. MbHolds(t)' /\ MbAhead(t)'
  BY <1>1, <1>3, <1>4 DEF MbHolds, MbAhead, MustWait
<1>10. \A l \in {"mbrecv", "mbsend"} :
          MbLeft(l)' <= MbLeft(l) /\ (t \in MbFor(l) => t \in MbFor(l)')
  <2>1. \A l : MbLeft(l)' = MbLeft(l) /\ (t \in MbFor(l) => t \in MbFor(l)')
    BY <1>1, <1>4 DEF MbFor, MbComes, MbWakes, WaitList, OtherList, MbLeft
  <2> QED
    BY <2>1, MbCounts DEF MbInv
<1>11. mbOp'[t] # "recv" => mbValue'[t] \in Mails
  BY <1>1, <1>5
<1>12. MbMoves(t)
  BY <1>1, <1>2, <1>4, <1>8, <1>11, MbWorks
<1> QED
  BY <1>1, <1>2, <1>3, <1>4, <1>7, <1>8, <1>9, <1>10, <1>11, <1>12, MbLoneMove

LEMMA MbLoadKeeps ==
    ASSUME MbInv, NEW t \in Threads, MbAlone(t), MbLoad(t) PROVE MbInv'
<1>1. /\ mbPc[t] = "load" /\ MbGoto(t, "store")
      /\ mbReg' = [mbReg EXCEPT ![t] = mbEntry]
      /\ UNCHANGED <<ipcVars, mbAlive, mbOp, mbWait, mbValue, mbTarget>>
      /\ UNCHANGED <<mbEntry, inOffset, outOffset, pool, mails>>
  <2>1. mbPc[t] = "load"
    BY DEF MbLoad
  <2>2. ~MustWait(t) /\ mbEntry \in 0..MbSize
    BY <2>1 DEF MbInv, MbPhases, MbHolds, MbContents
  <2>3. ~Overflows(t)
    BY <2>2, MbAssumption DEF Overflows, MustWait
  <2> QED
    BY <2>1, <2>3 DEF MbLoad, mbShared
<1>2. MbTypeOK /\ IpcTypeOK /\ MbAlone(t) /\ stat[t] = "RUN" /\ disturbed' = FALSE
  BY <1>1, MbNotWaiting DEF MbInv, MbThreads, MbAlone
<1>3. /\ mails \in Seq(Mails) /\ mbEntry \in 0..MbSize /\ Len(mails) = mbEntry
      /\ MbRing(MbEntryAfter(t), MbMailsAfter(t), inOffset, outOffset, pool) /\ MbHolds(t)
  BY <1>1, <1>2, MbRingBefore DEF MbAhead
<1>4. /\ mbPc'[t] = "store" /\ \A u \in Threads \ {t} : mbPc'[u] = mbPc[u]
      /\ mbReg'[t] = mbEntry
      /\ mbPc' \in [Threads -> MbLabels]
  <2>1. "store" \in MbLabels
    BY DEF MbLabels, UnprotectedAt
  <2>2. mbReg'[t] = mbEntry
    BY <1>1, <1>2 DEF MbTypeOK
  <2> QED
    BY <1>1, <1>2, <2>1, <2>2, MbGoes
<1>5. MbTypeOK'
  BY <1>1, <1>2, <1>4 DEF MbTypeOK
<1>6. MbHolds(t)' /\ MbAhead(t)'
  BY <1>1, <1>3, <1>4 DEF MbHolds, MbAhead, MustWait
<1>7. MbRing(MbEntryAfter(t)', MbMailsAfter(t)', inOffset', outOffset', pool')
  BY <1>1, <1>3, Zenon DEF MbEntryAfter, MbMailsAfter
<1>8. \A l \in {"mbrecv", "mbsend"} :
          MbLeft(l)' <= MbLeft(l) /\ (t \in MbFor(l) => t \in MbFor(l)')
  <2>1. \A l : MbLeft(l)' = MbLeft(l) /\ (t \in MbFor(l) => t \in MbFor(l)')
    BY <1>1, <1>4 DEF MbFor, MbComes, MbWakes, WaitList, OtherList, MbLeft
  <2> QED
    BY <2>1, MbCounts DEF MbInv
<1>9. mbOp'[t] # "recv" => mbValue'[t] \in Mails
  BY <1>1 DEF MbInv, MbThreads, MbWaiting, MbOutside
<1>10. MbMoves(t)
  BY <1>1, <1>2, <1>4, <1>5, <1>9, MbWorks
<1> QED
  BY <1>1, <1>2, <1>3, <1>4, <1>5, <1>6, <1>7, <1>8, <1>9, <1>10, MbLoneMove

\* entry counts the mail: what the thread came for is one less, what the other side
\* waits for one more, and the thread will resume it.
LEMMA MbStoreKeeps ==
    ASSUME MbInv, NEW t \in Threads, MbAlone(t), MbStore(t) PROVE MbInv'
<1>1. /\ mbPc[t] = "store" /\ MbGoto(t, "resume")
      /\ UNCHANGED <<ipcVars, inOffset, outOffset, pool, mbAlive, mbOp, mbWait, mbValue, mbReg,
                   mbTarget>>
  BY DEF MbStore
<1>2. MbTypeOK /\ IpcTypeOK /\ MbAlone(t) /\ stat[t] = "RUN" /\ disturbed' = FALSE
  BY <1>1, MbNotWaiting DEF MbInv, MbThreads, MbAlone
<1>3. /\ mails \in Seq(Mails) /\ mbEntry \in 0..MbSize /\ Len(mails) = mbEntry
      /\ MbRing(MbEntryAfter(t), MbMailsAfter(t), inOffset, outOffset, pool) /\ MbHolds(t)
  BY <1>1, <1>2, MbRingBefore DEF MbAhead
<1>4. /\ mbPc'[t] = "resume" /\ \A u \in Threads \ {t} : mbPc'[u] = mbPc[u]
      /\ mbPc' \in [Threads -> MbLabels]
  <2>1. "resume" \in MbLabels
    BY DEF MbLabels, UnprotectedAt
  <2> QED
    BY <1>1, <1>2, <2>1, MbGoes
<1>5. /\ ~MustWait(t) /\ mbReg[t] = mbEntry /\ (mbOp[t] # "recv" => mbValue[t] \in Mails)
      /\ MbEntryAfter(t) \in 0..MbSize /\ MbMailsAfter(t) \in Seq(Mails)
      /\ Len(MbMailsAfter(t)) = MbEntryAfter(t)
  BY <1>1, <1>3 DEF MbHolds, MbInv, MbThreads, MbWaiting, MbOutside, MbRing
<1>6. mbEntry' = MbEntryAfter(t) /\ mails' = MbMailsAfter(t)
  <2>1. CASE mbOp[t] = "recv"
    <3>1. mbEntry # 0
      BY <1>5, <2>1 DEF MustWait
    <3> QED
      BY <1>3, <1>5, <2>1, <3>1 DEF MbStore, MbEntryAfter, MbMailsAfter
  <2>2. CASE mbOp[t] # "recv"
    <3>1. mbEntry < MbSize /\ mbEntry < MbEntryMax
      BY <1>3, <1>5, <2>2, MbAssumption DEF MustWait
    <3> QED
      BY <1>3, <1>5, <2>2, <3>1 DEF MbStore, MbEntryAfter, MbMailsAfter
  <2> QED
    BY <2>1, <2>2
<1>7. MbRing(mbEntry', mails', inOffset', outOffset', pool')
  BY <1>1, <1>3, <1>6, Zenon
<1>8. MbTypeOK'
  <2>1. mbEntry' \in 0..MbEntryMax /\ mails' \in Seq(Mails)
    BY <1>5, <1>6, MbAssumption
  <2> QED
    BY <1>1, <1>2, <1>4, <2>1 DEF MbTypeOK
<1>9. MbHolds(t)' /\ ~MbAhead(t)'
  BY <1>4 DEF MbHolds, MbAhead
<1>10. ASSUME NEW l \in {"mbrecv", "mbsend"}
       PROVE  \/ MbLeft(l)' + 1 <= MbLeft(l)
              \/ MbLeft(l)' <= MbLeft(l) + 1 /\ t \notin MbFor(l) /\ t \in MbFor(l)'
  <2>1. CASE l = WaitList(t)
    BY <1>3, <1>5, <1>6, <2>1, MbAssumption DEF MbLeft, WaitList, MbEntryAfter
  <2>2. CASE l # WaitList(t)
    <3>1. l = OtherList(t) /\ l = OtherList(t)'
      BY <1>1, <2>2 DEF WaitList, OtherList
    <3>2. t \notin MbFor(l) /\ t \in MbFor(l)'
      BY <1>1, <1>4, <2>2, <3>1 DEF MbFor, MbComes, MbWakes
    <3> QED
      BY <1>3, <1>6, <3>1, <3>2, MbAssumption DEF MbLeft, OtherList, MbEntryAfter
  <2> QED
    BY <2>1, <2>2
<1>11. mbOp'[t] # "recv" => mbValue'[t] \in Mails
  BY <1>1, <1>5
<1>12. mails' \in Seq(Mails) /\ mbEntry' \in 0..MbSize /\ Len(mails') = mbEntry'
  BY <1>5, <1>6
<1>13. MbMoves(t)
  BY <1>1, <1>2, <1>4, <1>8, <1>11, MbWorks
<1> QED
  BY <1>1, <1>2, <1>4, <1>7, <1>8, <1>9, <1>10, <1>11, <1>12, <1>13, MbLoneMove

\* A thread has come into its list: it must wait, and who waits already is served as before.
LEMMA MbWaitServed ==
    ASSUME MbInv, NEW t \in Threads, MustWait(t), UNCHANGED mbEntry, MbContents',
           \A l \in {"mbrecv", "mbsend"} :
              l # WaitList(t) /\ queue'[l] # <<>> => queue[l] # <<>>,
           \A l : l # WaitList(t) => MbFor(l) \subseteq MbFor(l)'
    PROVE  MbServed'
<1>1. ASSUME NEW l \in {"mbrecv", "mbsend"}, queue'[l] # <<>>
      PROVE  MbLeft(l)' <= Cardinality(MbFor(l)')
  <2>1. MbLeft(l) \in Nat /\ MbLeft(l)' \in Nat /\ MbLeft(l)' = MbLeft(l)
    BY MbCounts DEF MbInv, MbLeft
  <2>2. CASE l = WaitList(t)
    <3>1. MbLeft(l) = 0
      BY <2>2, MbMustWaitLeft DEF MbInv
    <3>2. IsFiniteSet(MbFor(l)')
      BY MbLists, WaitAssumption, FS_Subset
    <3>3. Cardinality(MbFor(l)') \in Nat
      BY <3>2, FS_CardinalityType
    <3> QED
      BY <2>1, <3>1, <3>3
  <2>3. CASE l # WaitList(t)
    <3>1. MbLeft(l) <= Cardinality(MbFor(l)) /\ MbFor(l) \subseteq MbFor(l)'
      BY <1>1, <2>3 DEF MbInv, MbServed
    <3> QED
      BY <2>1, <3>1, MbStillServed
  <2> QED
    BY <2>2, <2>3
<1> QED
  BY <1>1 DEF MbServed

\* A thread that must wait goes to sleep in the locked section,
LEMMA MbFallsAsleep ==
    ASSUME MbInv, NEW t \in Threads, MbAlone(t), mbPc[t] = "enter",
           MustWait(t), Suspend(t, WaitList(t), mbWait[t]), MbGoto(t, "wait"),
           UNCHANGED <<mbShared, mbAlive, mbOp, mbWait, mbValue, mbReg, mbTarget>>
    PROVE  MbInv'
<1>1. UNCHANGED <<mbEntry, inOffset, outOffset, pool, mails>>
  BY DEF mbShared
<1>2. MbTypeOK /\ "wait" \in MbLabels /\ disturbed' = FALSE
  BY DEF MbInv, MbThreads, MbLabels, MbAlone
<1>3. /\ mails \in Seq(Mails) /\ mbEntry \in 0..MbSize /\ Len(mails) = mbEntry
      /\ MbRing(mbEntry, mails, inOffset, outOffset, pool)
  BY MbRingBefore DEF MbAhead
<1>4. /\ mbPc' \in [Threads -> MbLabels] /\ mbPc'[t] = "wait"
      /\ \A u \in Threads \ {t} : mbPc'[u] = mbPc[u]
  BY <1>2, MbGoes
<1>5. MbTypeOK'
  BY <1>1, <1>2, <1>4 DEF MbTypeOK
<1>6. /\ MbThreads'
      /\ \A l \in {"mbrecv", "mbsend"} :
            l # WaitList(t) /\ queue'[l] # <<>> => queue[l] # <<>>
      /\ \A l : MbFor(l) \ {t} \subseteq MbFor(l)'
  BY <1>5, MbOneWaits DEF MbInv
<1>7. MbContents' /\ MbPhases'
  <2>1. MbHolds(t)' /\ ~MbAhead(t)'
    BY <1>4 DEF MbHolds, MbAhead
  <2> QED
    BY <1>1, <1>3, <1>4, <2>1, MbAloneStep
<1>8. \A l : l # WaitList(t) => MbFor(l) \subseteq MbFor(l)'
  <2>1. \A l : l # WaitList(t) => t \notin MbFor(l)
    BY DEF MbFor, MbWakes
  <2> QED
    BY <1>6, <2>1
<1>9. MbServed'
  BY <1>1, <1>6, <1>7, <1>8, MbWaitServed
<1> QED
  BY <1>6, <1>7, <1>9 DEF MbInv

\* or after a wake-up, in two steps.
LEMMA MbSleepKeeps == ASSUME MbInv, NEW t \in Threads, MbAlone(t), MbSleep(t) PROVE MbInv'
<1>1. /\ mbPc[t] = "sleep" /\ MbGoto(t, "link")
      /\ stat' = [stat EXCEPT ![t] = "SUSPEND"] /\ timer' = [timer EXCEPT ![t] = FALSE]
      /\ UNCHANGED <<error, queue, irqoff, expired, mbAlive, mbOp, mbWait, mbValue, mbReg,
                     mbTarget>>
      /\ UNCHANGED <<mbEntry, inOffset, outOffset, pool, mails>>
  BY DEF MbSleep, mbShared
<1>2. MbTypeOK /\ "link" \in MbLabels /\ disturbed' = FALSE
  BY DEF MbInv, MbThreads, MbLabels, MbAlone, UnprotectedAt
<1>3. /\ mails \in Seq(Mails) /\ mbEntry \in 0..MbSize /\ Len(mails) = mbEntry
      /\ MbRing(mbEntry, mails, inOffset, outOffset, pool)
      /\ MustWait(t) /\ error[t] = "EOK"
  BY <1>1, MbRingBefore DEF MbAhead, MbHolds
<1>4. /\ mbPc' \in [Threads -> MbLabels] /\ mbPc'[t] = "link"
      /\ \A u \in Threads \ {t} : mbPc'[u] = mbPc[u]
  BY <1>1, <1>2, MbGoes
<1>5. MbTypeOK'
  BY <1>1, <1>2, <1>4 DEF MbTypeOK
<1>6. MbThreads' /\ \A l : MbFor(l) \subseteq MbFor(l)'
  BY <1>1, <1>3, <1>5, MbOneSleeps DEF MbInv
<1>7. MbContents' /\ MbPhases'
  <2>1. MustWait(t)'
    BY <1>1, <1>3 DEF MustWait
  <2>2. MbHolds(t)' /\ ~MbAhead(t)'
    BY <1>4, <2>1 DEF MbHolds, MbAhead
  <2> QED
    BY <1>1, <1>3, <1>4, <2>2, MbAloneStep
<1>8. MbServed'
  BY <1>1, <1>6, <1>7, MbQuietServed
<1> QED
  BY <1>6, <1>7, <1>8 DEF MbInv

LEMMA MbLinkKeeps == ASSUME MbInv, NEW t \in Threads, MbAlone(t), MbLink(t) PROVE MbInv'
<1>1. /\ mbPc[t] = "link" /\ MbGoto(t, "timer")
      /\ queue' = [queue EXCEPT ![WaitList(t)] = Place(@, t, Flag, Prio)]
      /\ UNCHANGED <<stat, error, timer, irqoff, expired, mbAlive, mbOp, mbWait, mbValue, mbReg,
                     mbTarget>>
      /\ UNCHANGED <<mbEntry, inOffset, outOffset, pool, mails>>
  BY DEF MbLink, mbShared
<1>2. MbTypeOK /\ "timer" \in MbLabels /\ disturbed' = FALSE
  BY DEF MbInv, MbThreads, MbLabels, MbAlone, UnprotectedAt
<1>3. /\ mails \in Seq(Mails) /\ mbEntry \in 0..MbSize /\ Len(mails) = mbEntry
      /\ MbRing(mbEntry, mails, inOffset, outOffset, pool) /\ MustWait(t)
  BY <1>1, MbRingBefore DEF MbAhead, MbHolds
<1>4. /\ mbPc' \in [Threads -> MbLabels] /\ mbPc'[t] = "timer"
      /\ \A u \in Threads \ {t} : mbPc'[u] = mbPc[u]
  BY <1>1, <1>2, MbGoes
<1>5. MbTypeOK'
  BY <1>1, <1>2, <1>4 DEF MbTypeOK
<1>6. /\ MbThreads'
      /\ \A l \in {"mbrecv", "mbsend"} :
            l # WaitList(t) /\ queue'[l] # <<>> => queue[l] # <<>>
      /\ \A l : MbFor(l) \subseteq MbFor(l)'
  BY <1>1, <1>5, MbOneLinks DEF MbInv
<1>7. MbContents' /\ MbPhases'
  <2>1. MbHolds(t)' /\ ~MbAhead(t)'
    BY <1>4 DEF MbHolds, MbAhead
  <2> QED
    BY <1>1, <1>3, <1>4, <2>1, MbAloneStep
<1>8. MbServed'
  BY <1>1, <1>3, <1>6, <1>7, MbWaitServed
<1> QED
  BY <1>6, <1>7, <1>8 DEF MbInv

\* A thread that has put or taken a mail resumes who waits for it.
LEMMA MbWakesKeeps ==
    ASSUME MbInv, NEW t \in Threads, MbAlone(t), mbPc[t] \in {"enter", "wake"},
           ResumeFirst(OtherList(t)), MbReturn(t), UNCHANGED mbOp, MbTypeOK',
           mails' \in Seq(Mails), mbEntry' \in 0..MbSize, Len(mails') = mbEntry',
           MbRing(mbEntry', mails', inOffset', outOffset', pool'),
           \A l \in {"mbrecv", "mbsend"} :
              IF l = OtherList(t)
              THEN \/ MbLeft(l)' <= MbLeft(l)
                   \/ MbLeft(l)' <= MbLeft(l) + 1 /\ t \notin MbFor(l)
              ELSE \/ MbLeft(l)' <= MbLeft(l) /\ t \notin MbFor(l)
                   \/ MbLeft(l)' + 1 <= MbLeft(l)
    PROVE  MbInv'
<1>1. MbTypeOK /\ stat[t] = "RUN"
  BY MbNotWaiting DEF MbInv, MbThreads
<1>2. mbPc'[t] = "idle" /\ \A u \in Threads \ {t} : mbPc'[u] = mbPc[u] /\ mbValue'[u] = mbValue[u]
  BY <1>1, MbReturnTypes
<1>3. PICK o \in {"mbrecv", "mbsend"} : o = OtherList(t)
  BY MbLists
<1>4. /\ MbThreads'
      /\ \A k \in {"mbrecv", "mbsend"} : queue'[k] # <<>> => queue[k] # <<>>
      /\ \A k : MbFor(k) \ {t} \subseteq MbFor(k)'
      /\ queue[o] # <<>> =>
            \E h \in Threads \ {t} : /\ h \notin MbFor(o)
                                     /\ (MbFor(o) \ {t}) \cup {h} \subseteq MbFor(o)'
  BY <1>1, <1>2, <1>3, MbOneWakes DEF MbInv
<1>5. MbContents' /\ MbPhases'
  <2>1. MbHolds(t)' /\ ~MbAhead(t)'
    BY <1>2 DEF MbHolds, MbAhead
  <2> QED
    BY <1>2, <2>1, MbAloneStep
<1>6. ASSUME NEW l \in {"mbrecv", "mbsend"}, queue'[l] # <<>>
      PROVE  MbLeft(l)' <= Cardinality(MbFor(l)')
  <2>1. MbLeft(l) \in Nat /\ MbLeft(l)' \in Nat
    BY <1>5, MbCounts DEF MbInv
  <2>2. queue[l] # <<>> /\ MbLeft(l) <= Cardinality(MbFor(l))
    BY <1>4, <1>6 DEF MbInv, MbServed
  <2>3. CASE l = o
    <3>1. PICK h \in Threads \ {t} : /\ h \notin MbFor(l)
                                     /\ (MbFor(l) \ {t}) \cup {h} \subseteq MbFor(l)'
      BY <1>4, <2>2, <2>3
    <3>2. CASE MbLeft(l)' <= MbLeft(l)
      BY <2>1, <2>2, <3>1, <3>2, MbStillServed
    <3>3. CASE MbLeft(l)' <= MbLeft(l) + 1 /\ t \notin MbFor(l)
      <4>1. MbFor(l) \cup {h} \subseteq MbFor(l)'
        BY <3>1, <3>3
      <4> QED
        BY <2>1, <2>2, <3>1, <3>3, <4>1, MbStillServed
    <3> QED
      BY <1>3, <2>3, <3>2, <3>3
  <2>4. CASE l # o
    <3>1. CASE MbLeft(l)' <= MbLeft(l) /\ t \notin MbFor(l)
      <4>1. MbFor(l) \subseteq MbFor(l)'
        BY <1>4, <3>1
      <4> QED
        BY <2>1, <2>2, <3>1, <4>1, MbStillServed
    <3>2. CASE MbLeft(l)' + 1 <= MbLeft(l)
      <4>1. MbFor(l) \ {t} \subseteq MbFor(l)'
        BY <1>4
      <4> QED
        BY <2>1, <2>2, <3>2, <4>1, MbStillServed
    <3> QED
      BY <1>3, <2>4, <3>1, <3>2
  <2> QED
    BY <2>3, <2>4
<1> QED
  BY <1>4, <1>5, <1>6 DEF MbInv, MbServed

\* rt_thread_resume's section finds the head of the other list asleep, as it was tested.
LEMMA MbWakeKeeps == ASSUME MbInv, NEW t \in Threads, MbAlone(t), MbWake(t) PROVE MbInv'
<1>1. /\ mbPc[t] = "wake" /\ WakeUp(mbTarget[t]) /\ MbReturn(t)
      /\ UNCHANGED <<error, irqoff, expired, mbAlive, mbOp>>
      /\ UNCHANGED <<mbEntry, inOffset, outOffset, pool, mails>>
  BY DEF MbWake, mbShared
<1>2. MbTypeOK /\ disturbed' = FALSE
  BY DEF MbInv, MbThreads, MbAlone
<1>3. /\ mails \in Seq(Mails) /\ mbEntry \in 0..MbSize /\ Len(mails) = mbEntry
      /\ MbRing(mbEntry, mails, inOffset, outOffset, pool)
      /\ queue[OtherList(t)] # <<>> /\ mbTarget[t] = Head(queue[OtherList(t)])
  BY <1>1, MbRingBefore DEF MbAhead, MbHolds
<1>4. ResumeFirst(OtherList(t))
  <2>1. mbPc[t] # "link"
    BY <1>1
  <2>2. SuspendedIsLinked /\ IpcTypeOK /\ OtherList(t) \in Lists
    BY <2>1, MbAllLinked, MbLists DEF MbInv
  <2>3. stat[Head(queue[OtherList(t)])] = "SUSPEND"
    BY <1>3, <2>2, HeadSuspended
  <2> QED
    BY <1>1, <1>3, <2>3 DEF ResumeFirst, ThreadResume
<1>5. MbTypeOK'
  <2>1. /\ mbPc' \in [Threads -> MbLabels]
        /\ mbWait' \in [Threads -> {"no", "timed", "forever"}]
        /\ mbValue' \in [Threads -> Mails \cup {NoMail}]
        /\ mbReg' \in [Threads -> 0..MbEntryMax]
        /\ mbTarget' \in [Threads -> Threads \cup {Nobody}]
    BY <1>1, <1>2, MbReturnTypes
  <2> QED
    BY <1>1, <1>2, <2>1 DEF MbTypeOK
<1>6. ASSUME NEW l \in {"mbrecv", "mbsend"}
      PROVE  MbLeft(l)' <= MbLeft(l) /\ (l # OtherList(t) => t \notin MbFor(l))
  <2>1. MbLeft(l) \in Nat /\ MbLeft(l)' = MbLeft(l)
    BY <1>1, MbCounts DEF MbInv, MbLeft
  <2> QED
    BY <1>1, <2>1 DEF MbFor, MbComes
<1> QED
  BY <1>1, <1>3, <1>4, <1>5, <1>6, MbWakesKeeps

\* The mail that the section puts at the end, puts in front, or takes.
LEMMA MbMailMoves ==
    ASSUME MbInv, NEW t \in Threads, MbAlone(t), mbPc[t] = "enter", ~MustWait(t),
           Put(t) \/ PutUrgent(t) \/ Get(t)
    PROVE  /\ ~Overflows(t)
           /\ mails' \in Seq(Mails) /\ mbEntry' \in 0..MbSize /\ Len(mails') = mbEntry'
           /\ MbRing(mbEntry', mails', inOffset', outOffset', pool')
           /\ mbEntry' = IF mbOp[t] = "recv" THEN mbEntry - 1 ELSE mbEntry + 1
<1>1. /\ mails \in Seq(Mails) /\ mbEntry \in 0..MbSize /\ Len(mails) = mbEntry
      /\ MbRing(mbEntry, mails, inOffset, outOffset, pool)
  BY MbRingBefore DEF MbAhead
<1>2. MbRing(mbEntry, mails, inOffset, outOffset, pool) /\ mbEntry \in Nat
  BY <1>1, MbAssumption
<1>3. /\ MbRing(mbEntry', mails', inOffset', outOffset', pool')
      /\ mbEntry' = IF mbOp[t] = "recv" THEN mbEntry - 1 ELSE mbEntry + 1
  <2>1. CASE Get(t)
    <3>1. /\ mbOp[t] = "recv" /\ outOffset' = Following(outOffset) /\ mbEntry' = mbEntry - 1
          /\ mails' = Tail(mails) /\ UNCHANGED <<inOffset, pool>>
      BY <2>1 DEF Get
    <3>2. mbEntry # 0
      BY <3>1 DEF MustWait
    <3>3. MbRing(mbEntry - 1, Tail(mails), inOffset, Following(outOffset), pool)
      BY ONLY <1>2, <3>2, MbGetCounted
    <3> QED
      BY <3>1, <3>3, Zenon
  <2>2. CASE Put(t) \/ PutUrgent(t)
    <3>1. mbOp[t] # "recv" /\ mbEntry # MbSize /\ mbValue[t] \in Mails
      BY <2>2 DEF Put, PutUrgent, MustWait, MbInv, MbThreads, MbWaiting, MbOutside
    <3>2. mbEntry < MbSize /\ mbEntry < MbEntryMax
      BY <1>1, <3>1, MbAssumption
    <3>3. CASE Put(t)
      <4> DEFINE p == [pool EXCEPT ![inOffset] = mbValue[t]]
      <4>1. /\ pool' = p /\ inOffset' = Following(inOffset) /\ outOffset' = outOffset
            /\ mbEntry' = mbEntry + 1 /\ mails' = Append(mails, mbValue[t])
        <5>1. mbOp[t] = "send" /\ mbEntry \in Nat /\ MbEntryMax \in Nat
          BY <1>1, <3>3, MbAssumption DEF Put
        <5>2. ~Overflows(t)
          BY ONLY <3>2, <5>1 DEF Overflows
        <5> QED
          BY <3>3, <5>2, Zenon DEF Put
      <4>2. MbRing(mbEntry, mails, inOffset, outOffset, p) /\ p[inOffset] = mbValue[t]
        BY ONLY <1>2, <3>1, MbSlotWritten
      <4> HIDE DEF p
      <4>3. MbRing(mbEntry + 1, Append(mails, mbValue[t]), Following(inOffset), outOffset, p)
        BY ONLY <1>2, <3>1, <4>2, MbPutCounted
      <4> QED
        BY <3>1, <4>1, <4>3, Zenon
    <3>4. CASE PutUrgent(t)
      <4>1. PICK o : o = IF outOffset > 0 THEN outOffset - 1 ELSE MbSize - 1
        OBVIOUS
      <4>2. /\ outOffset' = o /\ pool' = [pool EXCEPT ![o] = mbValue[t]] /\ inOffset' = inOffset
            /\ mbEntry' = mbEntry + 1 /\ mails' = <<mbValue[t]>> \o mails
        BY ONLY <3>2, <3>4, <4>1 DEF PutUrgent
      <4>3. MbRing(mbEntry + 1, <<mbValue[t]>> \o mails, inOffset, o,
                   [pool EXCEPT ![o] = mbValue[t]])
        BY ONLY <1>2, <3>1, <4>1, MbUrgentCounted
      <4> QED
        BY <3>1, <4>2, <4>3, Zenon
    <3> QED
      BY <2>2, <3>3, <3>4
  <2> QED
    BY <2>1, <2>2
<1>4. ~Overflows(t)
  BY <1>1, MbAssumption DEF Overflows, MustWait
<1> QED
  BY <1>3, <1>4 DEF MbRing

LEMMA MbSectionKeeps ==
    ASSUME MbInv, NEW t \in Threads, MbAlone(t), MbSection(t) PROVE MbInv'
<1>1. mbPc[t] = "enter" /\ UNCHANGED <<mbAlive, mbOp>>
  BY DEF MbSection
<1>2. MbTypeOK /\ IpcTypeOK /\ disturbed' = FALSE /\ MbContents
  BY <1>1 DEF MbInv, MbThreads, MbAlone
<1>3. CASE MustWait(t) /\ mbWait[t] = "no"
  <2>1. /\ MbReturn(t)
        /\ UNCHANGED <<stat, error, timer, queue, irqoff, expired, mbShared, mbAlive, mbOp>>
    BY <1>1, <1>3 DEF MbSection, ipcVars
  <2>2. stat[t] = "RUN" /\ ~MbAhead(t) /\ ~MbWakes(t) /\ error' \in [Threads -> Errors]
    BY <1>1, <1>2, <2>1, MbNotWaiting DEF MbInv, MbAhead, MbWakes, IpcTypeOK
  <2>3. \A l : t \in MbFor(l) => MbLeft(l) = 0
    BY <1>2, <1>3, <2>2, MbMustWaitFor
  <2> QED
    BY <2>1, <2>2, <2>3, MbReturnKeeps
<1>4. CASE MustWait(t) /\ mbWait[t] # "no"
  <2>1. /\ Suspend(t, WaitList(t), mbWait[t]) /\ MbGoto(t, "wait")
        /\ UNCHANGED <<mbShared, mbWait, mbValue, mbReg, mbTarget>>
    BY <1>4 DEF MbSection
  <2> QED
    BY <1>1, <1>4, <2>1, MbFallsAsleep
<1>5. CASE ~MustWait(t)
  <2>1. /\ Put(t) \/ PutUrgent(t) \/ Get(t)
        /\ MbReturn(t) /\ (~Overflows(t) => ResumeFirst(OtherList(t)))
    BY <1>5 DEF MbSection
  <2>2. /\ ~Overflows(t) /\ mails' \in Seq(Mails) /\ mbEntry' \in 0..MbSize /\ Len(mails') = mbEntry'
        /\ MbRing(mbEntry', mails', inOffset', outOffset', pool')
        /\ mbEntry' = IF mbOp[t] = "recv" THEN mbEntry - 1 ELSE mbEntry + 1
    BY <1>1, <1>2, <1>5, <2>1, MbMailMoves
  <2>3. MbTypeOK'
    <3>1. /\ mbPc' \in [Threads -> MbLabels] /\ mbTarget' \in [Threads -> Threads \cup {Nobody}]
          /\ mbWait' \in [Threads -> {"no", "timed", "forever"}]
          /\ mbValue' \in [Threads -> Mails \cup {NoMail}]
          /\ mbReg' \in [Threads -> 0..MbEntryMax]
      BY <1>2, <2>1, MbReturnTypes
    <3>2. /\ inOffset' \in Slots /\ outOffset' \in Slots
          /\ pool' \in [Slots -> Mails \cup {NoMail}]
      BY <2>2 DEF MbRing
    <3>3. mbEntry' \in 0..MbEntryMax
      BY <2>2, MbAssumption
    <3> QED
      BY <1>1, <1>2, <2>2, <3>1, <3>2, <3>3 DEF MbTypeOK
  <2>4. ASSUME NEW l \in {"mbrecv", "mbsend"}
        PROVE  IF l = OtherList(t) THEN MbLeft(l)' <= MbLeft(l) + 1 /\ t \notin MbFor(l)
               ELSE MbLeft(l)' + 1 <= MbLeft(l)
    <3>1. l = OtherList(t) => t \notin MbFor(l)
      BY <1>1, MbLists DEF MbFor, MbWakes
    <3>2. mbEntry \in 0..MbSize
      BY <1>2 DEF MbContents
    <3> QED
      BY <2>2, <3>1, <3>2, MbAssumption DEF MbLeft, OtherList
  <2> QED
    BY <1>1, <1>2, <2>1, <2>2, <2>3, <2>4, MbWakesKeeps
<1> QED
  BY <1>3, <1>4, <1>5

\* Everybody leaves the lists, with an error, and the ring is empty.
LEMMA MbResetKeeps ==
    ASSUME MbInv, NEW t \in Threads, MbAlone(t), MbReset(t) PROVE MbInv'
<1>1. /\ mbPc[t] = "idle" /\ ResumeAll({"mbrecv", "mbsend"})
      /\ mbEntry' = 0 /\ inOffset' = 0 /\ outOffset' = 0 /\ mails' = <<>>
      /\ UNCHANGED <<pool, mbAlive, mbOp, mbPc, mbWait, mbValue, mbReg, mbTarget>>
  BY DEF MbReset
<1>2. MbTypeOK /\ disturbed' = FALSE /\ IpcTypeOK /\ SuspendedIsLinked
  <2>1. mbPc[t] # "link"
    BY <1>1
  <2> QED
    BY <2>1, MbAllLinked DEF MbInv, MbThreads, MbAlone
<1>3. mails' \in Seq(Mails) /\ Len(mails') = 0 /\ 0 \in 0..MbSize
  BY <1>1, MbAssumption
<1>4. MbTypeOK'
  <2>1. mbEntry' \in 0..MbEntryMax /\ inOffset' \in Slots /\ outOffset' \in Slots
    BY <1>1, MbAssumption DEF Slots
  <2> QED
    BY <1>1, <1>2, <1>3, <2>1 DEF MbTypeOK
<1>5. /\ IpcTypeOK' /\ SuspendedIsLinked'
      /\ \A l \in {"mbrecv", "mbsend"} : queue'[l] = <<>>
      /\ \A l \in Lists \ {"mbrecv", "mbsend"} : queue'[l] = queue[l]
      /\ \A u \in Threads :
            IF u \in UNION {ToSet(queue[l]) : l \in {"mbrecv", "mbsend"}}
            THEN stat'[u] = "RUN" /\ error'[u] = "ERROR"
            ELSE stat'[u] = stat[u] /\ error'[u] = error[u]
  BY <1>1, <1>2, MbLists, ResumeAllUnlinks
<1>6. MbThreads'
  <2>1. \A k \in Lists : ToSet(queue'[k]) \subseteq ToSet(queue[k])
    <3>1. ToSet(<<>>) = {}
      BY DEF ToSet
    <3> QED
      BY <1>5, <3>1
  <2>2. /\ \A u \in Threads :
              stat'[u] = "SUSPEND" => stat[u] = "SUSPEND" /\ error'[u] = error[u]
        /\ \A u \in Threads : stat[u] = "RUN" => stat'[u] = "RUN" /\ error'[u] = error[u]
    <3>1. \A u \in UNION {ToSet(queue[l]) : l \in {"mbrecv", "mbsend"}} : stat[u] = "SUSPEND"
      BY MbListed DEF MbInv
    <3> QED
      BY <1>5, <3>1
  <2> QED
    <3>1. mbPc[t] # "link" /\ mbPc'[t] = mbPc[t] /\ \A u \in Threads \ {t} : mbPc'[u] = mbPc[u]
      BY <1>1
    <3>2. UNCHANGED <<mbOp, mbValue>>
      BY <1>1
    <3> QED
      BY <1>4, <1>5, <2>1, <2>2, <3>1, <3>2, MbSomeLeave DEF MbInv
<1>7. MbContents' /\ MbPhases'
  <2>1. MbHolds(t)' /\ ~MbAhead(t)'
    BY <1>1 DEF MbHolds, MbAhead
  <2>2. MbRing(mbEntry', mails', inOffset', outOffset', pool')
    BY <1>1, <1>3, <1>4, MbAssumption DEF MbRing, MbTypeOK, MbWrap, Slots
  <2>3. mbEntry' \in 0..MbSize /\ Len(mails') = mbEntry'
    BY <1>1, <1>3
  <2> QED
    BY <1>1, <1>2, <1>3, <2>1, <2>2, <2>3, MbAloneStep
<1>8. MbServed'
  BY <1>5 DEF MbServed
<1> QED
  BY <1>6, <1>7, <1>8 DEF MbInv


\* Every step that does not disturb the mailbox.
LEMMA MbNextKeeps ==
    ASSUME MbInv, [MbNext]_<<ipcVars, mbVars>>, ~disturbed' PROVE MbInv'
<1>1. CASE UNCHANGED <<ipcVars, mbVars>>
  <2>1. UNCHANGED <<stat, error, timer, queue, irqoff, expired, mbEntry, inOffset, outOffset,
                    pool, mails, mbAlive, mbOp, mbPc, mbWait, mbValue, mbReg, mbTarget, disturbed>>
    BY <1>1 DEF ipcVars, mbVars, mbShared
  <2>2. MbTypeOK' /\ IpcTypeOK' /\ MbWaiting'
    BY <2>1 DEF MbInv, MbThreads, MbTypeOK, IpcTypeOK, MbWaiting, WaitList
  <2>3. MbLinked'
    BY <2>1 DEF MbInv, MbThreads, MbLinked, MbLoose, SuspendedIsLinked
  <2>4. MbContents' /\ MbPhases'
    BY <2>1 DEF MbInv, MbContents, MbPhases, MbAhead, MbEntryAfter, MbMailsAfter, MbHolds,
                MustWait, OtherList
  <2>5. MbServed'
    <3>1. \A l : MbFor(l)' = MbFor(l) /\ MbLeft(l)' = MbLeft(l)
      BY <2>1 DEF MbFor, MbComes, MbWakes, MbLeft, WaitList, OtherList
    <3> QED
      BY <2>1, <3>1 DEF MbInv, MbServed
  <2> QED
    BY <2>2, <2>3, <2>4, <2>5 DEF MbInv, MbThreads
<1>2. ASSUME NEW t \in Threads, MbPreempt(t), Disturbs({t}) PROVE MbInv'
  BY <1>2 DEF Disturbs
<1>3. ASSUME NEW t \in Threads, MbTimeout(t), Disturbs(Unprotected) PROVE MbInv'
  <2>1. Unprotected = {} /\ disturbed' = FALSE
    BY <1>3 DEF Disturbs
  <2> QED
    BY <1>3, <2>1, MbTimeoutKeeps
<1>4. ASSUME NEW t \in Threads, MbStep(t), Disturbs(Unprotected \ {t}) PROVE MbInv'
  <2>1. Unprotected \ {t} = {} /\ disturbed' = FALSE
    BY <1>4 DEF Disturbs
  <2> MbAlone(t)
    BY <2>1 DEF MbAlone, Unprotected
  <2>2. /\ \A v \in MailOf[t] : v \in Mails
        /\ \A time \in WaitsOf(t) : time \in {"no", "timed", "forever"}
    BY MbAssumption, WaitAssumption DEF WaitsOf
  <2>3. ASSUME NEW v \in MailOf[t], MbCall(t, "urgent", v, "no") PROVE MbInv'
    BY <2>2, <2>3, MbCallKeeps
  <2>4. ASSUME NEW v \in MailOf[t], NEW time \in WaitsOf(t), MbCall(t, "send", v, time)
        PROVE  MbInv'
    BY <2>2, <2>4, MbCallKeeps
  <2>5. ASSUME NEW time \in WaitsOf(t), MbCall(t, "recv", NoMail, time) PROVE MbInv'
    BY <2>2, <2>5, MbCallKeeps
  <2>6. CASE MbSection(t)
    BY <2>6, MbSectionKeeps
  <2>7. CASE MbWaitFails(t)
    BY <2>7, MbWaitFailsKeeps
  <2>8. CASE MbLookAgain(t)
    BY <2>8, MbLookAgainKeeps
  <2>9. CASE MbAgain(t)
    BY <2>9, MbAgainKeeps
  <2>10. CASE MbSleep(t)
    BY <2>10, MbSleepKeeps
  <2>11. CASE MbLink(t)
    BY <2>11, MbLinkKeeps
  <2>12. CASE MbStartTimer(t)
    BY <2>12, MbStartTimerKeeps
  <2>13. CASE MbSlot(t)
    BY <2>13, MbSlotKeeps
  <2>14. CASE MbOffset(t)
    BY <2>14, MbOffsetKeeps
  <2>15. CASE MbLoad(t)
    BY <2>15, MbLoadKeeps
  <2>16. CASE MbStore(t)
    BY <2>16, MbStoreKeeps
  <2>17. CASE MbResume(t) \/ MbChoose(t) \/ MbTest(t)
    BY <2>17, MbLooksKeeps
  <2>18. CASE MbWake(t)
    BY <2>18, MbWakeKeeps
  <2>19. CASE MbReset(t)
    BY <2>19, MbResetKeeps
  <2>20. CASE \/ MbDetach(t) \/ MbDetachObject(t)
              \/ MbDetachTest(t, "mbrecv", "poprecv") \/ MbDetachTest(t, "mbsend", "popsend")
    BY <2>20, MbDetachKeeps
  <2>21. CASE MbDetachRound(t, "mbrecv", "poprecv") \/ MbDetachRound(t, "mbsend", "popsend")
    BY <2>21, MbDetachRoundKeeps
  <2> QED
    BY <1>4, <2>3, <2>4, <2>5, <2>6, <2>7, <2>8, <2>9, <2>10, <2>11, <2>12, <2>13, <2>14,
       <2>15, <2>16, <2>17, <2>18, <2>19, <2>20, <2>21 DEF MbStep
<1> QED
  BY <1>1, <1>2, <1>3, <1>4 DEF MbNext

\* The invariant, until somebody comes between the unprotected statements.
MbIInv == disturbed \/ MbInv

LEMMA MbInvariant == MbSpec => []MbIInv
<1>1. IpcInit /\ MbInit => MbIInv
  BY MbInitial DEF MbIInv
<1>2. MbIInv /\ [MbNext]_<<ipcVars, mbVars>> => MbIInv'
  <2> SUFFICES ASSUME MbIInv, [MbNext]_<<ipcVars, mbVars>> PROVE MbIInv'
    OBVIOUS
  <2>1. CASE disturbed
    <3>1. CASE UNCHANGED <<ipcVars, mbVars>>
      BY <2>1, <3>1 DEF MbIInv, mbVars
    <3>2. CASE MbNext
      BY <2>1, <3>2 DEF MbIInv, MbNext, Disturbs
    <3> QED
      BY <3>1, <3>2
  <2>2. CASE ~disturbed
    BY <2>2, MbNextKeeps DEF MbIInv
  <2> QED
    BY <2>1, <2>2
<1> QED
  BY <1>1, <1>2, PTL DEF MbSpec

\* As long as nobody comes between the unprotected statements of a woken thread, every
\* variable of the mailbox stays in its type: entry above all, which such a thread
\* loads and stores.
THEOREM MbTypes == MbSpec => [](~disturbed => MbTypeOK)
<1>1. MbIInv => (~disturbed => MbTypeOK)
  BY MbInvServes DEF MbIInv
<1> QED
  BY <1>1, MbInvariant, PTL

\* As long as nobody does, rt_mb_send_wait, rt_mb_urgent and rt_mb_recv lose, double and
\* reorder nothing, and wake whoever can go on.
THEOREM MbMailsServed == MbSpec => []MailsServed
<1>1. MbIInv => MailsServed
  <2>1. MbInv => MailsServed
    BY MbInvServes
  <2>2. disturbed => MailsServed
    BY DEF MailsServed, MailsInOrder, NoMailInVain
  <2> QED
    BY <2>1, <2>2 DEF MbIInv
<1> QED
  BY <1>1, MbInvariant, PTL

-----------------------------------------------------------------------------
(* The event *)

\* What rt_event_send's scan has done when it has passed the first m threads of the list
\* w: who is woken, and who is still linked.
EvScanLists(scan, m, w) ==
    /\ scan.woken \in SUBSET ToSet(w)
    /\ scan.list \in Seq(Threads) /\ IsInjective(scan.list)
    /\ ToSet(scan.list) = ToSet(w) \ scan.woken
    /\ \A i \in 1..Len(w) : i > m => w[i] \notin scan.woken

\* The threads it has passed still lack what they asked for, or have what is theirs
\* alone.
EvScanEvents(scan, m, w, present) ==
    /\ scan.left \in SUBSET present
    /\ scan.received \in [Threads -> SUBSET Events]
    /\ \A t \in Threads \ scan.woken : scan.received[t] = eventSet[t]
    /\ \A i \in 1..m :
          w[i] \notin scan.woken => ~Satisfied(scan.left, eventSet[w[i]], eventInfo[w[i]].mode)
    /\ \A t \in scan.woken :
          /\ scan.received[t] # {} /\ scan.received[t] \subseteq eventSet[t]
          /\ eventInfo[t].mode = "AND" => scan.received[t] = eventSet[t]
          /\ eventInfo[t].clear => scan.received[t] \cap scan.left = {}
    /\ \A s, t \in scan.woken :
          s # t /\ eventInfo[s].clear /\ eventInfo[t].clear
              => scan.received[s] \cap scan.received[t] = {}

EvWaiting ==
    \A t \in Threads :
        stat[t] = "SUSPEND" => evPc[t] = "wait" /\ error[t] = "EOK" /\ eventSet[t] # {}

EvThreads == EventTypeOK /\ IpcTypeOK /\ SuspendedIsLinked /\ EvWaiting

EvInv == EvThreads /\ NoWaiterSatisfied

LEMMA EvLists == "event" \in Lists
  BY EventAssumption

\* A member of the list is a thread that is suspended.
LEMMA EvListed ==
    ASSUME EvThreads
    PROVE  /\ queue["event"] \in Seq(Threads) /\ IsInjective(queue["event"])
           /\ \A t \in ToSet(queue["event"]) :
                 t \in Threads /\ stat[t] = "SUSPEND" /\ eventSet[t] # {}
                 /\ eventSet[t] \in SUBSET Events /\ eventInfo[t].mode \in Modes
<1>1. queue["event"] \in Seq(Threads) /\ IsInjective(queue["event"])
  BY EvLists DEF EvThreads, IpcTypeOK, SuspendedIsLinked
<1>2. ASSUME NEW t \in ToSet(queue["event"])
      PROVE  t \in Threads /\ stat[t] = "SUSPEND"
  <2>1. t \in Threads
    BY <1>1, LenProperties, ElementOfSeq DEF ToSet
  <2> QED
    BY <2>1, EvLists DEF EvThreads, SuspendedIsLinked
<1> QED
  BY <1>1, <1>2 DEF EvThreads, EvWaiting, EventTypeOK

\* The thread that the scan reaches is passed by or woken; nobody else changes.
LEMMA EvScanStep ==
    ASSUME EvThreads, NEW present \in SUBSET Events, NEW w, w = queue["event"],
           NEW scan, NEW m \in Nat, m + 1 <= Len(w),
           EvScanLists(scan, m, w), EvScanEvents(scan, m, w, present)
    PROVE  /\ EvScanLists(Deliver(scan, w[m + 1]), m + 1, w)
           /\ EvScanEvents(Deliver(scan, w[m + 1]), m + 1, w, present)
<1> DEFINE t == w[m + 1]
           got == eventSet[t] \cap scan.left
           r == Deliver(scan, t)
<1>1. w \in Seq(Threads) /\ IsInjective(w) /\ Len(w) \in Nat /\ DOMAIN w = 1..Len(w)
  BY EvListed, LenProperties
<1>2. /\ m + 1 \in 1..Len(w) /\ t \in ToSet(w) /\ t \in Threads
      /\ t \notin scan.woken
      /\ eventSet[t] # {} /\ eventSet[t] \in SUBSET Events /\ eventInfo[t].mode \in Modes
  BY <1>1, EvListed DEF EvScanLists, ToSet
<1>3. \A i \in 1..Len(w) : i # m + 1 => w[i] # t
  BY <1>1, <1>2 DEF IsInjective
<1>4. CASE ~Satisfied(scan.left, eventSet[t], eventInfo[t].mode)
  <2>1. r = scan
    BY <1>4 DEF Deliver
  <2>2. EvScanLists(scan, m + 1, w)
    BY DEF EvScanLists
  <2>3. \A i \in 1..m + 1 : i \in 1..m \/ i = m + 1
    OBVIOUS
  <2>4. EvScanEvents(scan, m + 1, w, present)
    BY <1>4, <2>3 DEF EvScanEvents
  <2> QED
    BY <2>1, <2>2, <2>4
<1>5. CASE Satisfied(scan.left, eventSet[t], eventInfo[t].mode)
  <2>1. /\ r.left = (IF eventInfo[t].clear THEN scan.left \ got ELSE scan.left)
        /\ r.received = [scan.received EXCEPT ![t] = got]
        /\ r.woken = scan.woken \cup {t}
        /\ r.list = Without(scan.list, t)
    BY <1>5 DEF Deliver
  <2>2. got # {} /\ got \subseteq eventSet[t] /\ (eventInfo[t].mode = "AND" => got = eventSet[t])
    BY <1>2, <1>5 DEF Satisfied, Modes
  <2>3. r.left \subseteq scan.left /\ (eventInfo[t].clear => got \cap r.left = {})
    BY <2>1
  <2>4. got \subseteq scan.left /\ got \in SUBSET Events
    BY <1>2
  <2> HIDE DEF t, got, r
  <2>5. EvScanLists(r, m + 1, w)
    <3>1. /\ r.list \in Seq(Threads) /\ IsInjective(r.list)
          /\ ToSet(r.list) = ToSet(scan.list) \ {t}
      BY <2>1, WithoutProperties DEF EvScanLists
    <3>2. r.woken \in SUBSET ToSet(w) /\ ToSet(r.list) = ToSet(w) \ r.woken
      BY <1>2, <2>1, <3>1 DEF EvScanLists
    <3>3. \A i \in 1..Len(w) : i > m + 1 => w[i] \notin r.woken
      BY <1>3, <2>1 DEF EvScanLists
    <3> QED
      BY <3>1, <3>2, <3>3 DEF EvScanLists
  <2>6. EvScanEvents(r, m + 1, w, present)
    <3>1. r.left \in SUBSET present
      BY <2>3 DEF EvScanEvents
    <3>2. r.received \in [Threads -> SUBSET Events]
      <4>1. PICK q \in [Threads -> SUBSET Events] : q = scan.received
        BY DEF EvScanEvents
      <4>2. r.received = [q EXCEPT ![t] = got]
        BY <2>1, <4>1
      <4> QED
        BY <2>4, <4>2
    <3>3. /\ \A s \in Threads : s # t => r.received[s] = scan.received[s]
          /\ r.received[t] = got
      BY <1>2, <2>1 DEF EvScanEvents
    <3>4. \A s \in scan.woken : s \in Threads /\ s # t
      BY <1>2, EvListed DEF EvScanLists
    <3>5. \A s \in Threads \ r.woken : r.received[s] = eventSet[s]
      BY <2>1, <3>3 DEF EvScanEvents
    <3>6. ASSUME NEW i \in 1..m + 1, w[i] \notin r.woken
          PROVE  ~Satisfied(r.left, eventSet[w[i]], eventInfo[w[i]].mode)
      <4>1. i # m + 1
        BY <2>1, <3>6 DEF t
      <4>2. i \in 1..m /\ w[i] \notin scan.woken
        BY <2>1, <3>6, <4>1
      <4>3. ~Satisfied(scan.left, eventSet[w[i]], eventInfo[w[i]].mode)
        BY <4>2 DEF EvScanEvents
      <4> QED
        BY <2>3, <4>3 DEF Satisfied
    <3>7. ASSUME NEW s \in r.woken
          PROVE  /\ r.received[s] # {} /\ r.received[s] \subseteq eventSet[s]
                 /\ eventInfo[s].mode = "AND" => r.received[s] = eventSet[s]
                 /\ eventInfo[s].clear => r.received[s] \cap r.left = {}
      <4>1. CASE s = t
        BY <2>2, <2>3, <3>3, <4>1
      <4>2. CASE s # t
        <5>1. s \in scan.woken /\ r.received[s] = scan.received[s]
          BY <2>1, <3>3, <3>4, <3>7, <4>2
        <5> QED
          BY <2>3, <5>1 DEF EvScanEvents
      <4> QED
        BY <4>1, <4>2
    <3>8. ASSUME NEW s \in r.woken, NEW u \in r.woken,
                 s # u, eventInfo[s].clear, eventInfo[u].clear
          PROVE  r.received[s] \cap r.received[u] = {}
      <4>1. \A v \in scan.woken :
                eventInfo[v].clear => scan.received[v] \cap got = {}
        BY <2>4 DEF EvScanEvents
      <4>2. \A v \in r.woken : v = t \/ (v \in scan.woken /\ r.received[v] = scan.received[v])
        BY <2>1, <3>3, <3>4
      <4>3. CASE s = t
        BY <3>3, <3>8, <4>1, <4>2, <4>3
      <4>4. CASE u = t
        BY <3>3, <3>8, <4>1, <4>2, <4>4
      <4>5. CASE s # t /\ u # t
        BY <3>8, <4>2, <4>5 DEF EvScanEvents
      <4> QED
        BY <4>3, <4>4, <4>5
    <3> QED
      BY <3>1, <3>2, <3>5, <3>6, <3>7, <3>8 DEF EvScanEvents
  <2> QED
    BY <2>5, <2>6 DEF r, t
<1> QED
  BY <1>4, <1>5

\* The scan of the first m threads of the list w, thread by thread: there is one.
EvScan(f, first, w, m) ==
    f = [i \in 0..m |-> IF i = 0 THEN first ELSE Deliver(f[i - 1], w[i])]

LEMMA EvScanExists ==
    ASSUME NEW first, NEW w, NEW n \in Nat PROVE \E f : EvScan(f, first, w, n)
<1> DEFINE Upto(f, m) == EvScan(f, first, w, m)
           Missing == {m \in 0..n : ~\E f : Upto(f, m)}
           k == Min(Missing)
<1>1. SUFFICES ASSUME Missing # {} PROVE FALSE
  OBVIOUS
<1>2. k \in Missing /\ \A j \in Missing : k <= j
  <2>1. Missing \subseteq Nat
    OBVIOUS
  <2> HIDE DEF Missing
  <2> QED
    BY <1>1, <2>1, MinInSet
<1> HIDE DEF k
<1>3. CASE k = 0
  <2>1. Upto([i \in 0..0 |-> first], 0)
    BY DEF EvScan
  <2> QED
    BY <1>2, <1>3, <2>1
<1>4. CASE k # 0
  <2>1. k \in 1..n /\ k - 1 \in 0..n /\ k - 1 \notin Missing
    BY <1>2, <1>4
  <2>2. PICK f : Upto(f, k - 1)
    BY <2>1
  <2> DEFINE g == [i \in 0..k |-> IF i < k THEN f[i] ELSE Deliver(f[k - 1], w[k])]
  <2>3. \A i \in 0..k - 1 : f[i] = IF i = 0 THEN first ELSE Deliver(f[i - 1], w[i])
    BY <2>2 DEF EvScan
  <2>4. \A i \in 0..k - 1 : g[i] = f[i]
    BY <2>1
  <2>5. ASSUME NEW i \in 0..k PROVE g[i] = IF i = 0 THEN first ELSE Deliver(g[i - 1], w[i])
    <3>1. CASE i = k
      <4>1. g[i] = Deliver(f[k - 1], w[k]) /\ g[k - 1] = f[k - 1]
        BY <2>1, <2>4, <3>1
      <4> QED
        BY <1>4, <3>1, <4>1
    <3>2. CASE i # k /\ i # 0
      <4>1. i \in 0..k - 1 /\ i - 1 \in 0..k - 1
        BY <2>1, <3>2
      <4> HIDE DEF g
      <4> QED
        BY <2>3, <2>4, <3>2, <4>1
    <3>3. CASE i # k /\ i = 0
      BY <2>1, <2>3, <2>4, <3>3
    <3> QED
      BY <3>1, <3>2, <3>3
  <2>6. g = [i \in 0..k |-> IF i = 0 THEN first ELSE Deliver(g[i - 1], w[i])]
    BY <2>5, Zenon
  <2>7. Upto(g, k)
    BY <2>6 DEF EvScan
  <2> QED
    BY <1>2, <2>7
<1> QED
  BY <1>3, <1>4

\* When the scan has passed the whole list.
LEMMA EvDelivered ==
    ASSUME EvThreads, NEW present \in SUBSET Events
    PROVE  LET w == queue["event"]
           IN  /\ EvScanLists(Delivered(present), Len(w), w)
               /\ EvScanEvents(Delivered(present), Len(w), w, present)
<1> DEFINE w == queue["event"]
           n == Len(w)
           first == [left |-> present, received |-> eventSet, woken |-> {}, list |-> w]
           scan == CHOOSE f : f = [i \in 0..n |-> IF i = 0 THEN first ELSE Deliver(f[i - 1], w[i])]
           Wrong == {m \in 0..n : ~(EvScanLists(scan[m], m, w) /\ EvScanEvents(scan[m], m, w, present))}
           k == Min(Wrong)
<1>1. w \in Seq(Threads) /\ IsInjective(w) /\ n \in Nat
  BY EvListed, LenProperties
<1>2. Delivered(present) = scan[n]
  BY DEF Delivered
<1>3. scan = [i \in 0..n |-> IF i = 0 THEN first ELSE Deliver(scan[i - 1], w[i])]
  <2> HIDE DEF first, w, n
  <2>1. \E f : f = [i \in 0..n |-> IF i = 0 THEN first ELSE Deliver(f[i - 1], w[i])]
    <3>1. n \in Nat
      BY <1>1
    <3>2. \E f : EvScan(f, first, w, n)
      BY <3>1, EvScanExists
    <3> QED
      BY <3>2 DEF EvScan
  <2> QED
    BY <2>1
<1> HIDE DEF scan
<1>4. scan[0] = first /\ \A i \in 1..n : scan[i] = Deliver(scan[i - 1], w[i])
  <2> HIDE DEF first, w, n
  <2>1. \A i \in 0..n : scan[i] = IF i = 0 THEN first ELSE Deliver(scan[i - 1], w[i])
    BY <1>3
  <2> QED
    BY <1>1, <2>1
<1>5. SUFFICES ASSUME Wrong # {} PROVE FALSE
  BY <1>1, <1>2
<1>6. k \in Wrong /\ \A j \in Wrong : k <= j
  <2>1. Wrong \subseteq Nat
    BY <1>1
  <2> HIDE DEF Wrong
  <2> QED
    BY <1>5, <2>1, MinInSet
<1> HIDE DEF k
<1>7. CASE k = 0
  <2>1. /\ first.left = present /\ first.received = eventSet /\ first.woken = {}
        /\ first.list = w
    OBVIOUS
  <2> HIDE DEF first, w
  <2>2. EvScanLists(first, 0, w)
    BY <1>1, <2>1 DEF EvScanLists
  <2>3. EvScanEvents(first, 0, w, present)
    BY <2>1 DEF EvScanEvents, EvThreads, EventTypeOK
  <2> QED
    BY <1>4, <1>6, <1>7, <2>2, <2>3
<1>8. CASE k # 0
  <2>1. k \in 1..n /\ k - 1 \in 0..n /\ k - 1 \notin Wrong /\ k - 1 \in Nat /\ (k - 1) + 1 = k
    BY <1>1, <1>6, <1>8
  <2>2. EvScanLists(scan[k - 1], k - 1, w) /\ EvScanEvents(scan[k - 1], k - 1, w, present)
    BY <2>1
  <2>3. scan[k] = Deliver(scan[k - 1], w[(k - 1) + 1])
    BY <1>4, <2>1
  <2>4. PICK x : x = scan[k - 1]
    OBVIOUS
  <2>5. PICK m \in Nat : m = k - 1
    BY <2>1
  <2>6. w = queue["event"] /\ m + 1 <= Len(w)
    BY <1>1, <2>1, <2>5
  <2> HIDE DEF w
  <2>7. EvScanLists(Deliver(x, w[m + 1]), m + 1, w) /\ EvScanEvents(Deliver(x, w[m + 1]), m + 1, w, present)
    BY <2>2, <2>4, <2>5, <2>6, EvScanStep
  <2>8. EvScanLists(scan[k], k, w) /\ EvScanEvents(scan[k], k, w, present)
    BY <2>1, <2>3, <2>4, <2>5, <2>7
  <2> QED
    BY <1>6, <2>8
<1> QED
  BY <1>7, <1>8

LEMMA EvInitial == IpcInit /\ EventInit => EvInv
<1> SUFFICES ASSUME IpcInit, EventInit PROVE EvInv
  OBVIOUS
<1>1. IpcTypeOK /\ SuspendedIsLinked
  BY IpcInitLinked
<1>2. EventTypeOK
  BY DEF EventInit, EventTypeOK, EventLabels, Modes
<1>3. EvWaiting
  BY DEF IpcInit, EvWaiting
<1>4. queue["event"] = <<>>
  BY EvLists DEF IpcInit
<1>5. NoWaiterSatisfied
  BY <1>4 DEF NoWaiterSatisfied, ToSet
<1> QED
  BY <1>1, <1>2, <1>3, <1>5 DEF EvInv, EvThreads

\* A step after which the threads that wait waited before, for the same events, of which
\* none has been added.
LEMMA EvStays ==
    ASSUME EvInv, IpcTypeOK', SuspendedIsLinked', EventTypeOK', set' \in SUBSET set,
           \A u \in Threads :
              stat'[u] = "SUSPEND" =>
                 /\ stat[u] = "SUSPEND" /\ evPc'[u] = evPc[u] /\ error'[u] = error[u]
                 /\ eventSet'[u] = eventSet[u] /\ eventInfo'[u] = eventInfo[u],
           ToSet(queue'["event"]) \subseteq ToSet(queue["event"])
    PROVE  EvInv'
<1>1. EvWaiting'
  BY DEF EvInv, EvThreads, EvWaiting
<1>2. EvThreads'
  BY <1>1 DEF EvThreads
<1>3. ASSUME NEW u \in ToSet(queue'["event"])
      PROVE  ~Satisfied(set', eventSet'[u], eventInfo'[u].mode)
  <2>1. u \in Threads /\ stat'[u] = "SUSPEND"
    <3>1. u \in Threads
      BY <1>3, EvListed DEF EvInv
    <3> QED
      BY <3>1, EvLists DEF SuspendedIsLinked
  <2>2. ~Satisfied(set, eventSet[u], eventInfo[u].mode)
    BY DEF EvInv, NoWaiterSatisfied
  <2> QED
    BY <2>1, <2>2 DEF Satisfied
<1>4. NoWaiterSatisfied'
  BY <1>3 DEF NoWaiterSatisfied
<1> QED
  BY <1>2, <1>4 DEF EvInv

\* A step that wakes nobody, or with an error only.
LEMMA EvNobodyServed ==
    ASSUME \A u \in Threads : stat[u] = "SUSPEND" /\ stat'[u] = "RUN" => error'[u] # "EOK"
    PROVE  EventsReceived
<1>1. Served = {}
  BY DEF Served
<1> QED
  BY <1>1 DEF EventsReceived

LEMMA EvNotWaiting ==
    ASSUME EvInv, NEW t \in Threads, evPc[t] # "wait" PROVE stat[t] = "RUN"
  BY DEF EvInv, EvThreads, EvWaiting, IpcTypeOK

LEMMA EvSendKeeps ==
    ASSUME EvInv, NEW t \in Threads, NEW sent \in SUBSET Events, EventSend(t, sent)
    PROVE  EvInv' /\ EventsReceived
<1> DEFINE w == queue["event"]
<1>1. PICK present \in SUBSET Events : present = set \cup sent
  BY DEF EvInv, EvThreads, EventTypeOK
<1>2. PICK scan : scan = Delivered(present)
  OBVIOUS
<1>3. EvScanLists(scan, Len(w), w) /\ EvScanEvents(scan, Len(w), w, present)
  BY <1>2, EvDelivered DEF EvInv
<1>4. /\ set' = scan.left /\ eventSet' = scan.received
      /\ stat' = [u \in Threads |-> IF u \in scan.woken THEN "RUN" ELSE stat[u]]
      /\ timer' = [u \in Threads |-> timer[u] /\ u \notin scan.woken]
      /\ queue' = [queue EXCEPT !["event"] = scan.list]
      /\ UNCHANGED <<error, irqoff, expired, eventInfo, eventAlive, evPc>>
  BY <1>1, <1>2 DEF EventSend
<1>5. /\ w \in Seq(Threads) /\ Len(w) \in Nat /\ DOMAIN w = 1..Len(w)
      /\ \A u \in ToSet(w) : u \in Threads /\ stat[u] = "SUSPEND"
      /\ EvThreads /\ IpcTypeOK /\ SuspendedIsLinked /\ EvWaiting /\ EventTypeOK
  BY EvListed, LenProperties DEF EvInv, EvThreads
<1>6. /\ scan.woken \in SUBSET ToSet(w)
      /\ scan.list \in Seq(Threads) /\ IsInjective(scan.list)
      /\ ToSet(scan.list) = ToSet(w) \ scan.woken
  BY <1>3 DEF EvScanLists
<1>7. /\ scan.left \in SUBSET present
      /\ scan.received \in [Threads -> SUBSET Events]
      /\ \A u \in Threads \ scan.woken : scan.received[u] = eventSet[u]
  BY <1>3 DEF EvScanEvents
<1>8. \A u \in Threads : stat'[u] = IF u \in scan.woken THEN "RUN" ELSE stat[u]
  BY <1>4
<1>9. IpcTypeOK'
  <2>1. stat' \in [Threads -> {"RUN", "SUSPEND"}] /\ timer' \in [Threads -> BOOLEAN]
    BY <1>4, <1>5 DEF IpcTypeOK
  <2>2. queue' \in [Lists -> Seq(Threads)]
    BY <1>4, <1>5, <1>6 DEF IpcTypeOK
  <2> QED
    BY <1>4, <1>5, <2>1, <2>2 DEF IpcTypeOK
<1>10. /\ \A k \in Lists : ToSet(queue'[k]) = ToSet(queue[k]) \ scan.woken
       /\ \A k \in Lists : IsInjective(queue'[k])
  <2>1. queue'["event"] = scan.list /\ \A k \in Lists : k # "event" => queue'[k] = queue[k]
    BY <1>4, <1>5, EvLists DEF IpcTypeOK
  <2>2. \A k \in Lists : k # "event" => ToSet(queue[k]) \cap scan.woken = {}
    BY <1>5, <1>6, EvLists DEF SuspendedIsLinked
  <2>3. ASSUME NEW k \in Lists
        PROVE  ToSet(queue'[k]) = ToSet(queue[k]) \ scan.woken /\ IsInjective(queue'[k])
    <3>1. CASE k = "event"
      BY <1>6, <2>1, <3>1
    <3>2. CASE k # "event"
      <4>1. queue'[k] = queue[k] /\ ToSet(queue[k]) \cap scan.woken = {}
        BY <2>1, <2>2, <3>2
      <4>2. IsInjective(queue[k])
        BY <1>5 DEF SuspendedIsLinked
      <4> QED
        BY <4>1, <4>2
    <3> QED
      BY <3>1, <3>2
  <2> QED
    BY <2>3
<1>11. SuspendedIsLinked'
  <2>1. ASSUME NEW u \in Threads
        PROVE  stat'[u] = "SUSPEND" <=> \E k \in Lists : u \in ToSet(queue'[k])
    <3>1. stat[u] = "SUSPEND" <=> \E k \in Lists : u \in ToSet(queue[k])
      BY <1>5 DEF SuspendedIsLinked
    <3> QED
      BY <1>8, <1>10, <3>1
  <2>2. \A k, l \in Lists : k # l => ToSet(queue'[k]) \cap ToSet(queue'[l]) = {}
    BY <1>5, <1>10 DEF SuspendedIsLinked
  <2> QED
    BY <1>10, <2>1, <2>2 DEF SuspendedIsLinked
<1>12. EventTypeOK'
  BY <1>1, <1>4, <1>5, <1>7 DEF EventTypeOK
<1>13. EvWaiting'
  BY <1>4, <1>5, <1>7, <1>8 DEF EvWaiting
<1>14. ASSUME NEW u \in ToSet(queue'["event"])
       PROVE  ~Satisfied(set', eventSet'[u], eventInfo'[u].mode)
  <2>1. u \in ToSet(w) /\ u \notin scan.woken /\ u \in Threads
    BY <1>5, <1>10, EvLists
  <2>2. PICK i \in 1..Len(w) : u = w[i]
    BY <1>5, <2>1 DEF ToSet
  <2>3. ~Satisfied(scan.left, eventSet[u], eventInfo[u].mode)
    BY <1>3, <2>1, <2>2 DEF EvScanEvents
  <2> QED
    BY <1>4, <1>7, <2>1, <2>3
<1>15. EvInv'
  BY <1>9, <1>11, <1>12, <1>13, <1>14 DEF EvInv, EvThreads, NoWaiterSatisfied
<1>16. Served \subseteq scan.woken
  BY <1>8 DEF Served
<1>17. EventsReceived
  <2>1. ASSUME NEW u \in Served, NEW v \in Served, u # v, eventInfo[u].clear, eventInfo[v].clear
        PROVE  eventSet'[u] \cap eventSet'[v] = {}
    BY <1>3, <1>4, <1>16, <2>1 DEF EvScanEvents
  <2>2. ASSUME NEW u \in Served
        PROVE  /\ eventInfo[u].clear => eventSet'[u] \cap set' = {}
               /\ eventSet'[u] # {} /\ eventSet'[u] \subseteq eventSet[u]
               /\ eventInfo[u].mode = "AND" => eventSet'[u] = eventSet[u]
    BY <1>3, <1>4, <1>16 DEF EvScanEvents
  <2> QED
    BY <2>1, <2>2 DEF EventsReceived
<1> QED
  BY <1>15, <1>17

LEMMA EvRecvKeeps ==
    ASSUME EvInv, NEW t \in Threads, NEW asked \in SUBSET Events, asked # {},
           NEW info \in [mode : Modes, clear : BOOLEAN], NEW time, EventRecv(t, asked, info, time)
    PROVE  EvInv' /\ EventsReceived
<1>1. /\ evPc[t] = "idle" /\ stat[t] = "RUN" /\ eventAlive' = eventAlive
      /\ EvThreads /\ IpcTypeOK /\ SuspendedIsLinked /\ EvWaiting /\ EventTypeOK
      /\ stat \in [Threads -> {"RUN", "SUSPEND"}] /\ error \in [Threads -> Errors]
  BY EvNotWaiting DEF EventRecv, EventStarts, EvInv, EvThreads, IpcTypeOK
<1>2. /\ eventSet \in [Threads -> SUBSET Events] /\ set \in SUBSET Events
      /\ eventInfo \in [Threads -> [mode : Modes, clear : BOOLEAN]]
      /\ evPc \in [Threads -> EventLabels]
  BY <1>1 DEF EventTypeOK
<1>3. CASE /\ Satisfied(set, asked, info.mode)
           /\ eventSet' = [eventSet EXCEPT ![t] = set \cap asked]
           /\ eventInfo' = [eventInfo EXCEPT ![t] = info]
           /\ set' = IF info.clear THEN set \ asked ELSE set
           /\ error' = [error EXCEPT ![t] = "EOK"]
           /\ UNCHANGED <<stat, timer, queue, irqoff, expired, evPc>>
  <2>1. IpcTypeOK' /\ SuspendedIsLinked'
    BY <1>1, <1>3 DEF IpcTypeOK, Errors, SuspendedIsLinked
  <2>2. EventTypeOK'
    BY <1>1, <1>2, <1>3 DEF EventTypeOK
  <2>3. set' \in SUBSET set
    BY <1>3
  <2>4. \A u \in Threads :
           stat'[u] = "SUSPEND" =>
              /\ stat[u] = "SUSPEND" /\ evPc'[u] = evPc[u] /\ error'[u] = error[u]
              /\ eventSet'[u] = eventSet[u] /\ eventInfo'[u] = eventInfo[u]
    BY <1>1, <1>2, <1>3
  <2>5. ToSet(queue'["event"]) \subseteq ToSet(queue["event"])
    BY <1>3
  <2>6. EvInv'
    BY <2>1, <2>2, <2>3, <2>4, <2>5, EvStays
  <2>7. EventsReceived
    BY <1>3, EvNobodyServed
  <2> QED
    BY <2>6, <2>7
<1>4. CASE /\ error' = [error EXCEPT ![t] = "ETIMEOUT"]
           /\ UNCHANGED <<stat, timer, queue, irqoff, expired, set, eventSet, eventInfo, evPc>>
  <2>1. IpcTypeOK' /\ SuspendedIsLinked'
    BY <1>1, <1>4 DEF IpcTypeOK, Errors, SuspendedIsLinked
  <2>2. EventTypeOK'
    BY <1>1, <1>4 DEF EventTypeOK
  <2>3. \A u \in Threads :
           stat'[u] = "SUSPEND" =>
              /\ stat[u] = "SUSPEND" /\ evPc'[u] = evPc[u] /\ error'[u] = error[u]
              /\ eventSet'[u] = eventSet[u] /\ eventInfo'[u] = eventInfo[u]
    BY <1>1, <1>4
  <2>4. ToSet(queue'["event"]) \subseteq ToSet(queue["event"]) /\ set' \in SUBSET set
    BY <1>4
  <2>5. EvInv'
    BY <2>1, <2>2, <2>3, <2>4, EvStays
  <2>6. EventsReceived
    BY <1>4, EvNobodyServed
  <2> QED
    BY <2>5, <2>6
<1>5. CASE /\ ~Satisfied(set, asked, info.mode)
           /\ eventSet' = [eventSet EXCEPT ![t] = asked]
           /\ eventInfo' = [eventInfo EXCEPT ![t] = info]
           /\ Suspend(t, "event", time)
           /\ evPc' = [evPc EXCEPT ![t] = "wait"]
           /\ UNCHANGED set
  <2>1. /\ IpcTypeOK' /\ SuspendedIsLinked'
        /\ ToSet(queue'["event"]) = ToSet(queue["event"]) \cup {t}
    BY <1>1, <1>5, EvLists, SuspendLinks
  <2>2. EventTypeOK'
    BY <1>1, <1>2, <1>5 DEF EventTypeOK, EventLabels
  <2>3. stat' = [stat EXCEPT ![t] = "SUSPEND"] /\ error' = [error EXCEPT ![t] = "EOK"]
    BY <1>5 DEF Suspend, ListSuspend
  <2>4. EvWaiting'
    BY <1>1, <1>2, <1>5, <2>3 DEF EvWaiting
  <2>5. ASSUME NEW u \in ToSet(queue'["event"])
        PROVE  ~Satisfied(set', eventSet'[u], eventInfo'[u].mode)
    <3>1. CASE u = t
      <4>1. eventSet'[t] = asked /\ eventInfo'[t] = info
        BY <1>2, <1>5
      <4> QED
        BY <1>5, <3>1, <4>1
    <3>2. CASE u # t
      <4>1. u \in ToSet(queue["event"]) /\ u \in Threads
        BY <1>1, <2>1, <3>2, EvListed
      <4>2. ~Satisfied(set, eventSet[u], eventInfo[u].mode)
        BY <4>1 DEF EvInv, NoWaiterSatisfied
      <4> QED
        BY <1>2, <1>5, <3>2, <4>1, <4>2
    <3> QED
      BY <3>1, <3>2
  <2>6. EvInv'
    BY <2>1, <2>2, <2>4, <2>5 DEF EvInv, EvThreads, NoWaiterSatisfied
  <2>7. EventsReceived
    BY <1>1, <2>3, EvNobodyServed
  <2> QED
    BY <2>6, <2>7
<1> QED
  BY <1>3, <1>4, <1>5 DEF EventRecv

\* The other steps change no events, but for the reset, and wake with an error.
LEMMA EvMovesKeep ==
    ASSUME EvInv, NEW t \in Threads,
           EventReturn(t) \/ EventDetach(t) \/ EventDetachTest(t) \/ EventDetachObject(t)
    PROVE  EvInv' /\ EventsReceived
<1>1. UNCHANGED <<stat, error, timer, queue, irqoff, expired, set, eventSet, eventInfo>>
  BY DEF EventReturn, EventDetach, EventDetachTest, EventDetachObject, ipcVars
<1>2. IpcTypeOK' /\ SuspendedIsLinked'
  BY <1>1 DEF EvInv, EvThreads, IpcTypeOK, SuspendedIsLinked
<1>3. /\ stat[t] = "RUN" /\ evPc \in [Threads -> EventLabels]
  BY EvNotWaiting DEF EventReturn, EventDetach, EventDetachTest, EventDetachObject, EventStarts,
                      EvInv, EvThreads, EventTypeOK
<1>4. \E p \in {"idle", "detach", "pop"} : evPc' = [evPc EXCEPT ![t] = p]
  BY DEF EventReturn, EventDetach, EventDetachTest, EventDetachObject
<1>5. EventTypeOK'
  <2>1. eventAlive' \in BOOLEAN
    BY DEF EventReturn, EventDetach, EventDetachTest, EventDetachObject, EvInv, EvThreads, EventTypeOK
  <2>2. evPc' \in [Threads -> EventLabels]
    BY <1>3, <1>4 DEF EventLabels
  <2> QED
    BY <1>1, <2>1, <2>2 DEF EvInv, EvThreads, EventTypeOK
<1>6. \A u \in Threads : u # t => evPc'[u] = evPc[u]
  BY <1>3, <1>4
<1>7. \A u \in Threads :
         stat'[u] = "SUSPEND" =>
            /\ stat[u] = "SUSPEND" /\ evPc'[u] = evPc[u] /\ error'[u] = error[u]
            /\ eventSet'[u] = eventSet[u] /\ eventInfo'[u] = eventInfo[u]
  BY <1>1, <1>3, <1>6
<1>8. ToSet(queue'["event"]) \subseteq ToSet(queue["event"]) /\ set' \in SUBSET set
  BY <1>1
<1>9. EvInv'
  BY <1>2, <1>5, <1>7, <1>8, EvStays
<1>10. EventsReceived
  BY <1>1, EvNobodyServed
<1> QED
  BY <1>9, <1>10

\* Threads leave the list with an error; the one that detaches the object may move.
LEMMA EvSomeLeave ==
    ASSUME EvInv, IpcTypeOK', SuspendedIsLinked', UNCHANGED <<eventSet, eventInfo, eventAlive>>,
           evPc' \in [Threads -> EventLabels],
           \A u \in Threads : stat[u] = "SUSPEND" => evPc'[u] = evPc[u],
           set' \in SUBSET set, ToSet(queue'["event"]) \subseteq ToSet(queue["event"]),
           \A u \in Threads :
              \/ stat'[u] = stat[u] /\ error'[u] = error[u]
              \/ stat'[u] = "RUN" /\ error'[u] # "EOK"
    PROVE  EvInv' /\ EventsReceived
<1>1. EventTypeOK'
  BY DEF EvInv, EvThreads, EventTypeOK
<1>2. \A u \in Threads :
         stat'[u] = "SUSPEND" =>
            /\ stat[u] = "SUSPEND" /\ evPc'[u] = evPc[u] /\ error'[u] = error[u]
            /\ eventSet'[u] = eventSet[u] /\ eventInfo'[u] = eventInfo[u]
  OBVIOUS
<1>3. EvInv'
  BY <1>1, <1>2, EvStays
<1>4. EventsReceived
  BY EvNobodyServed
<1> QED
  BY <1>3, <1>4

LEMMA EvLeavesKeep ==
    ASSUME EvInv, NEW t \in Threads,
           EventReset(t) \/ EventDetachRound(t) \/ EventTimeout(t)
    PROVE  EvInv' /\ EventsReceived
<1>1. IpcTypeOK /\ SuspendedIsLinked /\ error \in [Threads -> Errors]
      /\ stat \in [Threads -> {"RUN", "SUSPEND"}] /\ evPc \in [Threads -> EventLabels]
  BY DEF EvInv, EvThreads, EventTypeOK, IpcTypeOK
<1>2. CASE EventReset(t)
  <2>1. ResumeAll({"event"}) /\ set' = {} /\ UNCHANGED <<eventSet, eventInfo, eventAlive, evPc>>
    BY <1>2 DEF EventReset
  <2>2. /\ IpcTypeOK' /\ SuspendedIsLinked' /\ queue'["event"] = <<>>
        /\ \A u \in Threads : \/ stat'[u] = stat[u] /\ error'[u] = error[u]
                              \/ stat'[u] = "RUN" /\ error'[u] = "ERROR"
    <3>1. {"event"} \in SUBSET Lists
      BY EvLists
    <3>2. /\ IpcTypeOK' /\ SuspendedIsLinked'
          /\ \A l \in {"event"} : queue'[l] = <<>>
          /\ \A u \in Threads :
                IF u \in UNION {ToSet(queue[l]) : l \in {"event"}}
                THEN stat'[u] = "RUN" /\ error'[u] = "ERROR"
                ELSE stat'[u] = stat[u] /\ error'[u] = error[u]
      BY <1>1, <2>1, <3>1, ResumeAllUnlinks
    <3> QED
      BY <3>2
  <2>3. ToSet(queue'["event"]) \subseteq ToSet(queue["event"])
    BY <2>2 DEF ToSet
  <2> QED
    BY <1>1, <2>1, <2>2, <2>3, EvSomeLeave
<1>3. CASE EventDetachRound(t)
  <2>1. /\ ResumeNext("event") /\ UNCHANGED <<set, eventSet, eventInfo, eventAlive>>
        /\ evPc[t] = "pop" /\ evPc' = [evPc EXCEPT ![t] = AfterRound("event", "detach")]
    BY <1>3 DEF EventDetachRound
  <2>2. /\ evPc' \in [Threads -> EventLabels]
        /\ \A u \in Threads : stat[u] = "SUSPEND" => evPc'[u] = evPc[u]
    BY <2>1 DEF EvInv, EvThreads, EventTypeOK, EvWaiting, EventLabels, AfterRound
  <2>3. /\ IpcTypeOK' /\ SuspendedIsLinked'
        /\ queue["event"] = <<>> => UNCHANGED ipcVars
        /\ queue["event"] # <<>> =>
              /\ Head(queue["event"]) \in Threads
              /\ error' = [error EXCEPT ![Head(queue["event"])] = "ERROR"]
              /\ stat' = [stat EXCEPT ![Head(queue["event"])] = "RUN"]
        /\ ToSet(queue'["event"]) \subseteq ToSet(queue["event"])
    BY <1>1, <2>1, EvLists, ResumeNextUnlinks
  <2>4. \A u \in Threads : \/ stat'[u] = stat[u] /\ error'[u] = error[u]
                           \/ stat'[u] = "RUN" /\ error'[u] # "EOK"
    BY <1>1, <2>3 DEF ipcVars
  <2> QED
    BY <2>1, <2>2, <2>3, <2>4, EvSomeLeave
<1>4. CASE EventTimeout(t)
  <2>1. PICK c \in Cpus : TimerExpires(c, t) \/ ThreadTimeout(c, t)
    BY <1>4 DEF EventTimeout
  <2>2. UNCHANGED <<set, eventSet, eventInfo, eventAlive, evPc>>
    BY <1>4 DEF EventTimeout, eventVars
  <2>3. /\ IpcTypeOK' /\ SuspendedIsLinked'
        /\ \/ UNCHANGED <<stat, error, queue>>
           \/ /\ stat' = [stat EXCEPT ![t] = "RUN"]
              /\ error' = [error EXCEPT ![t] = "ETIMEOUT"]
              /\ \A k \in Lists : ToSet(queue'[k]) = ToSet(queue[k]) \ {t}
    BY <1>1, <2>1, TimeoutUnlinks
  <2>4. ToSet(queue'["event"]) \subseteq ToSet(queue["event"])
    BY <2>3, EvLists
  <2>5. \A u \in Threads : \/ stat'[u] = stat[u] /\ error'[u] = error[u]
                           \/ stat'[u] = "RUN" /\ error'[u] # "EOK"
    BY <1>1, <2>3
  <2> QED
    BY <1>1, <2>2, <2>3, <2>4, <2>5, EvSomeLeave
<1> QED
  BY <1>2, <1>3, <1>4

LEMMA EvNextKeeps ==
    EvInv /\ [EventNext]_<<ipcVars, eventVars>>
        => EvInv' /\ [EventsReceived]_<<ipcVars, eventVars>>
<1> SUFFICES ASSUME EvInv, [EventNext]_<<ipcVars, eventVars>>
             PROVE  EvInv' /\ [EventsReceived]_<<ipcVars, eventVars>>
  OBVIOUS
<1>1. CASE UNCHANGED <<ipcVars, eventVars>>
  BY <1>1 DEF EvInv, EvThreads, EventTypeOK, IpcTypeOK, SuspendedIsLinked, EvWaiting,
              NoWaiterSatisfied, ipcVars, eventVars
<1>2. ASSUME NEW t \in Threads, EventStep(t) \/ EventTimeout(t)
      PROVE  EvInv' /\ EventsReceived
  <2>1. CASE \E sent \in (SUBSET Events) \ {{}} : EventSend(t, sent)
    BY <2>1, EvSendKeeps
  <2>2. CASE \E asked \in (SUBSET Events) \ {{}}, mode \in Modes, clear \in BOOLEAN, time \in Waits :
                EventRecv(t, asked, [mode |-> mode, clear |-> clear], time)
    <3>1. PICK asked \in (SUBSET Events) \ {{}}, mode \in Modes, clear \in BOOLEAN, time \in Waits :
                  EventRecv(t, asked, [mode |-> mode, clear |-> clear], time)
      BY <2>2
    <3>2. PICK info \in [mode : Modes, clear : BOOLEAN] : info = [mode |-> mode, clear |-> clear]
      OBVIOUS
    <3> QED
      BY <3>1, <3>2, EvRecvKeeps
  <2>3. CASE EventReturn(t) \/ EventDetach(t) \/ EventDetachTest(t) \/ EventDetachObject(t)
    BY <2>3, EvMovesKeep
  <2>4. CASE EventReset(t) \/ EventDetachRound(t) \/ EventTimeout(t)
    BY <2>4, EvLeavesKeep
  <2> QED
    BY <1>2, <2>1, <2>2, <2>3, <2>4 DEF EventStep
<1> QED
  BY <1>1, <1>2 DEF EventNext

LEMMA EvInvariant == EventSpec => []EvInv
<1>1. IpcInit /\ EventInit => EvInv
  BY EvInitial
<1>2. EvInv /\ [EventNext]_<<ipcVars, eventVars>> => EvInv'
  BY EvNextKeeps
<1> QED
  BY <1>1, <1>2, PTL DEF EventSpec

\* Every flag, waiter and list of an event stays within its type, and every thread
\* suspended on it is in its list, once.
THEOREM EvTypes == EventSpec => [](EventTypeOK /\ SuspendedIsLinked)
<1>1. EvInv => EventTypeOK /\ SuspendedIsLinked
  BY DEF EvInv, EvThreads
<1> QED
  BY <1>1, EvInvariant, PTL

\* Whatever the receivers before it in the list took and cleared, nobody sleeps in
\* rt_event_recv while the events it asked for are set: for any events, any threads of
\* a core, priorities and options.
THEOREM EvNoWaiterSatisfied == EventSpec => []NoWaiterSatisfied
<1>1. EvInv => NoWaiterSatisfied
  BY DEF EvInv
<1> QED
  BY <1>1, EvInvariant, PTL

\* The scan of rt_event_send hands an event that is cleared to one thread that clears it
\* and leaves it in the set no longer, and a thread it wakes has received all (AND) or
\* some (OR) of the events it asked for and no other.
THEOREM EvEventsClearedOnce == EventSpec => EventsClearedOnce
<1>1. EvInv /\ [EventNext]_<<ipcVars, eventVars>> => [EventsReceived]_<<ipcVars, eventVars>>
  BY EvNextKeeps
<1> QED
  BY <1>1, EvInvariant, PTL DEF EventSpec, EventsClearedOnce

-----------------------------------------------------------------------------
(* On one core, whoever times out is still suspended: for each object, every step of   *)
(* a thread runs on a core that handles no timeout and wakes or suspends as it should. *)

\* The steps of IpcWait.
LEMMA SuspendMoves ==
    ASSUME NEW t, NEW l, NEW time, Suspend(t, l, time) PROVE ThreadsMove
<1>1. (time = "timed") \in BOOLEAN
  OBVIOUS
<1> QED
  BY <1>1, SleepMoves DEF Suspend

LEMMA QuietMoves == ASSUME UNCHANGED ipcVars PROVE ThreadsMove
  BY DEF ipcVars, ThreadsMove

LEMMA ResumeFirstMoves == ASSUME NEW l, ResumeFirst(l) PROVE ThreadsMove
<1>1. CASE UNCHANGED <<stat, queue, timer>>
  BY <1>1 DEF ResumeFirst, ThreadsMove
<1>2. CASE ThreadResume(Head(queue[l]))
  BY <1>2, ResumeMoves DEF ResumeFirst
<1> QED
  BY <1>1, <1>2 DEF ResumeFirst

LEMMA ResumeNextMoves == ASSUME NEW l, ResumeNext(l) PROVE ThreadsMove
  BY ResumeMoves, QuietMoves DEF ResumeNext

LEMMA ResumeAllMoves == ASSUME NEW ls, ResumeAll(ls) PROVE ThreadsMove
  BY DEF ResumeAll, ThreadsMove, WakesAll

LEMMA MqTimeouts == ASSUME OneCpu, Timeouts, [Next]_vars PROVE Timeouts'
<1>1. ASSUME NEW t \in Threads, Calls(t) \/ ThreadStep(t) PROVE OnCpu(t) /\ ThreadsMove
  <2>1. CASE Reset(t)
    BY <2>1, ResumeAllMoves DEF Reset
  <2>2. CASE GetNode(t) \/ TakeNode(t)
    BY <2>2, QuietMoves, SuspendMoves DEF GetNode, TakeNode
  <2>3. CASE Link(t) \/ FreeNode(t)
    BY <2>3, ResumeFirstMoves DEF Link, FreeNode
  <2>4. ASSUME NEW l, NEW r, DetachTest(t, l, r) \/ DetachRound(t, l, r)
        PROVE  OnCpu(t) /\ ThreadsMove
    BY <2>4, QuietMoves, ResumeNextMoves DEF DetachTest, DetachRound
  <2>5. CASE \/ CopyIn(t) \/ CopyOut(t) \/ WaitFails(t) \/ LookAgain(t) \/ DetachObject(t)
             \/ DetachCall(t)
             \/ \E o, m, time : Call(t, o, m, time)
    BY <2>5, QuietMoves DEF CopyIn, CopyOut, WaitFails, LookAgain, DetachObject, DetachCall, Call
  <2> QED
    BY <1>1, <2>1, <2>2, <2>3, <2>4, <2>5 DEF Calls, ThreadStep
<1>2. ASSUME NEW t \in Threads, Calls(t) \/ ThreadStep(t) PROVE Timeouts'
  BY <1>1, <1>2, MoveKeepsTimeouts
<1>3. ASSUME NEW t \in Threads, Timeout(t) PROVE Timeouts'
  BY <1>3, TimeoutKeepsTimeouts DEF Timeout
<1>4. CASE UNCHANGED vars
  BY <1>4, StutterKeepsTimeouts DEF vars
<1> QED
  BY <1>2, <1>3, <1>4 DEF Next, Finished

\* RT_ASSERT in rt_thread_timeout, on one core, for rt_mq_recv and rt_mq_send_wait.
THEOREM MqTimeoutFindsSuspended == ASSUME OneCpu PROVE Spec => []TimeoutFindsSuspended
<1>1. Init => Timeouts
  BY InitTimeouts DEF Init
<1>2. Timeouts /\ [Next]_vars => Timeouts'
  BY MqTimeouts
<1> QED
  BY <1>1, <1>2, TimeoutsSound, PTL DEF Spec

LEMMA MpTimeouts == ASSUME OneCpu, Timeouts, [MpNext]_mpVars PROVE Timeouts'
<1>1. ASSUME NEW t \in Threads,
             \/ \E time \in WaitsOf(t) : AllocCall(t, time)
             \/ \E b \in Blocks : MpFree(t, b)
             \/ Alloc(t) \/ AllocWoken(t) \/ MpDetachCall(t)
             \/ MpDetachTest(t) \/ MpDetachRound(t) \/ MpDetachObject(t)
      PROVE  Timeouts'
  <2>1. CASE \E b \in Blocks : MpFree(t, b)
    <3>1. /\ OnCpu(t)
          /\ \/ UNCHANGED ipcVars
             \/ ThreadResume(Head(queue["pool"])) /\ UNCHANGED <<irqoff, expired>>
      BY <2>1 DEF MpFree
    <3>2. ThreadsMove
      BY <3>1, QuietMoves, ResumeMoves
    <3> QED
      BY <3>1, <3>2, MoveKeepsTimeouts
  <2>2. CASE Alloc(t)
    <3>1. OnCpu(t) /\ (UNCHANGED ipcVars \/ SuspendFirst(t, mpTime[t] = "timed"))
      BY <2>2 DEF Alloc
    <3>2. (mpTime[t] = "timed") \in BOOLEAN
      OBVIOUS
    <3>3. ThreadsMove
      BY <3>1, <3>2, QuietMoves DEF SuspendFirst, Suspends, ThreadsMove
    <3> QED
      BY <3>1, <3>3, MoveKeepsTimeouts
  <2>3. CASE MpDetachRound(t)
    BY <2>3, ResumeNextMoves, MoveKeepsTimeouts DEF MpDetachRound
  <2>4. CASE \/ \E time \in WaitsOf(t) : AllocCall(t, time)
             \/ AllocWoken(t) \/ MpDetachCall(t) \/ MpDetachTest(t) \/ MpDetachObject(t)
    BY <2>4, QuietMoves, MoveKeepsTimeouts
    DEF AllocCall, AllocWoken, MpDetachCall, MpDetachTest, MpDetachObject
  <2> QED
    BY <1>1, <2>1, <2>2, <2>3, <2>4
<1>2. ASSUME NEW t \in Threads, NEW c \in Cpus, TimerExpires(c, t) \/ ThreadTimeout(c, t)
      PROVE  Timeouts'
  BY <1>2, TimeoutKeepsTimeouts
<1>3. CASE UNCHANGED mpVars
  BY <1>3, StutterKeepsTimeouts DEF mpVars
<1> QED
  BY <1>1, <1>2, <1>3 DEF MpNext

\* RT_ASSERT in rt_thread_timeout, on one core, for rt_mp_alloc.
THEOREM MpTimeoutFindsSuspended == ASSUME OneCpu PROVE MpSpec => []TimeoutFindsSuspended
<1>1. IpcInit => Timeouts
  BY InitTimeouts
<1>2. Timeouts /\ [MpNext]_mpVars => Timeouts'
  BY MpTimeouts
<1> QED
  BY <1>1, <1>2, TimeoutsSound, PTL DEF MpSpec

LEMMA DqTimeouts == ASSUME OneCpu, Timeouts, [DqNext]_<<ipcVars, dqVars>> PROVE Timeouts'
<1>1. ASSUME NEW t, NEW l, NEW time, SuspendLast(t, l, time) PROVE ThreadsMove
  <2>1. (time = "timed") \in BOOLEAN
    OBVIOUS
  <2> QED
    BY <1>1, <2>1, SleepMoves DEF SuspendLast
<1>2. ASSUME NEW t, NEW item, NEW time, PushSection(t, item, time) PROVE ThreadsMove
  BY <1>1, <1>2, QuietMoves, ResumeFirstMoves DEF PushSection
<1>3. ASSUME NEW t, NEW time, PopSection(t, time) PROVE ThreadsMove
  BY <1>1, <1>3, QuietMoves, ResumeFirstMoves DEF PopSection, ResumePush
<1>4. ASSUME NEW t \in Threads, DqStep(t) PROVE OnCpu(t) /\ ThreadsMove
  <2>1. CASE \E time : Pop(t, time)
    BY <1>3, <2>1 DEF Pop, MayCall, MayRun
  <2>2. CASE \E time, item : Push(t, item, time)
    BY <1>2, <2>2 DEF Push, MayCall, MayRun
  <2>3. CASE Woken(t)
    BY <1>2, <1>3, <2>3, QuietMoves DEF Woken, MayRun
  <2>4. ASSUME NEW l, NEW where, NEW round,
               ResetTest(t, l, where, round) \/ ResetResume(t, l, where, round)
        PROVE  OnCpu(t) /\ ThreadsMove
    BY <2>4, QuietMoves, ResumeNextMoves DEF ResetTest, ResetResume, MayRun
  <2>5. CASE ResetEnter(t) \/ ResetNext(t) \/ \E why : ResetSection(t, why)
    BY <2>5, QuietMoves DEF ResetEnter, ResetNext, ResetSection, MayCall, MayRun
  <2> QED
    BY <1>4, <2>1, <2>2, <2>3, <2>4, <2>5 DEF DqStep, ResetStep
<1>5. ASSUME NEW t \in Threads, DqStep(t) PROVE Timeouts'
  BY <1>4, <1>5, MoveKeepsTimeouts
<1>6. ASSUME NEW t \in Threads, DqTimeout(t) PROVE Timeouts'
  BY <1>6, TimeoutKeepsTimeouts DEF DqTimeout
<1>7. CASE UNCHANGED <<ipcVars, dqVars>>
  BY <1>7, StutterKeepsTimeouts
<1> QED
  BY <1>5, <1>6, <1>7 DEF DqNext

\* RT_ASSERT in rt_thread_timeout, on one core, for rt_data_queue_push and
\* rt_data_queue_pop.
THEOREM DqTimeoutFindsSuspended == ASSUME OneCpu PROVE DqSpec => []TimeoutFindsSuspended
<1>1. IpcInit => Timeouts
  BY InitTimeouts
<1>2. Timeouts /\ [DqNext]_<<ipcVars, dqVars>> => Timeouts'
  BY DqTimeouts
<1> QED
  BY <1>1, <1>2, TimeoutsSound, PTL DEF DqSpec

LEMMA CmTimeouts == ASSUME OneCpu, Timeouts, [CmNext]_<<ipcVars, cmVars>> PROVE Timeouts'
<1>1. ASSUME NEW t \in Threads,
             (\E time : CmWait(t, time)) \/ CmWoken(t) \/ CmDoneTest(t) \/ CmDone(t)
      PROVE  OnCpu(t) /\ ThreadsMove
  <2>1. CASE \E time : CmWait(t, time)
    <3>1. PICK time : CmWait(t, time)
      BY <2>1
    <3>2. /\ OnCpu(t)
          /\ \/ UNCHANGED ipcVars
             \/ ListSuspend(t, "completion", "FIFO", Prio, time = "timed") /\ expired' = expired
      BY <3>1 DEF CmWait
    <3>3. (time = "timed") \in BOOLEAN
      OBVIOUS
    <3> QED
      BY <3>2, <3>3, QuietMoves, SleepMoves
  <2>2. CASE CmWoken(t) \/ CmDoneTest(t) \/ CmDone(t)
    BY <2>2, QuietMoves, ResumeFirstMoves DEF CmWoken, CmDoneTest, CmDone
  <2> QED
    BY <1>1, <2>1, <2>2
<1>2. ASSUME NEW t \in Threads,
             (\E time : CmWait(t, time)) \/ CmWoken(t) \/ CmDoneTest(t) \/ CmDone(t)
      PROVE  Timeouts'
  BY <1>1, <1>2, MoveKeepsTimeouts
<1>3. ASSUME NEW t \in Threads, NEW c \in Cpus, TimerExpires(c, t) \/ ThreadTimeout(c, t)
      PROVE  Timeouts'
  BY <1>3, TimeoutKeepsTimeouts
<1>4. CASE UNCHANGED <<ipcVars, cmVars>>
  BY <1>4, StutterKeepsTimeouts
<1> QED
  BY <1>2, <1>3, <1>4 DEF CmNext

\* RT_ASSERT in rt_thread_timeout, on one core, for rt_completion_wait.
THEOREM CmTimeoutFindsSuspended == ASSUME OneCpu PROVE CmSpec => []TimeoutFindsSuspended
<1>1. IpcInit => Timeouts
  BY InitTimeouts
<1>2. Timeouts /\ [CmNext]_<<ipcVars, cmVars>> => Timeouts'
  BY CmTimeouts
<1> QED
  BY <1>1, <1>2, TimeoutsSound, PTL DEF CmSpec

LEMMA EvTimeouts == ASSUME OneCpu, Timeouts, [EventNext]_<<ipcVars, eventVars>> PROVE Timeouts'
<1>1. ASSUME NEW t \in Threads, EventStep(t) PROVE OnCpu(t) /\ ThreadsMove
  <2>1. ASSUME NEW sent, EventSend(t, sent) PROVE OnCpu(t) /\ ThreadsMove
    BY <2>1 DEF EventSend, EventStarts, ThreadsMove, WakesAll
  <2>2. ASSUME NEW asked, NEW info, NEW time, EventRecv(t, asked, info, time)
        PROVE  OnCpu(t) /\ ThreadsMove
    <3>1. /\ OnCpu(t)
          /\ UNCHANGED <<stat, timer, expired>> \/ Suspend(t, "event", time)
      BY <2>2 DEF EventRecv, EventStarts
    <3> QED
      BY <3>1, SuspendMoves DEF ThreadsMove
  <2>3. CASE EventReset(t)
    BY <2>3, ResumeAllMoves DEF EventReset, EventStarts
  <2>4. CASE EventDetachRound(t)
    BY <2>4, ResumeNextMoves DEF EventDetachRound
  <2>5. CASE EventReturn(t) \/ EventDetach(t) \/ EventDetachTest(t) \/ EventDetachObject(t)
    BY <2>5, QuietMoves
       DEF EventReturn, EventDetach, EventDetachTest, EventDetachObject, EventStarts
  <2> QED
    BY <1>1, <2>1, <2>2, <2>3, <2>4, <2>5 DEF EventStep
<1>2. ASSUME NEW t \in Threads, EventStep(t) PROVE Timeouts'
  BY <1>1, <1>2, MoveKeepsTimeouts
<1>3. ASSUME NEW t \in Threads, EventTimeout(t) PROVE Timeouts'
  BY <1>3, TimeoutKeepsTimeouts DEF EventTimeout
<1>4. CASE UNCHANGED <<ipcVars, eventVars>>
  BY <1>4, StutterKeepsTimeouts
<1> QED
  BY <1>2, <1>3, <1>4 DEF EventNext

\* RT_ASSERT in rt_thread_timeout, on one core, for rt_event_recv.
THEOREM EvTimeoutFindsSuspended == ASSUME OneCpu PROVE EventSpec => []TimeoutFindsSuspended
<1>1. IpcInit => Timeouts
  BY InitTimeouts
<1>2. Timeouts /\ [EventNext]_<<ipcVars, eventVars>> => Timeouts'
  BY EvTimeouts
<1> QED
  BY <1>1, <1>2, TimeoutsSound, PTL DEF EventSpec
=============================================================================
