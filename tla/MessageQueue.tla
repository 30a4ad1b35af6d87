------------------------------ MODULE MessageQueue ------------------------------
(***************************************************************************)
(* The message queue of rt-thread/src/ipc.c: rt_mq_send, rt_mq_send_wait,   *)
(* rt_mq_urgent, rt_mq_recv, rt_mq_control(RT_IPC_CMD_RESET), rt_mq_detach  *)
(* and rt_mq_delete.                                                        *)
(*                                                                         *)
(* A sender takes a node from the free list in one locked section, copies   *)
(* its message into the node with nothing locked, and links the node in a   *)
(* second section; a receiver does the same the other way round.  A thread  *)
(* that is woken locks again and looks again: it may find that another one  *)
(* was faster.  Each locked section is one step; thread->error is not       *)
(* followed beyond the return of an operation.                              *)
(***************************************************************************)
EXTENDS IpcWait

CONSTANTS Nodes,       \* the nodes of mq->msg_pool
          NoNode,      \* RT_NULL
          Msgs,        \* the contents of messages
          NoMsg,       \* no message
          Payload,     \* Payload[t]: the messages t sends
          EntryMax     \* RT_MQ_ENTRY_MAX

ASSUME MqAssumption ==
    /\ {"recv", "send"} \subseteq Lists
    /\ IsFiniteSet(Nodes) /\ NoNode \notin Nodes
    /\ NoMsg \notin Msgs /\ Payload \in [Threads -> SUBSET Msgs]
    /\ EntryMax \in Nat /\ Cardinality(Nodes) <= EntryMax

VARIABLES entry,     \* mq->entry
          linked,    \* the nodes from msg_queue_head to msg_queue_tail
          free,      \* the nodes from msg_queue_free on
          buf,       \* the content of each node
          alive,     \* the object has not been detached or deleted
          op,        \* the operation of each thread
          pc,        \* where it is in the operation
          wait,      \* the timeout it has left
          hold,      \* its node
          data       \* the message it sends, or has received

mqVars == <<entry, linked, free, buf, alive, op, pc, wait, hold, data>>
vars == <<ipcVars, mqVars>>

Init ==
    /\ IpcInit
    /\ entry = 0
    /\ linked = <<>>
    /\ free = SetToSeq(Nodes)
    /\ buf = [n \in Nodes |-> NoMsg]
    /\ alive = TRUE
    /\ op = [t \in Threads |-> "recv"]
    /\ pc = [t \in Threads |-> "idle"]
    /\ wait = [t \in Threads |-> "no"]
    /\ hold = [t \in Threads |-> NoNode]
    /\ data = [t \in Threads |-> NoMsg]

\* rt_mq_detach and rt_mq_delete are under way, or lost behind a list head.
Detaching == \E t \in Threads : pc[t] \in {"detach", "poprecv", "popsend", "wild"}

\* A thread calls an operation.  Nobody starts one on a queue that is being
\* detached.
Call(t, o, m, time) ==
    /\ OnCpu(t) /\ pc[t] = "idle" /\ alive
    /\ ~Detaching
    /\ op' = [op EXCEPT ![t] = o]
    /\ data' = [data EXCEPT ![t] = m]
    /\ wait' = [wait EXCEPT ![t] = time]
    /\ pc' = [pc EXCEPT ![t] = "enter"]
    /\ UNCHANGED <<ipcVars, entry, linked, free, buf, alive, hold>>

Return(t) ==
    /\ pc' = [pc EXCEPT ![t] = "idle"]
    /\ wait' = [wait EXCEPT ![t] = "no"]
    /\ hold' = [hold EXCEPT ![t] = NoNode]
    /\ data' = [data EXCEPT ![t] = NoMsg]

-----------------------------------------------------------------------------
(* Waiting *)

\* if (thread->error != RT_EOK) return thread->error;
WaitFails(t) ==
    /\ OnCpu(t) /\ pc[t] = "wait" /\ stat[t] = "RUN" /\ error[t] # "EOK"
    /\ Return(t)
    /\ UNCHANGED <<ipcVars, entry, linked, free, buf, alive, op>>

\* The loop looks again with the timeout that is left.
LookAgain(t) ==
    /\ OnCpu(t) /\ pc[t] = "wait" /\ stat[t] = "RUN" /\ error[t] = "EOK"
    /\ \E time \in Remaining(wait[t]) : wait' = [wait EXCEPT ![t] = time]
    /\ pc' = [pc EXCEPT ![t] = "enter"]
    /\ UNCHANGED <<ipcVars, entry, linked, free, buf, alive, op, hold, data>>

-----------------------------------------------------------------------------
(* rt_mq_send_wait(mq, buffer, size, timeout), rt_mq_send, rt_mq_urgent *)

\* Seeded fault: a woken sender takes a node without looking whether one is free.
GetNodeUnchecked(t) ==
    /\ OnCpu(t) /\ pc[t] = "enter" /\ op[t] \in {"send", "urgent"}
    /\ hold' = [hold EXCEPT ![t] = IF free = <<>> THEN CHOOSE n \in Nodes : TRUE
                                   ELSE Head(free)]
    /\ free' = IF free = <<>> THEN <<>> ELSE Tail(free)
    /\ pc' = [pc EXCEPT ![t] = "copy"]
    /\ UNCHANGED <<ipcVars, entry, linked, buf, alive, op, wait, data>>

\* From the lock to the unlock around `while (msg_queue_free == RT_NULL)`.
GetNode(t) ==
    /\ OnCpu(t) /\ pc[t] = "enter" /\ op[t] \in {"send", "urgent"}
    /\ \/ /\ free # <<>>
          /\ free' = Tail(free)
          /\ hold' = [hold EXCEPT ![t] = Head(free)]
          /\ pc' = [pc EXCEPT ![t] = "copy"]
          /\ UNCHANGED <<ipcVars, wait, data>>
       \/ /\ free = <<>> /\ wait[t] = "no"         \* -RT_EFULL
          /\ Return(t)
          /\ UNCHANGED <<ipcVars, free>>
       \/ /\ free = <<>> /\ wait[t] # "no"
          /\ Suspend(t, "send", wait[t])
          /\ pc' = [pc EXCEPT ![t] = "wait"]
          /\ UNCHANGED <<free, wait, hold, data>>
    /\ UNCHANGED <<entry, linked, buf, alive, op>>

\* rt_memcpy(msg + 1, buffer, size)
CopyIn(t) ==
    /\ OnCpu(t) /\ pc[t] = "copy" /\ op[t] \in {"send", "urgent"}
    /\ buf' = [buf EXCEPT ![hold[t]] = data[t]]
    /\ pc' = [pc EXCEPT ![t] = "finish"]
    /\ UNCHANGED <<ipcVars, entry, linked, free, alive, op, wait, hold, data>>

\* Seeded faults: nobody is woken; the urgent message is not followed by the others.
LinkSilently(t) ==
    /\ OnCpu(t) /\ pc[t] = "finish" /\ op[t] \in {"send", "urgent"}
    /\ linked' = IF op[t] = "send" THEN Append(linked, hold[t]) ELSE <<hold[t]>> \o linked
    /\ entry' = IF entry < EntryMax THEN entry + 1 ELSE entry
    /\ Return(t)
    /\ UNCHANGED <<ipcVars, free, buf, alive, op>>
LinkCuts(t) ==
    /\ OnCpu(t) /\ pc[t] = "finish" /\ op[t] \in {"send", "urgent"}
    /\ linked' = IF op[t] = "send" THEN Append(linked, hold[t]) ELSE <<hold[t]>>
    /\ entry' = IF entry < EntryMax THEN entry + 1 ELSE entry
    /\ ResumeFirst("recv")
    /\ Return(t)
    /\ UNCHANGED <<free, buf, alive, op>>

\* The node becomes the tail of the queue, or its head if the message is urgent,
\* and the first receiver is resumed.
Link(t) ==
    /\ OnCpu(t) /\ pc[t] = "finish" /\ op[t] \in {"send", "urgent"}
    /\ linked' = IF op[t] = "send" THEN Append(linked, hold[t]) ELSE <<hold[t]>> \o linked
    /\ entry' = IF entry < EntryMax THEN entry + 1 ELSE entry
    /\ ResumeFirst("recv")
    /\ Return(t)
    /\ UNCHANGED <<free, buf, alive, op>>

-----------------------------------------------------------------------------
(* rt_mq_recv(mq, buffer, size, timeout) *)

\* From the lock to the unlock around `while (mq->entry == 0)`.
TakeNode(t) ==
    /\ OnCpu(t) /\ pc[t] = "enter" /\ op[t] = "recv"
    /\ \/ /\ entry > 0
          /\ linked' = Tail(linked)
          /\ entry' = entry - 1
          /\ hold' = [hold EXCEPT ![t] = Head(linked)]
          /\ pc' = [pc EXCEPT ![t] = "copy"]
          /\ UNCHANGED <<ipcVars, wait, data>>
       \/ /\ entry = 0 /\ wait[t] = "no"           \* -RT_ETIMEOUT
          /\ Return(t)
          /\ UNCHANGED <<ipcVars, entry, linked>>
       \/ /\ entry = 0 /\ wait[t] # "no"
          /\ Suspend(t, "recv", wait[t])
          /\ pc' = [pc EXCEPT ![t] = "wait"]
          /\ UNCHANGED <<entry, linked, wait, hold, data>>
    /\ UNCHANGED <<free, buf, alive, op>>

\* rt_memcpy(buffer, msg + 1, size)
CopyOut(t) ==
    /\ OnCpu(t) /\ pc[t] = "copy" /\ op[t] = "recv"
    /\ data' = [data EXCEPT ![t] = buf[hold[t]]]
    /\ pc' = [pc EXCEPT ![t] = "finish"]
    /\ UNCHANGED <<ipcVars, entry, linked, free, buf, alive, op, wait, hold>>

\* The node goes back to the free list and the first sender is resumed.
FreeNode(t) ==
    /\ OnCpu(t) /\ pc[t] = "finish" /\ op[t] = "recv"
    /\ free' = <<hold[t]>> \o free
    /\ ResumeFirst("send")
    /\ Return(t)
    /\ UNCHANGED <<entry, linked, buf, alive, op>>

-----------------------------------------------------------------------------
(* rt_mq_control(RT_IPC_CMD_RESET), rt_mq_detach, rt_mq_delete *)

Suspended == ToSet(queue["recv"]) \cup ToSet(queue["send"])

\* Everybody is resumed with -RT_ERROR and every queued message dropped, with
\* the interrupts of the core disabled.
Reset(t) ==
    /\ OnCpu(t) /\ pc[t] = "idle" /\ alive /\ Resets
    /\ ~Detaching
    /\ ResumeAll({"recv", "send"})
    /\ free' = Reverse(linked) \o free
    /\ linked' = <<>>
    /\ entry' = 0
    /\ UNCHANGED <<buf, alive, op, pc, wait, hold, data>>

\* rt_mq_detach, rt_mq_delete: the waiting threads are resumed one by one, each
\* in a section of its own.  Threads may be suspended on the queue, but nobody
\* is inside an operation.
DetachCall(t) ==
    /\ OnCpu(t) /\ pc[t] = "idle" /\ alive
    /\ \A u \in Threads : pc[u] = "idle" \/ stat[u] = "SUSPEND"
    /\ pc' = [pc EXCEPT ![t] = "detach"]
    /\ UNCHANGED <<ipcVars, entry, linked, free, buf, alive, op, wait, hold, data>>

\* The test of a list, the receivers' first, and the section of the round.
DetachTest(t, l, round) ==
    /\ OnCpu(t) /\ pc[t] = "detach" /\ queue[l] # <<>>
    /\ l = "send" => queue["recv"] = <<>>
    /\ pc' = [pc EXCEPT ![t] = round]
    /\ UNCHANGED <<ipcVars, entry, linked, free, buf, alive, op, wait, hold, data>>

DetachRound(t, l, round) ==
    /\ OnCpu(t) /\ pc[t] = round
    /\ ResumeNext(l)
    /\ pc' = [pc EXCEPT ![t] = AfterRound(l, "detach")]
    /\ UNCHANGED <<entry, linked, free, buf, alive, op, wait, hold, data>>

DetachObject(t) ==
    /\ OnCpu(t) /\ pc[t] = "detach" /\ Suspended = {}
    /\ alive' = FALSE
    /\ pc' = [pc EXCEPT ![t] = "idle"]
    /\ UNCHANGED <<ipcVars, entry, linked, free, buf, op, wait, hold, data>>

-----------------------------------------------------------------------------

Calls(t) ==
    \/ \E m \in Payload[t] :
          \/ Call(t, "urgent", m, "no")
          \/ \E time \in WaitsOf(t) : Call(t, "send", m, time)
    \/ t \notin Handlers /\ \E time \in Waits : Call(t, "recv", NoMsg, time)
    \/ t \notin Handlers /\ Reset(t)
    \/ t \in Detachers /\ DetachCall(t)

ThreadStep(t) ==
    \/ GetNode(t) \/ CopyIn(t) \/ Link(t)
    \/ TakeNode(t) \/ CopyOut(t) \/ FreeNode(t)
    \/ WaitFails(t) \/ LookAgain(t)
    \/ DetachTest(t, "recv", "poprecv") \/ DetachRound(t, "recv", "poprecv")
    \/ DetachTest(t, "send", "popsend") \/ DetachRound(t, "send", "popsend")
    \/ DetachObject(t)

\* The timeout of t, on whichever core comes to check it.
Timeout(t) ==
    \E c \in Cpus : (TimerExpires(c, t) \/ ThreadTimeout(c, t)) /\ UNCHANGED mqVars

\* Once the queue is gone and nobody is in an operation, nothing is left to do.
Finished ==
    /\ ~alive /\ \A t \in Threads : pc[t] = "idle"
    /\ UNCHANGED vars

Next ==
    \/ \E t \in Threads : Calls(t) \/ ThreadStep(t) \/ Timeout(t)
    \/ Finished

Spec == Init /\ [][Next]_vars

-----------------------------------------------------------------------------
(* Properties *)

Labels == {"idle", "enter", "wait", "copy", "finish", "detach", "poprecv", "popsend", "wild"}

TypeOK ==
    /\ IpcTypeOK
    /\ entry \in 0..EntryMax
    /\ linked \in Seq(Nodes) /\ free \in Seq(Nodes)
    /\ buf \in [Nodes -> Msgs \cup {NoMsg}]
    /\ alive \in BOOLEAN
    /\ op \in [Threads -> {"send", "urgent", "recv"}]
    /\ pc \in [Threads -> Labels]
    /\ wait \in [Threads -> {"no", "timed", "forever"}]
    /\ hold \in [Threads -> Nodes \cup {NoNode}]
    /\ data \in [Threads -> Msgs \cup {NoMsg}]

\* The threads that own a node while they copy a message with nothing locked.
Holders == {t \in Threads : pc[t] \in {"copy", "finish"}}

\* Every node of the pool is in exactly one place: the free list, the queue, or
\* the hands of one thread.  A node in two places is copied over by two threads
\* at once; one in none is lost to the pool.
NodesConserved ==
    /\ IsInjective(free \o linked)
    /\ \A s, t \in Holders : hold[s] = hold[t] => s = t
    /\ ToSet(free) \cup ToSet(linked) \cup {hold[t] : t \in Holders} = Nodes
    /\ \A t \in Holders : hold[t] \notin ToSet(free) \cup ToSet(linked)
    /\ entry = Len(linked)

\* Threads that are about to look for a message or for a free node.
Looking(ops) ==
    {t \in Threads : op[t] \in ops /\ (pc[t] = "enter" \/
        (pc[t] = "wait" /\ stat[t] = "RUN" /\ error[t] = "EOK"))}

\* No receiver sleeps while a message is there that no awake receiver comes for,
\* and no sender while a node is free that no awake sender comes for.
NoWaitInVain ==
    /\ queue["recv"] # <<>> => entry <= Cardinality(Looking({"recv"}))
    /\ queue["send"] # <<>> => Len(free) <= Cardinality(Looking({"send", "urgent"}))

\* Messages are received in the order in which they were linked, urgent ones
\* first, each once, with the content its sender passed, although the copies are
\* made with nothing locked.
Sends(t) == op[t] \in {"send", "urgent"} /\ pc[t] \in {"enter", "wait", "copy", "finish"}
Channel == INSTANCE BoundedChannel
    WITH Users <- Threads,
         Capacity <- Cardinality(Nodes),
         items <- [i \in 1..Len(linked) |-> buf[linked[i]]],
         sending <- [t \in Threads |-> IF Sends(t) THEN data[t] ELSE NoMsg],
         taken <- [t \in Threads |-> IF op[t] = "recv" /\ pc[t] = "copy"
                                     THEN buf[hold[t]] ELSE NoMsg],
         received <- [t \in Threads |-> IF op[t] = "recv" /\ pc[t] = "finish"
                                        THEN data[t] ELSE NoMsg]
DeliversInOrder == Channel!Spec
=============================================================================
