-------------------------------- MODULE DataQueue --------------------------------
(***************************************************************************)
(* The data queue of components/drivers/src/dataqueue.c: rt_data_queue_push,*)
(* _pop, _len, _reset and _deinit, used by the threads and the interrupt    *)
(* handlers of one core (a section disables the interrupts of the core that *)
(* runs it and takes no lock).                                              *)
(*                                                                         *)
(* Waiting threads are resumed first come, first served: a pop by every     *)
(* push, a push only by a pop that leaves no more than lwm items.  A thread *)
(* reads its error after rt_schedule and looks again in one step: nothing   *)
(* changes the error of a thread that is awake.                             *)
(***************************************************************************)
EXTENDS IpcWait

CONSTANTS Items,       \* what is pushed
          ItemsOf,     \* ItemsOf[t]: what thread t pushes
          NoItem,      \* what an unused place holds
          DqSize,      \* queue->size
          Lwm          \* queue->lwm

ASSUME DqAssumption ==
    /\ {"push", "pop"} \subseteq Lists
    /\ ItemsOf \in [Threads -> SUBSET Items]
    /\ NoItem \notin Items /\ DqSize \in Nat \ {0} /\ Lwm \in 0..DqSize - 1
    /\ \A s, t \in Threads : Bind[s] = Bind[t]

VARIABLES dqItems,     \* queue->queue
          putIndex,    \* queue->put_index
          getIndex,    \* queue->get_index
          isEmpty,     \* queue->is_empty
          isFull,      \* queue->is_full
          dqAlive,     \* queue->magic is DATAQUEUE_MAGIC
          dqPc,        \* where each thread is
          dqTime,      \* its timeout
          dqItem,      \* what it pushes
          dqStored     \* history: what has been pushed and neither popped nor reset

dqData == <<dqItems, putIndex, getIndex, isEmpty, isFull, dqStored>>
dqCall == <<dqPc, dqTime, dqItem>>
dqVars == <<dqData, dqAlive, dqCall>>

DqInit ==
    /\ dqItems = [i \in 0..DqSize - 1 |-> NoItem]
    /\ putIndex = 0 /\ getIndex = 0 /\ isEmpty = TRUE /\ isFull = FALSE
    /\ dqAlive = TRUE
    /\ dqPc = [t \in Threads |-> "idle"]
    /\ dqTime = [t \in Threads |-> "no"]
    /\ dqItem = [t \in Threads |-> NoItem]
    /\ dqStored = <<>>

\* index += 1; if (index == queue->size) index = 0;
Advance(i) == IF i + 1 = DqSize THEN 0 ELSE i + 1

\* rt_data_queue_len
DqLen(put, get, empty) ==
    IF empty THEN 0 ELSE IF put > get THEN put - get ELSE DqSize + put - get

\* Between rt_enter_critical and rt_exit_critical of a reset.
ResetCritical == {"respop", "takepop", "respush", "takepush", "wild"}

\* A thread runs unless another one of the core is in rt_enter_critical.
MayRun(t) ==
    /\ OnCpu(t)
    /\ t \in Handlers \/ \A u \in Threads \ {t} : dqPc[u] \notin ResetCritical

\* Nobody calls an operation of a queue that is going.
MayCall(t) ==
    /\ MayRun(t) /\ dqPc[t] = "idle" /\ dqAlive
    /\ \A u \in Threads : dqTime[u] # "deinit"

DqCalls(t, where, time, item) ==
    /\ dqPc' = [dqPc EXCEPT ![t] = where]
    /\ dqTime' = [dqTime EXCEPT ![t] = time]
    /\ dqItem' = [dqItem EXCEPT ![t] = item]
DqReturns(t) == DqCalls(t, "idle", "no", NoItem)

\* rt_thread_suspend, rt_list_insert_before and the start of the thread timer.
SuspendLast(t, l, time) ==
    /\ error' = [error EXCEPT ![t] = "EOK"]
    /\ ListSuspend(t, l, "FIFO", Prio, time = "timed")
    /\ UNCHANGED <<irqoff, expired>>

-----------------------------------------------------------------------------
(* rt_data_queue_push(queue, data_ptr, data_size, timeout) *)

Store(item) ==
    /\ dqItems' = [dqItems EXCEPT ![putIndex] = item]
    /\ putIndex' = Advance(putIndex)
    /\ isEmpty' = FALSE
    /\ isFull' = IF putIndex' = getIndex THEN TRUE ELSE isFull
    /\ dqStored' = Append(dqStored, item)
    /\ UNCHANGED getIndex

\* From rt_hw_interrupt_disable to the next rt_hw_interrupt_enable.
PushSection(t, item, time) ==
    \/ /\ ~isFull
       /\ Store(item)
       /\ ResumeFirst("pop")
       /\ DqReturns(t)
    \/ /\ isFull /\ time = "no"                   \* -RT_ETIMEOUT
       /\ DqReturns(t)
       /\ UNCHANGED <<ipcVars, dqData>>
    \/ /\ isFull /\ time # "no"
       /\ SuspendLast(t, "push", time)
       /\ DqCalls(t, "push", time, item)
       /\ UNCHANGED dqData

Push(t, item, time) ==
    /\ MayCall(t)
    /\ PushSection(t, item, time)
    /\ UNCHANGED dqAlive

-----------------------------------------------------------------------------
(* rt_data_queue_pop(queue, data_ptr, size, timeout) *)

TakeOut ==
    /\ getIndex' = Advance(getIndex)
    /\ isFull' = FALSE
    /\ isEmpty' = IF putIndex = getIndex' THEN TRUE ELSE isEmpty
    /\ dqStored' = Tail(dqStored)
    /\ UNCHANGED <<dqItems, putIndex>>

\* Seeded fault: a push is resumed below the low water mark only.
ResumePushBelow ==
    IF DqLen(putIndex, getIndex', isEmpty') < Lwm
    THEN ResumeFirst("push") ELSE UNCHANGED ipcVars

\* if (rt_data_queue_len(queue) <= queue->lwm)
ResumePush ==
    IF DqLen(putIndex, getIndex', isEmpty') <= Lwm
    THEN ResumeFirst("push") ELSE UNCHANGED ipcVars

PopSection(t, time) ==
    \/ /\ ~isEmpty
       /\ TakeOut
       /\ ResumePush
       /\ DqReturns(t)
    \/ /\ isEmpty /\ time = "no"                  \* -RT_ETIMEOUT
       /\ DqReturns(t)
       /\ UNCHANGED <<ipcVars, dqData>>
    \/ /\ isEmpty /\ time # "no"
       /\ SuspendLast(t, "pop", time)
       /\ DqCalls(t, "pop", time, NoItem)
       /\ UNCHANGED dqData

Pop(t, time) ==
    /\ MayCall(t)
    /\ PopSection(t, time)
    /\ UNCHANGED dqAlive

\* After rt_schedule: an error is returned, else the loop looks again, with the
\* whole timeout.
Woken(t) ==
    /\ MayRun(t) /\ dqPc[t] \in {"push", "pop"} /\ stat[t] = "RUN"
    /\ \/ error[t] # "EOK" /\ DqReturns(t) /\ UNCHANGED <<ipcVars, dqData>>
       \/ error[t] = "EOK" /\ dqPc[t] = "push" /\ PushSection(t, dqItem[t], dqTime[t])
       \/ error[t] = "EOK" /\ dqPc[t] = "pop" /\ PopSection(t, dqTime[t])
    /\ UNCHANGED dqAlive

-----------------------------------------------------------------------------
(* rt_data_queue_reset(queue), and rt_data_queue_deinit(queue) around it *)

\* Whoever deinitialises the queue is the last one to use it: threads may be
\* suspended on it, but nobody is inside an operation.
LastUser == \A u \in Threads : dqPc[u] = "idle" \/ stat[u] = "SUSPEND"

ResetSection(t, why) ==
    /\ t \in Detachers /\ MayCall(t)
    /\ why = "deinit" => LastUser
    /\ getIndex' = 0 /\ putIndex' = 0 /\ isEmpty' = TRUE /\ isFull' = FALSE
    /\ dqStored' = <<>>
    /\ DqCalls(t, "reset", why, NoItem)
    /\ UNCHANGED <<ipcVars, dqItems, dqAlive>>

\* rt_enter_critical
ResetEnter(t) ==
    /\ MayRun(t) /\ dqPc[t] = "reset"
    /\ dqPc' = [dqPc EXCEPT ![t] = "respop"]
    /\ UNCHANGED <<ipcVars, dqData, dqAlive, dqTime, dqItem>>

\* The condition of either loop.  The scheduler is locked and interrupts are not.
ResetTest(t, l, where, round) ==
    /\ MayRun(t) /\ dqPc[t] = where /\ queue[l] # <<>>
    /\ dqPc' = [dqPc EXCEPT ![t] = round]
    /\ UNCHANGED <<ipcVars, dqData, dqAlive, dqTime, dqItem>>

\* The section of a round.
ResetResume(t, l, where, round) ==
    /\ MayRun(t) /\ dqPc[t] = round
    /\ ResumeNext(l)
    /\ dqPc' = [dqPc EXCEPT ![t] = AfterRound(l, where)]
    /\ UNCHANGED <<dqData, dqAlive, dqTime, dqItem>>

\* The list is found empty: the next loop, or rt_exit_critical.
ResetNext(t) ==
    /\ MayRun(t)
    /\ \/ /\ dqPc[t] = "respop" /\ queue["pop"] = <<>>
          /\ dqPc' = [dqPc EXCEPT ![t] = "respush"]
          /\ UNCHANGED <<dqAlive, dqTime, dqItem>>
       \/ /\ dqPc[t] = "respush" /\ queue["push"] = <<>>
          /\ dqAlive' = (dqTime[t] # "deinit")
          /\ DqReturns(t)
    /\ UNCHANGED <<ipcVars, dqData>>

ResetStep(t) ==
    \/ ResetEnter(t) \/ ResetNext(t)
    \/ ResetTest(t, "pop", "respop", "takepop") \/ ResetResume(t, "pop", "respop", "takepop")
    \/ ResetTest(t, "push", "respush", "takepush") \/ ResetResume(t, "push", "respush", "takepush")

DqStep(t) ==
    \/ \E time \in WaitsOf(t) : Pop(t, time) \/ \E item \in ItemsOf[t] : Push(t, item, time)
    \/ Woken(t)
    \/ \E why \in {"reset", "deinit"} : ResetSection(t, why)
    \/ ResetStep(t)

DqTimeout(t) ==
    \E c \in Cpus : (TimerExpires(c, t) \/ ThreadTimeout(c, t)) /\ UNCHANGED dqVars

DqNext == \E t \in Threads : DqStep(t) \/ DqTimeout(t)

DqSpec == IpcInit /\ DqInit /\ [][DqNext]_<<ipcVars, dqVars>>

-----------------------------------------------------------------------------
(* Properties *)

DqLabels == {"idle", "push", "pop", "reset"} \cup ResetCritical

DqTypeOK ==
    /\ dqItems \in [0..DqSize - 1 -> Items \cup {NoItem}]
    /\ putIndex \in 0..DqSize - 1 /\ getIndex \in 0..DqSize - 1
    /\ isEmpty \in BOOLEAN /\ isFull \in BOOLEAN /\ dqAlive \in BOOLEAN
    /\ dqPc \in [Threads -> DqLabels]
    /\ dqTime \in [Threads -> {"no", "timed", "forever", "reset", "deinit"}]
    /\ dqItem \in [Threads -> Items \cup {NoItem}]
    /\ dqStored \in Seq(Items)

\* The ring holds, in order, what was pushed and not popped, and the two flags and
\* rt_data_queue_len, computed from two indices that are equal for empty and full,
\* agree with it.
RingAgrees ==
    /\ DqLen(putIndex, getIndex, isEmpty) = Len(dqStored)
    /\ isEmpty <=> dqStored = <<>>
    /\ isFull <=> Len(dqStored) = DqSize
    /\ \A i \in 1..Len(dqStored) : dqItems[(getIndex + i - 1) % DqSize] = dqStored[i]

\* The threads that have been resumed to look again.
DqComing(where) ==
    Cardinality({t \in Threads : dqPc[t] = where /\ stat[t] = "RUN" /\ error[t] = "EOK"})

Resetting == \E t \in Threads : dqPc[t] \in {"reset"} \cup ResetCritical

\* Nobody sleeps in a pop for an item that no awake pop comes for; and a push
\* sleeps only while there are more items than the low water mark, counting those
\* that resumed pushes are about to add: the pops that go on bring the next wake-up.
NoItemInVain ==
    /\ queue["pop"] # <<>> => Len(dqStored) <= DqComing("pop")
    /\ queue["push"] # <<>> /\ ~Resetting => Len(dqStored) + DqComing("push") > Lwm

\* rt_data_queue_push and rt_data_queue_pop deliver every item once and in order,
\* and leave nobody behind, until a reset takes a list head for a thread: a timeout
\* may empty the list that rt_data_queue_reset has found not empty.
DataQueueServes ==
    (\A t \in Threads : dqPc[t] # "wild") => RingAgrees /\ NoItemInVain
=============================================================================
