---------------------------------- MODULE Pipe ----------------------------------
(***************************************************************************)
(* The pipe of components/drivers/src/pipe.c, as files use it, and its two  *)
(* wait queues of components/drivers/src/waitqueue.c, on one core.          *)
(*                                                                         *)
(* The ring buffer is the number of bytes in it (module RingBuffer says     *)
(* that this is what it is) and the mutex its owner (module Mutex).  A      *)
(* section with interrupts disabled is one step, and so is what a thread    *)
(* does with the mutex in between.                                          *)
(***************************************************************************)
EXTENDS Integers, SequencesExt

CONSTANTS Readers,     \* the threads that open the pipe for reading
          Writers,     \* the threads that open it for writing
          PipeSize,    \* pipe->bufsz
          Counts,      \* the counts of read and write
          NoThread     \* nobody

ASSUME PipeAssumption ==
    /\ Readers \cap Writers = {} /\ NoThread \notin Readers \cup Writers
    /\ PipeSize \in Nat \ {0} /\ Counts \subseteq Nat \ {0}

VARIABLES fifo,        \* the bytes in pipe->fifo
          openBy,      \* the threads that have the pipe open: readers and writers
          pipeLock,    \* the owner of pipe->lock
          wqFlag,      \* the flag of reader_queue and writer_queue is RT_WQ_FLAG_WAKEUP
          wqList,      \* their waiting_list
          ppPc,        \* where each thread is
          ppCount,     \* the bytes that it still wants
          ppWakes      \* wakeup of pipe_fops_write

pipeVars == <<fifo, openBy, pipeLock, wqFlag, wqList, ppPc, ppCount, ppWakes>>

Ends == Readers \cup Writers
Queues == {"reader", "writer"}

\* The wait queue of t, and the one of those at the other end.
Own(t) == IF t \in Readers THEN "reader" ELSE "writer"
Other(t) == IF t \in Readers THEN "writer" ELSE "reader"

OpenReaders == openBy \cap Readers
OpenWriters == openBy \cap Writers
OtherEnd(t) == IF t \in Readers THEN OpenWriters ELSE OpenReaders

PipeInit ==
    /\ fifo = 0 /\ openBy = {} /\ pipeLock = NoThread
    /\ wqFlag = [q \in Queues |-> FALSE]
    /\ wqList = [q \in Queues |-> <<>>]
    /\ ppPc = [t \in Ends |-> "closed"]
    /\ ppCount = [t \in Ends |-> 0]
    /\ ppWakes = [t \in Ends |-> FALSE]

PpGoes(t, where) == ppPc' = [ppPc EXCEPT ![t] = where]

\* rt_mutex_take and rt_mutex_release
TakesLock(t) == pipeLock = NoThread /\ pipeLock' = t
ReleasesLock(t) == pipeLock = t /\ pipeLock' = NoThread

-----------------------------------------------------------------------------
(* waitqueue.c *)

\* Seeded fault: nobody is remembered who is about to wait.
WakeupUnflagged(q) ==
    /\ wqList' = [wqList EXCEPT ![q] = IF @ = <<>> THEN @ ELSE Tail(@)]
    /\ UNCHANGED wqFlag

\* rt_wqueue_wakeup: the first thread that waits is resumed and unlinked.
WqWakeup(q) ==
    /\ wqFlag' = [wqFlag EXCEPT ![q] = TRUE]
    /\ wqList' = [wqList EXCEPT ![q] = IF @ = <<>> THEN @ ELSE Tail(@)]

\* rt_wqueue_wait(queue, 0, -1): the thread has been woken already, or suspends.
WqWait(t) ==
    /\ ppPc[t] = "wait"
    /\ IF wqFlag[Own(t)]
       THEN /\ wqFlag' = [wqFlag EXCEPT ![Own(t)] = FALSE]
            /\ PpGoes(t, "lock")
            /\ UNCHANGED wqList
       ELSE /\ wqList' = [wqList EXCEPT ![Own(t)] = Append(@, t)]
            /\ PpGoes(t, "sleep")
            /\ UNCHANGED wqFlag
    /\ UNCHANGED <<fifo, openBy, pipeLock, ppCount, ppWakes>>

\* After rt_schedule: queue->flag = RT_WQ_FLAG_CLEAN.
WqWoken(t) ==
    /\ ppPc[t] = "sleep" /\ t \notin ToSet(wqList[Own(t)])
    /\ wqFlag' = [wqFlag EXCEPT ![Own(t)] = FALSE]
    /\ PpGoes(t, "lock")
    /\ UNCHANGED <<fifo, openBy, pipeLock, wqList, ppCount, ppWakes>>

-----------------------------------------------------------------------------
(* pipe_fops_open and pipe_fops_close *)

\* The first open creates the ring buffer.
PipeOpen(t) ==
    /\ ppPc[t] = "closed" /\ pipeLock = NoThread
    /\ openBy' = openBy \cup {t}
    /\ fifo' = IF openBy = {} THEN 0 ELSE fifo
    /\ PpGoes(t, "idle")
    /\ UNCHANGED <<pipeLock, wqFlag, wqList, ppCount, ppWakes>>

PipeClose(t) ==
    /\ ppPc[t] = "idle" /\ TakesLock(t)
    /\ openBy' = openBy \ {t}
    /\ PpGoes(t, "hangread")
    /\ UNCHANGED <<fifo, wqFlag, wqList, ppCount, ppWakes>>

\* if (pipe->writers == 0) rt_wqueue_wakeup(&pipe->reader_queue, ...)
HangUpReader(t) ==
    /\ ppPc[t] = "hangread"
    /\ IF OpenWriters = {} THEN WqWakeup("reader") ELSE UNCHANGED <<wqFlag, wqList>>
    /\ PpGoes(t, "hangwrite")
    /\ UNCHANGED <<fifo, openBy, pipeLock, ppCount, ppWakes>>

\* if (pipe->readers == 0) rt_wqueue_wakeup(&pipe->writer_queue, ...)
HangUpWriter(t) ==
    /\ ppPc[t] = "hangwrite"
    /\ IF OpenReaders = {} THEN WqWakeup("writer") ELSE UNCHANGED <<wqFlag, wqList>>
    /\ PpGoes(t, "gone")
    /\ UNCHANGED <<fifo, openBy, pipeLock, ppCount, ppWakes>>

\* The last close destroys the ring buffer.
PipeClosed(t) ==
    /\ ppPc[t] = "gone" /\ ReleasesLock(t)
    /\ fifo' = IF openBy = {} THEN 0 ELSE fifo
    /\ PpGoes(t, "closed")
    /\ UNCHANGED <<openBy, wqFlag, wqList, ppCount, ppWakes>>

-----------------------------------------------------------------------------
(* pipe_fops_read and pipe_fops_write *)

\* Nothing is done if the other end is closed.
PipeCall(t, count) ==
    /\ ppPc[t] = "idle" /\ OtherEnd(t) # {}
    /\ ppCount' = [ppCount EXCEPT ![t] = count]
    /\ ppWakes' = [ppWakes EXCEPT ![t] = FALSE]
    /\ PpGoes(t, "lock")
    /\ UNCHANGED <<fifo, openBy, pipeLock, wqFlag, wqList>>

PipeLocked(t) ==
    /\ ppPc[t] = "lock" /\ TakesLock(t)
    /\ PpGoes(t, "in")
    /\ UNCHANGED <<fifo, openBy, wqFlag, wqList, ppCount, ppWakes>>

\* The loop of pipe_fops_read, with or without O_NONBLOCK.
Read(t, nonblock) ==
    /\ t \in Readers /\ ppPc[t] = "in"
    /\ \/ /\ OpenWriters = {}                       \* goto out
          /\ ReleasesLock(t) /\ PpGoes(t, "idle") /\ UNCHANGED fifo
       \/ /\ OpenWriters # {} /\ fifo > 0           \* break
          /\ fifo' = IF ppCount[t] < fifo THEN fifo - ppCount[t] ELSE 0
          /\ PpGoes(t, "got") /\ UNCHANGED pipeLock
       \/ /\ OpenWriters # {} /\ fifo = 0
          /\ ReleasesLock(t) /\ PpGoes(t, IF nonblock THEN "idle" ELSE "wake")
          /\ UNCHANGED fifo
    /\ UNCHANGED <<openBy, wqFlag, wqList, ppCount, ppWakes>>

\* "wakeup writer", before the mutex is released
ReadWakes(t) ==
    /\ ppPc[t] = "got"
    /\ WqWakeup("writer")
    /\ PpGoes(t, "out")
    /\ UNCHANGED <<fifo, openBy, pipeLock, ppCount, ppWakes>>

ReadOut(t) ==
    /\ ppPc[t] = "out" /\ ReleasesLock(t)
    /\ PpGoes(t, "idle")
    /\ UNCHANGED <<fifo, openBy, wqFlag, wqList, ppCount, ppWakes>>

\* The loop of pipe_fops_write, with or without O_NONBLOCK.
Write(t, nonblock) ==
    /\ t \in Writers /\ ppPc[t] = "in" /\ ReleasesLock(t)
    /\ \/ /\ OpenReaders = {}
          /\ PpGoes(t, IF ppWakes[t] THEN "last" ELSE "idle")
          /\ UNCHANGED <<fifo, ppCount, ppWakes>>
       \/ /\ OpenReaders # {}
          /\ LET space == PipeSize - fifo
                 len == IF ppCount[t] < space THEN ppCount[t] ELSE space
             IN  /\ fifo' = fifo + len
                 /\ ppCount' = [ppCount EXCEPT ![t] = @ - len]
          /\ ppWakes' = [ppWakes EXCEPT ![t] = TRUE]
          /\ PpGoes(t, IF ppCount'[t] = 0 \/ nonblock THEN "last" ELSE "wake")
    /\ UNCHANGED <<openBy, wqFlag, wqList>>

\* Before it waits, either end wakes the other one; rt_wqueue_wait comes next.
WakeOther(t) ==
    /\ ppPc[t] = "wake"
    /\ WqWakeup(Other(t))
    /\ PpGoes(t, "wait")
    /\ UNCHANGED <<fifo, openBy, pipeLock, ppCount, ppWakes>>

\* if (wakeup) at the end of pipe_fops_write
WriteWakes(t) ==
    /\ ppPc[t] = "last"
    /\ WqWakeup("reader")
    /\ PpGoes(t, "idle")
    /\ UNCHANGED <<fifo, openBy, pipeLock, ppCount, ppWakes>>

PipeNext ==
    \E t \in Ends :
        \/ PipeOpen(t) \/ PipeClose(t) \/ HangUpReader(t) \/ HangUpWriter(t) \/ PipeClosed(t)
        \/ \E count \in Counts : PipeCall(t, count)
        \/ PipeLocked(t) \/ WakeOther(t) \/ WqWait(t) \/ WqWoken(t)
        \/ \E nonblock \in BOOLEAN : Read(t, nonblock) \/ Write(t, nonblock)
        \/ ReadWakes(t) \/ ReadOut(t) \/ WriteWakes(t)

PipeSpec == PipeInit /\ [][PipeNext]_pipeVars

-----------------------------------------------------------------------------
(* Properties *)

PipeTypeOK ==
    /\ fifo \in 0..PipeSize /\ openBy \subseteq Ends
    /\ pipeLock \in Ends \cup {NoThread}
    /\ wqFlag \in [Queues -> BOOLEAN] /\ wqList \in [Queues -> Seq(Ends)]
    /\ ppPc \in [Ends -> {"closed", "idle", "lock", "in", "wake", "wait", "sleep", "got", "out",
                          "last", "hangread", "hangwrite", "gone"}]
    /\ ppCount \in [Ends -> Nat] /\ ppWakes \in [Ends -> BOOLEAN]

\* A thread that is about to wake up the queue q.
WakeComing(q) ==
    \E t \in Ends :
        \/ ppPc[t] = "wake" /\ Other(t) = q
        \/ q = "reader" /\ ppPc[t] \in {"last", "hangread"}
        \/ q = "writer" /\ ppPc[t] \in {"got", "hangread", "hangwrite"}

Asleep(t) == t \in ToSet(wqList[Own(t)])

\* Nobody sleeps in pipe_fops_read while there are bytes or the last writer has
\* gone, nor in pipe_fops_write while there is space or the last reader has gone,
\* unless a wake-up is coming: the look at the pipe and the wait are apart, and what
\* happens in between is only kept in the flag of the wait queue.
PipeServes ==
    \A t \in Ends : Asleep(t) /\ ~WakeComing(Own(t)) =>
        /\ OtherEnd(t) # {}
        /\ IF t \in Readers THEN fifo = 0 ELSE fifo = PipeSize
=============================================================================
