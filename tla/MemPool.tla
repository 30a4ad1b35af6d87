-------------------------------- MODULE MemPool --------------------------------
(***************************************************************************)
(* The memory pool of rt-thread/src/mempool.c: rt_mp_init, rt_mp_alloc,     *)
(* rt_mp_free, rt_mp_detach and rt_mp_delete, used by the threads of one    *)
(* core.  The pool disables the interrupts of the core that runs it and     *)
(* takes no lock, so that two cores must not share one.                     *)
(*                                                                         *)
(* A thread that waits is inserted at the head of suspend_thread, which is  *)
(* also where the next thread to wake up is taken from.                     *)
(***************************************************************************)
EXTENDS IpcWait

CONSTANTS Blocks       \* the blocks of the pool

ASSUME MpAssumption ==
    /\ "pool" \in Lists /\ IsFiniteSet(Blocks)
    /\ \A s, t \in Threads : Bind[s] = Bind[t]

VARIABLES blockFree,   \* mp->block_free_count
          blockList,   \* the blocks from mp->block_list on
          blockUsed,   \* history: the blocks that have been returned by rt_mp_alloc
          poolAlive,   \* the pool has not been detached or deleted
          mpPc,        \* where each thread is
          mpTime       \* the time it has left to wait

poolVars == <<blockFree, blockList, blockUsed, poolAlive, mpPc, mpTime>>
mpVars == <<ipcVars, poolVars>>

MpInit ==
    /\ blockFree = Cardinality(Blocks)
    /\ blockList = SetToSeq(Blocks)
    /\ blockUsed = {}
    /\ poolAlive = TRUE
    /\ mpPc = [t \in Threads |-> "idle"]
    /\ mpTime = [t \in Threads |-> "no"]

Leave(t) ==
    /\ mpPc' = [mpPc EXCEPT ![t] = "idle"]
    /\ mpTime' = [mpTime EXCEPT ![t] = "no"]

-----------------------------------------------------------------------------
(* rt_mp_alloc(mp, time) *)

\* rt_mp_detach and rt_mp_delete are under way, or lost behind the list head.
PoolGoing == \E t \in Threads : mpPc[t] \in {"detach", "pop", "wild"}

\* Nobody calls an operation of a pool that is being detached.
AllocCall(t, time) ==
    /\ OnCpu(t) /\ mpPc[t] = "idle" /\ poolAlive
    /\ ~PoolGoing
    /\ mpTime' = [mpTime EXCEPT ![t] = time]
    /\ mpPc' = [mpPc EXCEPT ![t] = "enter"]
    /\ UNCHANGED <<ipcVars, blockFree, blockList, blockUsed, poolAlive>>

\* rt_thread_suspend, rt_list_insert_after(&mp->suspend_thread, &thread->tlist)
\* and the start of the thread timer if time > 0.
SuspendFirst(t, timed) ==
    /\ error' = [error EXCEPT ![t] = "EOK"]
    /\ stat' = [stat EXCEPT ![t] = "SUSPEND"]
    /\ queue' = [Unlink(queue, t) EXCEPT !["pool"] = <<t>> \o @]
    /\ timer' = [timer EXCEPT ![t] = timed]
    /\ UNCHANGED <<irqoff, expired>>

\* A section with interrupts disabled, around while (mp->block_free_count == 0).
Alloc(t) ==
    /\ OnCpu(t) /\ mpPc[t] = "enter"
    /\ \/ /\ blockFree > 0
          /\ blockFree' = blockFree - 1
          /\ blockList' = Tail(blockList)
          /\ blockUsed' = blockUsed \cup {Head(blockList)}
          /\ Leave(t)
          /\ UNCHANGED ipcVars
       \/ /\ blockFree = 0 /\ mpTime[t] = "no"       \* -RT_ETIMEOUT
          /\ Leave(t)
          /\ UNCHANGED <<ipcVars, blockFree, blockList, blockUsed>>
       \/ /\ blockFree = 0 /\ mpTime[t] # "no"
          /\ SuspendFirst(t, mpTime[t] = "timed")
          /\ mpPc' = [mpPc EXCEPT ![t] = "wait"]
          /\ UNCHANGED <<mpTime, blockFree, blockList, blockUsed>>
    /\ UNCHANGED poolAlive

\* After rt_schedule: if (thread->error != RT_EOK) return RT_NULL; else the loop
\* looks again, with the time that is left.
AllocWoken(t) ==
    /\ OnCpu(t) /\ mpPc[t] = "wait" /\ stat[t] = "RUN"
    /\ IF error[t] # "EOK" THEN Leave(t)
       ELSE /\ \E time \in Remaining(mpTime[t]) : mpTime' = [mpTime EXCEPT ![t] = time]
            /\ mpPc' = [mpPc EXCEPT ![t] = "enter"]
    /\ UNCHANGED <<ipcVars, blockFree, blockList, blockUsed, poolAlive>>

-----------------------------------------------------------------------------
(* rt_mp_free(block) *)

\* Seeded fault: only the first block that becomes free wakes somebody.
FreeWakesOnce(t, b) ==
    /\ OnCpu(t) /\ mpPc[t] = "idle" /\ b \in blockUsed /\ poolAlive
    /\ ~PoolGoing
    /\ blockFree' = blockFree + 1
    /\ blockList' = <<b>> \o blockList
    /\ blockUsed' = blockUsed \ {b}
    /\ IF queue["pool"] = <<>> \/ blockFree > 0 THEN UNCHANGED ipcVars
       ELSE /\ error' = [error EXCEPT ![Head(queue["pool"])] = "EOK"]
            /\ ThreadResume(Head(queue["pool"]))
            /\ UNCHANGED <<irqoff, expired>>
    /\ UNCHANGED <<poolAlive, mpPc, mpTime>>

\* Any thread or handler gives back a block of the pool, and the first thread of
\* suspend_thread is resumed.
MpFree(t, b) ==
    /\ OnCpu(t) /\ mpPc[t] = "idle" /\ b \in blockUsed /\ poolAlive
    /\ ~PoolGoing
    /\ blockFree' = blockFree + 1
    /\ blockList' = <<b>> \o blockList
    /\ blockUsed' = blockUsed \ {b}
    /\ IF queue["pool"] = <<>> THEN UNCHANGED ipcVars
       ELSE /\ error' = [error EXCEPT ![Head(queue["pool"])] = "EOK"]
            /\ ThreadResume(Head(queue["pool"]))
            /\ UNCHANGED <<irqoff, expired>>
    /\ UNCHANGED <<poolAlive, mpPc, mpTime>>

-----------------------------------------------------------------------------
(* rt_mp_detach(mp), rt_mp_delete(mp): interrupts are enabled between the threads *)

\* Threads may be suspended on the pool, but nobody is inside an operation.
MpDetachCall(t) ==
    /\ OnCpu(t) /\ mpPc[t] = "idle" /\ poolAlive
    /\ \A u \in Threads : mpPc[u] = "idle" \/ stat[u] = "SUSPEND"
    /\ mpPc' = [mpPc EXCEPT ![t] = "detach"]
    /\ UNCHANGED <<ipcVars, blockFree, blockList, blockUsed, poolAlive, mpTime>>

\* The test of the list, and the section of the round.
MpDetachTest(t) ==
    /\ OnCpu(t) /\ mpPc[t] = "detach" /\ queue["pool"] # <<>>
    /\ mpPc' = [mpPc EXCEPT ![t] = "pop"]
    /\ UNCHANGED <<ipcVars, blockFree, blockList, blockUsed, poolAlive, mpTime>>

MpDetachRound(t) ==
    /\ OnCpu(t) /\ mpPc[t] = "pop"
    /\ ResumeNext("pool")
    /\ mpPc' = [mpPc EXCEPT ![t] = AfterRound("pool", "detach")]
    /\ UNCHANGED <<blockFree, blockList, blockUsed, poolAlive, mpTime>>

MpDetachObject(t) ==
    /\ OnCpu(t) /\ mpPc[t] = "detach" /\ queue["pool"] = <<>>
    /\ poolAlive' = FALSE
    /\ mpPc' = [mpPc EXCEPT ![t] = "idle"]
    /\ UNCHANGED <<ipcVars, blockFree, blockList, blockUsed, mpTime>>

MpNext ==
    \E t \in Threads :
        \/ \E time \in WaitsOf(t) : AllocCall(t, time)
        \/ \E b \in Blocks : MpFree(t, b)
        \/ Alloc(t) \/ AllocWoken(t)
        \/ t \in Detachers /\ MpDetachCall(t)
        \/ MpDetachTest(t) \/ MpDetachRound(t) \/ MpDetachObject(t)
        \/ \E c \in Cpus : (TimerExpires(c, t) \/ ThreadTimeout(c, t)) /\ UNCHANGED poolVars

MpSpec == IpcInit /\ MpInit /\ [][MpNext]_mpVars

-----------------------------------------------------------------------------
(* Properties *)

MpLabels == {"idle", "enter", "wait", "detach", "pop", "wild"}

MpTypeOK ==
    /\ IpcTypeOK
    /\ blockFree \in 0..Cardinality(Blocks)
    /\ blockList \in Seq(Blocks)
    /\ blockUsed \subseteq Blocks
    /\ poolAlive \in BOOLEAN
    /\ mpPc \in [Threads -> MpLabels]
    /\ mpTime \in [Threads -> {"no", "timed", "forever"}]

\* block_free_count counts the blocks that the list links, and every block is
\* either linked once or in use: RT_ASSERT(block_ptr != RT_NULL) in rt_mp_alloc.
BlocksConserved ==
    /\ blockFree = Len(blockList)
    /\ IsInjective(blockList)
    /\ ToSet(blockList) = Blocks \ blockUsed

\* rt_mp_alloc: the threads that have been woken to take a block.
MpComing ==
    {t \in Threads : mpPc[t] = "enter" \/ (mpPc[t] = "wait" /\ stat[t] = "RUN" /\ error[t] = "EOK")}

\* No thread sleeps for a block while one is free that no awake thread comes for.
NoBlockInVain == queue["pool"] # <<>> => blockFree <= Cardinality(MpComing)

\* rt_mp_alloc and rt_mp_free neither lose, double nor hold back a block, although
\* the woken thread may find that another one took the block it was woken for.
PoolServes == BlocksConserved /\ NoBlockInVain
=============================================================================
