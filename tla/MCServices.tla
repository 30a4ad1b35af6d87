------------------------------- MODULE MCServices -------------------------------
(* The services above the scheduler and the IPC objects: the timers, the heap,   *)
(* a memory pool, the lock of the DMA channels, a work queue, a data queue, a    *)
(* completion, a ring buffer, a pipe and the end of threads.  They share no      *)
(* state but the threads that wait, so that a behaviour uses one of them.        *)
EXTENDS Timer, Heap, MemPool, DmaLock, WorkQueue, DataQueue, Completion, RingBuffer, Pipe,
        Defunct

CONSTANTS c0, a, b, d, irq, i1, i2,
          MaxPut,      \* bound on the bytes put into the ring buffer
          MaxPosts     \* bound on system_sem

MCThreads == {a, b, d, irq}
MCPrio == [t \in MCThreads |-> 1]
MCBind == [t \in MCThreads |-> c0]
MCItems == [t \in MCThreads |-> IF t = a THEN {i1} ELSE {i2}]
MCHome == [t \in Mortals |-> c0]
TimerSym == Permutations(Timers)

VARIABLE service       \* the service in use

others == <<poolVars, dqVars, cmVars>>
allVars == <<timerVars, heapVars, ipcVars, others, dmaVars, workVars, rbVars, pipeVars,
             dfVars, service>>

MCInit ==
    /\ TimerInit /\ HeapInit /\ IpcInit /\ MpInit /\ DmaInit /\ WorkInit
    /\ DqInit /\ CmInit /\ RbInit /\ PipeInit /\ DefunctInit
    /\ service \in {"timer", "heap", "pool", "dma", "work", "data", "completion", "ring",
                    "pipe", "defunct"}

\* Once an object is gone, or is not followed further ("wild"), and its users have
\* left it, nothing is left to do.  A reset that is lost keeps rt_enter_critical.
Gone ==
    /\ \/ /\ ~poolAlive \/ ~dqAlive \/ \E t \in Threads : mpPc[t] = "wild"
          /\ \A t \in Threads : mpPc[t] \in {"idle", "wild"} /\ dqPc[t] = "idle"
       \/ \E t \in Threads : dqPc[t] = "wild"
    /\ UNCHANGED allVars

\* The services with suspend lists of their own.
WaitNext ==
    /\ UNCHANGED <<timerVars, heapVars, dmaVars, workVars, rbVars, pipeVars, dfVars>>
    /\ \/ service = "pool" /\ MpNext /\ UNCHANGED <<dqVars, cmVars>>
       \/ service = "data" /\ DqNext /\ UNCHANGED <<poolVars, cmVars>>
       \/ service = "completion" /\ CmNext /\ UNCHANGED <<poolVars, dqVars>>

KernelNext ==
    /\ UNCHANGED <<ipcVars, others, dmaVars, workVars, rbVars, pipeVars>>
    /\ \/ service = "timer" /\ TimerNext /\ UNCHANGED <<heapVars, dfVars>>
       \/ service = "heap" /\ HeapNext /\ UNCHANGED <<timerVars, dfVars>>
       \/ service = "defunct" /\ DefunctNext /\ UNCHANGED <<timerVars, heapVars>>

DriverNext ==
    /\ UNCHANGED <<timerVars, heapVars, ipcVars, others, dfVars>>
    /\ \/ service = "dma" /\ DmaNext /\ UNCHANGED <<workVars, rbVars, pipeVars>>
       \/ service = "work" /\ WorkNext /\ UNCHANGED <<dmaVars, rbVars, pipeVars>>
       \/ service = "ring" /\ RbNext /\ UNCHANGED <<dmaVars, workVars, pipeVars>>
       \/ service = "pipe" /\ PipeNext /\ UNCHANGED <<dmaVars, workVars, rbVars>>

MCNext == ((WaitNext \/ KernelNext \/ DriverNext) /\ UNCHANGED service) \/ Gone

MCSpec == MCInit /\ [][MCNext]_allVars

Bounded == rbPut <= MaxPut /\ systemSem <= MaxPosts
=============================================================================
