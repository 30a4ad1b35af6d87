------------------------------ MODULE MCSemaphore ------------------------------
(* Three threads of different urgency and the handler of a device interrupt that *)
(* releases the semaphore.  "two": on two cores, without timed waits and resets. *)
(* "one": on one core, with both.  The parts share no state: a behaviour uses    *)
(* one of them.                                                                  *)
EXTENDS Semaphore

CONSTANTS c0, c1, a, b, d, irq

MCThreads == {a, b, d, irq}
MCPrio == [t \in MCThreads |-> CASE t = a -> 1 [] t = irq -> 0 [] OTHER -> 2]
MCBind == [t \in MCThreads |-> IF t \in {d, irq} THEN c1 ELSE c0]

VARIABLES oneStat, oneError, oneTimer, oneQueue, oneIrqoff, oneExpired,
          oneValue, oneSpin, oneAlive, onePc, oneWait, oneTarget,
          part          \* the part in use

oneVars == <<oneStat, oneError, oneTimer, oneQueue, oneIrqoff, oneExpired,
             oneValue, oneSpin, oneAlive, onePc, oneWait, oneTarget>>
allVars == <<vars, oneVars, part>>

One == INSTANCE Semaphore
    WITH Cpus <- {c0}, Bind <- [t \in MCThreads |-> c0],
         Waits <- {"no", "timed", "forever"}, ResetValues <- {0, 2},
         stat <- oneStat, error <- oneError, timer <- oneTimer, queue <- oneQueue,
         irqoff <- oneIrqoff, expired <- oneExpired, value <- oneValue,
         spin <- oneSpin, alive <- oneAlive, pc <- onePc, wait <- oneWait,
         target <- oneTarget

\* A detach starts when no waiter has a timeout: _ipc_list_resume_all tests the
\* list with interrupts enabled, and a timeout after the test would leave it a list
\* head to resume, where the code has no defined behaviour.
DetachUntimed ==
    \A t \in MCThreads :
        onePc[t] = "idle" /\ onePc'[t] = "detach" => \A u \in MCThreads : ~oneTimer[u]

MCInit == Init /\ One!Init /\ part \in {"one", "two"}

MCNext ==
    /\ \/ part = "two" /\ Next /\ UNCHANGED oneVars
       \/ part = "one" /\ One!Next /\ DetachUntimed /\ UNCHANGED vars
    /\ UNCHANGED part

MCSpec == MCInit /\ [][MCNext]_allVars /\ One!Fairness

-----------------------------------------------------------------------------

\* On one core, a thread that waits in rt_sem_take with a finite timeout is made ready
\* again, whatever releases, resets and other takes do, and a detach that finds no timed
\* waiter, although no thread is promised the core.
EveryTimedWaitEnds == One!TimedWaitEnds
=============================================================================
