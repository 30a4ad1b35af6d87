------------------------------ MODULE MCIpcObjects ------------------------------
(* A message queue, an event and a mailbox of rt-thread/src/ipc.c used by two    *)
(* threads and an interrupt handler of one core.  The objects share no state but *)
(* the threads that use them, so that a behaviour uses one of them.              *)
EXTENDS MessageQueue, Event, Mailbox

CONSTANTS c0, a, b, irq, m1, m2

MCThreads == {a, b, irq}
MCPrio == [t \in MCThreads |-> IF t = b THEN 2 ELSE 1]
MCBind == [t \in MCThreads |-> c0]
MCPayload == [t \in MCThreads |-> IF t = b THEN {m2} ELSE {m1}]

VARIABLE object        \* the object in use

allVars == <<ipcVars, mqVars, eventVars, mbVars, object>>

MCInit ==
    /\ Init /\ EventInit /\ MbInit
    /\ object \in {"queue", "event", "mailbox"}

\* Once an object is gone, or is not followed further ("wild"), and nobody is in an
\* operation, nothing is left to do.
Gone ==
    /\ \/ ~alive \/ ~eventAlive \/ ~mbAlive
       \/ \E t \in Threads : "wild" \in {pc[t], evPc[t], mbPc[t]}
    /\ \A t \in Threads : {pc[t], evPc[t], mbPc[t]} \subseteq {"idle", "wild"}
    /\ UNCHANGED allVars

MCNext ==
    \/ /\ \/ object = "queue" /\ Next /\ UNCHANGED <<eventVars, mbVars>>
          \/ object = "event" /\ EventNext /\ UNCHANGED <<mqVars, mbVars>>
          \/ object = "mailbox" /\ MbNext /\ UNCHANGED <<mqVars, eventVars>>
       /\ UNCHANGED object
    \/ Gone

MCSpec == MCInit /\ [][MCNext]_allVars

\* The mailbox is not followed further once its protection has failed.
Undisturbed == ~disturbed
=============================================================================
