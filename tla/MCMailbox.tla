-------------------------------- MODULE MCMailbox --------------------------------
(* Two threads and an interrupt handler of one core, a mailbox of two mails.    *)
EXTENDS Mailbox

CONSTANTS c0, a, b, irq, m1, m2

MCThreads == {a, b, irq}
MCPrio == [t \in MCThreads |-> IF t = b THEN 2 ELSE 1]
MCBind == [t \in MCThreads |-> c0]
MCPayload == [t \in MCThreads |-> IF t = b THEN {m2} ELSE {m1}]
=============================================================================
