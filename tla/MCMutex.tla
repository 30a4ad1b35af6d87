------------------------------- MODULE MCMutex --------------------------------
(* Three threads of different urgency on one core or spread over two, using   *)
(* one mutex or two.                                                         *)
EXTENDS Mutex

CONSTANTS c0, c1, a, b, d

MCThreads == {a, b, d}
MCPrio == [t \in MCThreads |-> CASE t = a -> 1 [] t = b -> 2 [] OTHER -> 3]
MCOneCore == [t \in MCThreads |-> c0]
MCTwoCores == [t \in MCThreads |-> IF t = d THEN c1 ELSE c0]
=============================================================================
