------------------------------ MODULE MCScheduler ------------------------------
(* One core with its idle thread, the main thread and two more threads, one  *)
(* of them more urgent than main and one as urgent.                          *)
EXTENDS Scheduler

CONSTANTS idle, main, a, b

MCThreads == {idle, main, a, b}
MCPrios == 1..3
MCInitPrio == [t \in MCThreads |-> CASE t = idle -> 3
                                     [] t = a -> 1
                                     [] OTHER -> 2]
=============================================================================
