--------------------------- MODULE CountingSemaphore ---------------------------
(***************************************************************************)
(* What a counting semaphore promises: a number of available tokens, and     *)
(* threads in a take that either get one token or give up without one.      *)
(***************************************************************************)
EXTENDS Naturals

CONSTANTS Threads

VARIABLES available,  \* tokens released and not yet taken
          taking      \* the threads inside a take

Begin(t) ==
    /\ t \notin taking
    /\ taking' = taking \cup {t}
    /\ UNCHANGED available

Acquire(t) ==
    /\ t \in taking /\ available > 0
    /\ taking' = taking \ {t}
    /\ available' = available - 1

GiveUp(t) ==
    /\ t \in taking
    /\ taking' = taking \ {t}
    /\ UNCHANGED available

Release ==
    /\ available' = available + 1
    /\ UNCHANGED taking

Next ==
    \/ \E t \in Threads : Begin(t) \/ Acquire(t) \/ GiveUp(t)
    \/ Release

Spec == available \in Nat /\ taking = {} /\ [][Next]_<<available, taking>>
=============================================================================
