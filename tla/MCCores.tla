-------------------------------- MODULE MCCores --------------------------------
(* What two cores do to each other.  "lock": the lock that all of them take,     *)
(* with threads t1 and t2 on core 0 and t3 on core 1.  "wake": the threads that  *)
(* each core makes ready on the other.  Core 0 has its idle thread and a, core 1 *)
(* its idle thread, b and d; one of a and d sleeps throughout.  The parts share  *)
(* no state: a behaviour uses one of them.                                       *)
EXTENDS SpinLock, CrossCore

CONSTANTS t1, t2, t3, i0, i1, a, b, d

MCThreads == {t1, t2, t3}
MCBind == [t \in MCThreads |-> IF t = t3 THEN 1 ELSE 0]

MCTasks == {i0, i1, a, b, d}
MCHome == [t \in MCTasks |-> IF t \in {i0, a} THEN 0 ELSE 1]
MCIdle == [c \in {0, 1} |-> IF c = 0 THEN i0 ELSE i1]
MCUrgency == [t \in MCTasks |-> IF t \in {i0, i1} THEN 3 ELSE IF t = d THEN 2 ELSE 1]

VARIABLES part,        \* the part in use
          sleeper      \* the thread that nobody resumes

allVars == <<vars, crossVars, part, sleeper>>

MCInit ==
    /\ Init /\ CrossInit
    /\ part \in {"lock", "wake"} /\ sleeper \in IF part = "lock" THEN {a} ELSE {a, d}

MCNext ==
    /\ \/ part = "lock" /\ Next /\ UNCHANGED crossVars
       \/ /\ part = "wake" /\ CrossNext /\ UNCHANGED vars
          /\ \A c \in Cores : task'[c] # sleeper
    /\ UNCHANGED <<part, sleeper>>

MCSpec == MCInit /\ [][MCNext]_allVars
=============================================================================
