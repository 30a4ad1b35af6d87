------------------------------ MODULE PriorityLock ------------------------------
(***************************************************************************)
(* What a recursive lock promises its users: one of them has it at a time,  *)
(* as often as it was granted, and releases it as often; it stays free only *)
(* while nobody waits; a user that gives it up with others waiting passes   *)
(* it to a most urgent one, and to nobody else in between.                  *)
(***************************************************************************)
EXTENDS Naturals

CONSTANTS Users,
          Urgency,     \* Urgency[u]: the smaller, the more urgent
          None         \* no user

VARIABLES holds,       \* how often each user has the lock
          heir,        \* the user it was passed to, which does not know yet
          waiting      \* the users that wait for it

vars == <<holds, heir, waiting>>

Free == heir = None /\ \A u \in Users : holds[u] = 0

Init ==
    /\ holds = [u \in Users |-> 0]
    /\ heir = None
    /\ waiting = {}

Acquire(u) ==
    /\ Free /\ waiting = {}
    /\ holds' = [holds EXCEPT ![u] = 1]
    /\ UNCHANGED <<heir, waiting>>

AcquireAgain(u) ==
    /\ holds[u] > 0
    /\ holds' = [holds EXCEPT ![u] = @ + 1]
    /\ UNCHANGED <<heir, waiting>>

Wait(u) ==
    /\ ~Free /\ holds[u] = 0 /\ heir # u /\ u \notin waiting
    /\ waiting' = waiting \cup {u}
    /\ UNCHANGED <<holds, heir>>

GiveUp(u) ==
    /\ u \in waiting
    /\ waiting' = waiting \ {u}
    /\ UNCHANGED <<holds, heir>>

ReleaseInner(u) ==
    /\ holds[u] > 1
    /\ holds' = [holds EXCEPT ![u] = @ - 1]
    /\ UNCHANGED <<heir, waiting>>

Release(u) ==
    /\ holds[u] = 1 /\ waiting = {}
    /\ holds' = [holds EXCEPT ![u] = 0]
    /\ UNCHANGED <<heir, waiting>>

PassTo(u, v) ==
    /\ holds[u] = 1 /\ v \in waiting
    /\ \A w \in waiting : Urgency[v] <= Urgency[w]
    /\ holds' = [holds EXCEPT ![u] = 0]
    /\ heir' = v
    /\ waiting' = waiting \ {v}

Inherit(u) ==
    /\ heir = u
    /\ holds' = [holds EXCEPT ![u] = 1]
    /\ heir' = None
    /\ UNCHANGED waiting

Next ==
    \E u \in Users :
        \/ Acquire(u) \/ AcquireAgain(u) \/ Wait(u) \/ GiveUp(u)
        \/ ReleaseInner(u) \/ Release(u) \/ Inherit(u)
        \/ \E v \in Users : PassTo(u, v)

Spec == Init /\ [][Next]_vars
=============================================================================
