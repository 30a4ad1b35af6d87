----------------------------- MODULE BoundedChannel -----------------------------
(***************************************************************************)
(* What a message queue promises its users: messages leave in the order in  *)
(* which they were put, urgent ones first; every message received was sent  *)
(* once, and is received once, with the content the sender passed.          *)
(***************************************************************************)
EXTENDS Sequences, Naturals

CONSTANTS Users, Msgs, NoMsg, Capacity

VARIABLES items,     \* the messages in the channel
          sending,   \* the message a user is sending
          taken,     \* the message a user has taken and not copied yet
          received   \* the message in the buffer of a user's receive

vars == <<items, sending, taken, received>>

Init ==
    /\ items = <<>>
    /\ sending = [u \in Users |-> NoMsg]
    /\ taken = [u \in Users |-> NoMsg]
    /\ received = [u \in Users |-> NoMsg]

Offer(u, m) ==
    /\ sending[u] = NoMsg
    /\ sending' = [sending EXCEPT ![u] = m]
    /\ UNCHANGED <<items, taken, received>>

GiveUp(u) ==
    /\ sending' = [sending EXCEPT ![u] = NoMsg]
    /\ UNCHANGED <<items, taken, received>>

Put(u) ==
    /\ sending[u] # NoMsg /\ Len(items) < Capacity
    /\ items' \in {Append(items, sending[u]), <<sending[u]>> \o items}
    /\ sending' = [sending EXCEPT ![u] = NoMsg]
    /\ UNCHANGED <<taken, received>>

Take(u) ==
    /\ items # <<>>
    /\ items' = Tail(items)
    /\ taken' = [taken EXCEPT ![u] = Head(items)]
    /\ UNCHANGED <<sending, received>>

Deliver(u) ==
    /\ taken[u] # NoMsg
    /\ received' = [received EXCEPT ![u] = taken[u]]
    /\ taken' = [taken EXCEPT ![u] = NoMsg]
    /\ UNCHANGED <<items, sending>>

Return(u) ==
    /\ received' = [received EXCEPT ![u] = NoMsg]
    /\ UNCHANGED <<items, sending, taken>>

Clear == items' = <<>> /\ UNCHANGED <<sending, taken, received>>

Next ==
    \/ Clear
    \/ \E u \in Users :
          \/ \E m \in Msgs : Offer(u, m)
          \/ GiveUp(u) \/ Put(u) \/ Take(u) \/ Deliver(u) \/ Return(u)

Spec == Init /\ [][Next]_vars
=============================================================================
