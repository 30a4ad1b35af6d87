------------------------------- MODULE ThreadList -------------------------------
(***************************************************************************)
(* The lists that threads are linked in: rt_list_t, through thread->tlist,  *)
(* in the ready queues of the scheduler and in the suspend lists of the IPC *)
(* objects; through work->list the works of a work queue; and the timers of *)
(* the timer list.                                                          *)
(***************************************************************************)
EXTENDS Integers, SequencesExt

\* rt_list_remove(&thread->tlist), rt_list_remove(&work->list), rt_list_remove of a
\* timer's row: what is linked in the list leaves it.
Without(s, t) == IF t \in ToSet(s)
                 THEN RemoveAt(s, CHOOSE i \in DOMAIN s : s[i] = t)
                 ELSE s

\* The same for a table of lists: the thread leaves whichever list it is in.
Unlink(lists, t) == [l \in DOMAIN lists |-> Without(lists[l], t)]

\* Seeded fault: the priority is ignored.
PlaceLast(s, t, flag, prio) == Append(s, t)

\* _ipc_list_suspend's place in a list: the end for RT_IPC_FLAG_FIFO, before the
\* first thread that is strictly less urgent for RT_IPC_FLAG_PRIO.
Place(s, t, flag, prio) ==
    LET Later == {i \in DOMAIN s : prio[t] < prio[s[i]]}
    IN  IF flag = "FIFO" \/ Later = {} THEN Append(s, t)
        ELSE InsertAt(s, Min(Later), t)
=============================================================================
