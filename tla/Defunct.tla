--------------------------------- MODULE Defunct ---------------------------------
(***************************************************************************)
(* How threads end (rt-thread/src/thread.c, idle.c): a thread with a stack  *)
(* of the heap closes itself, or is deleted, and puts itself on the list    *)
(* _rt_thread_defunct; the system thread takes it off the list and frees    *)
(* its stack and object.  The list is last in, first out, and system_sem    *)
(* counts the insertions.                                                   *)
(*                                                                         *)
(* A section with interrupts disabled is one step, but for rt_sem_release   *)
(* inside the section of _thread_exit: its rt_schedule leaves the stack of  *)
(* the thread for good.                                                     *)
(***************************************************************************)
EXTENDS Integers, SequencesExt

CONSTANTS Mortals,     \* the threads
          NoMortal,    \* RT_NULL
          HomeOf,      \* HomeOf[t]: the core that thread t runs on
          SysCore      \* the core that the system thread runs on

ASSUME DefunctAssumption == NoMortal \notin Mortals

VARIABLES dfAt,        \* where each thread is: "alive", in _thread_exit "listed" and
                       \* "posted", or "off" its stack
          dfList,      \* _rt_thread_defunct
          systemSem,   \* the value of system_sem
          sysAt,       \* where the system thread is: "take", "sleep", "loop" or "free"
          sysHand,     \* the thread that it frees
          dfFreed      \* history: the threads that have been freed

dfVars == <<dfAt, dfList, systemSem, sysAt, sysHand, dfFreed>>

DefunctInit ==
    /\ dfAt = [t \in Mortals |-> "alive"]
    /\ dfList = <<>> /\ systemSem = 1
    /\ sysAt = "take" /\ sysHand = NoMortal
    /\ dfFreed = {}

\* The core is not inside the section of a thread that exits.
CoreFree(core) == \A t \in Mortals : HomeOf[t] = core => dfAt[t] \notin {"listed", "posted"}

\* rt_sem_release(&system_sem): the system thread is woken, or the value counts.
PostSem ==
    IF sysAt = "sleep" THEN sysAt' = "loop" /\ UNCHANGED systemSem
    ELSE systemSem' = systemSem + 1 /\ UNCHANGED sysAt

\* rt_list_insert_after(&_rt_thread_defunct, &thread->tlist)
Enlist(t) == dfList' = <<t>> \o dfList

-----------------------------------------------------------------------------
(* _thread_exit *)

ExitEnlist(t) ==
    /\ dfAt[t] = "alive" /\ CoreFree(HomeOf[t])
    /\ Enlist(t)
    /\ dfAt' = [dfAt EXCEPT ![t] = "listed"]
    /\ UNCHANGED <<systemSem, sysAt, sysHand, dfFreed>>

ExitPost(t) ==
    /\ dfAt[t] = "listed"
    /\ PostSem
    /\ dfAt' = [dfAt EXCEPT ![t] = "posted"]
    /\ UNCHANGED <<dfList, sysHand, dfFreed>>

\* The rt_schedule of rt_sem_release, or the one behind it.
ExitSwitch(t) ==
    /\ dfAt[t] = "posted"
    /\ dfAt' = [dfAt EXCEPT ![t] = "off"]
    /\ UNCHANGED <<dfList, systemSem, sysAt, sysHand, dfFreed>>

\* rt_thread_delete of a thread that does not run; nobody else ends it.
DeleteMortal(t) ==
    /\ dfAt[t] = "alive" /\ CoreFree(HomeOf[t])
    /\ Enlist(t) /\ PostSem
    /\ dfAt' = [dfAt EXCEPT ![t] = "off"]
    /\ UNCHANGED <<sysHand, dfFreed>>

\* The stack and the object go back to the heap, rt_thread_create takes them again.
CreateMortal(t) ==
    /\ t \in dfFreed /\ dfAt[t] = "off" /\ CoreFree(HomeOf[t])
    /\ dfAt' = [dfAt EXCEPT ![t] = "alive"]
    /\ dfFreed' = dfFreed \ {t}
    /\ UNCHANGED <<dfList, systemSem, sysAt, sysHand>>

-----------------------------------------------------------------------------
(* rt_thread_system_entry *)

\* rt_sem_take(&system_sem, RT_WAITING_FOREVER)
SysTake ==
    /\ sysAt = "take" /\ CoreFree(SysCore)
    /\ IF systemSem > 0 THEN systemSem' = systemSem - 1 /\ sysAt' = "loop"
       ELSE sysAt' = "sleep" /\ UNCHANGED systemSem
    /\ UNCHANGED <<dfAt, dfList, sysHand, dfFreed>>

\* Seeded fault: the thread that is freed stays in the list.
DequeueKeeps ==
    /\ sysAt = "loop" /\ CoreFree(SysCore)
    /\ IF dfList = <<>> THEN sysAt' = "take" /\ UNCHANGED sysHand
       ELSE sysHand' = Head(dfList) /\ sysAt' = "free"
    /\ UNCHANGED <<dfAt, dfList, systemSem, dfFreed>>

\* One round of rt_defunct_execute: rt_thread_defunct_dequeue, then cleanup and free.
SysDequeue ==
    /\ sysAt = "loop" /\ CoreFree(SysCore)
    /\ IF dfList = <<>> THEN sysAt' = "take" /\ UNCHANGED <<dfList, sysHand>>
       ELSE sysHand' = Head(dfList) /\ dfList' = Tail(dfList) /\ sysAt' = "free"
    /\ UNCHANGED <<dfAt, systemSem, dfFreed>>

SysFree ==
    /\ sysAt = "free" /\ CoreFree(SysCore)
    /\ dfFreed' = dfFreed \cup {sysHand}
    /\ sysHand' = NoMortal /\ sysAt' = "loop"
    /\ UNCHANGED <<dfAt, dfList, systemSem>>

DefunctNext ==
    \/ \E t \in Mortals :
          ExitEnlist(t) \/ ExitPost(t) \/ ExitSwitch(t) \/ DeleteMortal(t) \/ CreateMortal(t)
    \/ SysTake \/ SysDequeue \/ SysFree

DefunctSpec == DefunctInit /\ [][DefunctNext]_dfVars

-----------------------------------------------------------------------------
(* Properties *)

DefunctTypeOK ==
    /\ dfAt \in [Mortals -> {"alive", "listed", "posted", "off"}]
    /\ dfList \in Seq(Mortals) /\ systemSem \in Nat
    /\ sysAt \in {"take", "sleep", "loop", "free"}
    /\ sysHand \in Mortals \cup {NoMortal}
    /\ dfFreed \subseteq Mortals

\* A thread that has ended is in one place: in the list once, with the system
\* thread, or freed; and while the system thread sleeps the list waits for nobody
\* but a thread that is about to post system_sem.
EndedOnce ==
    /\ IsInjective(dfList)
    /\ \A t \in Mortals :
          Cardinality({p \in {"list", "hand", "freed"} :
              CASE p = "list" -> t \in ToSet(dfList)
                [] p = "hand" -> t = sysHand
                [] p = "freed" -> t \in dfFreed}) = IF dfAt[t] = "alive" THEN 0 ELSE 1
    /\ sysAt = "sleep" /\ dfList # <<>> => \E t \in Mortals : dfAt[t] = "listed"

\* No stack is freed that a core still runs on.
StackLeft == \A t \in dfFreed \cup {sysHand} : t \in Mortals => dfAt[t] = "off"

\* The list of defunct threads loses nobody, frees nobody twice and nobody early.
DefunctServes == EndedOnce /\ StackLeft
=============================================================================
