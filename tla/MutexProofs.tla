------------------------------ MODULE MutexProofs ------------------------------
(***************************************************************************)
(* Proofs about module Mutex, for every set of threads, cores and mutexes,  *)
(* every binding and all priorities, under the condition Exclusive.         *)
(***************************************************************************)
EXTENDS Mutex, IpcObjectProofs

\* Nobody waits with a timeout, or all threads share one core: the timeout of a
\* waiting thread then never runs between the steps of rt_mutex_release.
Exclusive == "timed" \notin Waits \/ \A c, d \in Cpus : c = d

InSection == {"take", "release", "resume", "wake"}

\* The thread inside an operation's section is the one that disabled its core's
\* interrupts.
Sections ==
    /\ \A t \in Threads : pc[t] \in InSection <=> irqoff[Bind[t]] = t
    /\ \A c \in Cpus : irqoff[c] # Nobody => Bind[irqoff[c]] = c

\* A timeout is pending or being handled only for a suspended thread, and being
\* handled only while the core runs no section.
Timers ==
    /\ \A t \in Threads : wait[t] = "timed" => "timed" \in Waits
    /\ \A t \in Threads : timer[t] => "timed" \in Waits /\ stat[t] = "SUSPEND"
    /\ \A c \in Cpus : expired[c] # Nobody =>
          /\ "timed" \in Waits /\ irqoff[c] = Nobody
          /\ stat[expired[c]] = "SUSPEND" /\ ~timer[expired[c]]

\* The suspended threads are those in the list of the mutex they asked for.
Waiting ==
    /\ \A t \in Threads : stat[t] = "SUSPEND" =>
          pc[t] = "wait" /\ error[t] = "EOK" /\ t \in ToSet(queue[obj[t]])
    /\ \A m \in Mutexes, t \in Threads :
          t \in ToSet(queue[m]) => stat[t] = "SUSPEND" /\ obj[t] = m
    /\ \A m \in Mutexes : IsInjective(queue[m])

\* What a waiting thread knows of the mutex it asked for.
Asking ==
    \A t \in Threads : pc[t] = "wait" =>
        /\ taken[t][obj[t]] = 0
        /\ stat[t] = "RUN" /\ error[t] = "EOK" => owner[obj[t]] = t

\* A free mutex is not held; outside the steps of a release no owner waits.
Owners ==
    \A m \in Mutexes :
        /\ owner[m] = Nobody => hold[m] = 0
        /\ spin[m] = Nobody => owner[m] \notin ToSet(queue[m])

\* Between ReleaseHandOver and ResumeWake the new owner is still first in the list.
Handing ==
    /\ \A m \in Mutexes : spin[m] # Nobody =>
          pc[spin[m]] \in {"resume", "wake"} /\ obj[spin[m]] = m
    /\ \A t \in Threads : pc[t] \in {"resume", "wake"} =>
          /\ spin[obj[t]] = t /\ queue[obj[t]] # <<>>
          /\ owner[obj[t]] = Head(queue[obj[t]])
          /\ pc[t] = "wake" => target[t] = owner[obj[t]]

IInv ==
    /\ TypeOK
    /\ Sections /\ Timers /\ Waiting
    /\ OwnerHolds /\ WaitersHaveOwner /\ Asking /\ Owners /\ Handing

-----------------------------------------------------------------------------
(* Initial states and types *)

\* Initially every mutex is free and every thread idle.
LEMMA InitInv == Init => IInv
<1> SUFFICES ASSUME Init PROVE IInv
  OBVIOUS
<1> USE IpcAssumption, MutexAssumption DEF Init, IpcInit, Mutexes
<1>1. TypeOK
  BY DEF TypeOK, IpcTypeOK, Errors, Labels
<1>2. Sections /\ Timers
  BY DEF Sections, Timers, InSection
<1>3. Waiting
  <2>1. ToSet(<<>>) = {} /\ IsInjective(<<>>)
    BY DEF ToSet, IsInjective
  <2> QED
    BY <2>1 DEF Waiting
<1>4. OwnerHolds /\ WaitersHaveOwner /\ Asking
  BY DEF OwnerHolds, WaitersHaveOwner, Asking
<1>5. Owners /\ Handing
  <2>1. ToSet(<<>>) = {}
    BY DEF ToSet
  <2> QED
    BY <2>1 DEF Owners, Handing
<1> QED
  BY <1>1, <1>2, <1>3, <1>4, <1>5 DEF IInv

-----------------------------------------------------------------------------
(* The lists after a step *)

\* What WakeUp and ThreadTimeout leave of the lists.
LEMMA QueueUnlinked ==
    ASSUME TypeOK, Waiting, NEW t, queue' = Unlink(queue, t)
    PROVE  /\ queue' \in [Mutexes -> Seq(Threads)]
           /\ \A m \in Mutexes : /\ ToSet(queue'[m]) = ToSet(queue[m]) \ {t}
                                 /\ IsInjective(queue'[m])
<1>1. queue \in [Lists -> Seq(Threads)] /\ \A l \in Lists : IsInjective(queue[l])
  BY DEF TypeOK, IpcTypeOK, Waiting, Mutexes
<1>2. /\ queue' \in [Lists -> Seq(Threads)]
      /\ \A l \in Lists : /\ ToSet(queue'[l]) = ToSet(queue[l]) \ {t}
                          /\ IsInjective(queue'[l])
  BY ONLY <1>1, queue' = Unlink(queue, t), UnlinkProperties
<1> QED
  BY <1>2 DEF Mutexes

\* What TakeWaits makes of the lists.
LEMMA QueueSuspended ==
    ASSUME TypeOK, Waiting, NEW t \in Threads, NEW m \in Mutexes, stat[t] = "RUN",
           TakeWaits(t, m)
    PROVE  /\ queue' \in [Mutexes -> Seq(Threads)]
           /\ \A n \in Mutexes :
                 /\ ToSet(queue'[n]) = IF n = m THEN ToSet(queue[n]) \cup {t}
                                       ELSE ToSet(queue[n])
                 /\ IsInjective(queue'[n])
<1> DEFINE u == Unlink(queue, t)
           p == Place(u[m], t, "PRIO", prio)
<1>1. /\ queue \in [Lists -> Seq(Threads)] /\ m \in Lists
      /\ \A l \in Lists : IsInjective(queue[l])
      /\ \A l \in Lists : t \notin ToSet(queue[l])
  BY DEF TypeOK, IpcTypeOK, Waiting, Mutexes
<1>2. /\ u \in [Lists -> Seq(Threads)]
      /\ \A l \in Lists : ToSet(u[l]) = ToSet(queue[l]) \ {t} /\ IsInjective(u[l])
  BY ONLY <1>1, UnlinkProperties
<1>3. queue' = [u EXCEPT ![m] = p]
  BY DEF TakeWaits, ListSuspend
<1>4. \A l \in Lists : ToSet(u[l]) = ToSet(queue[l])
  BY ONLY <1>1, <1>2
<1> HIDE DEF u
<1>5. p \in Seq(Threads) /\ ToSet(p) = ToSet(u[m]) \cup {t} /\ IsInjective(p)
  BY <1>1, <1>2, <1>4, PlaceProperties
<1> HIDE DEF p
<1> QED
  BY ONLY <1>1, <1>2, <1>3, <1>4, <1>5 DEF Mutexes

-----------------------------------------------------------------------------
(* Types *)

LEMMA CountedProperties ==
    ASSUME taken \in [Threads -> [Mutexes -> Int]],
           NEW t \in Threads, NEW m \in Mutexes, NEW n \in Int, Counted(t, m, n)
    PROVE  /\ taken' \in [Threads -> [Mutexes -> Int]]
           /\ \A u \in Threads, l \in Mutexes : taken'[u][l] =
                 IF u = t /\ l = m THEN taken[t][m] + n ELSE taken[u][l]
<1>1. taken' = [taken EXCEPT ![t] = [taken[t] EXCEPT ![m] = taken[t][m] + n]]
  BY DEF Counted
<1>2. [taken[t] EXCEPT ![m] = taken[t][m] + n] \in [Mutexes -> Int]
  OBVIOUS
<1> QED
  BY <1>1, <1>2

LEMMA TypeTake ==
    ASSUME IInv, NEW t \in Threads, TakeSection(t) PROVE TypeOK'
<1> DEFINE m == obj[t]
<1> USE IpcAssumption, MutexAssumption
    DEF IInv, TypeOK, IpcTypeOK, Errors, Labels, TakeSection, EnableIrq, Goto
<1>1. /\ m \in Mutexes /\ stat[t] = "RUN" /\ 1 \in Int
      /\ taken \in [Threads -> [Mutexes -> Int]]
  BY DEF Waiting
<1>2. CASE TakeAgain(t, m)
  <2>1. CASE hold[m] < HoldMax
    <3>1. taken' \in [Threads -> [Mutexes -> Int]]
      BY <1>1, <1>2, <2>1, CountedProperties DEF TakeAgain
    <3>2. hold' \in [Mutexes -> 0..HoldMax]
      <4>1. hold[m] + 1 \in 0..HoldMax
        BY <1>1, <2>1
      <4>2. hold' = [hold EXCEPT ![m] = hold[m] + 1]
        BY <1>2, <2>1 DEF TakeAgain
      <4>3. hold \in [Mutexes -> 0..HoldMax]
        BY <1>1
      <4> QED
        BY ONLY <1>1, <4>1, <4>2, <4>3
    <3> QED
      BY <1>1, <1>2, <2>1, <3>1, <3>2 DEF TakeAgain
  <2>2. CASE ~(hold[m] < HoldMax)
    BY <1>1, <1>2, <2>2 DEF TakeAgain
  <2> QED
    BY <2>1, <2>2
<1>3. CASE TakeFree(t, m)
  <2>1. taken' \in [Threads -> [Mutexes -> Int]]
    BY <1>1, <1>3, CountedProperties DEF TakeFree
  <2>2. hold[m] = 0 /\ value[m] = 1
    BY <1>1, <1>3 DEF TakeFree, WaitersHaveOwner, Owners
  <2>3. hold' \in [Mutexes -> 0..HoldMax]
    BY <1>1, <1>3, <2>2 DEF TakeFree
  <2>4. value' \in [Mutexes -> {0, 1}]
    BY <1>1, <1>3, <2>2 DEF TakeFree
  <2> QED
    BY <1>1, <1>3, <2>1, <2>3, <2>4 DEF TakeFree
<1>4. CASE TakeFails(t, m)
  BY <1>1, <1>4 DEF TakeFails
<1>5. CASE TakeWaits(t, m)
  <2>1. queue' \in [Lists -> Seq(Threads)]
    BY <1>1, <1>5, QueueSuspended DEF Mutexes
  <2>2. owner[m] \in Threads
    BY <1>1, <1>5 DEF TakeWaits, WaitersHaveOwner
  <2>3. prio' \in [Threads -> 0..NoPrio]
    BY <1>1, <1>5, <2>2 DEF TakeWaits, Inherit
  <2> QED
    BY <1>1, <1>5, <2>1, <2>3 DEF TakeWaits, ListSuspend
<1> QED
  BY <1>2, <1>3, <1>4, <1>5

LEMMA TypeRelease ==
    ASSUME IInv, NEW t \in Threads, ReleaseSection(t) PROVE TypeOK'
<1> DEFINE m == obj[t]
<1> USE IpcAssumption, MutexAssumption
    DEF IInv, TypeOK, IpcTypeOK, Errors, Labels, ReleaseSection, EnableIrq, Goto,
        Restore
<1>1. /\ m \in Mutexes /\ -1 \in Int
      /\ taken \in [Threads -> [Mutexes -> Int]]
  OBVIOUS
<1>2. CASE ReleaseRefused(t, m)
  BY <1>1, <1>2 DEF ReleaseRefused
<1>3. CASE ReleaseInner(t, m)
  <2>1. taken' \in [Threads -> [Mutexes -> Int]]
    BY <1>1, <1>3, CountedProperties DEF ReleaseInner
  <2>2. hold' \in [Mutexes -> 0..HoldMax]
    BY <1>1, <1>3 DEF ReleaseInner
  <2> QED
    BY <1>1, <1>3, <2>1, <2>2 DEF ReleaseInner
<1>4. CASE ReleaseFree(t, m)
  <2>1. taken' \in [Threads -> [Mutexes -> Int]]
    BY <1>1, <1>4, CountedProperties DEF ReleaseFree
  <2>2. value[m] = 0
    BY <1>1, <1>4 DEF ReleaseFree, WaitersHaveOwner
  <2>3. hold' \in [Mutexes -> 0..HoldMax] /\ value' \in [Mutexes -> {0, 1}]
    BY <1>1, <1>4, <2>2 DEF ReleaseFree
  <2>4. NoPrio \in 0..NoPrio /\ original[m] \in 0..NoPrio
    BY <1>1
  <2> QED
    BY <1>1, <1>4, <2>1, <2>3, <2>4 DEF ReleaseFree
<1>5. CASE ReleaseHandOver(t, m)
  <2>1. Head(queue[m]) \in Threads
    BY <1>1, <1>5, HeadProperties DEF ReleaseHandOver, Mutexes
  <2>2. taken' \in [Threads -> [Mutexes -> Int]]
    BY <1>1, <1>5, CountedProperties DEF ReleaseHandOver
  <2> QED
    BY <1>1, <1>5, <2>1, <2>2 DEF ReleaseHandOver
<1> QED
  BY <1>2, <1>3, <1>4, <1>5

LEMMA TypeStep == IInv /\ [Next]_vars => TypeOK'
<1> SUFFICES ASSUME IInv, [Next]_vars PROVE TypeOK'
  OBVIOUS
<1> USE IpcAssumption, MutexAssumption
    DEF IInv, TypeOK, IpcTypeOK, Errors, Labels, Goto
<1>1. ASSUME NEW t \in Threads, NEW m \in Mutexes, ReleaseCall(t, m) PROVE TypeOK'
  BY <1>1 DEF ReleaseCall, DisableIrq
<1>2. ASSUME NEW t \in Threads, NEW m \in Mutexes, NEW time \in Waits, TakeCall(t, m, time)
      PROVE  TypeOK'
  BY <1>2 DEF TakeCall, DisableIrq
<1>3. ASSUME NEW t \in Threads, TakeReturn(t) PROVE TypeOK'
  <2>1. taken' \in [Threads -> [Mutexes -> Int]]
    <3>1. obj[t] \in Mutexes /\ 1 \in Int /\ taken \in [Threads -> [Mutexes -> Int]]
      OBVIOUS
    <3> QED
      BY <1>3, <3>1, CountedProperties DEF TakeReturn
  <2> QED
    BY <1>3, <2>1 DEF TakeReturn, ipcVars
<1>4. ASSUME NEW t \in Threads, ResumeTest(t) PROVE TypeOK'
  <2>1. PICK h \in Threads : h = Head(queue[obj[t]]) /\ stat[h] = "SUSPEND"
    <3>1. /\ Head(queue[obj[t]]) \in Threads
          /\ Head(queue[obj[t]]) \in ToSet(queue[obj[t]])
      BY <1>4, HeadProperties DEF ResumeTest, Mutexes
    <3> QED
      BY <3>1 DEF Waiting
  <2>2. /\ target' = [target EXCEPT ![t] = h] /\ pc' = [pc EXCEPT ![t] = "wake"]
        /\ UNCHANGED <<irqoff, spin, stat, error, timer, queue, expired,
                       value, owner, hold, original, prio, obj, wait, taken>>
    BY <1>4, <2>1 DEF ResumeTest
  <2> QED
    BY <2>2
<1>5. ASSUME NEW t \in Threads, ResumeWake(t) PROVE TypeOK'
  <2>1. queue' \in [Lists -> Seq(Threads)]
    BY <1>5, QueueUnlinked DEF ResumeWake, WakeUp, Mutexes
  <2> QED
    BY <1>5, <2>1 DEF ResumeWake, WakeUp, Leave, EnableIrq
<1>6. ASSUME NEW t \in Threads, NEW c \in Cpus, TimerExpires(c, t), UNCHANGED mutexVars
      PROVE  TypeOK'
  BY <1>6 DEF TimerExpires, mutexVars
<1>7. ASSUME NEW t \in Threads, NEW c \in Cpus, ThreadTimeout(c, t), UNCHANGED mutexVars
      PROVE  TypeOK'
  <2>1. queue' \in [Lists -> Seq(Threads)]
    BY <1>7, QueueUnlinked DEF ThreadTimeout, Mutexes
  <2> QED
    BY <1>7, <2>1 DEF ThreadTimeout, mutexVars
<1>8. CASE UNCHANGED vars
  BY <1>8 DEF vars, ipcVars, mutexVars
<1> QED
  BY <1>1, <1>2, <1>3, <1>4, <1>5, <1>6, <1>7, <1>8, TypeTake, TypeRelease
     DEF Next, ThreadStep, Timeout

-----------------------------------------------------------------------------
(* The steps *)

\* The parts of IInv beside the types.
Rest == /\ Sections /\ Timers /\ Waiting
        /\ OwnerHolds /\ WaitersHaveOwner /\ Asking /\ Owners /\ Handing

\* While a core handles a timeout no thread is in a section.
LEMMA TimeoutAlone ==
    ASSUME IInv, Exclusive, NEW c \in Cpus, expired[c] # Nobody
    PROVE  (\A t \in Threads : pc[t] \notin InSection) /\ (\A d \in Cpus : d = c)
<1>1. irqoff[c] = Nobody /\ \A d \in Cpus : d = c
  BY DEF IInv, Timers, Exclusive
<1> QED
  BY <1>1, IpcAssumption DEF IInv, Sections, TypeOK, IpcTypeOK

\* Entering an operation only disables the core's interrupts.
LEMMA CallStep ==
    ASSUME IInv, NEW t \in Threads, NEW m \in Mutexes,
           ReleaseCall(t, m) \/ \E time \in Waits : TakeCall(t, m, time)
    PROVE  Rest'
<1> USE IpcAssumption DEF IInv, TypeOK, IpcTypeOK, Goto, DisableIrq
<1>1. /\ pc[t] = "idle" /\ OnCpu(t) /\ irqoff' = [irqoff EXCEPT ![Bind[t]] = t]
      /\ pc' \in {[pc EXCEPT ![t] = "release"], [pc EXCEPT ![t] = "take"]}
      /\ obj' = [obj EXCEPT ![t] = m]
      /\ UNCHANGED <<stat, error, timer, queue, expired,
                     value, owner, hold, original, spin, prio, target, taken>>
  BY DEF ReleaseCall, TakeCall
<1>2. \A u \in Threads : wait'[u] = "timed" => "timed" \in Waits
  <2>1. CASE ReleaseCall(t, m)
    BY <2>1 DEF ReleaseCall, Timers
  <2>2. CASE \E time \in Waits : TakeCall(t, m, time)
    BY <2>2 DEF TakeCall, Timers
  <2> QED
    BY <2>1, <2>2
<1>3. Sections'
  BY SMTT(30), <1>1 DEF Sections, InSection, OnCpu
<1>4. Timers'
  BY <1>1, <1>2 DEF Timers, OnCpu
<1>5. Waiting'
  BY <1>1 DEF Waiting
<1>6. OwnerHolds' /\ WaitersHaveOwner' /\ Owners'
  BY SMTT(30), <1>1 DEF OwnerHolds, WillSucceed, WaitersHaveOwner, Owners
<1>7. Asking'
  BY <1>1 DEF Asking
<1>8. Handing'
  <2>1. /\ \A u \in Threads : u # t => pc'[u] = pc[u] /\ obj'[u] = obj[u]
        /\ pc'[t] \notin {"resume", "wake"} /\ pc[t] \notin {"resume", "wake"}
    BY <1>1
  <2>2. \A n \in Mutexes : spin[n] # Nobody => spin[n] \in Threads \ {t}
    BY <2>1 DEF Handing
  <2> QED
    BY SMTT(30), <1>1, <2>1, <2>2 DEF Handing
<1> QED
  BY <1>3, <1>4, <1>5, <1>6, <1>7, <1>8 DEF Rest

\* A successful take without waiting: the caller is or becomes the owner.
LEMMA TakeOwnsStep ==
    ASSUME IInv, NEW t \in Threads, TakeSection(t),
           TakeAgain(t, obj[t]) \/ TakeFree(t, obj[t])
    PROVE  Rest'
<1> DEFINE m == obj[t]
<1> USE IpcAssumption DEF IInv, TypeOK, IpcTypeOK, Goto, EnableIrq
<1>1. /\ m \in Mutexes /\ pc[t] = "take" /\ spin[m] = Nobody /\ OnCpu(t)
      /\ irqoff' = [irqoff EXCEPT ![Bind[t]] = Nobody]
      /\ pc' = [pc EXCEPT ![t] = "idle"] /\ error' = [error EXCEPT ![t] = "EOK"]
      /\ wait' = [wait EXCEPT ![t] = "no"]
      /\ UNCHANGED <<stat, timer, queue, expired, spin, obj, target>>
  BY DEF TakeSection, TakeAgain, TakeFree
<1>2. stat[t] = "RUN"
  BY <1>1 DEF Waiting
<1>3. Sections'
  BY <1>1 DEF Sections, InSection, OnCpu
<1>4. Timers'
  BY <1>1 DEF Timers, OnCpu
<1>5. Waiting'
  BY <1>1, <1>2 DEF Waiting
<1>6. Handing'
  <2>1. \A n \in Mutexes : n # m => owner'[n] = owner[n]
    BY <1>1 DEF TakeAgain, TakeFree
  <2> QED
    BY <1>1, <2>1 DEF Handing
<1>7. OwnerHolds' /\ WaitersHaveOwner' /\ Asking' /\ Owners'
  <2>1. CASE TakeAgain(t, m)
    <3>1. owner[m] = t /\ UNCHANGED <<owner, value>>
      BY <2>1 DEF TakeAgain
    <3>2. taken[t][m] > 0 /\ hold[m] = taken[t][m]
      BY <1>1, <3>1 DEF OwnerHolds, WillSucceed
    <3>3. /\ \A n \in Mutexes : n # m => hold'[n] = hold[n]
          /\ \A u \in Threads, n \in Mutexes : u # t \/ n # m => taken'[u][n] = taken[u][n]
          /\ taken'[t][m] > 0 /\ hold'[m] = taken'[t][m]
      <4>1. CASE hold[m] < HoldMax
        <5>1. \A u \in Threads, n \in Mutexes : taken'[u][n] =
                    IF u = t /\ n = m THEN taken[t][m] + 1 ELSE taken[u][n]
          <6>1. /\ Counted(t, m, 1) /\ 1 \in Int /\ m \in Mutexes
                /\ taken \in [Threads -> [Mutexes -> Int]]
            BY <1>1, <2>1, <4>1 DEF TakeAgain
          <6> HIDE DEF m
          <6> QED
            BY ONLY <6>1, t \in Threads, CountedProperties
        <5>2. hold' = [hold EXCEPT ![m] = hold[m] + 1]
          BY <2>1, <4>1 DEF TakeAgain
        <5> QED
          BY <1>1, <3>2, <5>1, <5>2
      <4>2. CASE ~(hold[m] < HoldMax)
        BY <1>1, <2>1, <3>2, <4>2 DEF TakeAgain
      <4> QED
        BY <4>1, <4>2
    <3>4. OwnerHolds'
      BY <1>1, <3>1, <3>3 DEF OwnerHolds, WillSucceed
    <3>5. WaitersHaveOwner'
      BY <1>1, <3>1 DEF WaitersHaveOwner
    <3>6. Asking'
      BY <1>1, <3>1, <3>3 DEF Asking
    <3>7. Owners'
      BY <1>1, <3>1, <3>3 DEF Owners
    <3> QED
      BY <3>4, <3>5, <3>6, <3>7
  <2>2. CASE TakeFree(t, m)
    <3>1. owner[m] = Nobody /\ hold[m] = 0 /\ value[m] = 1 /\ queue[m] = <<>>
      BY <1>1, <2>2 DEF TakeFree, WaitersHaveOwner, Owners
    <3>2. /\ owner' = [owner EXCEPT ![m] = t] /\ hold' = [hold EXCEPT ![m] = 1]
          /\ value' = [value EXCEPT ![m] = 0]
      BY <1>1, <2>2, <3>1 DEF TakeFree
    <3>3. taken[t][m] = 0
      BY <1>1, <3>1 DEF OwnerHolds
    <3>4. \A u \in Threads, n \in Mutexes : taken'[u][n] =
              IF u = t /\ n = m THEN 1 ELSE taken[u][n]
      <4>1. /\ Counted(t, m, 1) /\ 1 \in Int /\ m \in Mutexes
            /\ taken \in [Threads -> [Mutexes -> Int]]
        BY <1>1, <2>2 DEF TakeFree
      <4>2. \A u \in Threads, n \in Mutexes : taken'[u][n] =
                IF u = t /\ n = m THEN taken[t][m] + 1 ELSE taken[u][n]
        <5> HIDE DEF m
        <5> QED
          BY ONLY <4>1, t \in Threads, CountedProperties
      <4> QED
        BY <3>3, <4>2
    <3>5. OwnerHolds'
      BY <1>1, <3>1, <3>2, <3>3, <3>4 DEF OwnerHolds, WillSucceed
    <3>6. WaitersHaveOwner'
      BY <1>1, <3>1, <3>2 DEF WaitersHaveOwner
    <3>7. Asking'
      BY <1>1, <3>1, <3>2, <3>4 DEF Asking
    <3>8. Owners'
      BY <1>1, <1>2, <3>1, <3>2 DEF Owners, Waiting
    <3> QED
      BY <3>5, <3>6, <3>7, <3>8
  <2> QED
    BY <2>1, <2>2
<1> QED
  BY <1>3, <1>4, <1>5, <1>6, <1>7 DEF Rest

\* A failed take without waiting changes nothing but error.
LEMMA TakeFailsStep ==
    ASSUME IInv, NEW t \in Threads, TakeSection(t), TakeFails(t, obj[t])
    PROVE  Rest'
<1> USE IpcAssumption DEF IInv, TypeOK, IpcTypeOK, Goto, EnableIrq
<1>1. /\ pc[t] = "take" /\ OnCpu(t)
      /\ irqoff' = [irqoff EXCEPT ![Bind[t]] = Nobody]
      /\ pc' = [pc EXCEPT ![t] = "idle"] /\ error' = [error EXCEPT ![t] = "ETIMEOUT"]
      /\ wait' = [wait EXCEPT ![t] = "no"]
      /\ UNCHANGED <<stat, timer, queue, expired, spin, obj, target,
                     value, owner, hold, taken>>
  BY DEF TakeSection, TakeFails
<1>2. stat[t] = "RUN"
  BY <1>1 DEF Waiting
<1>3. Sections'
  BY <1>1 DEF Sections, InSection, OnCpu
<1>4. Timers'
  BY <1>1 DEF Timers, OnCpu
<1>5. Waiting'
  BY <1>1, <1>2 DEF Waiting
<1>6. OwnerHolds' /\ WaitersHaveOwner' /\ Owners'
  BY <1>1 DEF OwnerHolds, WillSucceed, WaitersHaveOwner, Owners
<1>7. Asking'
  BY <1>1 DEF Asking
<1>8. Handing'
  BY <1>1 DEF Handing
<1> QED
  BY <1>3, <1>4, <1>5, <1>6, <1>7, <1>8 DEF Rest

\* A thread joins the waiters: the mutex has an owner, who is not the thread.
LEMMA TakeWaitsStep ==
    ASSUME IInv, NEW t \in Threads, TakeSection(t), TakeWaits(t, obj[t])
    PROVE  Rest'
<1> DEFINE m == obj[t]
<1> USE IpcAssumption DEF IInv, TypeOK, IpcTypeOK, Goto, EnableIrq
<1>1. /\ m \in Mutexes /\ pc[t] = "take" /\ spin[m] = Nobody /\ OnCpu(t)
      /\ owner[m] # t /\ value[m] = 0
      /\ irqoff' = [irqoff EXCEPT ![Bind[t]] = Nobody]
      /\ pc' = [pc EXCEPT ![t] = "wait"] /\ error' = [error EXCEPT ![t] = "EOK"]
      /\ stat' = [stat EXCEPT ![t] = "SUSPEND"]
      /\ timer' = [timer EXCEPT ![t] = (wait[t] = "timed")]
      /\ wait' = [wait EXCEPT ![t] = "no"]
      /\ UNCHANGED <<expired, spin, obj, target, value, owner, hold, taken>>
  BY DEF TakeSection, TakeWaits, ListSuspend
<1>2. stat[t] = "RUN"
  BY <1>1 DEF Waiting
<1>3. \A n \in Mutexes :
         /\ \A u : u \in ToSet(queue'[n]) <=> u \in ToSet(queue[n]) \/ (n = m /\ u = t)
         /\ IsInjective(queue'[n])
  <2>1. \A n \in Mutexes :
           /\ ToSet(queue'[n]) = IF n = m THEN ToSet(queue[n]) \cup {t} ELSE ToSet(queue[n])
           /\ IsInjective(queue'[n])
    BY <1>1, <1>2, QueueSuspended
  <2> QED
    BY ONLY <2>1
<1>4. \A n \in Mutexes : n # m => queue'[n] = queue[n]
  <2>1. queue' = [Unlink(queue, t) EXCEPT ![m] = Place(@, t, "PRIO", prio)]
    BY DEF TakeWaits, ListSuspend
  <2>2. \A n \in Mutexes : t \notin ToSet(queue[n])
    BY <1>2 DEF Waiting
  <2>3. \A n \in Mutexes : n # m => queue'[n] = Without(queue[n], t)
    BY <2>1 DEF Unlink, Mutexes
  <2> QED
    BY <2>2, <2>3 DEF Without
<1>5. Sections'
  BY <1>1 DEF Sections, InSection, OnCpu
<1>6. Timers'
  <2>1. \A c \in Cpus : expired[c] # Nobody => expired[c] # t
    BY <1>2 DEF Timers
  <2> QED
    BY <1>1, <2>1 DEF Timers, OnCpu
<1>14. /\ stat'[t] = "SUSPEND" /\ error'[t] = "EOK" /\ pc'[t] = "wait" /\ obj' = obj
       /\ \A u \in Threads : u # t =>
             stat'[u] = stat[u] /\ error'[u] = error[u] /\ pc'[u] = pc[u]
  BY <1>1
<1>7. Waiting'
  <2>1. ASSUME NEW u \in Threads, stat'[u] = "SUSPEND"
        PROVE  pc'[u] = "wait" /\ error'[u] = "EOK" /\ u \in ToSet(queue'[obj'[u]])
    <3>1. CASE u = t
      BY <1>3, <1>14, <3>1
    <3>2. CASE u # t
      <4>1. stat[u] = "SUSPEND"
        BY <1>14, <2>1, <3>2
      <4>2. pc[u] = "wait" /\ error[u] = "EOK" /\ u \in ToSet(queue[obj[u]])
        BY <4>1 DEF Waiting
      <4>3. obj[u] \in Mutexes
        OBVIOUS
      <4> QED
        BY <1>3, <1>14, <3>2, <4>2, <4>3
    <3> QED
      BY <3>1, <3>2
  <2>2. ASSUME NEW n \in Mutexes, NEW u \in Threads, u \in ToSet(queue'[n])
        PROVE  stat'[u] = "SUSPEND" /\ obj'[u] = n
    <3>1. CASE u = t
      BY <1>2, <1>3, <1>14, <2>2, <3>1 DEF Waiting
    <3>2. CASE u # t
      <4>1. u \in ToSet(queue[n])
        BY ONLY <1>3, <2>2, <3>2, n \in Mutexes
      <4>2. stat[u] = "SUSPEND" /\ obj[u] = n
        BY <4>1 DEF Waiting
      <4> QED
        BY <1>14, <3>2, <4>2
    <3> QED
      BY <3>1, <3>2
  <2> QED
    BY <1>3, <2>1, <2>2 DEF Waiting
<1>8. owner[m] \in Threads \ {t} /\ taken[t][m] = 0
  BY <1>1 DEF WaitersHaveOwner, OwnerHolds
<1>9. OwnerHolds'
  <2>1. ASSUME NEW n \in Mutexes, NEW u \in Threads, owner[n] = u
        PROVE  \/ taken[u][n] > 0 /\ hold[n] = taken[u][n]
               \/ taken[u][n] = 0 /\ hold[n] = 1 /\ u # t /\ WillSucceed(u, n)
    BY <1>1, <2>1 DEF OwnerHolds, WillSucceed
  <2>2. \A u \in Threads \ {t}, n \in Mutexes : WillSucceed(u, n) => WillSucceed(u, n)'
    BY <1>1 DEF WillSucceed
  <2> QED
    BY <1>1, <2>1, <2>2 DEF OwnerHolds
<1>10. WaitersHaveOwner'
  BY <1>1, <1>4, <1>8 DEF WaitersHaveOwner
<1>11. Asking'
  BY <1>1, <1>8 DEF Asking
<1>12. Owners'
  BY <1>1, <1>3, <1>8 DEF Owners
<1>13. Handing'
  <2>1. \A u \in Threads : pc[u] \in {"resume", "wake"} => u # t /\ obj[u] # m
    BY <1>1 DEF Handing
  <2>2. \A u \in Threads : pc'[u] \in {"resume", "wake"} <=> pc[u] \in {"resume", "wake"}
    BY <1>1
  <2>3. \A u \in Threads : u # t => pc'[u] = pc[u]
    BY <1>1
  <2> QED
    <3>1. UNCHANGED <<spin, obj, owner, target>>
      BY <1>1
    <3>2. ASSUME NEW n \in Mutexes, spin[n] # Nobody
          PROVE  pc'[spin[n]] \in {"resume", "wake"} /\ obj[spin[n]] = n
      BY <2>2, <3>2 DEF Handing
    <3>3. ASSUME NEW u \in Threads, pc'[u] \in {"resume", "wake"}
          PROVE  /\ spin[obj[u]] = u /\ queue'[obj[u]] # <<>>
                 /\ owner[obj[u]] = Head(queue'[obj[u]])
                 /\ pc'[u] = "wake" => target[u] = owner[obj[u]]
      <4>1. queue'[obj[u]] = queue[obj[u]]
        BY <1>4, <2>1, <2>2, <3>3
      <4> QED
        <5>1. pc[u] \in {"resume", "wake"} /\ pc'[u] = pc[u]
          BY <2>1, <2>2, <2>3, <3>3
        <5>2. /\ spin[obj[u]] = u /\ queue[obj[u]] # <<>>
              /\ owner[obj[u]] = Head(queue[obj[u]])
              /\ pc[u] = "wake" => target[u] = owner[obj[u]]
          BY <5>1 DEF Handing
        <5> QED
          BY <4>1, <5>1, <5>2
    <3> QED
      BY <3>1, <3>2, <3>3 DEF Handing
<1> QED
  BY <1>5, <1>6, <1>7, <1>9, <1>10, <1>11, <1>12, <1>13 DEF Rest

\* A waiting thread learns whether it owns the mutex.
LEMMA TakeReturnStep ==
    ASSUME IInv, NEW t \in Threads, TakeReturn(t) PROVE Rest'
<1> DEFINE m == obj[t]
<1> USE IpcAssumption DEF IInv, TypeOK, IpcTypeOK, Goto
<1>1. /\ m \in Mutexes /\ pc[t] = "wait" /\ stat[t] = "RUN" /\ OnCpu(t)
      /\ pc' = [pc EXCEPT ![t] = "idle"]
      /\ UNCHANGED <<stat, error, timer, queue, irqoff, expired,
                     value, owner, hold, original, spin, prio, obj, wait, target>>
  BY DEF TakeReturn, ipcVars
<1>2. taken[t][m] = 0
  BY <1>1 DEF Asking
<1>3. /\ \A u \in Threads, n \in Mutexes : u # t \/ n # m => taken'[u][n] = taken[u][n]
      /\ taken'[t][m] = IF error[t] = "EOK" THEN 1 ELSE 0
  <2>1. CASE error[t] = "EOK"
    <3>1. Counted(t, m, 1) /\ 1 \in Int /\ taken \in [Threads -> [Mutexes -> Int]]
      BY <2>1 DEF TakeReturn
    <3>2. \A u \in Threads, n \in Mutexes : taken'[u][n] =
              IF u = t /\ n = m THEN taken[t][m] + 1 ELSE taken[u][n]
      BY ONLY <1>1, <3>1, t \in Threads, CountedProperties
    <3> QED
      BY <1>1, <1>2, <2>1, <3>2
  <2>2. CASE error[t] # "EOK"
    BY <1>1, <1>2, <2>2 DEF TakeReturn
  <2> QED
    BY <2>1, <2>2
<1>4. Sections' /\ Timers'
  BY <1>1 DEF Sections, InSection, Timers
<1>5. Waiting'
  BY <1>1 DEF Waiting
<1>6. IF error[t] = "EOK" THEN owner[m] = t /\ hold[m] = 1 ELSE owner[m] # t
  BY <1>1, <1>2 DEF Asking, OwnerHolds, WillSucceed
<1>7. OwnerHolds'
  BY <1>1, <1>2, <1>3, <1>6 DEF OwnerHolds, WillSucceed
<1>8. WaitersHaveOwner' /\ Owners'
  BY <1>1 DEF WaitersHaveOwner, Owners
<1>9. Asking'
  BY <1>1, <1>3 DEF Asking
<1>10. Handing'
  BY <1>1 DEF Handing
<1> QED
  BY <1>4, <1>5, <1>7, <1>8, <1>9, <1>10 DEF Rest

\* A release that is refused, or that leaves the mutex with its owner.
LEMMA ReleaseKeepsStep ==
    ASSUME IInv, NEW t \in Threads, ReleaseSection(t),
           ReleaseRefused(t, obj[t]) \/ ReleaseInner(t, obj[t])
    PROVE  Rest'
<1> DEFINE m == obj[t]
<1> USE IpcAssumption DEF IInv, TypeOK, IpcTypeOK, Goto, EnableIrq
<1>1. /\ m \in Mutexes /\ pc[t] = "release" /\ OnCpu(t)
      /\ irqoff' = [irqoff EXCEPT ![Bind[t]] = Nobody]
      /\ pc' = [pc EXCEPT ![t] = "idle"]
      /\ error' \in {error, [error EXCEPT ![t] = "ERROR"]}
      /\ UNCHANGED <<stat, timer, queue, expired, obj, wait, target, value, owner, spin>>
  BY DEF ReleaseSection, ReleaseRefused, ReleaseInner
<1>2. /\ stat[t] = "RUN"
      /\ \A u \in Threads : u # t => error'[u] = error[u] /\ pc'[u] = pc[u]
      /\ pc'[t] = "idle"
  BY <1>1 DEF Waiting
<1>3. /\ \A n \in Mutexes : n # m => hold'[n] = hold[n]
      /\ \A u \in Threads, n \in Mutexes : u # t \/ n # m => taken'[u][n] = taken[u][n]
      /\ IF owner[m] = t THEN taken'[t][m] > 0 /\ hold'[m] = taken'[t][m]
         ELSE taken'[t][m] = taken[t][m] /\ hold'[m] = hold[m]
  <2>1. CASE ReleaseRefused(t, m)
    BY <1>1, <2>1 DEF ReleaseRefused
  <2>2. CASE ReleaseInner(t, m)
    <3>1. /\ owner[m] = t /\ taken[t][m] > 1 /\ hold[m] = taken[t][m]
          /\ hold' = [hold EXCEPT ![m] = hold[m] - 1]
      BY <1>1, <2>2 DEF ReleaseInner, OwnerHolds, WillSucceed
    <3>2. /\ Counted(t, m, -1) /\ -1 \in Int /\ m \in Mutexes
          /\ taken \in [Threads -> [Mutexes -> Int]]
      BY <1>1, <2>2 DEF ReleaseInner
    <3>3. \A u \in Threads, n \in Mutexes : taken'[u][n] =
              IF u = t /\ n = m THEN taken[t][m] + -1 ELSE taken[u][n]
      <4> HIDE DEF m
      <4> QED
        BY ONLY <3>2, t \in Threads, CountedProperties
    <3> QED
      BY <1>1, <3>1, <3>3
  <2> QED
    BY <2>1, <2>2
<1>4. Sections'
  BY <1>1 DEF Sections, InSection, OnCpu
<1>5. Timers'
  BY <1>1 DEF Timers, OnCpu
<1>6. Waiting'
  BY <1>1, <1>2 DEF Waiting
<1>7. OwnerHolds'
  BY <1>1, <1>2, <1>3 DEF OwnerHolds, WillSucceed
<1>8. WaitersHaveOwner'
  BY <1>1 DEF WaitersHaveOwner
<1>9. Asking'
  BY <1>1, <1>2, <1>3 DEF Asking
<1>10. Owners'
  BY <1>1, <1>3 DEF Owners
<1>11. Handing'
  BY <1>1 DEF Handing
<1> QED
  BY <1>4, <1>5, <1>6, <1>7, <1>8, <1>9, <1>10, <1>11 DEF Rest

\* The last release of a mutex without waiters.
LEMMA ReleaseFreeStep ==
    ASSUME IInv, NEW t \in Threads, ReleaseSection(t), ReleaseFree(t, obj[t])
    PROVE  Rest'
<1> DEFINE m == obj[t]
<1> USE IpcAssumption DEF IInv, TypeOK, IpcTypeOK, Goto, EnableIrq
<1>1. /\ m \in Mutexes /\ pc[t] = "release" /\ OnCpu(t)
      /\ owner[m] = t /\ hold[m] = 1 /\ queue[m] = <<>> /\ spin[m] = Nobody
      /\ irqoff' = [irqoff EXCEPT ![Bind[t]] = Nobody]
      /\ pc' = [pc EXCEPT ![t] = "idle"]
      /\ hold' = [hold EXCEPT ![m] = 0] /\ owner' = [owner EXCEPT ![m] = Nobody]
      /\ UNCHANGED <<stat, error, timer, queue, expired, obj, wait, target, spin>>
  BY DEF ReleaseSection, ReleaseFree
<1>2. stat[t] = "RUN" /\ value[m] = 0 /\ taken[t][m] = 1
  BY <1>1 DEF Waiting, WaitersHaveOwner, OwnerHolds, WillSucceed
<1>3. value' = [value EXCEPT ![m] = 1]
  BY <1>1, <1>2 DEF ReleaseFree
<1>4. \A u \in Threads, n \in Mutexes : taken'[u][n] =
          IF u = t /\ n = m THEN 0 ELSE taken[u][n]
  <2>1. /\ Counted(t, m, -1) /\ -1 \in Int /\ m \in Mutexes
        /\ taken \in [Threads -> [Mutexes -> Int]]
    BY <1>1 DEF ReleaseFree
  <2>2. \A u \in Threads, n \in Mutexes : taken'[u][n] =
            IF u = t /\ n = m THEN taken[t][m] + -1 ELSE taken[u][n]
    <3> HIDE DEF m
    <3> QED
      BY ONLY <2>1, t \in Threads, CountedProperties
  <2> QED
    BY <1>2, <2>2
<1>5. Sections'
  BY <1>1 DEF Sections, InSection, OnCpu
<1>6. Timers'
  BY <1>1 DEF Timers, OnCpu
<1>7. Waiting'
  BY <1>1, <1>2 DEF Waiting
<1>8. OwnerHolds'
  BY <1>1, <1>4 DEF OwnerHolds, WillSucceed
<1>9. WaitersHaveOwner'
  BY <1>1, <1>3 DEF WaitersHaveOwner
<1>10. Asking'
  <2>1. \A u \in Threads : pc[u] = "wait" /\ stat[u] = "RUN" /\ error[u] = "EOK" =>
            owner[obj[u]] = u /\ u # t /\ obj[u] # m
    BY <1>1 DEF Asking
  <2> QED
    BY <1>1, <1>4, <2>1 DEF Asking
<1>11. Owners'
  <2>1. \A u : u \notin ToSet(<<>>)
    BY DEF ToSet
  <2> QED
    BY <1>1, <2>1 DEF Owners
<1>12. Handing'
  BY <1>1 DEF Handing
<1> QED
  BY <1>5, <1>6, <1>7, <1>8, <1>9, <1>10, <1>11, <1>12 DEF Rest

\* The last release of a mutex with waiters: the first waiter, whose take is going
\* to succeed, owns it from now on.
LEMMA ReleaseHandOverStep ==
    ASSUME IInv, NEW t \in Threads, ReleaseSection(t), ReleaseHandOver(t, obj[t])
    PROVE  Rest'
<1> DEFINE m == obj[t]
           h == Head(queue[m])
<1> USE IpcAssumption DEF IInv, TypeOK, IpcTypeOK, Goto
<1>1. /\ m \in Mutexes /\ pc[t] = "release"
      /\ owner[m] = t /\ hold[m] = 1 /\ queue[m] # <<>> /\ spin[m] = Nobody
      /\ pc' = [pc EXCEPT ![t] = "resume"]
      /\ owner' = [owner EXCEPT ![m] = h] /\ spin' = [spin EXCEPT ![m] = t]
      /\ UNCHANGED <<stat, error, timer, queue, expired, irqoff,
                     obj, wait, target, value, hold>>
  BY DEF ReleaseSection, ReleaseHandOver
<1>2. h \in Threads /\ h \in ToSet(queue[m])
  BY <1>1, HeadProperties DEF Mutexes
<1> HIDE DEF h
<1>3. stat[t] = "RUN" /\ taken[t][m] = 1
  BY <1>1 DEF Waiting, OwnerHolds, WillSucceed
<1>4. WillSucceed(h, m) /\ h # t /\ taken[h][m] = 0
  BY <1>1, <1>2, <1>3 DEF Waiting, WillSucceed, Asking
<1>5. \A u \in Threads, n \in Mutexes : taken'[u][n] =
          IF u = t /\ n = m THEN 0 ELSE taken[u][n]
  <2>1. /\ Counted(t, m, -1) /\ -1 \in Int /\ m \in Mutexes
        /\ taken \in [Threads -> [Mutexes -> Int]]
    BY <1>1 DEF ReleaseHandOver
  <2>2. \A u \in Threads, n \in Mutexes : taken'[u][n] =
            IF u = t /\ n = m THEN taken[t][m] + -1 ELSE taken[u][n]
    <3> HIDE DEF m
    <3> QED
      BY ONLY <2>1, t \in Threads, CountedProperties
  <2> QED
    BY <1>3, <2>2
<1>6. Sections' /\ Timers'
  BY <1>1 DEF Sections, InSection, Timers
<1>7. Waiting'
  BY <1>1, <1>3 DEF Waiting
<1>8. OwnerHolds'
  <2>1. \A u \in Threads, n \in Mutexes : u # t => (WillSucceed(u, n)' <=> WillSucceed(u, n))
    BY <1>1 DEF WillSucceed
  <2>2. \A n \in Mutexes : ~ WillSucceed(t, n)
    BY <1>1 DEF WillSucceed
  <2> QED
    <3>1. ASSUME NEW n \in Mutexes, NEW u \in Threads, n # m
          PROVE  IF owner'[n] = u
                 THEN \/ taken'[u][n] > 0 /\ hold'[n] = taken'[u][n]
                      \/ taken'[u][n] = 0 /\ hold'[n] = 1 /\ WillSucceed(u, n)'
                 ELSE taken'[u][n] = 0
      <4>1. owner'[n] = owner[n] /\ hold'[n] = hold[n] /\ taken'[u][n] = taken[u][n]
        BY <1>1, <1>5, <3>1
      <4>2. WillSucceed(u, n) => WillSucceed(u, n)'
        BY <2>1, <2>2
      <4> QED
        BY <4>1, <4>2 DEF OwnerHolds
    <3>2. ASSUME NEW n \in Mutexes, NEW u \in Threads, n = m
          PROVE  IF owner'[n] = u
                 THEN taken'[u][n] = 0 /\ hold'[n] = 1 /\ WillSucceed(u, n)'
                 ELSE taken'[u][n] = 0
      <4>1. owner'[n] = h /\ hold'[n] = 1
        BY <1>1, <3>2
      <4>2. taken'[u][n] = 0
        BY <1>1, <1>5, <3>2 DEF OwnerHolds
      <4>3. u = h => WillSucceed(u, n)'
        BY <1>4, <2>1, <3>2
      <4> QED
        BY <4>1, <4>2, <4>3
    <3> QED
      BY <3>1, <3>2 DEF OwnerHolds
<1>9. WaitersHaveOwner'
  BY <1>1, <1>2 DEF WaitersHaveOwner
<1>10. Asking'
  <2>1. \A u \in Threads : pc[u] = "wait" /\ stat[u] = "RUN" /\ error[u] = "EOK" =>
            owner[obj[u]] = u /\ u # t /\ obj[u] # m
    BY <1>1 DEF Asking
  <2> QED
    BY <1>1, <1>5, <2>1 DEF Asking
<1>11. Owners'
  BY <1>1, <1>2 DEF Owners
<1>12. Handing'
  <2>1. \A u \in Threads : pc[u] \in {"resume", "wake"} => u # t /\ obj[u] # m
    BY <1>1 DEF Handing
  <2>2. ASSUME NEW n \in Mutexes, spin'[n] # Nobody
        PROVE  pc'[spin'[n]] \in {"resume", "wake"} /\ obj[spin'[n]] = n
    BY <1>1, <2>1, <2>2 DEF Handing
  <2>3. ASSUME NEW u \in Threads, pc'[u] \in {"resume", "wake"}
        PROVE  /\ spin'[obj[u]] = u /\ queue[obj[u]] # <<>>
               /\ owner'[obj[u]] = Head(queue[obj[u]])
               /\ pc'[u] = "wake" => target[u] = owner'[obj[u]]
    <3>1. CASE u = t
      BY <1>1, <3>1 DEF h
    <3>2. CASE u # t
      <4>1. pc[u] \in {"resume", "wake"} /\ pc'[u] = pc[u] /\ obj[u] # m
        BY <1>1, <2>1, <2>3, <3>2
      <4> QED
        BY <1>1, <4>1 DEF Handing
    <3> QED
      BY <3>1, <3>2
  <2> QED
    BY <1>1, <2>2, <2>3 DEF Handing
<1> QED
  BY <1>6, <1>7, <1>8, <1>9, <1>10, <1>11, <1>12 DEF Rest

\* The releasing thread finds the new owner, still suspended, first in the list.
LEMMA ResumeTestStep ==
    ASSUME IInv, NEW t \in Threads, ResumeTest(t) PROVE Rest'
<1> DEFINE m == obj[t]
           h == Head(queue[m])
<1> USE IpcAssumption DEF IInv, TypeOK, IpcTypeOK, Goto
<1>1. m \in Mutexes /\ pc[t] = "resume" /\ queue[m] # <<>>
  BY DEF ResumeTest
<1>2. h \in Threads /\ stat[h] = "SUSPEND" /\ owner[m] = h
  <2>1. h \in Threads /\ h \in ToSet(queue[m])
    BY <1>1, HeadProperties DEF Mutexes
  <2>2. owner[m] = h
    BY <1>1 DEF Handing
  <2> QED
    BY <1>1, <2>1, <2>2 DEF Waiting
<1> HIDE DEF h
<1>3. /\ target' = [target EXCEPT ![t] = h] /\ pc' = [pc EXCEPT ![t] = "wake"]
      /\ UNCHANGED <<irqoff, spin, stat, error, timer, queue, expired,
                     value, owner, hold, original, prio, obj, wait, taken>>
  BY <1>2 DEF ResumeTest, h
<1>4. Sections' /\ Timers'
  BY <1>1, <1>3 DEF Sections, InSection, Timers
<1>5. Waiting'
  BY SMTT(30), <1>1, <1>3 DEF Waiting
<1>6. OwnerHolds'
  BY <1>1, <1>3 DEF OwnerHolds, WillSucceed
<1>7. WaitersHaveOwner' /\ Owners'
  BY <1>3 DEF WaitersHaveOwner, Owners
<1>8. Asking'
  BY <1>1, <1>3 DEF Asking
<1>9. Handing'
  BY SMTT(30), <1>1, <1>2, <1>3 DEF Handing
<1> QED
  BY <1>4, <1>5, <1>6, <1>7, <1>8, <1>9 DEF Rest

\* The new owner leaves the list and the mutex's spinlock is free again.
LEMMA ResumeWakeStep ==
    ASSUME IInv, Exclusive, NEW t \in Threads, ResumeWake(t) PROVE Rest'
<1> DEFINE m == obj[t]
           h == target[t]
<1> USE IpcAssumption DEF IInv, TypeOK, IpcTypeOK, Goto, EnableIrq
<1>1. /\ m \in Mutexes /\ pc[t] = "wake" /\ OnCpu(t)
      /\ irqoff' = [irqoff EXCEPT ![Bind[t]] = Nobody]
      /\ pc' = [pc EXCEPT ![t] = "idle"] /\ spin' = [spin EXCEPT ![m] = Nobody]
      /\ stat' = [stat EXCEPT ![h] = "RUN"] /\ timer' = [timer EXCEPT ![h] = FALSE]
      /\ queue' = Unlink(queue, h)
      /\ UNCHANGED <<error, expired, value, owner, hold, original, prio, obj, wait, taken>>
  BY DEF ResumeWake, WakeUp, Leave
<1>2. spin[m] = t /\ queue[m] # <<>> /\ h = Head(queue[m]) /\ h = owner[m]
  BY <1>1 DEF Handing
<1>3. h \in Threads /\ h \in ToSet(queue[m])
  BY <1>1, <1>2, HeadProperties DEF Mutexes
<1>4. stat[h] = "SUSPEND" /\ obj[h] = m /\ pc[h] = "wait" /\ error[h] = "EOK" /\ h # t
  BY <1>1, <1>3 DEF Waiting
<1> HIDE DEF h
<1>5. \A n \in Mutexes : n # m => h \notin ToSet(queue[n])
  BY <1>3, <1>4 DEF Waiting
<1>6. \A n \in Mutexes :
         /\ \A u : u \in ToSet(queue'[n]) <=> u \in ToSet(queue[n]) /\ u # h
         /\ IsInjective(queue'[n])
  <2>1. \A n \in Mutexes : /\ ToSet(queue'[n]) = ToSet(queue[n]) \ {h}
                          /\ IsInjective(queue'[n])
    BY <1>1, QueueUnlinked
  <2> QED
    BY ONLY <2>1
<1>7. \A n \in Mutexes : n # m => queue'[n] = queue[n]
  <2>1. \A n \in Mutexes : queue'[n] = Without(queue[n], h)
    BY <1>1 DEF Unlink, Mutexes
  <2> QED
    BY <1>5, <2>1 DEF Without
<1>8. Sections'
  BY <1>1 DEF Sections, InSection, OnCpu
<1>9. Timers'
  <2>1. \A c \in Cpus : expired[c] = Nobody
    BY <1>1, TimeoutAlone DEF InSection
  <2>2. \A u \in Threads : timer'[u] => timer[u] /\ u # h
    BY <1>1, <1>3
  <2>3. \A u \in Threads : u # h => stat'[u] = stat[u]
    BY <1>1
  <2>4. ASSUME NEW u \in Threads, timer'[u] PROVE "timed" \in Waits /\ stat'[u] = "SUSPEND"
    BY <2>2, <2>3, <2>4 DEF Timers
  <2> QED
    BY <1>1, <2>1, <2>4 DEF Timers
<1>10. Waiting'
  <2>1. ASSUME NEW u \in Threads, stat'[u] = "SUSPEND"
        PROVE  pc'[u] = "wait" /\ error[u] = "EOK" /\ u \in ToSet(queue'[obj[u]])
    <3>1. u # h /\ stat[u] = "SUSPEND"
      BY <1>1, <1>3, <2>1
    <3>2. pc[u] = "wait" /\ error[u] = "EOK" /\ u \in ToSet(queue[obj[u]])
      BY <3>1 DEF Waiting
    <3>3. u \in ToSet(queue'[obj[u]])
      BY <1>6, <3>1, <3>2
    <3>4. pc'[u] = "wait"
      BY <1>1, <3>2
    <3> QED
      BY <3>2, <3>3, <3>4
  <2>2. ASSUME NEW n \in Mutexes, NEW u \in Threads, u \in ToSet(queue'[n])
        PROVE  stat'[u] = "SUSPEND" /\ obj[u] = n
    <3>1. u # h /\ u \in ToSet(queue[n])
      BY <1>6, <2>2
    <3>2. stat[u] = "SUSPEND" /\ obj[u] = n
      BY <3>1 DEF Waiting
    <3> QED
      BY <1>1, <3>1, <3>2
  <2> QED
    BY <1>1, <1>6, <2>1, <2>2 DEF Waiting
<1>11. OwnerHolds'
  BY <1>1 DEF OwnerHolds, WillSucceed
<1>12. WaitersHaveOwner'
  BY <1>1, <1>2, <1>3, <1>7 DEF WaitersHaveOwner
<1>13. Asking'
  BY <1>1, <1>2, <1>4 DEF Asking
<1>14. Owners'
  BY <1>1, <1>2, <1>6 DEF Owners
<1>15. Handing'
  <2>1. \A u \in Threads : pc'[u] \in {"resume", "wake"} =>
            u # t /\ pc'[u] = pc[u] /\ obj[u] # m
    BY <1>1, <1>2 DEF Handing
  <2>2. ASSUME NEW n \in Mutexes, spin'[n] # Nobody
        PROVE  pc'[spin'[n]] \in {"resume", "wake"} /\ obj[spin'[n]] = n
    BY <1>1, <2>2 DEF Handing
  <2>3. ASSUME NEW u \in Threads, pc'[u] \in {"resume", "wake"}
        PROVE  /\ spin'[obj[u]] = u /\ queue'[obj[u]] # <<>>
               /\ owner[obj[u]] = Head(queue'[obj[u]])
               /\ pc'[u] = "wake" => target'[u] = owner[obj[u]]
    <3>1. spin'[obj[u]] = spin[obj[u]] /\ queue'[obj[u]] = queue[obj[u]]
      BY <1>1, <1>7, <2>1, <2>3
    <3>2. target'[u] = target[u]
      BY <2>1, <2>3 DEF ResumeWake
    <3> QED
      BY <2>1, <2>3, <3>1, <3>2 DEF Handing
  <2> QED
    BY <1>1, <2>2, <2>3 DEF Handing
<1> QED
  BY <1>8, <1>9, <1>10, <1>11, <1>12, <1>13, <1>14, <1>15 DEF Rest

\* A core takes the expired timer of a waiting thread out of the timer list.
LEMMA TimerExpiresStep ==
    ASSUME IInv, NEW t \in Threads, NEW c \in Cpus,
           TimerExpires(c, t), UNCHANGED mutexVars
    PROVE  Rest'
<1> USE IpcAssumption DEF IInv, TypeOK, IpcTypeOK
<1>1. /\ irqoff[c] = Nobody /\ expired[c] = Nobody /\ timer[t]
      /\ timer' = [timer EXCEPT ![t] = FALSE] /\ expired' = [expired EXCEPT ![c] = t]
      /\ UNCHANGED <<stat, error, queue, irqoff, mutexVars>>
  BY DEF TimerExpires
<1>2. Timers'
  <2>1. "timed" \in Waits /\ stat[t] = "SUSPEND" /\ \A d \in Cpus : expired[d] # t
    BY <1>1 DEF Timers
  <2>2. /\ \A u \in Threads : timer'[u] => timer[u]
        /\ ~ timer'[t]
    BY <1>1
  <2>3. \A d \in Cpus : expired'[d] = IF d = c THEN t ELSE expired[d]
    BY <1>1
  <2> QED
    BY <1>1, <2>1, <2>2, <2>3 DEF Timers, mutexVars
<1>3. Sections' /\ Waiting' /\ OwnerHolds'
  BY <1>1 DEF Sections, Waiting, OwnerHolds, WillSucceed, mutexVars
<1>4. WaitersHaveOwner' /\ Asking' /\ Owners' /\ Handing'
  BY <1>1 DEF WaitersHaveOwner, Asking, Owners, Handing, mutexVars
<1> QED
  BY <1>2, <1>3, <1>4 DEF Rest

\* The timed-out thread leaves the list; it is no mutex's new owner, since no
\* release is between ReleaseHandOver and ResumeWake.
LEMMA ThreadTimeoutStep ==
    ASSUME IInv, Exclusive, NEW t \in Threads, NEW c \in Cpus,
           ThreadTimeout(c, t), UNCHANGED mutexVars
    PROVE  Rest'
<1> USE IpcAssumption DEF IInv, TypeOK, IpcTypeOK
<1>1. /\ expired[c] = t /\ stat[t] = "SUSPEND"
      /\ error' = [error EXCEPT ![t] = "ETIMEOUT"] /\ stat' = [stat EXCEPT ![t] = "RUN"]
      /\ queue' = Unlink(queue, t) /\ expired' = [expired EXCEPT ![c] = Nobody]
      /\ UNCHANGED <<timer, irqoff, value, owner, hold, original, spin, prio, pc, obj,
                     wait, target, taken>>
  BY DEF ThreadTimeout, mutexVars
<1>2. /\ \A u \in Threads : pc[u] \notin InSection
      /\ \A d \in Cpus : d = c
      /\ \A n \in Mutexes : spin[n] = Nobody
  <2>1. (\A u \in Threads : pc[u] \notin InSection) /\ (\A d \in Cpus : d = c)
    BY <1>1, TimeoutAlone
  <2>2. \A n \in Mutexes : spin[n] = Nobody
    BY <2>1 DEF Handing, InSection
  <2> QED
    BY <2>1, <2>2
<1>3. t \in ToSet(queue[obj[t]]) /\ pc[t] = "wait" /\ error[t] = "EOK" /\ ~timer[t]
  BY <1>1 DEF Waiting, Timers
<1>4. \A n \in Mutexes :
         /\ \A u : u \in ToSet(queue'[n]) <=> u \in ToSet(queue[n]) /\ u # t
         /\ IsInjective(queue'[n])
  <2>1. \A n \in Mutexes : /\ ToSet(queue'[n]) = ToSet(queue[n]) \ {t}
                          /\ IsInjective(queue'[n])
    BY <1>1, QueueUnlinked
  <2> QED
    BY ONLY <2>1
<1>5. \A n \in Mutexes : n # obj[t] => queue'[n] = queue[n]
  <2>1. \A n \in Mutexes : queue'[n] = Without(queue[n], t)
    BY <1>1 DEF Unlink, Mutexes
  <2>2. \A n \in Mutexes : n # obj[t] => t \notin ToSet(queue[n])
    BY DEF Waiting
  <2> QED
    BY <2>1, <2>2 DEF Without
<1>6. queue[obj[t]] # <<>>
  <2>1. ToSet(<<>>) = {}
    BY DEF ToSet
  <2> QED
    BY <1>3, <2>1
<1>7. stat'[t] = "RUN" /\ error'[t] = "ETIMEOUT"
  BY <1>1
<1>8. \A u \in Threads : u # t => stat'[u] = stat[u] /\ error'[u] = error[u]
  BY <1>1
<1>9. Sections'
  BY <1>1 DEF Sections
<1>10. Timers'
  <2>1. \A d \in Cpus : expired'[d] = Nobody
    BY <1>1, <1>2
  <2>2. \A u \in Threads : timer[u] => u # t
    BY <1>3
  <2> QED
    BY <1>1, <1>8, <2>1, <2>2 DEF Timers
<1>11. Waiting'
  <2>1. ASSUME NEW u \in Threads, stat'[u] = "SUSPEND"
        PROVE  pc[u] = "wait" /\ error'[u] = "EOK" /\ u \in ToSet(queue'[obj[u]])
    <3>1. u # t /\ stat[u] = "SUSPEND"
      BY <1>7, <1>8, <2>1
    <3>2. pc[u] = "wait" /\ error[u] = "EOK" /\ u \in ToSet(queue[obj[u]])
      BY <3>1 DEF Waiting
    <3> QED
      BY <1>4, <1>8, <3>1, <3>2
  <2>2. ASSUME NEW n \in Mutexes, NEW u \in Threads, u \in ToSet(queue'[n])
        PROVE  stat'[u] = "SUSPEND" /\ obj[u] = n
    <3>1. u # t /\ u \in ToSet(queue[n])
      BY <1>4, <2>2
    <3>2. stat[u] = "SUSPEND" /\ obj[u] = n
      BY <3>1 DEF Waiting
    <3> QED
      BY <1>8, <3>1, <3>2
  <2> QED
    BY <1>1, <1>4, <2>1, <2>2 DEF Waiting
<1>12. OwnerHolds'
  <2>1. \A n \in Mutexes, u \in Threads : u # t /\ WillSucceed(u, n) => WillSucceed(u, n)'
    BY <1>1, <1>8 DEF WillSucceed
  <2>2. \A n \in Mutexes : owner[n] = t => ~ WillSucceed(t, n)
    BY <1>2, <1>3 DEF Owners, WillSucceed
  <2>3. ASSUME NEW n \in Mutexes, NEW u \in Threads
        PROVE  IF owner[n] = u
               THEN \/ taken[u][n] > 0 /\ hold[n] = taken[u][n]
                    \/ taken[u][n] = 0 /\ hold[n] = 1 /\ WillSucceed(u, n)'
               ELSE taken[u][n] = 0
    BY <2>1, <2>2 DEF OwnerHolds
  <2> QED
    BY <1>1, <2>3 DEF OwnerHolds
<1>13. WaitersHaveOwner'
  BY <1>1, <1>5, <1>6 DEF WaitersHaveOwner
<1>14. Asking'
  BY <1>1, <1>7, <1>8 DEF Asking
<1>15. Owners'
  BY <1>1, <1>4 DEF Owners
<1>16. Handing'
  BY <1>1, <1>2 DEF Handing, InSection
<1> QED
  BY <1>9, <1>10, <1>11, <1>12, <1>13, <1>14, <1>15, <1>16 DEF Rest

LEMMA StutterStep == IInv /\ UNCHANGED vars => Rest'
<1> SUFFICES ASSUME IInv, UNCHANGED vars PROVE Rest'
  OBVIOUS
<1> USE DEF IInv, vars, ipcVars, mutexVars
<1>1. Sections' /\ Timers' /\ Waiting'
  BY DEF Sections, Timers, Waiting
<1>2. OwnerHolds' /\ WaitersHaveOwner' /\ Asking' /\ Owners' /\ Handing'
  BY DEF OwnerHolds, WillSucceed, WaitersHaveOwner, Asking, Owners, Handing
<1> QED
  BY <1>1, <1>2 DEF Rest

LEMMA InvStep == Exclusive /\ IInv /\ [Next]_vars => IInv'
<1> SUFFICES ASSUME Exclusive, IInv, [Next]_vars PROVE Rest' /\ TypeOK'
  BY DEF IInv, Rest
<1>1. TypeOK'
  BY TypeStep
<1>2. ASSUME NEW t \in Threads, TakeSection(t) PROVE Rest'
  <2>1. \/ TakeAgain(t, obj[t]) \/ TakeFree(t, obj[t])
        \/ TakeFails(t, obj[t]) \/ TakeWaits(t, obj[t])
    BY <1>2 DEF TakeSection
  <2> QED
    BY <1>2, <2>1, TakeOwnsStep, TakeFailsStep, TakeWaitsStep
<1>3. ASSUME NEW t \in Threads, ReleaseSection(t) PROVE Rest'
  <2>1. \/ ReleaseRefused(t, obj[t]) \/ ReleaseInner(t, obj[t])
        \/ ReleaseFree(t, obj[t]) \/ ReleaseHandOver(t, obj[t])
    BY <1>3 DEF ReleaseSection
  <2> QED
    BY <1>3, <2>1, ReleaseKeepsStep, ReleaseFreeStep, ReleaseHandOverStep
<1>4. ASSUME NEW t \in Threads, ThreadStep(t) PROVE Rest'
  BY <1>2, <1>3, <1>4, TakeReturnStep, ResumeTestStep, ResumeWakeStep DEF ThreadStep
<1>5. ASSUME NEW t \in Threads, NEW m \in Mutexes,
             ReleaseCall(t, m) \/ \E time \in Waits : TakeCall(t, m, time)
      PROVE  Rest'
  BY <1>5, CallStep
<1>6. ASSUME NEW t \in Threads, Timeout(t) PROVE Rest'
  BY <1>6, TimerExpiresStep, ThreadTimeoutStep DEF Timeout
<1>7. CASE UNCHANGED vars
  BY <1>1, <1>7, StutterStep
<1> QED
  BY <1>1, <1>4, <1>5, <1>6, <1>7 DEF Next

-----------------------------------------------------------------------------
(* The theorems *)

\* The inductive invariant holds in every reachable state.
THEOREM InductiveInvariant == ASSUME Exclusive PROVE Spec => []IInv
<1>1. IInv /\ [Next]_vars => IInv'
  BY InvStep
<1> QED
  BY InitInv, <1>1, PTL DEF Spec

\* Every variable of the mutexes keeps its type: in particular hold stays within
\* RT_MUTEX_HOLD_MAX and value within 0 and 1.
THEOREM MutexTypeOK == ASSUME Exclusive PROVE Spec => []TypeOK
<1>1. IInv => TypeOK
  BY DEF IInv
<1> QED
  BY InductiveInvariant, <1>1, PTL

\* mutex->owner and mutex->hold agree with what the threads were told by
\* rt_mutex_take and rt_mutex_release.
THEOREM MutexOwnerHolds == ASSUME Exclusive PROVE Spec => []OwnerHolds
<1>1. IInv => OwnerHolds
  BY DEF IInv
<1> QED
  BY InductiveInvariant, <1>1, PTL

\* A mutex is held by one thread at a time.
THEOREM MutexMutualExclusion == ASSUME Exclusive PROVE Spec => []MutualExclusion
<1>1. OwnerHolds => MutualExclusion
  <2> SUFFICES ASSUME OwnerHolds, NEW m \in Mutexes, NEW t \in Threads, NEW u \in Threads,
                      taken[t][m] > 0, taken[u][m] > 0
               PROVE  t = u
    BY DEF MutualExclusion
  <2>1. owner[m] = t /\ owner[m] = u
    BY DEF OwnerHolds
  <2> QED
    BY <2>1
<1> QED
  BY MutexOwnerHolds, <1>1, PTL

\* Nobody waits for a mutex that no thread owns.
THEOREM MutexWaitersHaveOwner == ASSUME Exclusive PROVE Spec => []WaitersHaveOwner
<1>1. IInv => WaitersHaveOwner
  BY DEF IInv
<1> QED
  BY InductiveInvariant, <1>1, PTL

\* rt_mutex_release finds the waiter it has made the owner.
THEOREM MutexHandOverFindsWaiter == ASSUME Exclusive PROVE Spec => []HandOverFindsWaiter
<1>1. IInv => HandOverFindsWaiter
  BY DEF IInv, Handing, HandOverFindsWaiter
<1> QED
  BY InductiveInvariant, <1>1, PTL

\* The suspended threads are linked exactly once, the others not at all.
THEOREM MutexSuspendedIsLinked == ASSUME Exclusive PROVE Spec => []SuspendedIsLinked
<1>1. IInv => SuspendedIsLinked
  <2> SUFFICES ASSUME IInv PROVE SuspendedIsLinked
    OBVIOUS
  <2> USE DEF IInv, TypeOK, IpcTypeOK, Mutexes, Waiting
  <2>1. \A t \in Threads : stat[t] = "SUSPEND" <=>
            \E l \in Lists : t \in ToSet(queue[l])
    OBVIOUS
  <2>2. ASSUME NEW l \in Lists, NEW m \in Lists, l # m,
               NEW t, t \in ToSet(queue[l]), t \in ToSet(queue[m])
        PROVE  FALSE
    <3>1. t \in Threads
      <4>1. queue[l] \in Seq(Threads)
        OBVIOUS
      <4>2. PICK i \in 1..Len(queue[l]) : t = queue[l][i]
        BY <2>2, <4>1, LenProperties DEF ToSet
      <4> QED
        BY <4>1, <4>2, ElementOfSeq
    <3> QED
      BY <2>2, <3>1
  <2> QED
    BY <2>1, <2>2 DEF SuspendedIsLinked
<1> QED
  BY InductiveInvariant, <1>1, PTL

\* rt_thread_timeout finds the thread suspended, as its assertion demands.
THEOREM MutexTimeoutFindsSuspended == ASSUME Exclusive PROVE Spec => []TimeoutFindsSuspended
<1>1. IInv => TimeoutFindsSuspended
  BY DEF IInv, Timers, TimeoutFindsSuspended
<1> QED
  BY InductiveInvariant, <1>1, PTL

\* Both facts about the waiters together: none of them waits for a free mutex, and a
\* release that has found one hands the mutex to it.
THEOREM MutexWaitersServed == ASSUME Exclusive PROVE Spec => []WaitersServed
<1>1. WaitersHaveOwner /\ HandOverFindsWaiter <=> WaitersServed
  BY DEF WaitersServed
<1> QED
  BY MutexWaitersHaveOwner, MutexHandOverFindsWaiter, <1>1, PTL

-----------------------------------------------------------------------------
(* Priority inheritance *)

\* With a second mutex a thread could release the one while it owes its priority to the
\* waiters of the other, or be given a priority while it waits.
OneMutex == \A m, n \in Mutexes : m = n

\* What an owner will be given back is the priority it started with.
Lent ==
    /\ OwnerUrgent /\ PriorityRestored
    /\ \A m \in Mutexes : ByUrgency(queue[m], prio)
    /\ \A m \in Mutexes : owner[m] # Nobody => original[m] = BasePrio[owner[m]]

LEMMA LentInit == Init => Lent
<1> SUFFICES ASSUME Init PROVE Lent
  OBVIOUS
<1>1. \A m \in Mutexes : queue[m] = <<>> /\ owner[m] = Nobody
  BY DEF Init, IpcInit, Mutexes
<1>2. \A m \in Mutexes : ByUrgency(queue[m], prio)
  BY <1>1 DEF ByUrgency
<1>3. prio = BasePrio
  BY DEF Init
<1> QED
  BY <1>1, <1>2, <1>3 DEF Lent, OwnerUrgent, PriorityRestored

\* Priorities are compared as numbers.
LEMMA PrioType == TypeOK => prio \in [Threads -> Nat]
<1>1. \A n \in 0..NoPrio : n \in Nat
  BY MutexAssumption
<1> QED
  BY <1>1 DEF TypeOK

\* Waiters that leave disturb nothing.
LEMMA LentShrinks ==
    ASSUME Lent, UNCHANGED <<prio, owner, original>>,
           \A m \in Mutexes : /\ ByUrgency(queue'[m], prio)
                              /\ ToSet(queue'[m]) \subseteq ToSet(queue[m])
    PROVE  Lent'
<1>1. \A m \in Mutexes : ByUrgency(queue'[m], prio') /\ owner'[m] = owner[m]
  OBVIOUS
<1>2. OwnerUrgent'
  BY DEF Lent, OwnerUrgent
<1>3. PriorityRestored'
  BY DEF Lent, PriorityRestored
<1> QED
  BY <1>1, <1>2, <1>3 DEF Lent

LEMMA LentUnlinked ==
    ASSUME IInv, Lent, NEW t, UNCHANGED <<prio, owner, original>>,
           queue' = queue \/ queue' = Unlink(queue, t)
    PROVE  Lent'
<1>1. CASE queue' = queue
  <2>1. \A m \in Mutexes : /\ ByUrgency(queue'[m], prio)
                           /\ ToSet(queue'[m]) \subseteq ToSet(queue[m])
    BY <1>1 DEF Lent
  <2> QED
    BY <2>1, LentShrinks
<1>2. CASE queue' = Unlink(queue, t)
  <2>1. TypeOK /\ Waiting /\ queue \in [Mutexes -> Seq(Threads)]
    BY DEF IInv, TypeOK, IpcTypeOK, Mutexes
  <2>2. \A m \in Mutexes : ToSet(queue'[m]) = ToSet(queue[m]) \ {t}
    BY <1>2, <2>1, QueueUnlinked
  <2>3. ASSUME NEW m \in Mutexes PROVE ByUrgency(queue'[m], prio)
    <3>1. queue'[m] = Without(queue[m], t) /\ queue[m] \in Seq(Threads)
      BY <1>2, <2>1 DEF Unlink
    <3>2. ByUrgency(queue[m], prio)
      BY DEF Lent
    <3> QED
      BY <3>1, <3>2, WithoutByUrgency
  <2>4. \A m \in Mutexes : /\ ByUrgency(queue'[m], prio)
                           /\ ToSet(queue'[m]) \subseteq ToSet(queue[m])
    BY <2>2, <2>3
  <2> QED
    BY <2>4, LentShrinks
<1> QED
  BY <1>1, <1>2

\* A thread that takes the free mutex has its own priority, and nobody waits.
LEMMA LentTakeFree ==
    ASSUME OneMutex, IInv, Lent, NEW t \in Threads, TakeSection(t), TakeFree(t, obj[t])
    PROVE  Lent'
<1> DEFINE m == obj[t]
<1>1. /\ TypeOK /\ m \in Mutexes /\ value[m] > 0 /\ UNCHANGED <<prio, queue>>
      /\ owner' = [owner EXCEPT ![m] = t] /\ original' = [original EXCEPT ![m] = prio[t]]
  BY DEF IInv, TypeOK, TakeFree
<1> HIDE DEF m
<1>2. owner[m] = Nobody /\ queue[m] = <<>>
  <2>1. value[m] # 0
    BY <1>1 DEF TypeOK
  <2> QED
    BY <1>1, <2>1 DEF IInv, WaitersHaveOwner
<1>3. \A n \in Mutexes : n = m
  BY <1>1 DEF OneMutex
<1>4. prio[t] = BasePrio[t]
  <2>1. t # Nobody
    BY IpcAssumption
  <2> QED
    BY <1>2, <1>3, <2>1 DEF Lent, PriorityRestored
<1>5. owner'[m] = t /\ original'[m] = BasePrio[t]
  BY <1>1, <1>4 DEF TypeOK
<1>6. OwnerUrgent'
  <2>1. ToSet(queue'[m]) = {}
    BY <1>1, <1>2 DEF ToSet
  <2> QED
    BY <1>3, <2>1 DEF OwnerUrgent
<1>7. PriorityRestored'
  <2>1. \A u \in Threads : prio[u] = BasePrio[u]
    <3>1. \A u \in Threads : u # Nobody
      BY IpcAssumption
    <3> QED
      BY <1>2, <1>3, <3>1 DEF Lent, PriorityRestored
  <2> QED
    BY <1>1, <2>1 DEF PriorityRestored
<1>8. \A n \in Mutexes : ByUrgency(queue'[n], prio')
  BY <1>1 DEF Lent
<1> QED
  BY <1>3, <1>5, <1>6, <1>7, <1>8 DEF Lent

\* The owner inherits the priority of a new waiter, who takes its place in the list.
LEMMA LentTakeWaits ==
    ASSUME OneMutex, IInv, Lent, NEW t \in Threads, TakeSection(t), TakeWaits(t, obj[t])
    PROVE  Lent'
<1> DEFINE m == obj[t]
<1>1. /\ TypeOK /\ Waiting /\ m \in Mutexes /\ owner[m] # t /\ value[m] = 0
      /\ UNCHANGED <<owner, original>> /\ TakeWaits(t, m) /\ spin[m] = Nobody /\ pc[t] = "take"
      /\ prio' = [prio EXCEPT ![owner[m]] = IF prio[t] < @ THEN prio[t] ELSE @]
      /\ queue' = [Unlink(queue, t) EXCEPT ![m] = Place(@, t, "PRIO", prio)]
  BY DEF IInv, TypeOK, TakeWaits, TakeSection, Inherit, ListSuspend
<1> HIDE DEF m
<1>2. \A n \in Mutexes : n = m
  BY <1>1 DEF OneMutex
<1>3. /\ owner[m] \in Threads /\ owner[m] \notin ToSet(queue[m])
      /\ original[m] = BasePrio[owner[m]]
  BY <1>1 DEF IInv, WaitersHaveOwner, Owners, Lent, TypeOK
<1>4. prio \in [Threads -> Nat] /\ queue \in [Mutexes -> Seq(Threads)]
  BY <1>1, PrioType DEF TypeOK, IpcTypeOK, Mutexes
<1>5. /\ prio'[owner[m]] <= prio[t] /\ prio'[owner[m]] <= prio[owner[m]]
      /\ \A u \in Threads \ {owner[m]} : prio'[u] = prio[u]
  BY <1>3, <1>4, <1>1
<1>6. stat[t] = "RUN"
  BY <1>1 DEF Waiting, TypeOK, IpcTypeOK
<1>7. queue'[m] \in Seq(Threads) /\ ToSet(queue'[m]) = ToSet(queue[m]) \cup {t}
  BY <1>1, <1>6, QueueSuspended
<1>8. \A u \in ToSet(queue[m]) : u \in Threads
  BY <1>1, <1>4, LenProperties, ElementOfSeq DEF ToSet
<1>9. OwnerUrgent'
  <2>1. ASSUME NEW u \in ToSet(queue'[m]) PROVE prio'[owner[m]] <= prio'[u]
    <3>1. CASE u = t
      BY <1>1, <1>5, <3>1
    <3>2. CASE u \in ToSet(queue[m])
      <4>1. prio[owner[m]] <= prio[u] /\ u \in Threads /\ u # owner[m]
        BY <1>1, <1>3, <1>8, <3>2, IpcAssumption DEF Lent, OwnerUrgent
      <4>2. prio'[u] = prio[u] /\ prio'[owner[m]] \in Nat /\ prio[owner[m]] \in Nat /\ prio[u] \in Nat
        BY <1>1, <1>3, <1>4, <1>5, <4>1
      <4> QED
        BY <1>5, <4>1, <4>2
    <3> QED
      BY <1>7, <2>1, <3>1, <3>2
  <2> QED
    BY <1>1, <1>2, <2>1 DEF OwnerUrgent
<1>10. PriorityRestored'
  BY <1>1, <1>2, <1>5 DEF Lent, PriorityRestored
<1>11. ByUrgency(queue'[m], prio')
  <2> DEFINE q == Without(queue[m], t)
             p == Place(q, t, "PRIO", prio)
  <2>1. queue'[m] = p
    BY <1>1, <1>4 DEF Unlink
  <2>2. q \in Seq(Threads) /\ ByUrgency(q, prio)
    <3>1. ByUrgency(queue[m], prio) /\ queue[m] \in Seq(Threads) /\ IsInjective(queue[m])
      BY <1>1, <1>4 DEF Lent, Waiting
    <3> QED
      BY <3>1, WithoutByUrgency, WithoutProperties
  <2> HIDE DEF q
  <2>3. ByUrgency(p, prio)
    BY <1>4, <2>2, PlaceByUrgency
  <2> HIDE DEF p
  <2>4. ASSUME NEW i \in 1..Len(queue'[m])
        PROVE  prio'[queue'[m][i]] = prio[queue'[m][i]]
    <3>1. queue'[m][i] \in ToSet(queue'[m])
      BY <1>7, LenProperties DEF ToSet
    <3>2. queue'[m][i] \in Threads \ {owner[m]}
      BY <1>1, <1>3, <1>7, <1>8, <3>1
    <3> QED
      BY <1>5, <3>2
  <2> QED
    BY <2>1, <2>3, <2>4 DEF ByUrgency
<1> QED
  BY <1>1, <1>2, <1>3, <1>9, <1>10, <1>11 DEF Lent

\* The last release gives the priority back; the first of the waiters owns the mutex next
\* and is as urgent as the others.
LEMMA LentRelease ==
    ASSUME OneMutex, IInv, Lent, NEW t \in Threads, ReleaseSection(t),
           ReleaseFree(t, obj[t]) \/ ReleaseHandOver(t, obj[t])
    PROVE  Lent'
<1> DEFINE m == obj[t]
           h == Head(queue[m])
<1>1. /\ TypeOK /\ m \in Mutexes /\ owner[m] = t /\ spin[m] = Nobody
      /\ UNCHANGED queue /\ prio' = [prio EXCEPT ![t] = original[m]]
      /\ \/ /\ queue[m] = <<>> /\ owner' = [owner EXCEPT ![m] = Nobody]
            /\ original' = [original EXCEPT ![m] = NoPrio]
         \/ /\ queue[m] # <<>> /\ owner' = [owner EXCEPT ![m] = h]
            /\ original' = [original EXCEPT ![m] = prio[h]]
  BY DEF IInv, TypeOK, ReleaseSection, ReleaseFree, ReleaseHandOver, Restore
<1>2. \A n \in Mutexes : n = m
  BY <1>1 DEF OneMutex
<1>a. t # Nobody
  BY IpcAssumption
<1>3. queue[m] \in Seq(Threads) /\ t \notin ToSet(queue[m]) /\ original[m] = BasePrio[t]
  BY <1>1, <1>a DEF IInv, Owners, Lent, TypeOK, IpcTypeOK, Mutexes
<1>4. /\ \A u \in Threads : prio'[u] = BasePrio[u]
      /\ \A u \in Threads \ {t} : prio[u] = BasePrio[u] /\ prio'[u] = prio[u]
  BY <1>1, <1>2, <1>3 DEF Lent, PriorityRestored, TypeOK
<1>5. \A u \in ToSet(queue[m]) : u \in Threads \ {t}
  BY <1>3, LenProperties, ElementOfSeq DEF ToSet
<1>6. ByUrgency(queue'[m], prio')
  <2>1. \A i \in 1..Len(queue[m]) : queue[m][i] \in Threads \ {t}
    BY <1>3, <1>5, LenProperties DEF ToSet
  <2>2. \A i \in 1..Len(queue[m]) : prio'[queue[m][i]] = prio[queue[m][i]]
    BY <1>4, <2>1
  <2>3. ByUrgency(queue[m], prio)
    BY <1>1 DEF Lent
  <2> QED
    BY <1>1, <2>2, <2>3 DEF ByUrgency
<1>7. PriorityRestored'
  BY <1>4 DEF PriorityRestored
<1>8. CASE queue[m] = <<>>
  <2>1. owner'[m] = Nobody
    BY <1>1, <1>8 DEF TypeOK
  <2> QED
    BY <1>2, <1>6, <1>7, <2>1 DEF Lent, OwnerUrgent
<1>9. CASE queue[m] # <<>>
  <2>1. h \in ToSet(queue[m]) /\ h \in Threads \ {t}
    BY <1>3, <1>5, <1>9, HeadProperties
  <2>2. owner'[m] = h /\ original'[m] = BasePrio[h]
    BY <1>1, <1>4, <1>9, <2>1 DEF TypeOK
  <2>3. ASSUME NEW u \in ToSet(queue'[m]) PROVE prio'[h] <= prio'[u]
    <3>1. PICK i \in 1..Len(queue[m]) : u = queue[m][i]
      BY <1>1, <1>3, LenProperties DEF ToSet
    <3>2. h = queue[m][1] /\ 1 \in 1..Len(queue[m]) /\ i \in Nat /\ 1 <= i
      BY <1>3, <1>9, <3>1
    <3>3. prio[h] \in Nat /\ prio[u] \in Nat
      BY <1>1, <1>5, <2>1, <2>3, PrioType
    <3>4. prio[h] <= prio[u]
      BY <1>1, <3>1, <3>2, <3>3 DEF Lent, ByUrgency
    <3> QED
      BY <1>1, <1>4, <1>5, <2>1, <2>3, <3>4
  <2>4. OwnerUrgent'
    BY <1>2, <2>2, <2>3 DEF OwnerUrgent
  <2> HIDE DEF h
  <2> QED
    BY <1>2, <1>6, <1>7, <2>2, <2>4 DEF Lent
<1> QED
  BY <1>8, <1>9

LEMMA LentStep == OneMutex /\ IInv /\ Lent /\ [Next]_vars => Lent'
<1> SUFFICES ASSUME OneMutex, IInv, Lent, [Next]_vars PROVE Lent'
  OBVIOUS
<1> DEFINE Same == UNCHANGED <<prio, owner, original>>
<1>1. ASSUME NEW t \in Threads, TakeSection(t) PROVE Lent'
  <2>1. CASE TakeAgain(t, obj[t]) \/ TakeFails(t, obj[t])
    <3>1. Same /\ queue' = queue
      BY <2>1 DEF TakeAgain, TakeFails
    <3> QED
      BY <3>1, LentUnlinked
  <2> QED
    BY <1>1, <2>1, LentTakeFree, LentTakeWaits DEF TakeSection
<1>2. ASSUME NEW t \in Threads, ReleaseSection(t) PROVE Lent'
  <2>1. CASE ReleaseRefused(t, obj[t]) \/ ReleaseInner(t, obj[t])
    <3>1. Same /\ queue' = queue
      BY <1>2, <2>1 DEF ReleaseSection, ReleaseRefused, ReleaseInner
    <3> QED
      BY <3>1, LentUnlinked
  <2> QED
    BY <1>2, <2>1, LentRelease DEF ReleaseSection
<1>3. ASSUME NEW t \in Threads, TakeReturn(t) \/ ResumeTest(t) PROVE Lent'
  <2>1. Same /\ queue' = queue
    BY <1>3 DEF TakeReturn, ResumeTest, ipcVars
  <2> QED
    BY <2>1, LentUnlinked
<1>4. ASSUME NEW t \in Threads, ResumeWake(t) PROVE Lent'
  <2>1. Same /\ queue' = Unlink(queue, target[t])
    BY <1>4 DEF ResumeWake, WakeUp
  <2> QED
    BY <2>1, LentUnlinked
<1>5. ASSUME NEW t \in Threads, NEW m \in Mutexes,
             ReleaseCall(t, m) \/ \E time \in Waits : TakeCall(t, m, time)
      PROVE  Lent'
  <2>1. Same /\ queue' = queue
    BY <1>5 DEF ReleaseCall, TakeCall
  <2> QED
    BY <2>1, LentUnlinked
<1>6. ASSUME NEW t \in Threads, Timeout(t) PROVE Lent'
  <2>1. Same /\ (queue' = queue \/ queue' = Unlink(queue, t))
    BY <1>6 DEF Timeout, TimerExpires, ThreadTimeout, mutexVars
  <2> QED
    BY <2>1, LentUnlinked
<1>7. CASE UNCHANGED vars
  <2>1. Same /\ queue' = queue
    BY <1>7 DEF vars, ipcVars, mutexVars
  <2> QED
    BY <2>1, LentUnlinked
<1> QED
  BY <1>1, <1>2, <1>3, <1>4, <1>5, <1>6, <1>7 DEF Next, ThreadStep

\* As long as there is a single mutex, rt_mutex_take lends its owner the priority of the
\* most urgent waiter, rt_mutex_release hands the mutex to that one and gives back what
\* was lent; no order of takes, releases and timeouts leaves a thread with a priority it
\* has not earned, or an owner less urgent than somebody who waits for it.
THEOREM MutexPriorityInheritance ==
    ASSUME Exclusive, OneMutex PROVE Spec => []PriorityInheritance
<1>1. (IInv /\ Lent) /\ [Next]_vars => (IInv /\ Lent)'
  BY InvStep, LentStep
<1>2. Lent => PriorityInheritance
  BY DEF Lent, PriorityInheritance, WaitersByUrgency, ByUrgency
<1> QED
  BY InitInv, LentInit, <1>1, <1>2, PTL DEF Spec
-----------------------------------------------------------------------------
(* The mutex implements PriorityLock *)

View == <<Holds, Heir, WaitingUsers>>

\* What the threads see of the mutex: whoever does not own it has not been granted it,
\* and its owner has been granted it or is about to be.
LEMMA LockSeen ==
    ASSUME IInv, TheMutex \in Mutexes
    PROVE  /\ owner[TheMutex] \in Threads \cup {Nobody}
           /\ \A t \in Threads : Holds[t] = taken[t][TheMutex] /\ Holds[t] \in Int
           /\ \A t \in Threads : owner[TheMutex] # t => Holds[t] = 0
           /\ owner[TheMutex] = Nobody => /\ Heir = Nobody /\ WaitingUsers = {}
                                          /\ queue[TheMutex] = <<>>
           /\ owner[TheMutex] # Nobody /\ Holds[owner[TheMutex]] # 0 =>
                 Heir = Nobody /\ Holds[owner[TheMutex]] > 0
           /\ owner[TheMutex] # Nobody /\ Holds[owner[TheMutex]] = 0 =>
                 Heir = owner[TheMutex]
<1>1. /\ owner[TheMutex] \in Threads \cup {Nobody}
      /\ taken \in [Threads -> [Mutexes -> Int]]
  BY DEF IInv, TypeOK
<1>2. \A t \in Threads : Holds[t] = taken[t][TheMutex] /\ taken[t][TheMutex] \in Int
  BY <1>1 DEF Holds
<1>3. \A t \in Threads : owner[TheMutex] # t => taken[t][TheMutex] = 0
  BY DEF IInv, OwnerHolds
<1>4. owner[TheMutex] = Nobody => queue[TheMutex] = <<>>
  BY DEF IInv, WaitersHaveOwner
<1>5. queue[TheMutex] = <<>> => WaitingUsers = {}
  BY DEF WaitingUsers, ToSet
<1>6. owner[TheMutex] # Nobody => taken[owner[TheMutex]][TheMutex] >= 0
  BY <1>1 DEF IInv, OwnerHolds
<1> QED
  BY <1>1, <1>2, <1>3, <1>4, <1>5, <1>6 DEF Heir

\* A step that changes neither the owner nor what was granted, and the list at most by
\* the owner, is invisible.
LEMMA LockUnseen ==
    ASSUME UNCHANGED <<owner, taken>>,
           ToSet(queue'[TheMutex]) \ {owner[TheMutex]} = ToSet(queue[TheMutex]) \ {owner[TheMutex]}
    PROVE  UNCHANGED View
BY DEF View, Holds, Heir, WaitingUsers

\* The owner takes or releases the mutex and remains its owner.
LEMMA LockCounts ==
    ASSUME IInv, TheMutex \in Mutexes, NEW t \in Threads, owner[TheMutex] = t,
           taken[t][TheMutex] > 0, UNCHANGED <<owner, queue>>, NEW n \in Int,
           Counted(t, TheMutex, n), taken[t][TheMutex] + n > 0
    PROVE  /\ Holds' = [Holds EXCEPT ![t] = taken[t][TheMutex] + n]
           /\ UNCHANGED <<Heir, WaitingUsers>>
<1>1. taken \in [Threads -> [Mutexes -> Int]] /\ t # Nobody
  BY IpcAssumption DEF IInv, TypeOK
<1>2. \A u \in Threads : taken'[u][TheMutex] =
         IF u = t THEN taken[t][TheMutex] + n ELSE taken[u][TheMutex]
  BY <1>1, CountedProperties
<1>3. Holds' = [Holds EXCEPT ![t] = taken[t][TheMutex] + n]
  BY <1>2 DEF Holds
<1>4. Holds[t] # 0 /\ Holds'[t] # 0
  BY <1>1, <1>2 DEF Holds
<1>5. UNCHANGED Heir
  BY <1>1, <1>4 DEF Heir
<1>6. UNCHANGED WaitingUsers
  BY DEF WaitingUsers
<1> QED
  BY <1>3, <1>5, <1>6

LEMMA LockTakeAgain ==
    ASSUME IInv, TheMutex \in Mutexes, NEW t \in Threads, TakeSection(t),
           obj[t] = TheMutex, TakeAgain(t, TheMutex)
    PROVE  Lock!AcquireAgain(t) \/ UNCHANGED View
<1>1. owner[TheMutex] = t /\ pc[t] = "take" /\ UNCHANGED <<owner, queue>>
  BY DEF TakeSection, TakeAgain
<1>2. taken[t][TheMutex] > 0 /\ taken[t][TheMutex] \in Int
  BY <1>1 DEF IInv, OwnerHolds, WillSucceed, TypeOK
<1>3. CASE UNCHANGED taken
  BY <1>1, <1>3, LockUnseen
<1>4. CASE Counted(t, TheMutex, 1)
  <2>1. /\ Holds' = [Holds EXCEPT ![t] = taken[t][TheMutex] + 1]
        /\ UNCHANGED <<Heir, WaitingUsers>>
    BY <1>1, <1>2, <1>4, LockCounts
  <2>2. Holds[t] = taken[t][TheMutex]
    BY DEF Holds
  <2> QED
    BY <1>2, <2>1, <2>2 DEF Lock!AcquireAgain
<1> QED
  BY <1>3, <1>4 DEF TakeAgain

LEMMA LockReleaseInner ==
    ASSUME IInv, TheMutex \in Mutexes, NEW t \in Threads, ReleaseSection(t),
           obj[t] = TheMutex, ReleaseInner(t, TheMutex)
    PROVE  Lock!ReleaseInner(t)
<1>1. /\ owner[TheMutex] = t /\ pc[t] = "release" /\ UNCHANGED <<owner, queue>>
      /\ hold[TheMutex] > 1 /\ Counted(t, TheMutex, -1)
  BY DEF ReleaseSection, ReleaseInner
<1>2. taken[t][TheMutex] > 1 /\ taken[t][TheMutex] \in Int
  BY <1>1 DEF IInv, OwnerHolds, WillSucceed, TypeOK
<1>3. /\ Holds' = [Holds EXCEPT ![t] = taken[t][TheMutex] + (-1)]
      /\ UNCHANGED <<Heir, WaitingUsers>>
  BY <1>1, <1>2, LockCounts
<1>4. Holds[t] = taken[t][TheMutex]
  BY DEF Holds
<1> QED
  BY <1>2, <1>3, <1>4 DEF Lock!ReleaseInner

\* rt_mutex_take of a mutex with value 1 finds nobody who has it, is to have it or waits.
LEMMA LockTakeFree ==
    ASSUME IInv, TheMutex \in Mutexes, NEW t \in Threads, TakeSection(t),
           obj[t] = TheMutex, TakeFree(t, TheMutex)
    PROVE  Lock!Acquire(t)
<1>1. /\ value[TheMutex] > 0 /\ owner' = [owner EXCEPT ![TheMutex] = t]
      /\ Counted(t, TheMutex, 1) /\ UNCHANGED queue
  BY DEF TakeFree
<1>2. taken \in [Threads -> [Mutexes -> Int]] /\ t # Nobody /\ owner'[TheMutex] = t
  BY <1>1, IpcAssumption DEF IInv, TypeOK
<1>3. owner[TheMutex] = Nobody
  BY <1>1 DEF IInv, WaitersHaveOwner
<1>4. /\ Heir = Nobody /\ WaitingUsers = {} /\ queue[TheMutex] = <<>>
      /\ \A u \in Threads : Holds[u] = 0 /\ taken[u][TheMutex] = 0
  BY <1>3, IpcAssumption, LockSeen
<1>5. \A u \in Threads : taken'[u][TheMutex] = IF u = t THEN 1 ELSE taken[u][TheMutex]
  <2>1. \A u \in Threads : taken'[u][TheMutex] =
           IF u = t THEN taken[t][TheMutex] + 1 ELSE taken[u][TheMutex]
    BY <1>1, <1>2, CountedProperties
  <2> QED
    BY <1>4, <2>1
<1>6. Holds' = [Holds EXCEPT ![t] = 1]
  BY <1>5 DEF Holds
<1>7. Heir' = Nobody
  BY <1>2, <1>5 DEF Heir, Holds
<1>8. WaitingUsers' = {}
  BY <1>1, <1>4 DEF WaitingUsers, ToSet
<1> QED
  BY <1>4, <1>6, <1>7, <1>8 DEF Lock!Acquire, Lock!Free

\* A thread starts to wait only if another one has the mutex or is to have it.
LEMMA LockTakeWaits ==
    ASSUME IInv, TheMutex \in Mutexes, NEW t \in Threads, TakeSection(t),
           obj[t] = TheMutex, TakeWaits(t, TheMutex)
    PROVE  Lock!Wait(t)
<1>1. /\ owner[TheMutex] # t /\ value[TheMutex] = 0 /\ pc[t] = "take"
      /\ UNCHANGED <<owner, taken>>
  BY DEF TakeSection, TakeWaits
<1>2. TypeOK /\ Waiting /\ stat[t] = "RUN" /\ t \notin ToSet(queue[TheMutex]) /\ t # Nobody
  BY <1>1, IpcAssumption DEF IInv, TypeOK, IpcTypeOK, Waiting
<1>3. ToSet(queue'[TheMutex]) = ToSet(queue[TheMutex]) \cup {t}
  BY <1>2, QueueSuspended
<1>4. owner[TheMutex] # Nobody
  BY <1>1 DEF IInv, WaitersHaveOwner
<1>5. ~Lock!Free /\ Holds[t] = 0 /\ Heir # t
  BY <1>1, <1>4, IpcAssumption, LockSeen DEF Lock!Free
<1>6. t \notin WaitingUsers /\ WaitingUsers' = WaitingUsers \cup {t}
  BY <1>1, <1>2, <1>3 DEF WaitingUsers
<1>7. UNCHANGED <<Holds, Heir>>
  BY <1>1 DEF Holds, Heir
<1> QED
  BY <1>5, <1>6, <1>7 DEF Lock!Wait

\* A take that returns RT_EOK is that of the heir.
LEMMA LockTakeReturn ==
    ASSUME IInv, TheMutex \in Mutexes, NEW t \in Threads, TakeReturn(t), obj[t] = TheMutex
    PROVE  Lock!Inherit(t) \/ UNCHANGED View
<1>1. /\ pc[t] = "wait" /\ stat[t] = "RUN" /\ UNCHANGED <<queue, owner>>
      /\ IF error[t] = "EOK" THEN Counted(t, TheMutex, 1) ELSE UNCHANGED taken
  BY DEF TakeReturn, ipcVars
<1>2. CASE error[t] = "EOK"
  <2>1. owner[TheMutex] = t /\ taken[t][TheMutex] = 0 /\ t # Nobody
    BY <1>1, <1>2, IpcAssumption DEF IInv, Asking
  <2>2. Heir = t
    BY <2>1, LockSeen
  <2>3. \A u \in Threads : taken'[u][TheMutex] = IF u = t THEN 1 ELSE taken[u][TheMutex]
    <3>1. taken \in [Threads -> [Mutexes -> Int]]
      BY DEF IInv, TypeOK
    <3>2. \A u \in Threads : taken'[u][TheMutex] =
             IF u = t THEN taken[t][TheMutex] + 1 ELSE taken[u][TheMutex]
      BY <1>1, <1>2, <3>1, CountedProperties
    <3> QED
      BY <2>1, <3>2
  <2>4. Holds' = [Holds EXCEPT ![t] = 1]
    BY <2>3 DEF Holds
  <2>5. Heir' = Nobody
    BY <1>1, <2>1, <2>3 DEF Heir, Holds
  <2>6. UNCHANGED WaitingUsers
    BY <1>1 DEF WaitingUsers
  <2> QED
    BY <2>2, <2>4, <2>5, <2>6 DEF Lock!Inherit
<1>3. CASE error[t] # "EOK"
  BY <1>1, <1>3, LockUnseen
<1> QED
  BY <1>2, <1>3

\* The last release without waiters frees the mutex.
LEMMA LockReleaseFree ==
    ASSUME IInv, TheMutex \in Mutexes, NEW t \in Threads, ReleaseSection(t),
           obj[t] = TheMutex, ReleaseFree(t, TheMutex)
    PROVE  Lock!Release(t)
<1>1. /\ owner[TheMutex] = t /\ hold[TheMutex] = 1 /\ queue[TheMutex] = <<>>
      /\ owner' = [owner EXCEPT ![TheMutex] = Nobody] /\ pc[t] = "release"
      /\ Counted(t, TheMutex, -1) /\ UNCHANGED queue
  BY DEF ReleaseSection, ReleaseFree
<1>2. /\ taken \in [Threads -> [Mutexes -> Int]] /\ t # Nobody /\ owner'[TheMutex] = Nobody
      /\ taken[t][TheMutex] = 1
  BY <1>1, IpcAssumption DEF IInv, TypeOK, OwnerHolds, WillSucceed
<1>3. \A u \in Threads : taken'[u][TheMutex] = IF u = t THEN 0 ELSE taken[u][TheMutex]
  <2>1. \A u \in Threads : taken'[u][TheMutex] =
           IF u = t THEN taken[t][TheMutex] + (-1) ELSE taken[u][TheMutex]
    BY <1>1, <1>2, CountedProperties
  <2> QED
    BY <1>2, <2>1
<1>4. Holds[t] = 1 /\ Holds' = [Holds EXCEPT ![t] = 0]
  BY <1>2, <1>3 DEF Holds
<1>5. Heir = Nobody /\ Heir' = Nobody
  BY <1>1, <1>2, <1>4 DEF Heir
<1>6. WaitingUsers = {} /\ WaitingUsers' = {}
  BY <1>1 DEF WaitingUsers, ToSet
<1> QED
  BY <1>4, <1>5, <1>6 DEF Lock!Release

\* The first of the list is a most urgent one of those that wait: nobody but the owner
\* has a priority that was lent, and the owner is not in the list.
LEMMA FirstMostUrgent ==
    ASSUME IInv, Lent, OneMutex, NEW m \in Mutexes, queue[m] # <<>>,
           owner[m] \notin ToSet(queue[m]), NEW w \in ToSet(queue[m])
    PROVE  /\ Head(queue[m]) \in ToSet(queue[m]) /\ Head(queue[m]) \in Threads
           /\ BasePrio[Head(queue[m])] <= BasePrio[w]
<1>1. queue[m] \in Seq(Threads)
  BY DEF IInv, TypeOK, IpcTypeOK, Mutexes
<1>2. \A u \in ToSet(queue[m]) : u \in Threads
  BY <1>1, LenProperties, ElementOfSeq DEF ToSet
<1>3. Head(queue[m]) \in ToSet(queue[m])
  BY <1>1, HeadProperties
<1>4. \A u \in ToSet(queue[m]) : prio[u] = BasePrio[u]
  BY <1>2 DEF OneMutex, Lent, PriorityRestored
<1>5. PICK i \in 1..Len(queue[m]) : w = queue[m][i]
  BY <1>1, LenProperties DEF ToSet
<1>6. Head(queue[m]) = queue[m][1] /\ 1 \in 1..Len(queue[m]) /\ i \in Nat /\ 1 <= i
  BY <1>1, <1>5
<1>7. prio[Head(queue[m])] \in Nat /\ prio[w] \in Nat
  BY <1>2, <1>3, PrioType DEF IInv
<1>8. prio[Head(queue[m])] <= prio[w]
  BY <1>5, <1>6, <1>7 DEF Lent, ByUrgency
<1> QED
  BY <1>2, <1>3, <1>4, <1>8

\* The last release with waiters passes the mutex to the first of them.
LEMMA LockReleaseHandOver ==
    ASSUME IInv, Lent, OneMutex, TheMutex \in Mutexes, NEW t \in Threads, ReleaseSection(t),
           obj[t] = TheMutex, ReleaseHandOver(t, TheMutex)
    PROVE  \E v \in Threads : Lock!PassTo(t, v)
<1> DEFINE v == Head(queue[TheMutex])
<1>1. /\ owner[TheMutex] = t /\ hold[TheMutex] = 1 /\ queue[TheMutex] # <<>>
      /\ owner' = [owner EXCEPT ![TheMutex] = v] /\ pc[t] = "release"
      /\ spin[TheMutex] = Nobody /\ Counted(t, TheMutex, -1) /\ UNCHANGED queue
  BY DEF ReleaseSection, ReleaseHandOver
<1>2. /\ taken \in [Threads -> [Mutexes -> Int]] /\ t # Nobody /\ owner'[TheMutex] = v
      /\ taken[t][TheMutex] = 1
  BY <1>1, IpcAssumption DEF IInv, TypeOK, OwnerHolds, WillSucceed
<1>3. t \notin ToSet(queue[TheMutex])
  BY <1>1 DEF IInv, Owners
<1>4. /\ v \in ToSet(queue[TheMutex]) /\ v \in Threads /\ v # t /\ v # Nobody
      /\ \A w \in ToSet(queue[TheMutex]) : BasePrio[v] <= BasePrio[w]
  <2>1. queue[TheMutex] \in Seq(Threads)
    BY DEF IInv, TypeOK, IpcTypeOK, Mutexes
  <2>2. v \in ToSet(queue[TheMutex])
    BY <1>1, <2>1, HeadProperties
  <2>3. \A w \in ToSet(queue[TheMutex]) : v \in Threads /\ BasePrio[v] <= BasePrio[w]
    BY <1>1, <1>3, FirstMostUrgent
  <2> QED
    BY <1>3, <2>2, <2>3, IpcAssumption
<1> HIDE DEF v
<1>5. \A u \in Threads : taken'[u][TheMutex] = IF u = t THEN 0 ELSE taken[u][TheMutex]
  <2>1. \A u \in Threads : taken'[u][TheMutex] =
           IF u = t THEN taken[t][TheMutex] + (-1) ELSE taken[u][TheMutex]
    BY <1>1, <1>2, CountedProperties
  <2> QED
    BY <1>2, <2>1
<1>6. Holds[t] = 1 /\ Holds' = [Holds EXCEPT ![t] = 0]
  BY <1>2, <1>5 DEF Holds
<1>7. taken[v][TheMutex] = 0
  BY <1>1, <1>4 DEF IInv, OwnerHolds
<1>8. Heir' = v
  BY <1>2, <1>4, <1>5, <1>7 DEF Heir, Holds
<1>9. WaitingUsers = ToSet(queue[TheMutex]) /\ WaitingUsers' = WaitingUsers \ {v}
  BY <1>1, <1>2, <1>3 DEF WaitingUsers
<1> QED
  BY <1>4, <1>6, <1>8, <1>9 DEF Lock!PassTo

\* A timeout that is handled makes a waiter give up that is not the owner.
LEMMA LockTimeout ==
    ASSUME IInv, Exclusive, OneMutex, TheMutex \in Mutexes, NEW t \in Threads,
           NEW c \in Cpus, ThreadTimeout(c, t), UNCHANGED mutexVars
    PROVE  Lock!GiveUp(t)
<1>1. /\ expired[c] = t /\ stat[t] = "SUSPEND" /\ queue' = Unlink(queue, t)
      /\ UNCHANGED <<owner, taken>>
  BY DEF ThreadTimeout, mutexVars
<1>2. spin[TheMutex] = Nobody
  <2>1. \A u \in Threads : pc[u] \notin InSection
    BY <1>1, IpcAssumption, TimeoutAlone
  <2> QED
    BY <2>1 DEF IInv, Handing, InSection, TypeOK
<1>3. t \in ToSet(queue[TheMutex]) /\ t # owner[TheMutex]
  BY <1>1, <1>2 DEF IInv, Waiting, OneMutex, Owners, TypeOK
<1>4. ToSet(queue'[TheMutex]) = ToSet(queue[TheMutex]) \ {t}
  BY <1>1, QueueUnlinked DEF IInv
<1>5. t \in WaitingUsers /\ WaitingUsers' = WaitingUsers \ {t}
  BY <1>1, <1>3, <1>4 DEF WaitingUsers
<1>6. UNCHANGED <<Holds, Heir>>
  BY <1>1 DEF Holds, Heir
<1> QED
  BY <1>5, <1>6 DEF Lock!GiveUp

\* The thread that a release wakes owns the mutex already.
LEMMA LockWake ==
    ASSUME IInv, OneMutex, TheMutex \in Mutexes, NEW t \in Threads, ResumeWake(t)
    PROVE  UNCHANGED View
<1>1. /\ pc[t] = "wake" /\ queue' = Unlink(queue, target[t]) /\ UNCHANGED <<owner, taken>>
  BY DEF ResumeWake, WakeUp
<1>2. target[t] = owner[TheMutex]
  BY <1>1 DEF IInv, Handing, OneMutex, TypeOK
<1>3. ToSet(queue'[TheMutex]) = ToSet(queue[TheMutex]) \ {target[t]}
  BY <1>1, QueueUnlinked DEF IInv
<1> QED
  BY <1>1, <1>2, <1>3, LockUnseen

\* Every step of the mutex is one of the abstract lock, or none.
LEMMA LockStep ==
    ASSUME Exclusive, OneMutex, IInv, Lent, TheMutex \in Mutexes, [Next]_vars
    PROVE  [Lock!Next]_View
<1>1. ASSUME NEW t \in Threads, TakeSection(t) PROVE [Lock!Next]_View
  <2>1. obj[t] = TheMutex
    BY DEF OneMutex, IInv, TypeOK
  <2>2. CASE TakeFails(t, TheMutex)
    <3>1. UNCHANGED <<owner, taken, queue>>
      BY <2>2 DEF TakeFails
    <3> QED
      BY <3>1, LockUnseen
  <2> QED
    BY <1>1, <2>1, <2>2, LockTakeAgain, LockTakeFree, LockTakeWaits DEF TakeSection, Lock!Next
<1>2. ASSUME NEW t \in Threads, TakeReturn(t) PROVE [Lock!Next]_View
  <2>1. obj[t] = TheMutex
    BY DEF OneMutex, IInv, TypeOK
  <2> QED
    BY <1>2, <2>1, LockTakeReturn DEF Lock!Next
<1>3. ASSUME NEW t \in Threads, ReleaseSection(t) PROVE [Lock!Next]_View
  <2>1. obj[t] = TheMutex
    BY DEF OneMutex, IInv, TypeOK
  <2>2. CASE ReleaseRefused(t, TheMutex)
    <3>1. UNCHANGED <<owner, taken, queue>>
      BY <1>3, <2>2 DEF ReleaseSection, ReleaseRefused
    <3> QED
      BY <3>1, LockUnseen
  <2> QED
    BY <1>3, <2>1, <2>2, LockReleaseInner, LockReleaseFree, LockReleaseHandOver
       DEF ReleaseSection, Lock!Next
<1>4. ASSUME NEW t \in Threads, ResumeTest(t) PROVE [Lock!Next]_View
  <2>1. UNCHANGED <<owner, taken, queue>>
    BY <1>4 DEF ResumeTest
  <2> QED
    BY <2>1, LockUnseen
<1>5. ASSUME NEW t \in Threads, ResumeWake(t) PROVE [Lock!Next]_View
  BY <1>5, LockWake
<1>6. ASSUME NEW t \in Threads, NEW m \in Mutexes,
             ReleaseCall(t, m) \/ \E time \in Waits : TakeCall(t, m, time)
      PROVE  [Lock!Next]_View
  <2>1. UNCHANGED <<owner, taken, queue>>
    BY <1>6 DEF ReleaseCall, TakeCall
  <2> QED
    BY <2>1, LockUnseen
<1>7. ASSUME NEW t \in Threads, Timeout(t) PROVE [Lock!Next]_View
  <2>1. ASSUME NEW c \in Cpus, TimerExpires(c, t), UNCHANGED mutexVars
        PROVE  [Lock!Next]_View
    <3>1. UNCHANGED <<owner, taken, queue>>
      BY <2>1 DEF TimerExpires, mutexVars
    <3> QED
      BY <3>1, LockUnseen
  <2> QED
    BY <1>7, <2>1, LockTimeout DEF Timeout, Lock!Next
<1>8. CASE UNCHANGED vars
  <2>1. UNCHANGED <<owner, taken, queue>>
    BY <1>8 DEF vars, ipcVars, mutexVars
  <2> QED
    BY <2>1, LockUnseen
<1> QED
  BY <1>1, <1>2, <1>3, <1>4, <1>5, <1>6, <1>7, <1>8 DEF Next, ThreadStep

\* The mutex implements PriorityLock, for any threads and priorities: what its users are
\* told by rt_mutex_take and rt_mutex_release is a lock that one of them has at a time,
\* that is passed to a most urgent waiter and cannot be taken by anybody else before that
\* one has returned from its rt_mutex_take, and that nobody waits for while it is free.
THEOREM MutexPassesByUrgency ==
    ASSUME Exclusive, OneMutex PROVE Spec => PassesByUrgency
<1> DEFINE Inv == IInv /\ Lent /\ TheMutex \in Mutexes
<1>1. Init => Inv /\ Lock!Init
  <2> SUFFICES ASSUME Init PROVE Inv /\ Lock!Init
    OBVIOUS
  <2>1. IInv /\ Lent
    BY InitInv, LentInit
  <2>2. TheMutex \in Mutexes
    BY DEF Init, TheMutex
  <2>3. Holds = [t \in Threads |-> 0]
    BY <2>2 DEF Init, Holds
  <2>4. owner[TheMutex] = Nobody
    BY <2>2 DEF Init
  <2>5. Heir = Nobody /\ WaitingUsers = {}
    BY <2>1, <2>2, <2>4, LockSeen
  <2> QED
    BY <2>1, <2>2, <2>3, <2>5 DEF Lock!Init
<1>2. Inv /\ [Next]_vars => Inv'
  BY InvStep, LentStep
<1>3. Inv /\ [Next]_vars => [Lock!Next]_View
  BY LockStep
<1> HIDE DEF Inv
<1> QED
  BY <1>1, <1>2, <1>3, PTL DEF Spec, PassesByUrgency, Lock!Spec, Lock!vars, View
=============================================================================
