---------------------------- MODULE IpcObjectProofs ----------------------------
(***************************************************************************)
(* What the steps of IpcObject do to the lists of waiting threads, for every *)
(* set of threads, cores and lists: each keeps IpcTypeOK and                *)
(* SuspendedIsLinked, and adds or removes the thread it is about.           *)
(***************************************************************************)
EXTENDS IpcObject, ListProofs

\* No thread waits initially.
LEMMA IpcInitLinked ==
    ASSUME IpcInit PROVE IpcTypeOK /\ SuspendedIsLinked
<1> USE IpcAssumption DEF IpcInit
<1>1. IpcTypeOK
  BY DEF IpcTypeOK, Errors
<1>2. ToSet(<<>>) = {} /\ IsInjective(<<>>)
  BY DEF ToSet, IsInjective
<1>3. SuspendedIsLinked
  BY <1>2 DEF SuspendedIsLinked
<1> QED
  BY <1>1, <1>3

\* A woken or timed-out thread leaves the list it is in; the others stay.
LEMMA UnlinkProperties ==
    ASSUME NEW q \in [Lists -> Seq(Threads)], \A l \in Lists : IsInjective(q[l]), NEW t
    PROVE  /\ Unlink(q, t) \in [Lists -> Seq(Threads)]
           /\ \A l \in Lists : /\ ToSet(Unlink(q, t)[l]) = ToSet(q[l]) \ {t}
                               /\ IsInjective(Unlink(q, t)[l])
<1>1. DOMAIN q = Lists
  OBVIOUS
<1>2. ASSUME NEW l \in Lists
      PROVE  /\ Unlink(q, t)[l] \in Seq(Threads)
             /\ ToSet(Unlink(q, t)[l]) = ToSet(q[l]) \ {t}
             /\ IsInjective(Unlink(q, t)[l])
  <2>1. Unlink(q, t)[l] = Without(q[l], t)
    BY <1>1 DEF Unlink
  <2> QED
    BY <2>1, WithoutProperties
<1>3. Unlink(q, t) = [l \in Lists |-> Unlink(q, t)[l]]
  BY <1>1 DEF Unlink
<1> QED
  BY <1>2, <1>3

\* The place of a thread that is about to wait.
LEMMA PlaceUnlinked ==
    ASSUME IpcTypeOK, SuspendedIsLinked, NEW t \in Threads, NEW l \in Lists, stat[t] = "RUN",
           NEW flag, NEW priority
    PROVE  LET p == Place(Unlink(queue, t)[l], t, flag, priority)
           IN  p \in Seq(Threads) /\ ToSet(p) = ToSet(queue[l]) \cup {t} /\ IsInjective(p)
<1> DEFINE u == Unlink(queue, t)
<1>1. /\ queue \in [Lists -> Seq(Threads)] /\ \A k \in Lists : IsInjective(queue[k])
      /\ t \notin ToSet(queue[l])
  BY DEF IpcTypeOK, SuspendedIsLinked
<1>2. u[l] \in Seq(Threads) /\ ToSet(u[l]) = ToSet(queue[l]) \ {t} /\ IsInjective(u[l])
  BY ONLY <1>1, UnlinkProperties, l \in Lists
<1> HIDE DEF u
<1>3. ToSet(u[l]) = ToSet(queue[l]) /\ t \notin ToSet(u[l])
  BY ONLY <1>1, <1>2
<1>4. LET p == Place(u[l], t, flag, priority)
      IN  p \in Seq(Threads) /\ ToSet(p) = ToSet(u[l]) \cup {t} /\ IsInjective(p)
  BY ONLY <1>2, <1>3, PlaceProperties, t \in Threads
<1> QED
  BY <1>3, <1>4 DEF u

\* A thread that starts to wait is linked into the list, and into no other.
LEMMA ListSuspendLinks ==
    ASSUME IpcTypeOK, SuspendedIsLinked, NEW t \in Threads, NEW l \in Lists,
           NEW p, p \in Seq(Threads),
           ToSet(p) = ToSet(queue[l]) \cup {t}, IsInjective(p),
           stat[t] = "RUN", stat' = [stat EXCEPT ![t] = "SUSPEND"],
           queue' = [Unlink(queue, t) EXCEPT ![l] = p]
    PROVE  /\ queue' \in [Lists -> Seq(Threads)] /\ SuspendedIsLinked'
           /\ \A k \in Lists : ToSet(queue'[k]) = IF k = l THEN ToSet(queue[k]) \cup {t}
                                                  ELSE ToSet(queue[k])
<1> DEFINE u == Unlink(queue, t)
<1>1. /\ queue \in [Lists -> Seq(Threads)] /\ \A k \in Lists : IsInjective(queue[k])
      /\ \A k \in Lists : t \notin ToSet(queue[k])
  BY DEF IpcTypeOK, SuspendedIsLinked
<1>2. /\ u \in [Lists -> Seq(Threads)]
      /\ \A k \in Lists : ToSet(u[k]) = ToSet(queue[k]) \ {t} /\ IsInjective(u[k])
  BY ONLY <1>1, UnlinkProperties
<1>3. queue' = [u EXCEPT ![l] = p]
  OBVIOUS
<1>4. \A k \in Lists : ToSet(u[k]) = ToSet(queue[k])
  BY ONLY <1>1, <1>2
<1> HIDE DEF u
<1>5. p \in Seq(Threads) /\ ToSet(p) = ToSet(queue[l]) \cup {t} /\ IsInjective(p)
  OBVIOUS
<1>6. /\ queue' \in [Lists -> Seq(Threads)] /\ \A k \in Lists : IsInjective(queue'[k])
      /\ \A k \in Lists : ToSet(queue'[k]) = IF k = l THEN ToSet(queue[k]) \cup {t}
                                             ELSE ToSet(queue[k])
  BY ONLY <1>2, <1>3, <1>4, <1>5, l \in Lists
<1>7. SuspendedIsLinked'
  <2>1. ASSUME NEW s \in Threads
        PROVE  stat'[s] = "SUSPEND" <=> \E k \in Lists : s \in ToSet(queue'[k])
    <3>1. stat[s] = "SUSPEND" <=> \E k \in Lists : s \in ToSet(queue[k])
      BY DEF SuspendedIsLinked
    <3>2. stat'[s] = IF s = t THEN "SUSPEND" ELSE stat[s]
      BY DEF IpcTypeOK
    <3> QED
      BY <1>6, <3>1, <3>2
  <2>2. \A k, m \in Lists : k # m => ToSet(queue'[k]) \cap ToSet(queue'[m]) = {}
    <3> SUFFICES ASSUME NEW k \in Lists, NEW m \in Lists, k # m,
                        NEW s, s \in ToSet(queue'[k]), s \in ToSet(queue'[m])
                 PROVE  FALSE
      OBVIOUS
    <3>1. ~(s \in ToSet(queue[k]) /\ s \in ToSet(queue[m]))
      BY DEF SuspendedIsLinked
    <3>2. /\ s \in ToSet(queue[k]) \/ (k = l /\ s = t)
          /\ s \in ToSet(queue[m]) \/ (m = l /\ s = t)
      BY <1>6
    <3> QED
      BY <1>1, <3>1, <3>2
  <2> QED
    BY <1>6, <2>1, <2>2 DEF SuspendedIsLinked
<1> QED
  BY <1>6, <1>7

\* A thread that becomes ready leaves the list it is in.
LEMMA RunUnlinks ==
    ASSUME IpcTypeOK, SuspendedIsLinked, NEW t \in Threads,
           stat' = [stat EXCEPT ![t] = "RUN"], queue' = Unlink(queue, t)
    PROVE  /\ queue' \in [Lists -> Seq(Threads)] /\ SuspendedIsLinked'
           /\ \A k \in Lists : ToSet(queue'[k]) = ToSet(queue[k]) \ {t}
<1>1. queue \in [Lists -> Seq(Threads)] /\ \A k \in Lists : IsInjective(queue[k])
  BY DEF IpcTypeOK, SuspendedIsLinked
<1>2. /\ queue' \in [Lists -> Seq(Threads)]
      /\ \A k \in Lists : ToSet(queue'[k]) = ToSet(queue[k]) \ {t} /\ IsInjective(queue'[k])
  BY ONLY <1>1, queue' = Unlink(queue, t), UnlinkProperties
<1>3. SuspendedIsLinked'
  BY <1>2 DEF IpcTypeOK, SuspendedIsLinked
<1> QED
  BY <1>2, <1>3

\* The first thread of a list is suspended and in no other list.
LEMMA HeadSuspended ==
    ASSUME IpcTypeOK, SuspendedIsLinked, NEW l \in Lists, queue[l] # <<>>
    PROVE  /\ Head(queue[l]) \in Threads /\ Head(queue[l]) \in ToSet(queue[l])
           /\ stat[Head(queue[l])] = "SUSPEND"
           /\ \A k \in Lists : k # l => Head(queue[l]) \notin ToSet(queue[k])
<1>1. queue[l] \in Seq(Threads)
  BY DEF IpcTypeOK
<1>2. Head(queue[l]) \in Threads /\ Head(queue[l]) \in ToSet(queue[l])
  BY <1>1, HeadProperties
<1> QED
  BY <1>2 DEF SuspendedIsLinked

\* The resumption of the first thread of a list, whatever its error becomes.
LEMMA HeadResumed ==
    ASSUME IpcTypeOK, SuspendedIsLinked, NEW l \in Lists, queue[l] # <<>>,
           ThreadResume(Head(queue[l])), error' \in [Threads -> Errors],
           UNCHANGED <<irqoff, expired>>
    PROVE  /\ IpcTypeOK' /\ SuspendedIsLinked'
           /\ stat' = [stat EXCEPT ![Head(queue[l])] = "RUN"]
           /\ \A k \in Lists : ToSet(queue'[k]) = ToSet(queue[k]) \ {Head(queue[l])}
<1> DEFINE h == Head(queue[l])
<1>1. h \in Threads /\ stat[h] = "SUSPEND"
  BY HeadSuspended
<1>2. WakeUp(h)
  BY <1>1 DEF ThreadResume
<1> HIDE DEF h
<1>3. /\ queue' \in [Lists -> Seq(Threads)] /\ SuspendedIsLinked'
      /\ \A k \in Lists : ToSet(queue'[k]) = ToSet(queue[k]) \ {h}
  BY <1>1, <1>2, RunUnlinks DEF WakeUp
<1>4. IpcTypeOK'
  BY <1>1, <1>2, <1>3 DEF IpcTypeOK, WakeUp
<1> QED
  BY <1>2, <1>3, <1>4 DEF WakeUp, h

\* The two steps of a thread's timeout.
LEMMA TimeoutUnlinks ==
    ASSUME IpcTypeOK, SuspendedIsLinked, NEW c \in Cpus, NEW t \in Threads,
           TimerExpires(c, t) \/ ThreadTimeout(c, t)
    PROVE  /\ IpcTypeOK' /\ SuspendedIsLinked'
           /\ \/ UNCHANGED <<stat, error, queue>>
              \/ /\ stat[t] = "SUSPEND" /\ stat' = [stat EXCEPT ![t] = "RUN"]
                 /\ error' = [error EXCEPT ![t] = "ETIMEOUT"]
                 /\ \A k \in Lists : ToSet(queue'[k]) = ToSet(queue[k]) \ {t}
<1>1. CASE TimerExpires(c, t)
  BY <1>1 DEF TimerExpires, IpcTypeOK, SuspendedIsLinked
<1>2. CASE ThreadTimeout(c, t)
  <2>1. /\ stat[t] = "SUSPEND" /\ stat' = [stat EXCEPT ![t] = "RUN"]
        /\ error' = [error EXCEPT ![t] = "ETIMEOUT"] /\ queue' = Unlink(queue, t)
        /\ expired' = [expired EXCEPT ![c] = Nobody] /\ UNCHANGED <<timer, irqoff>>
    BY <1>2 DEF ThreadTimeout
  <2>2. /\ queue' \in [Lists -> Seq(Threads)] /\ SuspendedIsLinked'
        /\ \A k \in Lists : ToSet(queue'[k]) = ToSet(queue[k]) \ {t}
    BY <2>1, RunUnlinks
  <2>3. IpcTypeOK'
    BY <2>1, <2>2 DEF IpcTypeOK, Errors
  <2> QED
    BY <2>1, <2>2, <2>3
<1> QED
  BY <1>1, <1>2

-----------------------------------------------------------------------------
(* The timeouts of one core *)

\* One core uses the objects: a thread's timeout and its steps exclude each other.
OneCpu == \A c, d \in Cpus : c = d

\* A thread whose timer runs is suspended, and so is the one whose timeout is being
\* handled, with its timer off.
Timeouts ==
    /\ stat \in [Threads -> {"RUN", "SUSPEND"}] /\ timer \in [Threads -> BOOLEAN]
    /\ expired \in [Cpus -> Threads \cup {Nobody}]
    /\ \A t \in Threads : timer[t] => stat[t] = "SUSPEND"
    /\ \A c \in Cpus : expired[c] # Nobody => stat[expired[c]] = "SUSPEND" /\ ~timer[expired[c]]

\* What a thread's step does to stat and to the timers: nothing, one thread falls
\* asleep, one is woken, or several are.
Suspends == \E u : \E timed \in BOOLEAN :
    stat' = [stat EXCEPT ![u] = "SUSPEND"] /\ timer' = [timer EXCEPT ![u] = timed]
Wakes == \E u :
    stat' = [stat EXCEPT ![u] = "RUN"] /\ timer' = [timer EXCEPT ![u] = FALSE]
WakesAll == \E woken :
    /\ stat' = [u \in Threads |-> IF u \in woken THEN "RUN" ELSE stat[u]]
    /\ timer' = [u \in Threads |-> timer[u] /\ u \notin woken]
ThreadsMove ==
    /\ expired' = expired
    /\ UNCHANGED <<stat, timer>> \/ Suspends \/ Wakes \/ WakesAll

LEMMA InitTimeouts == ASSUME IpcInit PROVE Timeouts
  BY IpcAssumption DEF IpcInit, Timeouts

\* A step of a thread keeps them: its core handles no timeout meanwhile.
LEMMA MoveKeepsTimeouts ==
    ASSUME OneCpu, Timeouts, NEW t \in Threads, OnCpu(t), ThreadsMove
    PROVE  Timeouts'
<1>1. \A c \in Cpus : expired[c] = Nobody
  BY IpcAssumption DEF OneCpu, OnCpu
<1>2. /\ stat \in [Threads -> {"RUN", "SUSPEND"}] /\ timer \in [Threads -> BOOLEAN]
      /\ \A v \in Threads : timer[v] => stat[v] = "SUSPEND"
  BY DEF Timeouts
<1>3. /\ stat' \in [Threads -> {"RUN", "SUSPEND"}] /\ timer' \in [Threads -> BOOLEAN]
      /\ \A v \in Threads : timer'[v] => stat'[v] = "SUSPEND"
  <2>1. CASE UNCHANGED <<stat, timer>>
    BY <1>2, <2>1
  <2>2. CASE Suspends
    <3>1. PICK u : \E timed \in BOOLEAN : stat' = [stat EXCEPT ![u] = "SUSPEND"]
                                             /\ timer' = [timer EXCEPT ![u] = timed]
      BY <2>2 DEF Suspends
    <3> QED
      BY <1>2, <3>1
  <2>3. CASE Wakes
    <3>1. PICK u : stat' = [stat EXCEPT ![u] = "RUN"] /\ timer' = [timer EXCEPT ![u] = FALSE]
      BY <2>3 DEF Wakes
    <3> QED
      BY <1>2, <3>1
  <2>4. CASE WakesAll
    <3>1. PICK woken :
            /\ stat' = [u \in Threads |-> IF u \in woken THEN "RUN" ELSE stat[u]]
            /\ timer' = [u \in Threads |-> timer[u] /\ u \notin woken]
      BY <2>4 DEF WakesAll
    <3> QED
      BY <1>2, <3>1
  <2> QED
    BY <2>1, <2>2, <2>3, <2>4 DEF ThreadsMove
<1> QED
  BY <1>1, <1>3 DEF Timeouts, ThreadsMove

\* So do the expiry of a timer and the rt_thread_timeout that follows.
LEMMA TimeoutKeepsTimeouts ==
    ASSUME OneCpu, Timeouts, NEW c \in Cpus, NEW t \in Threads,
           TimerExpires(c, t) \/ ThreadTimeout(c, t)
    PROVE  Timeouts'
<1>1. Nobody \notin Threads
  BY IpcAssumption
<1>2. CASE TimerExpires(c, t)
  BY <1>1, <1>2 DEF TimerExpires, Timeouts, OneCpu
<1>3. CASE ThreadTimeout(c, t)
  BY <1>1, <1>3 DEF ThreadTimeout, Timeouts, OneCpu
<1> QED
  BY <1>2, <1>3

LEMMA StutterKeepsTimeouts == ASSUME Timeouts, UNCHANGED ipcVars PROVE Timeouts'
  BY DEF Timeouts, ipcVars

\* A thread falls asleep, or one is woken.
LEMMA SleepMoves ==
    ASSUME NEW u, NEW l, NEW flag, NEW prio, NEW timed \in BOOLEAN,
           ListSuspend(u, l, flag, prio, timed), expired' = expired
    PROVE  ThreadsMove
  BY DEF ListSuspend, ThreadsMove, Suspends

LEMMA ResumeMoves ==
    ASSUME NEW u, ThreadResume(u), expired' = expired PROVE ThreadsMove
  BY DEF ThreadResume, WakeUp, ThreadsMove, Wakes

LEMMA TimeoutsSound == Timeouts => TimeoutFindsSuspended
  BY DEF Timeouts, TimeoutFindsSuspended
=============================================================================
