---------------------------------- MODULE Timer ----------------------------------
(***************************************************************************)
(* The timers of rt-thread/src/timer.c on one core: rt_timer_start,         *)
(* rt_timer_stop (and detach, delete), rt_timer_control, and rt_timer_check *)
(* that rt_tick_increase calls after each tick.  Ticks are counted modulo   *)
(* 2^w.  The functions run with interrupts disabled; timeout functions run  *)
(* in the middle of rt_timer_check and may start and stop timers, the one   *)
(* that has just expired included.                                          *)
(*                                                                         *)
(* The second core checks the same list by its own tick and under its own   *)
(* interrupt mask; that is not modelled.                                    *)
(***************************************************************************)
EXTENDS ThreadList

CONSTANTS Timers,      \* the timers
          NoTimer,     \* none of them
          TickMod,     \* RT_TICK_MAX + 1
          Times        \* the periods used

ASSUME TimerAssumption ==
    /\ NoTimer \notin Timers
    /\ TickMod \in Nat \ {0} /\ Times # {}
    \* RT_ASSERT(timer->init_tick < RT_TICK_MAX / 2)
    /\ Times \subseteq 1..((TickMod - 1) \div 2 - 1)

VARIABLES tick,        \* rt_tick_get()
          timerList,   \* _timer_list
          firing,      \* the list of rt_timer_check: the timer whose function runs, or none
          current,     \* `t` of rt_timer_check
          check,       \* where rt_timer_check is: "none", "loop" or "callback"
          timeoutTick, \* timer->timeout_tick
          initTick,    \* timer->init_tick
          periodic,    \* RT_TIMER_FLAG_PERIODIC
          activated,   \* RT_TIMER_FLAG_ACTIVATED
          left,        \* history: ticks until the timer is due
          started      \* history: the timers in the order of their starts

timerVars == <<tick, timerList, firing, current, check, timeoutTick,
               initTick, periodic, activated, left, started>>

Half == (TickMod - 1) \div 2       \* RT_TICK_MAX / 2
Since(x, y) == (x - y) % TickMod   \* x - y of two rt_tick_t

TimerInit ==
    /\ tick = 0
    /\ timerList = <<>>
    /\ firing = NoTimer /\ current = NoTimer /\ check = "none"
    /\ timeoutTick = [t \in Timers |-> 0]
    /\ initTick = [t \in Timers |-> CHOOSE time \in Times : TRUE]
    /\ periodic = [t \in Timers |-> FALSE]
    /\ activated = [t \in Timers |-> FALSE]
    /\ left = [t \in Timers |-> 0]
    /\ started = <<>>

-----------------------------------------------------------------------------
(* _timer_remove, and the insertion of rt_timer_start *)

Dropped(s, t) == Without(s, t)

\* Seeded fault: a new timer comes before the timers of the same deadline.
InsertBefore(s, t, deadline) ==
    LET Later == {i \in DOMAIN s : Since(timeoutTick[s[i]], deadline) < Half}
    IN  IF Later = {} THEN Append(s, t) ELSE InsertAt(s, Min(Later), t)

\* Before the first timer that is due strictly later.
Insert(s, t, deadline) ==
    LET Later == {i \in DOMAIN s : /\ timeoutTick[s[i]] # deadline
                                   /\ Since(timeoutTick[s[i]], deadline) < Half}
    IN  IF Later = {} THEN Append(s, t) ELSE InsertAt(s, Min(Later), t)

\* rt_timer_start(timer)
StartTimer(t) ==
    LET deadline == (tick + initTick[t]) % TickMod
    IN  /\ timerList' = Insert(Dropped(timerList, t), t, deadline)
        /\ timeoutTick' = [timeoutTick EXCEPT ![t] = deadline]
        /\ activated' = [activated EXCEPT ![t] = TRUE]
        /\ left' = [left EXCEPT ![t] = initTick[t]]
        /\ started' = Append(Dropped(started, t), t)

-----------------------------------------------------------------------------
(* Operations, from threads and from timeout functions *)

\* A timeout function runs, or a thread while no check is under way.
Running == check \in {"none", "callback"}

\* rt_timer_start removes the timer from whichever list it is in.
Start(t) ==
    /\ Running
    /\ StartTimer(t)
    /\ firing' = IF firing = t THEN NoTimer ELSE firing
    /\ UNCHANGED <<tick, current, check, initTick, periodic>>

\* rt_timer_stop of a timer that is not activated returns -RT_ERROR.
Stop(t) ==
    /\ Running /\ activated[t]
    /\ timerList' = Dropped(timerList, t)
    /\ firing' = IF firing = t THEN NoTimer ELSE firing
    /\ activated' = [activated EXCEPT ![t] = FALSE]
    /\ left' = [left EXCEPT ![t] = 0]
    /\ started' = Dropped(started, t)
    /\ UNCHANGED <<tick, current, check, timeoutTick, initTick, periodic>>

\* rt_timer_detach and rt_timer_delete of a timer that is used no more, and of
\* one that rt_timer_init sets up again.
Detach(t) ==
    /\ Running
    /\ timerList' = Dropped(timerList, t)
    /\ firing' = IF firing = t THEN NoTimer ELSE firing
    /\ activated' = [activated EXCEPT ![t] = FALSE]
    /\ left' = [left EXCEPT ![t] = 0]
    /\ started' = Dropped(started, t)
    /\ UNCHANGED <<tick, current, check, timeoutTick, initTick, periodic>>

\* rt_timer_control(RT_TIMER_CTRL_SET_TIME): it takes effect with the next start.
SetTime(t, time) ==
    /\ Running
    /\ initTick' = [initTick EXCEPT ![t] = time]
    /\ UNCHANGED <<tick, timerList, firing, current, check, timeoutTick, periodic,
                   activated, left, started>>

\* RT_TIMER_CTRL_SET_ONESHOT, RT_TIMER_CTRL_SET_PERIODIC.  A timeout function
\* does not use them on its own timer: ACTIVATED, which was cleared for a
\* one-shot timer only, would no longer say whether the timer is in the list.
SetPeriodic(t, flag) ==
    /\ Running /\ ~(check = "callback" /\ t = current)
    /\ periodic' = [periodic EXCEPT ![t] = flag]
    /\ UNCHANGED <<tick, timerList, firing, current, check, timeoutTick, initTick,
                   activated, left, started>>

-----------------------------------------------------------------------------
(* rt_tick_increase and rt_timer_check *)

Tick ==
    /\ check = "none"
    /\ tick' = (tick + 1) % TickMod
    /\ left' = [t \in Timers |-> IF t \in ToSet(timerList) THEN left[t] - 1 ELSE left[t]]
    /\ check' = "loop"
    /\ UNCHANGED <<timerList, firing, current, timeoutTick, initTick, periodic, activated, started>>

\* (current_tick - t->timeout_tick) < RT_TICK_MAX / 2
Due(t) == Since(tick, timeoutTick[t]) < Half

\* The first timer of the list is due: it leaves the list and its function is called.
Expire ==
    /\ check = "loop" /\ timerList # <<>> /\ Due(Head(timerList))
    /\ LET t == Head(timerList)
       IN  /\ timerList' = Tail(timerList)
           /\ firing' = t /\ current' = t
           /\ activated' = [activated EXCEPT ![t] = periodic[t]]
           /\ started' = Dropped(started, t)
    /\ check' = "callback"
    /\ UNCHANGED <<tick, timeoutTick, initTick, periodic, left>>

\* The function returns: unless it stopped or started its timer (the list of
\* rt_timer_check is then empty) a periodic timer is started again.
FunctionReturns ==
    /\ check = "callback"
    /\ firing' = NoTimer /\ check' = "loop"
    /\ IF firing # NoTimer /\ periodic[current] /\ activated[current]
       THEN StartTimer(current)
       ELSE UNCHANGED <<timerList, timeoutTick, activated, left, started>>
    /\ UNCHANGED <<tick, current, initTick, periodic>>

CheckDone ==
    /\ check = "loop" /\ (timerList # <<>> => ~Due(Head(timerList)))
    /\ check' = "none" /\ current' = NoTimer
    /\ UNCHANGED <<tick, timerList, firing, timeoutTick, initTick, periodic, activated, left, started>>

TimerNext ==
    \/ \E t \in Timers :
          \/ Start(t) \/ Stop(t) \/ Detach(t)
          \/ \E time \in Times : SetTime(t, time)
          \/ \E flag \in BOOLEAN : SetPeriodic(t, flag)
    \/ Tick \/ Expire \/ FunctionReturns \/ CheckDone

TimerSpec == TimerInit /\ [][TimerNext]_timerVars

-----------------------------------------------------------------------------
(* Properties *)

TimerTypeOK ==
    /\ tick \in 0..TickMod - 1
    /\ timerList \in Seq(Timers)
    /\ firing \in Timers \cup {NoTimer} /\ current \in Timers \cup {NoTimer}
    /\ check \in {"none", "loop", "callback"}
    /\ timeoutTick \in [Timers -> 0..TickMod - 1]
    /\ initTick \in [Timers -> Times]
    /\ periodic \in [Timers -> BOOLEAN] /\ activated \in [Timers -> BOOLEAN]
    /\ left \in [Timers -> 0..Half]

\* RT_TIMER_FLAG_ACTIVATED tells whether a timer is going to fire: it is in the
\* timer list, once, or is the periodic timer whose function is running.
ActivatedIsListed ==
    /\ IsInjective(timerList)
    /\ \A t \in Timers :
          activated[t] <=> t \in ToSet(timerList) \/ (t = firing /\ periodic[t])

\* t is somewhere before u.
Before(s, t, u) == \E i, j \in DOMAIN s : i < j /\ s[i] = t /\ s[j] = u

\* "the timer inserted early get called early": the list is sorted by deadline,
\* across the wrap-around of the tick, and by start among equal deadlines.
EarliestFirst ==
    \A t, u \in Timers :
        Before(timerList, t, u) =>
            left[t] < left[u] \/ (left[t] = left[u] /\ Before(started, t, u))

\* A timer fires exactly at the tick it is due, neither early nor late, although
\* ticks wrap around and functions start and stop timers during the check.
FiresOnTime ==
    /\ check = "none" => \A t \in ToSet(timerList) : left[t] > 0
    /\ check # "none" => \A t \in ToSet(timerList) : Due(t) => left[t] = 0

\* What the users of rt_timer_start rely on, through every start, stop and restart
\* by threads and timeout functions: what is activated is in the list, the list is
\* in order and each timer expires at its tick.
TimersOnTime == ActivatedIsListed /\ EarliestFirst /\ FiresOnTime
=============================================================================
