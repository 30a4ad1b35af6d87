---------------------------------- MODULE Event ----------------------------------
(***************************************************************************)
(* The event set of rt-thread/src/ipc.c: rt_event_send, rt_event_recv,      *)
(* rt_event_control(RT_IPC_CMD_RESET), rt_event_detach and rt_event_delete. *)
(* A receiver waits for all (AND) or for any (OR) of some flags, and may    *)
(* clear what it receives.  A receiver that was woken unlocks a spinlock it *)
(* does not hold: an event is modelled on the threads of one core, where    *)
(* nobody else holds it then.                                               *)
(***************************************************************************)
EXTENDS IpcWait

CONSTANT Events        \* the bits of the event set in use

ASSUME EventAssumption ==
    /\ "event" \in Lists
    /\ \A s, t \in Threads : Bind[s] = Bind[t]

VARIABLES set,         \* event->set
          eventSet,    \* thread->event_set
          eventInfo,   \* thread->event_info
          eventAlive,  \* the object has not been detached or deleted
          evPc         \* where each thread is

eventVars == <<set, eventSet, eventInfo, eventAlive, evPc>>

Modes == {"AND", "OR"}

EventInit ==
    /\ set = {}
    /\ eventSet = [t \in Threads |-> {}]
    /\ eventInfo = [t \in Threads |-> [mode |-> "AND", clear |-> FALSE]]
    /\ eventAlive = TRUE
    /\ evPc = [t \in Threads |-> "idle"]

\* rt_event_detach and rt_event_delete are under way, or lost behind the list head.
EventGoing == \E t \in Threads : evPc[t] \in {"detach", "pop", "wild"}

EventStarts(t) ==
    /\ OnCpu(t) /\ evPc[t] = "idle" /\ eventAlive
    /\ ~EventGoing

\* The condition of a receiver that asked for the events `asked`.
Satisfied(present, asked, mode) ==
    IF mode = "AND" THEN asked \subseteq present ELSE asked \cap present # {}

-----------------------------------------------------------------------------
(* rt_event_recv(event, set, option, timeout, recved) *)

EventRecv(t, asked, info, time) ==
    /\ EventStarts(t)
    /\ \/ /\ Satisfied(set, asked, info.mode)
          /\ eventSet' = [eventSet EXCEPT ![t] = set \cap asked]
          /\ eventInfo' = [eventInfo EXCEPT ![t] = info]
          /\ set' = IF info.clear THEN set \ asked ELSE set
          /\ error' = [error EXCEPT ![t] = "EOK"]
          /\ UNCHANGED <<stat, timer, queue, irqoff, expired, evPc>>
       \/ /\ ~Satisfied(set, asked, info.mode) /\ time = "no"
          /\ error' = [error EXCEPT ![t] = "ETIMEOUT"]
          /\ UNCHANGED <<stat, timer, queue, irqoff, expired, set, eventSet, eventInfo, evPc>>
       \/ /\ ~Satisfied(set, asked, info.mode) /\ time # "no"
          /\ eventSet' = [eventSet EXCEPT ![t] = asked]
          /\ eventInfo' = [eventInfo EXCEPT ![t] = info]
          /\ Suspend(t, "event", time)
          /\ evPc' = [evPc EXCEPT ![t] = "wait"]
          /\ UNCHANGED set
    /\ UNCHANGED eventAlive

\* rt_schedule() returns; *recved is thread->event_set, or thread->error is
\* returned.
EventReturn(t) ==
    /\ OnCpu(t) /\ evPc[t] = "wait" /\ stat[t] = "RUN"
    /\ evPc' = [evPc EXCEPT ![t] = "idle"]
    /\ UNCHANGED <<ipcVars, set, eventSet, eventInfo, eventAlive>>

-----------------------------------------------------------------------------
(* rt_event_send(event, set) *)

\* Seeded fault: what one receiver clears is still there for the next.
DeliverAgain(scan, t) ==
    LET got == eventSet[t] \cap scan.left
    IN  IF ~Satisfied(scan.left, eventSet[t], eventInfo[t].mode) THEN scan
        ELSE [left |-> scan.left,
              received |-> [scan.received EXCEPT ![t] = got],
              woken |-> scan.woken \cup {t},
              list |-> Without(scan.list, t)]

\* The scan of the waiting threads reaches t.
Deliver(scan, t) ==
    LET got == eventSet[t] \cap scan.left
    IN  IF ~Satisfied(scan.left, eventSet[t], eventInfo[t].mode) THEN scan
        ELSE [left |-> IF eventInfo[t].clear THEN scan.left \ got ELSE scan.left,
              received |-> [scan.received EXCEPT ![t] = got],
              woken |-> scan.woken \cup {t},
              list |-> Without(scan.list, t)]

\* What the scan leaves behind when it has passed all threads of the list, which
\* it started with the events `present`.
Delivered(present) ==
    LET w == queue["event"]
        scan[i \in 0..Len(w)] ==
            IF i = 0
            THEN [left |-> present, received |-> eventSet, woken |-> {}, list |-> w]
            ELSE Deliver(scan[i - 1], w[i])
    IN  scan[Len(w)]

\* Seeded fault: the scan stops at the first thread that is not satisfied.
EventSendFirst(t, sent) ==
    /\ EventStarts(t)
    /\ LET s == set \cup sent
           w == queue["event"]
       IN  IF w # <<>> /\ Satisfied(s, eventSet[w[1]], eventInfo[w[1]].mode)
           THEN /\ set' = s /\ ThreadResume(w[1]) /\ UNCHANGED eventSet
           ELSE /\ set' = s /\ UNCHANGED <<eventSet, stat, queue, timer>>
    /\ UNCHANGED <<error, irqoff, expired, eventInfo, eventAlive, evPc>>

EventSend(t, sent) ==
    /\ EventStarts(t)
    /\ LET scan == Delivered(set \cup sent)
       IN  /\ set' = scan.left
           /\ eventSet' = scan.received
           /\ stat' = [u \in Threads |-> IF u \in scan.woken THEN "RUN" ELSE stat[u]]
           /\ timer' = [u \in Threads |-> timer[u] /\ u \notin scan.woken]
           /\ queue' = [queue EXCEPT !["event"] = scan.list]
    /\ UNCHANGED <<error, irqoff, expired, eventInfo, eventAlive, evPc>>

-----------------------------------------------------------------------------
(* rt_event_control(RT_IPC_CMD_RESET), rt_event_detach, rt_event_delete *)

EventReset(t) ==
    /\ Resets /\ EventStarts(t)
    /\ ResumeAll({"event"})
    /\ set' = {}
    /\ UNCHANGED <<eventSet, eventInfo, eventAlive, evPc>>

\* Threads may wait for events, but nobody is inside another operation.
EventDetach(t) ==
    /\ EventStarts(t)
    /\ evPc' = [evPc EXCEPT ![t] = "detach"]
    /\ UNCHANGED <<ipcVars, set, eventSet, eventInfo, eventAlive>>

\* The test of the list, and the section of the round.
EventDetachTest(t) ==
    /\ OnCpu(t) /\ evPc[t] = "detach" /\ queue["event"] # <<>>
    /\ evPc' = [evPc EXCEPT ![t] = "pop"]
    /\ UNCHANGED <<ipcVars, set, eventSet, eventInfo, eventAlive>>

EventDetachRound(t) ==
    /\ OnCpu(t) /\ evPc[t] = "pop"
    /\ ResumeNext("event")
    /\ evPc' = [evPc EXCEPT ![t] = AfterRound("event", "detach")]
    /\ UNCHANGED <<set, eventSet, eventInfo, eventAlive>>

EventDetachObject(t) ==
    /\ OnCpu(t) /\ evPc[t] = "detach" /\ queue["event"] = <<>>
    /\ eventAlive' = FALSE
    /\ evPc' = [evPc EXCEPT ![t] = "idle"]
    /\ UNCHANGED <<ipcVars, set, eventSet, eventInfo>>

-----------------------------------------------------------------------------

EventStep(t) ==
    \/ \E sent \in (SUBSET Events) \ {{}} : EventSend(t, sent)
    \/ /\ t \notin Handlers
       /\ \/ \E asked \in (SUBSET Events) \ {{}}, mode \in Modes, clear \in BOOLEAN, time \in Waits :
                EventRecv(t, asked, [mode |-> mode, clear |-> clear], time)
          \/ EventReset(t)
    \/ EventReturn(t)
    \/ t \in Detachers /\ EventDetach(t)
    \/ EventDetachTest(t) \/ EventDetachRound(t) \/ EventDetachObject(t)

EventTimeout(t) ==
    \E c \in Cpus : (TimerExpires(c, t) \/ ThreadTimeout(c, t)) /\ UNCHANGED eventVars

EventNext == \E t \in Threads : EventStep(t) \/ EventTimeout(t)

EventSpec == IpcInit /\ EventInit /\ [][EventNext]_<<ipcVars, eventVars>>

-----------------------------------------------------------------------------
(* Properties *)

EventLabels == {"idle", "wait", "detach", "pop", "wild"}

EventTypeOK ==
    /\ set \in SUBSET Events
    /\ eventSet \in [Threads -> SUBSET Events]
    /\ eventInfo \in [Threads -> [mode : Modes, clear : BOOLEAN]]
    /\ eventAlive \in BOOLEAN
    /\ evPc \in [Threads -> EventLabels]

\* No thread sleeps in rt_event_recv although the events it asked for are set,
\* whatever the receivers before it in the list took and cleared.
NoWaiterSatisfied ==
    \A t \in ToSet(queue["event"]) :
        ~Satisfied(set, eventSet[t], eventInfo[t].mode)

\* The threads that this step wakes with events (and not with an error).
Served ==
    {t \in Threads : stat[t] = "SUSPEND" /\ evPc[t] = "wait"
                     /\ stat'[t] = "RUN" /\ error'[t] = "EOK"}

\* What the threads of one rt_event_send receive, of which EventsClearedOnce speaks.
EventsReceived ==
    /\ \A s, t \in Served :
          s # t /\ eventInfo[s].clear /\ eventInfo[t].clear
              => eventSet'[s] \cap eventSet'[t] = {}
    /\ \A t \in Served :
          /\ eventInfo[t].clear => eventSet'[t] \cap set' = {}
          /\ eventSet'[t] # {} /\ eventSet'[t] \subseteq eventSet[t]
          /\ eventInfo[t].mode = "AND" => eventSet'[t] = eventSet[t]

\* RT_EVENT_FLAG_CLEAR: an event that is cleared is received by one clearing
\* thread and is no longer set; and a woken thread receives all (AND) or some
\* (OR) of what it asked for, and nothing else.
EventsClearedOnce == [][EventsReceived]_<<ipcVars, eventVars>>
=============================================================================
