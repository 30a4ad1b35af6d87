--------------------------------- MODULE Mailbox ---------------------------------
(***************************************************************************)
(* The mailbox of rt-thread/src/ipc.c: rt_mb_send, rt_mb_send_wait,         *)
(* rt_mb_urgent, rt_mb_recv, rt_mb_control(RT_IPC_CMD_RESET), rt_mb_detach  *)
(* and rt_mb_delete.                                                        *)
(*                                                                         *)
(* An operation that need not wait is one locked section.  After a wake-up  *)
(* rt_mb_send_wait and rt_mb_recv unlock and enable interrupts where their  *)
(* comments say "disable interrupt": the rest of the operation, from the    *)
(* test of entry to the resumption of the other side or to another wait,    *)
(* runs unprotected, one statement at a time, with the sections that        *)
(* rt_thread_suspend and rt_thread_resume have of their own.  The insertion *)
(* into a suspend list is one step.                                         *)
(***************************************************************************)
EXTENDS IpcWait

CONSTANTS MbSize,      \* mb->size
          MbEntryMax,  \* RT_MB_ENTRY_MAX
          Mails,       \* the values sent
          NoMail,      \* what a pool that was never written holds
          MailOf       \* MailOf[t]: the values t sends

ASSUME MbAssumption ==
    /\ {"mbrecv", "mbsend"} \subseteq Lists
    /\ MbSize \in Nat \ {0} /\ MbEntryMax \in Nat /\ MbSize <= MbEntryMax
    /\ NoMail \notin Mails /\ MailOf \in [Threads -> SUBSET Mails]
    \* an unlock by a woken thread frees the section of another core
    /\ Waits \subseteq {"no"} \/ \A s, t \in Threads : Bind[s] = Bind[t]

VARIABLES mbEntry,     \* mb->entry
          inOffset,    \* mb->in_offset
          outOffset,   \* mb->out_offset
          pool,        \* mb->msg_pool
          mbAlive,     \* the object has not been detached or deleted
          mbOp,        \* the operation of each thread
          mbPc,        \* where it is in the operation
          mbWait,      \* the timeout it has left
          mbValue,     \* the value it sends or has received
          mbReg,       \* the entry it has loaded
          mbTarget,    \* the thread it has found in the list, to resume it
          mails,       \* history: the values put and not taken yet, in order
          disturbed    \* history: somebody came between the unprotected steps

mbShared == <<mbEntry, inOffset, outOffset, pool, mails>>
mbVars == <<mbShared, mbAlive, mbOp, mbPc, mbWait, mbValue, mbReg, mbTarget, disturbed>>

Slots == 0..MbSize - 1

MbInit ==
    /\ mbEntry = 0 /\ inOffset = 0 /\ outOffset = 0
    /\ pool = [i \in Slots |-> NoMail]
    /\ mbAlive = TRUE
    /\ mbOp = [t \in Threads |-> "recv"]
    /\ mbPc = [t \in Threads |-> "idle"]
    /\ mbWait = [t \in Threads |-> "no"]
    /\ mbValue = [t \in Threads |-> NoMail]
    /\ mbReg = [t \in Threads |-> 0]
    /\ mbTarget = [t \in Threads |-> Nobody]
    /\ mails = <<>>
    /\ disturbed = FALSE

\* The threads that go on unprotected after a wake-up.  "off" is "timer" without the
\* core; nothing is followed behind "wild", where a list head is taken for a thread.
UnprotectedAt ==
    {"again", "sleep", "link", "timer", "off", "slot", "offset", "load", "store",
     "resume", "choose", "test", "wake", "wild"}
Unprotected == {t \in Threads : mbPc[t] \in UnprotectedAt}

\* A thread that has suspended itself and has its core still.  As soon as another
\* thread runs, it runs again only when somebody resumes it.
Leaving == {t \in Threads : mbPc[t] \in {"link", "timer"} /\ stat[t] = "SUSPEND"}
MbRuns(t) == OnCpu(t) /\ (t \in Handlers \/ Leaving \subseteq {t})

\* rt_mb_detach and rt_mb_delete are under way.
MbDetaching == \E t \in Threads : mbPc[t] \in {"detach", "poprecv", "popsend"}

MbGoto(t, label) == mbPc' = [mbPc EXCEPT ![t] = label]
MbReturn(t) ==
    /\ MbGoto(t, "idle")
    /\ mbWait' = [mbWait EXCEPT ![t] = "no"]
    /\ mbValue' = [mbValue EXCEPT ![t] = NoMail]
    /\ mbReg' = [mbReg EXCEPT ![t] = 0]
    /\ mbTarget' = [mbTarget EXCEPT ![t] = Nobody]

\* ++offset; if (offset >= mb->size) offset = 0;
Following(i) == IF i + 1 >= MbSize THEN 0 ELSE i + 1

MbCall(t, o, v, time) ==
    /\ MbRuns(t) /\ mbPc[t] = "idle" /\ mbAlive /\ ~MbDetaching
    /\ mbOp' = [mbOp EXCEPT ![t] = o]
    /\ mbValue' = [mbValue EXCEPT ![t] = v]
    /\ mbWait' = [mbWait EXCEPT ![t] = time]
    /\ MbGoto(t, "enter")
    /\ UNCHANGED <<ipcVars, mbShared, mbAlive, mbReg, mbTarget>>

\* Where the thread must wait: the mailbox is full or empty.
MustWait(t) == IF mbOp[t] = "recv" THEN mbEntry = 0 ELSE mbEntry = MbSize
WaitList(t) == IF mbOp[t] = "recv" THEN "mbrecv" ELSE "mbsend"
OtherList(t) == IF mbOp[t] = "recv" THEN "mbsend" ELSE "mbrecv"

-----------------------------------------------------------------------------
(* The locked section *)

\* rt_mb_urgent rewinds mb->out_offset and writes msg_pool there; entry is 16 bits wide.
PutUrgent(t) ==
    /\ mbOp[t] = "urgent"
    /\ LET out == IF outOffset > 0 THEN outOffset - 1 ELSE MbSize - 1
       IN  outOffset' = out /\ pool' = [pool EXCEPT ![out] = mbValue[t]]
    /\ mbEntry' = IF mbEntry < MbEntryMax THEN mbEntry + 1 ELSE 0
    /\ mails' = <<mbValue[t]>> \o mails
    /\ UNCHANGED inOffset

\* msg_pool[in_offset] = value; in_offset and entry count up, or entry is at its limit
\* and the mail, written already, is refused.
Overflows(t) == mbOp[t] = "send" /\ mbEntry >= MbEntryMax
Put(t) ==
    /\ mbOp[t] = "send"
    /\ pool' = [pool EXCEPT ![inOffset] = mbValue[t]]
    /\ inOffset' = Following(inOffset)
    /\ IF Overflows(t) THEN UNCHANGED <<mbEntry, mails>>
       ELSE mbEntry' = mbEntry + 1 /\ mails' = Append(mails, mbValue[t])
    /\ UNCHANGED outOffset

\* *value = msg_pool[out_offset]; out_offset counts up, entry down.
Get(t) ==
    /\ mbOp[t] = "recv"
    /\ outOffset' = Following(outOffset)
    /\ mbEntry' = mbEntry - 1
    /\ mails' = Tail(mails)
    /\ UNCHANGED <<inOffset, pool>>

\* spinlock_lock ... spinlock_unlock of an operation that is not woken.
MbSection(t) ==
    /\ MbRuns(t) /\ mbPc[t] = "enter"
    /\ \/ /\ MustWait(t) /\ mbWait[t] = "no"        \* -RT_EFULL, -RT_ETIMEOUT
          /\ MbReturn(t)
          /\ UNCHANGED <<ipcVars, mbShared>>
       \/ /\ MustWait(t) /\ mbWait[t] # "no"
          /\ Suspend(t, WaitList(t), mbWait[t])
          /\ MbGoto(t, "wait")
          /\ UNCHANGED <<mbShared, mbWait, mbValue, mbReg, mbTarget>>
       \/ /\ ~MustWait(t)
          /\ Put(t) \/ PutUrgent(t) \/ Get(t)
          /\ IF Overflows(t) THEN UNCHANGED ipcVars ELSE ResumeFirst(OtherList(t))
          /\ MbReturn(t)
    /\ UNCHANGED <<mbAlive, mbOp>>

-----------------------------------------------------------------------------
(* After a wake-up *)

MbWaitFails(t) ==
    /\ MbRuns(t) /\ mbPc[t] = "wait" /\ stat[t] = "RUN" /\ error[t] # "EOK"
    /\ MbReturn(t)
    /\ UNCHANGED <<ipcVars, mbShared, mbAlive, mbOp>>

\* spinlock_unlock, rt_hw_local_irq_enable; timeout -= tick_delta.
MbLookAgain(t) ==
    /\ MbRuns(t) /\ mbPc[t] = "wait" /\ stat[t] = "RUN" /\ error[t] = "EOK"
    /\ \E time \in Remaining(mbWait[t]) : mbWait' = [mbWait EXCEPT ![t] = time]
    /\ MbGoto(t, "again")
    /\ UNCHANGED <<ipcVars, mbShared, mbAlive, mbOp, mbValue, mbReg, mbTarget>>

\* The condition of the loop; thread->error = RT_EOK; the test of the timeout.
MbAgain(t) ==
    /\ MbRuns(t) /\ mbPc[t] = "again"
    /\ IF ~MustWait(t)
       THEN MbGoto(t, "slot") /\ UNCHANGED <<error, mbWait, mbValue, mbReg, mbTarget>>
       ELSE /\ error' = [error EXCEPT ![t] =
                            IF mbWait[t] = "no" /\ mbOp[t] = "recv" THEN "ETIMEOUT" ELSE "EOK"]
            /\ IF mbWait[t] = "no" THEN MbReturn(t)
               ELSE MbGoto(t, "sleep") /\ UNCHANGED <<mbWait, mbValue, mbReg, mbTarget>>
    /\ UNCHANGED <<stat, timer, queue, irqoff, expired, mbShared, mbAlive, mbOp>>

\* rt_thread_suspend: the thread leaves the ready queue, and its timer is stopped.
MbSleep(t) ==
    /\ MbRuns(t) /\ mbPc[t] = "sleep"
    /\ stat' = [stat EXCEPT ![t] = "SUSPEND"]
    /\ timer' = [timer EXCEPT ![t] = FALSE]
    /\ MbGoto(t, "link")
    /\ UNCHANGED <<error, queue, irqoff, expired, mbShared, mbAlive, mbOp, mbWait, mbValue,
                   mbReg, mbTarget>>

\* The insertion into the suspend list, by _ipc_list_suspend.
MbLink(t) ==
    /\ MbRuns(t) /\ mbPc[t] = "link"
    /\ queue' = [queue EXCEPT ![WaitList(t)] = Place(@, t, Flag, Prio)]
    /\ MbGoto(t, "timer")
    /\ UNCHANGED <<stat, error, timer, irqoff, expired, mbShared, mbAlive, mbOp, mbWait, mbValue,
                   mbReg, mbTarget>>

\* rt_timer_start for a wait that is not for ever, whether the thread still sleeps or
\* has been resumed; rt_schedule comes next.
MbStartTimer(t) ==
    /\ MbRuns(t) /\ (mbPc[t] = "timer" \/ (mbPc[t] = "off" /\ stat[t] = "RUN"))
    /\ timer' = [timer EXCEPT ![t] = (mbWait[t] = "timed")]
    /\ MbGoto(t, "wait")
    /\ UNCHANGED <<stat, error, queue, irqoff, expired, mbShared, mbAlive, mbOp, mbWait, mbValue,
                   mbReg, mbTarget>>

\* The end of an interrupt takes the core from a thread that has suspended itself.  One
\* that is in no list yet is lost: nobody finds it to resume it.
MbPreempt(t) ==
    /\ OnCpu(t) /\ t \in Leaving
    /\ MbGoto(t, IF mbPc[t] = "link" THEN "lost" ELSE "off")
    /\ UNCHANGED <<ipcVars, mbShared, mbAlive, mbOp, mbWait, mbValue, mbReg, mbTarget>>

MbSlot(t) ==
    /\ MbRuns(t) /\ mbPc[t] = "slot"
    /\ IF mbOp[t] = "recv"
       THEN mbValue' = [mbValue EXCEPT ![t] = pool[outOffset]] /\ UNCHANGED pool
       ELSE pool' = [pool EXCEPT ![inOffset] = mbValue[t]] /\ UNCHANGED mbValue
    /\ MbGoto(t, "offset")
    /\ UNCHANGED <<ipcVars, mbEntry, inOffset, outOffset, mails, mbAlive, mbOp, mbWait, mbReg,
                   mbTarget>>

MbOffset(t) ==
    /\ MbRuns(t) /\ mbPc[t] = "offset"
    /\ IF mbOp[t] = "recv"
       THEN outOffset' = Following(outOffset) /\ UNCHANGED inOffset
       ELSE inOffset' = Following(inOffset) /\ UNCHANGED outOffset
    /\ MbGoto(t, "load")
    /\ UNCHANGED <<ipcVars, mbEntry, pool, mails, mbAlive, mbOp, mbWait, mbValue, mbReg, mbTarget>>

\* entry ++ and entry -- load, add and store; a send gives up when entry is at its limit.
MbLoad(t) ==
    /\ MbRuns(t) /\ mbPc[t] = "load"
    /\ IF Overflows(t) THEN MbReturn(t)
       ELSE /\ mbReg' = [mbReg EXCEPT ![t] = mbEntry]
            /\ MbGoto(t, "store")
            /\ UNCHANGED <<mbWait, mbValue, mbTarget>>
    /\ UNCHANGED <<ipcVars, mbShared, mbAlive, mbOp>>

MbStore(t) ==
    /\ MbRuns(t) /\ mbPc[t] = "store"
    /\ IF mbOp[t] = "recv"
       THEN /\ mbEntry' = IF mbReg[t] > 0 THEN mbReg[t] - 1 ELSE mbEntry
            /\ mails' = IF mails = <<>> THEN <<>> ELSE Tail(mails)
       ELSE /\ mbEntry' = mbReg[t] + 1
            /\ mails' = IF Len(mails) < MbSize THEN Append(mails, mbValue[t]) ELSE mails
    /\ MbGoto(t, "resume")
    /\ UNCHANGED <<ipcVars, inOffset, outOffset, pool, mbAlive, mbOp, mbWait, mbValue, mbReg,
                   mbTarget>>

\* Seeded fault: the other side is not resumed.
MbResumeNobody(t) ==
    /\ MbRuns(t) /\ mbPc[t] = "resume"
    /\ MbReturn(t)
    /\ UNCHANGED <<ipcVars, mbShared, mbAlive, mbOp>>

\* if (!rt_list_isempty(list))
MbResume(t) ==
    /\ MbRuns(t) /\ mbPc[t] = "resume"
    /\ IF queue[OtherList(t)] = <<>> THEN MbReturn(t)
       ELSE MbGoto(t, "choose") /\ UNCHANGED <<mbWait, mbValue, mbReg, mbTarget>>
    /\ UNCHANGED <<ipcVars, mbShared, mbAlive, mbOp>>

\* _ipc_list_resume reads list->next: the list itself, if the list is empty by now.
MbChoose(t) ==
    /\ MbRuns(t) /\ mbPc[t] = "choose"
    /\ IF queue[OtherList(t)] = <<>> THEN MbGoto(t, "wild") /\ UNCHANGED mbTarget
       ELSE /\ MbGoto(t, "test")
            /\ mbTarget' = [mbTarget EXCEPT ![t] = Head(queue[OtherList(t)])]
    /\ UNCHANGED <<ipcVars, mbShared, mbAlive, mbOp, mbWait, mbValue, mbReg>>

\* rt_thread_resume's test of stat.
MbTest(t) ==
    /\ MbRuns(t) /\ mbPc[t] = "test"
    /\ IF stat[mbTarget[t]] # "SUSPEND" THEN MbReturn(t)
       ELSE MbGoto(t, "wake") /\ UNCHANGED <<mbWait, mbValue, mbReg, mbTarget>>
    /\ UNCHANGED <<ipcVars, mbShared, mbAlive, mbOp>>

\* Its section.
MbWake(t) ==
    /\ MbRuns(t) /\ mbPc[t] = "wake"
    /\ WakeUp(mbTarget[t])
    /\ MbReturn(t)
    /\ UNCHANGED <<error, irqoff, expired, mbShared, mbAlive, mbOp>>

-----------------------------------------------------------------------------
(* rt_mb_control(RT_IPC_CMD_RESET), rt_mb_detach, rt_mb_delete *)

\* Everybody is resumed with -RT_ERROR and the content of the mailbox is gone.
MbReset(t) ==
    /\ MbRuns(t) /\ mbPc[t] = "idle" /\ mbAlive /\ Resets /\ ~MbDetaching
    /\ ResumeAll({"mbrecv", "mbsend"})
    /\ mbEntry' = 0 /\ inOffset' = 0 /\ outOffset' = 0
    /\ mails' = <<>>
    /\ UNCHANGED <<pool, mbAlive, mbOp, mbPc, mbWait, mbValue, mbReg, mbTarget>>

\* Threads may be suspended on the mailbox, but nobody is inside an operation.
MbDetach(t) ==
    /\ MbRuns(t) /\ mbPc[t] = "idle" /\ mbAlive
    /\ \A u \in Threads : mbPc[u] = "idle" \/ (mbPc[u] = "wait" /\ stat[u] = "SUSPEND")
    /\ MbGoto(t, "detach")
    /\ UNCHANGED <<ipcVars, mbShared, mbAlive, mbOp, mbWait, mbValue, mbReg, mbTarget>>

\* The receivers first, then the senders.
MbDetachTest(t, l, round) ==
    /\ MbRuns(t) /\ mbPc[t] = "detach" /\ queue[l] # <<>>
    /\ l = "mbsend" => queue["mbrecv"] = <<>>
    /\ MbGoto(t, round)
    /\ UNCHANGED <<ipcVars, mbShared, mbAlive, mbOp, mbWait, mbValue, mbReg, mbTarget>>

MbDetachRound(t, l, round) ==
    /\ MbRuns(t) /\ mbPc[t] = round
    /\ ResumeNext(l)
    /\ MbGoto(t, AfterRound(l, "detach"))
    /\ UNCHANGED <<mbShared, mbAlive, mbOp, mbWait, mbValue, mbReg, mbTarget>>

MbDetachObject(t) ==
    /\ MbRuns(t) /\ mbPc[t] = "detach" /\ queue["mbrecv"] = <<>> /\ queue["mbsend"] = <<>>
    /\ mbAlive' = FALSE
    /\ MbGoto(t, "idle")
    /\ UNCHANGED <<ipcVars, mbShared, mbOp, mbWait, mbValue, mbReg, mbTarget>>

-----------------------------------------------------------------------------

MbStep(t) ==
    \/ \E v \in MailOf[t] :
          \/ MbCall(t, "urgent", v, "no")
          \/ \E time \in WaitsOf(t) : MbCall(t, "send", v, time)
    \/ \E time \in WaitsOf(t) : MbCall(t, "recv", NoMail, time)
    \/ MbSection(t) \/ MbWaitFails(t) \/ MbLookAgain(t)
    \/ MbAgain(t) \/ MbSleep(t) \/ MbLink(t) \/ MbStartTimer(t)
    \/ MbSlot(t) \/ MbOffset(t) \/ MbLoad(t) \/ MbStore(t)
    \/ MbResume(t) \/ MbChoose(t) \/ MbTest(t) \/ MbWake(t)
    \/ t \notin Handlers /\ MbReset(t)
    \/ t \in Detachers /\ MbDetach(t)
    \/ MbDetachTest(t, "mbrecv", "poprecv") \/ MbDetachRound(t, "mbrecv", "poprecv")
    \/ MbDetachTest(t, "mbsend", "popsend") \/ MbDetachRound(t, "mbsend", "popsend")
    \/ MbDetachObject(t)

MbTimeout(t) ==
    /\ \E c \in Cpus : TimerExpires(c, t) \/ ThreadTimeout(c, t)
    /\ UNCHANGED <<mbShared, mbAlive, mbOp, mbPc, mbWait, mbValue, mbReg, mbTarget>>

\* A step of somebody else comes between the statements of an unprotected thread.
Disturbs(others) == disturbed' = (disturbed \/ others # {})

MbNext ==
    \E t \in Threads :
        \/ MbStep(t) /\ Disturbs(Unprotected \ {t})
        \/ MbTimeout(t) /\ Disturbs(Unprotected)
        \/ MbPreempt(t) /\ Disturbs({t})

MbSpec == IpcInit /\ MbInit /\ [][MbNext]_<<ipcVars, mbVars>>

-----------------------------------------------------------------------------
(* Properties *)

MbLabels == UnprotectedAt \cup {"idle", "enter", "wait", "lost", "detach", "poprecv", "popsend"}

MbTypeOK ==
    /\ mbEntry \in 0..MbEntryMax
    /\ inOffset \in Slots /\ outOffset \in Slots
    /\ pool \in [Slots -> Mails \cup {NoMail}]
    /\ mbAlive \in BOOLEAN /\ disturbed \in BOOLEAN
    /\ mbOp \in [Threads -> {"send", "urgent", "recv"}]
    /\ mbPc \in [Threads -> MbLabels]
    /\ mbWait \in [Threads -> {"no", "timed", "forever"}]
    /\ mbValue \in [Threads -> Mails \cup {NoMail}]
    /\ mbReg \in [Threads -> 0..MbEntryMax]
    /\ mbTarget \in [Threads -> Threads \cup {Nobody}]
    /\ mails \in Seq(Mails)

\* The mails between out_offset and in_offset.
Ring == [i \in 1..mbEntry |-> pool[(outOffset + i - 1) % MbSize]]

\* "Only when there is mail in the mailbox, the receiving thread can get the mail
\* immediately": whenever no operation is half-way, the mailbox holds exactly
\* the mails sent and not received, in their order.
MailsKept ==
    Unprotected = {} => /\ Ring = mails
                        /\ inOffset = (outOffset + mbEntry) % MbSize

\* The same, and every woken receiver goes away with the oldest mail, as long as
\* nobody touches the mailbox between the statements of a woken thread.
MailsInOrder ==
    ~disturbed =>
        /\ MailsKept
        /\ \A t \in Threads : mbOp[t] = "recv" /\ mbPc[t] \in {"offset", "load", "store"}
              => mbValue[t] = Head(mails)

\* Threads that come for a mail or a free slot, and those that resume them.
MbComing(ops) ==
    {t \in Threads : mbOp[t] \in ops /\
        \/ mbPc[t] \in {"enter", "again", "slot", "offset", "load", "store"}
        \/ mbPc[t] = "wait" /\ stat[t] = "RUN" /\ error[t] = "EOK"}
MbResuming(ops) == {t \in Threads : mbOp[t] \in ops /\ mbPc[t] \in {"resume", "choose", "test", "wake"}}

\* Nobody sleeps while a mail, or a free slot, is there that nobody comes for.
NoMailInVain ==
    ~disturbed =>
        /\ queue["mbrecv"] # <<>> =>
              mbEntry <= Cardinality(MbComing({"recv"}) \cup MbResuming({"send", "urgent"}))
        /\ queue["mbsend"] # <<>> =>
              MbSize - mbEntry <= Cardinality(MbComing({"send", "urgent"}) \cup MbResuming({"recv"}))

\* Undisturbed, the mailbox loses, doubles and reorders nothing, and wakes whoever
\* can go on: rt_mb_send_wait, rt_mb_urgent and rt_mb_recv keep their two offsets,
\* the entry and the two lists in step through every wait and wake-up.
MailsServed == MailsInOrder /\ NoMailInVain
=============================================================================
