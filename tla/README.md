# RT-Thread on the K210: models and proofs

This directory holds TLA+ models of the kernel in `src/rt-thread`, the fork of
RT-Thread 4.0.4 that runs on both RISC-V cores of a Kendryte K210. It says what
the scheduler, the spinlock and the IPC objects do when two cores, their
interrupts and their threads interleave; TLC checks the models on small
instances and TLAPS proves the central safety results for every instance.

The configuration modelled is `src/rtconfig.h`: SMP with two cores, 32
priorities, a 1000 Hz tick, semaphore, mutex, event, mailbox, message queue,
memory pool, the small-memory heap, memheap, the driver IPC
(`RT_USING_DEVICE_IPC`), files and POSIX; no signals, hooks, soft timers, shell.

- [The system](#the-system)
- [Modules](#modules)
- [Runs](#runs)
- [Disagreements with the code's own text](#disagreements-with-the-codes-own-text)
- [Fairness](#fairness)
- [Proofs](#proofs)
- [What is not modelled](#what-is-not-modelled)
- [Plan](#plan)

## The system

What sets this fork apart from upstream RT-Thread, and makes it worth modelling:

1. Ready queues exist per core only. A thread is bound to a core
   (`rt_thread_distribute_cpu` chooses one when it starts) and never moves.
2. `rt_cpus_lock`, which `rt_hw_interrupt_disable()` expands to, takes no lock
   shared by the cores. It disables the interrupts of its own core and counts.
   Upstream it is the one global kernel lock.
3. Each IPC object has a spinlock of its own (the SDK's `spinlock_lock`), taken
   by most of its operations and by none of the code that times a thread out.
4. `rt_spin_lock` is rewritten with an `owner` and an assembly routine.
5. Cores send each other interrupts (`trigger_ipi_irq`), and measure their load.

So whatever upstream got from the global lock has to come from the binding of
the threads or from the objects' spinlocks. The models look at where it does.

### Components

| component | state | operations | interacts with |
|---|---|---|---|
| spinlock, `cpu.c` and `context_gcc.S` | `lock`, `owner`, the saved interrupt bit | init, lock, unlock | the interrupt bit of each core, thread switches |
| scheduler, `scheduler.c` | per core: `priority_table`, `priority_group`, `current_thread`, `current_priority`, `irq_switch_flag`; per thread: `stat`, `oncpu`, `scheduler_lock_nest` | insert, remove, schedule, switch at the end of an interrupt, enter and exit critical | called by threads, the tick, device interrupts and interrupts of the other core |
| threads, `thread.c` | `stat`, `current_priority`, `remaining_tick`, `thread_timer`, `error` | startup, yield, sleep, suspend, resume, control, exit, delete, timeout, distribution to a core | scheduler, timers, IPC lists, defunct list |
| clock and timers, `clock.c`, `timer.c` | `rt_tick` per core, one sorted timer list for both cores | tick, start, stop, check | thread timeouts, time slices |
| IPC lists, `ipc.c` 71-236 | the suspend list of an object | suspend, resume one, resume all | thread suspend and resume |
| semaphore | `value` (16 bits), spinlock, waiters | take, trytake, release, reset, detach, delete | threads, interrupt handlers (release only) |
| mutex | `value`, `owner`, `hold`, `original_priority`, spinlock, waiters | take, trytake, release, detach, delete | threads; the priority of its owner |
| event | `set`, waiters | send, receive, reset | threads, interrupt handlers |
| mailbox, message queue | ring or list of messages, two lists of waiters | send, urgent, receive, reset | threads, interrupt handlers |
| interrupts between cores, `irq.c`, `interrupt.c` | `ipi_type`, `ipi_func`, `param` of each core; the pending bit of the CLINT | `trigger_ipi_irq`, `handle_trap` | scheduler of the other core |
| defunct threads, `idle.c` | the defunct list, `system_sem` | enqueue, dequeue, execute | `_thread_exit`, `rt_thread_delete`, the semaphore |
| DMA channel lock, `dmalock.c` | `channel_used`, one semaphore, one mutex | take, release | drivers |
| memory pool, `mempool.c` | `block_list`, `block_free_count`, waiters | alloc, free, detach | threads that wait for a block |
| heap, `mem.c` | the chain of block headers, `lfree`, `heap_sem` | malloc, realloc, free | the semaphore |
| work queue, `workqueue.c` | `work_list`, `delayed_list`, `work_current`, a semaphore; per work its timer, `flags`, `workqueue` | submit, urgent, cancel, cancel and wait, cancel all | its worker thread, the timers, interrupt handlers |
| data queue, completion | a ring with two flags and two lists of waiters; a flag and a waiter | push, pop, reset, deinit; wait, done | threads, interrupt handlers of drivers |
| ring buffer, `ringbuffer.c` | two indices with mirror bits | put, get, peak, their forced and one-byte forms, reset | serial devices, pipes |
| pipe, `pipe.c`, `waitqueue.c` | ring buffer, `lock`, `readers`, `writers`, two wait queues with a flag | open, close, read, write | the mutex, the ring buffer, suspend and resume |
| devices, file systems, drivers, SDK | registers, buffers | I/O | the kernel, through the IPC objects |

### What is hard, and what makes each component correct

- **Spinlock.** The test of `owner` runs outside the lock, `owner` is cleared
  after the lock word, and the holder can be interrupted between the successful
  `sc.w` and the `csrrci` after it. Correct: one holder at a time; the owner test
  lets nobody in; the section is not preempted; a waiting thread can be.
- **Scheduler.** Three paths reach a switch (a thread's own call, the end of an
  interrupt, the end of a critical section), each with its own view of
  `stat`, the yield bit and `irq_switch_flag`. Correct: table, bit group and
  `stat` agree; the most urgent ready thread runs; equals share the core; a thread
  whose wake-up falls between its suspension and its switch is not lost; a deleted
  thread never returns.
- **Timeouts.** `rt_thread_timeout` asserts that the thread is still suspended,
  and takes no object's spinlock; with one timer list, either core may run it for
  any thread. Correct: the assertion holds; a timed wait returns; the waiter is
  not also given what it waited for.
- **Semaphore.** A release picks a waiter first and resumes it later, ignoring a
  refusal. Correct: no token is lost or doubled; nobody waits while a token is
  available; the most urgent waiter is served; a detach strands nobody.
- **Mutex.** The waiter becomes the owner before it is resumed; the priority is
  inherited at take and restored from a copy at release. Correct: `owner` and
  `hold` agree with what the callers were told; nobody waits for a free mutex; the
  owner is as urgent as its waiters; a thread without a mutex has its own priority.
- **Event, mailbox.** After a wake-up they unlock a spinlock that they do not
  hold and enable interrupts where their comments say they disable them; a mailbox
  operation then goes on with the shared ring. Correct: nobody sleeps while what
  it asked for is there; an event is cleared for one receiver; mails are neither
  lost, doubled nor reordered.
- **Message queue.** It locks again after a wake-up, and may find that a third
  thread was faster; messages are copied with nothing locked. Correct: a node is in one place
  only, messages leave in order with their contents, nobody waits in vain.
- **Timers.** Ticks wrap around; timeout functions start and stop timers,
  their own included, in the middle of the check. Correct: each timer fires at
  its tick, once, in order.
- **Heap, memory pool.** Freed blocks merge on both sides while `lfree` may point
  at any of them; a thread that was woken for a block may not get it.
- **DMA channel lock.** A release frees the channel without the mutex under which
  it is looked for. Correct: a token always finds a channel, and nobody else's.
- **Waking a thread of another core.** Each core disables only its own
  interrupts, so that the ready queue of a core has two writers. A thread may be
  resumed between its suspension and its switch. Correct: a resumed thread has
  its core, or can be found in its queue.
- **Interrupts between cores.** One `ipi_type` per core, cleared for all cores but
  the destination by every send, and a pending bit that is cleared after the type
  was read. Correct: a core does not go on with a less urgent thread.
- **Defunct threads.** A thread frees itself through another thread, perhaps on the
  other core, while it still runs on its stack. Correct: each is freed once, and
  no stack that is in use; the system thread does not sleep on a list it should work off.
- **Work queue.** A work moves between two lists, its timer and the worker, while
  clients submit and cancel it and the worker may itself sleep inside the function
  of another work. Correct: a work in the list is come for; a delay that ends finds its
  queue; only a worker that has nothing to do is woken; who waits for a work is answered.
- **Data queue, completion, pipe.** Each has its own form of "look, then wait".
  Correct: nobody sleeps for what is there, items leave once and in order.
- **Ring buffer.** Equal indices mean full or empty, as the mirror bits say, and
  a forced put moves the read index. Correct: the length and the order of the bytes.

`PROJECT.json` lists these as hazards, each at its line, with the properties
that would catch it going wrong.

## Modules

| module | models | grain of a step |
|---|---|---|
| `SpinLock` | `rt_spin_lock`, `rt_spin_unlock` | one memory access or CSR instruction |
| `Scheduler` | one core's ready queue, switches, thread operations, tick and interrupts | one section with interrupts disabled |
| `CrossCore` | two cores: suspend, resume, insertion into the other core's ready queue, schedule, the reschedule interrupt | one access to state that both cores use |
| `ThreadList` | the lists of threads, of works and of timers: removal, and the place of a waiter | operators only |
| `IpcObject` | what IPC objects share: suspend lists, resume, timeout of a waiter, interrupt mask of each core | part of a section, as seen by the other core |
| `Semaphore` | extends `IpcObject` with `rt_sem_*` | the same |
| `CountingSemaphore` | what a semaphore promises: an abstract counter | one call or return |
| `Mutex` | extends `IpcObject` with `rt_mutex_*` | the same |
| `PriorityLock` | what a lock promises: an abstract recursive lock that is passed to a most urgent waiter | one call, return or hand-over |
| `IpcWait` | extends `IpcObject`: how a thread starts to wait and is resumed in the three objects below | part of a locked section |
| `MessageQueue` | extends `IpcWait` with `rt_mq_*` | one locked section; each copy |
| `BoundedChannel` | what a message queue promises: an ordered channel | one put, take, call or return |
| `Event` | extends `IpcWait` with `rt_event_*` | one section |
| `Mailbox` | extends `IpcWait` with `rt_mb_*` | one locked section, or one statement where nothing is locked |
| `Timer` | the timer list, `rt_timer_*`, `rt_timer_check` | one section; each timeout function |
| `Heap` | `rt_malloc`, `rt_realloc`, `rt_free` | one section under `heap_sem` |
| `MemPool` | extends `IpcWait` with `rt_mp_*` | one section with interrupts disabled |
| `DmaLock` | `_dmalock_sync_take`, `dmalock_release` | one access to the channel tables |
| `WorkQueue` | `workqueue.c`: the worker, `rt_workqueue_*`, the timer of delayed works | one section with interrupts disabled |
| `DataQueue` | extends `IpcWait` with `rt_data_queue_*` | the same |
| `Completion` | extends `IpcWait` with `rt_completion_*` | the same; the test of `flag` outside of it |
| `RingBuffer` | `rt_ringbuffer_*` | one function |
| `Pipe` | `pipe_fops_*` and the wait queues | one section, or what is done inside the mutex between two wake-ups |
| `Defunct` | `_thread_exit`, `rt_thread_delete` as far as the defunct list goes, `rt_thread_system_entry` | one section; `rt_sem_release` inside it |
| `MCCores`, `MCScheduler`, `MCSemaphore`, `MCMutex`, `MCIpcObjects`, `MCMailbox`, `MCServices` | instances for TLC | |
| `ListProofs`, `IpcObjectProofs` | lemmas the other proofs share | |
| `SpinLockProofs`, `SchedulerProofs`, `SemaphoreProofs`, `MutexProofs` | theorems about the module they name | |
| `IpcWaitProofs` | theorems about `MessageQueue`, `Event`, `Mailbox`, `MemPool`, `DataQueue`, `Completion` | |
| `ServiceProofs` | theorems about `DmaLock`, `RingBuffer`, `Pipe`, `Defunct`, `WorkQueue`, `Heap`, `Timer` | |

`MCCores`, `MCSemaphore`, `MCIpcObjects` and `MCServices` each instantiate several modules that
share no state (or only the threads): a variable chosen at the start says which of
them a behaviour uses, and the state space is the sum of theirs.

Definitions under the comment "Seeded fault" are variants of a neighbouring
definition with a plausible mistake. No behaviour specification uses them; the
`mutants` of `PROJECT.json` name the one that each property detects.

### SpinLock

`pc[t]` walks a thread through the code: `TestOwner` is the `if` of
`rt_spin_lock`; `LoadReserved` and `StoreConditional` are the two instructions
of `exclusive_read_write` that can act (reading a taken lock branches back and is
no step); `FallThrough` is the `csrrci` that execution runs into because
`exclusive_read_write` has no `ret`; `DisableIrq` and `SetOwner` end
`rt_spin_lock`; `ClearLock`, `ClearOwner`, `RestoreIrq` are `rt_spin_unlock`.
`Switch` is a context switch on a core, allowed wherever its interrupts are
enabled, and anywhere outside the lock because a thread may yield. `mie` is the
interrupt bit of a core and `saved` the copy in the context of a thread.

One assumption about the hardware: a context switch ends the core's `lr.w`
reservation. The switch path of this port contains no `sc.w` that would do it; it
executes hundreds of instructions and stores, during which the K210's
reservation does not survive.

### Scheduler

One core is a closed system as long as nothing else touches its threads, because
ready queues are per core and threads do not move. `rt_hw_interrupt_disable`
masks the core's interrupts, so a section under it is one action; an interrupt
may come between two actions. `rq` is `priority_table` with `priority_group`;
`stat`, `yield` and `oncpu` are three fields of a thread that the code keeps in
two words; `timer` says that the thread's timer is linked, and its expiry may
come with any tick. A thread operation ends with `pc[t] = "sched"`, the point
before its `rt_schedule()` at which interrupts are enabled; `Schedule` is that
call. `rt_thread_yield` and `_thread_exit` are one section to the end, so they
are one action. `rt_thread_suspend` of another thread is two actions: the test of `stat`
(thread.c:822, `SuspendTest`), with interrupts enabled, and the section (`SuspendOther`), which
goes by what the test has found. `rt_thread_delete` has four: its tests (`DeleteTest`),
`DeleteUnqueue`, `DeleteTimer` and `DeleteClose`; `victim[t]` is the thread that the
call is about. An interrupt is `Tick` or `DeviceIrq`, then any number of
`Timeout`s after a tick, then `IrqLeave`, which includes
`rt_scheduler_do_irq_switch`. `SwitchThread` stands for the identical decision
in `rt_schedule` and `rt_scheduler_do_irq_switch`.

The model's callers do not block inside `rt_enter_critical`, do not delete the
running or idle thread through `rt_thread_delete`, do not use the handle of a
thread whose deletion has begun (`Usable`), and a thread does not end while another one is
about to suspend it (`Suspending`).

### CrossCore

`sec[c]` says where core `c` is in a section of the scheduler and `task[c]` which
thread the section is about. The interrupts of `c` are masked there, so that
nothing else of `c` moves; the other core does. `SuspendLoad`, `SuspendStore`
and `SuspendDone` are `rt_thread_suspend` with `rt_schedule_remove_thread`:
`priority_group &= ~mask` is a load and a store. `ResumeBegin`, `InsertTest`,
`InsertRunning`, `InsertReady`, `InsertLoad`, `InsertStore` and `InsertLink` are
`rt_thread_resume` and `rt_schedule_insert_thread`; `InsertTest` is its look at
`oncpu`, `InsertReady` its write of `stat`. `SendRound` is one round of the loop of `trigger_ipi_irq`. `Pick` is
the choice of `rt_schedule` or `rt_scheduler_do_irq_switch`, after which the
current thread is detached from its core; `Decide` keeps it or switches. If the bit
that `Pick` follows leads to an empty list, as it can when the other core has set the bit
and not yet linked the thread, the code takes the list head for a thread: the section is
`"wild"`, and the core goes no further. Each core may resume threads of the other.
`SoftServe` reads `ipi_type`, `SoftClear` clears the pending bit; `unheard[c]` is a history
variable: an interrupt was sent to `c` between the two. `atSched[t]`
is the point before `rt_schedule()`, with interrupts enabled, that every
operation reaches after a suspension or a resumption. Time slices and changes of
priority are in `Scheduler`; a thread suspends only itself.

The constraint `Apart` keeps the sections of two cores from overlapping (the
loop that sends the interrupt may overlap anything). That is what the callers of
`rt_cpus_lock` expect of it, and the code does not give it to them: with it
`WakeUpExact` and `RescheduleServed` hold, without it a wake-up is lost (`CoresWakeUp`) and
`Pick` goes wild. The results of the run `Cores` about `CrossCore` are conditional on it,
and nothing about `CrossCore` is claimed as a theorem.

### ThreadList, IpcObject, Semaphore, Mutex

`ThreadList` holds what is done to a list of threads, in a ready queue or in a
suspend list: `Without` is `rt_list_remove`, `Place` the insertion by order of
arrival or of urgency.

`irqoff[c]` is the thread that has disabled core `c`'s interrupts: nothing else
of that core runs meanwhile, and the other core goes on. `expired[c]` is the
thread whose timer core `c` has taken off the timer list, on its way to
`rt_thread_timeout`. Which runnable thread a core runs next is left open, so
these modules hold for any scheduler; they do not repeat the ready queue.

An operation is its call (`TakeCall`, interrupts off, then polling for the
spinlock), its section (`TakeSection`), and its return (`TakeReturn`). Where the
other core could see the middle of a section the section is split: a release
tests the list (`ReleaseSection`), reads its first waiter (`ReleaseFirst`), tests its `stat` inside
`rt_thread_resume` (`ResumeTest`), and wakes it (`ResumeWake`). The timeout
(`TimerExpires`, `ThreadTimeout`) takes no spinlock and may come from either
core. `ThreadTimeout` requires the asserted state: the property
`TimeoutFindsSuspended` says whether the assertion holds.

In `Semaphore` interrupt handlers are members of `Threads` that only release.
`rt_sem_trytake` is a take that does not wait. In `Mutex`, `taken[t][m]` is the
only variable without a counterpart in the code: how often `rt_mutex_take` has
told `t` that it succeeded, minus its releases. The properties relate the code's
`owner` and `hold` to it. Callers release a mutex in any order and may release
one they do not own, which is refused.

The SDK's spinlock inside each object is modelled as one atomic test-and-set.

### IpcWait, MessageQueue, Event, Mailbox

Interrupt handlers are members of `Threads` that send and do not wait. A timed
wait has a remaining timeout that each wake-up makes shorter (`Remaining`): it
is any legal one. `IpcWait` assumes that objects with timed waits or resets are
used by the threads of one core, since the timeout and the reset lock nothing but
their own core.

The detach and the delete of these objects and of the memory pool, and the reset of a data
queue, resume the waiting threads in a loop that tests the list with interrupts enabled
(ipc.c:214, mempool.c:149, dataqueue.c:313 and 337) and takes its first thread in a section. These are
two steps (`DetachTest` and `DetachRound`, `ResetTest` and `ResetResume`, and so on). A timeout of
the only waiter between the two leaves the list empty, and the code writes to, and resumes, the
list head as if it were a thread. `ResumeNext` then does nothing and the caller goes to
`"wild"`, from where the object is not followed: nobody calls it any more, and the properties
and theorems say nothing about what the stray write may have hit.

In `MessageQueue`, `GetNode` is the first locked section of a send and `Link`
the second, `TakeNode` and `FreeNode` those of a receive; `CopyIn` and `CopyOut`
move the message with nothing locked. `LookAgain` is the way back to the loop
after a wake-up. `linked` is the queue from `msg_queue_head`, `free` the list
from `msg_queue_free`, `hold[t]` the node in the hands of `t`, `buf` the
contents. `BoundedChannel` has no nodes, waits or locks: the items, what each
user is sending and what it has taken.

In `Event`, `Delivered` is the loop of `rt_event_send` over the waiters, in the
order of the list, and `Deliver` its body for one of them, with what the receivers
before have cleared. The spinlock that
a woken receiver frees without holding it is held by nobody on one core.

In `Mailbox`, an operation that finds a place or a mail is the one step
`MbSection`. A woken one goes on statement by statement, with interrupts enabled, since ipc.c:2123 and 2393
enable them: `MbLookAgain` and the condition of the loop (`MbAgain`); then either
`MbSlot`, `MbOffset`, `MbLoad`, `MbStore` and the resumption of the other side, which is the test of
the list (`MbResume`), the read of its first thread (`MbChoose`), the test of the
thread's `stat` (`MbTest`) and the section of `rt_thread_resume` (`MbWake`); or a second wait,
which is `rt_thread_suspend` (`MbSleep`), the insertion into the list (`MbLink`) and
`rt_timer_start` (`MbStartTimer`). `mbReg` is the value of `entry` that it has loaded,
`mbTarget` the thread that it has found. `MbPreempt` is an interrupt that takes the core from
a thread that has suspended itself: before `MbLink` the thread is in no list and lost for good.
`disturbed` records that anything at all, a tick or a timeout included, came between these
statements; `mails` is the order in which mails were put. What can go wrong then: a mail
is lost (`MailboxWoken`); a thread is lost (`"lost"`); a send before `MbStartTimer` leaves the timer
of an awake thread running, so that the assertion at thread.c:913 fails on one core; a timeout
empties the list between `MbResume` and `MbChoose` (`"wild"`). `MailsServed` speaks of the
time before, and so does its theorem.

### Timer, Heap, MemPool, DmaLock

`Timer` counts ticks modulo `TickMod`. `check` is the state of `rt_timer_check`:
in its loop, or inside a timeout function, where any timer operation is possible.
The skip list has one level in this configuration, so it is a sequence. `left`
and `started` are history variables: how many ticks are left to a timer, and the
order of starts. A timeout function does not change the flag of its own timer
(`SetPeriodic`): the code would leave `ACTIVATED` set for a timer in no list.

`Heap` holds a header where a block begins, with offsets in units of the
alignment. `PlugHoles` is the function of that name, `Use` and `Split` the two
ways to take a block, `NextFree` the search for the new `lfree`. A `rt_realloc`
that moves is three steps, since it gives `heap_sem` up between them; `live`
records which user has which block and how much of it.

`MemPool` is for one core: the pool disables the interrupts of its own core and
takes no lock. Its waiters are taken in the reverse of their order, since
`rt_list_insert_after` inserts at the head.

`DmaLock` takes the semaphore and the mutex for what they promise (the modules
above) and the accesses to the tables in program order.

### WorkQueue, DataQueue, Completion

All three are upstream code that disables the interrupts of its own core and takes
no lock, so the models are for one core.

In `WorkQueue`, `workerAt` says where the worker is: looking at the list, inside
`work_func`, behind it (`"done"`), or in the critical section of
`_workqueue_work_completion` (`"ack"`), whose loop posts the semaphore once per
waiter and leaves it at zero. `FuncWaits` is a `work_func` that sleeps. `DelayEnds`
is the timer handler behind its assertion. `Cancel` is the section of
`_workqueue_cancel_work`; `rt_workqueue_cancel_all_work` is a loop of three steps, the test of the list
(`CancelTest`), the read of its first work (`CancelRead`) and that section (`CancelCut`), with
interrupts enabled between them (workqueue.c:396-404). If the timer takes the only delayed work
between the test and the read, the code cancels the list head as a work and writes over the
queue: the client goes to `"wild"`, and `WorksServed` speaks of the time before. `answered` is a history variable: who waits for a work that
was executing when the wait began. Callers use a work from one place at a time
(`Usable`) and, with `Resubmits = FALSE`, do not submit a work without delay
while its delay runs. The code leaves more to the caller than that:

- a cancel that comes between the section of a delayed submission and its
  `rt_timer_start` leaves the timer of a cancelled work running;
- `rt_workqueue_cancel_work_sync` tests `work_current` with nothing locked: if the
  work ends before it takes the semaphore, it waits for the end of the next work;
- a delay that ends while its work is executing drops the work without a word;
- `rt_workqueue_cancel_all_work` can miss a delayed work that its timer moves to
  the list that has been emptied already.

In `DataQueue` the two indices, the two flags and `rt_data_queue_len` are the
code's; `dqStored` is the history they have to agree with. A pop resumes a push
only at the low water mark. `rt_data_queue_reset` resumes everybody in two loops
inside `rt_enter_critical`, which interrupt handlers and timeouts come between (`MayRun`);
when one leaves a loop an empty list to take a thread from, the reset is `"wild"` and
`DataQueueServes` says no more.
`rt_data_queue_peek`, which tests `is_empty` before its section and can return an item
that has been popped, is left out. A wait that is resumed in vain begins again
with its whole timeout.

In `Completion`, `owed` remembers whether a completion was reported that no wait
has returned since. A wait that times out clears the flag and may erase a
completion that came after the timeout: `owed = "erased"`.

### RingBuffer, Pipe

In `RingBuffer` a byte is its number in the order of the puts, so that what a get
returns can be told from what it should. `Written` is the effect of the one or
two `memcpy`; the conditions on indices and mirror bits are those of the code.
What `rt_ringbuffer_peak` hands out is a pointer into the buffer, which later puts
overwrite: what the caller sees after that is not modelled. Sizes beyond the 15
bits of the index fields are not reached: `rt_ringbuffer_create` takes a 16-bit
unsigned size and passes it on as a signed one.

In `Pipe` the buffer is the number of bytes in it and `pipeLock` the owner of the
mutex. `"wake"` is the point at which a reader or a writer has released the mutex
and not yet woken the other end; `"wait"` is the one before it enters
`rt_wqueue_wait`. What happens in between is kept in `wqFlag`. `PipeClose`,
`HangUpReader`, `HangUpWriter` and `PipeClosed` are one close, in the mutex. A thread
opens one end; `O_RDWR` and the deletion of an unnamed pipe, for which the code
reads `ref_count` after it has released the mutex (pipe.c:110), are left out. Of
two readers in a queue the last close wakes one only (waitqueue.c:67), so that the
other one sleeps for ever although pipe.c:149 means it to see the end of the file; the
runs and the theorems are for one at each end. Bytes that are left when the last
writer closes are never read: the end of the file comes first.

### Defunct

`ExitEnlist`, `ExitPost` and `ExitSwitch` are `_thread_exit` with the release of
`system_sem` in its middle; the thread is on its stack until the last of them. The
list is last in, first out. `SysTake`, `SysDequeue`, `SysFree` are the
system thread. A thread that has been freed may be created again. Who deletes a
thread does so once and not while it exits: `rt_thread_delete` reads `stat`
with interrupts enabled.

The system thread is bound to core 0. For threads of that core the section of
`_thread_exit` keeps it away. For a thread of core 1 (`HomeOf[t]` other than
`SysCore`) `DefunctServes` fails: once the thread is in the list the system thread may
take it and free its stack before `ExitSwitch`. The runs have all threads on the core of the
system thread.

## Runs

Seven runs pass; they check for deadlock except where noted.

**Cores.** `SpinLock` with three threads, two on one core: `MutualExclusion`,
`OwnerIsInside`, `SectionNotPreempted` hold in every interleaving, and the accesses
between them are, for the other threads, one step that takes a free lock
and one that gives it back (`TakenInOneStep`, the refinement of `PriorityLock` with nobody queued). Two threads on one core are
what makes preemption inside the lock possible, and a third on the other core
what makes two holders possible. `CrossCore` with two cores, their idle threads,
one more thread on core 0 and two of different urgency on core 1, of which one (the one of core
0 or the less urgent one of core 1) sleeps throughout, as long as the sections do not overlap (`CONSTRAINT Apart`), wake-ups going both ways: `WakeUpExact`, the ready queues hold exactly the ready threads and a
running thread has its core, so that the wake-up that only sets the `stat` of a thread still on
its core is not lost; and `RescheduleServed`, a core does not go on with a
less urgent thread, although the interrupt, its type and the section that sent
it are separate, and although each core that sends one clears its own `ipi_type`
(irq.c:192) with whatever it has not served: it schedules itself afterwards, so that nothing is
lost. The one loss there is, a reschedule that comes after the look at `ipi_type` and before
`clint_ipi_clear` when the look found none, is excepted by name (`unheard`). Half a million
states. Deadlock is not checked: a thread that polls with
its interrupts off can keep the holder, on the same core, from running.

**Scheduler.** Idle, main and two threads, one more urgent than main and one
equal; priorities 1 to 3 with changes between 1 and 2, a slice of two ticks, one level of
critical section, timed sleeps. 4.9 million states. `ReadyQueueExact`,
`OneThreadOnCore`, `TimerOnlyWhenSuspended`. Two equal
threads in one queue, one alone in another and one moving between them is what
the bit group and the queues can disagree over; the slice of two tells a tick that ends it from one that
does not. Deletion is left to the next run.

**SchedulerPriority.** The same threads with fixed priorities and deletion of `b`,
without timed sleeps, under `FairSpec`. `HighestPriorityRuns` (a change of
priority does not reschedule in the code, so it is stated where priorities are
fixed), `ClosedIsGone` and the liveness property `RoundRobin`.

**Semaphore.** Three threads of two priorities and an interrupt handler, one initial
token, a maximum of two, which reaches both a wait and the full counter. A behaviour
has one of two parts. On two cores, with one of the threads and the handler on the second and
without timeouts and resets, the semaphore implements `CountingSemaphore` (`CountsTokens`,
where the tokens on their way to a woken waiter count as available
until it returns), nobody waits while a token is there, and a detach strands nobody
(`SemaphoreServes`), although `rt_sem_release` chooses a waiter in one step and wakes it
in another, and `_ipc_list_resume_all` does not take the spinlock; every suspended thread
stays in the list it can be woken from (`SuspendedIsLinked`). On one core, with timed
takes, resets to zero or to the maximum, and a detach that starts while no waiter has a timeout
(`DetachUntimed`), every wait with a timeout ends: the thread is made ready again
(`EveryTimedWaitEnds`), under `Fairness`. That it then gets the core is not claimed: `rt_schedule` is
strictly by priority, and a less urgent thread may starve.

**MutexOneCore.** Three threads of three priorities, one recursive mutex with at
most two levels, timeouts. All of its properties hold: `OwnerHolds`, from which mutual
exclusion follows (`MutexMutualExclusion`), `TimeoutFindsSuspended`; `WaitersServed`, which is
`WaitersHaveOwner` and `HandOverFindsWaiter`; and `PriorityInheritance`, which is
`OwnerUrgent`, `WaitersByUrgency` and `PriorityRestored`. `PassesByUrgency` is the
refinement of `PriorityLock`: what the abstract lock grants is what the calls have told the
threads (`taken`), and its heir is the owner whose `rt_mutex_take` has not returned. Several mutexes are covered by the proofs below.

**IpcObjects.** Two threads of different urgency and an interrupt handler on one
core use a message queue of two nodes, an event with two flags or a mailbox of
two mails, with timeouts, reset and detach. 1.5 million states.
`NodesConserved`, `NoWaitInVain` and the refinement `DeliversInOrder` (the queue
implements `BoundedChannel`); `NoWaiterSatisfied` and `EventsClearedOnce`;
`MailsServed`, as long as nobody comes between the unprotected statements of a
woken thread, which includes its second suspension and the resumption of the other side
(`CONSTRAINT Undisturbed`: what happens beyond is the subject of the run `MailboxWoken`). Detaches of objects
with timed waiters are included; one that goes wild ends the object. Two of a kind fill a queue with one left to
wait, and the handler takes what a thread was woken for.

**Services.** Three timers with periods 1 and 2 and ticks modulo 8, so that deadlines wrap
around and coincide (`TimersOnTime`); a heap of 15 units with two users and
requests of 1, 3 and 6, so that blocks are split, merged on both sides, shrunk
and moved (`HeapIntact`); a pool of two blocks with three threads and a handler
(`PoolServes`); three users of two DMA channels (`ChannelsServed`, which is
`TokenFindsChannel` and `HeldByOne`). A work queue with two works, two clients and
an interrupt handler (`WorksServed`); a data queue of two items with a low water
mark of zero, and a completion, with three threads and a handler
(`DataQueueServes`, `CompletionServed`): with two places and the mark at zero, pushes sleep above the
mark and below a full queue. A ring buffer of four bytes with lengths 0 to 6, beyond
its size, and nine bytes put (`MaxPut`, twice around the buffer and the mirror
bits; `RingExact`); a pipe of two bytes with one reader and one writer that write
up to three (`PipeServes`); three threads that end and are created again, with
`system_sem` up to four (`MaxPosts`; `DefunctServes`). 1.1 million states. The reset of the data
queue meets timed waiters, and the cancellation of all works meets delays that end.

Bounds are the smallest that let every branch of the code be taken: two waiters
besides a holder (so that an order exists), two cores, both ends of the
counters. Nothing in the code distinguishes a third waiter; a third core, which the
K210 does not have, would matter to `RescheduleServed` only: a send to one of the others would
clear its `ipi_type`.

The other five runs expect a violation and are described next.

## Disagreements with the code's own text

Each has a run that checks one property and finds it violated.

| run | property | the code | the text it contradicts |
|---|---|---|---|
| `CoresWakeUp` | `WakeUpKept` | `priority_group \|=` for a thread of another core (scheduler.c:682) and that core's own `\|=` or `&= ~` (790) are loads and stores under different interrupt masks; one overwrites the other and a ready thread is in a list that no bit leads to | thread.c:854: "resume a thread and put it to system ready queue" |
| `SchedulerDelete` | `ClosedIsGone` | `rt_thread_delete` (thread.c:491) dequeues first and stops the timer in a later section; a timeout between queues the thread again | thread.c:468: the thread is removed from the thread queue |
| `MutexTimedOwner` | `OwnerHolds` | `rt_mutex_release` (ipc.c:1177) makes the first waiter the owner although the other core has timed it out | ipc.c:907: any other result means that the take failed |
| `MailboxWoken` | `MailsKept` | `rt_mb_recv` and `rt_mb_send_wait` (ipc.c:2393, 2123) enable interrupts where they mean to disable them; a sender in between and the woken thread overwrite each other's `entry` | ipc.c:2393: "disable interrupt"; 2291: the receiver gets a mail when there is one |
| `WorkQueueDelay` | `DelayFindsQueue` | a work that is submitted without delay while its delay runs (workqueue.c:104, or by `rt_workqueue_urgent_work`) keeps its timer; the worker clears its `workqueue`, and the timer comes | workqueue.c:185: `RT_ASSERT(queue != RT_NULL)` |

Met on the way, and described here without a run of their own:

- A reschedule interrupt that arrives between the look at `ipi_type` and
  `clint_ipi_clear` (interrupt.c:332) is cleared unseen if the look found no reschedule,
  as after a send of its own has cleared the type (irq.c:192): the thread waits for the core's
  next switch. `RescheduleServed` excepts this (`unheard`); without the exception TLC finds it
  violated even while sections do not overlap.
- When sections overlap, `rt_schedule` can follow a bit that the other core has set to a list
  in which it has not yet linked the thread (scheduler.c:682), and take the list head for a thread
  (`Pick`, `"wild"`).
- A broadcast by `trigger_ipi_irq` indexes the cores with the out-of-range
  destination instead of `i` (irq.c:157, 180). Nobody in the repository broadcasts.
- After `rt_spin_unlock` the core's interrupts stay off until the thread's next
  voluntary switch, because `exclusive_read_write` (context_gcc.S:24) has no `ret` and falls into
  the `csrrci`, before the interrupt level is saved. Between two threads of one core, one that polls with
  interrupts off can keep a holder that was switched out before its `csrrci`
  from ever releasing; the test `test_spinlock_prempt.c` lets a more urgent thread
  arrive while another polls.
- With timed waits on two cores, `rt_sem_release` (ipc.c:623) ignores that
  `rt_thread_resume` refuses a waiter that the other core has just timed out: the
  token goes to nobody and `CountsTokens` fails.
- With timed waits on two cores, the assertion of `rt_thread_timeout`
  (thread.c:913) can fail: the waiter may be resumed between `rt_timer_check`
  and the assertion.
- Loops that test a list with interrupts enabled and take its first element later:
  `_ipc_list_resume_all` without a spinlock (ipc.c:214), the detach of a memory pool (mempool.c:149),
  `rt_data_queue_reset` (dataqueue.c:313, 337), `rt_workqueue_cancel_all_work` (workqueue.c:402-404).
  A timeout, or the end of a delay, in between leaves the list empty, and the list head is
  resumed as a thread or cancelled as a work. In the models of the message queue, the event, the
  mailbox, the pool, the data queue and the work queue this is a reachable state, `"wild"`, at which the model of
  the object ends. `Semaphore` stops there (`ResumeAllPop` has no step on an empty list), and its run
  excludes the case with `DetachUntimed`.
- `rt_thread_suspend` (thread.c:822) tests `stat` before it disables interrupts: a thread that has
  gone to sleep by then is suspended once more, and `rt_timer_stop` takes the timeout of
  its wait away.
- A thread that waits again in `rt_mb_recv` or `rt_mb_send_wait` after a wake-up suspends itself with
  interrupts enabled: an interrupt that switches before it is in the list (ipc.c:2088, 2358) loses
  it, and a send before `rt_timer_start` (2105, 2375) leaves its timer running while it is awake.
- `rt_sem_control(RT_IPC_CMD_RESET)` (ipc.c:679-697) does not take the spinlock
  that take and release of the other core rely on.
- With two mutexes, `rt_mutex_release` (ipc.c:1157) restores the priority saved
  at take, which may itself be inherited through the other one: released in the
  order they were taken, `PriorityRestored` fails although the comment says
  "change the owner thread to original priority"; and `OwnerUrgent` fails, since
  releasing one drops what the waiters of the other gave.
- `rt_malloc` stops its search at `mem_size_aligned - size` (mem.c:305): a free
  block that ends at the end of the heap and fits exactly is never taken. The
  remainder that a shrinking `rt_realloc` leaves in use may be smaller than the
  `MIN_SIZE_ALIGNED` that the comment at mem.c:297 promises of every block.
- `RT_TIMER_CTRL_SET_ONESHOT` (timer.c:551) in the function of a periodic timer
  leaves `RT_TIMER_FLAG_ACTIVATED` set although the timer is in no list.
- `rt_mq_detach` (ipc.c:2631) wakes the waiters of the queue, not those already
  woken and about to look at it again.
- A thread of core 1 that exits can have its stack freed by the system thread of
  core 0 while it is still on it (idle.c:160-164, module `Defunct`).

## Fairness

`Scheduler!FairSpec`: strong fairness of `Tick` (the clock interrupt stays
pending while masked and is taken when the core is back in a thread, also when
device interrupts keep coming), weak fairness of `IrqLeave` (handlers end),
strong fairness of `Schedule` (a thread at its call reaches it, between
interrupts), strong fairness of `LeavesCritical` (a critical section ends) and of `CallEnds` (a
suspension or a deletion of another thread that is under way goes on). No fairness is assumed of threads' calls: nobody has to
sleep, yield or wake anybody. `RoundRobin` thus rests on the tick alone.

`Semaphore!Fairness`: weak fairness of the steps of a thread that has disabled the interrupts
of its core, which nothing but itself can keep from going on, and strong fairness of each
timeout, since a timer expires when its tick comes and the clock interrupt is taken whenever the core
has its interrupts enabled. No fairness is assumed of calls, so a release that would wake
a waiter need not come, nor of threads with interrupts enabled: under strict priorities a
ready thread may never run.

## Proofs

All proofs are for arbitrary sets of threads, cores and objects, arbitrary
bindings and priorities.

Where a theorem needs a condition on the constants it is a hypothesis of the
theorem (`ASSUME Exclusive PROVE Spec => []OwnerHolds`), and the section says
which behaviour makes it necessary. The other hypotheses are the assumptions of
the modules (`BindAssumption`, `IpcAssumption`, ...), which TLC evaluates in
the runs.

**ListProofs** and **IpcObjectProofs**: what the list operations and the shared
steps do. Removing a thread removes that thread only and keeps the others once
each; `Place` adds the thread and nothing else wherever it goes; what head and
empty mean as sets. That a non-empty set of naturals has the minimum that `Place`
and `__rt_ffs` ask for comes from the library's theorem that strict inclusion of
finite sets is well-founded, applied to the intervals `0..i`. Each step of
`IpcObject` keeps `SuspendedIsLinked`: the suspended threads are those in the
lists, each in one and once.

**SpinLockProofs**: `SpinLockTypeOK`, `SpinLockMutualExclusion`,
`SpinLockOwnerIsInside`, `SpinLockSectionNotPreempted`. The inductive invariant
adds to the properties `FreeLock` (a reservation stands only while the lock is
free, and a free lock has no holder; a successful `sc.w` therefore finds nobody
inside) and `IrqsOff` (from its second `csrrci` on, the thread stays on its core
with interrupts off; so nobody else of its core runs between the write and the
clearing of `owner`). `MutualExclusion` alone is not preserved by `sc.w`, nor
`OwnerIsInside` by `ClearLock`. `SpinLockTakenInOneStep` is the refinement of
`PriorityLock` with nobody queued: the `sc.w` that succeeds is the abstract `Acquire`,
because of `FreeLock`, the write of `lock` the abstract `Release`, and every other access
and switch a stutter, the test of `owner` because of `OwnerIsInside`.

**SchedulerProofs**: `SchedulerTypeOK`, `SchedulerReadyQueueExact`,
`SchedulerOneThreadOnCore`, `SchedulerTimerOnlyWhenSuspended`,
`SchedulerClosedIsGone`, for any threads, priorities, slice and nesting. Each
assumes `NoTimedVictim`: a thread that sleeps with a timeout is not deleted by another
one. The run `SchedulerDelete` is the counterexample without it. The inductive invariant is

- `Exact`: a thread is linked in the list of a priority exactly if it is `READY`,
  has that priority and is not being deleted, and the bits are those of the lists
  that are not empty. Insertion does not look whether a thread is linked already:
  it relies on `stat`;
- `OnCore`: the running thread is the only one with `oncpu`, and the idle thread
  never leaves the scheduler, so that `SwitchThread` always finds a thread;
- `Timers`: only a suspended sleeper has a timer;
- `Deletions`: only the steps of `rt_thread_suspend` and `rt_thread_delete` have a victim.

`SchedulerHighestPriorityRuns` adds `NewPrios = {}`, fixed priorities, because
`rt_thread_control` changes a priority without a reschedule. Its inductive form
`Urgent` says when the most urgent thread may wait: inside an interrupt that
has set `irq_switch_flag`, in a critical section, or at the point before
`rt_schedule()`.

**SemaphoreProofs**, for any threads on any number of cores:

| theorem | condition | why it is needed |
|---|---|---|
| `SemaphoreTypeOK`, `SemaphoreSuspendedIsLinked` | none | |
| `SemaphoreNoWaitWhileAvailable` | `ResetsAlone`: no reset, or one core | the reset sets the value without the spinlock |
| `SemaphoreServesAll` | and `Untimed` | a timeout may empty the list that a detach walks |
| `SemaphoreCountsTokens` | no reset; `Exclusive`: no timed waits, or one core | a release ignores that its waiter has timed out |
| `SemaphoreTimeoutFindsSuspended` | `OneCpu`: one core | a release may wake the thread whose timeout the other core is handling |

`Base` is what holds without a condition: the thread in a section is the one that
disabled its core's interrupts, and the suspended threads wait in `rt_sem_take`.
`Phases` adds who holds the spinlock and that a detach is alone. `Chosen` says
that the waiter a release has chosen is still the first of the list when it is
resumed. `SemaphoreCountsTokens` is the refinement: initial states map to initial
states and every step of `Semaphore` to a step of `CountingSemaphore` or to none.
A token that is on its way to a woken waiter counts as available until
`rt_sem_take` returns; the number of these waiters changes by cardinality lemmas
on the set of threads.

**MutexProofs**: `MutexTypeOK`, `MutexOwnerHolds`, `MutexMutualExclusion`,
`MutexWaitersHaveOwner`, `MutexHandOverFindsWaiter`, `MutexWaitersServed`,
`MutexSuspendedIsLinked`, `MutexTimeoutFindsSuspended`, `MutexPriorityInheritance`,
`MutexPassesByUrgency`. Every one assumes

    Exclusive == "timed" \notin Waits \/ \A c, d \in Cpus : c = d

no timed waits, or a single core. It cannot be dropped: the run `MutexTimedOwner` is a
counterexample without it. The inductive invariant `IInv` consists of

- `TypeOK`;
- `Sections`: the thread inside a section is the one that disabled its core's
  interrupts, so on one core nothing comes between the steps of a release;
- `Timers`: timers run, and timeouts are handled, only for suspended threads and never
  while the core is in a section;
- `Waiting`: a suspended thread is in the list of the mutex it asked for, once,
  and in no other;
- `Asking`: a thread that was woken with `RT_EOK` owns that mutex already;
- `Owners`: a free mutex has `hold` 0, and its owner is in its list only during
  the steps of a release;
- `Handing`: during these steps the new owner is the first of the list, the
  spinlock is held by the releasing thread and the thread it will wake is that owner;
- `OwnerHolds` and `WaitersHaveOwner` themselves.

`Handing` with `Sections` is the heart of it: owner and wake-up are decided in
two places of the code, `mutex->owner = thread` and, later, `_ipc_list_resume`,
which reads the list again; they agree because the spinlock keeps other takers out of the
list and `Exclusive` keeps timeouts out. `MutualExclusion` then follows from
`OwnerHolds`.

`MutexPriorityInheritance` assumes `OneMutex` besides: with a second one a thread
releases the one and with it the priority it owes the waiters of the other, or is
lent a priority while it is linked in a list that is sorted by priority. `Lent`
adds to `PriorityInheritance` that `original_priority` is the priority the owner
started with; it is inductive because nobody but the owner has a lent
priority, and the owner is in the list only while a release has the spinlock.
That `_ipc_list_suspend` and `rt_list_remove` keep the list sorted are lemmas of `ListProofs`.

`MutexPassesByUrgency`, under the same two conditions, is the refinement of `PriorityLock`:
every step of the mutex maps to one of the abstract lock or to a stutter. The mapping
reads what the threads were told (`taken`), not `owner`: from `ReleaseHandOver` to
`TakeReturn` the owner is the heir, so that the hand-over is one abstract step although
the code makes the owner, wakes it and lets it return in four. `OwnerHolds` and `Asking` say
that exactly this thread will return `RT_EOK`, `WaitersHaveOwner` that a free mutex has
nobody waiting, `Owners` and `TimeoutAlone` that a timeout never hits the heir, and `Lent` that
the first of the list is the most urgent one by the priority it started with.

**IpcWaitProofs** begins with what the shared steps of `IpcWait` do, for any
number of lists: a thread that starts to wait is added to one list, one that is
resumed leaves the only list it is in. Then, for any threads, cores and
priorities:

- Message queue, any pool: `MqTypes`, `MqNodesConserved`, `MqSuspendedIsLinked`,
  `MqNoWaitInVain`, from `MqAssumption` and `WaitAssumption` (timed waits and resets on
  one core). The invariant adds `MqWaiting` (a suspended thread is in its
  operation's wait, in the list of its side) and `MqNodesInPlace`: free list, queue
  and the hands of threads are pairwise disjoint, without repetition and together the
  pool; each thread that copies has a node of its own; `entry` is the length of the
  queue. `NoWaitInVain` is then inductive by counting: while a receiver sleeps there
  are at least as many receivers on their way as messages. A link adds one of each;
  a receiver that takes a message subtracts one of each; one that finds that another
  was faster goes to sleep only if there is no message.
- `MqDeliversInOrder`: the message queue implements `BoundedChannel`. `MqContents` adds
  what the nodes contain: the node a sender has filled holds its message until the link,
  the nodes in the queue and the one a receiver has taken hold messages. The link is the
  put, the section of the receiver the take, the copy into its buffer the delivery, a
  reset the clear; the copy into a node is a stutter, because the node is in the
  hands of its sender alone. Put needs room in the channel: the node that is linked
  is in none of the lists, so the queue is shorter than the pool.
- Memory pool, any blocks: `MpTypes`, `MpPoolServes`, by the same counting of free
  blocks against the threads woken for them.
- Data queue, any size and mark: `DqTypes`, `DqDataQueueServes`. `DqRing` relates
  indices, flags and contents to the history; again items, and places below the
  mark, are counted against the poppers and pushers that come for them, until a reset
  goes wild.
- Completion: `CmTypes`, `CmCompletionServed`. One thread waits at a time, and `owed` agrees
  with the flag.
- Mailbox, any size, threads and priorities: `MbTypes`, `MbMailsServed`. The promise
  holds while nobody comes between the unprotected statements of a woken thread
  (`disturbed`); the run `MailboxWoken` is the counterexample beyond that. But the
  woken thread is in the middle of them in most states, with an offset moved and
  `entry` not yet written, and other threads may time out, return or be woken
  meanwhile. `MbPhases` says that at most one thread is beyond the condition of its
  loop, that nobody else runs while it suspends itself, and that what it has found and
  read, the thread it is about to resume included, is still so. `MbContents` says that the
  ring holds the mails in their order, or, while a thread is ahead with its offset, the
  mails that it will leave. `MbServed` counts list by list, as for the message queue:
  while somebody sleeps, at least as many threads come for mails (or for free
  slots) as there are. The remainder in the offsets is unfolded by `MbWrapIsModulo`.
- Event, any flags, the threads of one core: `EvTypes`, `EvNoWaiterSatisfied`,
  `EvEventsClearedOnce`. What the send does is a recursive function over the list of
  waiters. That it exists, and that each waiter it has passed is either woken with what
  is its own (`EvScanEvents`) and out of the list (`EvScanLists`) or still lacks what it
  asked for, is shown by the least position at which it would be wrong. A
  waiter that has been passed by stays unsatisfied because those behind it can only clear
  flags; two that clear have no flag in common because the second looks at what the
  first has left. `EvWaiting` is needed besides: who waits has asked for something, as
  `rt_event_recv` returns at once if `set` is 0.

`TimeoutFindsSuspended`, the assertion of `rt_thread_timeout`, is a theorem for every
object that threads wait in but the mailbox: `SemaphoreTimeoutFindsSuspended`, `Mq`, `Mp`, `Dq`, `Cm`
and `EvTimeoutFindsSuspended`, each assuming `OneCpu` only. Of a mailbox it is false: a woken thread that
waits again starts its timer with interrupts enabled, possibly after it has been resumed. Their common argument is
in `IpcObjectProofs`: `Timeouts` says that a running timer belongs to a suspended
thread, and that the thread whose timeout is being handled is suspended with its timer off.
Every step of a thread is one of four moves (`ThreadsMove`: nothing, one thread falls
asleep, one is woken, several are), each of which stops the timer of whom it wakes, and
none is made while the one core handles a timeout (`OnCpu`). With a second core the
last part fails, and the assertion with it. `MutexOneCore` checks the property by name;
the runs of the other objects check it as freedom from deadlock, since on one core a timeout
that finds its thread awake leaves nothing that can go on.

**ServiceProofs**

- DMA channel lock, any users and channels: `DmaTypes`, `DmaTokenFindsChannel`,
  `DmaHeldByOne`, `DmaChannelsServed`. `TokenFindsChannel` is about a loop that reads the
  table while others change it without the mutex. `DmaInv` says that tokens and users
  inside add up to the channels (`TokensCounted`), that a channel is marked exactly
  while one user answers for it (`MarksClaimed`), that the search is made by the
  owner of the mutex (`SearchLocked`), and that from where the search has got to
  there is still a free channel (`SearchResult`). When the search begins the user
  inside answers for no channel, so that fewer are marked than exist; while it goes on
  only its user marks a channel, and a release can only add free ones.
- Ring buffer, any size and lengths: `RbTypes`, `RbRingExact`, from `RbAssumption`. The
  length and the order of the bytes are inductive together with the types and
  `Mirrors`: with equal mirror bits the read index is not beyond the write index, with
  different ones not before it. Each function is one of two moves, of the write
  position or of the read position, with or without the end of the buffer in its way.
- Pipe, one reader and one writer, any size and any counts: `PipeTypes`,
  `PipeNobodySleepsInVain`, from `PipeAssumption`. What holds for a sleeping thread must
  hold already when it is about to sleep: `StaysRightly` extends `PipeServes` to threads
  between the look at the pipe and `rt_wqueue_wait` whose flag is clear (`Stays`).
  Every step that changes the pipe is followed by a wake-up, and a wake-up sets the
  flag and empties the list, so that nobody stays. `LockHeld` says who is inside the
  mutex, `OpenExact` that `readers` and `writers` count those that have not begun to
  close, `Linked` that a list holds at most the one thread that sleeps, `Sides` that
  the last wake-ups of read and write belong to readers and writers.
- Defunct threads, any number: `DefunctTypes`, `DefunctEndsOnce`, under `OneCore`, all on
  the core of the system thread, without which `DefunctServes` is false. `Placed` says
  where each thread is on its way to being freed, `Posted` that while the list is not
  empty the system thread will come back to it: the value of `system_sem` is not
  zero, or somebody has entered the list and not yet released it.
- Work queue, any works and clients: `WqTypes`, `WqWorksServed`, under `~Resubmits`, nobody
  submits a work without delay while its delay runs; the run `WorkQueueDelay` is the
  counterexample without it. The promise ends where `rt_workqueue_cancel_all_work` goes wild. `WqDelays` says which works may be marked in the list of delayed
  ones: those whose timer runs, and those of clients between the submission
  and the start of the timer, whose work knows its queue. `WqWorker` relates
  `work_current` to where the worker is, and `WqWaiters` says that the semaphore of the
  queue has the value 1 only inside the loop at the end of a work, which empties
  its list of waiters before the worker gives up the section.
- Heap, any size, requests and users: `HeapStaysIntact`, `HeapMemoryNotShared`.
  `BlocksTile` and `FreeBlocksKnown` speak of the minimum of a set of headers or of all
  of the heap and are not what a merge can be argued with. `HeapChain` says the same of
  neighbours: the next of each block is above it and links back to it, and there is no header between the two;
  `HeapMerged` that no two neighbours are free, `HeapLowest` that `lfree` is the lowest
  free block. Between the release of a block and the end of `PlugHoles` `HeapMerged`
  fails at that block alone, so that one merge with the next and one with the
  previous suffice. `HeapMoves` says of a thread in the middle of an `rt_realloc` that moves
  that both blocks are its own and in no other thread's hands.
- Timers, any timers, periods and modulus of the tick: `TimerExpiresOnTime`, `TimerTypes`.
  `TimerDeadlines` says that the deadline of a listed timer is the tick plus what is left of
  it, across the wrap-around, and that what is left is less than half of the modulus, so
  that the unsigned comparisons of `timer.c` agree with the order of what is left
  (`TimerNearer`, `TimerDueNow`, `TimerDueLater`; the remainder is unfolded by
  `TimerLaterIsModulo`). `TimerLists` says that list and history hold the same
  timers, once each. `TimerFiring` says what a timeout function finds: until it starts
  its own timer that one is in no list, and activated exactly if it is periodic.

**Model-checked only**: the liveness properties `RoundRobin` and `EveryTimedWaitEnds`:
liveness under fairness and `ENABLED` are out of the reach of the installed backends. `WakeUpExact` and `RescheduleServed` are checked only, since they hold only while
sections do not overlap, which the code does not see to.
The type invariants of the objects and the services are theorems and in no run.

## What is not modelled

- Not yet, and planned below: nesting of `rt_cpus_lock`, memheap.
- In the driver components: `ringblk_buf`, poll, waits with a timeout on a wait
  queue, the pipe as a device, `rt_data_queue_peek`, and what the sections on
  `WorkQueue`, `DataQueue` and `Pipe` name.
- Timers, events, mailboxes, memory pools and the driver components shared by two cores. The timer list
  and the pools have no protection between cores; a woken user of an event or a
  mailbox frees the spinlock that the other core may hold. Any statement can then
  meet any other, and no promise is left to check beyond what `MailboxWoken` shows on
  one core.
- Function calls on another core (`IPI_CALL_FUNC`), which nobody in the
  repository makes.
- `rt_mutex_detach` and `rt_mutex_delete` with waiters: the same
  `_ipc_list_resume_all` as the semaphore's, which is modelled.
- `rt_thread_detach`, `rt_thread_delay_until`, `RT_THREAD_CTRL_BIND_CPU`; the
  creation of a thread is in the initial state.
- Memheap, which is configured and used by the RAM file system only, and slab,
  which is not configured. Objects, devices,
  services, device frameworks, board drivers: registration lists, register
  accesses, I/O. File system and SDK are third-party. Signals and the shell
  are not in the configuration.
- Load measurement and the choice of a core for a thread: any choice is a legal
  binding, and the models hold for every binding.

## Plan

In order of importance; each step names its module, what it composes, and what
it should establish.

1. `CpusLock`: nesting of `rt_cpus_lock` with `scheduler_lock_nest`; `SpinLock`
   with interrupt handlers as users.
2. `MemHeap`: the same properties as `Heap`, for `memheap.c`.
3. Defunct threads of two cores, on top of `CrossCore`.
4. Proofs: the components of steps 1 to 3.
