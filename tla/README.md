# A TLA+ model of the Zircon kernel's object layer

This project models the part of Zircon on which everything above the kernel
rests: the kernel objects of `zircon/kernel/object`, the blocking primitives of
`zircon/kernel/kernel` they are built from, and the system calls of
`zircon/kernel/lib/syscalls` that drive them. These are a few thousand lines of
C++ that run on every core at once, with a lock per object, callbacks from one
object into another, hand-over of ownership between threads, timeouts, and user
code that may close a handle at any moment. Tests reach few of the
interleavings. The rest of the repository (drivers, the userspace services, the
SDK, tools, vendored code) is outside the project; see "Not modelled".
All modules take memory to be sequentially consistent.

Source paths below are relative to `zircon/kernel/`.

## 1. Inventory

| Component | State | Operations | Hard behaviour | What makes it correct |
|---|---|---|---|---|
| **Port and async wait** (`object/port_dispatcher.cc`) | `packets_`, `num_ephemeral_packets_`, `interrupt_packets_`, `observers_`, `zero_handles_`, a semaphore; per wait a `PortObserver` with its packet | `MakeObserver`, `OnMatch`, `OnCancel`, `MaybeReap`, `Queue`, `QueueUser`, `QueueInterruptPacket`, `RemoveInterruptPacket`, `Dequeue`, `CancelQueued`, `on_zero_handles` | an observer is shared by the watched object (one lock), the port (another lock) and the thread in a callback; a closing port races with all of them; the unit of the semaphore is posted after the lock is dropped | no use after free, no leak, no double delete; a wait fires once; no lost wakeup; a cancel is final; a closed port ends up empty |
| **Signals of a dispatcher** (`object/dispatcher.cc`) | `signals_`, `observers_`, handle count | `AddObserver`, `RemoveObserver`, `Cancel`, `CancelByKey`, `UpdateState` | check of the signals against registration; callbacks under the lock | no signal is missed between check and registration |
| **Handles** (`object/handle.cc`, `process_dispatcher.cc`) | arena slots, base values, the process's table | make, duplicate, look up, close, transfer | a slot is reused; stale pointers; the close runs outside the table lock | a value names at most one handle; a closed handle is not found |
| **Semaphore, event, wait queues** (`kernel/semaphore.cc`, `event.cc`, `wait.cc`, `owned_wait_queue.cc`) | count or signalled result, blocked threads, owner | post, wait, signal, timeouts, requeue | timeout racing a wake; priority inheritance through owners | a unit is never lost; nobody blocks beside an available unit |
| **Channel** (`object/channel_dispatcher.cc`) | a queue per endpoint, `waiters_` of `zx_channel_call`, `txid_`, the peer link, owner | `Write`, `Read`, `Call`, `ResumeInterruptedCall`, `on_zero_handles` | a reply races the deadline, the close of either endpoint, a suspend | a message is delivered once and in order, a call gets its own reply or an error, nobody waits on a dead peer |
| **Timer** (`object/timer_dispatcher.cc`, `kernel/timer.cc`, `kernel/dpc.cc`) | deadline, `cancel_pending_`, a kernel timer, a DPC, references held by both | `Set`, `Cancel`, `OnTimerFired`, `on_zero_handles` | the irq callback and the DPC outlive a cancel; a new deadline is set while the old one is being delivered | fires for the last deadline set and only then, the object is freed once nobody will call it |
| **Wait one / wait many** (`object/wait_signal_observer.cc`, `lib/syscalls/object_wait.cc`) | an observer on the stack, an event | `Begin`, `End`, `OnMatch`, `OnCancel` | the frame goes out of scope while an object may still call it | the observer is off every list when the call returns |
| **Futex** (`object/futex_context.cc`) | futex states with reference counts, wait queues with an owner | wait, wake, requeue, get owner | value check against wake, owner change on requeue, thread exit | no lost wakeup, no waiter left on the wrong queue |
| **FIFO, socket, event pair, event** (`fifo_dispatcher.cc`, `socket_dispatcher.cc`, ...) | ring or mbuf chain per endpoint, disposition, signals | read, write, shutdown, close | partial transfers, thresholds, half-close | bytes in order and once, signals agree with the buffers |
| **Interrupts** (`interrupt_dispatcher.cc`) | a small state machine, timestamp, bound port packet | wait, ack, bind, trigger, destroy | the handler runs in irq context against wait, ack and destroy | one delivery per trigger until acknowledged |
| **Jobs, processes, threads** (`job_`, `process_`, `thread_dispatcher.cc`) | life-cycle states, children, suspend count | create, start, exit, kill, suspend | a kill races creation and exit | a killed job ends up empty, a dead process has no thread |
| **Exceptions** (`exceptionate.cc`, `exception_dispatcher.cc`, `exception.cc`) | exception channel, the response event | deliver, handle, resume, shut down | a handler dies or is replaced while an exception is out | a thread leaves an exception exactly once |
| **Pager** (`pager_dispatcher.cc`) | outstanding page requests, one in the port | queue, complete, detach, close | completion against cancellation | a request is answered or cancelled, never both lost |
| **Mutex, BrwLock, timer queue, DPC** (`kernel/`) | owner words, reader counts, sorted queues | acquire, release, upgrade, insert, fire | hand-off, contention bits | exclusion, no lost hand-off, slack respected |

How they interact: `zx_object_wait_async` makes a `PortObserver` under the
handle table's reader lock and puts it on the observer list of the object the
handle names. A change of signals erases it from that list and calls
`OnMatch` with the object's lock held, which queues the packet under the port's
lock and posts the semaphore with that lock dropped. Closing a handle cancels
the observers registered through it; closing the port takes observers off
their objects, which needs the object's lock, and so must drop the port's.
Channels, timers, processes and the others change signals and so are all
sources of such callbacks.

The hazards of the code, each with the line where it bites and the property
that watches it, are in `PROJECT.json` ("hazards").

## 2. Plan

Done, in this order: `Port` with its invariants and proofs; `Channel` with its
proofs; the timer object against an abstract one-shot timer, and the timer
queues, with their proofs; synchronous waits and futexes, with their proofs; the
two locks against an abstract lock, with their proofs. Every safety property that
a run checks is also a theorem.

Next, by what they would add:

1. `AsyncWait`: what a port promises a program (armed, then fired once or
   cancelled, then gone), and `Port` shown to implement it, from the invariants
   that `PortProofs` has.
2. `Interrupt` composed with the port: `Port` has the packets that interrupts
   queue and remove, not the state machine of `InterruptDispatcher` that decides
   when.
3. `JobTree`: a kill against creation and exit of processes and threads, suspend
   against exit.
4. `Exceptionate`: a handler that is replaced or dies while an exception is out.
5. `Fifo` and `Socket` against a sequence of bytes; `Pager`.

## 3. Modules

### Port

One port, a set of watched objects, a set of handle slots, and threads that
make system calls. A critical section of the code is one step. A section that
calls into another object, or loops over such calls, is split into a step per
call, and the lock it keeps is held in `objLock` or `portLock`, so that the
lock order and the windows in which a lock is dropped are those of the code.

| Variable | Code |
|---|---|
| `signals`, `observers`, `objLock` | `Dispatcher::signals_`, `observers_`, `get_lock()` |
| `handleObj`, `handleGen` | the process's handle table; how often each arena slot was allocated |
| `portInTable`, `zeroHandles` | the port's handle; `zero_handles_` |
| `packets`, `numEphemeral`, `interruptQueue`, `portLock` | the port's members; a signal packet is named by its observer, a user packet by its arena slot |
| `semaCount`, `semaWaitq` | `Semaphore::count_`, `waitq_` |
| `arena` | allocated slots of the packet arena |
| `linked` | observers in the port's `observers_`, which are those whose `dispatcher_` is set |
| `packetOwned` | observers referenced by `PortPacket::observer` |
| `destroyed` | observers whose destructor has run |
| `wait` | the arguments of the `zx_object_wait_async` that made each observer |
| `pc`, `caller`, `tObj`, `tObs`, `tPkt`, `tHandle`, `tKey` | where each thread is and its locals |
| `delivered`, `cancelled`, `tSnap` | history, read by properties only |

Actions carry the names of the functions. `MakeObserver`, `AddObserver` and
`AddObserverMatch` are `zx_object_wait_async`; `UpdateState`,
`UpdateStateLocked`, `Queue`, `PostCount`/`PostWake`, `MaybeReap` and
`CallbacksDone` are a change of signals with the callbacks it makes;
`CloseHandle`, `LockForCancel`, `Cancel` are the close of a watched handle;
`PortCancel`, `FindSource`, `CancelByKey`, `CancelQueued` are
`zx_port_cancel`; `Dequeue`, `Wait`, `Timeout`, `DequeueInterrupt`,
`NoInterrupt`, `DequeueUserPacket`, `DequeueSignalPacket`, `DequeueSpurious` are
`zx_port_wait` (`ReadIsEphemeral` is its last look at a packet, which has to come
before the unlock); `Alloc`, `QueueUser`, `QueueUserFails`, `Free` are
`zx_port_queue`; `ClosePort`, `OnZeroHandles`, `Zero...`, `RemoveObserver`,
`Relock` are the close of the port.

Abstractions. The contents of packets, timestamps, kernel counters and rights
are left out. `observers` is a set: the order in which one dispatcher calls its
observers back is arbitrary. The handle table's lock is not a variable: the
threads inside a section it guards are known from their labels
(`TableReaders`), and a step that changes the table waits until there is none.
`zx_port_wait` by a thread that is killed or suspended leaves through
`Timeout`, which the code treats alike. Allocation failure
(`ZX_ERR_NO_MEMORY`) changes no state and appears as a disabled action.
`CancelQueued(PortPacket*)` and packets with an allocator of their own, which
only the pager, the hypervisor and exceptions use, are left for the modules of
those components.

Bounds, all named constants: `Observers` bounds the async waits over a
behaviour (an allocation is never reused, which makes a use after free
visible); `MaxHandleGen` bounds how often a slot is allocated; `MaxSemaCount`
stops interrupts when the semaphore has run ahead of the queues, which it can
do without limit because a removed interrupt packet leaves its unit behind.

### PortInvariant and PortProofs

The inductive invariant `PortInv`, the four that build on it (`SignalInv`,
`CancelInv`, `UnitInv`, `PacketInv`), and the proofs; see section 5.

### Channel

One channel: two endpoints, the processes that may own them, their threads, and
the messages. Both endpoints share a lock (`PeerHolder`), so every section under
it is one step. A system call takes two: it looks its endpoint up in the handle
table (`StartRead`, `StartWrite`, `StartCall`), and takes the channel's lock
later. Between the two the handle may move to another process or be closed.

| Variable | Code |
|---|---|
| `hasPeer`, `signals` | `PeeredDispatcher::peer_`, `signals_` |
| `messages`, `waiters`, `owner`, `txid` | members of `ChannelDispatcher` |
| `handle` | which handle table the endpoint's one handle is in (channel handles cannot be duplicated); "kernel" while it is in a message or a `HandleOwner` |
| `destroyed` | endpoints whose destructor has run |
| `wChannel`, `wMsg`, `wTxid`, `wStatus` | members of the `MessageWaiter` in each `ThreadDispatcher`; its event is signalled when `status_` is set and so is not a variable of its own |
| `pc`, `tEnd`, `tMsg` | where each thread is and the locals of its system call |
| `killed` | processes that are dying |
| `packet` | what a message says: sender, transaction id, the request it answers |
| `fate`, `transfers`, `receipt`, `lastUse` | history, read by properties; `transfers` also bounds the moves, and `fate` tells a program which requests it has read and may answer |

`AddHandle`, `RemoveHandle`, `OnZeroHandles` and `Destroy` are the life of a
handle and its endpoint. `Read`/`ReadFails` and `Write`/`WriteFails` are the
functions of that name, `WriteSelf` the delivery they share with calls.
`zx_channel_call` is `CallShot`, `CallNotOwner`, `CallPeerClosed` and `Call` (the
first half, by outcome); then `MessageWaiter::Wait` returns through `Woken`,
`Expires` or `Interrupted`; an interrupted thread is in the vDSO's retry loop
("retry") until `CallFinish`; `ResumeInterruptedCall` is what follows the wait.
A `Kill` ends a process; its threads leave at `Exit`, wherever they cross to
userspace; `RemoveWaiter` is the destructor of a dead thread's `MessageWaiter`.

Abstractions. A message is its transaction id, not its bytes; the handles it
carries are left out, so a handle that moves is "kernel" in between. Whether a
message fits the reader's buffer is a free choice. Kernel ids (the high bit is
set) are `0 .. NumTxids - 1`; all ids of userspace are one value, `None`, which
matches no waiter. The programs keep the rules of
`docs/reference/syscalls/channel_call.md`: a reply repeats the id of a request
that was read. Programs retry only through the vDSO, so `zx_channel_call_finish`
never meets a waiter that is not in use. Faults on user memory are left out,
among them the `copy_from_user` in `sys_channel_call_finish` that returns before
the waiter is looked at. A thread does not exit alone, only with its process.
Also left out: the warning and the policy exception on queues of 3500 messages,
user signals, and kernel code that reads and writes channels without an owner
check.

Bounds: `Messages` bounds the writes and calls, `MaxTransfers` how often each
handle enters a handle table, `NumTxids` is the number of transaction ids,
2^31 in the code.

### ChannelProofs

Proofs that `ChannelInv`, defined at the end of `Channel`, is an invariant, as are
`ConserveInv` and `ReplyInv` on top of it, and what follows; see section 5.

### OneShotTimer, TimerDispatcher, TimerProofs

`TimerDispatcher` is one user timer with the kernel `Timer` it owns, the Dpc the
interrupt callback queues, and the Dpc worker of each CPU. `Set`, `Cancel` and
`on_zero_handles` hold the dispatcher's lock and are a step each (`SetTimer`,
`CancelTimer`, `OnZeroHandles`), between `Lookup` and `Return`, which take and
drop the reference of the system call. The firing is `TickErase`,
`TimerIrqCallback` and `TickDone` (the interrupt), `DpcWork`, `OnTimerFired`
and `OnTimerFiredRelease` (the worker). None of those holds the lock before
`OnTimerFired`, so a firing that has left the queue cannot be withdrawn, only
recognised by `cancel_pending_`.

| Variable | Code |
|---|---|
| `deadline`, `slack`, `cancelPending` | `deadline_`, `slack_amount_`, `cancel_pending_` |
| `signaled` | `ZX_TIMER_SIGNALED` |
| `refs`, `destroyed` | the reference count, and whether it has reached zero |
| `handle` | the one handle: open, removed from the table, zeroed, closed |
| `queuedOn`, `scheduled`, `active`, `irq` | the kernel timer: its queue, `scheduled_time_`, `active_cpu_`, how far the interrupt is |
| `dpcQueuedOn`, `dpc` | the Dpc: its queue, and each CPU's worker |
| `panicked` | a `panic` or assertion of the code has fired |

`OneShotTimer` is what a program is promised: at most one window is armed,
SIGNALED goes up for that window, not before it opens, and it does go up. Only
the close of the last handle may drop an armed window otherwise than by a set or
a cancel, once, and it does happen once it has begun (`life`). `TimerDispatcher`
refines it with `armed` being the deadline in force and `life` how far the close
is.

Abstractions. Coalescing may put the timer anywhere in its window (`scheduled'
\in Earliest .. Latest`); `TimerQueue` says where. `Timer::Cancel` spins while
the callback runs; the interrupt needs nothing the spinning thread has, so the
spin is the guard `NotRunning`. The move of timers off a CPU that goes off line
belongs to `TimerQueue`; `DpcQueue::Shutdown` and `TransitionOffCpu` of the Dpc
worker are left out. The clock stops at `MaxTime`, beyond every window.

### TimerQueue, TimerQueueProofs

The queues of all CPUs: `Set` with `Insert`, `Cancel`, `Tick`, the preemption
timer, `TransitionOffCpu` and `ThawPercpu` of `kernel/timer.cc`. `Insert` is the
loop that looks for a timer to share the deadline with; the loop's decision at
each place is `PassOver`, the place where it stops `StopAt`. All queues share a
spin lock that `Tick` drops around a callback, so `TickStart`, `TickFire`,
`CallbackDone` and `TickEnd` are steps of their own, and a callback may itself
set or cancel timers. `Cancel` leaves a thread `spinning` while the callback
runs on another CPU, `CancelReturn` ends that. The canceller may itself be a
callback, which then makes no other step until the spin is over (`waits`); two
callbacks that cancel each other's timers spin for ever, in the model as in the
code, which leaves that to its callers. `hardware` is what the one-shot
timer of each CPU was programmed for, and `window` remembers the deadline and
slack each queued timer was set with. Timers are set as `Timer::Set` demands.
`Adopt`, the loop of `TransitionOffCpu`, is a recursive function of the number of
timers taken over so far.

### SyncWait, SyncWaitProofs

`zx_object_wait_one` and `zx_object_wait_many` with `WaitSignalObserver`, the
observer lists of the dispatchers and the `Event` on the caller's stack. A wait
for one handle is a wait with one item. `Enter`, `Begin` for each item (or
`BeginFails`, which unwinds through `Unwind` and `Unwound`), `BeginDone`,
`Wakes` (the event, the deadline or a kill), `End` for each item, `Return`.
Objects change through `UpdateState`, handles close through `RemoveHandle` and
`Cancel`; both take the observers off the list and call them one by one with the
object's lock held, in two steps (`Store`, what the observer keeps of the
signals, and `Signal`, the event), and `callbacks` is what the holder of the
lock has still to do. `NoDanglingObserver` is about the moment between the two.
After a failure the observers are ended first to last, `numAdded` of them.
`BeginFails` stands for a handle that is not in the table; a missing right and an
object that cannot be waited for are found at the same place and have the same
consequence. `signals` stand for masks, `pending` for `items[].pending`, "CLOSED" for
`ZX_SIGNAL_HANDLE_CLOSED`. The lists are sets: the order in which an object calls
its observers is arbitrary, which covers the one the code has.

### Futex, FutexProofs

`FutexContext` with the pool of `FutexState`s, their pending-operation counts,
the `OwnedWaitQueue` of each, and the threads of a process, which start, exit
and are destroyed (each brings two states to the pool and takes two away). A
system call is `Wait`/`WaitCheck`/`Block` or a failure, `WakeCall`/`FutexWake`,
`RequeueCall`/`RequeueCheck`/`FutexRequeue`, `GetOwnerCall`; then it releases its
references (`Release`; `rel` counts, for each futex, the references a thread has
still to drop on its way out). A thread that times out (`Unblock`) does not know which
futex it is on (`FindBlocking`, `ClearOwner`). `Store` and `WakeAfterStore` are
the program: it changes the value and wakes all, the discipline futexes exist
for; wakes and requeues at any other moment are free.

Abstractions. The value is a bit. Whom a wake chooses among the sleepers is
open, as it depends on priorities. Effective priorities and their propagation
along owners are left out: only who is the owner matters here. The lock of the
owner's `ThreadDispatcher`, which `FutexWait` and `FutexRequeue` hold until they
have assigned the owner, is left out too, so the owner may do more in the model
than in the code. A bad owner handle (`validator_status`) fails at the same place
and in the same way as a bad owner and is not told apart. Faults on user memory
are left out. `WakeCounts` and `RequeueActions` are the
arguments of the calls.

### SharedLock, Mutex, MutexProofs, BrwLock, BrwLockProofs

`SharedLock` is the lock a client sees: readers, or one writer. `Mutex` and
`BrwLock` are the code, one atomic instruction a step; sections under the
thread lock are split wherever a fast path of another thread could run between
two instructions. In `Mutex`, `val_` is `holder` and `contested`; `Acquire` is
`FastAcquire`, `FirstAttemptFails`, `StopSpinning`, `Load`, `Mark`, then
`TakeFree` or `Block`; `ReleaseInternal` is `FastRelease` or `ContestedRelease`,
`Wake`, `HandOff`. The local `woken` is uninitialized in the code when nobody is
woken, so it takes any value. A panic stops the thread for good and leaves the
mutex taken, which `TakenAgain` sees. In `BrwLock` the word is `readers`, `waiting` and
`writing`; a slow path remembers the word it saw in `prev` and decides on that
(`ReadDecide`, `WriteDecide`, `UpgradeDecide`), and `Wake` wakes one thread a
step. `WriteNow` is the 128-bit exchange of `state_` and `writer_`. Where
the code stores `writer_` and then adds to the word (`BecomeWriter`) the two are
one step: nobody else can read or write `writer_` in between. Spinning, lock
tracing and the propagation of priority to the owner are left out; `owner` is
kept and checked. An idle thread never stops calling, and recursion, which the
code asserts away, is not in the model.

### The MC modules

Instances for TLC and symmetry sets: names of threads, slots, observers, keys,
messages and timers are only compared for equality, and symmetry is used in the
runs that check no temporal property. In `MCChannel` a process A has two threads
and a process B one. In `channel_calls` the threads of A own endpoint 0 and that
of B endpoint 1 (`BothCall`), and all of them may call. `channel_owners` checks a liveness property and so has no
symmetry; its action constraint `OneCaller` lets only t1 enter `zx_channel_call`
and makes interchangeable messages in one order. It disables only steps that
enter a call, none that fairness is about. `MCTimerQueue` covers two regions:
one CPU inserts three timers with any windows (`Filling`), and everything races
with at most two timers whose windows are narrow (`Racing`); `Scope` keeps the
search in them. In `MCSyncWait` one thread waits for two objects and the other
for one of them through another handle.

## 4. Runs

| Run | Instance | States | Shows |
|---|---|---|---|
| `port_observers` | 3 threads, 1 object, 1 handle slot allocated up to twice, 2 keys, 2 waits | 1.1 million | ownership and delivery of signal packets through every interleaving of waits, signals, cancels, closes of the handle and of the port |
| `port_packets` | 2 threads, 1 wait, 2 user packets with the limit at its edge, 1 interrupt | 150 thousand | the semaphore never runs behind the two queues, packets are counted and freed, calls end, closing the port reclaims everything |
| `channel_calls` | 2 threads of A, 1 of B, 3 messages, 2 transaction ids, calls from both endpoints, A may be killed | 861 thousand | calls against replies, calls of the other end, deadlines, suspensions, closes and the death of the caller |
| `channel_owners` | the same threads, 2 messages, calls from both endpoints, the handle of endpoint 0 received twice | 383 thousand | moves of the handles against calls in progress; calls return |
| `timer` | 2 threads, 2 CPUs, deadlines 0 to 2, slack 0 or 1, time to 3 | 50 thousand | one firing, references, no panic, the one-shot timer implemented |
| `timer_queue` | 3 timers, 2 CPUs, windows of all modes around 1 to 3 | 485 thousand | order and windows under coalescing, the hardware timer armed, cancellation final |
| `sync_wait` | 2 threads, 2 objects, 3 handles, a signal | 190 thousand | no observer outlives its frame, no wake-up missed, results and returns |
| `futex` | 3 threads, 2 futexes, wakes and requeues of 0 or 1, and the wake of all after a store | 1.2 million | references, pool, owners, no lost wake-up |
| `mutex` | 5 threads | 16 thousand | an exclusive lock, and it is taken again |
| `brwlock` | 4 threads | 49 thousand | a lock of readers or one writer, nobody stranded, the right heir |
| `channel_shot` | as `channel_owners`; *violation expected* | | a process that kept the contract is killed |
| `futex_requeue_owner` | as `futex`, requeues that hand ownership over; *violation expected* | | a state goes back to the pool with an owner |

Why these bounds are enough to be interesting.

*Port.* The races are between a callback, a reader or canceller, and the closing
thread, so three threads show all of them at once; two observers make one queue
behind the other (a cancel that stops at the first packet is caught) and leave
one on the list while the other is called back; two generations of one slot make
the reuse of a handle's address happen. The limit of user packets in
`port_packets` is 0 because the code compares with `>` and admits one more than
the constant says, as `ports.cc`'s QueueTooMany test expects: with two packets
the second is refused.

*Channel.* Two threads of the calling process make two calls pending at once and
let one thread close or move the handle another is using; the third is the
server. Three messages are two requests and a reply, or a request that times
out, the next request, and the late reply to the first. With two transaction ids
the counter wraps and meets an id that is still pending. Once an id is used again
a late reply to its first user cannot be told from the answer, which the code
accepts after 2^31 calls; `ReplyAnswersCall` is about endpoints that have used no
id twice. Both owners call: three messages are also two requests that cross and
a reply. These runs may stop with the messages used up
and do not check deadlock; `NoStrandedCaller` and `CallReturns` say what must not
be blocked. The same holds for `timer` (the handle is closed), `timer_queue` (the
clock has stopped), `sync_wait` (nothing is signalled) and `futex` (all sleep).

*Timer.* Two threads set and cancel while the firing of an older deadline is in
the interrupt or in the Dpc of the other CPU, and the handle is closed under
them. Deadline 0 and deadlines that are due take the immediate path. Windows end
before the clock does.

*Timer queue.* Three timers are the smallest queue in which the insertion loop
can pass one timer, join or stop before a second, and look ahead to a third.
Racing needs only two: one whose callback runs while the other is set or
cancelled on either CPU.

*Waits.* Two items make the second `Begin` fail after the first is registered,
and make one object call while the thread ends the other's observer; the second
thread puts two observers on one list. *Futex.* Three threads are a waker and
two sleepers to divide between wake, requeue and target. *Locks.* Four threads in
`brwlock` are an upgrading reader, a writer, an optimistic reader and a waker.

### Properties

Port: `NoUseAfterFree` (nothing refers to a deleted observer), `OneOwner` (a live
observer has exactly one party that will delete it), `FiresOnce`,
`NoMissedSignal`, `CancelIsFinal` (after `zx_port_cancel` returns, no packet of a
wait registered when it began is queued or will be), `NoLostWakeup` (units posted
or in hand cover the packets, and nobody blocks beside a unit),
`PacketAccounting`, `CallsReturn` (threads in a call do not wait for each other
for good), `CloseReclaims` (after the close everything made is destroyed).

Channel: `ListedWaiters` (a waiter on a list is in use, unanswered, and its
thread is in the call or died in it), `NoStrandedCaller` (a caller without an
answer can still get one), `UniqueTxids`, `MessageConservation` (an accepted
message is in exactly one queue or waiter until it is received or discarded),
`ReplyAnswersCall` (a call gets the reply to its own request, or a crossing call
of the other end with the same id, and never a reply to another call),
`OwnerOrder` (uses of an endpoint take effect in the order of
its owners), `CallReturns`.

Timer: `NoPanic`, `OneFiring` (a firing is under way exactly when the dispatcher
waits for one, and never two), `ReferencesHeld`, `OneShotTimerSpec` (refinement,
with liveness). Timer queue: `HardwareArmed`, `CancelIsFinal`, `QueuesSorted`,
`CoalescedInWindow`.

Waits: `NoDanglingObserver`, `NoMissedWakeup`, `ResultExplained` (what is
returned agrees with the signals returned), `WaitReturns`. Futex: `RefsBalanced`,
`PoolSuffices`, `OwnedHasWaiters`, `OwnerSound`, `NoLostWakeup`. Locks:
`MutualExclusion` and `ReadersWriters` (refinements of `SharedLock`),
`SomebodyToWake`, `NobodyStranded`, `InheritorHolds`, `TakenAgain`.

Each has a mutant of the code's logic that breaks it, kept beside the definition
it mutates.

### Fairness

* `Port` (`FairSpec`): strong fairness of the steps of a thread inside a call.
  Nothing makes a thread enter the kernel and no deadline has to pass, so `Begin`
  and `Timeout` carry none. Strong because a step that takes a lock is disabled
  while another thread has it; the kernel's mutex hands itself to a waiter when
  contended (`Mutex::ReleaseInternal`), so a thread that waits for a lock that is
  free again and again gets it. A thread in `Semaphore::Wait` may stay there.
* `Channel` (`FairSpec`): weak fairness of the steps of each thread inside a call:
  a thread that can run runs, and a suspended one is resumed. No deadline has to
  pass and no program has to reply.
* `TimerDispatcher` (`Spec`): weak fairness of the clock, the interrupt, the Dpc
  worker of each CPU, a call and a close once begun (the abstract timer's too). Interrupts and Dpcs are not
  masked for good, and a thread that runs comes to the end of its call.
* `SyncWait` (`Spec`): strong fairness of a thread inside its wait (it needs the
  objects' locks), weak fairness of the callbacks that the holder of an object's
  lock makes. Nothing has to be signalled, closed or timed out.
* `Mutex`, `BrwLock` (`FairSpec`): weak fairness of each thread that is acquiring
  or releasing; critical sections are finite. The thread lock is a
  compare-and-exchange loop and may pass a thread by again and again, so no more
  is assumed of it: `TakenAgain` is about some thread getting in. Nobody has to
  ask for the lock.
* `Futex` and `TimerQueue` check safety only.

### Findings

`channel_shot`: `ChannelDispatcher::Call` calls `BeginWait` before it takes the
lock and compares the owner; if the handle has just moved to another process it
returns `ZX_ERR_BAD_HANDLE` (`object/channel_dispatcher.cc:250`) without
`EndWait`, which the branch for a closed peer right below does not forget. The
waiter keeps its reference to the channel and counts as in use, and when the
thread next makes a `zx_channel_call`, on any channel, `BeginWait` fails and the
process is killed with `ZX_TASK_RETCODE_VDSO_KILL`. The comment there (lines 237
and 238) takes a second `BeginWait` for a violation of the vDSO's contract; in
the run every thread keeps it.

`futex_requeue_owner`: `OwnedWaitQueue::WakeAndRequeue` decides on the new owner
of the queue it wakes from while the threads to be requeued are still in it, then
moves them, and assigns the owner to a queue that may now be empty
(`kernel/owned_wait_queue.cc:651`); for the target queue it does look. A
`zx_futex_requeue_single_owner` that takes all remaining waiters leaves an owned futex without waiters, whose state returns
to the pool against the assertion in `PendingOpRef::Release`. `OwnedHasWaiters`
holds in the run `futex`, whose requeues release ownership.

Remarks that came up while modelling and contradict no line of the repository
enough to be a finding: `PortDispatcher::CancelQueued` recognises the packets of
a handle by the address of the `Handle`, so a cancel through a new handle in the
same arena slot, with the same key, also drops a packet left by the closed one;
a reply that arrives between the expiry of a call's deadline and the caller's
lock is still delivered to the call, although
`docs/reference/syscalls/channel_call.md` sends it to the queue; a `zx_timer_set`
that looked its handle up before the last close can arm the timer after
`on_zero_handles`, and it then fires for nobody and is freed; when the owners of
both endpoints of a channel use `zx_channel_call`, each counts its transaction ids
from the same start (`object/channel_dispatcher.cc:260`) and `WriteSelf` compares
nothing but the id (line 344), so the request of one is delivered to the other as
the reply to a call with that id, and nobody ever reads it as a request (the
manual page promises no more, but a protocol in which both ends call cannot rely
on replies being replies); the comment in `Mutex::ReleaseInternal`
(`kernel/mutex.cc:285-288`) allows for a contested release that finds nobody to
wake because the waiters timed out or were killed, but `Acquire` blocks without a
deadline and not interruptibly (lines 207 to 215), and `SomebodyToWake` shows that
there is always somebody.

## 5. Proofs

`PortProofs.tla`, checked by TLAPS, for any sets of threads, objects, handles,
keys, signals, observers and packets that satisfy `PortAssumption` (the
sets do not contain `None`, and user packets are not observers):

* `InductiveInvariant`: `Spec => []PortInv`;
* `TypeCorrect`: `Spec => []TypeOK`;
* `NoUseAfterFreeHolds`, `OneOwnerHolds`, `FiresOnceHolds`, from `PortInv`;
* `SignalInvariant` and `NoMissedSignalHolds`; `CancelInvariant` and
  `CancelIsFinalHolds`; `UnitInvariant` and `NoLostWakeupHolds`;
  `PacketInvariant` and `PacketAccountingHolds`.

`NoUseAfterFree` is not inductive: that a thread about to delete an observer is
the only one that can reach it depends on who holds which lock and on what each
label says of the thread's locals. `PortInv` adds that: `LocalsOK` (which
locals are set at which label), `LocksOK` (a thread inside a section holds the
lock of that section, so two callbacks into one object exclude each other),
`CloseOK` (`on_zero_handles` runs once; past its first loop the queue stays
empty, because `Queue` rejects packets; it does not meet a half-registered wait,
which is the reason the comment in `sys_object_wait_async` gives for holding
the handle table's lock), `Distinct` (a packet is in the queue once), `OwnersOK`
(linked, packet-owned, closer-owned and deleted exclude one another and cover
all), `ListsOK` (what is on a dispatcher's list is live and has not fired) and
`UsersOK` (what a thread in a callback may assume of its observer). The key step
is `RemoveObserverKeeps`: the closing thread deletes an observer only after it
has had the lock of the watched object, and a thread still calling that observer
back would be holding it.

The proof goes in four layers: the packet queue as a sequence; types and
locals, one leaf per action; one lemma for each action that moves an observer
between owners; the induction, one step per action of `Next`.

The other four invariants each add to `PortInv` what one property needs.
`SignalInv`: a lock that is taken is taken by a thread at a label inside that
lock's section (`LockHolders`), and a trigger that is up for an observer still on
the list means that this thread is in the loop that calls it (`TriggersOK`), so
that a free lock leaves no signal missed. `CancelInv`: `zx_port_cancel` looks
through the object's list and the queue under different locks, and a match made
between the two must be found by the second. A wait that was registered when the
cancel began (`tSnap`) is therefore followed through the phases: past the search of the
list it is `Dormant` (on no list, and no thread is about to put it on one or to
queue it), and dormant is for ever. That the list searched is the right one is
`GenerationsOK`: a wait through the handle now in the slot is on its object. `UnitInv`: the units in the semaphore and in the
hands of readers cover both queues; this is inductive only with the second count,
of readers that have not yet looked at the interrupt queue, against the
interrupts alone (`UnitsOK`), since a reader past that point may give its unit up.
`PacketInv`: a slot is in the queue once or in the hands of one thread, and
`num_ephemeral_packets_` is the number of slots in the queue (`ArenaOK`).

`ChannelProofs.tla`, for any sets of processes, threads and messages, any
assignment of threads to processes, any number of transaction ids above zero and
any number of transfers (`ChannelAssumption`: the sets are disjoint from the
special values `None`, "kernel" and "deleted"):

* `ChannelInvariant`: `Spec => []ChannelInv`;
* `ChannelTypeCorrect`, `NoStrandedCallerHolds`, `ListedWaitersHolds`,
  `UniqueTxidsHolds`, `SignalsMatchHolds`;
* `OwnerOrderHolds`, an action property;
* `ConserveInvariant` and `MessageConservationHolds`;
* `ReplyAnswersCallHolds`.

`NoStrandedCaller` needs more than itself: that a reply or a close leaves no
unanswered caller behind depends on every unanswered caller being listed on the
endpoint it called (`CallerListed`), on a waiter that is listed being unanswered
and in use nowhere else (`ListedWaiters`), and on the two `peer_` pointers and the
two handles agreeing (`PeersAgree`: after the first close neither endpoint has a
peer or a waiter, and `Call` adds none because it tests `peer_` under the lock).
`Locals` says what a thread before the lock has in its locals, `IdleWaiters` that a
waiter not in use holds no message, `OwnerIsLatest` that the owner of an endpoint
is the process that received it last, from which `OwnerOrder` follows: whoever
passes the owner check acts under the newest receipt. The proof has a lemma for
each action, which takes the conjuncts of `ChannelInv` one by one, three lemmas
about `WriteSelf` that the writing actions share, and the induction over `Next`.

`ConserveInv` follows a message from the program that makes it (`MadeOnce`: by one
thread, before the lock) to its end: a queue has it once and no two queues or
waiters have the same (`QueuesDistinct`, `RepliesDistinct`), what landed is in one
of them (`NoneLost`), and a caller that is told `ZX_OK` has a reply (`AnsweredOK`). `ReplyInv` is
about numbers: while an endpoint has made at most `NumTxids` calls, they have
different ids, the counter of the endpoint being their count (`Numbering`); a
reply carries the id of the request it answers, a waiter the id of its own, so
equal ids are the same request. The counter wraps at `NumTxids` and the id 0 is
then used once, which `Numbering` has to say. This is said of each endpoint by
itself, and any endpoint may call. With both ends calling a call may be handed a
request of the peer that has its id (`CrossingCall`); the theorem says that this
is the only thing besides its own reply that it can get.

`TimerProofs.tla`, for any sets of threads and CPUs, any deadlines and slacks and
any slack mode (`TimerDispatcherAssumption`: natural numbers, and windows that
end before the clock):

* `TimerInvariant`: `Spec => []TimerInv`, and `TimerTypeCorrect`;
* `OneFiringHolds`, `ReferencesHeldHolds`, `TimerNeverPanics`;
* `TimerIsOneShot`: `Spec` implies the safety part of `OneShotTimer`.

That the dispatcher is not destroyed under the Dpc is a statement about a count,
and `TimerInv` makes it one about places: `Holders` is a set of tokens, one for
each place that can have a reference (a queue, the interrupt, the Dpc's queue, a
worker before and after the lock, a call, the handle), every action adds or takes
one token, and the count is the cardinality. `FiringOK` says that the firing is
in one place, and that there is one exactly when a deadline is set or a
cancellation came too late: this is why one bit, `cancel_pending_`, is enough.
`DeadlineOK` ties the place to time: a timer in a queue is due in the window of
the deadline in force, and a firing that has left the queue and is not cancelled
has reached its window. The last is what the refinement needs, where
`OnTimerFired` is `Fire`, everything else of the firing a stutter.

`TimerQueueProofs.tla`, for any sets of timers and CPUs, any deadlines, slacks and
modes (`TimerQueueAssumption`: natural numbers that end before the clock):
`TimerQueueInvariant`, `QueuesSortedHolds`, `CoalescedInWindowHolds`,
`HardwareArmedHolds`, `CancelIsFinalHolds`. Most of it is about `Insert`. Where the loop
stops is a minimum (`StopAtFacts`), and from what was passed over and what
stopped it follows that the timer `Fits` there: nobody before it is later, nobody
after it is earlier, and its time is its own or that of its neighbour, inside the
window (`InsertFits`; `InsertOrdered` draws the conclusion for the queue, and that
a timer that became the head is at its own time, which is the one the hardware
is given). `AdoptFacts` carries this through the loop of `TransitionOffCpu`; that
the recursive function exists and what it computes is an induction over a set of
numbers (`SetInduction`, from the least element of a well-founded order), which
needs no operator parameter. The invariant adds two facts to the properties: the
recorded deadline is the hardware's (`NextTrue`; without it `CancelHardware`
could stop a timer that is needed and `UpdatePlatformTimer` skip one), and a timer
with a cancellation waiting is marked and in no queue (`SpinInv`), so that `Set`
in its callback gives way, also where the canceller is a callback.

`SyncWaitProofs.tla`, for any sets of threads, objects, handles and signals and any
lists of items (`SyncWaitAssumption`: a handle names an object):
`SyncInvariant`, `NoDanglingObserverHolds`, `NoMissedWakeupHolds`, and
`ResultExplainedHolds`, an action property. `SyncInv` has four parts. `FrameInv`: types,
and how far each thread is with its items. `LinkInv`: an object refers only to
observers of items whose `Begin` has run and whose `End` has not, to each once,
on the list or in the callbacks under way, and a callback has its reason in the
signals it carries. `QuietOK`: nothing has happened to an observer that is still on
a list. `WaitersOK`: until its event is signalled, every item a thread has begun is
on the list of its object or about to be called (`Covered`), and when it is
signalled some item has the signals that explain it, also after the other
observers were ended (`Explained`, about `final_signal_state_` of the observer until
`End` has copied it and about the copy from then on).

`FutexProofs.tla`, for any finite set of threads and any set of futexes
(`FutexAssumption`), in layers: `FrameInvariant` (types, what a thread holds at
each label, queues, locks); `OwnerInvariant` and `OwnerSoundHolds`;
`OwnedHasWaitersHolds`; `BalanceInvariant`, `PoolInvariant`, `PoolSufficesHolds`,
`RefsBalancedHolds`, `FreeStatesUnownedHolds`; `WakeInvariant` and
`NoLostWakeupHolds`. The count of pending operations is shown to be the number of
`Tokens`, one for each reference a thread holds; a requeue moves a token together with
the sleeper and a wake takes over those of the threads it wakes, so a bijection
or one element more or less is all that changes. A thread answers for at most two
futexes at once (`ActiveBound`), which with `PoolInv` (free and active states are
two for each thread) is why `ActivateFutex` never finds the pool empty.
`NoLostWakeup` needs the same for a thread that has checked the value and not yet
blocked (`WakeOK`): the waker needs the lock this thread has, and finds the futex
because the thread's reference keeps it active. `OwnedHasWaitersHolds` and
`FreeStatesUnownedHolds` assume `RequeueActions \subseteq {"RELEASE"}`; without that
they are false, which is the finding `futex_requeue_owner`.

`MutexProofs.tla`, for any set of threads: `MutexIsALock` (`Spec =>
MutualExclusion`, the refinement of `SharedLock`), `ContestedMeansWaiters`,
`ReleaseNeverPanics` (the panics of `ReleaseInternal`), `WokenIsHolder` (the
assertion of `Acquire`), `TypeCorrect`. The invariant relates the
word to labels: who holds, what a thread in a contested operation saw in the word
and still finds there because the flag keeps the fast paths shut and the thread
lock the slow ones.

`BrwLockProofs.tla`, for any set of threads: `BrwInvariant`, `BrwTypeCorrect`,
`BrwLockIsSharedLock` (`Spec => ReadersWriters`, the refinement of `SharedLock`)
and `NobodyStrandedHolds`. A thread decides on the word it saw before it became a
waiter, and others have moved since, so exclusion is not inductive. `BrwInv` says
whom the word counts (`CountsOK`: the readers field counts the readers inside,
those woken, and the optimistic ones about to find out; the waiters field those
asleep or past the thread lock), that a writer is alone (`ExclusionOK`), who has
the thread lock, that the queue holds sleepers, each once, and that the grounds
of a decision still hold when it is made (`DecideOK`, `WakeOK`: a waiter keeps
both fast paths of writers and that of readers shut, so what was empty stays
empty). That no wake-up is lost needs the opposite, that what was *not* empty is
accounted for until the thread sleeps: `StrandInv` adds that the writer or
readers seen are still inside or are on their way to the thread lock to wake
somebody (`GroundsOK`), that every sleeper is in the queue, and that `Wake` never
comes back without having woken anybody (`WokeOK`). `InheritorHoldsAlways` adds
`OwnerInv`, which says whom the queue's priority is lent to at each point of a
release: `writer_` is nobody but a thread that writes or was woken to (`WriterOK`), and
the owner may be out of date only while the thread lock is held, by a thread that
sets it before it drops the lock (`OwnerOK`).

Only model-checked: liveness, which is out of the prover's reach. `CallsReturn`,
`CloseReclaims`, `CallReturns`, `WaitReturns`, the two `TakenAgain`, and the liveness
of `OneShotTimerSpec`, whose safety part is `TimerIsOneShot`. The other properties
of the runs that pass are theorems.

## 6. Not modelled

Every part of the repository that its documents name is listed in
`PROJECT.json` with the reason. In short: the scheduler and thread switching,
virtual memory and the hypervisor need models of hardware and of time that TLC
cannot cover at a useful size (their protocols with the object layer are planned
as the environment of the objects here); architecture code, boot code, drivers
and the platform layer are register-level I/O; the userspace services, the
driver framework, FIDL, SDK, tools, docs and vendored code are separate
programs that use the kernel through the calls modelled here.
