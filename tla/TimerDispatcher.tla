--------------------------- MODULE TimerDispatcher ---------------------------
(***************************************************************************)
(* A user timer (object/timer_dispatcher.cc) with the kernel Timer it is   *)
(* built on (kernel/timer.cc), the Dpc its interrupt callback queues and   *)
(* the worker thread of each CPU that runs it (kernel/dpc.cc).             *)
(*                                                                         *)
(* Set, Cancel and on_zero_handles hold the dispatcher's lock, so each is  *)
(* one step.  The interrupt and the Dpc do not take it until OnTimerFired: *)
(* from the moment the Timer leaves its queue a firing is under way that   *)
(* can no longer be withdrawn, only told apart from a later one.  The      *)
(* reference that keeps the dispatcher alive travels with it.              *)
(*                                                                         *)
(* Timer::Cancel spins until no callback of the timer is running.  The     *)
(* interrupt needs nothing the spinning thread holds, so the spin is the   *)
(* guard that the timer is not active.                                     *)
(***************************************************************************)
EXTENDS Integers, FiniteSets

CONSTANTS
  Threads,
  Cpus,
  Deadlines,      \* values passed to zx_timer_set
  Slacks,         \* slack amounts passed to zx_timer_set
  SlackMode,      \* options_
  MaxTime,        \* bound: the clock stops here
  None

ASSUME TimerDispatcherAssumption ==
  /\ None \notin Cpus
  /\ Deadlines \subseteq Nat
  /\ Slacks \subseteq Nat
  /\ SlackMode \in {"CENTER", "EARLY", "LATE"}
  /\ MaxTime \in Nat
  /\ \A d \in Deadlines, s \in Slacks : d + s <= MaxTime

VARIABLES
  now,            \* current_time()
  deadline,       \* deadline_, 0 when no timer is pending
  slack,          \* slack_amount_
  signaled,       \* ZX_TIMER_SIGNALED
  cancelPending,  \* cancel_pending_
  refs,           \* the RefCounted count
  handle,         \* its only handle: "open", "removed" from the table,
                  \* "zeroed" (on_zero_handles is done), "closed"
  queuedOn,       \* the CPU whose TimerQueue holds timer_, or None
  scheduled,      \* Timer::scheduled_time_
  active,         \* Timer::active_cpu_
  irq,            \* the interrupt on that CPU: "none", about to run the
                  \* "callback", or to "return" from it
  dpcQueuedOn,    \* the CPU whose DpcQueue holds timer_dpc_, or None
  dpc,            \* each CPU's Dpc worker: "idle", "invoked" (before
                  \* OnTimerFired has the lock), "release" (after)
  pc,             \* threads: "idle", inside a "call" holding a RefPtr, or at
                  \* its "return"
  destroyed,
  panicked        \* a panic or an assertion of the code fired

userVars  == <<deadline, slack, signaled>>
refVars   == <<refs, destroyed>>
ktimer    == <<queuedOn, scheduled, active, irq>>
dpcVars   == <<dpcQueuedOn, dpc>>
vars == <<now, userVars, cancelPending, refVars, handle, ktimer, dpcVars, pc,
          panicked>>

Init ==
  /\ now = 0
  /\ deadline = 0
  /\ slack = 0
  /\ signaled = FALSE
  /\ cancelPending = FALSE
  /\ refs = 1
  /\ handle = "open"
  /\ queuedOn = None
  /\ scheduled = 0
  /\ active = None
  /\ irq = "none"
  /\ dpcQueuedOn = None
  /\ dpc = [c \in Cpus |-> "idle"]
  /\ pc = [t \in Threads |-> "idle"]
  /\ destroyed = FALSE
  /\ panicked = FALSE
-----------------------------------------------------------------------------
(* Deadline::earliest and Deadline::latest.                                 *)
Earliest(d, s) == IF SlackMode = "LATE" THEN d ELSE d - s

Latest(d, s) == IF SlackMode = "EARLY" THEN d ELSE d + s

(* What ~TimerDispatcher and ~Timer assert.                                 *)
Quiet == deadline = 0 /\ slack = 0 /\ queuedOn = None /\ active = None

(* Release, then delete when the count reached zero.                        *)
Release ==
  /\ refs' = refs - 1
  /\ destroyed' = (destroyed \/ refs = 1)
  /\ panicked' = (panicked \/ (refs = 1 /\ ~Quiet))

(* GetDispatcherWithRights.                                                 *)
Lookup(t) ==
  /\ pc[t] = "idle"
  /\ handle = "open"
  /\ pc' = [pc EXCEPT ![t] = "call"]
  /\ refs' = refs + 1
  /\ UNCHANGED <<now, userVars, cancelPending, destroyed, handle, ktimer, dpcVars,
                 panicked>>

(* The RefPtr of the system call goes out of scope.                         *)
Return(t) ==
  /\ pc[t] = "return"
  /\ pc' = [pc EXCEPT ![t] = "idle"]
  /\ Release
  /\ UNCHANGED <<now, userVars, cancelPending, handle, ktimer, dpcVars>>

(* Timer::Cancel found the timer in a queue, or too late to withdraw it.    *)
(* Only the first drops the reference of the firing.                        *)
Pending == deadline # 0 /\ ~cancelPending

Withdrawn == Pending /\ queuedOn # None

TooLate == Pending /\ queuedOn = None

(* The spin of Timer::Cancel.                                               *)
NotRunning == active = None

(* ASSERT(!Release()) of CancelTimerLocked.                                 *)
LastReference == Withdrawn /\ refs = 1

(* CancelTimerLocked: what it leaves in cancel_pending_, the count and the  *)
(* queue, and when it can return.                                           *)
CancelTimerLocked ==
  /\ Pending => NotRunning
  /\ cancelPending' = (cancelPending \/ TooLate)

RefsKept == refs

RefsAfterCancel == IF Withdrawn THEN refs - 1 ELSE refs

QueueAfterCancel == IF Withdrawn THEN None ELSE queuedOn

(* SetTimerLocked on CPU c: Timer::Set panics when the timer is in a queue  *)
(* (of the value queue, after a cancellation if one comes first) or active. *)
SetTimerLocked(c, d, s, cancelFirst, queue) ==
  /\ cancelFirst => NotRunning
  /\ queuedOn' = c
  /\ scheduled' \in Earliest(d, s) .. Latest(d, s)
  /\ panicked' = (panicked \/ LastReference \/ active # None
                           \/ (~cancelFirst /\ queue # None))

Due(d) == d = 0 \/ d <= now

(* Set does not arm the timer when the deadline is due, nor when a firing   *)
(* it cancelled is under way, which will when it comes to the lock.         *)
DueOnly(d) == Due(d)

NotArmedNow(d) == Due(d) \/ cancelPending'

(* AddRef for the firing.                                                   *)
NoAddRef == RefsAfterCancel

AddRef == RefsAfterCancel + 1

(* zx_timer_set by thread t running on CPU c.                               *)
SetTimer(t, c, d, s) ==
  /\ pc[t] = "call"
  /\ active # c
  /\ CancelTimerLocked
  /\ signaled' = Due(d)
  /\ deadline' = IF Due(d) THEN 0 ELSE d
  /\ slack' = IF Due(d) THEN 0 ELSE s
  /\ IF NotArmedNow(d)
       THEN /\ queuedOn' = QueueAfterCancel
            /\ refs' = RefsAfterCancel
            /\ panicked' = (panicked \/ LastReference)
            /\ UNCHANGED scheduled
       ELSE /\ SetTimerLocked(c, d, s, ~Pending, QueueAfterCancel)
            /\ refs' = AddRef
  /\ pc' = [pc EXCEPT ![t] = "return"]
  /\ UNCHANGED <<now, destroyed, handle, active, irq, dpcVars>>

(* zx_timer_cancel.                                                         *)
CancelTimer(t) ==
  /\ pc[t] = "call"
  /\ CancelTimerLocked
  /\ signaled' = FALSE
  /\ deadline' = 0
  /\ slack' = 0
  /\ queuedOn' = QueueAfterCancel
  /\ refs' = RefsAfterCancel
  /\ panicked' = (panicked \/ LastReference)
  /\ pc' = [pc EXCEPT ![t] = "return"]
  /\ UNCHANGED <<now, destroyed, handle, scheduled, active, irq, dpcVars>>

(* zx_handle_close: the handle leaves the table, ...                        *)
RemoveHandle ==
  /\ handle = "open"
  /\ handle' = "removed"
  /\ UNCHANGED <<now, userVars, cancelPending, refVars, ktimer, dpcVars, pc,
                 panicked>>

(* ... on_zero_handles cancels, calling Timer::Cancel in any case, ...      *)
OnZeroHandles ==
  /\ handle = "removed"
  /\ NotRunning
  /\ CancelTimerLocked
  /\ signaled' = FALSE
  /\ deadline' = 0
  /\ slack' = 0
  /\ queuedOn' = None
  /\ refs' = RefsAfterCancel
  /\ panicked' = (panicked \/ LastReference)
  /\ handle' = "zeroed"
  /\ UNCHANGED <<now, destroyed, scheduled, active, irq, dpcVars, pc>>

(* ... and the handle's reference is dropped.                               *)
DeleteHandle ==
  /\ handle = "zeroed"
  /\ handle' = "closed"
  /\ Release
  /\ UNCHANGED <<now, userVars, cancelPending, ktimer, dpcVars, pc>>
-----------------------------------------------------------------------------
(* The interrupt: TimerQueue::Tick takes the timer off the queue of its CPU.*)
TickErase ==
  /\ queuedOn # None
  /\ scheduled <= now
  /\ active' = queuedOn
  /\ irq' = "callback"
  /\ queuedOn' = None
  /\ UNCHANGED <<now, userVars, cancelPending, refVars, handle, scheduled,
                 dpcVars, pc, panicked>>

(* timer_irq_callback.  Dpc::Queue does nothing when the Dpc is queued.     *)
TimerIrqCallback ==
  /\ irq = "callback"
  /\ irq' = "return"
  /\ dpcQueuedOn' = IF dpcQueuedOn = None THEN active ELSE dpcQueuedOn
  /\ UNCHANGED <<now, userVars, cancelPending, refVars, handle, queuedOn,
                 scheduled, active, dpc, pc, panicked>>

(* The timer is marked not busy.                                            *)
TickDone ==
  /\ irq = "return"
  /\ irq' = "none"
  /\ active' = None
  /\ UNCHANGED <<now, userVars, cancelPending, refVars, handle, queuedOn,
                 scheduled, dpcVars, pc, panicked>>

(* DpcQueue::Work on CPU c, whose thread runs nowhere else and not while    *)
(* the interrupt does.                                                      *)
DpcWork(c) ==
  /\ dpcQueuedOn = c
  /\ dpc[c] = "idle"
  /\ active # c
  /\ dpc' = [dpc EXCEPT ![c] = "invoked"]
  /\ dpcQueuedOn' = None
  /\ UNCHANGED <<now, userVars, cancelPending, refVars, handle, ktimer, pc,
                 panicked>>

(* OnTimerFired for a firing that was cancelled: the timer is armed anew    *)
(* with the deadline set since, which takes the reference over, ...         *)
Rearm(c) ==
  /\ deadline # 0
  /\ SetTimerLocked(c, deadline, slack, TRUE, queuedOn)
  /\ dpc' = [dpc EXCEPT ![c] = "idle"]
  /\ UNCHANGED userVars

(* ... or, with none, the firing is suppressed.                             *)
Suppress(c) ==
  /\ deadline = 0
  /\ dpc' = [dpc EXCEPT ![c] = "release"]
  /\ UNCHANGED <<userVars, queuedOn, scheduled, panicked>>

NeverStale == FALSE

(* The firing was cancelled.                                                *)
Stale == cancelPending

(* OnTimerFired, its section under the lock.                                *)
OnTimerFired(c) ==
  /\ dpc[c] = "invoked"
  /\ active # c
  /\ cancelPending' = FALSE
  /\ IF Stale
       THEN Rearm(c) \/ Suppress(c)
       ELSE /\ signaled' = TRUE
            /\ deadline' = 0
            /\ slack' = 0
            /\ dpc' = [dpc EXCEPT ![c] = "release"]
            /\ UNCHANGED <<queuedOn, scheduled, panicked>>
  /\ UNCHANGED <<now, refVars, handle, active, irq, dpcQueuedOn, pc>>

(* The reference of the firing is dropped, after the lock.                  *)
OnTimerFiredRelease(c) ==
  /\ dpc[c] = "release"
  /\ active # c
  /\ dpc' = [dpc EXCEPT ![c] = "idle"]
  /\ Release
  /\ UNCHANGED <<now, userVars, cancelPending, handle, ktimer, dpcQueuedOn, pc>>

Clock ==
  /\ now < MaxTime
  /\ now' = now + 1
  /\ UNCHANGED <<userVars, cancelPending, refVars, handle, ktimer, dpcVars, pc,
                 panicked>>
-----------------------------------------------------------------------------
TimerStep == TickErase \/ TimerIrqCallback \/ TickDone

DpcStep(c) == DpcWork(c) \/ OnTimerFired(c) \/ OnTimerFiredRelease(c)

CloseStep == OnZeroHandles \/ DeleteHandle

CallStep(t) ==
  \/ \E c \in Cpus, d \in Deadlines, s \in Slacks : SetTimer(t, c, d, s)
  \/ CancelTimer(t)
  \/ Return(t)

Next ==
  \/ \E t \in Threads : Lookup(t) \/ CallStep(t)
  \/ RemoveHandle \/ CloseStep
  \/ TimerStep
  \/ \E c \in Cpus : DpcStep(c)
  \/ Clock

(* Interrupts are taken, Dpc workers run, a system call and a close once    *)
(* begun go on, and time passes.                                            *)
Spec ==
  /\ Init /\ [][Next]_vars
  /\ WF_vars(Clock) /\ WF_vars(TimerStep) /\ WF_vars(CloseStep)
  /\ \A c \in Cpus : WF_vars(DpcStep(c))
  /\ \A t \in Threads : WF_vars(CallStep(t))
-----------------------------------------------------------------------------
TypeOK ==
  /\ now \in 0 .. MaxTime
  /\ deadline \in Deadlines \cup {0}
  /\ slack \in Slacks \cup {0}
  /\ signaled \in BOOLEAN
  /\ cancelPending \in BOOLEAN
  /\ refs \in Nat
  /\ handle \in {"open", "removed", "zeroed", "closed"}
  /\ queuedOn \in Cpus \cup {None}
  /\ scheduled \in Int
  /\ active \in Cpus \cup {None}
  /\ irq \in {"none", "callback", "return"}
  /\ dpcQueuedOn \in Cpus \cup {None}
  /\ dpc \in [Cpus -> {"idle", "invoked", "release"}]
  /\ pc \in [Threads -> {"idle", "call", "return"}]
  /\ destroyed \in BOOLEAN
  /\ panicked \in BOOLEAN

(* What can hold a reference to the dispatcher: a firing, which is in a     *)
(* TimerQueue, in the interrupt, in a DpcQueue or in a Dpc that has not     *)
(* come to the lock; a Dpc past it; a system call; the handle.              *)
Tokens ==
  ({"queued", "irq", "dpc", "invoked", "release"} \X Cpus)
    \cup ({"call"} \X Threads) \cup {<<"handle", None>>}

Fires(k) ==
  \/ k[1] = "queued" /\ queuedOn = k[2]
  \/ k[1] = "irq" /\ irq = "callback" /\ active = k[2]
  \/ k[1] = "dpc" /\ dpcQueuedOn = k[2]
  \/ k[1] = "invoked" /\ dpc[k[2]] = "invoked"

Holds(k) ==
  \/ Fires(k)
  \/ k[1] = "release" /\ dpc[k[2]] = "release"
  \/ k[1] = "call" /\ pc[k[2]] # "idle"
  \/ k[1] = "handle" /\ handle # "closed"

Firings == {k \in Tokens : Fires(k)}

Holders == {k \in Tokens : Holds(k)}

(* No assertion or panic of the timer code fires: Timer::Set never finds    *)
(* the timer in a queue or running, CancelTimerLocked never drops the last  *)
(* reference, the destructors find nothing pending.                         *)
NoPanic == ~panicked

(* A firing is under way exactly when the dispatcher waits for one: a       *)
(* deadline is set, or a cancellation came too late; and never two, which   *)
(* would let the second be taken for a later deadline (cancel_pending_ is   *)
(* one bit).                                                                *)
OneFiring ==
  /\ \A k, l \in Firings : k = l
  /\ (Firings # {}) <=> (deadline # 0 \/ cancelPending)

(* The reference count matches those who will use the dispatcher, so it is  *)
(* destroyed neither under an interrupt, a Dpc or a system call nor never.  *)
ReferencesHeld ==
  /\ IsFiniteSet(Holders)
  /\ refs = Cardinality(Holders)
  /\ destroyed <=> Holders = {}

(* What the one-shot timer sees: the deadline as a window, the life of the  *)
(* handle, the system calls.                                                *)
Window(d, s) == [when |-> d, from |-> Earliest(d, s), to |-> Latest(d, s)]

Life ==
  IF handle = "open" THEN "open"
  ELSE IF handle = "removed" THEN "closing" ELSE "closed"

OneShot ==
  INSTANCE OneShotTimer WITH
    Clients <- Threads,
    call <- pc,
    life <- Life,
    Windows <- {Window(d, s) : d \in Deadlines, s \in Slacks},
    armed <- {Window(d, slack) : d \in {deadline} \ {0}}

(* The timer implements the one-shot timer: OnTimerFired raises SIGNALED    *)
(* only for the deadline set last, in its window, and does so for every     *)
(* deadline that is neither replaced nor cancelled, nor dropped by          *)
(* on_zero_handles.                                                         *)
OneShotTimerSpec == OneShot!Spec
-----------------------------------------------------------------------------
(* The interrupt has a CPU, and until it is done the Dpc it queued waits on *)
(* that CPU.                                                                *)
InterruptOK ==
  /\ (active = None) <=> (irq = "none")
  /\ irq = "return" => dpcQueuedOn = active

(* A timer in a queue is the one for the deadline in force, and due in its  *)
(* window; a firing that left the queue and is not cancelled is due.        *)
DeadlineOK ==
  /\ deadline = 0 => slack = 0
  /\ queuedOn # None =>
       /\ ~cancelPending
       /\ scheduled \in Earliest(deadline, slack) .. Latest(deadline, slack)
  /\ (queuedOn = None /\ deadline # 0 /\ ~cancelPending) =>
       Earliest(deadline, slack) <= now

(* A firing is in one place: a queue, the interrupt, the Dpc's queue or one *)
(* CPU's worker; and there is one when the dispatcher waits for it.         *)
Invoked == {c \in Cpus : dpc[c] = "invoked"}

FiringOK ==
  /\ queuedOn # None => irq # "callback" /\ dpcQueuedOn = None /\ Invoked = {}
  /\ irq = "callback" => dpcQueuedOn = None /\ Invoked = {}
  /\ dpcQueuedOn # None => Invoked = {}
  /\ \A c, d \in Invoked : c = d
  /\ (deadline # 0 \/ cancelPending) <=>
       \/ queuedOn # None \/ irq = "callback" \/ dpcQueuedOn # None
       \/ Invoked # {}

(* The inductive invariant.                                                 *)
ControlOK == TypeOK /\ InterruptOK /\ DeadlineOK /\ FiringOK

TimerInv == ControlOK /\ ReferencesHeld /\ NoPanic
=============================================================================
