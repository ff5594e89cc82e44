----------------------------- MODULE TimerQueue -----------------------------
(***************************************************************************)
(* The kernel's timers (kernel/timer.cc): the queue of each CPU, the       *)
(* coalescing of timers whose windows overlap, the one-shot hardware timer *)
(* that is programmed for the head of the queue or the preemption          *)
(* deadline, and cancellation while the callback runs on another CPU.      *)
(*                                                                         *)
(* All queues share one spinlock, dropped while a callback runs.  Clients  *)
(* keep the contract Timer::Set asserts: a timer that is in a queue, being *)
(* cancelled or running on another CPU is not set.                         *)
(***************************************************************************)
EXTENDS Integers, Sequences, SequencesExt, FiniteSetsExt

CONSTANTS
  Timers,
  Cpus,
  Deadlines,     \* Deadline::when_
  Slacks,        \* TimerSlack::amount_
  Modes,         \* TimerSlack::mode_: subset of "CENTER", "EARLY", "LATE"
  Preemptions,   \* deadlines of the preemption timer
  MaxTime,       \* bound: the clock stops here
  None

ASSUME TimerQueueAssumption ==
  /\ Deadlines \cup Slacks \cup Preemptions \subseteq Nat
  /\ Modes \subseteq {"CENTER", "EARLY", "LATE"}
  /\ MaxTime \in Nat
  /\ \A d \in Deadlines, s \in Slacks : d + s <= MaxTime
  /\ \A d \in Preemptions : d <= MaxTime
  /\ None \notin Timers \cup Cpus

(* ZX_TIME_INFINITE.                                                        *)
Infinite == MaxTime + 1

VARIABLES
  now,
  list,        \* timer_list_ of each CPU
  scheduled,   \* Timer::scheduled_time_
  active,      \* Timer::active_cpu_
  cancel,      \* timers with cancel_ set
  next,        \* next_timer_deadline_
  preempt,     \* preempt_timer_deadline_
  hardware,    \* what the one-shot timer of the CPU is programmed for
  tick,        \* TimerQueue::Tick: "none", in its "loop" or a "callback"
  tickTime,    \* the time it was called with
  spinning,    \* timers a Timer::Cancel under way waits for
  waits,       \* the one the callback on the CPU waits for, or None
  finished,    \* history: timers whose cancellation has returned
  window       \* history: the deadline each queued timer was set with

clockVars  == <<next, preempt, hardware>>
tickVars   == <<tick, tickTime, waits>>
cancelVars == <<cancel, spinning, finished>>
vars == <<now, list, scheduled, active, clockVars, tickVars, cancelVars, window>>

Queued(t) == \E c \in Cpus : t \in ToSet(list[c])

(* Deadline::earliest and Deadline::latest.                                 *)
EarliestOf(d, s, mode) == IF mode = "LATE" THEN d ELSE d - s

LatestOf(d, s, mode) == IF mode = "EARLY" THEN d ELSE d + s

Windows ==
  {[when |-> d, earliest |-> EarliestOf(d, s, mode),
    latest |-> LatestOf(d, s, mode), slack |-> s, mode |-> mode] :
       d \in Deadlines, s \in Slacks, mode \in Modes}

NoWindow == [when |-> 0, earliest |-> 0, latest |-> 0, slack |-> 0, mode |-> None]

Init ==
  /\ now = 0
  /\ list = [c \in Cpus |-> <<>>]
  /\ scheduled = [t \in Timers |-> 0]
  /\ active = [t \in Timers |-> None]
  /\ cancel = {}
  /\ next = [c \in Cpus |-> Infinite]
  /\ preempt = [c \in Cpus |-> Infinite]
  /\ hardware = [c \in Cpus |-> Infinite]
  /\ tick = [c \in Cpus |-> "none"]
  /\ tickTime = [c \in Cpus |-> 0]
  /\ spinning = {}
  /\ waits = [c \in Cpus |-> None]
  /\ finished = {}
  /\ window = [t \in Timers |-> NoWindow]
-----------------------------------------------------------------------------
(* TimerQueue::Insert of a timer due at when into the queue q, whose timers *)
(* have the times at.  Entry i is passed over when it is too early, when    *)
(* the next one is not later than when, or when the next one is in the      *)
(* window and closer; at the first that is not, the timer goes in front of  *)
(* it, if it is too late, or joins it.                                      *)
NextCloser(at, i, when, latest) ==
  /\ at[i + 1] < latest
  /\ at[i + 1] - when < when - at[i]

PassOver(at, i, when, earliest, latest) ==
  /\ at[i] <= latest
  /\ at[i] < when
  /\ \/ at[i] < earliest
     \/ /\ i < Len(at)
        /\ at[i + 1] <= when \/ NextCloser(at, i, when, latest)

(* The index the loop stops at, Len(at) + 1 off its end.                    *)
StopAt(at, when, earliest, latest) ==
  Min({Len(at) + 1} \cup
      {i \in DOMAIN at : ~PassOver(at, i, when, earliest, latest)})

JoinsLater(at, i, latest) == i <= Len(at)

NeverJoins(at, i, latest) == FALSE

Joins(at, i, latest) == i <= Len(at) /\ at[i] <= latest

(* The list and the scheduled time Insert leaves for timer t.               *)
Insert(q, sched, t, when, earliest, latest) ==
  LET at == [i \in DOMAIN q |-> sched[q[i]]]
      i == StopAt(at, when, earliest, latest)
  IN  IF Joins(at, i, latest)
        THEN [list |-> InsertAt(q, i + 1, t), time |-> at[i]]
        ELSE [list |-> InsertAt(q, i, t), time |-> when]

(* UpdatePlatformTimer: the hardware is only ever moved to an earlier time. *)
Reprogram(c, deadline) == deadline < next[c]

UpdatePlatformTimer(c, deadline) ==
  IF Reprogram(c, deadline)
    THEN /\ hardware' = [hardware EXCEPT ![c] = deadline]
         /\ next' = [next EXCEPT ![c] = deadline]
    ELSE UNCHANGED <<hardware, next>>

(* Code runs on c, neither the part of Tick that holds the lock nor a       *)
(* callback that spins.                                                     *)
Running(c) == tick[c] # "loop" /\ waits[c] = None

(* Timer::Set by CPU c, perhaps in the callback of t itself; a cancellation *)
(* that has begun then wins.                                                *)
SetWins(t) == FALSE

SetLoses(t) == active[t] # None /\ t \in cancel

Set(c, t, w) ==
  /\ Running(c)
  /\ ~Queued(t)
  /\ active[t] \in {None, c}
  /\ active[t] = None => t \notin spinning
  /\ finished' = finished \ {t}
  /\ IF SetLoses(t)
       THEN UNCHANGED <<list, scheduled, cancel, clockVars, window>>
       ELSE LET result == Insert(list[c], scheduled, t, w.when, w.earliest, w.latest)
            IN  /\ list' = [list EXCEPT ![c] = result.list]
                /\ scheduled' = [scheduled EXCEPT ![t] = result.time]
                /\ cancel' = cancel \ {t}
                /\ window' = [window EXCEPT ![t] = w]
                /\ IF Head(result.list) = t
                     THEN UpdatePlatformTimer(c, w.when)
                     ELSE UNCHANGED <<hardware, next>>
                /\ UNCHANGED preempt
  /\ UNCHANGED <<now, active, tickVars, spinning>>

(* Timer::Cancel by CPU c, which is the CPU of the callback: it only        *)
(* prevents the callback from setting the timer again.                      *)
CancelInCallback(c, t) ==
  /\ active[t] = c
  /\ tick[c] = "callback" /\ Running(c)
  /\ cancel' = cancel \cup {t}
  /\ UNCHANGED <<now, list, scheduled, active, clockVars, tickVars, spinning,
                 finished, window>>

(* The hardware timer after t left the queues; only the CPU's own queue is  *)
(* looked at.  Stopping the hardware is the last case.                      *)
CancelHardware(c, t) ==
  LET rest == RemoveFirst(list[c], t)
  IN  IF list[c] # <<>> /\ Head(list[c]) = t
        THEN IF rest # <<>>
               THEN UpdatePlatformTimer(c, scheduled[Head(rest)])
               ELSE /\ hardware' = IF next[c] = Infinite
                                     THEN [hardware EXCEPT ![c] = Infinite]
                                     ELSE hardware
                    /\ UNCHANGED next
        ELSE UNCHANGED <<hardware, next>>

(* Timer::Cancel otherwise: the timer is taken out of whatever queue it is  *)
(* in, and the caller then waits for a callback on another CPU.  When the   *)
(* caller is itself a callback its CPU waits: two callbacks that cancel     *)
(* each other's timers never return.                                        *)
Cancel(c, t) ==
  /\ Running(c)
  /\ active[t] # c
  /\ t \notin spinning
  /\ cancel' = cancel \cup {t}
  /\ spinning' = spinning \cup {t}
  /\ list' = [d \in Cpus |-> RemoveFirst(list[d], t)]
  /\ CancelHardware(c, t)
  /\ window' = [window EXCEPT ![t] = NoWindow]
  /\ waits' = IF tick[c] = "callback" THEN [waits EXCEPT ![c] = t] ELSE waits
  /\ UNCHANGED <<now, scheduled, active, preempt, tick, tickTime, finished>>

SpinOver(t) == active[t] = None

CancelReturn(t) ==
  /\ t \in spinning
  /\ SpinOver(t)
  /\ spinning' = spinning \ {t}
  /\ finished' = finished \cup {t}
  /\ waits' = [c \in Cpus |-> IF waits[c] = t THEN None ELSE waits[c]]
  /\ UNCHANGED <<now, list, scheduled, active, clockVars, tick, tickTime, cancel,
                 window>>
-----------------------------------------------------------------------------
(* The timer interrupt of c, TimerQueue::Tick: the preemption timer first,  *)
TickStart(c) ==
  /\ tick[c] = "none"
  /\ hardware[c] <= now
  /\ tick' = [tick EXCEPT ![c] = "loop"]
  /\ tickTime' = [tickTime EXCEPT ![c] = now]
  /\ hardware' = [hardware EXCEPT ![c] = Infinite]
  /\ next' = [next EXCEPT ![c] = Infinite]
  /\ preempt' = [preempt EXCEPT ![c] = IF now >= @ THEN Infinite ELSE @]
  /\ UNCHANGED <<now, list, scheduled, active, waits, cancelVars, window>>

HeadDue(c) == list[c] # <<>> /\ scheduled[Head(list[c])] <= tickTime[c]

(* then every timer that is due is taken off the queue, marked busy and its *)
(* callback run without the lock,                                           *)
TickFire(c) ==
  /\ tick[c] = "loop"
  /\ HeadDue(c)
  /\ active' = [active EXCEPT ![Head(list[c])] = c]
  /\ list' = [list EXCEPT ![c] = Tail(@)]
  /\ tick' = [tick EXCEPT ![c] = "callback"]
  /\ window' = [window EXCEPT ![Head(list[c])] = NoWindow]
  /\ UNCHANGED <<now, scheduled, clockVars, tickTime, waits, cancelVars>>

CallbackDone(c) ==
  /\ tick[c] = "callback" /\ Running(c)
  /\ tick' = [tick EXCEPT ![c] = "loop"]
  /\ active' = [t \in Timers |-> IF active[t] = c THEN None ELSE active[t]]
  /\ UNCHANGED <<now, list, scheduled, clockVars, tickTime, waits, cancelVars,
                 window>>

HeadTime(c) == IF list[c] = <<>> THEN Infinite ELSE scheduled[Head(list[c])]

QueueOnly(c) == HeadTime(c)

SoonestDeadline(c) == Min({HeadTime(c), preempt[c]})

(* and last the hardware is set for what comes next.                        *)
TickEnd(c) ==
  /\ tick[c] = "loop"
  /\ ~HeadDue(c)
  /\ tick' = [tick EXCEPT ![c] = "none"]
  /\ UpdatePlatformTimer(c, SoonestDeadline(c))
  /\ UNCHANGED <<now, list, scheduled, active, preempt, tickTime, waits,
                 cancelVars, window>>

(* The scheduler sets and cancels its preemption deadline on c.             *)
PreemptReset(c, d) ==
  /\ tick[c] = "none"
  /\ preempt' = [preempt EXCEPT ![c] = d]
  /\ UpdatePlatformTimer(c, d)
  /\ UNCHANGED <<now, list, scheduled, active, tickVars, cancelVars, window>>

PreemptCancel(c) ==
  /\ tick[c] = "none"
  /\ preempt[c] # Infinite
  /\ preempt' = [preempt EXCEPT ![c] = Infinite]
  /\ UNCHANGED <<now, list, scheduled, active, hardware, next, tickVars,
                 cancelVars, window>>

(* CPU c takes over the timers of CPU d, which goes offline with its        *)
(* hardware timer.  They are inserted one by one, without slack.            *)
AdoptOne(q, t) ==
  Insert(q, scheduled, t, scheduled[t], scheduled[t], scheduled[t]).list

Adopt(c, d) ==
  LET taken[k \in 0 .. Len(list[d])] ==
        IF k = 0 THEN list[c] ELSE AdoptOne(taken[k - 1], list[d][k])
  IN  taken[Len(list[d])]

TransitionOffCpu(c, d) ==
  /\ c # d
  /\ tick[c] = "none" /\ tick[d] = "none"
  /\ LET adopted == Adopt(c, d)
         head == Head(adopted)
         update == /\ adopted # <<>>
                   /\ list[c] = <<>> \/ head # Head(list[c])
                   /\ Reprogram(c, scheduled[head])
     IN  /\ list' = [list EXCEPT ![c] = adopted, ![d] = <<>>]
         /\ hardware' = [hardware EXCEPT ![d] = Infinite,
                                         ![c] = IF update THEN scheduled[head] ELSE @]
         /\ next' = [next EXCEPT ![d] = Infinite,
                                 ![c] = IF update THEN scheduled[head] ELSE @]
  /\ preempt' = [preempt EXCEPT ![d] = Infinite]
  /\ UNCHANGED <<now, scheduled, active, tickVars, cancelVars, window>>

(* ThawPercpu: the hardware timer lost its state over a suspension.         *)
ThawPercpu(c) ==
  /\ tick[c] = "none"
  /\ LET deadline == SoonestDeadline(c)
     IN  /\ hardware' = [hardware EXCEPT ![c] = deadline]
         /\ next' = [next EXCEPT ![c] = deadline]
  /\ UNCHANGED <<now, list, scheduled, active, preempt, tickVars, cancelVars,
                 window>>

Clock ==
  /\ now < MaxTime
  /\ now' = now + 1
  /\ UNCHANGED <<list, scheduled, active, clockVars, tickVars, cancelVars,
                 window>>
-----------------------------------------------------------------------------
TickStep(c) == TickStart(c) \/ TickFire(c) \/ CallbackDone(c) \/ TickEnd(c)

Client(c, windows) ==
  \/ \E t \in Timers : \/ \E w \in windows : Set(c, t, w)
                       \/ CancelInCallback(c, t)
                       \/ Cancel(c, t)
  \/ \E d \in Preemptions : PreemptReset(c, d)
  \/ PreemptCancel(c)

Steps(windows) ==
  \/ \E c \in Cpus : Client(c, windows) \/ TickStep(c) \/ ThawPercpu(c)
  \/ \E c, d \in Cpus : TransitionOffCpu(c, d)
  \/ \E t \in Timers : CancelReturn(t)
  \/ Clock

Next == Steps(Windows)

Spec == Init /\ [][Next]_vars
-----------------------------------------------------------------------------
TypeOK ==
  /\ now \in 0 .. MaxTime
  /\ list \in [Cpus -> Seq(Timers)]
  /\ scheduled \in [Timers -> 0 .. MaxTime]
  /\ active \in [Timers -> Cpus \cup {None}]
  /\ next \in [Cpus -> 0 .. Infinite]
  /\ preempt \in [Cpus -> Preemptions \cup {Infinite}]
  /\ hardware \in [Cpus -> 0 .. Infinite]
  /\ tick \in [Cpus -> {"none", "loop", "callback"}]
  /\ tickTime \in [Cpus -> 0 .. MaxTime]
  /\ waits \in [Cpus -> Timers \cup {None}]
  /\ cancel \cup spinning \cup finished \subseteq Timers
  /\ window \in [Timers -> Windows \cup {NoWindow}]

(* Insert keeps every queue in order of time, so that the head is the timer *)
(* to program the hardware for, and each timer in one queue at most (and    *)
(* every variable its type).                                                *)
QueuesSorted ==
  /\ TypeOK
  /\ \A c \in Cpus : \A i, j \in DOMAIN list[c] :
       i < j => /\ scheduled[list[c][i]] <= scheduled[list[c][j]]
                /\ list[c][i] # list[c][j]
  /\ \A c, d \in Cpus : c # d => ToSet(list[c]) \cap ToSet(list[d]) = {}

(* Coalescing never moves a timer out of the window it was set with, also   *)
(* when it is moved to another CPU.                                         *)
CoalescedInWindow ==
  \A t \in Timers : Queued(t) =>
    scheduled[t] \in window[t].earliest .. window[t].latest

(* Outside of its interrupt every CPU has its hardware timer programmed no  *)
(* later than the first timer of its queue and the preemption deadline:     *)
(* none is ever slept through.                                              *)
HardwareArmed ==
  \A c \in Cpus : tick[c] = "none" =>
    /\ hardware[c] <= preempt[c]
    /\ \A t \in ToSet(list[c]) : hardware[c] <= scheduled[t]

(* Once Timer::Cancel has returned, the timer is in no queue and its        *)
(* callback is not running, however the callback raced it to set the timer  *)
(* again.                                                                   *)
CancelIsFinal ==
  \A t \in finished : ~Queued(t) /\ active[t] = None
=============================================================================
