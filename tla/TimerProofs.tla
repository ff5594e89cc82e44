----------------------------- MODULE TimerProofs -----------------------------
(***************************************************************************)
(* Proofs about TimerDispatcher, for any sets of threads, CPUs, deadlines  *)
(* and slacks.                                                             *)
(***************************************************************************)
EXTENDS TimerDispatcher, FiniteSetTheorems, TLAPS

(* How the holders of references change when a token is taken, given up,    *)
(* or exchanged for another.                                                *)
LEMMA TokensKept ==
  ASSUME \A k \in Tokens : Holds(k)' <=> Holds(k)
  PROVE  Holders' = Holders
BY DEF Holders, Tokens

LEMMA TokenAdded ==
  ASSUME IsFiniteSet(Holders), NEW a \in Tokens, ~Holds(a), Holds(a)',
         \A k \in Tokens \ {a} : Holds(k)' <=> Holds(k)
  PROVE  /\ IsFiniteSet(Holders')
         /\ Cardinality(Holders') = Cardinality(Holders) + 1
         /\ Holders' # {}
<1>1. Holders' = Holders \cup {a} /\ a \notin Holders
  BY DEF Holders, Tokens
<1> QED BY <1>1, FS_AddElement

LEMMA TokenRemoved ==
  ASSUME IsFiniteSet(Holders), NEW a \in Tokens, Holds(a), ~Holds(a)',
         \A k \in Tokens \ {a} : Holds(k)' <=> Holds(k)
  PROVE  /\ IsFiniteSet(Holders')
         /\ Cardinality(Holders') = Cardinality(Holders) - 1
         /\ Holders' = Holders \ {a}
         /\ a \in Holders
<1>1. Holders' = Holders \ {a} /\ a \in Holders
  BY DEF Holders, Tokens
<1> QED BY <1>1, FS_RemoveElement

LEMMA TokenMoved ==
  ASSUME IsFiniteSet(Holders), NEW a \in Tokens, NEW b \in Tokens,
         Holds(a), ~Holds(b), ~Holds(a)', Holds(b)',
         \A k \in Tokens \ {a, b} : Holds(k)' <=> Holds(k)
  PROVE  /\ IsFiniteSet(Holders')
         /\ Cardinality(Holders') = Cardinality(Holders)
         /\ Holders # {} /\ Holders' # {}
<1>1. Holders' = (Holders \ {a}) \cup {b} /\ a \in Holders /\ b \notin Holders
  BY DEF Holders, Tokens
<1>2. /\ IsFiniteSet(Holders \ {a})
      /\ Cardinality(Holders \ {a}) = Cardinality(Holders) - 1
  BY <1>1, FS_RemoveElement
<1>3. Cardinality(Holders) \in Nat
  BY FS_CardinalityType
<1>4. /\ IsFiniteSet(Holders')
      /\ Cardinality(Holders') = (Cardinality(Holders) - 1) + 1
  BY <1>1, <1>2, FS_AddElement
<1> QED BY <1>1, <1>3, <1>4
-----------------------------------------------------------------------------
(* The control: where the firing is, and for which deadline.  That the      *)
(* reference count is a number is shown with the count.                     *)
LEMMA ControlInit == Init => ControlOK
<1> SUFFICES ASSUME Init PROVE ControlOK
  OBVIOUS
<1>1. Invoked = {}
  BY DEF Init, Invoked
<1>2. TypeOK
  <2>1. now \in 0 .. MaxTime /\ scheduled \in Int /\ refs \in Nat
    BY TimerDispatcherAssumption DEF Init
  <2> QED BY <2>1 DEF Init, TypeOK
<1> QED BY <1>1, <1>2 DEF Init, ControlOK, InterruptOK, DeadlineOK, FiringOK

LEMMA SetTimerControl ==
  ASSUME ControlOK, NEW t \in Threads, NEW c \in Cpus, NEW d \in Deadlines,
         NEW s \in Slacks, SetTimer(t, c, d, s), refs' \in Nat
  PROVE  ControlOK'
<1> USE TimerDispatcherAssumption
<1>1. Invoked' = Invoked
  BY DEF SetTimer, dpcVars, Invoked
<1>2. TypeOK'
  <2>1. scheduled' \in Int
    BY DEF SetTimer, SetTimerLocked, ControlOK, TypeOK, Earliest, Latest
  <2> QED BY <2>1 DEF SetTimer, SetTimerLocked, CancelTimerLocked, Due, TooLate,
       QueueAfterCancel, Pending, Withdrawn, LastReference, ControlOK, TypeOK, dpcVars
<1>3. InterruptOK'
  BY DEF SetTimer, dpcVars, ControlOK, InterruptOK
<1>4. DeadlineOK'
  BY DEF SetTimer, SetTimerLocked, CancelTimerLocked, NotArmedNow, Due, Pending,
     Withdrawn, TooLate, QueueAfterCancel, ControlOK, TypeOK, DeadlineOK, FiringOK
<1>5. FiringOK'
  BY <1>1 DEF SetTimer, SetTimerLocked, CancelTimerLocked, NotArmedNow, Due, Pending,
     Withdrawn, TooLate, NotRunning, QueueAfterCancel, ControlOK, TypeOK, InterruptOK,
     DeadlineOK, FiringOK, dpcVars
<1> QED BY <1>2, <1>3, <1>4, <1>5 DEF ControlOK

LEMMA CancelControl ==
  ASSUME ControlOK, refs' \in Nat,
         OnZeroHandles \/ \E t \in Threads : CancelTimer(t)
  PROVE  ControlOK'
<1> USE TimerDispatcherAssumption
<1>1. Invoked' = Invoked
  BY DEF CancelTimer, OnZeroHandles, dpcVars, Invoked
<1>2. TypeOK'
  BY DEF CancelTimer, OnZeroHandles, CancelTimerLocked, TooLate, QueueAfterCancel,
     Pending, Withdrawn, LastReference, ControlOK, TypeOK, dpcVars
<1>3. InterruptOK'
  BY DEF CancelTimer, OnZeroHandles, dpcVars, ControlOK, InterruptOK
<1>4. DeadlineOK'
  BY DEF CancelTimer, OnZeroHandles, CancelTimerLocked, Pending, Withdrawn, TooLate,
     QueueAfterCancel, ControlOK, TypeOK, DeadlineOK, FiringOK
<1>5. FiringOK'
  BY <1>1 DEF CancelTimer, OnZeroHandles, CancelTimerLocked, Pending, Withdrawn,
     TooLate, NotRunning, QueueAfterCancel, ControlOK, TypeOK, InterruptOK,
     DeadlineOK, FiringOK, dpcVars
<1> QED BY <1>2, <1>3, <1>4, <1>5 DEF ControlOK

LEMMA TickControl ==
  ASSUME ControlOK, TickErase
  PROVE  ControlOK'
<1> USE TimerDispatcherAssumption DEF TickErase, dpcVars, refVars, userVars
<1>1. Invoked' = Invoked
  BY DEF Invoked
<1>2. TypeOK'
  BY DEF ControlOK, TypeOK
<1>3. InterruptOK'
  BY DEF ControlOK, TypeOK, InterruptOK, FiringOK
<1>4. DeadlineOK'
  BY DEF ControlOK, TypeOK, DeadlineOK, FiringOK, Earliest, Latest
<1>5. FiringOK'
  BY <1>1 DEF ControlOK, TypeOK, InterruptOK, DeadlineOK, FiringOK
<1> QED BY <1>2, <1>3, <1>4, <1>5 DEF ControlOK

LEMMA IrqControl ==
  ASSUME ControlOK, TimerIrqCallback \/ TickDone
  PROVE  ControlOK'
<1> USE TimerDispatcherAssumption
    DEF TimerIrqCallback, TickDone, dpcVars, refVars, userVars
<1>1. Invoked' = Invoked
  BY DEF Invoked
<1>2. TypeOK'
  BY DEF ControlOK, TypeOK
<1>3. InterruptOK'
  BY DEF ControlOK, TypeOK, InterruptOK, FiringOK
<1>4. DeadlineOK'
  BY DEF ControlOK, TypeOK, DeadlineOK, Earliest, Latest
<1>5. FiringOK'
  BY <1>1 DEF ControlOK, TypeOK, InterruptOK, DeadlineOK, FiringOK
<1> QED BY <1>2, <1>3, <1>4, <1>5 DEF ControlOK
LEMMA DpcWorkControl ==
  ASSUME ControlOK, NEW c \in Cpus, DpcWork(c)
  PROVE  ControlOK'
<1> USE TimerDispatcherAssumption DEF DpcWork, ktimer, refVars, userVars
<1>1. Invoked' = {c} /\ Invoked = {} /\ queuedOn = None /\ irq # "callback"
  BY DEF Invoked, ControlOK, TypeOK, FiringOK
<1>2. TypeOK'
  BY DEF ControlOK, TypeOK
<1>3. InterruptOK'
  BY DEF ControlOK, TypeOK, InterruptOK
<1>4. DeadlineOK'
  BY DEF ControlOK, DeadlineOK, Earliest, Latest
<1>5. FiringOK'
  BY <1>1 DEF ControlOK, TypeOK, FiringOK
<1> QED BY <1>2, <1>3, <1>4, <1>5 DEF ControlOK

LEMMA OnTimerFiredControl ==
  ASSUME ControlOK, NEW c \in Cpus, OnTimerFired(c)
  PROVE  ControlOK'
<1> USE TimerDispatcherAssumption
<1>1. /\ Invoked = {c} /\ queuedOn = None /\ irq # "callback"
      /\ dpcQueuedOn = None
      /\ deadline # 0 \/ cancelPending
  BY DEF OnTimerFired, Invoked, ControlOK, TypeOK, FiringOK
<1>2. active = None
  BY <1>1 DEF ControlOK, TypeOK, InterruptOK
<1>3. Invoked' = {}
  BY <1>1 DEF OnTimerFired, Rearm, Suppress, Invoked, ControlOK, TypeOK
<1>4. TypeOK'
  <2>1. scheduled' \in Int
    BY DEF OnTimerFired, Rearm, Suppress, SetTimerLocked, ControlOK, TypeOK,
       Earliest, Latest
  <2> QED BY <2>1 DEF OnTimerFired, Rearm, Suppress, SetTimerLocked, LastReference,
       Withdrawn, Pending, ControlOK, TypeOK, userVars, refVars
<1>5. InterruptOK'
  BY DEF OnTimerFired, ControlOK, InterruptOK
<1>6. DeadlineOK'
  BY <1>1 DEF OnTimerFired, Stale, Rearm, Suppress, SetTimerLocked, userVars,
     ControlOK, TypeOK, DeadlineOK, Earliest, Latest
<1>7. FiringOK'
  BY <1>1, <1>3 DEF OnTimerFired, Stale, Rearm, Suppress, SetTimerLocked, userVars,
     ControlOK, TypeOK, FiringOK
<1> QED BY <1>4, <1>5, <1>6, <1>7 DEF ControlOK

(* The steps that take or drop a reference and nothing else, and the clock. *)
LEMMA OtherControl ==
  ASSUME ControlOK, refs' \in Nat,
         \/ \E t \in Threads : Lookup(t) \/ Return(t)
         \/ RemoveHandle \/ DeleteHandle \/ Clock
         \/ \E c \in Cpus : OnTimerFiredRelease(c)
         \/ UNCHANGED vars
  PROVE  ControlOK'
<1> USE TimerDispatcherAssumption
    DEF Lookup, Return, RemoveHandle, DeleteHandle, Clock, OnTimerFiredRelease,
        Release, Quiet, vars, userVars, refVars, ktimer, dpcVars
<1>1. Invoked' = Invoked
  BY DEF Invoked, ControlOK, TypeOK
<1>2. TypeOK'
  <2>1. destroyed' \in BOOLEAN /\ panicked' \in BOOLEAN
    BY DEF ControlOK, TypeOK
  <2>2. /\ pc' \in [Threads -> {"idle", "call", "return"}]
        /\ dpc' \in [Cpus -> {"idle", "invoked", "release"}]
    BY DEF ControlOK, TypeOK
  <2>3. now' \in 0 .. MaxTime /\ handle' \in {"open", "removed", "zeroed", "closed"}
    BY DEF ControlOK, TypeOK
  <2>4. UNCHANGED <<userVars, cancelPending, ktimer, dpcQueuedOn>>
    OBVIOUS
  <2> QED BY <2>1, <2>2, <2>3, <2>4 DEF ControlOK, TypeOK
<1>3. InterruptOK'
  BY DEF ControlOK, InterruptOK
<1>4. DeadlineOK'
  BY DEF ControlOK, TypeOK, DeadlineOK, Earliest, Latest
<1>5. FiringOK'
  BY <1>1 DEF ControlOK, FiringOK
<1> QED BY <1>2, <1>3, <1>4, <1>5 DEF ControlOK
-----------------------------------------------------------------------------
(* The count.  Each step of the code that changes it changes the holders by *)
(* the same reference.                                                      *)
LEMMA Released ==
  ASSUME ReferencesHeld, Release, NEW a \in Tokens, Holds(a), ~Holds(a)',
         \A k \in Tokens \ {a} : Holds(k)' <=> Holds(k)
  PROVE  /\ ReferencesHeld'
         /\ refs = 1 => Holders = {a}
<1>1. /\ IsFiniteSet(Holders')
      /\ Cardinality(Holders') = Cardinality(Holders) - 1
      /\ Holders' = Holders \ {a}
      /\ a \in Holders
  BY TokenRemoved DEF ReferencesHeld
<1>2. Cardinality(Holders') = 0 <=> Holders' = {}
  BY <1>1, FS_EmptySet
<1>3. Cardinality(Holders) \in Nat /\ Cardinality(Holders') \in Nat
  BY <1>1, FS_CardinalityType DEF ReferencesHeld
<1>4. refs = 1 <=> Holders' = {}
  BY <1>1, <1>2, <1>3 DEF ReferencesHeld
<1>5. destroyed' <=> Holders' = {}
  BY <1>1, <1>4 DEF ReferencesHeld, Release
<1> QED BY <1>1, <1>4, <1>5 DEF ReferencesHeld, Release

(* Without a firing nothing is pending, as the destructors assert.          *)
LEMMA QuietWithoutFiring ==
  ASSUME ControlOK, NEW a \in Tokens, Holders = {a},
         a[1] \in {"release", "call", "handle"}
  PROVE  Quiet
<1>1. \A k \in Tokens : ~Fires(k)
  BY DEF Holders, Holds, Fires, Tokens
<1>2. \A c \in Cpus : /\ <<"queued", c>> \in Tokens /\ <<"irq", c>> \in Tokens
                      /\ <<"dpc", c>> \in Tokens /\ <<"invoked", c>> \in Tokens
  BY DEF Tokens
<1>3. queuedOn = None /\ dpcQueuedOn = None
  BY <1>1, <1>2 DEF Fires, ControlOK, TypeOK
<1>4. irq # "callback"
  BY <1>1, <1>2 DEF Fires, ControlOK, TypeOK, InterruptOK
<1>5. Invoked = {}
  BY <1>1, <1>2 DEF Fires, Invoked
<1>6. deadline = 0 /\ slack = 0
  BY <1>3, <1>4, <1>5 DEF ControlOK, FiringOK, DeadlineOK
<1>7. active = None
  BY <1>3, <1>4 DEF ControlOK, TypeOK, InterruptOK
<1> QED BY <1>3, <1>6, <1>7 DEF Quiet

LEMMA ReturnRefs ==
  ASSUME ControlOK, ReferencesHeld, NoPanic, NEW t \in Threads, Return(t)
  PROVE  ReferencesHeld' /\ NoPanic'
<1> DEFINE a == <<"call", t>>
<1>1. a \in Tokens
  BY DEF Tokens
<1>2. Holds(a) /\ ~Holds(a)'
  BY DEF Return, Holds, Fires, ControlOK, TypeOK
<1>3. \A k \in Tokens \ {a} : Holds(k)' <=> Holds(k)
  BY DEF Return, Holds, Fires, Tokens, ControlOK, TypeOK, ktimer, dpcVars
<1>4. ReferencesHeld' /\ (refs = 1 => Holders = {a})
  BY <1>1, <1>2, <1>3, Released DEF Return
<1>5. refs = 1 => Quiet
  BY <1>1, <1>4, QuietWithoutFiring
<1> QED BY <1>4, <1>5 DEF Return, Release, NoPanic

LEMMA DeleteHandleRefs ==
  ASSUME ControlOK, ReferencesHeld, NoPanic, DeleteHandle
  PROVE  ReferencesHeld' /\ NoPanic'
<1> DEFINE a == <<"handle", None>>
<1>1. a \in Tokens
  BY DEF Tokens
<1>2. Holds(a) /\ ~Holds(a)'
  BY DEF DeleteHandle, Holds, Fires
<1>3. \A k \in Tokens \ {a} : Holds(k)' <=> Holds(k)
  BY DEF DeleteHandle, Holds, Fires, Tokens, ktimer, dpcVars
<1>4. ReferencesHeld' /\ (refs = 1 => Holders = {a})
  BY <1>1, <1>2, <1>3, Released DEF DeleteHandle
<1>5. refs = 1 => Quiet
  BY <1>1, <1>4, QuietWithoutFiring
<1> QED BY <1>4, <1>5 DEF DeleteHandle, Release, NoPanic

LEMMA FiredReleaseRefs ==
  ASSUME ControlOK, ReferencesHeld, NoPanic, NEW c \in Cpus,
         OnTimerFiredRelease(c)
  PROVE  ReferencesHeld' /\ NoPanic'
<1> DEFINE a == <<"release", c>>
<1>1. a \in Tokens
  BY DEF Tokens
<1>2. Holds(a) /\ ~Holds(a)'
  BY DEF OnTimerFiredRelease, Holds, Fires, ControlOK, TypeOK
<1>3. \A k \in Tokens \ {a} : Holds(k)' <=> Holds(k)
  BY DEF OnTimerFiredRelease, Holds, Fires, Tokens, ControlOK, TypeOK, ktimer
<1>4. ReferencesHeld' /\ (refs = 1 => Holders = {a})
  BY <1>1, <1>2, <1>3, Released DEF OnTimerFiredRelease
<1>5. refs = 1 => Quiet
  BY <1>1, <1>4, QuietWithoutFiring
<1> QED BY <1>4, <1>5 DEF OnTimerFiredRelease, Release, NoPanic

LEMMA LookupRefs ==
  ASSUME ControlOK, ReferencesHeld, NEW t \in Threads, Lookup(t)
  PROVE  ReferencesHeld'
<1> DEFINE a == <<"call", t>>
<1>1. a \in Tokens /\ <<"handle", None>> \in Holders
  BY DEF Tokens, Holders, Holds, Lookup
<1>2. ~Holds(a) /\ Holds(a)'
  BY DEF Lookup, Holds, Fires, ControlOK, TypeOK
<1>3. \A k \in Tokens \ {a} : Holds(k)' <=> Holds(k)
  BY DEF Lookup, Holds, Fires, Tokens, ControlOK, TypeOK, ktimer, dpcVars
<1>4. /\ IsFiniteSet(Holders') /\ Holders' # {}
      /\ Cardinality(Holders') = Cardinality(Holders) + 1
  BY <1>1, <1>2, <1>3, TokenAdded DEF ReferencesHeld
<1> QED BY <1>1, <1>4 DEF ReferencesHeld, Lookup

(* A firing that passes from one place to the next takes its reference      *)
(* along.                                                                   *)
LEMMA FiringMoves ==
  ASSUME ReferencesHeld, NEW a \in Tokens, NEW b \in Tokens,
         Holds(a), ~Holds(b), ~Holds(a)', Holds(b)',
         \A k \in Tokens \ {a, b} : Holds(k)' <=> Holds(k), UNCHANGED refVars
  PROVE  ReferencesHeld'
<1>1. /\ IsFiniteSet(Holders') /\ Cardinality(Holders') = Cardinality(Holders)
      /\ Holders # {} /\ Holders' # {}
  BY TokenMoved DEF ReferencesHeld
<1> QED BY <1>1 DEF ReferencesHeld, refVars

LEMMA TickRefs ==
  ASSUME ControlOK, ReferencesHeld, TickErase
  PROVE  ReferencesHeld'
<1> USE TimerDispatcherAssumption
<1>1. PICK c \in Cpus : c = queuedOn
  BY DEF TickErase, ControlOK, TypeOK
<1>2. <<"queued", c>> \in Tokens /\ <<"irq", c>> \in Tokens
  BY DEF Tokens
<1>3. /\ Holds(<<"queued", c>>) /\ ~Holds(<<"irq", c>>)
      /\ ~Holds(<<"queued", c>>)' /\ Holds(<<"irq", c>>)'
  BY <1>1 DEF TickErase, Holds, Fires, ControlOK, FiringOK
<1>4. \A k \in Tokens \ {<<"queued", c>>, <<"irq", c>>} : Holds(k)' <=> Holds(k)
  BY <1>1 DEF TickErase, Holds, Fires, Tokens, ControlOK, FiringOK, dpcVars
<1> QED BY <1>2, <1>3, <1>4, FiringMoves DEF TickErase

LEMMA IrqRefs ==
  ASSUME ControlOK, ReferencesHeld, TimerIrqCallback
  PROVE  ReferencesHeld'
<1> USE TimerDispatcherAssumption
<1>1. PICK c \in Cpus : c = active
  BY DEF TimerIrqCallback, ControlOK, TypeOK, InterruptOK
<1>2. <<"irq", c>> \in Tokens /\ <<"dpc", c>> \in Tokens
  BY DEF Tokens
<1>3. /\ Holds(<<"irq", c>>) /\ ~Holds(<<"dpc", c>>)
      /\ ~Holds(<<"irq", c>>)' /\ Holds(<<"dpc", c>>)'
  BY <1>1 DEF TimerIrqCallback, Holds, Fires, ControlOK, FiringOK
<1>4. \A k \in Tokens \ {<<"irq", c>>, <<"dpc", c>>} : Holds(k)' <=> Holds(k)
  BY <1>1 DEF TimerIrqCallback, Holds, Fires, Tokens, ControlOK, FiringOK
<1> QED BY <1>2, <1>3, <1>4, FiringMoves DEF TimerIrqCallback

LEMMA DpcWorkRefs ==
  ASSUME ControlOK, ReferencesHeld, NEW c \in Cpus, DpcWork(c)
  PROVE  ReferencesHeld'
<1> USE TimerDispatcherAssumption
<1>1. <<"dpc", c>> \in Tokens /\ <<"invoked", c>> \in Tokens
  BY DEF Tokens
<1>2. /\ Holds(<<"dpc", c>>) /\ ~Holds(<<"invoked", c>>)
      /\ ~Holds(<<"dpc", c>>)' /\ Holds(<<"invoked", c>>)'
  BY DEF DpcWork, Holds, Fires, ControlOK, TypeOK
<1>3. \A k \in Tokens \ {<<"dpc", c>>, <<"invoked", c>>} : Holds(k)' <=> Holds(k)
  BY DEF DpcWork, Holds, Fires, Tokens, ControlOK, TypeOK, ktimer
<1> QED BY <1>1, <1>2, <1>3, FiringMoves DEF DpcWork

LEMMA OnTimerFiredRefs ==
  ASSUME ControlOK, ReferencesHeld, NoPanic, NEW c \in Cpus, OnTimerFired(c)
  PROVE  ReferencesHeld' /\ NoPanic'
<1> USE TimerDispatcherAssumption
<1>1. /\ <<"invoked", c>> \in Tokens /\ <<"queued", c>> \in Tokens
      /\ <<"release", c>> \in Tokens
  BY DEF Tokens
<1>2. c \in Invoked /\ queuedOn = None
  BY DEF OnTimerFired, Invoked, ControlOK, FiringOK
<1>3. Holds(<<"invoked", c>>) /\ ~Holds(<<"invoked", c>>)' /\ UNCHANGED refVars
  BY <1>2 DEF OnTimerFired, Rearm, Suppress, Holds, Fires, ControlOK, TypeOK
<1>4. CASE Stale /\ Rearm(c)
  <2>1. ~Holds(<<"queued", c>>) /\ Holds(<<"queued", c>>)'
    BY <1>2, <1>4 DEF Rearm, SetTimerLocked, Holds, Fires
  <2>2. \A k \in Tokens \ {<<"invoked", c>>, <<"queued", c>>} :
          Holds(k)' <=> Holds(k)
    BY <1>2, <1>4 DEF OnTimerFired, Rearm, SetTimerLocked, Holds, Fires, Tokens,
       ControlOK, TypeOK
  <2>3. ReferencesHeld'
    BY <1>1, <1>3, <2>1, <2>2, FiringMoves
  <2>4. ~LastReference /\ active = None
    BY <1>4 DEF Stale, Rearm, SetTimerLocked, NotRunning, LastReference, Withdrawn,
       Pending
  <2> QED BY <1>4, <2>3, <2>4 DEF Rearm, SetTimerLocked, NoPanic
<1>5. CASE ~(Stale /\ Rearm(c))
  <2>0. /\ dpc' = [dpc EXCEPT ![c] = "release"]
        /\ UNCHANGED <<queuedOn, irq, active, dpcQueuedOn, pc, handle, panicked>>
    BY <1>5 DEF OnTimerFired, Suppress
  <2>1. ~Holds(<<"release", c>>) /\ Holds(<<"release", c>>)'
    BY <1>2, <2>0 DEF Holds, Fires, Invoked, ControlOK, TypeOK
  <2>2. \A k \in Tokens \ {<<"invoked", c>>, <<"release", c>>} :
          Holds(k)' <=> Holds(k)
    BY <2>0 DEF Holds, Fires, Tokens, ControlOK, TypeOK
  <2>3. ReferencesHeld'
    BY <1>1, <1>3, <2>1, <2>2, FiringMoves
  <2> QED BY <2>0, <2>3 DEF NoPanic
<1> QED BY <1>4, <1>5

(* CancelTimerLocked never drops the last reference: who cancels holds one  *)
(* besides the timer.                                                       *)
LEMMA NotLastReference ==
  ASSUME ControlOK, ReferencesHeld, NEW a \in Holders, a[1] \in {"call", "handle"}
  PROVE  ~LastReference
<1> SUFFICES ASSUME Withdrawn, refs = 1 PROVE FALSE
  BY DEF LastReference
<1>1. PICK x : Holders = {x}
  BY FS_Singleton DEF ReferencesHeld
<1>2. <<"queued", queuedOn>> \in Holders
  BY DEF Withdrawn, ControlOK, TypeOK, Holders, Holds, Fires, Tokens
<1> QED BY <1>1, <1>2

(* The part of Set, Cancel and on_zero_handles that withdraws the timer.    *)
LEMMA CancelRefs ==
  ASSUME ControlOK, ReferencesHeld, NEW h \in Holders, Holders' # {},
         refs' = RefsAfterCancel, queuedOn' = QueueAfterCancel,
         UNCHANGED <<destroyed, irq, active, dpcVars>>,
         \A t \in Threads : (pc[t] = "idle") <=> (pc'[t] = "idle"),
         (handle = "closed") <=> (handle' = "closed")
  PROVE  ReferencesHeld'
<1> USE TimerDispatcherAssumption
<1>1. CASE Withdrawn
  <2>1. PICK c \in Cpus : c = queuedOn
    BY <1>1 DEF Withdrawn, ControlOK, TypeOK
  <2>2. <<"queued", c>> \in Tokens
    BY DEF Tokens
  <2>3. Holds(<<"queued", c>>) /\ ~Holds(<<"queued", c>>)'
    BY <1>1, <2>1 DEF QueueAfterCancel, Holds, Fires
  <2>4. \A k \in Tokens \ {<<"queued", c>>} : Holds(k)' <=> Holds(k)
    BY <1>1, <2>1 DEF QueueAfterCancel, Holds, Fires, Tokens, dpcVars
  <2>5. /\ IsFiniteSet(Holders')
        /\ Cardinality(Holders') = Cardinality(Holders) - 1
    BY <2>2, <2>3, <2>4, TokenRemoved DEF ReferencesHeld
  <2> QED BY <1>1, <2>5 DEF ReferencesHeld, RefsAfterCancel
<1>2. CASE ~Withdrawn
  <2>1. \A k \in Tokens : Holds(k)' <=> Holds(k)
    BY <1>2 DEF QueueAfterCancel, Holds, Fires, Tokens, dpcVars
  <2> QED BY <1>2, <2>1, TokensKept DEF ReferencesHeld, RefsAfterCancel
<1> QED BY <1>1, <1>2

LEMMA CancelTimerRefs ==
  ASSUME ControlOK, ReferencesHeld, NoPanic, NEW t \in Threads, CancelTimer(t)
  PROVE  ReferencesHeld' /\ NoPanic'
<1>1. <<"call", t>> \in Holders /\ Holders' # {}
  BY DEF CancelTimer, Holders, Holds, Tokens, ControlOK, TypeOK
<1>2. \A u \in Threads : (pc[u] = "idle") <=> (pc'[u] = "idle")
  BY DEF CancelTimer, ControlOK, TypeOK
<1>3. ReferencesHeld'
  BY <1>1, <1>2, CancelRefs DEF CancelTimer
<1> QED BY <1>1, <1>3, NotLastReference DEF CancelTimer, NoPanic

LEMMA OnZeroHandlesRefs ==
  ASSUME ControlOK, ReferencesHeld, NoPanic, OnZeroHandles
  PROVE  ReferencesHeld' /\ NoPanic'
<1>1. <<"handle", None>> \in Holders /\ Holders' # {}
  BY DEF OnZeroHandles, Holders, Holds, Tokens
<1>2. queuedOn' = QueueAfterCancel
  BY DEF OnZeroHandles, QueueAfterCancel, Withdrawn, Pending, ControlOK, DeadlineOK,
     FiringOK
<1>3. ReferencesHeld'
  BY <1>1, <1>2, CancelRefs DEF OnZeroHandles
<1> QED BY <1>1, <1>3, NotLastReference DEF OnZeroHandles, NoPanic

LEMMA SetTimerRefs ==
  ASSUME ControlOK, ReferencesHeld, NoPanic, NEW t \in Threads, NEW c \in Cpus,
         NEW d \in Deadlines, NEW s \in Slacks, SetTimer(t, c, d, s)
  PROVE  ReferencesHeld' /\ NoPanic'
<1> USE TimerDispatcherAssumption
<1>1. <<"call", t>> \in Holders /\ Holders' # {}
  BY DEF SetTimer, Holders, Holds, Tokens, ControlOK, TypeOK
<1>2. \A u \in Threads : (pc[u] = "idle") <=> (pc'[u] = "idle")
  BY DEF SetTimer, ControlOK, TypeOK
<1>3. ~LastReference
  BY <1>1, NotLastReference
<1>4. CASE NotArmedNow(d)
  BY <1>1, <1>2, <1>3, <1>4, CancelRefs DEF SetTimer, NoPanic
<1>5. CASE ~NotArmedNow(d)
  <2>1. /\ queuedOn' = c /\ refs' = RefsAfterCancel + 1
        /\ ~cancelPending /\ ~TooLate
        /\ Pending => Withdrawn
    BY <1>5 DEF SetTimer, SetTimerLocked, AddRef, NotArmedNow, CancelTimerLocked,
       TooLate, Withdrawn
  <2>2. NoPanic'
    BY <1>3, <1>5, <2>1 DEF SetTimer, SetTimerLocked, CancelTimerLocked, NotRunning,
       QueueAfterCancel, NoPanic
  <2>3. <<"queued", c>> \in Tokens /\ Holds(<<"queued", c>>)'
    BY <2>1 DEF Tokens, Holds, Fires
  <2>4. UNCHANGED <<destroyed, handle, active, irq, dpcQueuedOn, dpc>>
    BY DEF SetTimer, dpcVars
  <2>5. Cardinality(Holders) \in Nat
    BY FS_CardinalityType DEF ReferencesHeld
  <2>6. CASE Withdrawn /\ queuedOn = c
    <3>1. \A k \in Tokens : Holds(k)' <=> Holds(k)
      BY <1>2, <2>1, <2>4, <2>6 DEF Holds, Fires, Tokens
    <3> QED BY <2>1, <2>2, <2>4, <2>5, <2>6, <3>1, TokensKept
            DEF ReferencesHeld, RefsAfterCancel
  <2>7. CASE Withdrawn /\ queuedOn # c
    <3>1. PICK q \in Cpus : q = queuedOn
      BY <2>7 DEF Withdrawn, ControlOK, TypeOK
    <3>2. /\ <<"queued", q>> \in Tokens
          /\ Holds(<<"queued", q>>) /\ ~Holds(<<"queued", q>>)'
          /\ ~Holds(<<"queued", c>>)
      BY <2>1, <2>7, <3>1 DEF Tokens, Holds, Fires
    <3>3. \A k \in Tokens \ {<<"queued", q>>, <<"queued", c>>} :
            Holds(k)' <=> Holds(k)
      BY <1>2, <2>1, <2>4, <3>1 DEF Holds, Fires, Tokens
    <3>4. UNCHANGED refVars
      BY <2>1, <2>4, <2>5, <2>7 DEF RefsAfterCancel, ReferencesHeld, refVars
    <3> QED BY <2>2, <2>3, <3>2, <3>3, <3>4, FiringMoves
  <2>8. CASE ~Withdrawn
    <3>1. queuedOn = None
      BY <2>1, <2>8 DEF Pending, ControlOK, FiringOK
    <3>2. ~Holds(<<"queued", c>>)
      BY <3>1 DEF Holds, Fires
    <3>3. \A k \in Tokens \ {<<"queued", c>>} : Holds(k)' <=> Holds(k)
      BY <1>2, <2>1, <2>4, <3>1 DEF Holds, Fires, Tokens
    <3>4. /\ IsFiniteSet(Holders')
          /\ Cardinality(Holders') = Cardinality(Holders) + 1
      BY <2>3, <3>2, <3>3, TokenAdded DEF ReferencesHeld
    <3> QED BY <1>1, <2>1, <2>2, <2>4, <2>8, <3>4 DEF ReferencesHeld, RefsAfterCancel
  <2> QED BY <2>6, <2>7, <2>8
<1> QED BY <1>4, <1>5

LEMMA UnchangedRefs ==
  ASSUME ReferencesHeld,
         RemoveHandle \/ TickDone \/ Clock \/ UNCHANGED vars
  PROVE  ReferencesHeld'
<1>1. \A k \in Tokens : Holds(k)' <=> Holds(k)
  BY DEF RemoveHandle, TickDone, Clock, vars, Holds, Fires, Tokens, ktimer, dpcVars
<1>2. UNCHANGED refVars
  BY DEF RemoveHandle, TickDone, Clock, vars
<1> QED BY <1>1, <1>2, TokensKept DEF ReferencesHeld, refVars
-----------------------------------------------------------------------------
LEMMA InvInit == Init => TimerInv
<1> SUFFICES ASSUME Init PROVE TimerInv
  OBVIOUS
<1>1. ControlOK
  BY ControlInit
<1>2. Holders = {<<"handle", None>>}
  BY TimerDispatcherAssumption DEF Init, Holders, Holds, Fires, Tokens
<1>3. ReferencesHeld
  BY <1>2, FS_Singleton DEF Init, ReferencesHeld
<1> QED BY <1>1, <1>3 DEF Init, TimerInv, NoPanic

LEMMA InvNext == TimerInv /\ [Next]_vars => TimerInv'
<1> SUFFICES ASSUME TimerInv, [Next]_vars PROVE TimerInv'
  OBVIOUS
<1> USE DEF TimerInv
<1>1. ReferencesHeld' /\ NoPanic'
  <2>1. ASSUME NEW t \in Threads, Lookup(t) PROVE ReferencesHeld' /\ NoPanic'
    BY <2>1, LookupRefs DEF Lookup, NoPanic
  <2>2. ASSUME NEW t \in Threads, CallStep(t) PROVE ReferencesHeld' /\ NoPanic'
    BY <2>2, SetTimerRefs, CancelTimerRefs, ReturnRefs DEF CallStep
  <2>3. ASSUME RemoveHandle \/ TickDone \/ Clock \/ UNCHANGED vars
        PROVE  ReferencesHeld' /\ NoPanic'
    BY <2>3, UnchangedRefs DEF RemoveHandle, TickDone, Clock, vars, NoPanic
  <2>4. ASSUME CloseStep PROVE ReferencesHeld' /\ NoPanic'
    BY <2>4, OnZeroHandlesRefs, DeleteHandleRefs DEF CloseStep
  <2>5. ASSUME TickErase \/ TimerIrqCallback PROVE ReferencesHeld' /\ NoPanic'
    BY <2>5, TickRefs, IrqRefs DEF TickErase, TimerIrqCallback, NoPanic
  <2>6. ASSUME NEW c \in Cpus, DpcStep(c) PROVE ReferencesHeld' /\ NoPanic'
    <3>1. CASE DpcWork(c)
      BY <3>1, DpcWorkRefs DEF DpcWork, NoPanic
    <3> QED BY <2>6, <3>1, OnTimerFiredRefs, FiredReleaseRefs DEF DpcStep
  <2> QED BY <2>1, <2>2, <2>3, <2>4, <2>5, <2>6 DEF Next, TimerStep
<1>2. refs' \in Nat
  BY <1>1, FS_CardinalityType DEF ReferencesHeld
<1>3. ControlOK'
  <2>1. ASSUME NEW t \in Threads, CallStep(t) PROVE ControlOK'
    BY <1>2, <2>1, SetTimerControl, CancelControl, OtherControl DEF CallStep
  <2>2. ASSUME CloseStep PROVE ControlOK'
    BY <1>2, <2>2, CancelControl, OtherControl DEF CloseStep
  <2>3. ASSUME NEW c \in Cpus, DpcStep(c) PROVE ControlOK'
    BY <1>2, <2>3, DpcWorkControl, OnTimerFiredControl, OtherControl DEF DpcStep
  <2> QED BY <1>2, <2>1, <2>2, <2>3, TickControl, IrqControl, OtherControl
          DEF Next, TimerStep
<1> QED BY <1>1, <1>3

(* TimerInv is an invariant of the timer.                                   *)
THEOREM TimerInvariant == Spec => []TimerInv
BY InvInit, InvNext, PTL DEF Spec

(* Every variable of TimerDispatcher keeps its type.                        *)
THEOREM TimerTypeCorrect == Spec => []TypeOK
BY TimerInvariant, PTL DEF TimerInv, ControlOK

(* Timer::Set, CancelTimerLocked and the destructors never panic.           *)
THEOREM TimerNeverPanics == Spec => []NoPanic
BY TimerInvariant, PTL DEF TimerInv

(* The reference count is the number of those who use the dispatcher.       *)
THEOREM ReferencesHeldHolds == Spec => []ReferencesHeld
BY TimerInvariant, PTL DEF TimerInv

(* There is one firing when the dispatcher waits for one, and else none.    *)
THEOREM OneFiringHolds == Spec => []OneFiring
<1>1. TimerInv => OneFiring
  <2> SUFFICES ASSUME TimerInv PROVE OneFiring
    OBVIOUS
  <2> USE TimerDispatcherAssumption
  <2>1. \A k, l \in Firings : k = l
    BY DEF TimerInv, ControlOK, TypeOK, FiringOK, Invoked, Firings, Fires, Tokens
  <2>2. Firings # {} <=> \/ queuedOn # None \/ irq = "callback"
                         \/ dpcQueuedOn # None \/ Invoked # {}
    <3>1. \A c \in Cpus : /\ <<"queued", c>> \in Tokens /\ <<"irq", c>> \in Tokens
                          /\ <<"dpc", c>> \in Tokens /\ <<"invoked", c>> \in Tokens
      BY DEF Tokens
    <3>2. queuedOn # None => <<"queued", queuedOn>> \in Firings
      BY <3>1 DEF TimerInv, ControlOK, TypeOK, Firings, Fires
    <3>3. irq = "callback" => <<"irq", active>> \in Firings
      BY <3>1 DEF TimerInv, ControlOK, TypeOK, InterruptOK, Firings, Fires
    <3>4. dpcQueuedOn # None => <<"dpc", dpcQueuedOn>> \in Firings
      BY <3>1 DEF TimerInv, ControlOK, TypeOK, Firings, Fires
    <3>5. \A c \in Invoked : <<"invoked", c>> \in Firings
      BY <3>1 DEF Invoked, Firings, Fires
    <3>6. ASSUME NEW k \in Firings
          PROVE  \/ queuedOn # None \/ irq = "callback" \/ dpcQueuedOn # None
                 \/ Invoked # {}
      BY <3>6 DEF Invoked, Firings, Fires, Tokens
    <3> QED BY <3>2, <3>3, <3>4, <3>5, <3>6
  <2> QED BY <2>1, <2>2 DEF OneFiring, TimerInv, ControlOK, FiringOK
<1> QED BY <1>1, TimerInvariant, PTL
-----------------------------------------------------------------------------
(* Every step of the timer is a step of the one-shot timer, or none.        *)
armedBar == {Window(d, slack) : d \in {deadline} \ {0}}

LEMMA SetTimerRefines ==
  ASSUME ControlOK, NEW t \in Threads, NEW c \in Cpus, NEW d \in Deadlines,
         NEW s \in Slacks, SetTimer(t, c, d, s)
  PROVE  OneShot!Next
<1> USE TimerDispatcherAssumption
<1> DEFINE w == Window(d, s)
<1>1. w \in {Window(x, y) : x \in Deadlines, y \in Slacks} /\ w.when = d
  BY DEF Window
<1>2. d \in Nat /\ now \in Nat
  BY DEF ControlOK, TypeOK
<1>3. OneShot!Request(t, w)
  <2>1. OneShot!Moves(t, "call", "return") /\ UNCHANGED <<now, Life>>
    BY DEF SetTimer, OneShot!Moves, Life
  <2>2. signaled' = (w.when <= now)
    BY <1>1, <1>2 DEF SetTimer, Due
  <2>3. armedBar' = {w} \ {x \in {w} : x.when <= now}
    <3>1. CASE Due(d)
      BY <1>1, <1>2, <3>1 DEF SetTimer, Due, armedBar
    <3>2. CASE ~Due(d)
      <4>1. armedBar' = {w}
        BY <3>2 DEF SetTimer, armedBar, Due
      <4> QED BY <1>1, <1>2, <3>2, <4>1 DEF Due
    <3> QED BY <3>1, <3>2
  <2> QED BY <2>1, <2>2, <2>3 DEF OneShot!Request, armedBar
<1> QED BY <1>1, <1>3 DEF OneShot!Next

LEMMA DisarmRefines ==
  ASSUME ControlOK, OnZeroHandles \/ \E t \in Threads : CancelTimer(t)
  PROVE  OneShot!Next
<1>1. armedBar' = {} /\ signaled' = FALSE /\ now' = now
  BY DEF OnZeroHandles, CancelTimer, armedBar
<1>2. OneShot!Disarm
  BY <1>1 DEF OneShot!Disarm, armedBar
<1>3. CASE OnZeroHandles
  <2>1. Life = "closing" /\ Life' = "closed" /\ UNCHANGED pc
    BY <1>3 DEF OnZeroHandles, Life
  <2> QED BY <1>2, <2>1 DEF OneShot!Next, OneShot!Close
<1>4. ASSUME NEW t \in Threads, CancelTimer(t) PROVE OneShot!Next
  <2>1. OneShot!Withdraw(t)
    BY <1>2, <1>4 DEF CancelTimer, OneShot!Withdraw, OneShot!Moves, Life
  <2> QED BY <2>1 DEF OneShot!Next
<1> QED BY <1>3, <1>4

LEMMA OnTimerFiredRefines ==
  ASSUME ControlOK, NEW c \in Cpus, OnTimerFired(c)
  PROVE  OneShot!Next \/ UNCHANGED OneShot!timerVars
<1> USE TimerDispatcherAssumption
<1>1. CASE Stale
  <2>1. UNCHANGED <<userVars, now, pc, Life>>
    BY <1>1 DEF OnTimerFired, Rearm, Suppress, Life
  <2> QED BY <2>1 DEF OneShot!timerVars, userVars
<1>2. CASE ~Stale
  <2>1. c \in Invoked /\ queuedOn = None /\ deadline # 0
    BY <1>2 DEF OnTimerFired, Stale, Invoked, ControlOK, FiringOK
  <2>2. Earliest(deadline, slack) <= now
    BY <1>2, <2>1 DEF Stale, ControlOK, DeadlineOK
  <2>3. \E w \in armedBar : w.from <= now
    <3>1. Window(deadline, slack) \in armedBar
      BY <2>1 DEF armedBar
    <3>2. Window(deadline, slack).from = Earliest(deadline, slack)
      BY DEF Window
    <3> QED BY <2>2, <3>1, <3>2
  <2>4. armedBar' = {} /\ signaled' = TRUE /\ UNCHANGED <<now, pc, Life>>
    BY <1>2 DEF OnTimerFired, armedBar, Life
  <2> QED BY <2>3, <2>4 DEF OneShot!Next, OneShot!Fire, armedBar
<1> QED BY <1>1, <1>2

LEMMA OtherRefines ==
  ASSUME \/ \E t \in Threads : Lookup(t) \/ Return(t)
         \/ RemoveHandle \/ DeleteHandle \/ TimerStep \/ Clock
         \/ \E c \in Cpus : DpcWork(c) \/ OnTimerFiredRelease(c)
         \/ UNCHANGED vars
  PROVE  OneShot!Next \/ UNCHANGED OneShot!timerVars
<1>1. ASSUME NEW t \in Threads, Lookup(t) PROVE OneShot!Next
  <2>1. OneShot!Begin(t)
    BY <1>1 DEF Lookup, userVars, OneShot!Begin, OneShot!Moves, Life
  <2> QED BY <2>1 DEF OneShot!Next
<1>2. ASSUME NEW t \in Threads, Return(t) PROVE OneShot!Next
  <2>1. OneShot!End(t)
    BY <1>2 DEF Return, userVars, OneShot!End, OneShot!Moves, Life
  <2> QED BY <2>1 DEF OneShot!Next
<1>3. CASE Clock
  BY <1>3 DEF Clock, userVars, OneShot!Next, OneShot!Elapse, Life
<1>4. CASE RemoveHandle
  <2>1. OneShot!Shut
    BY <1>4 DEF RemoveHandle, userVars, OneShot!Shut, Life
  <2> QED BY <2>1 DEF OneShot!Next
<1>5. CASE UNCHANGED <<userVars, now, pc, Life>>
  BY <1>5 DEF userVars, OneShot!timerVars
<1>6. CASE DeleteHandle
  BY <1>5, <1>6 DEF DeleteHandle, Life
<1> QED BY <1>1, <1>2, <1>3, <1>4, <1>5, <1>6
        DEF Life, TimerStep, TickErase, TimerIrqCallback,
            TickDone, DpcWork, OnTimerFiredRelease, vars

(* The timer implements the one-shot timer, but for its liveness: SIGNALED  *)
(* goes up only for the deadline in force and not before its window.        *)
THEOREM TimerIsOneShot == Spec => OneShot!Safety
<1>1. Init => OneShot!Init
  BY DEF Init, OneShot!Init, Life
<1>2. TimerInv /\ [Next]_vars => [OneShot!Next]_(OneShot!timerVars)
  <2> SUFFICES ASSUME TimerInv, [Next]_vars
               PROVE  OneShot!Next \/ UNCHANGED OneShot!timerVars
    OBVIOUS
  <2>1. ControlOK
    BY DEF TimerInv
  <2>2. ASSUME NEW t \in Threads, CallStep(t)
        PROVE  OneShot!Next \/ UNCHANGED OneShot!timerVars
    BY <2>1, <2>2, SetTimerRefines, DisarmRefines, OtherRefines DEF CallStep
  <2>3. ASSUME NEW c \in Cpus, DpcStep(c)
        PROVE  OneShot!Next \/ UNCHANGED OneShot!timerVars
    BY <2>1, <2>3, OnTimerFiredRefines, OtherRefines DEF DpcStep
  <2>4. CASE CloseStep
    BY <2>1, <2>4, DisarmRefines, OtherRefines DEF CloseStep
  <2> QED BY <2>2, <2>3, <2>4, OtherRefines DEF Next
<1> QED BY <1>1, <1>2, TimerInvariant, PTL DEF Spec, OneShot!Safety
=============================================================================
