---------------------------- MODULE MutexProofs ----------------------------
(***************************************************************************)
(* Proofs about Mutex for any set of threads.                              *)
(***************************************************************************)
EXTENDS Mutex, TLAPS

(* The thread whose word is in val_ is inside, on its way out, or has been  *)
(* woken to find itself there.                                              *)
HolderInv ==
  /\ \A t \in Threads :
       pc[t] \in {"held", "held_locked", "release", "handoff"} => holder = t
  /\ \A t \in Threads : (holder = t) =>
       pc[t] \in {"held", "held_locked", "release", "handoff", "woken"}

(* Who has the thread lock.                                                 *)
TlockInv ==
  /\ \A t \in Threads :
       pc[t] \in {"mark", "marked", "held_locked", "handoff"} => tlock = t
  /\ \A t \in Threads : (tlock = t) =>
       pc[t] \in {"mark", "marked", "held_locked", "release", "handoff"}

QueueInv == \A t \in Threads : t \in queue <=> pc[t] = "asleep"

(* Between setting the flag and sleeping, and between waking and handing    *)
(* off, the flag and the queue disagree; at all other times they agree.     *)
ContestedInv ==
  (\A t \in Threads : pc[t] \notin {"marked", "handoff"}) =>
    /\ contested <=> queue # {}
    /\ queue # {} => owner = holder
    /\ queue # {} => holder # None

MarkInv ==
  \A t \in Threads :
    /\ pc[t] = "mark" => ~contested
    /\ pc[t] = "marked" =>
         /\ contested
         /\ seen[t].holder = holder
         /\ seen[t].contested <=> queue # {}
         /\ queue # {} => owner = holder /\ holder # None

ReleaseInv ==
  \A t \in Threads :
    /\ pc[t] \in {"release", "handoff"} => val = seen[t] /\ contested
    /\ pc[t] = "handoff" =>
         /\ woken[t] \in Threads
         /\ pc[woken[t]] = "woken"
         /\ owner = IF queue = {} THEN None ELSE woken[t]

WokenInv ==
  \A w \in Threads : pc[w] = "woken" =>
    \/ holder = w
    \/ \E t \in Threads : pc[t] = "handoff" /\ woken[t] = w

Inv ==
  /\ TypeOK /\ HolderInv /\ TlockInv /\ QueueInv /\ ContestedInv
  /\ MarkInv /\ ReleaseInv /\ WokenInv
-----------------------------------------------------------------------------
LEMMA InitInv == Init => Inv
<1> SUFFICES ASSUME Init PROVE Inv
  OBVIOUS
<1>1. TypeOK
  BY DEF Init, TypeOK, States, STATE_FREE
<1>2. HolderInv /\ TlockInv /\ QueueInv /\ MarkInv /\ ReleaseInv /\ WokenInv
  BY MutexAssumption
     DEF Init, HolderInv, TlockInv, QueueInv, MarkInv, ReleaseInv, WokenInv
<1>3. ContestedInv
  BY DEF Init, ContestedInv
<1> QED BY <1>1, <1>2, <1>3 DEF Inv

LEMMA FastAcquirePreserves ==
  ASSUME Inv, NEW t \in Threads, FastAcquire(t) PROVE Inv'
  BY MutexAssumption
     DEF FastAcquire, CanAcquireFast, StoreVal, Inv, TypeOK, HolderInv,
         TlockInv, QueueInv, ContestedInv, MarkInv, ReleaseInv, WokenInv,
         States, val, STATE_FREE, Goto

LEMMA FirstAttemptFailsPreserves ==
  ASSUME Inv, NEW t \in Threads, FirstAttemptFails(t) PROVE Inv'
  BY MutexAssumption
     DEF FirstAttemptFails, CanAcquireFast, Inv, TypeOK, HolderInv, TlockInv,
         QueueInv, ContestedInv, MarkInv, ReleaseInv, WokenInv, States, val,
         STATE_FREE, Goto

LEMMA StopSpinningPreserves ==
  ASSUME Inv, NEW t \in Threads, StopSpinning(t) PROVE Inv'
  BY MutexAssumption
     DEF StopSpinning, CanAcquireFast, Inv, TypeOK, HolderInv, TlockInv,
         QueueInv, ContestedInv, MarkInv, ReleaseInv, WokenInv, States, val,
         STATE_FREE, Goto

LEMMA LoadPreserves ==
  ASSUME Inv, NEW t \in Threads, Load(t) PROVE Inv'
  BY MutexAssumption
     DEF Load, Inv, TypeOK, HolderInv, TlockInv, QueueInv, ContestedInv,
         MarkInv, ReleaseInv, WokenInv, States, val, STATE_FREE, Goto

LEMMA MarkPreserves ==
  ASSUME Inv, NEW t \in Threads, Mark(t) PROVE Inv'
<1> USE DEF Mark, FetchOr, Goto
<1>1. TypeOK'
  BY DEF Inv, TypeOK, States, val
<1>2. (HolderInv /\ TlockInv /\ QueueInv)'
  BY DEF Inv, TypeOK, HolderInv, TlockInv, QueueInv
<1>3. ContestedInv'
  BY DEF Inv, TypeOK, ContestedInv
<1>4. MarkInv'
  BY DEF Inv, TypeOK, TlockInv, ContestedInv, MarkInv, val
<1>5. (ReleaseInv /\ WokenInv)'
  BY MutexAssumption DEF Inv, TypeOK, HolderInv, TlockInv, MarkInv, ReleaseInv, WokenInv, val
<1> QED BY <1>1, <1>2, <1>3, <1>4, <1>5 DEF Inv

LEMMA TakeFreePreserves ==
  ASSUME Inv, NEW t \in Threads, TakeFree(t) PROVE Inv'
  BY MutexAssumption
     DEF TakeFree, StoreVal, Inv, TypeOK, HolderInv, TlockInv, QueueInv,
         ContestedInv, MarkInv, ReleaseInv, WokenInv, States, val,
         STATE_FREE, Goto

LEMMA BlockPreserves ==
  ASSUME Inv, NEW t \in Threads, Block(t) PROVE Inv'
  BY MutexAssumption
     DEF Block, Inv, TypeOK, HolderInv, TlockInv, QueueInv, ContestedInv,
         MarkInv, ReleaseInv, WokenInv, States, val, STATE_FREE, Goto

LEMMA ResumePreserves ==
  ASSUME Inv, NEW t \in Threads, Resume(t) PROVE Inv'
  BY MutexAssumption
     DEF Resume, Inv, TypeOK, HolderInv, TlockInv, QueueInv, ContestedInv,
         MarkInv, ReleaseInv, WokenInv, States, val, STATE_FREE, Goto

LEMMA TakeThreadLockPreserves ==
  ASSUME Inv, NEW t \in Threads, TakeThreadLock(t) PROVE Inv'
  BY MutexAssumption
     DEF TakeThreadLock, Inv, TypeOK, HolderInv, TlockInv, QueueInv,
         ContestedInv, MarkInv, ReleaseInv, WokenInv, States, val,
         STATE_FREE, Goto

LEMMA FastReleasePreserves ==
  ASSUME Inv, NEW t \in Threads, FastRelease(t) PROVE Inv'
  BY MutexAssumption
     DEF FastRelease, CanReleaseFast, StoreVal, Inv, TypeOK, HolderInv,
         TlockInv, QueueInv, ContestedInv, MarkInv, ReleaseInv, WokenInv,
         States, val, STATE_FREE, Goto

LEMMA ContestedReleasePreserves ==
  ASSUME Inv, NEW t \in Threads, ContestedRelease(t) PROVE Inv'
<1> USE DEF ContestedRelease, Goto
<1>1. holder = t /\ contested
  BY DEF Inv, TypeOK, HolderInv, CanReleaseFast, val
<1>2. TypeOK'
  BY DEF Inv, TypeOK, States, val
<1>3. (HolderInv /\ TlockInv /\ QueueInv /\ ContestedInv)'
  BY DEF Inv, TypeOK, HolderInv, TlockInv, QueueInv, ContestedInv
<1>4. (MarkInv /\ WokenInv)'
  BY DEF Inv, TypeOK, MarkInv, WokenInv
<1>5. ReleaseInv'
  <2> SUFFICES ASSUME NEW u \in Threads PROVE ReleaseInv!(u)'
    BY DEF ReleaseInv
  <2>1. CASE u = t
    BY <1>1, <2>1 DEF Inv, TypeOK, val
  <2>2. CASE u # t
    BY <1>1, <2>2 DEF Inv, TypeOK, HolderInv, ReleaseInv
  <2> QED BY <2>1, <2>2
<1> QED BY <1>2, <1>3, <1>4, <1>5 DEF Inv

LEMMA WakePreserves ==
  ASSUME Inv, NEW t \in Threads, Wake(t) PROVE Inv'
  BY MutexAssumption
     DEF Wake, Candidates, Inv, TypeOK, HolderInv, TlockInv, QueueInv,
         ContestedInv, MarkInv, ReleaseInv, WokenInv, States, val,
         STATE_FREE, Goto

LEMMA HandOffPreserves ==
  ASSUME Inv, NEW t \in Threads, HandOff(t) PROVE Inv'
<1> DEFINE w == woken[t]
<1>1. /\ val = seen[t] /\ holder = t /\ tlock = t
      /\ w \in Threads /\ w # t /\ pc[w] = "woken"
      /\ owner = IF queue = {} THEN None ELSE w
  BY DEF Inv, HandOff, HolderInv, TlockInv, ReleaseInv
<1>2. /\ holder' = w /\ contested' = (queue # {})
      /\ pc' = [pc EXCEPT ![t] = "idle"]
      /\ tlock' = None /\ queue' = queue /\ owner' = owner
      /\ seen' = [seen EXCEPT ![t] = STATE_FREE]
      /\ woken' = [woken EXCEPT ![t] = None]
  BY <1>1, MutexAssumption DEF HandOff, StoreVal, NewState, Goto
<1>3. \A u \in Threads : u # t =>
        pc[u] \notin {"held", "held_locked", "release", "handoff", "mark", "marked"}
  BY <1>1 DEF Inv, HolderInv, TlockInv
<1>4. \A u \in Threads : pc[u] = "woken" => u = w
  BY <1>1, <1>3 DEF Inv, WokenInv
<1> HIDE DEF w
<1>5. TypeOK'
  BY <1>1, <1>2 DEF Inv, TypeOK, States, STATE_FREE
<1>6. (HolderInv /\ TlockInv /\ QueueInv)'
  BY <1>1, <1>2, <1>3, MutexAssumption DEF Inv, TypeOK, HolderInv, TlockInv, QueueInv
<1>7. (ContestedInv /\ MarkInv)'
  BY <1>1, <1>2, <1>3, MutexAssumption DEF Inv, TypeOK, ContestedInv, MarkInv
<1>8. (ReleaseInv /\ WokenInv)'
  BY <1>1, <1>2, <1>3, <1>4 DEF Inv, TypeOK, ReleaseInv, WokenInv
<1> QED BY <1>5, <1>6, <1>7, <1>8 DEF Inv

-----------------------------------------------------------------------------
LEMMA StepInv == Inv /\ [Next]_vars => Inv'
<1> SUFFICES ASSUME Inv, [Next]_vars PROVE Inv'
  OBVIOUS
<1>1. CASE UNCHANGED vars
  BY <1>1 DEF vars, Inv, TypeOK, HolderInv, TlockInv, QueueInv, ContestedInv,
         MarkInv, ReleaseInv, WokenInv, val
<1>2. CASE Next
  <2> PICK t \in Threads :
        \/ FastAcquire(t) \/ FirstAttemptFails(t) \/ StopSpinning(t)
        \/ Load(t) \/ Mark(t) \/ TakeFree(t) \/ Block(t) \/ Resume(t)
        \/ TakeThreadLock(t) \/ Releasing(t)
    BY <1>2 DEF Next
  <2> QED
    BY FastAcquirePreserves, FirstAttemptFailsPreserves, StopSpinningPreserves,
       LoadPreserves, MarkPreserves, TakeFreePreserves, BlockPreserves,
       ResumePreserves, TakeThreadLockPreserves, FastReleasePreserves,
       ContestedReleasePreserves, WakePreserves, HandOffPreserves
       DEF Releasing
<1> QED BY <1>1, <1>2

(* The invariant holds of every state the mutex reaches.                    *)
THEOREM InvariantHolds == Spec => []Inv
  BY InitInv, StepInv, PTL DEF Spec

(* Every variable keeps its type, and no thread reaches the panics of       *)
(* Mutex::ReleaseInternal.                                                  *)
THEOREM TypeCorrect == Spec => []TypeOK
<1>1. Inv => TypeOK
  BY DEF Inv
<1> QED BY <1>1, InvariantHolds, PTL

(* A release that finds the mutex contested replaces the word it found.     *)
THEOREM ReleaseNeverPanics == Spec => []NoPanic
<1>1. Inv => NoPanic
  <2> SUFFICES ASSUME Inv, NEW t \in Threads PROVE NoPanic!(t)
    BY DEF NoPanic
  <2>1. pc[t] # "panic"
    BY DEF Inv, TypeOK
  <2>2. pc[t] \in {"release", "handoff"} =>
          val = seen[t] /\ val = [holder |-> t, contested |-> TRUE]
    BY DEF Inv, TypeOK, HolderInv, ReleaseInv, val
  <2> QED BY <2>1, <2>2
<1> QED BY <1>1, InvariantHolds, PTL

(* With the thread lock free, the flag says whether anybody waits.          *)
THEOREM ContestedMeansWaiters == Spec => []SomebodyToWake
<1>1. Inv => SomebodyToWake
  BY MutexAssumption DEF Inv, SomebodyToWake, TlockInv, ContestedInv
<1> QED BY <1>1, InvariantHolds, PTL

(* The thread a release has woken holds the mutex when it runs.             *)
THEOREM WokenIsHolder == Spec => []WokenHolds
<1>1. Inv => WokenHolds
  BY MutexAssumption DEF Inv, WokenHolds, WokenInv, TlockInv
<1> QED BY <1>1, InvariantHolds, PTL
-----------------------------------------------------------------------------
(* Nobody else is inside when a thread gets in.                             *)
LEMMA NobodyInside ==
  ASSUME Inv, NEW t \in Threads, holder = None \/ (holder = t /\ pc[t] = "woken")
  PROVE  Holding = {}
  BY MutexAssumption DEF Inv, HolderInv, Holding

LEMMA StepRefines == Inv /\ [Next]_vars => [Lock!Next]_(Lock!lockVars)
<1> SUFFICES ASSUME Inv, [Next]_vars PROVE [Lock!Next]_(Lock!lockVars)
  OBVIOUS
<1> USE DEF Lock!lockVars
<1>1. CASE UNCHANGED vars
  BY <1>1 DEF vars, Holding
<1>2. ASSUME NEW t \in Threads, Holding = {}, pc' = [pc EXCEPT ![t] = "held"]
      PROVE  Lock!Next
  <2>1. Holding' = {t}
    BY <1>2 DEF Inv, TypeOK, Holding
  <2> QED BY <1>2, <2>1 DEF Lock!Next, Lock!EnterWrite
<1>3. ASSUME NEW t \in Threads, NEW label \in {"idle", "release"},
             pc[t] \in {"held", "held_locked"}, pc' = [pc EXCEPT ![t] = label]
      PROVE  Lock!Next
  <2>1. Holding' = Holding \ {t} /\ t \in Holding
    BY <1>3 DEF Inv, TypeOK, Holding
  <2> QED BY <2>1 DEF Lock!Next, Lock!LeaveWrite
<1>4. ASSUME NEW t \in Threads,
             \A u \in Threads : (pc[u] \in {"held", "held_locked"}) =
                                (pc'[u] \in {"held", "held_locked"})
      PROVE  UNCHANGED Lock!lockVars
  BY <1>4 DEF Holding
<1>5. CASE Next
  <2> PICK t \in Threads :
        \/ FastAcquire(t) \/ FirstAttemptFails(t) \/ StopSpinning(t)
        \/ Load(t) \/ Mark(t) \/ TakeFree(t) \/ Block(t) \/ Resume(t)
        \/ TakeThreadLock(t) \/ Releasing(t)
    BY <1>5 DEF Next
  <2>1. CASE FastAcquire(t)
    <3>1. holder = None
      BY <2>1 DEF FastAcquire, CanAcquireFast, val, STATE_FREE
    <3> QED BY <2>1, <3>1, <1>2, NobodyInside DEF FastAcquire, Goto
  <2>2. CASE TakeFree(t)
    <3>1. holder = None
      BY <2>2 DEF TakeFree, Inv, MarkInv, STATE_FREE
    <3> QED BY <2>2, <3>1, <1>2, NobodyInside DEF TakeFree, Goto
  <2>3. CASE Resume(t)
    <3>1. holder = t
      BY <2>3, MutexAssumption DEF Resume, Inv, WokenInv, TlockInv
    <3> QED BY <2>3, <3>1, <1>2, NobodyInside DEF Resume, Goto
  <2>4. CASE FastRelease(t)
    BY <2>4, <1>3 DEF FastRelease, Goto
  <2>5. CASE ContestedRelease(t)
    BY <2>5, <1>3 DEF ContestedRelease, Goto
  <2>6. CASE Wake(t)
    <3>1. \A u \in Threads : (pc[u] \in {"held", "held_locked"}) =
                             (pc'[u] \in {"held", "held_locked"})
      BY <2>6 DEF Wake, Inv, TypeOK, QueueInv
    <3> QED BY <3>1, <1>4
  <2>7. CASE HandOff(t)
    <3>1. \A u \in Threads : (pc[u] \in {"held", "held_locked"}) =
                             (pc'[u] \in {"held", "held_locked"})
      BY <2>7 DEF HandOff, Goto, Inv, TypeOK
    <3> QED BY <3>1, <1>4
  <2>8. CASE FirstAttemptFails(t) \/ StopSpinning(t) \/ Load(t) \/ Mark(t) \/ Block(t)
               \/ TakeThreadLock(t)
    <3>1. \A u \in Threads : (pc[u] \in {"held", "held_locked"}) =
                             (pc'[u] \in {"held", "held_locked"})
      BY <2>8 DEF FirstAttemptFails, StopSpinning, Load, Mark, Block, TakeThreadLock,
                  Goto, Inv, TypeOK
    <3> QED BY <3>1, <1>4
  <2> QED BY <2>1, <2>2, <2>3, <2>4, <2>5, <2>6, <2>7, <2>8 DEF Releasing
<1> QED BY <1>1, <1>5

(* The mutex implements the lock its clients rely on: at most one thread is *)
(* between a return of Acquire and its Release, for any number of threads.  *)
THEOREM MutexIsALock == Spec => MutualExclusion
<1>1. Init => Lock!Init
  BY DEF Init, Lock!Init, Holding
<1>2. Inv /\ [Next]_vars => [Lock!Next]_(Lock!lockVars)
  BY StepRefines
<1> QED BY <1>1, <1>2, InvariantHolds, PTL DEF Spec, MutualExclusion, Lock!Spec
=============================================================================
