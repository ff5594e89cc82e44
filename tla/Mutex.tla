------------------------------- MODULE Mutex -------------------------------
(***************************************************************************)
(* The blocking mutex of the kernel (kernel/mutex.cc, kernel/mutex.h).     *)
(*                                                                         *)
(* One word holds the holder and the flag CONTESTED.  An uncontested mutex *)
(* is taken and released with a compare-and-exchange and no lock at all;   *)
(* the flag is set and cleared only under the thread lock, where threads   *)
(* enter and leave the wait queue.  While a thread is between the two      *)
(* halves of a contested operation, others use the fast paths.             *)
(***************************************************************************)
EXTENDS Integers, FiniteSets

CONSTANTS
  Threads,
  None

ASSUME MutexAssumption == None \notin Threads

VARIABLES
  holder,      \* the pointer in val_
  contested,   \* STATE_FLAG_CONTESTED in val_
  queue,       \* wait_: which thread it wakes first is left to the scheduler
  owner,       \* wait_.owner(), the thread that inherits priority
  tlock,       \* the thread that holds the thread lock
  pc,
  seen,        \* old_mutex_state of the operation in progress
  woken        \* the local of ReleaseInternal (both are reset at the end)

vars == <<holder, contested, queue, owner, tlock, pc, seen, woken>>

val == [holder |-> holder, contested |-> contested]
STATE_FREE == [holder |-> None, contested |-> FALSE]

(* Set the word to v.                                                       *)
StoreVal(v) == holder' = v.holder /\ contested' = v.contested

Init ==
  /\ holder = None
  /\ contested = FALSE
  /\ queue = {}
  /\ owner = None
  /\ tlock = None
  /\ pc = [t \in Threads |-> "idle"]
  /\ seen = [t \in Threads |-> STATE_FREE]
  /\ woken = [t \in Threads |-> None]

Goto(t, label) == pc' = [pc EXCEPT ![t] = label]
-----------------------------------------------------------------------------
NoHolder(t) == holder = None

CanAcquireFast(t) == val = STATE_FREE

(* The fast paths of Acquire: the first attempt and those of the spin loop. *)
FastAcquire(t) ==
  /\ pc[t] \in {"idle", "spin"}
  /\ CanAcquireFast(t)
  /\ StoreVal([holder |-> t, contested |-> FALSE])
  /\ Goto(t, "held")
  /\ UNCHANGED <<queue, owner, tlock, seen, woken>>

FirstAttemptFails(t) ==
  /\ pc[t] = "idle"
  /\ ~CanAcquireFast(t)
  /\ Goto(t, "spin")
  /\ UNCHANGED <<holder, contested, queue, owner, tlock, seen, woken>>

(* The loop ends when the mutex is contested or the spin time is over.      *)
StopSpinning(t) ==
  /\ pc[t] = "spin"
  /\ ~CanAcquireFast(t)
  /\ Goto(t, "slow")
  /\ UNCHANGED <<holder, contested, queue, owner, tlock, seen, woken>>

(* Under the thread lock: look at the word, ...                             *)
Load(t) ==
  /\ pc[t] = "slow"
  /\ tlock = None
  /\ tlock' = t
  /\ seen' = [seen EXCEPT ![t] = val]
  /\ Goto(t, IF contested THEN "marked" ELSE "mark")
  /\ UNCHANGED <<holder, contested, queue, owner, woken>>

StaleLoad(t) == seen[t]

(* ... what the fetch_or returns, ...                                       *)
FetchOr(t) == val

(* ... set the flag if it is not set; the holder may have left since, ...   *)
Mark(t) ==
  /\ pc[t] = "mark"
  /\ seen' = [seen EXCEPT ![t] = FetchOr(t)]
  /\ contested' = TRUE
  /\ Goto(t, "marked")
  /\ UNCHANGED <<holder, queue, owner, tlock, woken>>

(* ... in which case the mutex is ours and the flag comes off again, ...    *)
TakeFree(t) ==
  /\ pc[t] = "marked"
  /\ seen[t] = STATE_FREE
  /\ StoreVal([holder |-> t, contested |-> FALSE])
  /\ tlock' = None
  /\ Goto(t, "held")
  /\ UNCHANGED <<queue, owner, seen, woken>>

(* ... or sleep, and lend our priority to the holder.                       *)
Block(t) ==
  /\ pc[t] = "marked"
  /\ seen[t] # STATE_FREE
  /\ queue' = queue \cup {t}
  /\ owner' = seen[t].holder
  /\ tlock' = None
  /\ Goto(t, "asleep")
  /\ seen' = [seen EXCEPT ![t] = STATE_FREE]
  /\ UNCHANGED <<holder, contested, woken>>

(* A woken thread runs when its waker has dropped the thread lock, and      *)
(* holds the mutex.                                                         *)
Resume(t) ==
  /\ pc[t] = "woken"
  /\ tlock = None
  /\ Goto(t, "held")
  /\ UNCHANGED <<holder, contested, queue, owner, tlock, seen, woken>>
-----------------------------------------------------------------------------
(* A caller of ReleaseThreadLocked has the thread lock already.             *)
TakeThreadLock(t) ==
  /\ pc[t] = "held"
  /\ tlock = None
  /\ tlock' = t
  /\ Goto(t, "held_locked")
  /\ UNCHANGED <<holder, contested, queue, owner, seen, woken>>

HeldByUs(t) == holder = t

CanReleaseFast(t) == val = [holder |-> t, contested |-> FALSE]

FastRelease(t) ==
  /\ pc[t] \in {"held", "held_locked"}
  /\ CanReleaseFast(t)
  /\ StoreVal(STATE_FREE)
  /\ tlock' = IF tlock = t THEN None ELSE tlock
  /\ Goto(t, "idle")
  /\ UNCHANGED <<queue, owner, seen, woken>>

(* The compare-and-exchange has failed and returned the word.               *)
ContestedRelease(t) ==
  /\ pc[t] \in {"held", "held_locked"}
  /\ ~CanReleaseFast(t)
  /\ seen' = [seen EXCEPT ![t] = val]
  /\ Goto(t, "release")
  /\ UNCHANGED <<holder, contested, queue, owner, tlock, woken>>

(* WakeThreads(1) under the thread lock.  The hook is what sets woken, so   *)
(* with nobody to wake it has whatever value it happens to have.            *)
Candidates == IF queue = {} THEN Threads \cup {None} ELSE queue

Wake(t) ==
  /\ pc[t] = "release"
  /\ tlock \in {None, t}
  /\ tlock' = t
  /\ \E w \in Candidates :
       /\ queue' = queue \ {w}
       /\ owner' = IF queue \ {w} = {} THEN None ELSE w
       /\ woken' = [woken EXCEPT ![t] = w]
       /\ pc' = [u \in Threads |-> IF u = t THEN "handoff"
                                   ELSE IF u = w /\ w \in queue THEN "woken" ELSE pc[u]]
  /\ UNCHANGED <<holder, contested, seen>>

(* The word that hands the mutex to w.                                      *)
NewState(w) == [holder |-> w, contested |-> w # None /\ queue # {}]

(* The last compare-and-exchange; the kernel panics when it fails.          *)
HandOff(t) ==
  /\ pc[t] = "handoff"
  /\ IF val = seen[t]
       THEN StoreVal(NewState(woken[t])) /\ Goto(t, "idle")
       ELSE UNCHANGED <<holder, contested>> /\ Goto(t, "panic")
  /\ tlock' = None
  /\ seen' = [seen EXCEPT ![t] = STATE_FREE]
  /\ woken' = [woken EXCEPT ![t] = None]
  /\ UNCHANGED <<queue, owner>>
-----------------------------------------------------------------------------
Acquiring(t) ==
  \/ FastAcquire(t) /\ pc[t] = "spin"
  \/ StopSpinning(t) \/ Load(t) \/ Mark(t) \/ TakeFree(t) \/ Block(t) \/ Resume(t)

Releasing(t) == FastRelease(t) \/ ContestedRelease(t) \/ Wake(t) \/ HandOff(t)

Next ==
  \E t \in Threads :
    \/ FastAcquire(t) \/ FirstAttemptFails(t) \/ StopSpinning(t)
    \/ Load(t) \/ Mark(t) \/ TakeFree(t) \/ Block(t) \/ Resume(t)
    \/ TakeThreadLock(t) \/ Releasing(t)

Spec == Init /\ [][Next]_vars

(* Threads run and holders release.  The thread lock may pass a thread by,  *)
(* so that fairness is weak.                                                *)
FairSpec ==
  /\ Spec
  /\ \A t \in Threads : WF_vars(Acquiring(t) \/ Releasing(t))
-----------------------------------------------------------------------------
(* The two sets SharedLock speaks of.                                       *)
Holding == {t \in Threads : pc[t] \in {"held", "held_locked"}}

Lock == INSTANCE SharedLock WITH readers <- {}, writers <- Holding

States == [holder : Threads \cup {None}, contested : BOOLEAN]

TypeOK ==
  /\ holder \in Threads \cup {None}
  /\ contested \in BOOLEAN
  /\ queue \in SUBSET Threads
  /\ owner \in Threads \cup {None}
  /\ tlock \in Threads \cup {None}
  /\ pc \in [Threads -> {"idle", "spin", "slow", "mark", "marked", "asleep", "woken",
                         "held", "held_locked", "release", "handoff"}]
  /\ seen \in [Threads -> States]
  /\ woken \in [Threads -> Threads \cup {None}]

(* The mutex is a lock: Acquire returns to one thread at a time, whichever  *)
(* of the fast path, the raced release and the hand-off got it in.          *)
MutualExclusion == Lock!Spec

(* No release panics: whatever came between its two compare-and-exchanges,  *)
(* the word a contested release found is the word it replaces.              *)
NoPanic ==
  \A t \in Threads :
    /\ pc[t] # "panic"
    /\ pc[t] \in {"release", "handoff"} =>
         val = seen[t] /\ val = [holder |-> t, contested |-> TRUE]

(* A contested mutex has a waiter whenever the thread lock is free: the     *)
(* release that takes the slow path finds a thread to wake, so the local    *)
(* woken, which is not initialized, is always set before it is read.        *)
SomebodyToWake ==
  tlock = None => /\ contested <=> queue # {}
                  /\ queue # {} => owner = holder

(* The thread that was woken finds itself the holder.                       *)
WokenHolds == \A t \in Threads : (pc[t] = "woken" /\ tlock = None) => holder = t

(* A mutex that is free while threads want it is taken in the end: no       *)
(* release leaves the threads in the queue behind.  Which of them gets it,  *)
(* and whether others pass it by, is up to the scheduler.                   *)
Wanting == {t \in Threads : pc[t] # "idle"} \ Holding

TakenAgain == (Holding = {} /\ Wanting # {}) ~> Holding # {}
=============================================================================
