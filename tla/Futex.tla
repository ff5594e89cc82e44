------------------------------- MODULE Futex -------------------------------
(***************************************************************************)
(* The futexes of a process: FutexContext (object/futex_context.cc and .h) *)
(* with the owned wait queues of its FutexStates                           *)
(* (kernel/owned_wait_queue.cc) and the threads that use them.             *)
(*                                                                         *)
(* A FutexState exists only while an operation refers to it: operations    *)
(* take a FutexState from a pool, count themselves in                      *)
(* pending_operation_count_ and return it with the last reference.  Three  *)
(* locks are involved: the pool lock (each step below that reads or writes *)
(* count or free is one critical section), the lock of the FutexState      *)
(* (lock) and the thread lock, under which queues and owners change.       *)
(*                                                                         *)
(* A woken thread leaves the kernel at once; its reference is released by  *)
(* the thread that woke it.  A thread that times out has to find out which *)
(* futex it is on, since a requeue may have moved it.                      *)
(***************************************************************************)
EXTENDS Integers, FiniteSets, FiniteSetsExt

CONSTANTS
  Threads,
  Futexes,
  WakeCounts,      \* wake_count and requeue_count of the system calls
  RequeueActions,  \* OwnerAction of the requeues: "RELEASE", "ASSIGN_WOKEN"
  None

ASSUME FutexAssumption ==
  /\ IsFiniteSet(Threads)
  /\ WakeCounts \subseteq Nat
  /\ RequeueActions \subseteq {"RELEASE", "ASSIGN_WOKEN"}
  /\ None \notin Threads \cup Futexes

VARIABLES
  value,      \* the integer in user memory
  count,      \* pending_operation_count_; 0 is an id that is not active
  free,       \* the length of free_futexes_
  waiters,    \* the threads in the wait queue; the order in which the
              \* scheduler prefers them is left open
  owner,      \* OwnedWaitQueue::owner_
  lock,       \* the thread that holds the lock of the FutexState
  blocking,   \* blocking_futex_id_ of each thread
  pc,
  arg,        \* the arguments of the system call; a sleeping thread's are
              \* history, dropped when it is moved to another futex
  rel         \* the references to each futex that the call has still to
              \* release, in any order

userVars == <<value>>
poolVars == <<count, free>>
queueVars == <<waiters, owner, lock, blocking>>
threadVars == <<pc, arg, rel>>
vars == <<userVars, poolVars, queueVars, threadVars>>

NoArg == [op |-> "none"]

NoRefs == [f \in Futexes |-> 0]

Init ==
  /\ value = [f \in Futexes |-> 0]
  /\ count = [f \in Futexes |-> 0]
  /\ free = 0
  /\ waiters = [f \in Futexes |-> {}]
  /\ owner = [f \in Futexes |-> None]
  /\ lock = [f \in Futexes |-> None]
  /\ blocking = [t \in Threads |-> None]
  /\ pc = [t \in Threads |-> "unborn"]
  /\ arg = [t \in Threads |-> NoArg]
  /\ rel = [t \in Threads |-> NoRefs]
-----------------------------------------------------------------------------
Goto(t, label) == pc' = [pc EXCEPT ![t] = label]

Live(t) == pc[t] \notin {"unborn", "dead", "gone"}

All == Cardinality(Threads)

StatesPerCall == 1

(* The FutexStates that each thread adds to the pool.                       *)
StatesPerThread == 2

(* ThreadDispatcher::Initialize and GrowFutexStatePool.                     *)
Create(t) ==
  /\ pc[t] = "unborn"
  /\ free' = free + StatesPerThread
  /\ Goto(t, "idle")
  /\ UNCHANGED <<userVars, count, queueVars, arg, rel>>

(* OwnedWaitQueue::DisownAllQueues of a thread that exits.                  *)
DisownAllQueues(t) == [f \in Futexes |-> IF owner[f] = t THEN None ELSE owner[f]]

Exit(t) ==
  /\ pc[t] = "idle"
  /\ owner' = DisownAllQueues(t)
  /\ Goto(t, "dead")
  /\ UNCHANGED <<userVars, poolVars, waiters, lock, blocking, arg, rel>>

(* ~ThreadDispatcher and ShrinkFutexStatePool, once no call names the       *)
(* thread as an owner.                                                      *)
Destroy(t) ==
  /\ pc[t] = "dead"
  /\ \A u \in Threads : arg[u].op \in {"wait", "requeue"} => arg[u].owner # t
  /\ free' = free - StatesPerThread
  /\ Goto(t, "gone")
  /\ UNCHANGED <<userVars, count, queueVars, arg, rel>>

(* The program changes a futex and will then wake its waiters.              *)
Store(t, f) ==
  /\ pc[t] = "idle"
  /\ value' = [value EXCEPT ![f] = 1 - @]
  /\ arg' = [arg EXCEPT ![t] = [op |-> "wake", f |-> f, wake |-> All, action |-> "RELEASE"]]
  /\ Goto(t, "stored")
  /\ UNCHANGED <<poolVars, queueVars, rel>>
-----------------------------------------------------------------------------
(* FindActiveFutex and ActivateFutex, of every futex in fs.                 *)
Activate(fs) ==
  /\ count' = [f \in Futexes |-> IF f \in fs THEN count[f] + 1 ELSE count[f]]
  /\ free' = free - Cardinality({f \in fs : count[f] = 0})

(* ValidateFutexOwner drops an owner that is dying.                         *)
ValidateFutexOwner(o) == IF o # None /\ ~Live(o) THEN None ELSE o

(* FutexWait up to the lock of the futex.  The code also takes the lock of  *)
(* the owner's ThreadDispatcher, until the thread blocks; here that owner   *)
(* may go on meanwhile, which allows more than the code does.               *)
Wait(t, f, expect, o) ==
  /\ pc[t] = "idle"
  /\ o # None => pc[o] # "unborn" /\ pc[o] # "gone"
  /\ Activate({f})
  /\ arg' = [arg EXCEPT ![t] = [op |-> "wait", f |-> f, expect |-> expect,
                                owner |-> ValidateFutexOwner(o)]]
  /\ Goto(t, "activated")
  /\ UNCHANGED <<userVars, queueVars, rel>>

(* The new owner may not be a waiter of the futexes, nor be about to wait.  *)
OwnerAllowed(t, o, fs) == o # None => o # t /\ blocking[o] \notin fs

(* The value and the owner are right: the thread keeps the lock and will    *)
(* block.                                                                   *)
WaitCheck(t) ==
  /\ pc[t] = "activated"
  /\ LET f == arg[t].f IN
       /\ lock[f] = None
       /\ value[f] = arg[t].expect
       /\ OwnerAllowed(t, arg[t].owner, {f})
       /\ lock' = [lock EXCEPT ![f] = t]
       /\ blocking' = [blocking EXCEPT ![t] = f]
  /\ Goto(t, "checked")
  /\ UNCHANGED <<userVars, poolVars, waiters, owner, arg, rel>>

(* The call returns with one reference to each of fs.                       *)
Leave(t, fs) ==
  /\ Goto(t, "release")
  /\ arg' = [arg EXCEPT ![t] = NoArg]
  /\ rel' = [rel EXCEPT ![t] = [f \in Futexes |-> IF f \in fs THEN 1 ELSE 0]]

(* ZX_ERR_BAD_STATE or ZX_ERR_INVALID_ARGS.  What ValidateFutexOwner had to *)
(* object to in the owner's handle is returned from the same place, with    *)
(* the same consequence, and is not told apart.                             *)
WaitFails(t) ==
  /\ pc[t] = "activated"
  /\ LET f == arg[t].f IN
       /\ lock[f] = None
       /\ \/ value[f] # arg[t].expect
          \/ ~OwnerAllowed(t, arg[t].owner, {f})
       /\ Leave(t, {f})
  /\ UNCHANGED <<userVars, poolVars, queueVars>>

AsGiven(o) == o

(* A thread that has died in the meantime cannot become the owner.          *)
NewOwner(o) == IF o # None /\ ~Live(o) THEN None ELSE o

(* BlockAndAssignOwner; the futex lock is traded for the thread lock, so    *)
(* that no wake comes between.                                              *)
Block(t) ==
  /\ pc[t] = "checked"
  /\ LET f == arg[t].f IN
       /\ waiters' = [waiters EXCEPT ![f] = @ \cup {t}]
       /\ owner' = [owner EXCEPT ![f] = NewOwner(arg[t].owner)]
       /\ lock' = [lock EXCEPT ![f] = None]
  /\ arg' = [arg EXCEPT ![t].owner = None]
  /\ Goto(t, "blocked")
  /\ UNCHANGED <<userVars, poolVars, blocking, rel>>

(* BlockEtcPreamble refuses: the deadline has passed or the thread is to    *)
(* die or to be suspended.  The owner is assigned all the same.             *)
BlockFails(t) ==
  /\ pc[t] = "checked"
  /\ LET f == arg[t].f IN
       /\ owner' = [owner EXCEPT ![f] = NewOwner(arg[t].owner)]
       /\ lock' = [lock EXCEPT ![f] = None]
  /\ arg' = [arg EXCEPT ![t] = NoArg]
  /\ Goto(t, "removed")
  /\ UNCHANGED <<userVars, poolVars, waiters, blocking, rel>>

(* A timeout, a kill or a suspend takes a blocked thread off its queue.     *)
Unblock(t) ==
  /\ pc[t] = "blocked"
  /\ waiters' = [f \in Futexes |-> waiters[f] \ {t}]
  /\ arg' = [arg EXCEPT ![t] = NoArg]
  /\ Goto(t, "removed")
  /\ UNCHANGED <<userVars, poolVars, owner, lock, blocking, rel>>

(* FindActiveFutex of the futex the thread was on, which need not be the    *)
(* one it went to sleep on: a second reference.                             *)
FindBlocking(t) ==
  /\ pc[t] = "removed"
  /\ Activate({blocking[t]})
  /\ blocking' = [blocking EXCEPT ![t] = None]
  /\ rel' = [rel EXCEPT ![t] = [NoRefs EXCEPT ![blocking[t]] = 2]]
  /\ Goto(t, "found")
  /\ UNCHANGED <<userVars, waiters, owner, lock, arg>>

OwnerKept(f) == owner[f]

OwnerAfterTimeout(f) == IF waiters[f] = {} THEN None ELSE owner[f]

(* The last waiter to leave takes the owner with it.                        *)
ClearOwner(t) ==
  /\ pc[t] = "found"
  /\ \E f \in Futexes : /\ rel[t][f] > 0
                        /\ owner' = [owner EXCEPT ![f] = OwnerAfterTimeout(f)]
  /\ Goto(t, "release")
  /\ UNCHANGED <<userVars, poolVars, waiters, lock, blocking, arg, rel>>

(* PendingOpRef::Release; with the last one the FutexState is free again.   *)
Release(t) ==
  /\ pc[t] = "release"
  /\ \E f \in Futexes :
       /\ rel[t][f] > 0
       /\ count' = [count EXCEPT ![f] = @ - rel[t][f]]
       /\ free' = IF count'[f] = 0 THEN free + 1 ELSE free
       /\ rel' = [rel EXCEPT ![t][f] = 0]
  /\ Goto(t, IF rel'[t] = NoRefs THEN "idle" ELSE "release")
  /\ UNCHANGED <<userVars, queueVars, arg>>
-----------------------------------------------------------------------------
WakeCall(t, f, n, action) ==
  /\ pc[t] = "idle"
  /\ arg' = [arg EXCEPT ![t] = [op |-> "wake", f |-> f, wake |-> n, action |-> action]]
  /\ count[f] > 0
  /\ Activate({f})
  /\ Goto(t, "wake")
  /\ UNCHANGED <<userVars, queueVars, rel>>

(* The wake that a store calls for.                                         *)
WakeAfterStore(t) ==
  /\ pc[t] = "stored"
  /\ IF count[arg[t].f] > 0
       THEN Activate({arg[t].f}) /\ Goto(t, "wake") /\ UNCHANGED arg
       ELSE /\ UNCHANGED poolVars
            /\ Goto(t, "idle")
            /\ arg' = [arg EXCEPT ![t] = NoArg]
  /\ UNCHANGED <<userVars, queueVars, rel>>

(* The sets of n threads, or of all when there are fewer.                   *)
Chosen(q, n) == {S \in SUBSET q : Cardinality(S) = Min({n, Cardinality(q)})}

(* WakeThreadsInternal: the woken thread becomes the owner if others are    *)
(* left in the queue.                                                       *)
WakeOwner(S, rest, action) ==
  IF action = "ASSIGN_WOKEN" /\ S # {} /\ rest # {}
    THEN CHOOSE t \in S : TRUE
    ELSE None

Forget(S) == [u \in Threads |-> IF u \in S THEN NoArg ELSE arg[u]]

(* The reference of the call and those of the threads it has woken.         *)
WakeRefs(S) == 1 + Cardinality(S)

ResetBlockingFutexId(S) ==
  [u \in Threads |-> IF u \in S THEN None ELSE blocking[u]]

NoWakeLock(f) == TRUE

(* A wake takes the lock that a waiter holds from its check of the value to *)
(* the queue.                                                               *)
WakeLock(f) == lock[f] = None

FutexWake(t) ==
  /\ pc[t] = "wake"
  /\ LET f == arg[t].f IN
       /\ WakeLock(f)
       /\ \E S \in Chosen(waiters[f], arg[t].wake) :
            /\ waiters' = [waiters EXCEPT ![f] = @ \ S]
            /\ owner' = [owner EXCEPT ![f] = WakeOwner(S, waiters[f] \ S, arg[t].action)]
            /\ blocking' = ResetBlockingFutexId(S)
            /\ pc' = [u \in Threads |-> IF u \in S THEN "idle"
                                        ELSE IF u = t THEN "release" ELSE pc[u]]
            /\ arg' = Forget(S \cup {t})
            /\ rel' = [rel EXCEPT ![t] = [NoRefs EXCEPT ![f] = WakeRefs(S)]]
  /\ UNCHANGED <<userVars, poolVars, lock>>
-----------------------------------------------------------------------------
(* FutexRequeue up to the locks.                                            *)
RequeueCall(t, f, g, n, m, expect, o, action) ==
  /\ pc[t] = "idle"
  /\ f # g
  /\ o # None => pc[o] # "unborn" /\ pc[o] # "gone"
  /\ action = "ASSIGN_WOKEN" => n = 1
  /\ Activate({f, g})
  /\ arg' = [arg EXCEPT ![t] =
               [op |-> "requeue", f |-> f, g |-> g, wake |-> n, requeue |-> m,
                expect |-> expect, owner |-> ValidateFutexOwner(o), action |-> action]]
  /\ Goto(t, "requeue")
  /\ UNCHANGED <<userVars, queueVars, rel>>

RequeueAllowed(t) ==
  /\ value[arg[t].f] = arg[t].expect
  /\ arg[t].owner # None => blocking[arg[t].owner] \notin {arg[t].f, arg[t].g}

RequeueCheck(t) ==
  /\ pc[t] = "requeue"
  /\ lock[arg[t].f] = None /\ lock[arg[t].g] = None
  /\ RequeueAllowed(t)
  /\ lock' = [lock EXCEPT ![arg[t].f] = t, ![arg[t].g] = t]
  /\ Goto(t, "requeue_checked")
  /\ UNCHANGED <<userVars, poolVars, waiters, owner, blocking, arg, rel>>

RequeueFails(t) ==
  /\ pc[t] = "requeue"
  /\ lock[arg[t].f] = None /\ lock[arg[t].g] = None
  /\ ~RequeueAllowed(t)
  /\ Leave(t, {arg[t].f, arg[t].g})
  /\ UNCHANGED <<userVars, poolVars, queueVars>>

RefsStay(f, g, k) == count

(* PendingOpRef::TakeRefs: the references of the requeued threads.          *)
TakeRefs(f, g, k) == [count EXCEPT ![f] = @ - k, ![g] = @ + k]

(* WakeAndRequeue, or WakeThreads and AssignOwner when requeue_count is 0.  *)
(* The owner of the futex that was woken from is chosen before the requeue. *)
FutexRequeue(t) ==
  /\ pc[t] = "requeue_checked"
  /\ LET f == arg[t].f
         g == arg[t].g
     IN  \E S \in Chosen(waiters[f], arg[t].wake) :
         \E R \in Chosen(waiters[f] \ S, arg[t].requeue) :
           /\ waiters' = [waiters EXCEPT ![f] = (@ \ S) \ R, ![g] = @ \cup R]
           /\ owner' = [owner EXCEPT
                ![f] = WakeOwner(S, waiters[f] \ S, arg[t].action),
                ![g] = IF waiters[g] \cup R = {} THEN None ELSE NewOwner(arg[t].owner)]
           /\ blocking' = [u \in Threads |-> IF u \in R THEN g ELSE ResetBlockingFutexId(S)[u]]
           /\ count' = TakeRefs(f, g, Cardinality(R))
           /\ lock' = [lock EXCEPT ![f] = None, ![g] = None]
           /\ pc' = [u \in Threads |-> IF u \in S THEN "idle"
                                       ELSE IF u = t THEN "release" ELSE pc[u]]
           /\ arg' = Forget(S \cup R \cup {t})
           /\ rel' = [rel EXCEPT ![t] = [NoRefs EXCEPT ![g] = 1, ![f] = WakeRefs(S)]]
  /\ UNCHANGED <<userVars, free>>

(* FutexGetOwner of an active futex, which it keeps active while it looks.  *)
GetOwnerCall(t, f) ==
  /\ pc[t] = "idle"
  /\ count[f] > 0
  /\ Activate({f})
  /\ Leave(t, {f})
  /\ UNCHANGED <<userVars, queueVars>>
-----------------------------------------------------------------------------
(* Steps of a thread that is in the kernel and not blocked.                 *)
InCall(t) ==
  \/ WaitCheck(t) \/ WaitFails(t) \/ Block(t) \/ BlockFails(t)
  \/ FindBlocking(t) \/ ClearOwner(t) \/ Release(t)
  \/ FutexWake(t) \/ RequeueCheck(t) \/ RequeueFails(t) \/ FutexRequeue(t)

Call(t) ==
  \/ \E f \in Futexes, expect \in {0, 1}, o \in Threads \cup {None} : Wait(t, f, expect, o)
  \/ \E f \in Futexes, n \in WakeCounts : WakeCall(t, f, n, "RELEASE")
  \/ \E f \in Futexes : WakeCall(t, f, 1, "ASSIGN_WOKEN")
  \/ \E f, g \in Futexes, n, m \in WakeCounts, expect \in {0, 1},
        o \in Threads \cup {None}, action \in RequeueActions :
       RequeueCall(t, f, g, n, m, expect, o, action)
  \/ \E f \in Futexes : GetOwnerCall(t, f)

Next ==
  \E t \in Threads :
    \/ Create(t) \/ Exit(t) \/ Destroy(t)
    \/ Call(t) \/ InCall(t) \/ Unblock(t)
    \/ WakeAfterStore(t)
    \/ \E f \in Futexes : Store(t, f)

Spec == Init /\ [][Next]_vars
-----------------------------------------------------------------------------
WaitArgs ==
  [op : {"wait"}, f : Futexes, expect : {0, 1}, owner : Threads \cup {None}]

WakeArgs ==
  [op : {"wake"}, f : Futexes, wake : Nat, action : {"RELEASE", "ASSIGN_WOKEN"}]

RequeueArgs ==
  [op : {"requeue"}, f : Futexes, g : Futexes, wake : Nat, requeue : Nat,
   expect : {0, 1}, owner : Threads \cup {None}, action : RequeueActions]

Labels ==
  {"unborn", "idle", "stored", "activated", "checked", "blocked", "removed", "found",
   "release", "wake", "requeue", "requeue_checked", "dead", "gone"}

TypeOK ==
  /\ value \in [Futexes -> {0, 1}]
  /\ count \in [Futexes -> Nat]
  /\ free \in Nat
  /\ waiters \in [Futexes -> SUBSET Threads]
  /\ owner \in [Futexes -> Threads \cup {None}]
  /\ lock \in [Futexes -> Threads \cup {None}]
  /\ blocking \in [Threads -> Futexes \cup {None}]
  /\ pc \in [Threads -> Labels]
  /\ arg \in [Threads -> {NoArg} \cup WaitArgs \cup WakeArgs \cup RequeueArgs]
  /\ rel \in [Threads -> [Futexes -> Nat]]

(* References to f that thread t is answerable for.                         *)
RefsHeld(t, f) ==
  IF pc[t] \in {"activated", "checked", "wake"} THEN IF arg[t].f = f THEN 1 ELSE 0
  ELSE IF pc[t] \in {"requeue", "requeue_checked"}
    THEN IF f \in {arg[t].f, arg[t].g} THEN 1 ELSE 0
  ELSE IF pc[t] \in {"blocked", "removed"} THEN IF blocking[t] = f THEN 1 ELSE 0
  ELSE rel[t][f]

(* These references, one by one.                                            *)
RefsTo(f) == UNION {{t} \X (1 .. RefsHeld(t, f)) : t \in Threads}

(* The pending operations of a FutexState are the references that somebody  *)
(* is going to release, through wakes that release for others and requeues  *)
(* that move a sleeping thread's reference: no FutexState leaks and none    *)
(* returns to the pool in use.  (Every variable keeps its type.)            *)
RefsBalanced ==
  /\ TypeOK
  /\ \A f \in Futexes : count[f] = Cardinality(RefsTo(f))

(* Two FutexStates per thread are enough: ActivateFutex finds one whatever  *)
(* the calls in progress, and what a thread brought it can take away.       *)
PoolSuffices ==
  /\ free >= 0
  /\ free + Cardinality({f \in Futexes : count[f] > 0})
       = StatesPerThread * Cardinality({t \in Threads : pc[t] \notin {"unborn", "gone"}})

(* A futex has an owner only while it has waiters, or while a thread that   *)
(* found it without is on its way to clear the owner: so no FutexState goes *)
(* back to the pool with an owner (the assertion of PendingOpRef::Release). *)
OwnedHasWaiters ==
  \A f \in Futexes : owner[f] # None =>
    \/ waiters[f] # {}
    \/ \E t \in Threads : pc[t] = "removed" /\ blocking[t] = f
    \/ \E t \in Threads : pc[t] = "found" /\ rel[t][f] > 0

(* A thread never waits for itself, and no queue is owned by a dead thread. *)
OwnerSound ==
  \A f \in Futexes : owner[f] # None => owner[f] \notin waiters[f] /\ Live(owner[f])

(* A wake for everybody on f is on its way.                                 *)
WakeOwed(f) ==
  \E t \in Threads : /\ pc[t] \in {"stored", "wake"}
                     /\ arg[t].f = f
                     /\ arg[t].wake = All /\ arg[t].action = "RELEASE"

(* Sleeps on the futex it called with, whose value has changed.             *)
SleepsOnChange(t) ==
  pc[t] = "blocked" /\ arg[t].op = "wait" /\ value[arg[t].f] # arg[t].expect

(* A thread sleeps on the futex it called with although the value has       *)
(* changed only if the wake for that change is still to come: nobody goes   *)
(* to sleep behind the back of a waker.                                     *)
NoLostWakeup == \A t \in Threads : SleepsOnChange(t) => WakeOwed(arg[t].f)

(* What PendingOpRef::Release and ActivateFutex assert of a FutexState in   *)
(* the pool.                                                                *)
FreeStatesUnowned == \A f \in Futexes : count[f] = 0 => owner[f] = None
=============================================================================
