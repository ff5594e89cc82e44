---------------------------- MODULE FutexProofs ----------------------------
(***************************************************************************)
(* Proofs about Futex, for any finite set of threads and any set of        *)
(* futexes: that the pending operations of a FutexState are the references *)
(* somebody will release, that two FutexStates per thread are enough, that *)
(* owners are alive and do not wait for themselves, that an owned futex    *)
(* has waiters, and that no wake-up is lost.                               *)
(***************************************************************************)
EXTENDS Futex, FiniteSetTheorems, FunctionTheorems, TLAPS

(* The types; that the two counters do not go below zero is part of what   *)
(* RefsBalanced and PoolSuffices say.                                      *)
Types ==
  /\ value \in [Futexes -> {0, 1}]
  /\ count \in [Futexes -> Int]
  /\ free \in Int
  /\ waiters \in [Futexes -> SUBSET Threads]
  /\ owner \in [Futexes -> Threads \cup {None}]
  /\ lock \in [Futexes -> Threads \cup {None}]
  /\ blocking \in [Threads -> Futexes \cup {None}]
  /\ pc \in [Threads -> Labels]
  /\ arg \in [Threads -> {NoArg} \cup WaitArgs \cup WakeArgs \cup RequeueArgs]
  /\ rel \in [Threads -> [Futexes -> Nat]]

(* What a thread holds at each label.                                      *)
ArgsOK(t) ==
  /\ pc[t] \in {"activated", "checked"} => arg[t] \in WaitArgs
  /\ pc[t] \in {"stored", "wake"} => arg[t] \in WakeArgs
  /\ pc[t] \in {"requeue", "requeue_checked"} =>
       arg[t] \in RequeueArgs /\ arg[t].f # arg[t].g
  /\ pc[t] = "blocked" =>
       arg[t] = NoArg \/ (arg[t] \in WaitArgs /\ arg[t].f = blocking[t])
  /\ pc[t] \in {"unborn", "idle", "removed", "found", "release", "dead", "gone"} =>
       arg[t] = NoArg

BlockingOK(t) ==
  /\ blocking[t] # None <=> pc[t] \in {"checked", "blocked", "removed"}
  /\ pc[t] = "checked" => blocking[t] = arg[t].f

RelOK(t) ==
  /\ pc[t] \notin {"found", "release"} => rel[t] = NoRefs
  /\ pc[t] = "found" => \E f \in Futexes : rel[t] = [NoRefs EXCEPT ![f] = 2]
  /\ pc[t] = "release" =>
       \E f, g \in Futexes : \A h \in Futexes \ {f, g} : rel[t][h] = 0

Local(t) == ArgsOK(t) /\ BlockingOK(t) /\ RelOK(t)

(* The queues hold the blocked threads, each where it says it is.          *)
QueueOK ==
  \A f \in Futexes, u \in Threads :
    u \in waiters[f] <=> pc[u] = "blocked" /\ blocking[u] = f

(* From its check of the value a thread holds the locks of its futexes.    *)
LockOK ==
  \A t \in Threads :
    /\ pc[t] = "checked" => lock[arg[t].f] = t
    /\ pc[t] = "requeue_checked" => lock[arg[t].f] = t /\ lock[arg[t].g] = t

FrameInv == Types /\ (\A t \in Threads : Local(t)) /\ QueueOK /\ LockOK
-----------------------------------------------------------------------------
Same(u) ==
  /\ pc'[u] = pc[u] /\ arg'[u] = arg[u]
  /\ blocking'[u] = blocking[u] /\ rel'[u] = rel[u]

LEMMA NoRefsType == NoRefs \in [Futexes -> Nat]
  BY DEF NoRefs

(* A step of one thread leaves the locals of the others as they are.       *)
LEMMA OthersLocal ==
  ASSUME FrameInv, NEW t \in Threads, \A u \in Threads \ {t} : Same(u), Local(t)'
  PROVE  \A u \in Threads : Local(u)'
  <1> SUFFICES ASSUME NEW u \in Threads \ {t} PROVE Local(u)'
    OBVIOUS
  <1>1. Local(u) /\ Same(u)
    BY DEF FrameInv
  <1> QED  BY <1>1 DEF Local, ArgsOK, BlockingOK, RelOK, Same

(* A step that touches no queue and no lock.                               *)
LEMMA QuietStep ==
  ASSUME FrameInv, Types', NEW t \in Threads, \A u \in Threads \ {t} : Same(u),
         Local(t)', UNCHANGED <<waiters, lock>>, pc[t] # "blocked",
         pc'[t] \notin {"checked", "blocked", "requeue_checked"}
  PROVE  FrameInv'
  <1>1. \A u \in Threads : Local(u)'
    BY OthersLocal
  <1>2. QueueOK'
    BY DEF FrameInv, QueueOK, Same
  <1>3. LockOK'
    BY DEF FrameInv, LockOK, Same
  <1> QED  BY <1>1, <1>2, <1>3 DEF FrameInv

LEMMA ActivateType ==
  ASSUME Types, NEW fs \in SUBSET Futexes, IsFiniteSet(fs), Activate(fs)
  PROVE  count' \in [Futexes -> Int] /\ free' \in Int
  <1>1. count' \in [Futexes -> Int]
    BY DEF Types, Activate
  <1>2. IsFiniteSet({f \in fs : count[f] = 0})
    BY FS_Subset
  <1>3. Cardinality({f \in fs : count[f] = 0}) \in Nat
    BY <1>2, FS_CardinalityType
  <1> QED  BY <1>1, <1>3 DEF Types, Activate

LEMMA CreateFrame ==
  ASSUME FrameInv, NEW t \in Threads, Create(t)
  PROVE  FrameInv'
  <1>1. Types'
    BY DEF FrameInv, Types, Create, Goto, userVars, queueVars, StatesPerThread, Labels
  <1>2. pc[t] = "unborn" /\ pc'[t] = "idle" /\ UNCHANGED <<waiters, lock, blocking, arg, rel>>
    BY DEF FrameInv, Types, Create, Goto, queueVars
  <1>3. \A u \in Threads \ {t} : Same(u)
    BY DEF FrameInv, Types, Create, Goto, queueVars, Same
  <1>4. Local(t)'
    BY <1>2 DEF FrameInv, Local, ArgsOK, BlockingOK, RelOK
  <1> QED  BY <1>1, <1>2, <1>3, <1>4, QuietStep

LEMMA ExitFrame ==
  ASSUME FrameInv, NEW t \in Threads, Exit(t)
  PROVE  FrameInv'
  <1>1. Types'
    BY DEF FrameInv, Types, Exit, Goto, userVars, poolVars, DisownAllQueues, Labels
  <1>2. pc[t] = "idle" /\ pc'[t] = "dead" /\ UNCHANGED <<waiters, lock, blocking, arg, rel>>
    BY DEF FrameInv, Types, Exit, Goto
  <1>3. \A u \in Threads \ {t} : Same(u)
    BY DEF FrameInv, Types, Exit, Goto, Same
  <1>4. Local(t)'
    BY <1>2 DEF FrameInv, Local, ArgsOK, BlockingOK, RelOK
  <1> QED  BY <1>1, <1>2, <1>3, <1>4, QuietStep

LEMMA DestroyFrame ==
  ASSUME FrameInv, NEW t \in Threads, Destroy(t)
  PROVE  FrameInv'
  <1>1. Types'
    BY DEF FrameInv, Types, Destroy, Goto, userVars, queueVars, StatesPerThread, Labels
  <1>2. pc[t] = "dead" /\ pc'[t] = "gone" /\ UNCHANGED <<waiters, lock, blocking, arg, rel>>
    BY DEF FrameInv, Types, Destroy, Goto, queueVars
  <1>3. \A u \in Threads \ {t} : Same(u)
    BY DEF FrameInv, Types, Destroy, Goto, queueVars, Same
  <1>4. Local(t)'
    BY <1>2 DEF FrameInv, Local, ArgsOK, BlockingOK, RelOK
  <1> QED  BY <1>1, <1>2, <1>3, <1>4, QuietStep

LEMMA AllType == All \in Nat
  BY FutexAssumption, FS_CardinalityType DEF All

LEMMA StoreFrame ==
  ASSUME FrameInv, NEW t \in Threads, NEW f \in Futexes, Store(t, f)
  PROVE  FrameInv'
  <1> DEFINE a == [op |-> "wake", f |-> f, wake |-> All, action |-> "RELEASE"]
  <1>1. a \in WakeArgs
    BY AllType DEF WakeArgs
  <1>2. arg' = [arg EXCEPT ![t] = a]
    BY DEF Store
  <1> HIDE DEF a
  <1>3. value' \in [Futexes -> {0, 1}]
    BY DEF FrameInv, Types, Store
  <1>4. Types'
    BY <1>1, <1>2, <1>3 DEF FrameInv, Types, Store, Goto, poolVars, queueVars, Labels
  <1>5. /\ pc[t] = "idle" /\ pc'[t] = "stored" /\ arg'[t] = a
        /\ UNCHANGED <<waiters, lock, blocking, rel>>
    BY <1>2 DEF FrameInv, Types, Store, Goto, queueVars
  <1>6. \A u \in Threads \ {t} : Same(u)
    BY <1>2 DEF FrameInv, Types, Store, Goto, queueVars, Same
  <1>7. Local(t)'
    BY <1>1, <1>5 DEF FrameInv, Local, ArgsOK, BlockingOK, RelOK
  <1> QED  BY <1>4, <1>5, <1>6, <1>7, QuietStep

LEMMA WaitFrame ==
  ASSUME FrameInv, NEW t \in Threads, NEW f \in Futexes, NEW expect \in {0, 1},
         NEW o \in Threads \cup {None}, Wait(t, f, expect, o)
  PROVE  FrameInv'
  <1> DEFINE a == [op |-> "wait", f |-> f, expect |-> expect, owner |-> ValidateFutexOwner(o)]
  <1>1. a \in WaitArgs
    BY DEF WaitArgs, ValidateFutexOwner
  <1>2. arg' = [arg EXCEPT ![t] = a]
    BY DEF Wait
  <1> HIDE DEF a
  <1>3. count' \in [Futexes -> Int] /\ free' \in Int
    BY ActivateType, FS_Singleton DEF FrameInv, Wait
  <1>4. Types'
    BY <1>1, <1>2, <1>3 DEF FrameInv, Types, Wait, Goto, userVars, queueVars, Labels
  <1>5. /\ pc[t] = "idle" /\ pc'[t] = "activated" /\ arg'[t] = a
        /\ UNCHANGED <<waiters, lock, blocking, rel>>
    BY <1>2 DEF FrameInv, Types, Wait, Goto, queueVars
  <1>6. \A u \in Threads \ {t} : Same(u)
    BY <1>2 DEF FrameInv, Types, Wait, Goto, queueVars, Same
  <1>7. Local(t)'
    BY <1>1, <1>5 DEF FrameInv, Local, ArgsOK, BlockingOK, RelOK
  <1> QED  BY <1>4, <1>5, <1>6, <1>7, QuietStep

(* The futex of a wait or of a wake.                                       *)
LEMMA ArgFacts ==
  ASSUME FrameInv, NEW t \in Threads
  PROVE  /\ pc[t] \in {"activated", "checked"} =>
              /\ arg[t] \in WaitArgs /\ arg[t].op = "wait"
              /\ arg[t].f \in Futexes /\ arg[t].owner \in Threads \cup {None}
         /\ pc[t] \in {"stored", "wake"} =>
              /\ arg[t] \in WakeArgs /\ arg[t].op = "wake"
              /\ arg[t].f \in Futexes /\ arg[t].wake \in Nat
         /\ pc[t] \in {"requeue", "requeue_checked"} =>
              /\ arg[t] \in RequeueArgs /\ arg[t].op = "requeue"
              /\ arg[t].f \in Futexes /\ arg[t].g \in Futexes /\ arg[t].f # arg[t].g
              /\ arg[t].owner \in Threads \cup {None}
              /\ arg[t].wake \in Nat /\ arg[t].requeue \in Nat
  <1>1. Local(t)
    BY DEF FrameInv
  <1> QED  BY <1>1 DEF Local, ArgsOK, WaitArgs, WakeArgs, RequeueArgs

LEMMA LeaveFrame ==
  ASSUME FrameInv, NEW t \in Threads, NEW fs \in SUBSET Futexes, Leave(t, fs),
         UNCHANGED <<value, waiters, owner, lock, blocking>>,
         count' \in [Futexes -> Int], free' \in Int,
         pc[t] \in {"idle", "activated", "requeue"},
         NEW f \in Futexes, NEW g \in Futexes, fs \subseteq {f, g}
  PROVE  FrameInv'
  <1> DEFINE r == [h \in Futexes |-> IF h \in fs THEN 1 ELSE 0]
  <1>1. r \in [Futexes -> Nat] /\ \A h \in Futexes \ {f, g} : r[h] = 0
    OBVIOUS
  <1>2. rel' = [rel EXCEPT ![t] = r]
    BY DEF Leave
  <1> HIDE DEF r
  <1>3. Types'
    BY <1>1, <1>2 DEF FrameInv, Types, Leave, Goto, Labels
  <1>4. pc'[t] = "release" /\ arg'[t] = NoArg /\ rel'[t] = r
    BY <1>2 DEF FrameInv, Types, Leave, Goto
  <1>5. \A u \in Threads \ {t} : Same(u)
    BY <1>2 DEF FrameInv, Types, Leave, Goto, Same
  <1>6. Local(t)'
    <2>1. Local(t)
      BY DEF FrameInv
    <2>2. RelOK(t)'
      BY <1>1, <1>4 DEF RelOK
    <2> QED  BY <1>4, <2>1, <2>2 DEF Local, ArgsOK, BlockingOK
  <1> QED  BY <1>3, <1>4, <1>5, <1>6, QuietStep

LEMMA WaitFailsFrame ==
  ASSUME FrameInv, NEW t \in Threads, WaitFails(t)
  PROVE  FrameInv'
  <1>1. pc[t] = "activated" /\ Leave(t, {arg[t].f}) /\ UNCHANGED <<userVars, poolVars, queueVars>>
    BY DEF WaitFails
  <1>2. arg[t].f \in Futexes
    BY <1>1, ArgFacts
  <1>3. count' \in [Futexes -> Int] /\ free' \in Int
    BY <1>1 DEF FrameInv, Types, poolVars
  <1> QED  BY <1>1, <1>2, <1>3, LeaveFrame DEF userVars, queueVars

LEMMA RequeueFailsFrame ==
  ASSUME FrameInv, NEW t \in Threads, RequeueFails(t)
  PROVE  FrameInv'
  <1>1. /\ pc[t] = "requeue" /\ Leave(t, {arg[t].f, arg[t].g})
        /\ UNCHANGED <<userVars, poolVars, queueVars>>
    BY DEF RequeueFails
  <1>2. arg[t].f \in Futexes /\ arg[t].g \in Futexes
    BY <1>1, ArgFacts
  <1>3. count' \in [Futexes -> Int] /\ free' \in Int
    BY <1>1 DEF FrameInv, Types, poolVars
  <1> QED  BY <1>1, <1>2, <1>3, LeaveFrame DEF userVars, queueVars

LEMMA GetOwnerCallFrame ==
  ASSUME FrameInv, NEW t \in Threads, NEW f \in Futexes, GetOwnerCall(t, f)
  PROVE  FrameInv'
  <1>1. /\ pc[t] = "idle" /\ Leave(t, {f}) /\ Activate({f})
        /\ UNCHANGED <<userVars, queueVars>>
    BY DEF GetOwnerCall
  <1>2. count' \in [Futexes -> Int] /\ free' \in Int
    BY <1>1, ActivateType, FS_Singleton DEF FrameInv
  <1> QED  BY <1>1, <1>2, LeaveFrame DEF userVars, queueVars

LEMMA FindBlockingFrame ==
  ASSUME FrameInv, NEW t \in Threads, FindBlocking(t)
  PROVE  FrameInv'
  <1>1. pc[t] = "removed" /\ blocking[t] \in Futexes
    BY DEF FindBlocking, FrameInv, Types, Local, BlockingOK
  <1> DEFINE r == [NoRefs EXCEPT ![blocking[t]] = 2]
  <1>2. r \in [Futexes -> Nat] /\ \E f \in Futexes : r = [NoRefs EXCEPT ![f] = 2]
    BY <1>1, NoRefsType
  <1>3. rel' = [rel EXCEPT ![t] = r]
    BY DEF FindBlocking
  <1> HIDE DEF r
  <1>4. count' \in [Futexes -> Int] /\ free' \in Int
    BY <1>1, ActivateType, FS_Singleton DEF FrameInv, FindBlocking
  <1>5. Types'
    <2>1. rel' \in [Threads -> [Futexes -> Nat]]
      BY <1>2, <1>3 DEF FrameInv, Types
    <2>2. blocking' \in [Threads -> Futexes \cup {None}] /\ pc' \in [Threads -> Labels]
      BY DEF FrameInv, Types, FindBlocking, Goto, Labels
    <2> QED  BY <1>4, <2>1, <2>2 DEF FrameInv, Types, FindBlocking, userVars
  <1>6. /\ pc'[t] = "found" /\ blocking'[t] = None /\ rel'[t] = r
        /\ UNCHANGED <<waiters, lock, arg>>
    BY <1>3 DEF FrameInv, Types, FindBlocking, Goto
  <1>7. \A u \in Threads \ {t} : Same(u)
    BY <1>3 DEF FrameInv, Types, FindBlocking, Goto, Same
  <1>8. Local(t)'
    <2>1. RelOK(t)'
      BY <1>2, <1>6 DEF RelOK
    <2> QED  BY <1>1, <1>6, <2>1 DEF FrameInv, Local, ArgsOK, BlockingOK
  <1> QED  BY <1>1, <1>5, <1>6, <1>7, <1>8, QuietStep

LEMMA ClearOwnerFrame ==
  ASSUME FrameInv, NEW t \in Threads, ClearOwner(t)
  PROVE  FrameInv'
  <1>1. PICK f \in Futexes : owner' = [owner EXCEPT ![f] = OwnerAfterTimeout(f)]
    BY DEF ClearOwner
  <1>2. owner' \in [Futexes -> Threads \cup {None}]
    BY <1>1 DEF FrameInv, Types, OwnerAfterTimeout
  <1>3. Types'
    BY <1>2 DEF FrameInv, Types, ClearOwner, Goto, userVars, poolVars, Labels
  <1>4. /\ pc[t] = "found" /\ pc'[t] = "release"
        /\ UNCHANGED <<waiters, lock, blocking, arg, rel>>
    BY DEF FrameInv, Types, ClearOwner, Goto
  <1>5. \A u \in Threads \ {t} : Same(u)
    BY DEF FrameInv, Types, ClearOwner, Goto, Same
  <1>6. Local(t)'
    <2>1. PICK g \in Futexes : rel[t] = [NoRefs EXCEPT ![g] = 2]
      BY <1>4 DEF FrameInv, Local, RelOK
    <2>2. \A h \in Futexes \ {g, g} : rel[t][h] = 0
      BY <2>1 DEF NoRefs
    <2>3. RelOK(t)'
      BY <1>4, <2>2 DEF RelOK
    <2> QED  BY <1>4, <2>3 DEF FrameInv, Local, ArgsOK, BlockingOK
  <1> QED  BY <1>3, <1>4, <1>5, <1>6, QuietStep

(* One of the references a call holds, released.                           *)
LEMMA ReleaseFacts ==
  ASSUME FrameInv, NEW t \in Threads, Release(t)
  PROVE  \E f \in Futexes :
           /\ pc[t] = "release"
           /\ rel[t][f] > 0
           /\ count' = [count EXCEPT ![f] = count[f] - rel[t][f]]
           /\ free' = IF count[f] - rel[t][f] = 0 THEN free + 1 ELSE free
           /\ rel' = [rel EXCEPT ![t] = [rel[t] EXCEPT ![f] = 0]]
           /\ pc'[t] = IF [rel[t] EXCEPT ![f] = 0] = NoRefs THEN "idle" ELSE "release"
           /\ \A u \in Threads \ {t} : pc'[u] = pc[u]
           /\ UNCHANGED <<userVars, queueVars, arg>>
  <1>1. PICK f \in Futexes :
          /\ rel[t][f] > 0
          /\ count' = [count EXCEPT ![f] = @ - rel[t][f]]
          /\ free' = IF count'[f] = 0 THEN free + 1 ELSE free
          /\ rel' = [rel EXCEPT ![t][f] = 0]
    BY DEF Release
  <1>2. pc[t] = "release" /\ UNCHANGED <<userVars, queueVars, arg>>
    BY DEF Release
  <1>3. count'[f] = count[f] - rel[t][f]
    BY <1>1 DEF FrameInv, Types
  <1>4. rel' = [rel EXCEPT ![t] = [rel[t] EXCEPT ![f] = 0]]
    BY <1>1
  <1>5. rel'[t] = [rel[t] EXCEPT ![f] = 0]
    BY <1>4 DEF FrameInv, Types
  <1>6. /\ pc'[t] = IF rel'[t] = NoRefs THEN "idle" ELSE "release"
        /\ \A u \in Threads \ {t} : pc'[u] = pc[u]
    BY DEF Release, Goto, FrameInv, Types
  <1>7. /\ count' = [count EXCEPT ![f] = count[f] - rel[t][f]]
        /\ free' = IF count[f] - rel[t][f] = 0 THEN free + 1 ELSE free
    BY <1>1, <1>3
  <1>8. pc'[t] = IF [rel[t] EXCEPT ![f] = 0] = NoRefs THEN "idle" ELSE "release"
    BY <1>5, <1>6
  <1> QED  BY <1>1, <1>2, <1>4, <1>6, <1>7, <1>8

LEMMA ReleaseFrame ==
  ASSUME FrameInv, NEW t \in Threads, Release(t)
  PROVE  FrameInv'
  <1>1. PICK f \in Futexes :
           /\ pc[t] = "release"
           /\ count' = [count EXCEPT ![f] = count[f] - rel[t][f]]
           /\ free' = IF count[f] - rel[t][f] = 0 THEN free + 1 ELSE free
           /\ rel' = [rel EXCEPT ![t] = [rel[t] EXCEPT ![f] = 0]]
           /\ pc'[t] = IF [rel[t] EXCEPT ![f] = 0] = NoRefs THEN "idle" ELSE "release"
           /\ \A u \in Threads \ {t} : pc'[u] = pc[u]
           /\ UNCHANGED <<userVars, queueVars, arg>>
    BY ReleaseFacts
  <1> DEFINE r == [rel[t] EXCEPT ![f] = 0]
  <1>2. rel[t] \in [Futexes -> Nat]
    BY DEF FrameInv, Types
  <1>3. r \in [Futexes -> Nat] /\ \A h \in Futexes : rel[t][h] = 0 => r[h] = 0
    BY <1>2
  <1>4. rel' = [rel EXCEPT ![t] = r] /\ pc'[t] = IF r = NoRefs THEN "idle" ELSE "release"
    BY <1>1
  <1>5. count' \in [Futexes -> Int] /\ free' \in Int
    BY <1>1, <1>2 DEF FrameInv, Types
  <1> HIDE DEF r
  <1>6. pc' \in [Threads -> Labels]
    BY <1>1, <1>4 DEF FrameInv, Types, Release, Goto, Labels
  <1>7. Types'
    BY <1>1, <1>3, <1>4, <1>5, <1>6 DEF FrameInv, Types, userVars, queueVars
  <1>8. rel'[t] = r
    BY <1>4 DEF FrameInv, Types
  <1>9. \A u \in Threads \ {t} : Same(u)
    BY <1>1, <1>4 DEF FrameInv, Types, Same, queueVars
  <1>10. RelOK(t)'
    <2>1. PICK a, b \in Futexes : \A h \in Futexes \ {a, b} : rel[t][h] = 0
      BY <1>1 DEF FrameInv, Local, RelOK
    <2>2. \A h \in Futexes \ {a, b} : r[h] = 0
      BY <1>3, <2>1
    <2> QED  BY <1>4, <1>8, <2>2 DEF RelOK
  <1>11. Local(t)'
    BY <1>1, <1>4, <1>10 DEF FrameInv, Local, ArgsOK, BlockingOK, queueVars
  <1> QED  BY <1>1, <1>4, <1>7, <1>9, <1>11, QuietStep DEF queueVars

LEMMA WakeCallFrame ==
  ASSUME FrameInv, NEW t \in Threads, NEW f \in Futexes, NEW n \in Nat,
         NEW action \in {"RELEASE", "ASSIGN_WOKEN"}, WakeCall(t, f, n, action)
  PROVE  FrameInv'
  <1> DEFINE a == [op |-> "wake", f |-> f, wake |-> n, action |-> action]
  <1>1. a \in WakeArgs
    BY DEF WakeArgs
  <1>2. arg' = [arg EXCEPT ![t] = a]
    BY DEF WakeCall
  <1> HIDE DEF a
  <1>3. count' \in [Futexes -> Int] /\ free' \in Int
    BY ActivateType, FS_Singleton DEF FrameInv, WakeCall
  <1>4. Types'
    BY <1>1, <1>2, <1>3 DEF FrameInv, Types, WakeCall, Goto, userVars, queueVars, Labels
  <1>5. /\ pc[t] = "idle" /\ pc'[t] = "wake" /\ arg'[t] = a
        /\ UNCHANGED <<waiters, lock, blocking, rel>>
    BY <1>2 DEF FrameInv, Types, WakeCall, Goto, queueVars
  <1>6. \A u \in Threads \ {t} : Same(u)
    BY <1>2 DEF FrameInv, Types, WakeCall, Goto, queueVars, Same
  <1>7. Local(t)'
    BY <1>1, <1>5 DEF FrameInv, Local, ArgsOK, BlockingOK, RelOK
  <1> QED  BY <1>4, <1>5, <1>6, <1>7, QuietStep

LEMMA WakeAfterStoreFrame ==
  ASSUME FrameInv, NEW t \in Threads, WakeAfterStore(t)
  PROVE  FrameInv'
  <1>1. pc[t] = "stored" /\ arg[t].f \in Futexes
    BY ArgFacts DEF WakeAfterStore
  <1>2. UNCHANGED <<value, waiters, owner, lock, blocking, rel>>
    BY DEF WakeAfterStore, userVars, queueVars
  <1>3. CASE Activate({arg[t].f}) /\ Goto(t, "wake") /\ UNCHANGED arg
    <2>1. count' \in [Futexes -> Int] /\ free' \in Int
      BY <1>1, <1>3, ActivateType, FS_Singleton DEF FrameInv
    <2>2. Types'
      BY <1>2, <1>3, <2>1 DEF FrameInv, Types, Goto, Labels
    <2>3. pc'[t] = "wake" /\ \A u \in Threads \ {t} : Same(u)
      BY <1>2, <1>3 DEF FrameInv, Types, Goto, Same
    <2>4. Local(t)'
      BY <1>1, <1>2, <1>3, <2>3 DEF FrameInv, Local, ArgsOK, BlockingOK, RelOK
    <2> QED  BY <1>1, <1>2, <2>2, <2>3, <2>4, QuietStep
  <1>4. CASE /\ UNCHANGED poolVars /\ Goto(t, "idle")
             /\ arg' = [arg EXCEPT ![t] = NoArg]
    <2>1. Types'
      BY <1>2, <1>4 DEF FrameInv, Types, Goto, Labels, poolVars
    <2>2. pc'[t] = "idle" /\ arg'[t] = NoArg /\ \A u \in Threads \ {t} : Same(u)
      BY <1>2, <1>4 DEF FrameInv, Types, Goto, Same
    <2>3. Local(t)'
      BY <1>1, <1>2, <2>2 DEF FrameInv, Local, ArgsOK, BlockingOK, RelOK
    <2> QED  BY <1>1, <1>2, <2>1, <2>2, <2>3, QuietStep
  <1> QED  BY <1>3, <1>4 DEF WakeAfterStore

LEMMA PairFinite ==
  ASSUME NEW a, NEW b
  PROVE  IsFiniteSet({a, b})
  <1>1. {a, b} = {a} \cup {b}
    OBVIOUS
  <1>2. IsFiniteSet({a}) /\ IsFiniteSet({b})
    BY FS_Singleton
  <1>3. IsFiniteSet({a} \cup {b})
    BY <1>2, FS_Union
  <1> QED  BY <1>1, <1>3

LEMMA RequeueCallFrame ==
  ASSUME FrameInv, NEW t \in Threads, NEW f \in Futexes, NEW g \in Futexes,
         NEW n \in Nat, NEW m \in Nat, NEW expect \in {0, 1},
         NEW o \in Threads \cup {None}, NEW action \in RequeueActions,
         RequeueCall(t, f, g, n, m, expect, o, action)
  PROVE  FrameInv'
  <1> DEFINE a == [op |-> "requeue", f |-> f, g |-> g, wake |-> n, requeue |-> m,
                   expect |-> expect, owner |-> ValidateFutexOwner(o), action |-> action]
  <1>1. a \in RequeueArgs
    BY DEF RequeueArgs, ValidateFutexOwner
  <1>2. arg' = [arg EXCEPT ![t] = a] /\ a.f # a.g
    BY DEF RequeueCall
  <1> HIDE DEF a
  <1>3. count' \in [Futexes -> Int] /\ free' \in Int
    BY ActivateType, PairFinite DEF FrameInv, RequeueCall
  <1>4. Types'
    BY <1>1, <1>2, <1>3 DEF FrameInv, Types, RequeueCall, Goto, userVars, queueVars, Labels
  <1>5. /\ pc[t] = "idle" /\ pc'[t] = "requeue" /\ arg'[t] = a
        /\ UNCHANGED <<waiters, lock, blocking, rel>>
    BY <1>2 DEF FrameInv, Types, RequeueCall, Goto, queueVars
  <1>6. \A u \in Threads \ {t} : Same(u)
    BY <1>2 DEF FrameInv, Types, RequeueCall, Goto, queueVars, Same
  <1>7. Local(t)'
    BY <1>1, <1>2, <1>5 DEF FrameInv, Local, ArgsOK, BlockingOK, RelOK
  <1> QED  BY <1>4, <1>5, <1>6, <1>7, QuietStep

LEMMA WaitCheckFrame ==
  ASSUME FrameInv, NEW t \in Threads, WaitCheck(t)
  PROVE  FrameInv'
  <1> DEFINE f == arg[t].f
  <1>1. pc[t] = "activated" /\ f \in Futexes /\ lock[f] = None
    BY ArgFacts DEF WaitCheck
  <1>2. /\ lock' = [lock EXCEPT ![f] = t] /\ blocking' = [blocking EXCEPT ![t] = f]
        /\ pc' = [pc EXCEPT ![t] = "checked"]
        /\ UNCHANGED <<value, count, free, waiters, owner, arg, rel>>
    BY DEF WaitCheck, Goto, userVars, poolVars
  <1>3. Types'
    BY <1>1, <1>2 DEF FrameInv, Types, Labels
  <1>4. /\ pc'[t] = "checked" /\ blocking'[t] = f /\ f # None
        /\ \A u \in Threads \ {t} : Same(u)
    BY <1>1, <1>2, FutexAssumption DEF FrameInv, Types, Same
  <1>5. Local(t)'
    BY <1>1, <1>2, <1>4 DEF FrameInv, Local, ArgsOK, BlockingOK, RelOK
  <1>6. \A u \in Threads : Local(u)'
    BY <1>4, <1>5, OthersLocal
  <1>7. QueueOK'
    BY <1>1, <1>2, <1>4 DEF FrameInv, QueueOK, Same
  <1>8. LockOK'
    <2> SUFFICES ASSUME NEW u \in Threads
                 PROVE  /\ pc'[u] = "checked" => lock'[arg[u].f] = u
                        /\ pc'[u] = "requeue_checked" => lock'[arg[u].f] = u /\ lock'[arg[u].g] = u
      BY <1>2 DEF LockOK
    <2>1. CASE u = t
      BY <1>1, <1>2, <1>4, <2>1 DEF FrameInv, Types
    <2>2. CASE u # t
      <3>1. pc'[u] = pc[u] /\ u # None
        BY <1>4, <2>2, FutexAssumption DEF Same
      <3>2. /\ pc[u] = "checked" => lock[arg[u].f] = u /\ arg[u].f # f
            /\ pc[u] = "requeue_checked" =>
                 /\ lock[arg[u].f] = u /\ arg[u].f # f
                 /\ lock[arg[u].g] = u /\ arg[u].g # f
        BY <1>1, <3>1 DEF FrameInv, LockOK
      <3>3. /\ pc[u] = "checked" => arg[u].f \in Futexes
            /\ pc[u] = "requeue_checked" => arg[u].f \in Futexes /\ arg[u].g \in Futexes
        BY ArgFacts
      <3> HIDE DEF f
      <3> QED  BY <1>2, <3>1, <3>2, <3>3 DEF FrameInv, Types
    <2> QED  BY <2>1, <2>2
  <1> QED  BY <1>3, <1>6, <1>7, <1>8 DEF FrameInv

(* The locks of the other threads survive when t drops its own.            *)
LEMMA DropLock ==
  ASSUME FrameInv, NEW t \in Threads, NEW f, NEW g,
         lock[f] = t, lock[g] = t,
         \A h \in Futexes \ {f, g} : lock'[h] = lock[h],
         NEW u \in Threads \ {t}, arg'[u] = arg[u]
  PROVE  /\ pc[u] = "checked" => lock'[arg'[u].f] = u
         /\ pc[u] = "requeue_checked" => lock'[arg'[u].f] = u /\ lock'[arg'[u].g] = u
  <1>1. /\ pc[u] = "checked" => lock[arg[u].f] = u
        /\ pc[u] = "requeue_checked" => lock[arg[u].f] = u /\ lock[arg[u].g] = u
    BY DEF FrameInv, LockOK
  <1>2. /\ pc[u] = "checked" => arg[u].f \in Futexes
        /\ pc[u] = "requeue_checked" => arg[u].f \in Futexes /\ arg[u].g \in Futexes
    BY ArgFacts
  <1> QED  BY <1>1, <1>2

LEMMA BlockFrame ==
  ASSUME FrameInv, NEW t \in Threads, Block(t)
  PROVE  FrameInv'
  <1> DEFINE f == arg[t].f
             a == [arg[t] EXCEPT !.owner = None]
  <1>1. /\ pc[t] = "checked" /\ f \in Futexes /\ lock[f] = t /\ arg[t] \in WaitArgs
        /\ blocking[t] = f
    BY ArgFacts DEF Block, FrameInv, LockOK, Local, BlockingOK
  <1>2. /\ waiters' = [waiters EXCEPT ![f] = @ \cup {t}]
        /\ owner' = [owner EXCEPT ![f] = NewOwner(arg[t].owner)]
        /\ lock' = [lock EXCEPT ![f] = None]
        /\ arg' = [arg EXCEPT ![t] = a]
        /\ pc' = [pc EXCEPT ![t] = "blocked"]
        /\ UNCHANGED <<value, count, free, blocking, rel>>
    BY DEF Block, Goto, userVars, poolVars
  <1>3. a \in WaitArgs /\ a.f = f
    BY <1>1 DEF WaitArgs
  <1> HIDE DEF a, f
  <1>4. NewOwner(arg[t].owner) \in Threads \cup {None}
    BY <1>1, ArgFacts DEF NewOwner
  <1>5. Types'
    <2>1. /\ waiters' \in [Futexes -> SUBSET Threads]
          /\ owner' \in [Futexes -> Threads \cup {None}]
          /\ lock' \in [Futexes -> Threads \cup {None}]
      BY <1>2, <1>4 DEF FrameInv, Types
    <2> QED  BY <1>2, <1>3, <2>1 DEF FrameInv, Types, Labels
  <1>6. /\ pc'[t] = "blocked" /\ arg'[t] = a
        /\ \A u \in Threads \ {t} : Same(u)
    BY <1>2 DEF FrameInv, Types, Same
  <1>7. Local(t)'
    BY <1>1, <1>2, <1>3, <1>6 DEF FrameInv, Local, ArgsOK, BlockingOK, RelOK
  <1>8. \A u \in Threads : Local(u)'
    BY <1>6, <1>7, OthersLocal
  <1>9. QueueOK'
    <2> SUFFICES ASSUME NEW h \in Futexes, NEW u \in Threads
                 PROVE  u \in waiters'[h] <=> pc'[u] = "blocked" /\ blocking[u] = h
      BY <1>2 DEF QueueOK
    <2>1. u \in waiters[h] <=> pc[u] = "blocked" /\ blocking[u] = h
      BY DEF FrameInv, QueueOK
    <2>2. u \in waiters'[h] <=> u \in waiters[h] \/ (u = t /\ h = f)
      BY <1>2 DEF FrameInv, Types
    <2> QED  BY <1>1, <1>6, <2>1, <2>2 DEF Same
  <1>10. LockOK'
    <2>1. \A h \in Futexes \ {f, f} : lock'[h] = lock[h]
      BY <1>2 DEF FrameInv, Types
    <2>2. ASSUME NEW u \in Threads \ {t}
          PROVE  /\ pc[u] = "checked" => lock'[arg'[u].f] = u
                 /\ pc[u] = "requeue_checked" => lock'[arg'[u].f] = u /\ lock'[arg'[u].g] = u
      <3>1. arg'[u] = arg[u]
        BY <1>6 DEF Same
      <3> QED  BY <1>1, <2>1, <3>1, DropLock
    <2> QED  BY <1>6, <2>2 DEF LockOK, Same
  <1> QED  BY <1>5, <1>8, <1>9, <1>10 DEF FrameInv

LEMMA BlockFailsFrame ==
  ASSUME FrameInv, NEW t \in Threads, BlockFails(t)
  PROVE  FrameInv'
  <1> DEFINE f == arg[t].f
  <1>1. /\ pc[t] = "checked" /\ f \in Futexes /\ lock[f] = t
        /\ blocking[t] = f
    BY ArgFacts DEF BlockFails, FrameInv, LockOK, Local, BlockingOK
  <1>2. /\ owner' = [owner EXCEPT ![f] = NewOwner(arg[t].owner)]
        /\ lock' = [lock EXCEPT ![f] = None]
        /\ arg' = [arg EXCEPT ![t] = NoArg]
        /\ pc' = [pc EXCEPT ![t] = "removed"]
        /\ UNCHANGED <<value, count, free, waiters, blocking, rel>>
    BY DEF BlockFails, Goto, userVars, poolVars
  <1> HIDE DEF f
  <1>4. NewOwner(arg[t].owner) \in Threads \cup {None}
    BY <1>1, ArgFacts DEF NewOwner
  <1>5. Types'
    <2>1. /\ owner' \in [Futexes -> Threads \cup {None}]
          /\ lock' \in [Futexes -> Threads \cup {None}]
      BY <1>2, <1>4 DEF FrameInv, Types
    <2> QED  BY <1>2, <2>1 DEF FrameInv, Types, Labels
  <1>6. /\ pc'[t] = "removed" /\ arg'[t] = NoArg
        /\ \A u \in Threads \ {t} : Same(u)
    BY <1>2 DEF FrameInv, Types, Same
  <1>7. Local(t)'
    BY <1>1, <1>2, <1>6 DEF FrameInv, Local, ArgsOK, BlockingOK, RelOK
  <1>8. \A u \in Threads : Local(u)'
    BY <1>6, <1>7, OthersLocal
  <1>9. QueueOK'
    BY <1>1, <1>2, <1>6 DEF FrameInv, QueueOK, Same
  <1>10. LockOK'
    <2>1. \A h \in Futexes \ {f, f} : lock'[h] = lock[h]
      BY <1>2 DEF FrameInv, Types
    <2>2. ASSUME NEW u \in Threads \ {t}
          PROVE  /\ pc[u] = "checked" => lock'[arg'[u].f] = u
                 /\ pc[u] = "requeue_checked" => lock'[arg'[u].f] = u /\ lock'[arg'[u].g] = u
      <3>1. arg'[u] = arg[u]
        BY <1>6 DEF Same
      <3> QED  BY <1>1, <2>1, <3>1, DropLock
    <2> QED  BY <1>6, <2>2 DEF LockOK, Same
  <1> QED  BY <1>5, <1>8, <1>9, <1>10 DEF FrameInv

LEMMA UnblockFrame ==
  ASSUME FrameInv, NEW t \in Threads, Unblock(t)
  PROVE  FrameInv'
  <1>1. /\ pc[t] = "blocked"
        /\ waiters' = [f \in Futexes |-> waiters[f] \ {t}]
        /\ arg' = [arg EXCEPT ![t] = NoArg]
        /\ pc' = [pc EXCEPT ![t] = "removed"]
        /\ UNCHANGED <<value, count, free, owner, lock, blocking, rel>>
    BY DEF Unblock, Goto, userVars, poolVars
  <1>2. Types'
    <2>1. waiters' \in [Futexes -> SUBSET Threads]
      BY <1>1 DEF FrameInv, Types
    <2> QED  BY <1>1, <2>1 DEF FrameInv, Types, Labels
  <1>3. /\ pc'[t] = "removed" /\ arg'[t] = NoArg
        /\ \A u \in Threads \ {t} : Same(u)
    BY <1>1 DEF FrameInv, Types, Same
  <1>4. Local(t)'
    BY <1>1, <1>3 DEF FrameInv, Local, ArgsOK, BlockingOK, RelOK
  <1>5. \A u \in Threads : Local(u)'
    BY <1>3, <1>4, OthersLocal
  <1>6. QueueOK'
    BY <1>1, <1>3 DEF FrameInv, QueueOK, Same
  <1>7. LockOK'
    BY <1>1, <1>3 DEF FrameInv, LockOK, Same
  <1> QED  BY <1>2, <1>5, <1>6, <1>7 DEF FrameInv

LEMMA RequeueCheckFrame ==
  ASSUME FrameInv, NEW t \in Threads, RequeueCheck(t)
  PROVE  FrameInv'
  <1> DEFINE f == arg[t].f
             g == arg[t].g
  <1>1. /\ pc[t] = "requeue" /\ f \in Futexes /\ g \in Futexes
        /\ lock[f] = None /\ lock[g] = None
    BY ArgFacts DEF RequeueCheck
  <1>2. /\ lock' = [lock EXCEPT ![f] = t, ![g] = t]
        /\ pc' = [pc EXCEPT ![t] = "requeue_checked"]
        /\ UNCHANGED <<value, count, free, waiters, owner, blocking, arg, rel>>
    BY DEF RequeueCheck, Goto, userVars, poolVars
  <1>3. Types'
    BY <1>1, <1>2 DEF FrameInv, Types, Labels
  <1>4. pc'[t] = "requeue_checked" /\ \A u \in Threads \ {t} : Same(u)
    BY <1>1, <1>2 DEF FrameInv, Types, Same
  <1>5. Local(t)'
    BY <1>1, <1>2, <1>4 DEF FrameInv, Local, ArgsOK, BlockingOK, RelOK
  <1>6. \A u \in Threads : Local(u)'
    BY <1>4, <1>5, OthersLocal
  <1>7. QueueOK'
    BY <1>1, <1>2, <1>4 DEF FrameInv, QueueOK, Same
  <1>8. LockOK'
    <2> SUFFICES ASSUME NEW u \in Threads
                 PROVE  /\ pc'[u] = "checked" => lock'[arg[u].f] = u
                        /\ pc'[u] = "requeue_checked" => lock'[arg[u].f] = u /\ lock'[arg[u].g] = u
      BY <1>2 DEF LockOK
    <2>1. CASE u = t
      BY <1>1, <1>2, <1>4, <2>1 DEF FrameInv, Types
    <2>2. CASE u # t
      <3>1. pc'[u] = pc[u] /\ u # None
        BY <1>4, <2>2, FutexAssumption DEF Same
      <3>2. /\ pc[u] = "checked" => lock[arg[u].f] = u /\ arg[u].f \notin {f, g}
            /\ pc[u] = "requeue_checked" =>
                 /\ lock[arg[u].f] = u /\ arg[u].f \notin {f, g}
                 /\ lock[arg[u].g] = u /\ arg[u].g \notin {f, g}
        BY <1>1, <3>1 DEF FrameInv, LockOK
      <3>3. /\ pc[u] = "checked" => arg[u].f \in Futexes
            /\ pc[u] = "requeue_checked" => arg[u].f \in Futexes /\ arg[u].g \in Futexes
        BY ArgFacts
      <3> HIDE DEF f, g
      <3>4. \A h \in Futexes \ {f, g} : lock'[h] = lock[h]
        BY <1>2 DEF FrameInv, Types
      <3> QED  BY <3>1, <3>2, <3>3, <3>4
    <2> QED  BY <2>1, <2>2
  <1> QED  BY <1>3, <1>6, <1>7, <1>8 DEF FrameInv

(* Threads chosen from a queue.                                            *)
LEMMA ChosenFacts ==
  ASSUME NEW q \in SUBSET Threads, NEW n \in Nat, NEW S \in Chosen(q, n)
  PROVE  /\ S \subseteq q /\ IsFiniteSet(S) /\ IsFiniteSet(q)
         /\ Cardinality(S) \in Nat
         /\ n = All => S = q
  <1>1. S \subseteq q /\ Cardinality(S) = Min({n, Cardinality(q)})
    BY DEF Chosen
  <1>2. IsFiniteSet(q) /\ Cardinality(q) <= All /\ Cardinality(q) \in Nat
    BY FutexAssumption, FS_Subset, FS_CardinalityType DEF All
  <1>3. IsFiniteSet(S) /\ Cardinality(S) \in Nat
    BY <1>1, <1>2, FS_Subset, FS_CardinalityType
  <1>4. ASSUME n = All PROVE S = q
    <2>1. PICK c \in Nat : c = Cardinality(q)
      BY <1>2
    <2>2. Min({n, c}) = c
      <3>1. c <= n
        BY <1>2, <1>4, <2>1
      <3> QED  BY <3>1 DEF Min
    <2>3. Cardinality(S) = Cardinality(q)
      BY <1>1, <2>1, <2>2
    <2> QED  BY <1>1, <1>2, <2>3, FS_Subset
  <1> QED  BY <1>1, <1>2, <1>3, <1>4

LEMMA WakeOwnerFacts ==
  ASSUME NEW S \in SUBSET Threads, NEW rest, NEW action
  PROVE  /\ WakeOwner(S, rest, action) \in S \cup {None}
         /\ WakeOwner(S, rest, action) # None =>
              rest # {} /\ action = "ASSIGN_WOKEN"
         /\ WakeOwner(S, rest, action) \in Threads \cup {None}
  <1>1. S # {} => (CHOOSE t \in S : TRUE) \in S
    OBVIOUS
  <1> QED  BY <1>1 DEF WakeOwner

(* What FutexWake does when it wakes the threads S.                        *)
WakeStep(t, f, S) ==
  /\ pc[t] = "wake" /\ f = arg[t].f /\ f \in Futexes /\ lock[f] = None
  /\ S \in SUBSET Threads /\ S \subseteq waiters[f]
  /\ t \notin S /\ IsFiniteSet(S) /\ Cardinality(S) \in Nat
  /\ arg[t].wake = All => S = waiters[f]
  /\ waiters' = [waiters EXCEPT ![f] = @ \ S]
  /\ owner' = [owner EXCEPT ![f] = WakeOwner(S, waiters[f] \ S, arg[t].action)]
  /\ blocking' = [u \in Threads |-> IF u \in S THEN None ELSE blocking[u]]
  /\ pc' = [u \in Threads |-> IF u \in S THEN "idle"
                              ELSE IF u = t THEN "release" ELSE pc[u]]
  /\ arg' = [u \in Threads |-> IF u \in S \cup {t} THEN NoArg ELSE arg[u]]
  /\ rel' = [rel EXCEPT ![t] = [NoRefs EXCEPT ![f] = 1 + Cardinality(S)]]
  /\ UNCHANGED <<value, count, free, lock>>

LEMMA WakeFacts ==
  ASSUME FrameInv, NEW t \in Threads, FutexWake(t)
  PROVE  \E f, S : WakeStep(t, f, S)
  <1>0. PICK f : f = arg[t].f
    OBVIOUS
  <1>1. pc[t] = "wake" /\ f \in Futexes /\ lock[f] = None /\ arg[t].wake \in Nat
    BY <1>0, ArgFacts DEF FutexWake, WakeLock
  <1>2. waiters[f] \in SUBSET Threads
    BY <1>1 DEF FrameInv, Types
  <1>3. PICK S \in Chosen(waiters[f], arg[t].wake) :
              /\ waiters' = [waiters EXCEPT ![f] = @ \ S]
              /\ owner' = [owner EXCEPT ![f] = WakeOwner(S, waiters[f] \ S, arg[t].action)]
              /\ blocking' = ResetBlockingFutexId(S)
              /\ pc' = [u \in Threads |-> IF u \in S THEN "idle"
                                          ELSE IF u = t THEN "release" ELSE pc[u]]
              /\ arg' = Forget(S \cup {t})
              /\ rel' = [rel EXCEPT ![t] = [NoRefs EXCEPT ![f] = WakeRefs(S)]]
    BY <1>0, Zenon DEF FutexWake
  <1>4. /\ S \subseteq waiters[f] /\ IsFiniteSet(S)
        /\ Cardinality(S) \in Nat /\ (arg[t].wake = All => S = waiters[f])
    <2>1. PICK q, n : q = waiters[f] /\ n = arg[t].wake
      OBVIOUS
    <2>2. q \in SUBSET Threads /\ n \in Nat /\ S \in Chosen(q, n)
      BY <1>1, <1>2, <1>3, <2>1
    <2>3. S \subseteq q /\ IsFiniteSet(S) /\ Cardinality(S) \in Nat /\ (n = All => S = q)
      BY <2>2, ChosenFacts
    <2> QED  BY <2>1, <2>3
  <1>5. t \notin S /\ S \in SUBSET Threads
    BY <1>1, <1>2, <1>4 DEF FrameInv, QueueOK
  <1>6. UNCHANGED <<value, count, free, lock>>
    BY DEF FutexWake, userVars, poolVars
  <1>7. WakeStep(t, f, S)
    BY <1>0, <1>1, <1>3, <1>4, <1>5, <1>6
    DEF WakeStep, ResetBlockingFutexId, Forget, WakeRefs
  <1> QED  BY <1>7

LEMMA FutexWakeFrame ==
  ASSUME FrameInv, NEW t \in Threads, FutexWake(t)
  PROVE  FrameInv'
  <1>0. PICK f, S : WakeStep(t, f, S)
    BY WakeFacts
  <1>1. pc[t] = "wake" /\ f \in Futexes /\ UNCHANGED <<value, count, free, lock>>
    BY <1>0 DEF WakeStep
  <1>2. /\ S \in SUBSET Threads /\ S \subseteq waiters[f] /\ t \notin S
        /\ Cardinality(S) \in Nat
        /\ waiters' = [waiters EXCEPT ![f] = @ \ S]
        /\ owner' = [owner EXCEPT ![f] = WakeOwner(S, waiters[f] \ S, arg[t].action)]
        /\ blocking' = [u \in Threads |-> IF u \in S THEN None ELSE blocking[u]]
        /\ pc' = [u \in Threads |-> IF u \in S THEN "idle"
                                    ELSE IF u = t THEN "release" ELSE pc[u]]
        /\ arg' = [u \in Threads |-> IF u \in S \cup {t} THEN NoArg ELSE arg[u]]
        /\ rel' = [rel EXCEPT ![t] = [NoRefs EXCEPT ![f] = 1 + Cardinality(S)]]
    BY <1>0 DEF WakeStep
  <1> DEFINE r == [NoRefs EXCEPT ![f] = 1 + Cardinality(S)]
  <1>3. r \in [Futexes -> Nat] /\ \A h \in Futexes \ {f, f} : r[h] = 0
    <2>1. PICK n \in Nat : n = 1 + Cardinality(S)
      BY <1>2
    <2> QED  BY <1>1, <2>1 DEF NoRefs
  <1>4. rel' = [rel EXCEPT ![t] = r]
    BY <1>2
  <1> HIDE DEF r
  <1>5. WakeOwner(S, waiters[f] \ S, arg[t].action) \in Threads \cup {None}
    BY <1>2, WakeOwnerFacts
  <1>6. Types'
    <2>1. waiters' \in [Futexes -> SUBSET Threads]
      BY <1>2 DEF FrameInv, Types
    <2>2. owner' \in [Futexes -> Threads \cup {None}]
      BY <1>2, <1>5 DEF FrameInv, Types
    <2>3. blocking' \in [Threads -> Futexes \cup {None}] /\ pc' \in [Threads -> Labels]
      BY <1>2 DEF FrameInv, Types, Labels
    <2>4. arg' \in [Threads -> {NoArg} \cup WaitArgs \cup WakeArgs \cup RequeueArgs]
      BY <1>2 DEF FrameInv, Types
    <2>5. rel' \in [Threads -> [Futexes -> Nat]]
      BY <1>3, <1>4 DEF FrameInv, Types
    <2> QED  BY <1>1, <2>1, <2>2, <2>3, <2>4, <2>5 DEF FrameInv, Types
  <1>7. \A u \in Threads \ {t} : rel'[u] = rel[u]
    BY <1>4 DEF FrameInv, Types
  <1>8. ASSUME NEW u \in Threads PROVE Local(u)'
    <2>0. Local(u)
      BY DEF FrameInv
    <2>1. CASE u = t
      <3>1. pc'[u] = "release" /\ arg'[u] = NoArg /\ blocking'[u] = blocking[u] /\ rel'[u] = r
        BY <1>2, <1>4, <2>1 DEF FrameInv, Types
      <3>2. RelOK(u)'
        BY <1>1, <1>3, <3>1 DEF RelOK
      <3> QED  BY <1>1, <2>0, <2>1, <3>1, <3>2 DEF Local, ArgsOK, BlockingOK
    <2>2. CASE u \in S
      <3>1. pc[u] = "blocked" /\ u # t
        BY <1>1, <1>2, <2>2 DEF FrameInv, QueueOK
      <3>2. pc'[u] = "idle" /\ arg'[u] = NoArg /\ blocking'[u] = None /\ rel'[u] = rel[u]
        BY <1>2, <1>7, <2>2, <3>1
      <3> QED  BY <2>0, <3>1, <3>2 DEF Local, ArgsOK, BlockingOK, RelOK
    <2>3. CASE u # t /\ u \notin S
      <3>1. Same(u)
        BY <1>2, <1>7, <2>3 DEF Same
      <3> QED  BY <2>0, <3>1 DEF Local, ArgsOK, BlockingOK, RelOK, Same
    <2> QED  BY <2>1, <2>2, <2>3
  <1>9. QueueOK'
    <2> SUFFICES ASSUME NEW h \in Futexes, NEW u \in Threads
                 PROVE  u \in waiters'[h] <=> pc'[u] = "blocked" /\ blocking'[u] = h
      BY DEF QueueOK
    <2>1. u \in waiters[h] <=> pc[u] = "blocked" /\ blocking[u] = h
      BY DEF FrameInv, QueueOK
    <2>2. u \in S => blocking[u] = f
      BY <1>1, <1>2 DEF FrameInv, QueueOK
    <2>3. u \in waiters'[h] <=> u \in waiters[h] /\ ~(u \in S /\ h = f)
      BY <1>1, <1>2 DEF FrameInv, Types
    <2> QED  BY <1>1, <1>2, <2>1, <2>2, <2>3
  <1>10. LockOK'
    <2> SUFFICES ASSUME NEW u \in Threads, pc'[u] \in {"checked", "requeue_checked"}
                 PROVE  /\ pc'[u] = "checked" => lock[arg'[u].f] = u
                        /\ pc'[u] = "requeue_checked" => lock[arg'[u].f] = u /\ lock[arg'[u].g] = u
      BY <1>1 DEF LockOK
    <2>1. u # t /\ u \notin S
      BY <1>2
    <2>2. pc'[u] = pc[u] /\ arg'[u] = arg[u]
      BY <1>2, <2>1
    <2> QED  BY <2>2 DEF FrameInv, LockOK
  <1> QED  BY <1>6, <1>8, <1>9, <1>10 DEF FrameInv

(* What FutexRequeue does when it wakes S and moves R from f to g.         *)
RequeueStep(t, f, g, S, R) ==
  /\ pc[t] = "requeue_checked" /\ f = arg[t].f /\ g = arg[t].g
  /\ f \in Futexes /\ g \in Futexes /\ f # g
  /\ lock[f] = t /\ lock[g] = t
  /\ S \in SUBSET Threads /\ S \subseteq waiters[f]
  /\ R \in SUBSET Threads /\ R \subseteq waiters[f] \ S
  /\ t \notin S /\ t \notin R
  /\ IsFiniteSet(S) /\ Cardinality(S) \in Nat
  /\ IsFiniteSet(R) /\ Cardinality(R) \in Nat
  /\ waiters' = [waiters EXCEPT ![f] = (@ \ S) \ R, ![g] = @ \cup R]
  /\ owner' = [owner EXCEPT
       ![f] = WakeOwner(S, waiters[f] \ S, arg[t].action),
       ![g] = IF waiters[g] \cup R = {} THEN None ELSE NewOwner(arg[t].owner)]
  /\ blocking' = [u \in Threads |-> IF u \in R THEN g
                                    ELSE IF u \in S THEN None ELSE blocking[u]]
  /\ count' = [count EXCEPT ![f] = @ - Cardinality(R), ![g] = @ + Cardinality(R)]
  /\ lock' = [lock EXCEPT ![f] = None, ![g] = None]
  /\ pc' = [u \in Threads |-> IF u \in S THEN "idle"
                              ELSE IF u = t THEN "release" ELSE pc[u]]
  /\ arg' = [u \in Threads |-> IF u \in S \cup R \cup {t} THEN NoArg ELSE arg[u]]
  /\ rel' = [rel EXCEPT ![t] = [NoRefs EXCEPT ![g] = 1, ![f] = 1 + Cardinality(S)]]
  /\ UNCHANGED <<value, free>>

LEMMA RequeueFacts ==
  ASSUME FrameInv, NEW t \in Threads, FutexRequeue(t)
  PROVE  \E f, g, S, R : RequeueStep(t, f, g, S, R)
  <1> DEFINE f == arg[t].f
             g == arg[t].g
  <1>0. f = arg[t].f /\ g = arg[t].g
    OBVIOUS
  <1>1. /\ pc[t] = "requeue_checked" /\ f \in Futexes /\ g \in Futexes /\ f # g
        /\ lock[f] = t /\ lock[g] = t /\ arg[t].wake \in Nat /\ arg[t].requeue \in Nat
    BY <1>0, ArgFacts DEF FutexRequeue, FrameInv, LockOK
  <1>2. waiters[f] \in SUBSET Threads
    BY <1>1 DEF FrameInv, Types
  <1>3. PICK S \in Chosen(waiters[f], arg[t].wake) :
        \E R \in Chosen(waiters[f] \ S, arg[t].requeue) :
           /\ waiters' = [waiters EXCEPT ![f] = (@ \ S) \ R, ![g] = @ \cup R]
           /\ owner' = [owner EXCEPT
                ![f] = WakeOwner(S, waiters[f] \ S, arg[t].action),
                ![g] = IF waiters[g] \cup R = {} THEN None ELSE NewOwner(arg[t].owner)]
           /\ blocking' = [u \in Threads |-> IF u \in R THEN g ELSE ResetBlockingFutexId(S)[u]]
           /\ count' = TakeRefs(f, g, Cardinality(R))
           /\ lock' = [lock EXCEPT ![f] = None, ![g] = None]
           /\ pc' = [u \in Threads |-> IF u \in S THEN "idle"
                                       ELSE IF u = t THEN "release" ELSE pc[u]]
           /\ arg' = Forget(S \cup R \cup {t})
           /\ rel' = [rel EXCEPT ![t] = [NoRefs EXCEPT ![g] = 1, ![f] = WakeRefs(S)]]
    BY Zenon DEF FutexRequeue
  <1> HIDE DEF f, g
  <1>4. PICK R \in Chosen(waiters[f] \ S, arg[t].requeue) :
           /\ waiters' = [waiters EXCEPT ![f] = (@ \ S) \ R, ![g] = @ \cup R]
           /\ owner' = [owner EXCEPT
                ![f] = WakeOwner(S, waiters[f] \ S, arg[t].action),
                ![g] = IF waiters[g] \cup R = {} THEN None ELSE NewOwner(arg[t].owner)]
           /\ blocking' = [u \in Threads |-> IF u \in R THEN g ELSE ResetBlockingFutexId(S)[u]]
           /\ count' = TakeRefs(f, g, Cardinality(R))
           /\ lock' = [lock EXCEPT ![f] = None, ![g] = None]
           /\ pc' = [u \in Threads |-> IF u \in S THEN "idle"
                                       ELSE IF u = t THEN "release" ELSE pc[u]]
           /\ arg' = Forget(S \cup R \cup {t})
           /\ rel' = [rel EXCEPT ![t] = [NoRefs EXCEPT ![g] = 1, ![f] = WakeRefs(S)]]
    BY <1>3
  <1>5. S \subseteq waiters[f] /\ IsFiniteSet(S) /\ Cardinality(S) \in Nat
    BY <1>1, <1>2, ChosenFacts
  <1>6. waiters[f] \ S \in SUBSET Threads
    BY <1>2
  <1>7. R \subseteq waiters[f] \ S /\ IsFiniteSet(R) /\ Cardinality(R) \in Nat
    BY <1>1, <1>6, ChosenFacts
  <1>8. t \notin waiters[f]
    BY <1>1 DEF FrameInv, QueueOK
  <1>9. t \notin S /\ t \notin R /\ S \in SUBSET Threads /\ R \in SUBSET Threads
    BY <1>2, <1>5, <1>7, <1>8
  <1>10. UNCHANGED <<value, free>>
    BY DEF FutexRequeue, userVars
  <1>11. blocking' = [u \in Threads |-> IF u \in R THEN g
                                        ELSE IF u \in S THEN None ELSE blocking[u]]
    BY <1>4 DEF ResetBlockingFutexId
  <1>12. RequeueStep(t, f, g, S, R)
    BY <1>0, <1>1, <1>4, <1>5, <1>7, <1>9, <1>10, <1>11
    DEF RequeueStep, Forget, WakeRefs, TakeRefs
  <1> QED  BY <1>12

LEMMA FutexRequeueFrame ==
  ASSUME FrameInv, NEW t \in Threads, FutexRequeue(t)
  PROVE  FrameInv'
  <1>0. PICK f, g, S, R : RequeueStep(t, f, g, S, R)
    BY RequeueFacts
  <1>1. /\ pc[t] = "requeue_checked" /\ f \in Futexes /\ g \in Futexes /\ f # g
        /\ lock[f] = t /\ lock[g] = t /\ f = arg[t].f /\ g = arg[t].g
        /\ UNCHANGED <<value, free>>
    BY <1>0 DEF RequeueStep
  <1>2. /\ S \in SUBSET Threads /\ S \subseteq waiters[f]
        /\ R \in SUBSET Threads /\ R \subseteq waiters[f] \ S
        /\ t \notin S /\ t \notin R
        /\ Cardinality(S) \in Nat /\ Cardinality(R) \in Nat
    BY <1>0 DEF RequeueStep
  <1>3. /\ waiters' = [waiters EXCEPT ![f] = (@ \ S) \ R, ![g] = @ \cup R]
        /\ owner' = [owner EXCEPT
             ![f] = WakeOwner(S, waiters[f] \ S, arg[t].action),
             ![g] = IF waiters[g] \cup R = {} THEN None ELSE NewOwner(arg[t].owner)]
        /\ lock' = [lock EXCEPT ![f] = None, ![g] = None]
        /\ count' = [count EXCEPT ![f] = @ - Cardinality(R), ![g] = @ + Cardinality(R)]
    BY <1>0 DEF RequeueStep
  <1>4. /\ blocking' = [u \in Threads |-> IF u \in R THEN g
                                          ELSE IF u \in S THEN None ELSE blocking[u]]
        /\ pc' = [u \in Threads |-> IF u \in S THEN "idle"
                                    ELSE IF u = t THEN "release" ELSE pc[u]]
        /\ arg' = [u \in Threads |-> IF u \in S \cup R \cup {t} THEN NoArg ELSE arg[u]]
    BY <1>0 DEF RequeueStep
  <1> DEFINE r == [NoRefs EXCEPT ![g] = 1, ![f] = 1 + Cardinality(S)]
  <1>5. r \in [Futexes -> Nat] /\ \A h \in Futexes \ {f, g} : r[h] = 0
    <2>1. PICK n \in Nat : n = 1 + Cardinality(S)
      BY <1>2
    <2> QED  BY <1>1, <2>1 DEF NoRefs
  <1>6. rel' = [rel EXCEPT ![t] = r]
    BY <1>0 DEF RequeueStep
  <1> HIDE DEF r
  <1>7. Types'
    <2>1. waiters' \in [Futexes -> SUBSET Threads]
      BY <1>2, <1>3 DEF FrameInv, Types
    <2>2. owner' \in [Futexes -> Threads \cup {None}]
      <3>1. WakeOwner(S, waiters[f] \ S, arg[t].action) \in Threads \cup {None}
        BY <1>2, WakeOwnerFacts
      <3>2. NewOwner(arg[t].owner) \in Threads \cup {None}
        BY <1>1, ArgFacts DEF NewOwner
      <3> QED  BY <1>3, <3>1, <3>2 DEF FrameInv, Types
    <2>3. blocking' \in [Threads -> Futexes \cup {None}] /\ pc' \in [Threads -> Labels]
      BY <1>1, <1>4 DEF FrameInv, Types, Labels
    <2>4. arg' \in [Threads -> {NoArg} \cup WaitArgs \cup WakeArgs \cup RequeueArgs]
      BY <1>4 DEF FrameInv, Types
    <2>5. rel' \in [Threads -> [Futexes -> Nat]]
      BY <1>5, <1>6 DEF FrameInv, Types
    <2>6. lock' \in [Futexes -> Threads \cup {None}]
      BY <1>3 DEF FrameInv, Types
    <2>7. count' \in [Futexes -> Int]
      <3>1. PICK k \in Nat : k = Cardinality(R)
        BY <1>2
      <3>2. count \in [Futexes -> Int]
        BY DEF FrameInv, Types
      <3>3. PICK x \in Int, y \in Int : x = count[f] - k /\ y = count[g] + k
        BY <1>1, <3>1, <3>2
      <3>4. count' = [count EXCEPT ![f] = x, ![g] = y]
        BY <1>1, <1>3, <3>1, <3>2, <3>3
      <3> QED  BY <3>2, <3>4
    <2> QED  BY <1>1, <2>1, <2>2, <2>3, <2>4, <2>5, <2>6, <2>7 DEF FrameInv, Types
  <1>8. \A u \in Threads \ {t} : rel'[u] = rel[u]
    BY <1>6 DEF FrameInv, Types
  <1>9. \A u \in S \cup R : pc[u] = "blocked" /\ blocking[u] = f /\ u # t
    BY <1>1, <1>2 DEF FrameInv, QueueOK
  <1>10. ASSUME NEW u \in Threads PROVE Local(u)'
    <2>0. Local(u)
      BY DEF FrameInv
    <2>1. CASE u = t
      <3>1. pc'[u] = "release" /\ arg'[u] = NoArg /\ blocking'[u] = blocking[u] /\ rel'[u] = r
        BY <1>2, <1>4, <1>6, <2>1 DEF FrameInv, Types
      <3>2. RelOK(u)'
        BY <1>1, <1>5, <3>1 DEF RelOK
      <3> QED  BY <1>1, <2>0, <2>1, <3>1, <3>2 DEF Local, ArgsOK, BlockingOK
    <2>2. CASE u \in S
      <3>1. pc'[u] = "idle" /\ arg'[u] = NoArg /\ blocking'[u] = None /\ rel'[u] = rel[u]
        BY <1>2, <1>4, <1>8, <1>9, <2>2
      <3> QED  BY <1>9, <2>0, <2>2, <3>1 DEF Local, ArgsOK, BlockingOK, RelOK
    <2>3. CASE u \in R
      <3>1. pc'[u] = "blocked" /\ arg'[u] = NoArg /\ blocking'[u] = g /\ rel'[u] = rel[u]
        BY <1>2, <1>4, <1>8, <1>9, <2>3
      <3>2. g # None
        BY <1>1, FutexAssumption
      <3> QED  BY <1>9, <2>0, <2>3, <3>1, <3>2 DEF Local, ArgsOK, BlockingOK, RelOK
    <2>4. CASE u # t /\ u \notin S \cup R
      <3>1. Same(u)
        BY <1>4, <1>8, <2>4 DEF Same
      <3> QED  BY <2>0, <3>1 DEF Local, ArgsOK, BlockingOK, RelOK, Same
    <2> QED  BY <2>1, <2>2, <2>3, <2>4
  <1>11. QueueOK'
    <2> SUFFICES ASSUME NEW h \in Futexes, NEW u \in Threads
                 PROVE  u \in waiters'[h] <=> pc'[u] = "blocked" /\ blocking'[u] = h
      BY DEF QueueOK
    <2>1. u \in waiters[h] <=> pc[u] = "blocked" /\ blocking[u] = h
      BY DEF FrameInv, QueueOK
    <2>2. u \in waiters'[h] <=> ((u \in waiters[h] /\ ~(u \in S \cup R /\ h = f))
                                 \/ (u \in R /\ h = g))
      BY <1>1, <1>3 DEF FrameInv, Types
    <2>3. CASE u \in S
      BY <1>1, <1>2, <1>4, <1>9, <2>1, <2>2, <2>3
    <2>4. CASE u \in R
      BY <1>1, <1>2, <1>4, <1>9, <2>1, <2>2, <2>4
    <2>5. CASE u \notin S \cup R
      BY <1>1, <1>4, <2>1, <2>2, <2>5
    <2> QED  BY <2>3, <2>4, <2>5
  <1>12. LockOK'
    <2>1. \A h \in Futexes \ {f, g} : lock'[h] = lock[h]
      BY <1>3 DEF FrameInv, Types
    <2>2. ASSUME NEW u \in Threads, pc'[u] \in {"checked", "requeue_checked"}
          PROVE  /\ pc'[u] = "checked" => lock'[arg'[u].f] = u
                 /\ pc'[u] = "requeue_checked" => lock'[arg'[u].f] = u /\ lock'[arg'[u].g] = u
      <3>1. u # t /\ u \notin S /\ u \notin R
        BY <1>4, <1>9, <2>2
      <3>2. pc'[u] = pc[u] /\ arg'[u] = arg[u]
        BY <1>4, <3>1
      <3> QED  BY <1>1, <2>1, <3>1, <3>2, DropLock
    <2> QED  BY <2>2 DEF LockOK
  <1> QED  BY <1>7, <1>10, <1>11, <1>12 DEF FrameInv

LEMMA FrameInit ==
  ASSUME Init
  PROVE  FrameInv
  BY FutexAssumption, NoRefsType
  DEF Init, FrameInv, Types, Local, ArgsOK, BlockingOK, RelOK, QueueOK, LockOK, Labels

LEMMA FrameStep ==
  ASSUME FrameInv, [Next]_vars
  PROVE  FrameInv'
  <1>1. ASSUME NEW t \in Threads, Create(t) \/ Exit(t) \/ Destroy(t)
        PROVE  FrameInv'
    BY <1>1, CreateFrame, ExitFrame, DestroyFrame
  <1>2. ASSUME NEW t \in Threads, Call(t)
        PROVE  FrameInv'
    <2>1. WakeCounts \subseteq Nat
      BY FutexAssumption
    <2>2. CASE \E f \in Futexes, expect \in {0, 1}, o \in Threads \cup {None} : Wait(t, f, expect, o)
      BY <2>2, WaitFrame
    <2>3. CASE \E f \in Futexes, n \in WakeCounts : WakeCall(t, f, n, "RELEASE")
      BY <2>1, <2>3, WakeCallFrame
    <2>4. CASE \E f \in Futexes : WakeCall(t, f, 1, "ASSIGN_WOKEN")
      BY <2>4, WakeCallFrame
    <2>5. CASE \E f, g \in Futexes, n, m \in WakeCounts, expect \in {0, 1},
                 o \in Threads \cup {None}, action \in RequeueActions :
                 RequeueCall(t, f, g, n, m, expect, o, action)
      BY <2>1, <2>5, RequeueCallFrame
    <2>6. CASE \E f \in Futexes : GetOwnerCall(t, f)
      BY <2>6, GetOwnerCallFrame
    <2> QED  BY <1>2, <2>2, <2>3, <2>4, <2>5, <2>6 DEF Call
  <1>3. ASSUME NEW t \in Threads, InCall(t)
        PROVE  FrameInv'
    BY <1>3, WaitCheckFrame, WaitFailsFrame, BlockFrame, BlockFailsFrame, FindBlockingFrame,
       ClearOwnerFrame, ReleaseFrame, FutexWakeFrame, RequeueCheckFrame, RequeueFailsFrame,
       FutexRequeueFrame DEF InCall
  <1>4. ASSUME NEW t \in Threads, Unblock(t) \/ WakeAfterStore(t)
        PROVE  FrameInv'
    BY <1>4, UnblockFrame, WakeAfterStoreFrame
  <1>5. ASSUME NEW t \in Threads, NEW f \in Futexes, Store(t, f)
        PROVE  FrameInv'
    BY <1>5, StoreFrame
  <1>6. CASE UNCHANGED vars
    BY <1>6 DEF FrameInv, Types, Local, ArgsOK, BlockingOK, RelOK, QueueOK, LockOK,
                vars, userVars, poolVars, queueVars, threadVars
  <1> QED  BY <1>1, <1>2, <1>3, <1>4, <1>5, <1>6 DEF Next

(* Every variable of Futex has its type, the arguments and references of a *)
(* thread fit its label, the wait queues hold the threads that block on    *)
(* them, and a thread past its check of the value holds the locks.         *)
THEOREM FrameInvariant == Spec => []FrameInv
  BY FrameInit, FrameStep, PTL DEF Spec
-----------------------------------------------------------------------------
(* Owners.                                                                 *)

(* The owner that a thread with the locks is going to assign does not wait *)
(* there, and the locks keep it from going to.                             *)
ProposedOK ==
  \A t \in Threads :
    /\ pc[t] = "checked" /\ arg[t].owner # None =>
         arg[t].owner # t /\ blocking[arg[t].owner] # arg[t].f
    /\ pc[t] = "requeue_checked" /\ arg[t].owner # None =>
         /\ blocking[arg[t].owner] # arg[t].f
         /\ blocking[arg[t].owner] # arg[t].g

OwnerInv == ProposedOK /\ OwnerSound

(* A step of t in which no thread takes a lock, blocks or is woken.        *)
Calm(t) ==
  /\ UNCHANGED <<waiters, blocking, owner>>
  /\ \A u \in Threads \ {t} : Same(u)
  /\ pc[t] \notin {"checked", "blocked", "removed", "found", "requeue_checked"}
  /\ pc'[t] \notin {"checked", "blocked", "removed", "found", "requeue_checked"}
  /\ Live(t) => pc'[t] \notin {"unborn", "dead", "gone"}

LEMMA LeaveCalm ==
  ASSUME FrameInv, NEW t \in Threads, NEW fs, Leave(t, fs), UNCHANGED queueVars,
         pc[t] \in {"idle", "activated", "requeue"}
  PROVE  Calm(t)
  <1> DEFINE r == [h \in Futexes |-> IF h \in fs THEN 1 ELSE 0]
  <1>1. rel' = [rel EXCEPT ![t] = r]
    BY DEF Leave
  <1> HIDE DEF r
  <1> QED  BY <1>1 DEF FrameInv, Types, Leave, Goto, Calm, Same, queueVars

LEMMA ReleaseCalm ==
  ASSUME FrameInv, NEW t \in Threads, Release(t)
  PROVE  Calm(t)
  <1>1. PICK f \in Futexes :
           /\ pc[t] = "release"
           /\ rel' = [rel EXCEPT ![t] = [rel[t] EXCEPT ![f] = 0]]
           /\ pc'[t] = IF [rel[t] EXCEPT ![f] = 0] = NoRefs THEN "idle" ELSE "release"
           /\ \A u \in Threads \ {t} : pc'[u] = pc[u]
           /\ UNCHANGED <<userVars, queueVars, arg>>
    BY ReleaseFacts
  <1>2. \A u \in Threads \ {t} : rel'[u] = rel[u]
    BY <1>1 DEF FrameInv, Types
  <1>3. pc'[t] \in {"idle", "release"}
    BY <1>1
  <1> QED  BY <1>1, <1>2, <1>3 DEF Calm, Same, queueVars

LEMMA CallCalm ==
  ASSUME FrameInv, NEW t \in Threads, Call(t)
  PROVE  Calm(t)
  <1>1. ASSUME NEW a, arg' = [arg EXCEPT ![t] = a], NEW l \in {"activated", "wake", "requeue"},
               Goto(t, l), pc[t] = "idle", UNCHANGED <<queueVars, rel>>
        PROVE  Calm(t)
    BY <1>1 DEF FrameInv, Types, Goto, Calm, Same, queueVars
  <1>2. CASE \E f \in Futexes, expect \in {0, 1}, o \in Threads \cup {None} : Wait(t, f, expect, o)
    BY <1>1, <1>2 DEF Wait
  <1>3. CASE \E f \in Futexes, n \in WakeCounts : WakeCall(t, f, n, "RELEASE")
    BY <1>1, <1>3 DEF WakeCall
  <1>4. CASE \E f \in Futexes : WakeCall(t, f, 1, "ASSIGN_WOKEN")
    BY <1>1, <1>4 DEF WakeCall
  <1>5. CASE \E f, g \in Futexes, n, m \in WakeCounts, expect \in {0, 1},
               o \in Threads \cup {None}, action \in RequeueActions :
               RequeueCall(t, f, g, n, m, expect, o, action)
    BY <1>1, <1>5 DEF RequeueCall
  <1>6. CASE \E f \in Futexes : GetOwnerCall(t, f)
    BY <1>6, LeaveCalm DEF GetOwnerCall
  <1> QED  BY <1>2, <1>3, <1>4, <1>5, <1>6 DEF Call

(* The steps that move threads or owners, and the calm rest.               *)
LEMMA StepCases ==
  ASSUME FrameInv, Next
  PROVE  \E t \in Threads :
           \/ Calm(t) \/ Exit(t) \/ WaitCheck(t) \/ Block(t) \/ BlockFails(t) \/ Unblock(t)
           \/ FindBlocking(t) \/ ClearOwner(t) \/ FutexWake(t) \/ RequeueCheck(t)
           \/ FutexRequeue(t)
  <1>1. ASSUME NEW t \in Threads, Create(t) \/ Destroy(t)
        PROVE  Calm(t)
    BY <1>1 DEF FrameInv, Types, Create, Destroy, Goto, Calm, Same, Live, queueVars
  <1>2. ASSUME NEW t \in Threads, NEW f \in Futexes, Store(t, f)
        PROVE  Calm(t)
    BY <1>2 DEF FrameInv, Types, Store, Goto, Calm, Same, queueVars
  <1>3. ASSUME NEW t \in Threads, WakeAfterStore(t)
        PROVE  Calm(t)
    BY <1>3 DEF FrameInv, Types, WakeAfterStore, Goto, Calm, Same, queueVars
  <1>4. ASSUME NEW t \in Threads, WaitFails(t) \/ RequeueFails(t)
        PROVE  Calm(t)
    BY <1>4, LeaveCalm DEF WaitFails, RequeueFails
  <1> QED  BY <1>1, <1>2, <1>3, <1>4, CallCalm, ReleaseCalm DEF Next, InCall

(* A step that gives no futex a new owner or waiter.                       *)
LEMMA OwnersKept ==
  ASSUME FrameInv, OwnerInv,
         \A f \in Futexes : waiters'[f] \subseteq waiters[f],
         \A f \in Futexes : owner'[f] = owner[f] \/ owner'[f] = None,
         \A u \in Threads : Live(u) => Live(u)' \/ \A f \in Futexes : owner'[f] # u
  PROVE  OwnerSound'
  <1> SUFFICES ASSUME NEW f \in Futexes, owner'[f] # None
               PROVE  /\ owner'[f] \notin waiters'[f]
                      /\ pc'[owner'[f]] \notin {"unborn", "dead", "gone"}
    BY DEF OwnerSound, Live
  <1>1. owner'[f] = owner[f] /\ owner[f] \in Threads
    BY DEF FrameInv, Types
  <1>2. owner[f] \notin waiters[f] /\ Live(owner[f])
    BY <1>1 DEF OwnerInv, OwnerSound
  <1>3. PICK u \in Threads : u = owner[f]
    BY <1>1
  <1>4. Live(u)'
    BY <1>1, <1>2, <1>3
  <1> QED  BY <1>1, <1>2, <1>3, <1>4 DEF Live

(* A step in which nobody starts to wait.                                  *)
LEMMA ProposedKept ==
  ASSUME FrameInv, OwnerInv,
         \A u \in Threads : blocking'[u] = blocking[u] \/ blocking'[u] = None,
         \A u \in Threads : pc'[u] \in {"checked", "requeue_checked"} =>
           pc'[u] = pc[u] /\ arg'[u] = arg[u]
  PROVE  ProposedOK'
  <1> SUFFICES ASSUME NEW t \in Threads, pc'[t] \in {"checked", "requeue_checked"},
                      arg'[t].owner # None
               PROVE  /\ pc'[t] = "checked" =>
                           arg'[t].owner # t /\ blocking'[arg'[t].owner] # arg'[t].f
                      /\ pc'[t] = "requeue_checked" =>
                           /\ blocking'[arg'[t].owner] # arg'[t].f
                           /\ blocking'[arg'[t].owner] # arg'[t].g
    BY DEF ProposedOK
  <1>1. pc'[t] = pc[t] /\ arg'[t] = arg[t]
    OBVIOUS
  <1>2. /\ arg[t].owner \in Threads
        /\ arg[t].f \in Futexes /\ arg[t].f # None
        /\ pc[t] = "requeue_checked" => arg[t].g \in Futexes /\ arg[t].g # None
    BY <1>1, ArgFacts, FutexAssumption
  <1> QED  BY <1>1, <1>2 DEF OwnerInv, ProposedOK

LEMMA CalmOwner ==
  ASSUME FrameInv, OwnerInv, NEW t \in Threads, Calm(t)
  PROVE  OwnerInv'
  <1>1. ProposedOK'
    BY ProposedKept DEF Calm, Same
  <1>2. \A u \in Threads : Live(u) => Live(u)'
    BY DEF Calm, Same, Live
  <1>3. OwnerSound'
    BY <1>2, OwnersKept DEF Calm
  <1> QED  BY <1>1, <1>3 DEF OwnerInv

LEMMA ExitOwner ==
  ASSUME FrameInv, OwnerInv, NEW t \in Threads, Exit(t)
  PROVE  OwnerInv'
  <1>1. /\ pc' = [pc EXCEPT ![t] = "dead"] /\ UNCHANGED <<waiters, blocking, arg>>
        /\ owner' = [f \in Futexes |-> IF owner[f] = t THEN None ELSE owner[f]]
    BY DEF Exit, Goto, DisownAllQueues
  <1>2. t # None
    BY FutexAssumption
  <1>3. pc'[t] = "dead" /\ \A u \in Threads \ {t} : pc'[u] = pc[u]
    BY <1>1 DEF FrameInv, Types
  <1>4. ProposedOK'
    BY <1>1, <1>3, ProposedKept
  <1>5. \A f \in Futexes : owner'[f] = owner[f] \/ owner'[f] = None
    BY <1>1
  <1>6. \A f \in Futexes : owner'[f] # t
    BY <1>1, <1>2
  <1>7. \A u \in Threads : Live(u) => Live(u)' \/ \A f \in Futexes : owner'[f] # u
    BY <1>3, <1>6 DEF Live
  <1>8. OwnerSound'
    BY <1>1, <1>5, <1>7, OwnersKept
  <1> QED  BY <1>4, <1>8 DEF OwnerInv

LEMMA WaitCheckOwner ==
  ASSUME FrameInv, OwnerInv, NEW t \in Threads, WaitCheck(t)
  PROVE  OwnerInv'
  <1>0. PICK f : f = arg[t].f
    OBVIOUS
  <1>1. /\ pc[t] = "activated" /\ f \in Futexes /\ lock[f] = None
        /\ arg[t].owner \in Threads \cup {None}
        /\ arg[t].owner # None => arg[t].owner # t /\ blocking[arg[t].owner] # f
    BY <1>0, ArgFacts DEF WaitCheck, OwnerAllowed
  <1>2. /\ blocking' = [blocking EXCEPT ![t] = f] /\ pc' = [pc EXCEPT ![t] = "checked"]
        /\ UNCHANGED <<waiters, owner, arg>>
    BY <1>0 DEF WaitCheck, Goto
  <1>3. /\ pc'[t] = "checked" /\ \A u \in Threads \ {t} : pc'[u] = pc[u]
        /\ blocking'[t] = f /\ \A u \in Threads \ {t} : blocking'[u] = blocking[u]
    BY <1>2 DEF FrameInv, Types
  <1>4. OwnerSound'
    <2>1. \A u \in Threads : Live(u) => Live(u)'
      BY <1>3 DEF Live
    <2> QED  BY <1>2, <2>1, OwnersKept
  <1>5. ASSUME NEW u \in Threads, arg[u].owner # None
        PROVE  /\ pc'[u] = "checked" =>
                    arg[u].owner # u /\ blocking'[arg[u].owner] # arg[u].f
               /\ pc'[u] = "requeue_checked" =>
                    /\ blocking'[arg[u].owner] # arg[u].f
                    /\ blocking'[arg[u].owner] # arg[u].g
    <2>1. CASE u = t
      BY <1>0, <1>1, <1>3, <1>5, <2>1
    <2>2. CASE u # t /\ pc[u] = "checked"
      <3>1. arg[u].owner \in Threads /\ lock[arg[u].f] = u /\ u # None
        BY <1>5, <2>2, ArgFacts, FutexAssumption DEF FrameInv, LockOK
      <3>2. arg[u].owner # u /\ blocking[arg[u].owner] # arg[u].f
        BY <1>5, <2>2 DEF OwnerInv, ProposedOK
      <3> QED  BY <1>1, <1>3, <2>2, <3>1, <3>2
    <2>3. CASE u # t /\ pc[u] = "requeue_checked"
      <3>1. arg[u].owner \in Threads /\ lock[arg[u].f] = u /\ lock[arg[u].g] = u /\ u # None
        BY <1>5, <2>3, ArgFacts, FutexAssumption DEF FrameInv, LockOK
      <3>2. blocking[arg[u].owner] # arg[u].f /\ blocking[arg[u].owner] # arg[u].g
        BY <1>5, <2>3 DEF OwnerInv, ProposedOK
      <3> QED  BY <1>1, <1>3, <2>3, <3>1, <3>2
    <2>4. CASE u # t /\ pc[u] \notin {"checked", "requeue_checked"}
      BY <1>3, <2>4
    <2> QED  BY <2>1, <2>2, <2>3, <2>4
  <1>6. ProposedOK'
    BY <1>2, <1>5 DEF ProposedOK
  <1> QED  BY <1>4, <1>6 DEF OwnerInv

(* Block, whether or not the thread goes to sleep.                         *)
LEMMA AssignOwner ==
  ASSUME FrameInv, OwnerInv, NEW t \in Threads, pc[t] = "checked",
         owner' = [owner EXCEPT ![arg[t].f] = NewOwner(arg[t].owner)],
         waiters' = waiters \/ waiters' = [waiters EXCEPT ![arg[t].f] = @ \cup {t}],
         blocking' = blocking, NEW a, arg' = [arg EXCEPT ![t] = a],
         NEW l \in {"blocked", "removed"}, pc' = [pc EXCEPT ![t] = l]
  PROVE  OwnerInv'
  <1>0. PICK f, o : f = arg[t].f /\ o = arg[t].owner
    OBVIOUS
  <1>1. /\ f \in Futexes /\ o \in Threads \cup {None}
        /\ o # None => o # t /\ blocking[o] # f
    BY <1>0, ArgFacts DEF OwnerInv, ProposedOK
  <1>2. pc'[t] = l /\ \A u \in Threads \ {t} : pc'[u] = pc[u] /\ arg'[u] = arg[u]
    BY DEF FrameInv, Types
  <1>3. ProposedOK'
    BY <1>2, ProposedKept
  <1>4. ASSUME NEW h \in Futexes, owner'[h] # None
        PROVE  /\ owner'[h] \notin waiters'[h]
               /\ pc'[owner'[h]] \notin {"unborn", "dead", "gone"}
    <2>1. CASE h = f
      <3>1. owner'[h] = NewOwner(o)
        BY <1>0, <1>1, <2>1 DEF FrameInv, Types
      <3>2. owner'[h] = o /\ o \in Threads /\ Live(o)
        BY <1>1, <1>4, <3>1 DEF NewOwner
      <3>3. waiters'[h] \subseteq waiters[h] \cup {t}
        BY <1>0, <1>1, <2>1 DEF FrameInv, Types
      <3>4. o \notin waiters[h]
        BY <1>1, <1>4, <2>1, <3>2 DEF FrameInv, QueueOK
      <3>5. o # t
        BY <1>1, <1>4, <3>2
      <3> QED  BY <1>2, <3>2, <3>3, <3>4, <3>5 DEF Live
    <2>2. CASE h # f
      <3>1. owner'[h] = owner[h] /\ waiters'[h] = waiters[h] /\ owner[h] \in Threads
        BY <1>0, <1>4, <2>2 DEF FrameInv, Types
      <3>2. owner[h] \notin waiters[h] /\ Live(owner[h])
        BY <1>4, <3>1 DEF OwnerInv, OwnerSound
      <3> QED  BY <1>2, <3>1, <3>2 DEF Live
    <2> QED  BY <2>1, <2>2
  <1>5. OwnerSound'
    BY <1>4 DEF OwnerSound, Live
  <1> QED  BY <1>3, <1>5 DEF OwnerInv

LEMMA BlockOwner ==
  ASSUME FrameInv, OwnerInv, NEW t \in Threads, Block(t) \/ BlockFails(t)
  PROVE  OwnerInv'
  <1>1. CASE Block(t)
    <2>1. PICK a : arg' = [arg EXCEPT ![t] = a]
      BY <1>1 DEF Block
    <2> QED  BY <1>1, <2>1, AssignOwner DEF Block, Goto
  <1>2. CASE BlockFails(t)
    BY <1>2, AssignOwner DEF BlockFails, Goto
  <1> QED  BY <1>1, <1>2

LEMMA UnblockOwner ==
  ASSUME FrameInv, OwnerInv, NEW t \in Threads, Unblock(t)
  PROVE  OwnerInv'
  <1>1. /\ waiters' = [f \in Futexes |-> waiters[f] \ {t}]
        /\ arg' = [arg EXCEPT ![t] = NoArg]
        /\ pc' = [pc EXCEPT ![t] = "removed"]
        /\ UNCHANGED <<owner, blocking>>
    BY DEF Unblock, Goto
  <1>2. pc'[t] = "removed" /\ \A u \in Threads \ {t} : pc'[u] = pc[u] /\ arg'[u] = arg[u]
    BY <1>1 DEF FrameInv, Types
  <1>3. ProposedOK'
    BY <1>1, <1>2, ProposedKept
  <1>4. \A u \in Threads : Live(u) => Live(u)'
    BY <1>2 DEF Live
  <1>5. OwnerSound'
    BY <1>1, <1>4, OwnersKept
  <1> QED  BY <1>3, <1>5 DEF OwnerInv

LEMMA FindBlockingOwner ==
  ASSUME FrameInv, OwnerInv, NEW t \in Threads, FindBlocking(t)
  PROVE  OwnerInv'
  <1>1. /\ blocking' = [blocking EXCEPT ![t] = None]
        /\ pc' = [pc EXCEPT ![t] = "found"]
        /\ UNCHANGED <<owner, waiters, arg>>
    BY DEF FindBlocking, Goto
  <1>2. /\ pc'[t] = "found" /\ \A u \in Threads \ {t} : pc'[u] = pc[u]
        /\ \A u \in Threads : blocking'[u] = blocking[u] \/ blocking'[u] = None
    BY <1>1 DEF FrameInv, Types
  <1>3. ProposedOK'
    BY <1>1, <1>2, ProposedKept
  <1>4. \A u \in Threads : Live(u) => Live(u)'
    BY <1>2 DEF Live
  <1>5. OwnerSound'
    BY <1>1, <1>4, OwnersKept
  <1> QED  BY <1>3, <1>5 DEF OwnerInv

LEMMA ClearOwnerOwner ==
  ASSUME FrameInv, OwnerInv, NEW t \in Threads, ClearOwner(t)
  PROVE  OwnerInv'
  <1>0. PICK f \in Futexes : owner' = [owner EXCEPT ![f] = OwnerAfterTimeout(f)]
    BY DEF ClearOwner
  <1>1. pc' = [pc EXCEPT ![t] = "release"] /\ UNCHANGED <<waiters, blocking, arg>>
    BY DEF ClearOwner, Goto
  <1>2. pc'[t] = "release" /\ \A u \in Threads \ {t} : pc'[u] = pc[u]
    BY <1>1 DEF FrameInv, Types
  <1>3. ProposedOK'
    BY <1>1, <1>2, ProposedKept
  <1>4. \A u \in Threads : Live(u) => Live(u)'
    BY <1>2 DEF Live
  <1>5. \A h \in Futexes : owner'[h] = owner[h] \/ owner'[h] = None
    BY <1>0 DEF OwnerAfterTimeout, FrameInv, Types
  <1>6. OwnerSound'
    BY <1>1, <1>4, <1>5, OwnersKept
  <1> QED  BY <1>3, <1>6 DEF OwnerInv

LEMMA RequeueCheckOwner ==
  ASSUME FrameInv, OwnerInv, NEW t \in Threads, RequeueCheck(t)
  PROVE  OwnerInv'
  <1>1. pc' = [pc EXCEPT ![t] = "requeue_checked"] /\ UNCHANGED <<waiters, owner, blocking, arg>>
    BY DEF RequeueCheck, Goto
  <1>2. pc'[t] = "requeue_checked" /\ \A u \in Threads \ {t} : pc'[u] = pc[u]
    BY <1>1 DEF FrameInv, Types
  <1>3. arg[t].owner # None =>
          blocking[arg[t].owner] # arg[t].f /\ blocking[arg[t].owner] # arg[t].g
    BY DEF RequeueCheck, RequeueAllowed
  <1>4. ProposedOK'
    BY <1>1, <1>2, <1>3 DEF OwnerInv, ProposedOK
  <1>5. \A u \in Threads : Live(u) => Live(u)'
    BY <1>2 DEF Live
  <1>6. OwnerSound'
    BY <1>1, <1>5, OwnersKept
  <1> QED  BY <1>4, <1>6 DEF OwnerInv

LEMMA FutexWakeOwner ==
  ASSUME FrameInv, OwnerInv, NEW t \in Threads, FutexWake(t)
  PROVE  OwnerInv'
  <1>0. PICK f, S : WakeStep(t, f, S)
    BY WakeFacts
  <1>1. /\ pc[t] = "wake" /\ f \in Futexes /\ S \in SUBSET Threads /\ S \subseteq waiters[f]
        /\ waiters' = [waiters EXCEPT ![f] = @ \ S]
        /\ owner' = [owner EXCEPT ![f] = WakeOwner(S, waiters[f] \ S, arg[t].action)]
        /\ blocking' = [u \in Threads |-> IF u \in S THEN None ELSE blocking[u]]
        /\ pc' = [u \in Threads |-> IF u \in S THEN "idle"
                                    ELSE IF u = t THEN "release" ELSE pc[u]]
        /\ arg' = [u \in Threads |-> IF u \in S \cup {t} THEN NoArg ELSE arg[u]]
    BY <1>0 DEF WakeStep
  <1>2. \A u \in Threads : blocking'[u] = blocking[u] \/ blocking'[u] = None
    BY <1>1
  <1>3. \A u \in Threads : pc'[u] \in {"checked", "requeue_checked"} =>
          pc'[u] = pc[u] /\ arg'[u] = arg[u]
    BY <1>1
  <1>4. ProposedOK'
    BY <1>2, <1>3, ProposedKept
  <1>5. \A u \in Threads : Live(u) => pc'[u] \notin {"unborn", "dead", "gone"}
    BY <1>1 DEF Live
  <1>6. ASSUME NEW h \in Futexes, owner'[h] # None
        PROVE  /\ owner'[h] \notin waiters'[h]
               /\ pc'[owner'[h]] \notin {"unborn", "dead", "gone"}
    <2>1. CASE h = f
      <3>1. owner'[h] \in S
        BY <1>1, <1>6, <2>1, WakeOwnerFacts DEF FrameInv, Types
      <3>2. waiters'[h] = waiters[h] \ S
        BY <1>1, <2>1 DEF FrameInv, Types
      <3> QED  BY <1>1, <3>1, <3>2
    <2>2. CASE h # f
      <3>1. owner'[h] = owner[h] /\ waiters'[h] = waiters[h] /\ owner[h] \in Threads
        BY <1>1, <1>6, <2>2 DEF FrameInv, Types
      <3>2. owner[h] \notin waiters[h] /\ Live(owner[h])
        BY <1>6, <3>1 DEF OwnerInv, OwnerSound
      <3> QED  BY <1>5, <3>1, <3>2
    <2> QED  BY <2>1, <2>2
  <1>7. OwnerSound'
    BY <1>6 DEF OwnerSound, Live
  <1> QED  BY <1>4, <1>7 DEF OwnerInv

LEMMA FutexRequeueOwner ==
  ASSUME FrameInv, OwnerInv, NEW t \in Threads, FutexRequeue(t)
  PROVE  OwnerInv'
  <1>0. PICK f, g, S, R : RequeueStep(t, f, g, S, R)
    BY RequeueFacts
  <1>1. /\ pc[t] = "requeue_checked" /\ f \in Futexes /\ g \in Futexes /\ f # g
        /\ lock[f] = t /\ lock[g] = t /\ f = arg[t].f /\ g = arg[t].g
        /\ S \in SUBSET Threads /\ S \subseteq waiters[f]
        /\ R \in SUBSET Threads /\ R \subseteq waiters[f] \ S
    BY <1>0 DEF RequeueStep
  <1>2. /\ waiters' = [waiters EXCEPT ![f] = (@ \ S) \ R, ![g] = @ \cup R]
        /\ owner' = [owner EXCEPT
             ![f] = WakeOwner(S, waiters[f] \ S, arg[t].action),
             ![g] = IF waiters[g] \cup R = {} THEN None ELSE NewOwner(arg[t].owner)]
    BY <1>0 DEF RequeueStep
  <1>3. /\ blocking' = [u \in Threads |-> IF u \in R THEN g
                                          ELSE IF u \in S THEN None ELSE blocking[u]]
        /\ pc' = [u \in Threads |-> IF u \in S THEN "idle"
                                    ELSE IF u = t THEN "release" ELSE pc[u]]
        /\ arg' = [u \in Threads |-> IF u \in S \cup R \cup {t} THEN NoArg ELSE arg[u]]
    BY <1>0 DEF RequeueStep
  <1>4. PICK o : o = arg[t].owner
    OBVIOUS
  <1>5. /\ o \in Threads \cup {None}
        /\ o # None => blocking[o] # f /\ blocking[o] # g
    BY <1>1, <1>4, ArgFacts DEF OwnerInv, ProposedOK
  <1>6. \A u \in Threads : Live(u) => pc'[u] \notin {"unborn", "dead", "gone"}
    BY <1>3 DEF Live
  <1>7. ASSUME NEW h \in Futexes, owner'[h] # None
        PROVE  /\ owner'[h] \notin waiters'[h]
               /\ pc'[owner'[h]] \notin {"unborn", "dead", "gone"}
    <2>1. CASE h = f
      <3>1. owner'[h] \in S
        BY <1>1, <1>2, <1>7, <2>1, WakeOwnerFacts DEF FrameInv, Types
      <3>2. waiters'[h] = (waiters[h] \ S) \ R
        BY <1>1, <1>2, <2>1 DEF FrameInv, Types
      <3> QED  BY <1>1, <1>3, <3>1, <3>2
    <2>2. CASE h = g
      <3>1. owner'[h] = IF waiters[g] \cup R = {} THEN None ELSE NewOwner(o)
        BY <1>1, <1>2, <1>4, <2>2 DEF FrameInv, Types
      <3>2. owner'[h] = o /\ o \in Threads /\ Live(o) /\ o # None
        BY <1>5, <1>7, <3>1 DEF NewOwner
      <3>3. waiters'[h] = waiters[h] \cup R
        BY <1>1, <1>2, <2>2 DEF FrameInv, Types
      <3>4. o \notin waiters[f] /\ o \notin waiters[g]
        BY <1>1, <1>5, <3>2 DEF FrameInv, QueueOK
      <3> QED  BY <1>1, <1>6, <2>2, <3>2, <3>3, <3>4
    <2>3. CASE h # f /\ h # g
      <3>1. owner'[h] = owner[h] /\ waiters'[h] = waiters[h] /\ owner[h] \in Threads
        BY <1>2, <1>7, <2>3 DEF FrameInv, Types
      <3>2. owner[h] \notin waiters[h] /\ Live(owner[h])
        BY <1>7, <3>1 DEF OwnerInv, OwnerSound
      <3> QED  BY <1>6, <3>1, <3>2
    <2> QED  BY <2>1, <2>2, <2>3
  <1>8. OwnerSound'
    BY <1>7 DEF OwnerSound, Live
  <1>9. ASSUME NEW u \in Threads, pc'[u] \in {"checked", "requeue_checked"}, arg'[u].owner # None
        PROVE  /\ pc'[u] = "checked" =>
                    arg'[u].owner # u /\ blocking'[arg'[u].owner] # arg'[u].f
               /\ pc'[u] = "requeue_checked" =>
                    /\ blocking'[arg'[u].owner] # arg'[u].f
                    /\ blocking'[arg'[u].owner] # arg'[u].g
    <2>1. u # t /\ u \notin S /\ u \notin R
      BY <1>1, <1>3, <1>9 DEF FrameInv, QueueOK
    <2>2. pc'[u] = pc[u] /\ arg'[u] = arg[u]
      BY <1>3, <2>1
    <2>3. PICK p : p = arg[u].owner
      OBVIOUS
    <2>4. p \in Threads /\ p # None
      BY <1>9, <2>2, <2>3, ArgFacts
    <2>5. blocking'[p] = blocking[p] \/ blocking'[p] = None \/ blocking'[p] = g
      BY <1>3, <2>4
    <2>6. CASE pc[u] = "checked"
      <3>1. arg[u].f \in Futexes /\ arg[u].f # None /\ arg[u].f # g
        BY <1>1, <2>1, <2>6, ArgFacts, FutexAssumption DEF FrameInv, LockOK
      <3>2. p # u /\ blocking[p] # arg[u].f
        BY <2>3, <2>4, <2>6 DEF OwnerInv, ProposedOK
      <3> QED  BY <2>2, <2>3, <2>5, <2>6, <3>1, <3>2
    <2>7. CASE pc[u] = "requeue_checked"
      <3>1. /\ arg[u].f \in Futexes /\ arg[u].f # None /\ arg[u].f # g
            /\ arg[u].g \in Futexes /\ arg[u].g # None /\ arg[u].g # g
        BY <1>1, <2>1, <2>7, ArgFacts, FutexAssumption DEF FrameInv, LockOK
      <3>2. blocking[p] # arg[u].f /\ blocking[p] # arg[u].g
        BY <2>3, <2>4, <2>7 DEF OwnerInv, ProposedOK
      <3> QED  BY <2>2, <2>3, <2>5, <2>7, <3>1, <3>2
    <2> QED  BY <1>9, <2>2, <2>6, <2>7
  <1>10. ProposedOK'
    BY <1>9 DEF ProposedOK
  <1> QED  BY <1>8, <1>10 DEF OwnerInv

LEMMA OwnerStep ==
  ASSUME FrameInv, OwnerInv, [Next]_vars
  PROVE  OwnerInv'
  <1>1. CASE Next
    <2>1. PICK t \in Threads :
            \/ Calm(t) \/ Exit(t) \/ WaitCheck(t) \/ Block(t) \/ BlockFails(t) \/ Unblock(t)
            \/ FindBlocking(t) \/ ClearOwner(t) \/ FutexWake(t) \/ RequeueCheck(t)
            \/ FutexRequeue(t)
      BY <1>1, StepCases
    <2> QED  BY <2>1, CalmOwner, ExitOwner, WaitCheckOwner, BlockOwner, UnblockOwner,
                FindBlockingOwner, ClearOwnerOwner, FutexWakeOwner, RequeueCheckOwner,
                FutexRequeueOwner
  <1>2. CASE UNCHANGED vars
    BY <1>2 DEF OwnerInv, ProposedOK, OwnerSound, Live, vars, queueVars, threadVars
  <1> QED  BY <1>1, <1>2

(* The new owner a call carries from its check to the queue, under the     *)
(* futex's lock, does not wait there meanwhile (futex_context.cc), so that *)
(* OwnerSound is kept.                                                     *)
THEOREM OwnerInvariant == Spec => []OwnerInv
  <1>1. Init => OwnerInv
    BY DEF Init, OwnerInv, ProposedOK, OwnerSound
  <1>2. FrameInv /\ OwnerInv /\ [Next]_vars => OwnerInv'
    BY OwnerStep
  <1> QED  BY <1>1, <1>2, FrameInvariant, PTL DEF Spec

(* OwnedWaitQueue never lets a thread wait for itself, and a thread that   *)
(* exits leaves no queue behind: the owner of a futex is alive and not in  *)
(* its queue, whatever the callers name as the new owner.                  *)
THEOREM OwnerSoundHolds == Spec => []OwnerSound
  BY OwnerInvariant, PTL DEF OwnerInv
-----------------------------------------------------------------------------
(* An owned futex has waiters, or a thread on its way to clear the owner.  *)

Attended(f) ==
  \/ waiters[f] # {}
  \/ \E t \in Threads : pc[t] = "removed" /\ blocking[t] = f
  \/ \E t \in Threads : pc[t] = "found" /\ rel[t][f] > 0

(* A step that leaves the waiters and those who have left the queue alone. *)
LEMMA AttendedKept ==
  ASSUME NEW f \in Futexes, Attended(f), waiters[f] # {} => waiters'[f] # {},
         \A u \in Threads : pc[u] \in {"removed", "found"} => Same(u)
  PROVE  Attended(f)'
  BY DEF Attended, Same

LEMMA OwnedKept ==
  ASSUME FrameInv, OwnedHasWaiters,
         \A f \in Futexes : waiters[f] # {} => waiters'[f] # {},
         \A u \in Threads : pc[u] \in {"removed", "found"} => Same(u),
         \A f \in Futexes : owner'[f] = owner[f] \/ owner'[f] = None
  PROVE  OwnedHasWaiters'
  <1> SUFFICES ASSUME NEW f \in Futexes, owner'[f] # None
               PROVE  Attended(f)'
    BY DEF OwnedHasWaiters, Attended
  <1>1. Attended(f)
    BY DEF OwnedHasWaiters, Attended
  <1> QED  BY <1>1, AttendedKept

LEMMA CalmOwned ==
  ASSUME FrameInv, OwnedHasWaiters, NEW t \in Threads, Calm(t)
  PROVE  OwnedHasWaiters'
  <1>1. \A u \in Threads : pc[u] \in {"removed", "found"} => Same(u)
    BY DEF Calm
  <1> QED  BY <1>1, OwnedKept DEF Calm

LEMMA CheckOwned ==
  ASSUME FrameInv, OwnedHasWaiters, NEW t \in Threads,
         Exit(t) \/ WaitCheck(t) \/ RequeueCheck(t)
  PROVE  OwnedHasWaiters'
  <1>1. waiters' = waiters
    BY DEF Exit, WaitCheck, RequeueCheck
  <1>2. \A f \in Futexes : owner'[f] = owner[f] \/ owner'[f] = None
    BY DEF Exit, WaitCheck, RequeueCheck, DisownAllQueues
  <1>3. pc[t] \notin {"removed", "found"}
    BY DEF Exit, WaitCheck, RequeueCheck
  <1>4. ASSUME NEW u \in Threads \ {t} PROVE Same(u)
    BY DEF Exit, WaitCheck, RequeueCheck, Goto, FrameInv, Types, Same
  <1> QED  BY <1>1, <1>2, <1>3, <1>4, OwnedKept

LEMMA BlockOwned ==
  ASSUME FrameInv, OwnedHasWaiters, NEW t \in Threads, Block(t) \/ BlockFails(t)
  PROVE  OwnedHasWaiters'
  <1>0. PICK f : f = arg[t].f
    OBVIOUS
  <1>1. pc[t] = "checked" /\ f \in Futexes /\ blocking[t] = f
    BY <1>0, ArgFacts DEF Block, BlockFails, FrameInv, Local, BlockingOK
  <1>2. PICK o : owner' = [owner EXCEPT ![f] = o]
    BY <1>0 DEF Block, BlockFails
  <1>3. \A h \in Futexes \ {f} : owner'[h] = owner[h]
    BY <1>2 DEF FrameInv, Types
  <1>4. \A h \in Futexes : waiters[h] # {} => waiters'[h] # {}
    BY <1>0, <1>1 DEF Block, BlockFails, FrameInv, Types
  <1>5. ASSUME NEW u \in Threads \ {t} PROVE Same(u)
    <2>1. PICK a : arg' = [arg EXCEPT ![t] = a]
      BY DEF Block, BlockFails
    <2> QED  BY <2>1 DEF Block, BlockFails, Goto, FrameInv, Types, Same
  <1>6. Attended(f)'
    <2>1. CASE Block(t)
      <3>1. t \in waiters'[f]
        BY <1>0, <1>1, <2>1 DEF Block, FrameInv, Types
      <3> QED  BY <3>1 DEF Attended
    <2>2. CASE BlockFails(t)
      <3>1. pc'[t] = "removed" /\ blocking'[t] = f
        BY <1>1, <2>2 DEF BlockFails, Goto, FrameInv, Types
      <3> QED  BY <3>1 DEF Attended
    <2> QED  BY <2>1, <2>2
  <1>7. ASSUME NEW h \in Futexes \ {f}, owner'[h] # None
        PROVE  Attended(h)'
    <2>1. Attended(h)
      BY <1>3, <1>7 DEF OwnedHasWaiters, Attended
    <2> QED  BY <1>1, <1>4, <1>5, <2>1, AttendedKept
  <1> QED  BY <1>6, <1>7 DEF OwnedHasWaiters, Attended

LEMMA UnblockOwned ==
  ASSUME FrameInv, OwnedHasWaiters, NEW t \in Threads, Unblock(t)
  PROVE  OwnedHasWaiters'
  <1>1. /\ pc[t] = "blocked"
        /\ waiters' = [f \in Futexes |-> waiters[f] \ {t}]
        /\ arg' = [arg EXCEPT ![t] = NoArg]
        /\ pc' = [pc EXCEPT ![t] = "removed"]
        /\ UNCHANGED <<owner, blocking, rel>>
    BY DEF Unblock, Goto
  <1>2. pc'[t] = "removed" /\ \A u \in Threads \ {t} : Same(u)
    BY <1>1 DEF FrameInv, Types, Same
  <1> SUFFICES ASSUME NEW f \in Futexes, owner'[f] # None
               PROVE  Attended(f)'
    BY DEF OwnedHasWaiters, Attended
  <1>3. Attended(f)
    BY <1>1 DEF OwnedHasWaiters, Attended
  <1>4. CASE t \in waiters[f]
    <2>1. blocking'[t] = f
      BY <1>1, <1>4 DEF FrameInv, QueueOK
    <2> QED  BY <1>2, <2>1 DEF Attended
  <1>5. CASE t \notin waiters[f]
    <2>1. waiters[f] # {} => waiters'[f] # {}
      BY <1>1, <1>5
    <2> QED  BY <1>1, <1>2, <1>3, <2>1, AttendedKept
  <1> QED  BY <1>4, <1>5

LEMMA FindBlockingOwned ==
  ASSUME FrameInv, OwnedHasWaiters, NEW t \in Threads, FindBlocking(t)
  PROVE  OwnedHasWaiters'
  <1>0. PICK b : b = blocking[t]
    OBVIOUS
  <1>1. pc[t] = "removed" /\ b \in Futexes
    BY <1>0 DEF FindBlocking, FrameInv, Types, Local, BlockingOK
  <1> DEFINE r == [NoRefs EXCEPT ![b] = 2]
  <1>2. r[b] > 0
    BY <1>1 DEF NoRefs
  <1>3. /\ rel' = [rel EXCEPT ![t] = r]
        /\ blocking' = [blocking EXCEPT ![t] = None]
        /\ pc' = [pc EXCEPT ![t] = "found"]
        /\ UNCHANGED <<owner, waiters, arg>>
    BY <1>0 DEF FindBlocking, Goto
  <1> HIDE DEF r
  <1>4. pc'[t] = "found" /\ rel'[t] = r /\ \A u \in Threads \ {t} : Same(u)
    BY <1>3 DEF FrameInv, Types, Same
  <1> SUFFICES ASSUME NEW f \in Futexes, owner'[f] # None
               PROVE  Attended(f)'
    BY DEF OwnedHasWaiters, Attended
  <1>5. Attended(f)
    BY <1>3 DEF OwnedHasWaiters, Attended
  <1>6. CASE b = f
    BY <1>2, <1>4, <1>6 DEF Attended
  <1>7. CASE b # f
    BY <1>0, <1>1, <1>3, <1>4, <1>5, <1>7 DEF Attended, Same
  <1> QED  BY <1>6, <1>7

LEMMA ClearOwnerOwned ==
  ASSUME FrameInv, OwnedHasWaiters, NEW t \in Threads, ClearOwner(t)
  PROVE  OwnedHasWaiters'
  <1>0. PICK f \in Futexes : rel[t][f] > 0 /\ owner' = [owner EXCEPT ![f] = OwnerAfterTimeout(f)]
    BY DEF ClearOwner
  <1>1. /\ pc[t] = "found" /\ pc' = [pc EXCEPT ![t] = "release"]
        /\ UNCHANGED <<waiters, blocking, arg, rel>>
    BY DEF ClearOwner, Goto
  <1>2. pc'[t] = "release" /\ \A u \in Threads \ {t} : Same(u)
    BY <1>1 DEF FrameInv, Types, Same
  <1>3. \A h \in Futexes \ {f} : ~(rel[t][h] > 0)
    <2>1. PICK g \in Futexes : rel[t] = [NoRefs EXCEPT ![g] = 2]
      BY <1>1 DEF FrameInv, Local, RelOK
    <2>2. \A h \in Futexes \ {g} : rel[t][h] = 0
      BY <2>1 DEF NoRefs
    <2> QED  BY <1>0, <2>2
  <1> SUFFICES ASSUME NEW h \in Futexes, owner'[h] # None
               PROVE  Attended(h)'
    BY DEF OwnedHasWaiters, Attended
  <1>4. CASE h = f
    <2>1. owner'[h] = OwnerAfterTimeout(f)
      BY <1>0, <1>4 DEF FrameInv, Types
    <2> QED  BY <1>1, <1>4, <2>1 DEF OwnerAfterTimeout, Attended
  <1>5. CASE h # f
    <2>1. owner'[h] = owner[h]
      BY <1>0, <1>5 DEF FrameInv, Types
    <2>2. Attended(h)
      BY <2>1 DEF OwnedHasWaiters, Attended
    <2> QED  BY <1>1, <1>2, <1>3, <1>5, <2>2 DEF Attended, Same
  <1> QED  BY <1>4, <1>5

LEMMA FutexWakeOwned ==
  ASSUME FrameInv, OwnedHasWaiters, NEW t \in Threads, FutexWake(t)
  PROVE  OwnedHasWaiters'
  <1>0. PICK f, S : WakeStep(t, f, S)
    BY WakeFacts
  <1>1. /\ pc[t] = "wake" /\ f \in Futexes /\ S \in SUBSET Threads /\ S \subseteq waiters[f]
        /\ waiters' = [waiters EXCEPT ![f] = @ \ S]
        /\ owner' = [owner EXCEPT ![f] = WakeOwner(S, waiters[f] \ S, arg[t].action)]
        /\ blocking' = [u \in Threads |-> IF u \in S THEN None ELSE blocking[u]]
        /\ pc' = [u \in Threads |-> IF u \in S THEN "idle"
                                    ELSE IF u = t THEN "release" ELSE pc[u]]
        /\ arg' = [u \in Threads |-> IF u \in S \cup {t} THEN NoArg ELSE arg[u]]
    BY <1>0 DEF WakeStep
  <1>2. \A u \in Threads \ {t} : rel'[u] = rel[u]
    BY <1>0 DEF WakeStep, FrameInv, Types
  <1>3. \A u \in S : pc[u] = "blocked"
    BY <1>1 DEF FrameInv, QueueOK
  <1>4. \A u \in Threads : pc[u] \in {"removed", "found"} => Same(u)
    BY <1>1, <1>2, <1>3 DEF Same
  <1> SUFFICES ASSUME NEW h \in Futexes, owner'[h] # None
               PROVE  Attended(h)'
    BY DEF OwnedHasWaiters, Attended
  <1>5. CASE h = f
    <2>1. owner'[h] = WakeOwner(S, waiters[f] \ S, arg[t].action) /\ waiters'[h] = waiters[f] \ S
      BY <1>1, <1>5 DEF FrameInv, Types
    <2>2. waiters[f] \ S # {}
      BY <1>1, <2>1, WakeOwnerFacts
    <2> QED  BY <2>1, <2>2 DEF Attended
  <1>6. CASE h # f
    <2>1. owner'[h] = owner[h] /\ waiters'[h] = waiters[h]
      BY <1>1, <1>6 DEF FrameInv, Types
    <2>2. Attended(h)
      BY <2>1 DEF OwnedHasWaiters, Attended
    <2> QED  BY <1>4, <2>1, <2>2, AttendedKept
  <1> QED  BY <1>5, <1>6

LEMMA FutexRequeueOwned ==
  ASSUME RequeueActions \subseteq {"RELEASE"},
         FrameInv, OwnedHasWaiters, NEW t \in Threads, FutexRequeue(t)
  PROVE  OwnedHasWaiters'
  <1>0. PICK f, g, S, R : RequeueStep(t, f, g, S, R)
    BY RequeueFacts
  <1>1. /\ pc[t] = "requeue_checked" /\ f \in Futexes /\ g \in Futexes /\ f # g
        /\ S \in SUBSET Threads /\ S \subseteq waiters[f]
        /\ R \in SUBSET Threads /\ R \subseteq waiters[f] \ S
    BY <1>0 DEF RequeueStep
  <1>2. /\ waiters' = [waiters EXCEPT ![f] = (@ \ S) \ R, ![g] = @ \cup R]
        /\ owner' = [owner EXCEPT
             ![f] = WakeOwner(S, waiters[f] \ S, arg[t].action),
             ![g] = IF waiters[g] \cup R = {} THEN None ELSE NewOwner(arg[t].owner)]
    BY <1>0 DEF RequeueStep
  <1>3. /\ blocking' = [u \in Threads |-> IF u \in R THEN g
                                          ELSE IF u \in S THEN None ELSE blocking[u]]
        /\ pc' = [u \in Threads |-> IF u \in S THEN "idle"
                                    ELSE IF u = t THEN "release" ELSE pc[u]]
        /\ arg' = [u \in Threads |-> IF u \in S \cup R \cup {t} THEN NoArg ELSE arg[u]]
    BY <1>0 DEF RequeueStep
  <1>4. \A u \in Threads \ {t} : rel'[u] = rel[u]
    BY <1>0 DEF RequeueStep, FrameInv, Types
  <1>5. \A u \in S \cup R : pc[u] = "blocked"
    BY <1>1 DEF FrameInv, QueueOK
  <1>6. \A u \in Threads : pc[u] \in {"removed", "found"} => Same(u)
    BY <1>1, <1>3, <1>4, <1>5 DEF Same
  <1>7. arg[t].action = "RELEASE"
    <2>1. arg[t] \in RequeueArgs
      BY <1>1, ArgFacts
    <2> QED  BY <2>1 DEF RequeueArgs
  <1> SUFFICES ASSUME NEW h \in Futexes, owner'[h] # None
               PROVE  Attended(h)'
    BY DEF OwnedHasWaiters, Attended
  <1>8. CASE h = f
    <2>1. owner'[h] = None
      BY <1>1, <1>2, <1>7, <1>8 DEF FrameInv, Types, WakeOwner
    <2> QED  BY <2>1
  <1>9. CASE h = g
    <2>1. /\ owner'[h] = IF waiters[g] \cup R = {} THEN None ELSE NewOwner(arg[t].owner)
          /\ waiters'[h] = waiters[g] \cup R
      BY <1>1, <1>2, <1>9 DEF FrameInv, Types
    <2> QED  BY <2>1 DEF Attended
  <1>10. CASE h # f /\ h # g
    <2>1. owner'[h] = owner[h] /\ waiters'[h] = waiters[h]
      BY <1>2, <1>10 DEF FrameInv, Types
    <2>2. Attended(h)
      BY <2>1 DEF OwnedHasWaiters, Attended
    <2> QED  BY <1>6, <2>1, <2>2, AttendedKept
  <1> QED  BY <1>8, <1>9, <1>10

LEMMA OwnedStep ==
  ASSUME RequeueActions \subseteq {"RELEASE"}, FrameInv, OwnedHasWaiters, [Next]_vars
  PROVE  OwnedHasWaiters'
  <1>1. CASE Next
    <2>1. PICK t \in Threads :
            \/ Calm(t) \/ Exit(t) \/ WaitCheck(t) \/ Block(t) \/ BlockFails(t) \/ Unblock(t)
            \/ FindBlocking(t) \/ ClearOwner(t) \/ FutexWake(t) \/ RequeueCheck(t)
            \/ FutexRequeue(t)
      BY <1>1, StepCases
    <2> QED  BY <2>1, CalmOwned, CheckOwned, BlockOwned, UnblockOwned, FindBlockingOwned,
                ClearOwnerOwned, FutexWakeOwned, FutexRequeueOwned
  <1>2. CASE UNCHANGED vars
    BY <1>2 DEF OwnedHasWaiters, vars, queueVars, threadVars
  <1> QED  BY <1>1, <1>2

(* Without a requeue that assigns the woken thread as the owner, whose     *)
(* choice comes too early (the run of FutexRequeueOwner), every owned      *)
(* futex has a waiter or a thread that is about to clear the owner: the    *)
(* last reference never goes back with an owner.                           *)
THEOREM OwnedHasWaitersHolds ==
  ASSUME RequeueActions \subseteq {"RELEASE"}
  PROVE  Spec => []OwnedHasWaiters
  <1>1. Init => OwnedHasWaiters
    BY DEF Init, OwnedHasWaiters
  <1>2. FrameInv /\ OwnedHasWaiters /\ [Next]_vars => OwnedHasWaiters'
    BY OwnedStep
  <1> QED  BY <1>1, <1>2, FrameInvariant, PTL DEF Spec
-----------------------------------------------------------------------------
(* The references, counted one by one.                                     *)

Tokens(h) == UNION {{t} \X (1 .. h[t]) : t \in Threads}

LEMMA TokenElement ==
  ASSUME NEW h, NEW t, NEW i
  PROVE  <<t, i>> \in Tokens(h) <=> t \in Threads /\ i \in 1 .. h[t]
  BY DEF Tokens

LEMMA TokenPair ==
  ASSUME NEW h, NEW x \in Tokens(h)
  PROVE  \E t \in Threads : \E i \in 1 .. h[t] : x = <<t, i>>
  BY DEF Tokens

(* The tokens of one thread.                                               *)
LEMMA OwnTokens ==
  ASSUME NEW t, NEW n \in Nat
  PROVE  IsFiniteSet({t} \X (1 .. n)) /\ Cardinality({t} \X (1 .. n)) = n
  <1>1. IsFiniteSet({t}) /\ Cardinality({t}) = 1
    BY FS_Singleton
  <1>2. IsFiniteSet(1 .. n) /\ Cardinality(1 .. n) = n
    BY FS_Interval
  <1>3. /\ IsFiniteSet({t} \X (1 .. n))
        /\ Cardinality({t} \X (1 .. n)) = Cardinality({t}) * Cardinality(1 .. n)
    BY <1>1, <1>2, FS_Product
  <1> QED  BY <1>1, <1>2, <1>3

LEMMA TokensFinite ==
  ASSUME NEW h \in [Threads -> Nat]
  PROVE  IsFiniteSet(Tokens(h)) /\ Cardinality(Tokens(h)) \in Nat
  <1> DEFINE D == [t \in Threads |-> {t} \X (1 .. h[t])]
             P == {{t} \X (1 .. h[t]) : t \in Threads}
  <1>1. D \in Surjection(Threads, P)
    BY DEF Surjection
  <1>2. IsFiniteSet(P)
    <2> HIDE DEF D, P
    <2> QED  BY <1>1, FutexAssumption, FS_Surjection
  <1>3. ASSUME NEW T \in P PROVE IsFiniteSet(T)
    <2>1. PICK t \in Threads : T = {t} \X (1 .. h[t])
      OBVIOUS
    <2>2. PICK n \in Nat : n = h[t]
      OBVIOUS
    <2>3. IsFiniteSet({t} \X (1 .. n))
      BY OwnTokens
    <2> QED  BY <2>1, <2>2, <2>3
  <1>4. IsFiniteSet(UNION P)
    <2> HIDE DEF P
    <2> QED  BY <1>2, <1>3, FS_UNION
  <1>5. IsFiniteSet(Tokens(h))
    BY <1>4 DEF Tokens
  <1> QED  BY <1>5, FS_CardinalityType

(* Disjoint sets.                                                          *)
LEMMA DisjointUnion ==
  ASSUME NEW A, NEW B, IsFiniteSet(A), IsFiniteSet(B), A \cap B = {}
  PROVE  Cardinality(A \cup B) = Cardinality(A) + Cardinality(B)
  <1>1. Cardinality(A \cup B) = Cardinality(A) + Cardinality(B) - Cardinality(A \cap B)
    BY FS_Union
  <1>2. Cardinality(A \cap B) = 0
    BY FS_EmptySet
  <1>3. Cardinality(A) \in Nat /\ Cardinality(B) \in Nat
    BY FS_CardinalityType
  <1> QED  BY <1>1, <1>2, <1>3

(* One thread takes or releases references.                                *)
LEMMA TokensOne ==
  ASSUME NEW h \in [Threads -> Nat], NEW k \in [Threads -> Nat], NEW t \in Threads,
         \A u \in Threads \ {t} : k[u] = h[u]
  PROVE  Cardinality(Tokens(k)) = Cardinality(Tokens(h)) - h[t] + k[t]
  <1> DEFINE m == [u \in Threads |-> IF u = t THEN 0 ELSE h[u]]
             A == {t} \X (1 .. h[t])
             B == {t} \X (1 .. k[t])
  <1>1. m \in [Threads -> Nat] /\ m[t] = 0 /\ \A u \in Threads \ {t} : m[u] = h[u]
    OBVIOUS
  <1> HIDE DEF m
  <1>2. Tokens(h) = Tokens(m) \cup A /\ Tokens(m) \cap A = {}
    BY <1>1 DEF Tokens
  <1>3. Tokens(k) = Tokens(m) \cup B /\ Tokens(m) \cap B = {}
    BY <1>1 DEF Tokens
  <1>4. /\ IsFiniteSet(A) /\ Cardinality(A) = h[t]
        /\ IsFiniteSet(B) /\ Cardinality(B) = k[t]
    BY OwnTokens
  <1> HIDE DEF A, B
  <1>5. IsFiniteSet(Tokens(m)) /\ Cardinality(Tokens(m)) \in Nat
    BY <1>1, TokensFinite
  <1>6. Cardinality(Tokens(h)) = Cardinality(Tokens(m)) + h[t]
    BY <1>2, <1>4, <1>5, DisjointUnion
  <1>7. Cardinality(Tokens(k)) = Cardinality(Tokens(m)) + k[t]
    BY <1>3, <1>4, <1>5, DisjointUnion
  <1>8. PICK n \in Nat : n = Cardinality(Tokens(m))
    BY <1>5
  <1>9. h[t] \in Nat /\ k[t] \in Nat
    OBVIOUS
  <1> QED  BY <1>6, <1>7, <1>8, <1>9

(* Several threads give up the one reference they have.                    *)
LEMMA TokensMany ==
  ASSUME NEW h \in [Threads -> Nat], NEW k \in [Threads -> Nat], NEW S \in SUBSET Threads,
         \A u \in S : h[u] = 1 /\ k[u] = 0,
         \A u \in Threads \ S : k[u] = h[u]
  PROVE  Cardinality(Tokens(h)) = Cardinality(Tokens(k)) + Cardinality(S)
  <1> DEFINE A == S \X {1}
  <1>1. Tokens(h) = Tokens(k) \cup A
    <2>1. \A u \in S : 1 .. h[u] = {1}
      OBVIOUS
    <2>2. \A u \in S : 1 .. k[u] = {}
      OBVIOUS
    <2>3. ASSUME NEW x \in Tokens(h) PROVE x \in Tokens(k) \cup A
      <3>1. PICK u \in Threads : \E i \in 1 .. h[u] : x = <<u, i>>
        BY TokenPair
      <3>2. CASE u \in S
        BY <2>1, <3>1, <3>2
      <3>3. CASE u \notin S
        BY <3>1, <3>3, TokenElement
      <3> QED  BY <3>2, <3>3
    <2>4. ASSUME NEW x \in Tokens(k) PROVE x \in Tokens(h)
      <3>1. PICK u \in Threads : \E i \in 1 .. k[u] : x = <<u, i>>
        BY TokenPair
      <3>2. u \notin S
        BY <2>2, <3>1
      <3> QED  BY <3>1, <3>2, TokenElement
    <2>5. ASSUME NEW x \in A PROVE x \in Tokens(h)
      <3>1. PICK u \in S : x = <<u, 1>>
        OBVIOUS
      <3> QED  BY <2>1, <3>1, TokenElement
    <2> QED  BY <2>3, <2>4, <2>5
  <1>2. Tokens(k) \cap A = {}
    <2> SUFFICES ASSUME NEW x \in A, x \in Tokens(k) PROVE FALSE
      OBVIOUS
    <2>1. PICK u \in S : x = <<u, 1>>
      OBVIOUS
    <2>2. 1 \in 1 .. k[u]
      BY <2>1, TokenElement
    <2> QED  BY <2>2
  <1>3. IsFiniteSet(S) /\ Cardinality(S) \in Nat
    BY FutexAssumption, FS_Subset, FS_CardinalityType
  <1>4. IsFiniteSet(A) /\ Cardinality(A) = Cardinality(S) * 1
    <2>1. IsFiniteSet({1}) /\ Cardinality({1}) = 1
      BY FS_Singleton
    <2>2. IsFiniteSet(S \X {1}) /\ Cardinality(S \X {1}) = Cardinality(S) * Cardinality({1})
      BY <1>3, <2>1, FS_Product
    <2> QED  BY <2>1, <2>2
  <1>5. Cardinality(A) = Cardinality(S)
    BY <1>3, <1>4
  <1> HIDE DEF A
  <1> QED  BY <1>1, <1>2, <1>4, <1>5, TokensFinite, DisjointUnion

(* The references to f, by thread.                                         *)
HeldBy(f) == [t \in Threads |-> RefsHeld(t, f)]

Balance == \A f \in Futexes : count[f] = Cardinality(Tokens(HeldBy(f)))

LEMMA HeldFacts ==
  ASSUME FrameInv, NEW t \in Threads, NEW f \in Futexes
  PROVE  /\ RefsHeld(t, f) \in Nat
         /\ pc[t] \in {"unborn", "idle", "stored", "dead", "gone"} => RefsHeld(t, f) = 0
         /\ pc[t] \in {"activated", "checked", "wake"} =>
              RefsHeld(t, f) = IF f = arg[t].f THEN 1 ELSE 0
         /\ pc[t] \in {"requeue", "requeue_checked"} =>
              RefsHeld(t, f) = IF f \in {arg[t].f, arg[t].g} THEN 1 ELSE 0
         /\ pc[t] \in {"blocked", "removed"} =>
              RefsHeld(t, f) = IF f = blocking[t] THEN 1 ELSE 0
         /\ pc[t] \in {"found", "release"} => RefsHeld(t, f) = rel[t][f]
  <1>1. pc[t] \in Labels /\ rel[t] \in [Futexes -> Nat]
    BY DEF FrameInv, Types
  <1>2. pc[t] \notin {"found", "release"} => rel[t][f] = 0
    BY DEF FrameInv, Local, RelOK, NoRefs
  <1> QED  BY <1>1, <1>2 DEF RefsHeld, Labels

LEMMA HeldByType ==
  ASSUME FrameInv, NEW f \in Futexes
  PROVE  HeldBy(f) \in [Threads -> Nat]
  BY HeldFacts DEF HeldBy

LEMMA HeldByTypeNext ==
  ASSUME FrameInv', NEW f \in Futexes
  PROVE  HeldBy(f)' \in [Threads -> Nat]
  <1>1. ASSUME NEW t \in Threads PROVE RefsHeld(t, f)' \in Nat
    <2>1. pc'[t] \in Labels /\ rel'[t] \in [Futexes -> Nat]
      BY DEF FrameInv, Types
    <2> QED  BY <2>1 DEF RefsHeld
  <1> QED  BY <1>1 DEF HeldBy

LEMMA HeldSame ==
  ASSUME NEW u \in Threads, NEW f \in Futexes, Same(u)
  PROVE  RefsHeld(u, f)' = RefsHeld(u, f)
  BY DEF RefsHeld, Same

(* A step that changes the references of one thread.                       *)
LEMMA BalanceOne ==
  ASSUME FrameInv, FrameInv', Balance, NEW t \in Threads,
         \A u \in Threads \ {t} : Same(u),
         \A f \in Futexes : count'[f] = count[f] - RefsHeld(t, f) + RefsHeld(t, f)'
  PROVE  Balance'
  <1> SUFFICES ASSUME NEW f \in Futexes
               PROVE  count'[f] = Cardinality(Tokens(HeldBy(f)'))
    BY DEF Balance, Tokens
  <1>1. PICK h, k : h = HeldBy(f) /\ k = HeldBy(f)'
    OBVIOUS
  <1>2. h \in [Threads -> Nat] /\ k \in [Threads -> Nat]
    BY <1>1, HeldByType, HeldByTypeNext
  <1>3. h[t] = RefsHeld(t, f) /\ k[t] = RefsHeld(t, f)'
    BY <1>1 DEF HeldBy
  <1>4. \A u \in Threads \ {t} : k[u] = h[u]
    BY <1>1, HeldSame DEF HeldBy
  <1>5. Cardinality(Tokens(k)) = Cardinality(Tokens(h)) - h[t] + k[t]
    BY <1>2, <1>4, TokensOne
  <1>6. count[f] = Cardinality(Tokens(h))
    BY <1>1 DEF Balance
  <1> QED  BY <1>1, <1>3, <1>5, <1>6

(* A step of t from a label without references to a label without.         *)
LEMMA IdleBalance ==
  ASSUME FrameInv, FrameInv', Balance, NEW t \in Threads,
         Create(t) \/ Exit(t) \/ Destroy(t) \/ \E f \in Futexes : Store(t, f)
  PROVE  Balance'
  <1>1. pc[t] \in {"unborn", "idle", "dead"} /\ UNCHANGED <<count, rel>>
    BY DEF Create, Exit, Destroy, Store, poolVars
  <1>2. pc'[t] \in {"idle", "dead", "gone", "stored"}
    BY DEF Create, Exit, Destroy, Store, Goto, FrameInv, Types
  <1>3. \A u \in Threads \ {t} : Same(u)
    BY DEF Create, Exit, Destroy, Store, Goto, FrameInv, Types, queueVars, Same
  <1>4. ASSUME NEW h \in Futexes
        PROVE  RefsHeld(t, h) = 0 /\ RefsHeld(t, h)' = 0
    <2>1. RefsHeld(t, h) = 0
      BY <1>1, HeldFacts
    <2>2. rel[t][h] = 0
      BY <1>1 DEF FrameInv, Local, RelOK, NoRefs
    <2> QED  BY <1>1, <1>2, <2>1, <2>2 DEF RefsHeld
  <1>5. \A h \in Futexes : count[h] \in Int
    BY DEF FrameInv, Types
  <1>6. \A h \in Futexes : count'[h] = count[h] - RefsHeld(t, h) + RefsHeld(t, h)'
    BY <1>1, <1>4, <1>5
  <1> QED  BY <1>3, <1>6, BalanceOne

LEMMA ActivateOne ==
  ASSUME Types, NEW f \in Futexes, Activate({f})
  PROVE  \A h \in Futexes : count[h] \in Int /\ count'[h] = IF h = f THEN count[h] + 1 ELSE count[h]
  BY DEF Types, Activate

(* A call of t takes a reference to each futex of fs.                      *)
LEMMA CallBalance ==
  ASSUME FrameInv, FrameInv', Balance, NEW t \in Threads, NEW fs,
         Activate(fs), pc[t] \in {"idle", "stored"},
         \A u \in Threads \ {t} : Same(u),
         \A h \in Futexes : RefsHeld(t, h)' = IF h \in fs THEN 1 ELSE 0
  PROVE  Balance'
  <1>1. \A h \in Futexes : RefsHeld(t, h) = 0
    BY HeldFacts
  <1>2. \A h \in Futexes : count[h] \in Int /\ count'[h] = IF h \in fs THEN count[h] + 1 ELSE count[h]
    BY DEF Activate, FrameInv, Types
  <1>3. \A h \in Futexes : count'[h] = count[h] - RefsHeld(t, h) + RefsHeld(t, h)'
    BY <1>1, <1>2
  <1> QED  BY <1>3, BalanceOne

LEMMA WaitBalance ==
  ASSUME FrameInv, FrameInv', Balance, NEW t \in Threads, NEW f \in Futexes, NEW expect,
         NEW o, Wait(t, f, expect, o)
  PROVE  Balance'
  <1> DEFINE a == [op |-> "wait", f |-> f, expect |-> expect, owner |-> ValidateFutexOwner(o)]
  <1>1. arg' = [arg EXCEPT ![t] = a] /\ a.f = f
    BY DEF Wait
  <1> HIDE DEF a
  <1>2. /\ pc[t] = "idle" /\ pc'[t] = "activated" /\ arg'[t] = a
        /\ \A u \in Threads \ {t} : Same(u)
    BY <1>1 DEF Wait, Goto, FrameInv, Types, queueVars, Same
  <1>3. \A h \in Futexes : RefsHeld(t, h)' = IF h \in {f} THEN 1 ELSE 0
    BY <1>1, <1>2 DEF RefsHeld
  <1> QED  BY <1>2, <1>3, CallBalance DEF Wait

LEMMA WakeCallBalance ==
  ASSUME FrameInv, FrameInv', Balance, NEW t \in Threads, NEW f \in Futexes, NEW n,
         NEW action, WakeCall(t, f, n, action)
  PROVE  Balance'
  <1> DEFINE a == [op |-> "wake", f |-> f, wake |-> n, action |-> action]
  <1>1. arg' = [arg EXCEPT ![t] = a] /\ a.f = f
    BY DEF WakeCall
  <1> HIDE DEF a
  <1>2. /\ pc[t] = "idle" /\ pc'[t] = "wake" /\ arg'[t] = a
        /\ \A u \in Threads \ {t} : Same(u)
    BY <1>1 DEF WakeCall, Goto, FrameInv, Types, queueVars, Same
  <1>3. \A h \in Futexes : RefsHeld(t, h)' = IF h \in {f} THEN 1 ELSE 0
    BY <1>1, <1>2 DEF RefsHeld
  <1> QED  BY <1>2, <1>3, CallBalance DEF WakeCall

LEMMA RequeueCallBalance ==
  ASSUME FrameInv, FrameInv', Balance, NEW t \in Threads, NEW f \in Futexes, NEW g \in Futexes,
         NEW n, NEW m, NEW expect, NEW o, NEW action,
         RequeueCall(t, f, g, n, m, expect, o, action)
  PROVE  Balance'
  <1> DEFINE a == [op |-> "requeue", f |-> f, g |-> g, wake |-> n, requeue |-> m,
                   expect |-> expect, owner |-> ValidateFutexOwner(o), action |-> action]
  <1>1. arg' = [arg EXCEPT ![t] = a] /\ a.f = f /\ a.g = g
    BY DEF RequeueCall
  <1> HIDE DEF a
  <1>2. /\ pc[t] = "idle" /\ pc'[t] = "requeue" /\ arg'[t] = a
        /\ \A u \in Threads \ {t} : Same(u)
    BY <1>1 DEF RequeueCall, Goto, FrameInv, Types, queueVars, Same
  <1>3. \A h \in Futexes : RefsHeld(t, h)' = IF h \in {f, g} THEN 1 ELSE 0
    BY <1>1, <1>2 DEF RefsHeld
  <1> QED  BY <1>2, <1>3, CallBalance DEF RequeueCall

(* Leave with the references that the call has taken.                      *)
LEMMA LeaveHeld ==
  ASSUME FrameInv, NEW t \in Threads, NEW fs, Leave(t, fs), UNCHANGED queueVars
  PROVE  /\ \A u \in Threads \ {t} : Same(u)
         /\ \A h \in Futexes : RefsHeld(t, h)' = IF h \in fs THEN 1 ELSE 0
  <1> DEFINE r == [h \in Futexes |-> IF h \in fs THEN 1 ELSE 0]
  <1>1. rel' = [rel EXCEPT ![t] = r] /\ \A h \in Futexes : r[h] = IF h \in fs THEN 1 ELSE 0
    BY DEF Leave
  <1> HIDE DEF r
  <1>2. pc'[t] = "release" /\ rel'[t] = r
    BY <1>1 DEF Leave, Goto, FrameInv, Types
  <1>3. \A u \in Threads \ {t} : Same(u)
    BY <1>1 DEF Leave, Goto, FrameInv, Types, queueVars, Same
  <1> QED  BY <1>1, <1>2, <1>3 DEF RefsHeld

LEMMA GetOwnerCallBalance ==
  ASSUME FrameInv, FrameInv', Balance, NEW t \in Threads, NEW f \in Futexes, GetOwnerCall(t, f)
  PROVE  Balance'
  BY LeaveHeld, CallBalance DEF GetOwnerCall

(* A step of t that keeps its references.                                  *)
LEMMA BalanceKept ==
  ASSUME FrameInv, FrameInv', Balance, NEW t \in Threads, count' = count,
         \A u \in Threads \ {t} : Same(u),
         \A h \in Futexes : RefsHeld(t, h)' = RefsHeld(t, h)
  PROVE  Balance'
  <1>1. \A h \in Futexes : count[h] \in Int /\ RefsHeld(t, h) \in Nat
    BY HeldFacts DEF FrameInv, Types
  <1>2. \A h \in Futexes : count'[h] = count[h] - RefsHeld(t, h) + RefsHeld(t, h)'
    BY <1>1
  <1> QED  BY <1>2, BalanceOne

LEMMA FailsBalance ==
  ASSUME FrameInv, FrameInv', Balance, NEW t \in Threads, WaitFails(t) \/ RequeueFails(t)
  PROVE  Balance'
  <1>1. CASE WaitFails(t)
    <2>1. pc[t] = "activated" /\ Leave(t, {arg[t].f}) /\ UNCHANGED <<poolVars, queueVars>>
      BY <1>1 DEF WaitFails
    <2>2. \A h \in Futexes : RefsHeld(t, h) = IF h \in {arg[t].f} THEN 1 ELSE 0
      BY <2>1, HeldFacts
    <2> QED  BY <2>1, <2>2, LeaveHeld, BalanceKept DEF poolVars
  <1>2. CASE RequeueFails(t)
    <2>1. /\ pc[t] = "requeue" /\ Leave(t, {arg[t].f, arg[t].g})
          /\ UNCHANGED <<poolVars, queueVars>>
      BY <1>2 DEF RequeueFails
    <2>2. \A h \in Futexes : RefsHeld(t, h) = IF h \in {arg[t].f, arg[t].g} THEN 1 ELSE 0
      BY <2>1, HeldFacts
    <2> QED  BY <2>1, <2>2, LeaveHeld, BalanceKept DEF poolVars
  <1> QED  BY <1>1, <1>2

LEMMA WaitCheckBalance ==
  ASSUME FrameInv, FrameInv', Balance, NEW t \in Threads, WaitCheck(t) \/ RequeueCheck(t)
  PROVE  Balance'
  <1>1. UNCHANGED <<count, arg, rel>> /\ \A u \in Threads \ {t} : Same(u)
    BY DEF WaitCheck, RequeueCheck, Goto, FrameInv, Types, poolVars, Same
  <1>2. \/ pc[t] = "activated" /\ pc'[t] = "checked"
        \/ pc[t] = "requeue" /\ pc'[t] = "requeue_checked"
    BY DEF WaitCheck, RequeueCheck, Goto, FrameInv, Types
  <1>3. \A h \in Futexes : RefsHeld(t, h)' = RefsHeld(t, h)
    BY <1>1, <1>2 DEF RefsHeld
  <1> QED  BY <1>1, <1>3, BalanceKept

LEMMA BlockBalance ==
  ASSUME FrameInv, FrameInv', Balance, NEW t \in Threads, Block(t) \/ BlockFails(t) \/ Unblock(t)
  PROVE  Balance'
  <1>1. PICK a : arg' = [arg EXCEPT ![t] = a]
    BY DEF Block, BlockFails, Unblock
  <1>2. UNCHANGED <<count, blocking, rel>> /\ \A u \in Threads \ {t} : Same(u)
    BY <1>1 DEF Block, BlockFails, Unblock, Goto, FrameInv, Types, poolVars, Same
  <1>3. pc[t] \in {"checked", "blocked"} /\ pc'[t] \in {"blocked", "removed"}
    BY DEF Block, BlockFails, Unblock, Goto, FrameInv, Types
  <1>4. pc[t] = "checked" => blocking[t] = arg[t].f
    BY DEF FrameInv, Local, BlockingOK
  <1>5. ASSUME NEW h \in Futexes
        PROVE  RefsHeld(t, h)' = RefsHeld(t, h)
    <2>1. RefsHeld(t, h) = IF h = blocking[t] THEN 1 ELSE 0
      BY <1>3, <1>4, HeldFacts
    <2>2. RefsHeld(t, h)' = IF h = blocking[t] THEN 1 ELSE 0
      BY <1>2, <1>3 DEF RefsHeld
    <2> QED  BY <2>1, <2>2
  <1> QED  BY <1>2, <1>5, BalanceKept

LEMMA FindBlockingBalance ==
  ASSUME FrameInv, FrameInv', Balance, NEW t \in Threads, FindBlocking(t)
  PROVE  Balance'
  <1>0. PICK b : b = blocking[t]
    OBVIOUS
  <1>1. pc[t] = "removed" /\ b \in Futexes
    BY <1>0 DEF FindBlocking, FrameInv, Types, Local, BlockingOK
  <1> DEFINE r == [NoRefs EXCEPT ![b] = 2]
  <1>2. \A h \in Futexes : r[h] = IF h = b THEN 2 ELSE 0
    BY <1>1 DEF NoRefs
  <1>3. /\ rel' = [rel EXCEPT ![t] = r]
        /\ blocking' = [blocking EXCEPT ![t] = None]
        /\ pc' = [pc EXCEPT ![t] = "found"]
        /\ UNCHANGED <<owner, waiters, arg>>
        /\ Activate({b})
    BY <1>0 DEF FindBlocking, Goto
  <1> HIDE DEF r
  <1>4. pc'[t] = "found" /\ rel'[t] = r /\ \A u \in Threads \ {t} : Same(u)
    BY <1>3 DEF FrameInv, Types, Same
  <1>5. \A h \in Futexes :
          count[h] \in Int /\ count'[h] = IF h = b THEN count[h] + 1 ELSE count[h]
    BY <1>1, <1>3, ActivateOne DEF FrameInv
  <1>6. \A h \in Futexes : RefsHeld(t, h) = IF h = b THEN 1 ELSE 0
    BY <1>0, <1>1, HeldFacts
  <1>7. \A h \in Futexes : RefsHeld(t, h)' = IF h = b THEN 2 ELSE 0
    BY <1>2, <1>4 DEF RefsHeld
  <1>8. \A h \in Futexes : count'[h] = count[h] - RefsHeld(t, h) + RefsHeld(t, h)'
    BY <1>5, <1>6, <1>7
  <1> QED  BY <1>4, <1>8, BalanceOne

LEMMA ClearOwnerBalance ==
  ASSUME FrameInv, FrameInv', Balance, NEW t \in Threads, ClearOwner(t)
  PROVE  Balance'
  <1>1. UNCHANGED <<count, blocking, arg, rel>> /\ \A u \in Threads \ {t} : Same(u)
    BY DEF ClearOwner, Goto, FrameInv, Types, poolVars, Same
  <1>2. pc[t] = "found" /\ pc'[t] = "release"
    BY DEF ClearOwner, Goto, FrameInv, Types
  <1>3. \A h \in Futexes : RefsHeld(t, h)' = RefsHeld(t, h)
    BY <1>1, <1>2 DEF RefsHeld
  <1> QED  BY <1>1, <1>3, BalanceKept

LEMMA ReleaseBalance ==
  ASSUME FrameInv, FrameInv', Balance, NEW t \in Threads, Release(t)
  PROVE  Balance'
  <1>1. PICK f \in Futexes :
           /\ pc[t] = "release"
           /\ count' = [count EXCEPT ![f] = count[f] - rel[t][f]]
           /\ rel' = [rel EXCEPT ![t] = [rel[t] EXCEPT ![f] = 0]]
           /\ pc'[t] = IF [rel[t] EXCEPT ![f] = 0] = NoRefs THEN "idle" ELSE "release"
           /\ \A u \in Threads \ {t} : pc'[u] = pc[u]
           /\ UNCHANGED <<userVars, queueVars, arg>>
    BY ReleaseFacts
  <1>2. rel[t] \in [Futexes -> Nat]
    BY DEF FrameInv, Types
  <1> DEFINE r == [rel[t] EXCEPT ![f] = 0]
  <1>3. \A h \in Futexes : r[h] = IF h = f THEN 0 ELSE rel[t][h]
    BY <1>2
  <1>4. rel' = [rel EXCEPT ![t] = r] /\ pc'[t] \in {"idle", "release"}
    BY <1>1
  <1> HIDE DEF r
  <1>5. rel'[t] = r /\ \A u \in Threads \ {t} : Same(u)
    BY <1>1, <1>4 DEF FrameInv, Types, queueVars, Same
  <1>6. ASSUME NEW h \in Futexes
        PROVE  count'[h] = count[h] - RefsHeld(t, h) + RefsHeld(t, h)'
    <2>1. RefsHeld(t, h) = rel[t][h]
      BY <1>1, HeldFacts
    <2>2. RefsHeld(t, h)' = IF h = f THEN 0 ELSE rel[t][h]
      BY <1>3, <1>4, <1>5 DEF RefsHeld
    <2>3. count'[h] = IF h = f THEN count[h] - rel[t][h] ELSE count[h]
      BY <1>1 DEF FrameInv, Types
    <2>4. PICK i \in Int, j \in Nat : i = count[h] /\ j = rel[t][h]
      BY <1>2 DEF FrameInv, Types
    <2> QED  BY <2>1, <2>2, <2>3, <2>4
  <1> QED  BY <1>5, <1>6, BalanceOne

LEMMA WakeAfterStoreBalance ==
  ASSUME FrameInv, FrameInv', Balance, NEW t \in Threads, WakeAfterStore(t)
  PROVE  Balance'
  <1>1. pc[t] = "stored" /\ arg[t].f \in Futexes
    BY ArgFacts DEF WakeAfterStore
  <1>2. UNCHANGED <<waiters, owner, lock, blocking, rel>>
    BY DEF WakeAfterStore, queueVars
  <1>3. CASE Activate({arg[t].f}) /\ Goto(t, "wake") /\ UNCHANGED arg
    <2>1. pc'[t] = "wake" /\ \A u \in Threads \ {t} : Same(u)
      BY <1>2, <1>3 DEF FrameInv, Types, Goto, Same
    <2>2. \A h \in Futexes : RefsHeld(t, h)' = IF h \in {arg[t].f} THEN 1 ELSE 0
      BY <1>3, <2>1 DEF RefsHeld
    <2> QED  BY <1>1, <1>3, <2>1, <2>2, CallBalance
  <1>4. CASE /\ UNCHANGED poolVars /\ Goto(t, "idle")
             /\ arg' = [arg EXCEPT ![t] = NoArg]
    <2>1. pc'[t] = "idle" /\ \A u \in Threads \ {t} : Same(u)
      BY <1>2, <1>4 DEF FrameInv, Types, Goto, Same
    <2>2. ASSUME NEW h \in Futexes
          PROVE  RefsHeld(t, h)' = RefsHeld(t, h)
      <3>1. rel[t][h] = 0
        BY <1>1 DEF FrameInv, Local, RelOK, NoRefs
      <3> QED  BY <1>1, <1>2, <2>1, <3>1 DEF RefsHeld
    <2> QED  BY <1>4, <2>1, <2>2, BalanceKept DEF poolVars
  <1> QED  BY <1>3, <1>4 DEF WakeAfterStore

(* A thread takes over the references of the threads S.                    *)
LEMMA TokensPass ==
  ASSUME NEW h \in [Threads -> Nat], NEW k \in [Threads -> Nat], NEW S \in SUBSET Threads,
         NEW t \in Threads \ S, NEW n \in Nat, n = Cardinality(S),
         \A u \in S : h[u] = 1 /\ k[u] = 0,
         \A u \in (Threads \ S) \ {t} : k[u] = h[u],
         k[t] = h[t] + n
  PROVE  Cardinality(Tokens(k)) = Cardinality(Tokens(h))
  <1> DEFINE m == [u \in Threads |-> IF u \in S THEN 0 ELSE h[u]]
  <1>1. /\ m \in [Threads -> Nat] /\ m[t] = h[t]
        /\ \A u \in S : h[u] = 1 /\ m[u] = 0
        /\ \A u \in Threads \ S : m[u] = h[u]
        /\ \A u \in Threads \ {t} : k[u] = m[u]
    OBVIOUS
  <1> HIDE DEF m
  <1>2. Cardinality(Tokens(h)) = Cardinality(Tokens(m)) + Cardinality(S)
    BY <1>1, TokensMany
  <1>3. Cardinality(Tokens(k)) = Cardinality(Tokens(m)) - m[t] + k[t]
    BY <1>1, TokensOne
  <1>4. PICK c \in Nat, d \in Nat : c = Cardinality(Tokens(m)) /\ d = h[t]
    BY <1>1, TokensFinite
  <1>5. Cardinality(Tokens(h)) = c + n
    BY <1>2, <1>4
  <1>6. Cardinality(Tokens(k)) = c - d + (d + n)
    BY <1>1, <1>3, <1>4
  <1> QED  BY <1>4, <1>5, <1>6

LEMMA FutexWakeBalance ==
  ASSUME FrameInv, FrameInv', Balance, NEW t \in Threads, FutexWake(t)
  PROVE  Balance'
  <1>0. PICK f, S : WakeStep(t, f, S)
    BY WakeFacts
  <1>1. /\ pc[t] = "wake" /\ f = arg[t].f /\ f \in Futexes
        /\ S \in SUBSET Threads /\ S \subseteq waiters[f] /\ t \notin S
        /\ count' = count
        /\ blocking' = [u \in Threads |-> IF u \in S THEN None ELSE blocking[u]]
        /\ pc' = [u \in Threads |-> IF u \in S THEN "idle"
                                    ELSE IF u = t THEN "release" ELSE pc[u]]
        /\ arg' = [u \in Threads |-> IF u \in S \cup {t} THEN NoArg ELSE arg[u]]
    BY <1>0 DEF WakeStep
  <1>2. PICK n \in Nat : n = Cardinality(S)
    BY <1>0 DEF WakeStep
  <1> DEFINE r == [NoRefs EXCEPT ![f] = 1 + n]
  <1>3. \A h \in Futexes : r[h] = IF h = f THEN 1 + n ELSE 0
    BY <1>1 DEF NoRefs
  <1>4. rel' = [rel EXCEPT ![t] = r]
    BY <1>0, <1>2 DEF WakeStep
  <1> HIDE DEF r
  <1>5. rel'[t] = r /\ \A u \in Threads \ {t} : rel'[u] = rel[u]
    BY <1>4 DEF FrameInv, Types
  <1>6. \A u \in S : pc[u] = "blocked" /\ blocking[u] = f /\ rel[u] = NoRefs
    BY <1>1 DEF FrameInv, QueueOK, Local, RelOK
  <1>7. ASSUME NEW h \in Futexes
        PROVE  /\ \A u \in S : /\ RefsHeld(u, h) = IF h = f THEN 1 ELSE 0
                               /\ RefsHeld(u, h)' = 0
               /\ RefsHeld(t, h) = IF h = f THEN 1 ELSE 0
               /\ RefsHeld(t, h)' = IF h = f THEN 1 + n ELSE 0
               /\ \A u \in (Threads \ S) \ {t} : RefsHeld(u, h)' = RefsHeld(u, h)
    <2>1. ASSUME NEW u \in S
          PROVE  RefsHeld(u, h) = (IF h = f THEN 1 ELSE 0) /\ RefsHeld(u, h)' = 0
      <3>1. pc'[u] = "idle" /\ rel'[u] = NoRefs
        BY <1>1, <1>5, <1>6
      <3> QED  BY <1>1, <1>6, <3>1, HeldFacts DEF RefsHeld, NoRefs
    <2>2. RefsHeld(t, h) = IF h = f THEN 1 ELSE 0
      BY <1>1, HeldFacts
    <2>3. RefsHeld(t, h)' = IF h = f THEN 1 + n ELSE 0
      <3>1. pc'[t] = "release"
        BY <1>1
      <3> QED  BY <1>3, <1>5, <3>1 DEF RefsHeld
    <2>4. ASSUME NEW u \in (Threads \ S) \ {t}
          PROVE  RefsHeld(u, h)' = RefsHeld(u, h)
      <3>1. Same(u)
        BY <1>1, <1>5 DEF Same
      <3> QED  BY <3>1, HeldSame
    <2> QED  BY <2>1, <2>2, <2>3, <2>4
  <1> SUFFICES ASSUME NEW h \in Futexes
               PROVE  count'[h] = Cardinality(Tokens(HeldBy(h)'))
    BY DEF Balance, Tokens
  <1>8. PICK x, y : x = HeldBy(h) /\ y = HeldBy(h)'
    OBVIOUS
  <1>9. x \in [Threads -> Nat] /\ y \in [Threads -> Nat]
    BY <1>8, HeldByType, HeldByTypeNext
  <1>10. \A u \in Threads : x[u] = RefsHeld(u, h) /\ y[u] = RefsHeld(u, h)'
    BY <1>8 DEF HeldBy
  <1>11. CASE h = f
    <2>1. /\ \A u \in S : x[u] = 1 /\ y[u] = 0
          /\ \A u \in (Threads \ S) \ {t} : y[u] = x[u]
          /\ y[t] = x[t] + n
      BY <1>1, <1>7, <1>10, <1>11
    <2>2. Cardinality(Tokens(y)) = Cardinality(Tokens(x))
      BY <1>1, <1>2, <1>9, <2>1, TokensPass
    <2> QED  BY <1>1, <1>8, <2>2 DEF Balance
  <1>12. CASE h # f
    <2>1. \A u \in Threads : y[u] = x[u]
      BY <1>1, <1>7, <1>10, <1>12
    <2>2. y = x
      BY <1>9, <2>1
    <2> QED  BY <1>1, <1>8, <2>2 DEF Balance
  <1> QED  BY <1>11, <1>12

LEMMA FutexRequeueBalance ==
  ASSUME FrameInv, FrameInv', Balance, NEW t \in Threads, FutexRequeue(t)
  PROVE  Balance'
  <1>0. PICK f, g, S, R : RequeueStep(t, f, g, S, R)
    BY RequeueFacts
  <1>1. /\ pc[t] = "requeue_checked" /\ f \in Futexes /\ g \in Futexes /\ f # g
        /\ f = arg[t].f /\ g = arg[t].g
        /\ S \in SUBSET Threads /\ S \subseteq waiters[f] /\ t \notin S
        /\ R \in SUBSET Threads /\ R \subseteq waiters[f] \ S /\ t \notin R
    BY <1>0 DEF RequeueStep
  <1>2. /\ blocking' = [u \in Threads |-> IF u \in R THEN g
                                          ELSE IF u \in S THEN None ELSE blocking[u]]
        /\ pc' = [u \in Threads |-> IF u \in S THEN "idle"
                                    ELSE IF u = t THEN "release" ELSE pc[u]]
        /\ arg' = [u \in Threads |-> IF u \in S \cup R \cup {t} THEN NoArg ELSE arg[u]]
    BY <1>0 DEF RequeueStep
  <1>3. PICK n \in Nat, c \in Nat : n = Cardinality(S) /\ c = Cardinality(R)
    BY <1>0 DEF RequeueStep
  <1> DEFINE r == [NoRefs EXCEPT ![g] = 1, ![f] = 1 + n]
  <1>4. \A h \in Futexes : r[h] = IF h = f THEN 1 + n ELSE IF h = g THEN 1 ELSE 0
    BY <1>1 DEF NoRefs
  <1>5. rel' = [rel EXCEPT ![t] = r]
    BY <1>0, <1>3 DEF RequeueStep
  <1> HIDE DEF r
  <1>6. rel'[t] = r /\ \A u \in Threads \ {t} : rel'[u] = rel[u]
    BY <1>5 DEF FrameInv, Types
  <1>7. \A u \in S \cup R : pc[u] = "blocked" /\ blocking[u] = f /\ rel[u] = NoRefs
    BY <1>1 DEF FrameInv, QueueOK, Local, RelOK
  <1>8. \A h \in Futexes :
          /\ count[h] \in Int
          /\ count'[h] = IF h = f THEN count[h] - c ELSE IF h = g THEN count[h] + c ELSE count[h]
    <2>1. count' = [count EXCEPT ![f] = @ - c, ![g] = @ + c]
      BY <1>0, <1>3 DEF RequeueStep
    <2> QED  BY <1>1, <2>1 DEF FrameInv, Types
  <1>9. ASSUME NEW h \in Futexes
        PROVE  /\ \A u \in S : /\ RefsHeld(u, h) = IF h = f THEN 1 ELSE 0
                               /\ RefsHeld(u, h)' = 0
               /\ \A u \in R : /\ RefsHeld(u, h) = IF h = f THEN 1 ELSE 0
                               /\ RefsHeld(u, h)' = IF h = g THEN 1 ELSE 0
               /\ RefsHeld(t, h) = IF h = f \/ h = g THEN 1 ELSE 0
               /\ RefsHeld(t, h)' = IF h = f THEN 1 + n ELSE IF h = g THEN 1 ELSE 0
               /\ \A u \in ((Threads \ S) \ R) \ {t} : RefsHeld(u, h)' = RefsHeld(u, h)
    <2>1. ASSUME NEW u \in S
          PROVE  RefsHeld(u, h) = (IF h = f THEN 1 ELSE 0) /\ RefsHeld(u, h)' = 0
      <3>1. pc'[u] = "idle" /\ rel'[u] = NoRefs
        BY <1>1, <1>2, <1>6, <1>7
      <3> QED  BY <1>1, <1>7, <3>1, HeldFacts DEF RefsHeld, NoRefs
    <2>2. ASSUME NEW u \in R
          PROVE  /\ RefsHeld(u, h) = IF h = f THEN 1 ELSE 0
                 /\ RefsHeld(u, h)' = IF h = g THEN 1 ELSE 0
      <3>1. pc'[u] = "blocked" /\ blocking'[u] = g
        BY <1>1, <1>2, <1>7
      <3> QED  BY <1>1, <1>7, <3>1, HeldFacts DEF RefsHeld
    <2>3. RefsHeld(t, h) = IF h = f \/ h = g THEN 1 ELSE 0
      BY <1>1, HeldFacts
    <2>4. RefsHeld(t, h)' = IF h = f THEN 1 + n ELSE IF h = g THEN 1 ELSE 0
      <3>1. pc'[t] = "release"
        BY <1>1, <1>2
      <3> QED  BY <1>4, <1>6, <3>1 DEF RefsHeld
    <2>5. ASSUME NEW u \in ((Threads \ S) \ R) \ {t}
          PROVE  RefsHeld(u, h)' = RefsHeld(u, h)
      <3>1. Same(u)
        BY <1>2, <1>6 DEF Same
      <3> QED  BY <3>1, HeldSame
    <2> QED  BY <2>1, <2>2, <2>3, <2>4, <2>5
  <1> SUFFICES ASSUME NEW h \in Futexes
               PROVE  count'[h] = Cardinality(Tokens(HeldBy(h)'))
    BY DEF Balance, Tokens
  <1>10. PICK x, y : x = HeldBy(h) /\ y = HeldBy(h)'
    OBVIOUS
  <1>11. x \in [Threads -> Nat] /\ y \in [Threads -> Nat]
    BY <1>10, HeldByType, HeldByTypeNext
  <1>12. \A u \in Threads : x[u] = RefsHeld(u, h) /\ y[u] = RefsHeld(u, h)'
    BY <1>10 DEF HeldBy
  <1>13. count[h] = Cardinality(Tokens(x))
    BY <1>10 DEF Balance
  <1>14. CASE h = f
    <2> DEFINE z == [u \in Threads |-> IF u \in R THEN 0 ELSE x[u]]
    <2>1. /\ \A u \in S : x[u] = 1 /\ y[u] = 0
          /\ \A u \in R : x[u] = 1 /\ y[u] = 0
          /\ \A u \in ((Threads \ S) \ R) \ {t} : y[u] = x[u]
          /\ y[t] = x[t] + n
      BY <1>1, <1>9, <1>12, <1>14
    <2>2. /\ z \in [Threads -> Nat]
          /\ \A u \in R : z[u] = 0
          /\ \A u \in Threads \ R : z[u] = x[u]
      BY <1>1, <1>11
    <2> HIDE DEF z
    <2>3. Cardinality(Tokens(x)) = Cardinality(Tokens(z)) + Cardinality(R)
      BY <1>1, <1>11, <2>1, <2>2, TokensMany
    <2>4. /\ \A u \in S : z[u] = 1 /\ y[u] = 0
          /\ \A u \in (Threads \ S) \ {t} : y[u] = z[u]
          /\ y[t] = z[t] + n
      BY <1>1, <2>1, <2>2
    <2>5. Cardinality(Tokens(y)) = Cardinality(Tokens(z))
      BY <1>1, <1>3, <1>11, <2>2, <2>4, TokensPass
    <2>6. PICK i \in Nat : i = Cardinality(Tokens(z))
      BY <2>2, TokensFinite
    <2>7. count[h] = i + c /\ count'[h] = count[h] - c
      BY <1>3, <1>8, <1>13, <1>14, <2>3, <2>6
    <2>8. count'[h] = Cardinality(Tokens(y))
      BY <2>5, <2>6, <2>7
    <2> QED  BY <1>10, <2>8
  <1>15. CASE h = g
    <2>1. /\ \A u \in R : y[u] = 1 /\ x[u] = 0
          /\ \A u \in Threads \ R : x[u] = y[u]
      BY <1>1, <1>9, <1>12, <1>15
    <2>2. Cardinality(Tokens(y)) = Cardinality(Tokens(x)) + Cardinality(R)
      BY <1>1, <1>11, <2>1, TokensMany
    <2>3. count'[h] = count[h] + c
      BY <1>1, <1>8, <1>15
    <2>4. count'[h] = Cardinality(Tokens(y))
      BY <1>3, <1>13, <2>2, <2>3
    <2> QED  BY <1>10, <2>4
  <1>16. CASE h # f /\ h # g
    <2>1. \A u \in Threads : y[u] = x[u]
      BY <1>1, <1>9, <1>12, <1>16
    <2>2. y = x
      BY <1>11, <2>1
    <2> QED  BY <1>8, <1>10, <1>13, <1>16, <2>2
  <1> QED  BY <1>14, <1>15, <1>16

LEMMA BalanceStep ==
  ASSUME FrameInv, FrameInv', Balance, [Next]_vars
  PROVE  Balance'
  <1>1. ASSUME NEW t \in Threads, Call(t)
        PROVE  Balance'
    BY <1>1, WaitBalance, WakeCallBalance, RequeueCallBalance, GetOwnerCallBalance DEF Call
  <1>2. ASSUME NEW t \in Threads, InCall(t)
        PROVE  Balance'
    BY <1>2, WaitCheckBalance, FailsBalance, BlockBalance, FindBlockingBalance,
       ClearOwnerBalance, ReleaseBalance, FutexWakeBalance, FutexRequeueBalance DEF InCall
  <1>3. CASE Next
    BY <1>1, <1>2, <1>3, IdleBalance, BlockBalance, WakeAfterStoreBalance DEF Next
  <1>4. CASE UNCHANGED vars
    BY <1>4 DEF Balance, HeldBy, RefsHeld, Tokens, vars, poolVars, queueVars, threadVars
  <1> QED  BY <1>3, <1>4

LEMMA BalanceInit ==
  ASSUME Init
  PROVE  Balance
  <1> SUFFICES ASSUME NEW f \in Futexes
               PROVE  count[f] = Cardinality(Tokens(HeldBy(f)))
    BY DEF Balance
  <1>1. \A t \in Threads : RefsHeld(t, f) = 0
    BY DEF Init, RefsHeld, NoRefs
  <1>2. Tokens(HeldBy(f)) = {}
    BY <1>1 DEF Tokens, HeldBy
  <1> QED  BY <1>2, FS_EmptySet DEF Init

(* The pending operations of each FutexState are as many as the references *)
(* the threads hold on it.                                                 *)
THEOREM BalanceInvariant == Spec => []Balance
  <1>1. Init => Balance
    BY BalanceInit
  <1>2. FrameInv /\ FrameInv' /\ Balance /\ [Next]_vars => Balance'
    BY BalanceStep
  <1> QED  BY <1>1, <1>2, FrameInvariant, PTL DEF Spec
-----------------------------------------------------------------------------
(* The pool of FutexStates.                                                *)

Active == {f \in Futexes : count[f] > 0}

Pool == {t \in Threads : pc[t] \notin {"unborn", "gone"}}

PoolInv == free + Cardinality(Active) = StatesPerThread * Cardinality(Pool)

LEMMA TokensPositive ==
  ASSUME NEW h \in [Threads -> Nat]
  PROVE  /\ Cardinality(Tokens(h)) \in Nat
         /\ Cardinality(Tokens(h)) > 0 <=> \E t \in Threads : h[t] > 0
  <1>1. IsFiniteSet(Tokens(h)) /\ Cardinality(Tokens(h)) \in Nat
    BY TokensFinite
  <1>2. Cardinality(Tokens(h)) = 0 <=> Tokens(h) = {}
    BY <1>1, FS_EmptySet
  <1>3. ASSUME NEW t \in Threads, h[t] > 0 PROVE Tokens(h) # {}
    <2>1. 1 \in 1 .. h[t]
      BY <1>3
    <2> QED  BY <2>1, TokenElement
  <1>4. ASSUME NEW x \in Tokens(h) PROVE \E t \in Threads : h[t] > 0
    <2>1. PICK u \in Threads : \E i \in 1 .. h[u] : x = <<u, i>>
      BY TokenPair
    <2> QED  BY <2>1
  <1> QED  BY <1>1, <1>2, <1>3, <1>4

LEMMA CountFacts ==
  ASSUME FrameInv, Balance, NEW f \in Futexes
  PROVE  /\ count[f] \in Nat
         /\ count[f] > 0 <=> \E t \in Threads : RefsHeld(t, f) > 0
  <1>1. HeldBy(f) \in [Threads -> Nat] /\ count[f] = Cardinality(Tokens(HeldBy(f)))
    BY HeldByType DEF Balance
  <1>2. \A t \in Threads : HeldBy(f)[t] = RefsHeld(t, f)
    BY DEF HeldBy
  <1> QED  BY <1>1, <1>2, TokensPositive

LEMMA CountFactsNext ==
  ASSUME FrameInv', Balance', NEW f \in Futexes
  PROVE  /\ count'[f] \in Nat
         /\ \A t \in Threads : RefsHeld(t, f)' > 0 => count'[f] > 0
  <1>1. PICK h : h = HeldBy(f)'
    OBVIOUS
  <1>2. h \in [Threads -> Nat] /\ count'[f] = Cardinality(Tokens(h))
    BY <1>1, HeldByTypeNext DEF Balance, Tokens
  <1>3. \A t \in Threads : h[t] = RefsHeld(t, f)'
    BY <1>1 DEF HeldBy
  <1> QED  BY <1>2, <1>3, TokensPositive

LEMMA PoolFinite == IsFiniteSet(Pool) /\ Cardinality(Pool) \in Nat
  <1>1. Pool \in SUBSET Threads
    BY DEF Pool
  <1> QED  BY <1>1, FutexAssumption, FS_Subset, FS_CardinalityType

(* A thread answers for two futexes at most: this is why it brings two.    *)
LEMMA TwoAtMost ==
  ASSUME FrameInv, NEW t \in Threads
  PROVE  \E a, b : \A f \in Futexes : RefsHeld(t, f) > 0 => f = a \/ f = b
  <1>1. pc[t] \in Labels
    BY DEF FrameInv, Types
  <1>2. CASE pc[t] \in {"unborn", "idle", "stored", "dead", "gone"}
    BY <1>2, HeldFacts
  <1>3. CASE pc[t] \in {"activated", "checked", "wake"}
    <2>1. \A f \in Futexes : RefsHeld(t, f) > 0 => f = arg[t].f \/ f = arg[t].f
      BY <1>3, HeldFacts
    <2> QED  BY <2>1
  <1>4. CASE pc[t] \in {"requeue", "requeue_checked"}
    <2>1. \A f \in Futexes : RefsHeld(t, f) > 0 => f = arg[t].f \/ f = arg[t].g
      BY <1>4, HeldFacts
    <2> QED  BY <2>1
  <1>5. CASE pc[t] \in {"blocked", "removed"}
    <2>1. \A f \in Futexes : RefsHeld(t, f) > 0 => f = blocking[t] \/ f = blocking[t]
      BY <1>5, HeldFacts
    <2> QED  BY <2>1
  <1>6. CASE pc[t] = "found"
    <2>1. PICK a \in Futexes : rel[t] = [NoRefs EXCEPT ![a] = 2]
      BY <1>6 DEF FrameInv, Local, RelOK
    <2>2. \A f \in Futexes \ {a} : rel[t][f] = 0
      BY <2>1 DEF NoRefs
    <2>3. \A f \in Futexes : RefsHeld(t, f) > 0 => f = a \/ f = a
      BY <1>6, <2>2, HeldFacts
    <2> QED  BY <2>3
  <1>7. CASE pc[t] = "release"
    <2>1. PICK a, b \in Futexes : \A f \in Futexes \ {a, b} : rel[t][f] = 0
      BY <1>7 DEF FrameInv, Local, RelOK
    <2>2. \A f \in Futexes : RefsHeld(t, f) > 0 => f = a \/ f = b
      BY <1>7, <2>1, HeldFacts
    <2> QED  BY <2>2
  <1> QED  BY <1>1, <1>2, <1>3, <1>4, <1>5, <1>6, <1>7 DEF Labels

LEMMA RangeBound ==
  ASSUME NEW P, IsFiniteSet(P), NEW A, A = [t \in P |-> A[t]]
  PROVE  /\ IsFiniteSet({A[t] : t \in P})
         /\ Cardinality({A[t] : t \in P}) <= Cardinality(P)
  <1> DEFINE T == {A[t] : t \in P}
  <1>1. A \in Surjection(P, T)
    BY DEF Surjection
  <1> HIDE DEF T
  <1>2. IsFiniteSet(T) /\ Cardinality(T) <= Cardinality(P)
    BY <1>1, FS_Surjection
  <1> QED  BY <1>2 DEF T

LEMMA ActiveBound ==
  ASSUME FrameInv, Balance
  PROVE  /\ IsFiniteSet(Active) /\ Cardinality(Active) \in Nat
         /\ Cardinality(Active) <= 2 * Cardinality(Pool)
  <1> DEFINE Q(t, a, b) == \A f \in Futexes : RefsHeld(t, f) > 0 => f = a \/ f = b
             A == [t \in Pool |-> CHOOSE a : \E b : Q(t, a, b)]
             B == [t \in Pool |-> CHOOSE b : Q(t, A[t], b)]
             X == {A[t] : t \in Pool}
             Y == {B[t] : t \in Pool}
  <1>1. ASSUME NEW t \in Pool PROVE Q(t, A[t], B[t])
    <2>1. t \in Threads
      BY DEF Pool
    <2>2. \E a : \E b : Q(t, a, b)
      BY <2>1, TwoAtMost
    <2> HIDE DEF Q
    <2>3. \E b : Q(t, A[t], b)
      BY <2>2
    <2> QED  BY <2>3
  <1>2. /\ IsFiniteSet(X) /\ Cardinality(X) <= Cardinality(Pool)
        /\ IsFiniteSet(Y) /\ Cardinality(Y) <= Cardinality(Pool)
    <2>1. A = [t \in Pool |-> A[t]] /\ B = [t \in Pool |-> B[t]]
      OBVIOUS
    <2> HIDE DEF A, B
    <2> QED  BY <2>1, PoolFinite, RangeBound
  <1>3. Active \subseteq X \cup Y
    <2> SUFFICES ASSUME NEW f \in Active PROVE f \in X \cup Y
      OBVIOUS
    <2>1. f \in Futexes /\ count[f] > 0
      BY DEF Active
    <2>2. PICK t \in Threads : RefsHeld(t, f) > 0
      BY <2>1, CountFacts
    <2>3. t \in Pool
      BY <2>1, <2>2, HeldFacts DEF Pool
    <2>4. f = A[t] \/ f = B[t]
      BY <1>1, <2>1, <2>2, <2>3
    <2> HIDE DEF A, B
    <2> QED  BY <2>3, <2>4
  <1> HIDE DEF X, Y
  <1>4. /\ IsFiniteSet(X \cup Y)
        /\ Cardinality(X \cup Y) = Cardinality(X) + Cardinality(Y) - Cardinality(X \cap Y)
    BY <1>2, FS_Union
  <1>5. /\ Cardinality(X) \in Nat /\ Cardinality(Y) \in Nat /\ Cardinality(X \cap Y) \in Nat
        /\ Cardinality(X \cup Y) \in Nat
    BY <1>2, <1>4, FS_CardinalityType, FS_Intersection
  <1>6. IsFiniteSet(Active) /\ Cardinality(Active) <= Cardinality(X \cup Y)
    BY <1>3, <1>4, FS_Subset
  <1>7. Cardinality(Active) \in Nat
    BY <1>6, FS_CardinalityType
  <1>8. PICK n \in Nat, x \in Nat, y \in Nat, i \in Nat, c \in Nat :
          /\ n = Cardinality(Pool) /\ x = Cardinality(X) /\ y = Cardinality(Y)
          /\ i = Cardinality(X \cap Y) /\ c = Cardinality(Active)
    BY <1>5, <1>7, PoolFinite
  <1>9. x <= n /\ y <= n /\ c <= x + y - i
    BY <1>2, <1>4, <1>6, <1>8
  <1>10. c <= 2 * n
    BY <1>8, <1>9
  <1> QED  BY <1>6, <1>7, <1>8, <1>10

LEMMA PoolArith ==
  ASSUME FrameInv, FrameInv', Balance, Balance', PoolInv, NEW j \in Int, NEW k \in Int,
         free' = free - j + 2 * k,
         Cardinality(Active') = Cardinality(Active) + j,
         Cardinality(Pool') = Cardinality(Pool) + k
  PROVE  PoolInv'
  <1>1. free \in Int
    BY DEF FrameInv, Types
  <1>2. PICK a \in Nat, p \in Nat : a = Cardinality(Active) /\ p = Cardinality(Pool)
    BY ActiveBound, PoolFinite
  <1>3. free + a = 2 * p
    BY <1>2 DEF PoolInv, StatesPerThread
  <1>4. (free - j + 2 * k) + (a + j) = 2 * (p + k)
    BY <1>1, <1>3
  <1> QED  BY <1>2, <1>4 DEF PoolInv, StatesPerThread

(* The threads of the pool are those that are neither unborn nor gone.     *)
LEMMA PoolSame ==
  ASSUME \A u \in Threads : pc'[u] \in {"unborn", "gone"} <=> pc[u] \in {"unborn", "gone"}
  PROVE  Pool' = Pool
  BY DEF Pool

LEMMA PoolQuiet ==
  ASSUME FrameInv, FrameInv', Balance, Balance', PoolInv,
         UNCHANGED <<count, free>>, Pool' = Pool
  PROVE  PoolInv'
  BY DEF PoolInv, Active

LEMMA PoolActivate ==
  ASSUME FrameInv, FrameInv', Balance, Balance', PoolInv,
         NEW fs \in SUBSET Futexes, IsFiniteSet(fs), Activate(fs), Pool' = Pool
  PROVE  PoolInv'
  <1> DEFINE N == {f \in fs : count[f] = 0}
  <1>1. \A f \in Futexes : count[f] \in Nat
    BY CountFacts
  <1>2. \A f \in Futexes : count'[f] = IF f \in fs THEN count[f] + 1 ELSE count[f]
    BY DEF Activate
  <1>3. Active' = Active \cup N /\ Active \cap N = {}
    BY <1>1, <1>2 DEF Active
  <1>4. free' = free - Cardinality(N)
    BY DEF Activate
  <1> HIDE DEF N
  <1>5. IsFiniteSet(Active)
    BY ActiveBound
  <1>6. IsFiniteSet(N)
    BY FS_Subset DEF N
  <1>7. Cardinality(Active') = Cardinality(Active) + Cardinality(N)
    BY <1>3, <1>5, <1>6, DisjointUnion
  <1>8. PICK j \in Nat : j = Cardinality(N)
    BY <1>6, FS_CardinalityType
  <1>9. free' = free - j + 2 * 0
    BY <1>4, <1>8 DEF FrameInv, Types
  <1>10. Cardinality(Pool') = Cardinality(Pool) + 0
    BY PoolFinite
  <1> QED  BY <1>7, <1>8, <1>9, <1>10, PoolArith

LEMMA CreatePool ==
  ASSUME FrameInv, FrameInv', Balance, Balance', PoolInv, NEW t \in Threads, Create(t)
  PROVE  PoolInv'
  <1>1. pc[t] = "unborn" /\ pc' = [pc EXCEPT ![t] = "idle"] /\ free' = free + 2 /\ count' = count
    BY DEF Create, Goto, StatesPerThread
  <1>2. pc'[t] = "idle" /\ \A u \in Threads \ {t} : pc'[u] = pc[u]
    BY <1>1 DEF FrameInv, Types
  <1>3. Pool' = Pool \cup {t} /\ t \notin Pool
    BY <1>1, <1>2 DEF Pool
  <1>4. Cardinality(Pool') = Cardinality(Pool) + 1
    BY <1>3, PoolFinite, FS_AddElement
  <1>5. Cardinality(Active') = Cardinality(Active) + 0
    BY <1>1, ActiveBound DEF Active
  <1>6. free' = free - 0 + 2 * 1
    BY <1>1 DEF FrameInv, Types
  <1> QED  BY <1>4, <1>5, <1>6, PoolArith

LEMMA DestroyPool ==
  ASSUME FrameInv, FrameInv', Balance, Balance', PoolInv, NEW t \in Threads, Destroy(t)
  PROVE  PoolInv'
  <1>1. pc[t] = "dead" /\ pc' = [pc EXCEPT ![t] = "gone"] /\ free' = free - 2 /\ count' = count
    BY DEF Destroy, Goto, StatesPerThread
  <1>2. pc'[t] = "gone" /\ \A u \in Threads \ {t} : pc'[u] = pc[u]
    BY <1>1 DEF FrameInv, Types
  <1>3. Pool' = Pool \ {t} /\ t \in Pool
    BY <1>1, <1>2 DEF Pool
  <1>4. Cardinality(Pool') = Cardinality(Pool) - 1 /\ Cardinality(Pool) \in Nat
    BY <1>3, PoolFinite, FS_RemoveElement
  <1>5. Cardinality(Pool') = Cardinality(Pool) + (-1)
    BY <1>4
  <1>6. Cardinality(Active') = Cardinality(Active) + 0
    BY <1>1, ActiveBound DEF Active
  <1>7. free' = free - 0 + 2 * (-1)
    BY <1>1 DEF FrameInv, Types
  <1> QED  BY <1>5, <1>6, <1>7, PoolArith

LEMMA ReleasePool ==
  ASSUME FrameInv, FrameInv', Balance, Balance', PoolInv, NEW t \in Threads, Release(t)
  PROVE  PoolInv'
  <1>1. PICK f \in Futexes :
           /\ pc[t] = "release"
           /\ rel[t][f] > 0
           /\ count' = [count EXCEPT ![f] = count[f] - rel[t][f]]
           /\ free' = IF count[f] - rel[t][f] = 0 THEN free + 1 ELSE free
           /\ pc'[t] = IF [rel[t] EXCEPT ![f] = 0] = NoRefs THEN "idle" ELSE "release"
           /\ \A u \in Threads \ {t} : pc'[u] = pc[u]
    BY ReleaseFacts
  <1>2. pc'[t] \in {"idle", "release"}
    BY <1>1
  <1>3. Pool' = Pool
    BY <1>1, <1>2, PoolSame
  <1>4. \A h \in Futexes \ {f} : count'[h] = count[h]
    BY <1>1 DEF FrameInv, Types
  <1>5. count'[f] = count[f] - rel[t][f] /\ count'[f] \in Nat
    BY <1>1, CountFactsNext DEF FrameInv, Types
  <1>6. count[f] > 0
    <2>1. RefsHeld(t, f) > 0
      BY <1>1, HeldFacts
    <2> QED  BY <2>1, CountFacts
  <1>7. free \in Int /\ IsFiniteSet(Active) /\ Cardinality(Active) \in Nat
    BY ActiveBound DEF FrameInv, Types
  <1>8. CASE count'[f] = 0
    <2>1. Active' = Active \ {f} /\ f \in Active
      BY <1>4, <1>6, <1>8 DEF Active
    <2>2. Cardinality(Active') = Cardinality(Active) - 1
      BY <1>7, <2>1, FS_RemoveElement
    <2>3. Cardinality(Active') = Cardinality(Active) + (-1)
      BY <1>7, <2>2
    <2>4. free' = free - (-1) + 2 * 0
      BY <1>1, <1>5, <1>7, <1>8
    <2>5. Cardinality(Pool') = Cardinality(Pool) + 0
      BY <1>3, PoolFinite
    <2> QED  BY <2>3, <2>4, <2>5, PoolArith
  <1>9. CASE count'[f] # 0
    <2>1. count'[f] > 0
      BY <1>5, <1>9
    <2>2. Active' = Active
      BY <1>4, <1>6, <2>1 DEF Active
    <2>3. free' = free
      BY <1>1, <1>5, <1>9
    <2> QED  BY <1>3, <2>2, <2>3 DEF PoolInv
  <1> QED  BY <1>8, <1>9

LEMMA FutexWakePool ==
  ASSUME FrameInv, FrameInv', Balance, Balance', PoolInv, NEW t \in Threads, FutexWake(t)
  PROVE  PoolInv'
  <1>0. PICK f, S : WakeStep(t, f, S)
    BY WakeFacts
  <1>1. /\ pc[t] = "wake" /\ f \in Futexes /\ S \subseteq waiters[f] /\ S \in SUBSET Threads
        /\ UNCHANGED <<count, free>>
        /\ pc' = [u \in Threads |-> IF u \in S THEN "idle"
                                    ELSE IF u = t THEN "release" ELSE pc[u]]
    BY <1>0 DEF WakeStep
  <1>2. \A u \in S : pc[u] = "blocked"
    BY <1>1 DEF FrameInv, QueueOK
  <1>3. Pool' = Pool
    BY <1>1, <1>2, PoolSame
  <1> QED  BY <1>1, <1>3, PoolQuiet

LEMMA FutexRequeuePool ==
  ASSUME FrameInv, FrameInv', Balance, Balance', PoolInv, NEW t \in Threads, FutexRequeue(t)
  PROVE  PoolInv'
  <1>0. PICK f, g, S, R : RequeueStep(t, f, g, S, R)
    BY RequeueFacts
  <1>1. /\ pc[t] = "requeue_checked" /\ f \in Futexes /\ g \in Futexes /\ f # g
        /\ f = arg[t].f /\ g = arg[t].g
        /\ S \subseteq waiters[f] /\ S \in SUBSET Threads /\ t \notin S
        /\ free' = free
        /\ pc' = [u \in Threads |-> IF u \in S THEN "idle"
                                    ELSE IF u = t THEN "release" ELSE pc[u]]
    BY <1>0 DEF RequeueStep
  <1>2. \A u \in S : pc[u] = "blocked"
    BY <1>1 DEF FrameInv, QueueOK
  <1>3. Pool' = Pool
    BY <1>1, <1>2, PoolSame
  <1>4. \A h \in Futexes \ {f, g} : count'[h] = count[h]
    BY <1>0, <1>1 DEF RequeueStep, FrameInv, Types
  <1>5. count[f] > 0 /\ count[g] > 0
    <2>1. RefsHeld(t, f) > 0 /\ RefsHeld(t, g) > 0
      BY <1>1, HeldFacts
    <2> QED  BY <1>1, <2>1, CountFacts
  <1>6. count'[f] > 0 /\ count'[g] > 0
    <2>1. PICK n \in Nat : n = Cardinality(S)
      BY <1>0 DEF RequeueStep
    <2> DEFINE r == [NoRefs EXCEPT ![g] = 1, ![f] = 1 + n]
    <2>2. r[f] > 0 /\ r[g] > 0
      BY <1>1 DEF NoRefs
    <2>3. rel' = [rel EXCEPT ![t] = r]
      BY <1>0, <2>1 DEF RequeueStep
    <2> HIDE DEF r
    <2>4. rel'[t] = r /\ pc'[t] = "release"
      BY <1>1, <2>3 DEF FrameInv, Types
    <2>5. RefsHeld(t, f)' > 0 /\ RefsHeld(t, g)' > 0
      BY <2>2, <2>4 DEF RefsHeld
    <2> QED  BY <1>1, <2>5, CountFactsNext
  <1>7. Active' = Active
    BY <1>1, <1>4, <1>5, <1>6 DEF Active
  <1> QED  BY <1>1, <1>3, <1>7 DEF PoolInv

(* The steps of t that leave the pool and the counts alone.                *)
LEMMA QuietPool ==
  ASSUME FrameInv, FrameInv', Balance, Balance', PoolInv, NEW t \in Threads,
         \/ Exit(t) \/ (\E f \in Futexes : Store(t, f)) \/ WaitCheck(t) \/ WaitFails(t)
         \/ Block(t) \/ BlockFails(t) \/ Unblock(t) \/ ClearOwner(t)
         \/ RequeueCheck(t) \/ RequeueFails(t)
  PROVE  PoolInv'
  <1>1. UNCHANGED <<count, free>>
    BY DEF Exit, Store, WaitCheck, WaitFails, Block, BlockFails, Unblock, ClearOwner,
           RequeueCheck, RequeueFails, poolVars
  <1>2. pc[t] \notin {"unborn", "gone"}
    BY DEF Exit, Store, WaitCheck, WaitFails, Block, BlockFails, Unblock, ClearOwner,
           RequeueCheck, RequeueFails
  <1>3. PICK l \in Labels \ {"unborn", "gone"} : pc' = [pc EXCEPT ![t] = l]
    BY DEF Exit, Store, WaitCheck, WaitFails, Leave, Block, BlockFails, Unblock, ClearOwner,
           RequeueCheck, RequeueFails, Goto, Labels
  <1>4. Pool' = Pool
    <2>1. pc'[t] = l /\ \A u \in Threads \ {t} : pc'[u] = pc[u]
      BY <1>3 DEF FrameInv, Types
    <2> QED  BY <1>2, <1>3, <2>1, PoolSame
  <1> QED  BY <1>1, <1>4, PoolQuiet

LEMMA ActivatePool ==
  ASSUME FrameInv, FrameInv', Balance, Balance', PoolInv, NEW t \in Threads,
         NEW f \in Futexes, NEW g \in Futexes, Activate({f, g}),
         pc[t] \notin {"unborn", "gone"}, NEW l, l \notin {"unborn", "gone"}, Goto(t, l)
  PROVE  PoolInv'
  <1>1. pc'[t] = l /\ \A u \in Threads \ {t} : pc'[u] = pc[u]
    BY DEF Goto, FrameInv, Types
  <1>2. Pool' = Pool
    BY <1>1, PoolSame
  <1>3. IsFiniteSet({f, g})
    BY PairFinite
  <1> QED  BY <1>2, <1>3, PoolActivate

LEMMA ActivatesPool ==
  ASSUME FrameInv, FrameInv', Balance, Balance', PoolInv, NEW t \in Threads,
         Call(t) \/ FindBlocking(t) \/ WakeAfterStore(t)
  PROVE  PoolInv'
  <1>0. ASSUME NEW f \in Futexes PROVE {f} = {f, f}
    OBVIOUS
  <1>1. ASSUME NEW f \in Futexes, NEW expect, NEW o, Wait(t, f, expect, o)
        PROVE  PoolInv'
    BY <1>0, <1>1, ActivatePool DEF Wait
  <1>2. ASSUME NEW f \in Futexes, NEW n, NEW action, WakeCall(t, f, n, action)
        PROVE  PoolInv'
    BY <1>0, <1>2, ActivatePool DEF WakeCall
  <1>3. ASSUME NEW f \in Futexes, NEW g \in Futexes, NEW n, NEW m, NEW expect, NEW o, NEW action,
               RequeueCall(t, f, g, n, m, expect, o, action)
        PROVE  PoolInv'
    BY <1>3, ActivatePool DEF RequeueCall
  <1>4. ASSUME NEW f \in Futexes, GetOwnerCall(t, f)
        PROVE  PoolInv'
    BY <1>0, <1>4, ActivatePool DEF GetOwnerCall, Leave
  <1>5. ASSUME FindBlocking(t)
        PROVE  PoolInv'
    <2>1. pc[t] = "removed" /\ blocking[t] \in Futexes
      BY <1>5 DEF FindBlocking, FrameInv, Types, Local, BlockingOK
    <2> QED  BY <1>0, <1>5, <2>1, ActivatePool DEF FindBlocking
  <1>6. ASSUME WakeAfterStore(t)
        PROVE  PoolInv'
    <2>1. pc[t] = "stored" /\ arg[t].f \in Futexes
      BY <1>6, ArgFacts DEF WakeAfterStore
    <2>2. CASE Activate({arg[t].f}) /\ Goto(t, "wake")
      BY <1>0, <2>1, <2>2, ActivatePool
    <2>3. CASE UNCHANGED poolVars /\ Goto(t, "idle")
      <3>1. pc'[t] = "idle" /\ \A u \in Threads \ {t} : pc'[u] = pc[u]
        BY <2>3 DEF Goto, FrameInv, Types
      <3>2. Pool' = Pool
        BY <2>1, <3>1, PoolSame
      <3> QED  BY <2>3, <3>2, PoolQuiet DEF poolVars
    <2> QED  BY <1>6, <2>2, <2>3 DEF WakeAfterStore
  <1> QED  BY <1>1, <1>2, <1>3, <1>4, <1>5, <1>6 DEF Call

LEMMA PoolStep ==
  ASSUME FrameInv, FrameInv', Balance, Balance', PoolInv, [Next]_vars
  PROVE  PoolInv'
  <1>1. CASE Next
    BY <1>1, CreatePool, DestroyPool, ReleasePool, FutexWakePool, FutexRequeuePool, QuietPool,
       ActivatesPool DEF Next, InCall
  <1>2. CASE UNCHANGED vars
    BY <1>2 DEF PoolInv, Active, Pool, vars, poolVars, threadVars
  <1> QED  BY <1>1, <1>2

LEMMA PoolInit ==
  ASSUME Init
  PROVE  PoolInv
  <1>1. Active = {} /\ Pool = {} /\ free = 0
    BY DEF Init, Active, Pool
  <1>2. Cardinality({}) = 0
    BY FS_EmptySet
  <1> QED  BY <1>1, <1>2 DEF PoolInv, StatesPerThread

(* The states in the pool and those in use are together two for each       *)
(* thread that exists: GrowFutexStatePool and ShrinkFutexStatePool balance.*)
THEOREM PoolInvariant == Spec => []PoolInv
  <1>1. Init => PoolInv
    BY PoolInit
  <1>2. FrameInv /\ FrameInv' /\ Balance /\ Balance' /\ PoolInv /\ [Next]_vars => PoolInv'
    BY PoolStep
  <1> QED  BY <1>1, <1>2, FrameInvariant, BalanceInvariant, PTL DEF Spec

LEMMA PoolFromInvariants ==
  ASSUME FrameInv, Balance, PoolInv
  PROVE  PoolSuffices /\ free \in Nat
  <1>1. free \in Int
    BY DEF FrameInv, Types
  <1>2. PICK a \in Nat, p \in Nat : a = Cardinality(Active) /\ p = Cardinality(Pool) /\ a <= 2 * p
    BY ActiveBound, PoolFinite
  <1>3. free + a = 2 * p
    BY <1>2 DEF PoolInv, StatesPerThread
  <1>4. free >= 0
    BY <1>1, <1>2, <1>3
  <1> QED  BY <1>1, <1>4 DEF PoolInv, PoolSuffices, Active, Pool

(* The two FutexStates that each thread brings are enough for every call   *)
(* it can have in progress, through wakes that answer for others and       *)
(* time-outs that hold two references: ActivateFutex never finds the pool  *)
(* empty, nor does ShrinkFutexStatePool when a thread takes its own away.  *)
THEOREM PoolSufficesHolds == Spec => []PoolSuffices
  <1>1. FrameInv /\ Balance /\ PoolInv => PoolSuffices
    BY PoolFromInvariants
  <1> QED  BY <1>1, FrameInvariant, BalanceInvariant, PoolInvariant, PTL

LEMMA RefsFromInvariants ==
  ASSUME FrameInv, Balance, PoolInv
  PROVE  RefsBalanced
  <1>1. ASSUME NEW f \in Futexes
        PROVE  count[f] = Cardinality(RefsTo(f)) /\ count[f] \in Nat
    <2>1. RefsTo(f) = Tokens(HeldBy(f))
      BY DEF RefsTo, Tokens, HeldBy
    <2> QED  BY <2>1, CountFacts DEF Balance
  <1>2. count \in [Futexes -> Nat]
    BY <1>1 DEF FrameInv, Types
  <1>3. TypeOK
    BY <1>2, PoolFromInvariants DEF FrameInv, Types, TypeOK
  <1> QED  BY <1>1, <1>3 DEF RefsBalanced

(* pending_operation_count_ is the number of references that calls and     *)
(* sleeping threads have still to release, whatever the wakes that release *)
(* for others and the requeues that move a sleeper's reference: a          *)
(* FutexState neither leaks nor goes back to the pool while in use.        *)
THEOREM RefsBalancedHolds == Spec => []RefsBalanced
  <1>1. FrameInv /\ Balance /\ PoolInv => RefsBalanced
    BY RefsFromInvariants
  <1> QED  BY <1>1, FrameInvariant, BalanceInvariant, PoolInvariant, PTL

(* A FutexState in the pool has no owner, as PendingOpRef::Release and     *)
(* ActivateFutex assert, as long as no requeue assigns the woken thread.   *)
THEOREM FreeStatesUnownedHolds ==
  ASSUME RequeueActions \subseteq {"RELEASE"}
  PROVE  Spec => []FreeStatesUnowned
  <1>1. ASSUME FrameInv, Balance, OwnedHasWaiters
        PROVE  FreeStatesUnowned
    <2> SUFFICES ASSUME NEW f \in Futexes, count[f] = 0, owner[f] # None PROVE FALSE
      BY DEF FreeStatesUnowned
    <2>1. \A t \in Threads : ~(RefsHeld(t, f) > 0)
      BY <1>1, CountFacts
    <2>2. Attended(f)
      BY <1>1 DEF OwnedHasWaiters, Attended
    <2>3. PICK t \in Threads : \/ pc[t] \in {"blocked", "removed"} /\ blocking[t] = f
                               \/ pc[t] = "found" /\ rel[t][f] > 0
      BY <1>1, <2>2 DEF Attended, FrameInv, Types, QueueOK
    <2>4. RefsHeld(t, f) > 0
      BY <1>1, <2>3, HeldFacts
    <2> QED  BY <2>1, <2>4
  <1>2. FrameInv /\ Balance /\ OwnedHasWaiters => FreeStatesUnowned
    BY <1>1
  <1> QED  BY <1>2, FrameInvariant, BalanceInvariant, OwnedHasWaitersHolds, PTL
-----------------------------------------------------------------------------
(* Wake-ups.                                                               *)

(* Has checked the value of the futex and is to sleep or sleeps on it,     *)
(* although the value has changed since.                                   *)
Misled(t) ==
  /\ pc[t] \in {"checked", "blocked"} /\ arg[t].op = "wait"
  /\ value[arg[t].f] # arg[t].expect

WakeOK == \A t \in Threads : Misled(t) => WakeOwed(arg[t].f)

LEMMA MisledFacts ==
  ASSUME FrameInv, NEW t \in Threads, pc[t] \in {"checked", "blocked"}, arg[t].op = "wait"
  PROVE  /\ arg[t].f \in Futexes /\ blocking[t] = arg[t].f
         /\ RefsHeld(t, arg[t].f) > 0
         /\ pc[t] = "checked" => lock[arg[t].f] = t
         /\ pc[t] = "blocked" => t \in waiters[arg[t].f]
  <1>1. Local(t)
    BY DEF FrameInv
  <1>2. arg[t] # NoArg
    BY DEF NoArg
  <1>3. arg[t] \in WaitArgs /\ blocking[t] = arg[t].f
    BY <1>1, <1>2 DEF Local, ArgsOK, BlockingOK
  <1>4. arg[t].f \in Futexes
    BY <1>3 DEF WaitArgs
  <1>5. RefsHeld(t, arg[t].f) = 1
    BY <1>3, <1>4, HeldFacts
  <1> QED  BY <1>3, <1>4, <1>5 DEF FrameInv, LockOK, QueueOK

(* The wakes on their way stay on their way.                               *)
LEMMA OwedKept ==
  ASSUME NEW f, WakeOwed(f),
         \A u \in Threads : pc[u] \in {"stored", "wake"} =>
           pc'[u] \in {"stored", "wake"} /\ arg'[u] = arg[u]
  PROVE  WakeOwed(f)'
  BY DEF WakeOwed

(* A step in which no wake is carried out and nobody goes to sleep with a  *)
(* value that has changed.                                                 *)
LEMMA WakeKept ==
  ASSUME FrameInv, WakeOK, value' = value,
         \A u \in Threads : pc[u] \in {"stored", "wake"} =>
           pc'[u] \in {"stored", "wake"} /\ arg'[u] = arg[u],
         \A u \in Threads : pc'[u] \in {"checked", "blocked"} /\ arg'[u].op = "wait" =>
           \/ value[arg'[u].f] = arg'[u].expect
           \/ /\ pc[u] \in {"checked", "blocked"} /\ arg[u].op = "wait"
              /\ arg'[u].f = arg[u].f /\ arg'[u].expect = arg[u].expect
  PROVE  WakeOK'
  <1> SUFFICES ASSUME NEW u \in Threads, pc'[u] \in {"checked", "blocked"}, arg'[u].op = "wait",
                      value[arg'[u].f] # arg'[u].expect
               PROVE  \E f : f = arg'[u].f /\ WakeOwed(f)'
    BY DEF WakeOK, Misled, WakeOwed
  <1>1. Misled(u) /\ arg'[u].f = arg[u].f
    BY DEF Misled
  <1>2. PICK f : f = arg[u].f
    OBVIOUS
  <1>3. WakeOwed(f)
    BY <1>1, <1>2 DEF WakeOK
  <1>4. WakeOwed(f)'
    BY <1>3, OwedKept
  <1> QED  BY <1>1, <1>2, <1>4

LEMMA WakeOne ==
  ASSUME FrameInv, WakeOK, value' = value, NEW t \in Threads, \A u \in Threads \ {t} : Same(u),
         pc[t] \notin {"stored", "wake"}, pc'[t] \notin {"checked", "blocked"}
  PROVE  WakeOK'
  BY WakeKept DEF Same

LEMMA QuietWake ==
  ASSUME FrameInv, WakeOK, NEW t \in Threads,
         \/ Create(t) \/ Exit(t) \/ Destroy(t) \/ Call(t) \/ WaitFails(t) \/ RequeueFails(t)
         \/ Release(t) \/ RequeueCheck(t) \/ BlockFails(t) \/ Unblock(t) \/ ClearOwner(t)
  PROVE  WakeOK'
  <1>1. value' = value
    BY DEF Create, Exit, Destroy, Call, Wait, WakeCall, RequeueCall, GetOwnerCall, WaitFails,
           RequeueFails, Release, RequeueCheck, BlockFails, Unblock, ClearOwner, userVars
  <1>2. pc[t] \notin {"stored", "wake"}
    <2>1. CASE Call(t)
      <3>1. pc[t] = "idle"
        BY <2>1 DEF Call, Wait, WakeCall, RequeueCall, GetOwnerCall
      <3> QED  BY <3>1
    <2>2. CASE ~Call(t)
      <3>1. pc[t] \in {"unborn", "idle", "dead", "activated", "requeue", "release", "checked",
                       "blocked", "found"}
        BY <2>2 DEF Create, Exit, Destroy, WaitFails, RequeueFails, Release, RequeueCheck,
                    BlockFails, Unblock, ClearOwner
      <3> QED  BY <3>1
    <2> QED  BY <2>1, <2>2
  <1>3. CASE Call(t) \/ WaitFails(t) \/ RequeueFails(t) \/ Release(t)
    <2>1. Calm(t)
      BY <1>3, CallCalm, LeaveCalm, ReleaseCalm DEF WaitFails, RequeueFails
    <2> QED  BY <1>1, <1>2, <2>1, WakeOne DEF Calm
  <1>4. CASE Create(t) \/ Exit(t) \/ Destroy(t) \/ RequeueCheck(t) \/ BlockFails(t) \/ Unblock(t)
             \/ ClearOwner(t)
    <2>1. pc'[t] \notin {"checked", "blocked"}
      BY <1>4 DEF Create, Exit, Destroy, RequeueCheck, BlockFails, Unblock, ClearOwner, Goto,
                  FrameInv, Types
    <2>2. ASSUME NEW u \in Threads \ {t} PROVE Same(u)
      BY <1>4 DEF Create, Exit, Destroy, RequeueCheck, BlockFails, Unblock, ClearOwner, Goto,
                  FrameInv, Types, queueVars, Same
    <2> QED  BY <1>1, <1>2, <2>1, <2>2, WakeOne
  <1> QED  BY <1>3, <1>4

LEMMA FindBlockingWake ==
  ASSUME FrameInv, WakeOK, NEW t \in Threads, FindBlocking(t)
  PROVE  WakeOK'
  <1>1. value' = value /\ pc[t] = "removed" /\ arg' = arg
    BY DEF FindBlocking, userVars
  <1>2. pc'[t] = "found" /\ \A u \in Threads \ {t} : pc'[u] = pc[u]
    BY DEF FindBlocking, Goto, FrameInv, Types
  <1> QED  BY <1>1, <1>2, WakeKept

LEMMA WaitCheckWake ==
  ASSUME FrameInv, WakeOK, NEW t \in Threads, WaitCheck(t)
  PROVE  WakeOK'
  <1>1. /\ value' = value /\ pc[t] = "activated" /\ arg' = arg
        /\ value[arg[t].f] = arg[t].expect
    BY DEF WaitCheck, userVars
  <1>2. \A u \in Threads \ {t} : pc'[u] = pc[u]
    BY DEF WaitCheck, Goto, FrameInv, Types
  <1> QED  BY <1>1, <1>2, WakeKept

LEMMA BlockWake ==
  ASSUME FrameInv, WakeOK, NEW t \in Threads, Block(t)
  PROVE  WakeOK'
  <1> DEFINE a == [arg[t] EXCEPT !.owner = None]
  <1>1. value' = value /\ pc[t] = "checked" /\ arg' = [arg EXCEPT ![t] = a]
    BY DEF Block, userVars
  <1>2. arg[t] \in WaitArgs /\ arg[t].op = "wait"
    BY <1>1, ArgFacts
  <1>3. a.f = arg[t].f /\ a.expect = arg[t].expect
    BY <1>2 DEF WaitArgs
  <1> HIDE DEF a
  <1>4. arg'[t] = a /\ \A u \in Threads \ {t} : pc'[u] = pc[u] /\ arg'[u] = arg[u]
    BY <1>1 DEF Block, Goto, FrameInv, Types
  <1>5. ASSUME NEW u \in Threads, pc'[u] \in {"checked", "blocked"}, arg'[u].op = "wait"
        PROVE  /\ pc[u] \in {"checked", "blocked"} /\ arg[u].op = "wait"
               /\ arg'[u].f = arg[u].f /\ arg'[u].expect = arg[u].expect
    BY <1>1, <1>2, <1>3, <1>4, <1>5
  <1>6. \A u \in Threads : pc[u] \in {"stored", "wake"} =>
          pc'[u] \in {"stored", "wake"} /\ arg'[u] = arg[u]
    BY <1>1, <1>4
  <1> QED  BY <1>1, <1>5, <1>6, WakeKept

(* A store obliges the thread to wake everybody.                           *)
LEMMA StoreWake ==
  ASSUME FrameInv, WakeOK, NEW t \in Threads, NEW f \in Futexes, Store(t, f)
  PROVE  WakeOK'
  <1> DEFINE a == [op |-> "wake", f |-> f, wake |-> All, action |-> "RELEASE"]
  <1>1. /\ pc[t] = "idle" /\ arg' = [arg EXCEPT ![t] = a]
        /\ value' = [value EXCEPT ![f] = 1 - @]
        /\ pc' = [pc EXCEPT ![t] = "stored"]
    BY DEF Store, Goto
  <1>2. a.f = f /\ a.wake = All /\ a.action = "RELEASE"
    OBVIOUS
  <1> HIDE DEF a
  <1>3. /\ pc'[t] = "stored" /\ arg'[t] = a
        /\ \A u \in Threads \ {t} : pc'[u] = pc[u] /\ arg'[u] = arg[u]
        /\ \A h \in Futexes \ {f} : value'[h] = value[h]
    BY <1>1 DEF FrameInv, Types
  <1>4. WakeOwed(f)'
    <2>1. \E u \in Threads : /\ pc'[u] \in {"stored", "wake"}
                             /\ arg'[u].f = f
                             /\ arg'[u].wake = All /\ arg'[u].action = "RELEASE"
      BY <1>2, <1>3
    <2> QED  BY <2>1 DEF WakeOwed, All
  <1> SUFFICES ASSUME NEW u \in Threads, pc'[u] \in {"checked", "blocked"}, arg'[u].op = "wait",
                      value'[arg'[u].f] # arg'[u].expect
               PROVE  \E h : h = arg'[u].f /\ WakeOwed(h)'
    BY DEF WakeOK, Misled, WakeOwed
  <1>5. u # t /\ pc'[u] = pc[u] /\ arg'[u] = arg[u]
    BY <1>3
  <1>6. arg[u].f \in Futexes
    BY <1>5, MisledFacts
  <1>7. CASE arg[u].f = f
    BY <1>4, <1>5, <1>7
  <1>8. CASE arg[u].f # f
    <2>1. PICK h : h = arg[u].f
      OBVIOUS
    <2>2. Misled(u)
      BY <1>3, <1>5, <1>6, <1>8 DEF Misled
    <2>3. WakeOwed(h)
      BY <2>1, <2>2 DEF WakeOK
    <2>4. WakeOwed(h)'
      BY <1>1, <1>3, <2>3, OwedKept
    <2> QED  BY <1>5, <2>1, <2>4
  <1> QED  BY <1>7, <1>8

(* The wake is dropped only when the futex is not active, so that nobody   *)
(* waits on it.                                                            *)
LEMMA WakeAfterStoreWake ==
  ASSUME FrameInv, Balance, WakeOK, NEW t \in Threads, WakeAfterStore(t)
  PROVE  WakeOK'
  <1>0. PICK f : f = arg[t].f
    OBVIOUS
  <1>1. pc[t] = "stored" /\ value' = value
    BY DEF WakeAfterStore, userVars
  <1>2. CASE Goto(t, "wake") /\ UNCHANGED arg
    <2>1. pc'[t] = "wake" /\ \A u \in Threads \ {t} : pc'[u] = pc[u]
      BY <1>2 DEF Goto, FrameInv, Types
    <2> QED  BY <1>1, <1>2, <2>1, WakeKept
  <1>3. CASE ~(count[f] > 0) /\ Goto(t, "idle") /\ arg' = [arg EXCEPT ![t] = NoArg]
    <2>1. /\ pc'[t] = "idle"
          /\ \A u \in Threads \ {t} : pc'[u] = pc[u] /\ arg'[u] = arg[u]
      BY <1>3 DEF Goto, FrameInv, Types
    <2> SUFFICES ASSUME NEW u \in Threads, pc'[u] \in {"checked", "blocked"}, arg'[u].op = "wait",
                        value[arg'[u].f] # arg'[u].expect
                 PROVE  \E h : h = arg'[u].f /\ WakeOwed(h)'
      BY <1>1 DEF WakeOK, Misled, WakeOwed
    <2>2. u # t /\ pc'[u] = pc[u] /\ arg'[u] = arg[u]
      BY <2>1
    <2>3. PICK h : h = arg[u].f
      OBVIOUS
    <2>4. WakeOwed(h)
      BY <2>2, <2>3 DEF WakeOK, Misled
    <2>5. h \in Futexes /\ RefsHeld(u, h) > 0
      BY <2>2, <2>3, MisledFacts
    <2>6. count[h] > 0
      BY <2>5, CountFacts
    <2>7. PICK w \in Threads : /\ pc[w] \in {"stored", "wake"} /\ arg[w].f = h
                               /\ arg[w].wake = All /\ arg[w].action = "RELEASE"
      BY <2>4 DEF WakeOwed
    <2>8. w # t
      BY <1>0, <1>3, <2>6, <2>7
    <2>9. pc'[w] = pc[w] /\ arg'[w] = arg[w]
      BY <2>1, <2>8
    <2>10. WakeOwed(h)'
      BY <2>7, <2>9 DEF WakeOwed, All
    <2> QED  BY <2>2, <2>3, <2>10
  <1> QED  BY <1>0, <1>2, <1>3 DEF WakeAfterStore

LEMMA FutexWakeWake ==
  ASSUME FrameInv, WakeOK, NEW t \in Threads, FutexWake(t)
  PROVE  WakeOK'
  <1>0. PICK f, S : WakeStep(t, f, S)
    BY WakeFacts
  <1>1. /\ pc[t] = "wake" /\ f = arg[t].f /\ f \in Futexes /\ lock[f] = None
        /\ S \in SUBSET Threads /\ S \subseteq waiters[f] /\ t \notin S
        /\ arg[t].wake = All => S = waiters[f]
        /\ value' = value
        /\ pc' = [u \in Threads |-> IF u \in S THEN "idle"
                                    ELSE IF u = t THEN "release" ELSE pc[u]]
        /\ arg' = [u \in Threads |-> IF u \in S \cup {t} THEN NoArg ELSE arg[u]]
    BY <1>0 DEF WakeStep
  <1>2. \A u \in S : pc[u] = "blocked"
    BY <1>1 DEF FrameInv, QueueOK
  <1> SUFFICES ASSUME NEW u \in Threads, pc'[u] \in {"checked", "blocked"}, arg'[u].op = "wait",
                      value[arg'[u].f] # arg'[u].expect
               PROVE  \E h : h = arg'[u].f /\ WakeOwed(h)'
    BY <1>1 DEF WakeOK, Misled, WakeOwed
  <1>3. u # t /\ u \notin S /\ pc'[u] = pc[u] /\ arg'[u] = arg[u]
    BY <1>1
  <1>4. PICK h : h = arg[u].f
    OBVIOUS
  <1>5. WakeOwed(h)
    BY <1>3, <1>4 DEF WakeOK, Misled
  <1>6. PICK w \in Threads : /\ pc[w] \in {"stored", "wake"} /\ arg[w].f = h
                             /\ arg[w].wake = All /\ arg[w].action = "RELEASE"
    BY <1>5 DEF WakeOwed
  <1>7. w # t
    <2> SUFFICES ASSUME w = t PROVE FALSE
      OBVIOUS
    <2>1. h = f /\ S = waiters[f]
      BY <1>1, <1>6
    <2>2. pc[u] # "blocked"
      BY <1>3, <1>4, <2>1, MisledFacts
    <2>3. pc[u] = "checked" /\ lock[f] = u
      BY <1>3, <1>4, <2>1, <2>2, MisledFacts
    <2> QED  BY <1>1, <2>3, FutexAssumption
  <1>8. w \notin S /\ pc'[w] = pc[w] /\ arg'[w] = arg[w]
    BY <1>1, <1>2, <1>6, <1>7
  <1>9. WakeOwed(h)'
    BY <1>6, <1>8 DEF WakeOwed, All
  <1> QED  BY <1>3, <1>4, <1>9

LEMMA FutexRequeueWake ==
  ASSUME FrameInv, WakeOK, NEW t \in Threads, FutexRequeue(t)
  PROVE  WakeOK'
  <1>0. PICK f, g, S, R : RequeueStep(t, f, g, S, R)
    BY RequeueFacts
  <1>1. /\ pc[t] = "requeue_checked" /\ f \in Futexes
        /\ S \in SUBSET Threads /\ S \subseteq waiters[f]
        /\ R \in SUBSET Threads /\ R \subseteq waiters[f] \ S
        /\ value' = value
        /\ pc' = [u \in Threads |-> IF u \in S THEN "idle"
                                    ELSE IF u = t THEN "release" ELSE pc[u]]
        /\ arg' = [u \in Threads |-> IF u \in S \cup R \cup {t} THEN NoArg ELSE arg[u]]
    BY <1>0 DEF RequeueStep
  <1>2. \A u \in S \cup R : pc[u] = "blocked"
    BY <1>1 DEF FrameInv, QueueOK
  <1>3. \A u \in Threads : pc[u] \in {"stored", "wake"} =>
          pc'[u] \in {"stored", "wake"} /\ arg'[u] = arg[u]
    BY <1>1, <1>2
  <1>4. ASSUME NEW u \in Threads, pc'[u] \in {"checked", "blocked"}, arg'[u].op = "wait"
        PROVE  pc[u] \in {"checked", "blocked"} /\ arg'[u] = arg[u]
    <2>1. u \notin R
      BY <1>1, <1>4 DEF NoArg
    <2> QED  BY <1>1, <1>4, <2>1
  <1> QED  BY <1>1, <1>3, <1>4, WakeKept

LEMMA WakeStepKept ==
  ASSUME FrameInv, Balance, WakeOK, [Next]_vars
  PROVE  WakeOK'
  <1>1. CASE Next
    BY <1>1, QuietWake, FindBlockingWake, WaitCheckWake, BlockWake, StoreWake, WakeAfterStoreWake,
       FutexWakeWake, FutexRequeueWake DEF Next, InCall
  <1>2. CASE UNCHANGED vars
    BY <1>2 DEF WakeOK, Misled, WakeOwed, vars, userVars, threadVars
  <1> QED  BY <1>1, <1>2

(* A sleeper whose value has changed, and a thread that is about to block  *)
(* on a value that has changed, have a wake to come.                       *)
THEOREM WakeInvariant == Spec => []WakeOK
  <1>1. Init => WakeOK
    BY DEF Init, WakeOK, Misled
  <1>2. FrameInv /\ Balance /\ WakeOK /\ [Next]_vars => WakeOK'
    BY WakeStepKept
  <1> QED  BY <1>1, <1>2, FrameInvariant, BalanceInvariant, PTL DEF Spec

(* A thread sleeps on a value that has changed only while the wake for     *)
(* that change is still to come: FutexWait checks the value and enters the *)
(* queue under the lock that FutexWake takes, and a wake is skipped only   *)
(* for a futex without references.                                         *)
THEOREM NoLostWakeupHolds == Spec => []NoLostWakeup
  <1>1. WakeOK => NoLostWakeup
    BY DEF WakeOK, Misled, NoLostWakeup, SleepsOnChange
  <1> QED  BY <1>1, WakeInvariant, PTL
=============================================================================
