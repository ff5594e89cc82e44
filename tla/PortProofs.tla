------------------------------ MODULE PortProofs ------------------------------
(***************************************************************************)
(* Proofs about Port.  PortInv (module PortInvariant) is inductive, and    *)
(* the ownership properties of a PortObserver follow from it.  Four more   *)
(* invariants are each inductive relative to it: SignalInv for signals and *)
(* triggers, CancelInv for zx_port_cancel, UnitInv for the semaphore and   *)
(* PacketInv for the packet arena.  Each has a lemma for the calls that    *)
(* begin, one for the steps of a call, and one for every step.             *)
(***************************************************************************)
EXTENDS PortInvariant, TLAPS, SequenceTheorems, FiniteSetTheorems
-----------------------------------------------------------------------------
(* Removing the element at position i shifts the ones behind it.            *)
LEMMA RemoveAtProperties ==
  ASSUME NEW S, NEW s \in Seq(S), NEW i \in 1 .. Len(s)
  PROVE  /\ RemoveAt(s, i) \in Seq(S)
         /\ Len(RemoveAt(s, i)) = Len(s) - 1
         /\ \A j \in 1 .. Len(s) - 1 :
              RemoveAt(s, i)[j] = IF j < i THEN s[j] ELSE s[j + 1]
<1> DEFINE a == SubSeq(s, 1, i - 1)
           b == SubSeq(s, i + 1, Len(s))
<1>1. /\ a \in Seq(S) /\ Len(a) = i - 1
      /\ \A j \in 1 .. i - 1 : a[j] = s[j]
  BY SubSeqProperties
<1>2. /\ b \in Seq(S) /\ Len(b) = Len(s) - i
      /\ \A j \in 1 .. Len(s) - i : b[j] = s[i + j]
  BY SubSeqProperties
<1>3. RemoveAt(s, i) = a \o b
  BY DEF RemoveAt
<1> HIDE DEF a, b
<1>4. /\ a \o b \in Seq(S)
      /\ Len(a \o b) = Len(a) + Len(b)
      /\ \A j \in 1 .. Len(a) + Len(b) :
           (a \o b)[j] = IF j <= Len(a) THEN a[j] ELSE b[j - Len(a)]
  BY <1>1, <1>2, ConcatProperties
<1>5. i \in Nat /\ Len(s) \in Nat /\ 1 <= i /\ i <= Len(s)
  OBVIOUS
<1> QED
  BY <1>1, <1>2, <1>3, <1>4, <1>5

(* Appending a packet adds its observer, if it has one.                     *)
LEMMA AppendPacket ==
  ASSUME NEW q \in Seq(Observers \cup UserPackets),
         NEW p \in Observers \cup UserPackets
  PROVE  /\ ObserversIn(Append(q, p)) = ObserversIn(q) \cup ({p} \cap Observers)
         /\ Distinct(q) /\ p \notin ObserversIn(q) => Distinct(Append(q, p))
<1>1. /\ Len(Append(q, p)) = Len(q) + 1
      /\ \A i \in 1 .. Len(q) : Append(q, p)[i] = q[i]
      /\ Append(q, p)[Len(q) + 1] = p
      /\ DOMAIN Append(q, p) = 1 .. Len(q) + 1
      /\ DOMAIN q = 1 .. Len(q) /\ Len(q) \in Nat
  OBVIOUS
<1> QED
  BY <1>1 DEF ObserversIn, Distinct

(* Taking the head of the queue removes its observer and no other.          *)
LEMMA TakeHead ==
  ASSUME NEW q \in Seq(Observers \cup UserPackets), q # <<>>, Distinct(q)
  PROVE  /\ ObserversIn(Tail(q)) = ObserversIn(q) \ {Head(q)}
         /\ Distinct(Tail(q))
<1>1. /\ Len(Tail(q)) = Len(q) - 1 /\ Head(q) = q[1]
      /\ \A i \in 1 .. Len(q) - 1 : Tail(q)[i] = q[i + 1]
      /\ DOMAIN Tail(q) = 1 .. Len(q) - 1 /\ DOMAIN q = 1 .. Len(q)
      /\ Len(q) \in Nat /\ Len(q) > 0
  OBVIOUS
<1>2. ASSUME NEW x \in ObserversIn(Tail(q))
      PROVE  x \in ObserversIn(q) \ {Head(q)}
  BY <1>1 DEF ObserversIn, Distinct
<1>3. ASSUME NEW x \in ObserversIn(q) \ {Head(q)}
      PROVE  x \in ObserversIn(Tail(q))
  <2>1. PICK i \in 1 .. Len(q) : q[i] = x
    BY <1>1 DEF ObserversIn
  <2>2. i # 1 /\ i - 1 \in 1 .. Len(q) - 1
    BY <1>1, <2>1
  <2>3. Tail(q)[i - 1] = x /\ i - 1 \in DOMAIN Tail(q)
    BY <1>1, <2>1, <2>2
  <2> QED
    BY <2>3 DEF ObserversIn
<1>4. Distinct(Tail(q))
  <2> SUFFICES ASSUME NEW i \in 1 .. Len(q) - 1, NEW j \in 1 .. Len(q) - 1,
                      Tail(q)[i] = Tail(q)[j], Tail(q)[i] \in Observers
               PROVE  i = j
    BY <1>1 DEF Distinct
  <2>1. /\ i + 1 \in DOMAIN q /\ j + 1 \in DOMAIN q
        /\ q[i + 1] = q[j + 1] /\ q[i + 1] \in Observers
    BY <1>1
  <2>2. i + 1 = j + 1
    BY <2>1 DEF Distinct
  <2> QED
    BY <2>2, <1>1
<1> QED
  BY <1>2, <1>3, <1>4

(* Removing a packet from the middle of the queue removes its observer.     *)
LEMMA TakeAt ==
  ASSUME NEW q \in Seq(Observers \cup UserPackets), NEW k \in DOMAIN q,
         q[k] \in Observers, Distinct(q)
  PROVE  /\ ObserversIn(RemoveAt(q, k)) = ObserversIn(q) \ {q[k]}
         /\ Distinct(RemoveAt(q, k))
<1> DEFINE r == RemoveAt(q, k)
<1>1. k \in 1 .. Len(q) /\ DOMAIN q = 1 .. Len(q) /\ Len(q) \in Nat
  OBVIOUS
<1>2. /\ r \in Seq(Observers \cup UserPackets) /\ Len(r) = Len(q) - 1
      /\ \A i \in 1 .. Len(q) - 1 : r[i] = IF i < k THEN q[i] ELSE q[i + 1]
  BY <1>1, RemoveAtProperties
<1> HIDE DEF r
<1>3. DOMAIN r = 1 .. Len(q) - 1
  BY <1>1, <1>2
<1>4. ASSUME NEW x \in ObserversIn(r)
      PROVE  x \in ObserversIn(q) \ {q[k]}
  BY <1>1, <1>2, <1>3 DEF ObserversIn, Distinct
<1>5. ASSUME NEW x \in ObserversIn(q) \ {q[k]}
      PROVE  x \in ObserversIn(r)
  <2>1. PICK i \in 1 .. Len(q) : q[i] = x
    BY <1>1 DEF ObserversIn
  <2>2. i # k
    BY <2>1
  <2>3. CASE i < k
    <3>1. i \in 1 .. Len(q) - 1 /\ r[i] = x
      BY <1>1, <1>2, <2>1, <2>3
    <3> QED
      BY <3>1, <1>3 DEF ObserversIn
  <2>4. CASE i > k
    <3>1. i - 1 \in 1 .. Len(q) - 1 /\ r[i - 1] = x
      BY <1>1, <1>2, <2>1, <2>4
    <3> QED
      BY <3>1, <1>3 DEF ObserversIn
  <2> QED
    BY <1>1, <2>2, <2>3, <2>4
<1>6. Distinct(r)
  <2> SUFFICES ASSUME NEW i \in 1 .. Len(q) - 1, NEW j \in 1 .. Len(q) - 1,
                      r[i] = r[j], r[i] \in Observers
               PROVE  i = j
    BY <1>3 DEF Distinct
  <2> DEFINE from(n) == IF n < k THEN n ELSE n + 1
  <2>1. /\ from(i) \in DOMAIN q /\ from(j) \in DOMAIN q
        /\ q[from(i)] = r[i] /\ q[from(j)] = r[j]
    BY <1>1, <1>2
  <2>2. from(i) = from(j)
    BY <2>1 DEF Distinct
  <2> QED
    BY <1>1, <2>2
<1> QED
  BY <1>4, <1>5, <1>6 DEF r

-----------------------------------------------------------------------------
(* Types and locals.  Both are about single variables, so every action is   *)
(* one leaf, with the variable groups and the labels expanded throughout.   *)
USE DEF objVars, handleVars, portVars, queueVars, semaVars, ownerVars,
        obsVars, histVars, argVars, localVars
USE DEF InCallback, HoldsObject, UsesObject, Goto, Return, Labels, Callers,
        TypeOK, LocalsOK, ObjectTypes, PortTypes, ObserverTypes, ThreadTypes

(* RemoveInterruptPacket and CancelQueued shorten a queue in the middle.    *)
LEMMA RemoveInterruptPacketTypes ==
  ASSUME TypeOK, LocalsOK,
         NEW i \in InterruptPackets, RemoveInterruptPacket(i)
  PROVE  (TypeOK /\ LocalsOK)'
<1>1. interruptQueue' \in Seq(InterruptPackets)
  BY RemoveAtProperties DEF RemoveInterruptPacket
<1> QED
  BY <1>1 DEF RemoveInterruptPacket

LEMMA CancelQueuedTypes ==
  ASSUME TypeOK, LocalsOK, NEW t \in Threads, CancelQueued(t)
  PROVE  (TypeOK /\ LocalsOK)'
<1>1. PICK i \in QueuedMatches(t) :
        packets' = RemoveAt(packets, i) /\ ResetObserver(packets[i])
  BY DEF CancelQueued
<1>2. i \in 1 .. Len(packets) /\ packets[i] \in Observers
  BY DEF QueuedMatches, PacketMatches
<1>3. packets' \in Seq(Observers \cup UserPackets)
  BY <1>1, <1>2, RemoveAtProperties
<1>4. packetOwned' \subseteq Observers /\ destroyed' \subseteq Observers
  BY <1>1, <1>2 DEF ResetObserver
<1> QED
  BY <1>3, <1>4 DEF CancelQueued

LEMMA RemoveObserverTypes ==
  ASSUME TypeOK, LocalsOK, NEW t \in Threads, RemoveObserver(t)
  PROVE  (TypeOK /\ LocalsOK)'
<1>1. ObjectTypes'
  BY DEF RemoveObserver, Erase
<1>2. PortTypes'
  BY DEF RemoveObserver
<1>3. ObserverTypes'
  BY DEF RemoveObserver
<1>4. ThreadTypes'
  BY DEF RemoveObserver
<1>5. LocalsOK'
  BY DEF RemoveObserver
<1> QED
  BY <1>1, <1>2, <1>3, <1>4, <1>5

LEMMA MaybeReapTypes ==
  ASSUME TypeOK, LocalsOK, NEW t \in Threads, MaybeReap(t)
  PROVE  (TypeOK /\ LocalsOK)'
<1>1. tObs[t] \in Observers /\ caller[t] \in Callers /\ tObj[t] # None
  BY DEF MaybeReap
<1>2. ObjectTypes'
  BY DEF MaybeReap
<1>3. PortTypes'
  BY DEF MaybeReap
<1>4. ObserverTypes'
  BY <1>1 DEF MaybeReap
<1>5. ThreadTypes'
  BY <1>1 DEF MaybeReap
<1>6. LocalsOK'
  <2>1. pc'[t] \in Callers /\ tObs'[t] = None /\ tObj'[t] # None
    BY <1>1 DEF MaybeReap
  <2>2. \A u \in Threads \ {t} : pc'[u] = pc[u] /\ tObs'[u] = tObs[u]
                                  /\ caller'[u] = caller[u]
    BY DEF MaybeReap
  <2> QED
    BY <1>1, <2>1, <2>2 DEF MaybeReap
<1> QED
  BY <1>2, <1>3, <1>4, <1>5, <1>6

(* The calls a thread begins.                                               *)
LEMMA BeginTypes ==
  ASSUME TypeOK, LocalsOK, NEW t \in Threads, Begin(t)
  PROVE  (TypeOK /\ LocalsOK)'
<1>1. ASSUME NEW h \in Handles, NEW k \in Keys, NEW trigger \in SUBSET Signals,
             MakeObserver(t, h, k, trigger)
      PROVE  (TypeOK /\ LocalsOK)'
  BY PortAssumption, <1>1 DEF MakeObserver, WaitArgs, Made
<1>2. ASSUME NEW h \in Handles, NEW k \in Keys, PortCancel(t, h, k)
      PROVE  (TypeOK /\ LocalsOK)'
  BY PortAssumption, <1>2 DEF PortCancel
<1>3. ASSUME NEW o \in Objects, NEW s \in Signals,
             UpdateState(t, o, {s}, {}) \/ UpdateState(t, o, {}, {s})
      PROVE  (TypeOK /\ LocalsOK)'
  <2>1. PICK clear \in SUBSET Signals, set \in SUBSET Signals :
          UpdateState(t, o, clear, set)
    <3> HIDE DEF TypeOK, LocalsOK
    <3> QED
      BY <1>3
  <2> QED
    BY PortAssumption, <2>1 DEF UpdateState, LockObject
<1>4. ASSUME NEW h \in Handles, CloseHandle(t, h)
      PROVE  (TypeOK /\ LocalsOK)'
  BY PortAssumption, <1>4 DEF CloseHandle
<1>5. CASE Dequeue(t)
  BY PortAssumption, <1>5 DEF Dequeue
<1>6. CASE Alloc(t)
  BY PortAssumption, <1>6 DEF Alloc
<1>7. ASSUME NEW i \in InterruptPackets, QueueInterruptPacket(t, i)
      PROVE  (TypeOK /\ LocalsOK)'
  BY PortAssumption, <1>7 DEF QueueInterruptPacket
<1>8. CASE ClosePort(t)
  BY PortAssumption, <1>8 DEF ClosePort, TableWritable, TableReaders
<1> HIDE DEF TypeOK, LocalsOK
<1> QED
  BY <1>1, <1>2, <1>3, <1>4, <1>5, <1>6, <1>7, <1>8 DEF Begin

(* The steps of a call.                                                     *)
LEMMA StepTypes ==
  ASSUME TypeOK, LocalsOK, NEW t \in Threads, Step(t)
  PROVE  (TypeOK /\ LocalsOK)'
<1>1. CASE AddObserver(t)
  BY PortAssumption, <1>1 DEF AddObserver
<1>2. CASE AddObserverMatch(t)
  BY PortAssumption, <1>2 DEF AddObserverMatch, LockObject
<1>3. CASE FindSource(t)
  BY PortAssumption, <1>3 DEF FindSource, Registered, Made
<1>4. CASE SourceClosed(t)
  BY PortAssumption, <1>4 DEF SourceClosed
<1>5. CASE LockForCancel(t)
  BY PortAssumption, <1>5 DEF LockForCancel, LockObject
<1>6. CASE UpdateStateLocked(t)
  BY PortAssumption, <1>6 DEF UpdateStateLocked, Callback, Erase, Matching
<1>7. CASE Cancel(t)
  BY PortAssumption, <1>7 DEF Cancel, Callback, Erase, OnHandle
<1>8. CASE CancelByKey(t)
    BY PortAssumption, <1>8 DEF CancelByKey, Callback, Erase, OnHandle,
     MatchesKey
<1>9. CASE CallbacksDone(t)
  BY PortAssumption, <1>9 DEF CallbacksDone, UnlockObject
<1>10. CASE CancelByKeyDone(t)
  BY PortAssumption, <1>10 DEF CancelByKeyDone, UnlockObject
<1>11. CASE Queue(t)
  BY PortAssumption, <1>11 DEF Queue
<1>12. CASE PostCount(t)
  BY PortAssumption, <1>12 DEF PostCount, CountUp, AfterPost
<1>13. ASSUME NEW w \in Threads, PostWake(t, w)
      PROVE  (TypeOK /\ LocalsOK)'
  BY PortAssumption, <1>13 DEF PostWake, AfterPost
<1>14. CASE MaybeReap(t)
  BY <1>14, MaybeReapTypes
<1>15. CASE LockForCancelQueued(t)
  BY PortAssumption, <1>15 DEF LockForCancelQueued, LockPort
<1>16. CASE CancelQueued(t)
  BY <1>16, CancelQueuedTypes
<1>17. CASE CancelQueuedDone(t)
  BY PortAssumption, <1>17 DEF CancelQueuedDone
<1>18. CASE Wait(t)
  BY PortAssumption, <1>18 DEF Wait, UnitAvailable
<1>19. CASE DequeueInterrupt(t)
  BY PortAssumption, <1>19 DEF DequeueInterrupt
<1>20. CASE NoInterrupt(t)
  BY PortAssumption, <1>20 DEF NoInterrupt
<1>21. CASE DequeueUserPacket(t)
  BY PortAssumption, <1>21 DEF DequeueUserPacket
<1>22. CASE DequeueSignalPacket(t)
  BY PortAssumption, <1>22 DEF DequeueSignalPacket, ReadIsEphemeral, ResetObserver
<1>23. CASE DequeueSpurious(t)
  BY PortAssumption, <1>23 DEF DequeueSpurious
<1>24. CASE QueueUser(t)
  BY PortAssumption, <1>24 DEF QueueUser
<1>25. CASE QueueUserFails(t)
  BY PortAssumption, <1>25 DEF QueueUserFails
<1>26. CASE Free(t)
  BY PortAssumption, <1>26 DEF Free
<1>27. CASE OnZeroHandles(t)
  BY PortAssumption, <1>27 DEF OnZeroHandles, LockPort
<1>28. CASE Relock(t)
  BY PortAssumption, <1>28 DEF Relock, LockPort
<1>29. CASE ZeroUserPacket(t)
  BY PortAssumption, <1>29 DEF ZeroUserPacket, DropPortLock
<1>30. CASE ZeroSignalPacket(t)
  BY PortAssumption, <1>30 DEF ZeroSignalPacket, ResetObserver
<1>31. CASE ZeroObservers(t)
  BY PortAssumption, <1>31 DEF ZeroObservers, DropPortLock, PacketsDrained
<1>32. CASE RemoveObserver(t)
  BY <1>32, RemoveObserverTypes
<1>33. CASE ZeroDone(t)
  BY PortAssumption, <1>33 DEF ZeroDone, PacketsDrained
<1> HIDE DEF TypeOK, LocalsOK
<1> QED
    BY <1>1, <1>2, <1>3, <1>4, <1>5, <1>6, <1>7, <1>8, <1>9, <1>10, <1>11,
     <1>12, <1>13, <1>14, <1>15, <1>16, <1>17, <1>18, <1>19, <1>20, <1>21,
     <1>22, <1>23, <1>24, <1>25, <1>26, <1>27, <1>28, <1>29, <1>30, <1>31,
     <1>32, <1>33 DEF Step

(* Types and locals are preserved by every step.                            *)
LEMMA NextTypes ==
  ASSUME TypeOK, LocalsOK, [Next]_vars
  PROVE  (TypeOK /\ LocalsOK)'
<1>1. CASE UNCHANGED vars
  BY <1>1 DEF vars
<1>2. ASSUME NEW t \in Threads, Begin(t) \/ Step(t)
      PROVE  (TypeOK /\ LocalsOK)'
  BY <1>2, BeginTypes, StepTypes
<1>3. ASSUME NEW t \in Threads, Timeout(t)
      PROVE  (TypeOK /\ LocalsOK)'
  BY <1>3, PortAssumption DEF Timeout
<1>4. ASSUME NEW h \in Handles, NEW o \in Objects, MakeHandle(h, o)
      PROVE  (TypeOK /\ LocalsOK)'
  BY <1>4, PortAssumption DEF MakeHandle
<1>5. ASSUME NEW i \in InterruptPackets, RemoveInterruptPacket(i)
      PROVE  (TypeOK /\ LocalsOK)'
  BY <1>5, RemoveInterruptPacketTypes
<1> QED
  BY <1>1, <1>2, <1>3, <1>4, <1>5 DEF Next

(* Init satisfies the inductive invariant.                                  *)
LEMMA InitInv == Init => PortInv
<1> SUFFICES ASSUME Init PROVE PortInv
  OBVIOUS
<1>1. ObjectTypes
  BY DEF Init
<1>2. PortTypes
  <2>1. packets \in Seq(Observers \cup UserPackets)
    BY DEF Init
  <2>2. interruptQueue \in Seq(InterruptPackets)
    BY DEF Init
  <2>3. numEphemeral \in Int /\ semaCount \in Nat
    BY DEF Init
  <2>4. portLock \in Threads \cup {None}
    BY DEF Init
  <2>5. portInTable \in BOOLEAN /\ zeroHandles \in BOOLEAN
    BY DEF Init
  <2>6. semaWaitq \subseteq Threads /\ arena \subseteq UserPackets
    BY DEF Init
  <2> QED
    BY <2>1, <2>2, <2>3, <2>4, <2>5, <2>6
<1>3. ObserverTypes
  BY DEF Init
<1>4. ThreadTypes
  BY DEF Init
<1>5. LocalsOK
  BY DEF Init
<1>6. LocksOK /\ CloseOK
  BY DEF Init, LocksOK, CloseOK, HoldsPort, Closing, ClosedFlagSet, Drained
<1>7. Made = {} /\ QueuedObs = {} /\ Distinct(packets)
  BY DEF Init, Made, QueuedObs, ObserversIn, Distinct
<1>8. OwnersOK /\ ListsOK /\ UsersOK
  BY <1>7 DEF Init, OwnersOK, ListsOK, UsersOK
<1> QED
  BY <1>1, <1>2, <1>3, <1>4, <1>5, <1>6, <1>7, <1>8 DEF PortInv

-----------------------------------------------------------------------------
(* The actions that move an observer from one owner to another.  QueuedObs  *)
(* stays folded: the lemmas say how it changes.                             *)
USE DEF HoldsPort, LocksOK, CloseOK, Closing, ClosedFlagSet, Drained,
        OwnersOK, CloserOwns, Made, ListsOK, UsersOK

(* What the removal of the packet at the head does to the queue.            *)
LEMMA HeadTaken ==
  ASSUME PortInv, packets # <<>>, packets' = Tail(packets)
  PROVE  /\ QueuedObs' = QueuedObs \ {Head(packets)} /\ Distinct(packets)'
         /\ Head(packets) \in UserPackets => QueuedObs' = QueuedObs
         /\ Head(packets) \in Observers => Head(packets) \in QueuedObs
<1>1. packets \in Seq(Observers \cup UserPackets) /\ Distinct(packets)
  BY DEF PortInv
<1>2. /\ ObserversIn(Tail(packets)) = ObserversIn(packets) \ {Head(packets)}
      /\ Distinct(Tail(packets))
  BY <1>1, TakeHead
<1>3. 1 \in DOMAIN packets /\ packets[1] = Head(packets)
  BY <1>1
<1>4. Head(packets) \in UserPackets => Head(packets) \notin QueuedObs
  BY PortAssumption DEF QueuedObs, ObserversIn
<1> QED
  BY <1>2, <1>3, <1>4 DEF QueuedObs, ObserversIn

(* A packet leaves the queue and takes along the observer it owns.          *)
LEMMA PacketReleased ==
  ASSUME PortInv, TypeOK',
         NEW x \in QueuedObs, QueuedObs' = QueuedObs \ {x}, ResetObserver(x),
         delivered' \in {delivered, delivered \cup {x}},
         UNCHANGED <<wait, linked, observers, tObs, tObj>>,
         \A u \in Threads : tObs[u] # None => pc'[u] = pc[u]
  PROVE  OwnersOK' /\ ListsOK' /\ UsersOK'
<1>1. /\ packetOwned' = packetOwned \ {x}
      /\ destroyed' = IF x \in packetOwned THEN destroyed \cup {x}
                      ELSE destroyed
  BY DEF ResetObserver
<1>2. x \in Observers
  BY DEF QueuedObs, ObserversIn
<1>3. \A y \in Made : CloserOwns(y) => CloserOwns(y)'
  BY PortAssumption DEF PortInv
<1>4. OwnersOK'
  BY <1>1, <1>3 DEF PortInv
<1>5. ListsOK'
  BY <1>1 DEF PortInv
<1>6. UsersOK'
  BY <1>1, <1>2, PortAssumption DEF PortInv
<1> QED
  BY <1>4, <1>5, <1>6

(* Semaphore::Post wakes a thread that works on no observer.                *)
LEMMA PostWakeKeeps ==
  ASSUME PortInv, TypeOK', LocalsOK',
         NEW t \in Threads, NEW w \in Threads, PostWake(t, w)
  PROVE  PortInv'
<1>1. pc[w] = "blocked" /\ t # w /\ tObs[w] = None
  BY DEF PortInv, PostWake
<1>2. QueuedObs' = QueuedObs
  BY DEF QueuedObs, PostWake
<1>3. /\ pc'[w] = "DequeueInterrupt" /\ pc'[t] = AfterPost(t)
      /\ \A u \in Threads \ {t, w} : pc'[u] = pc[u]
  BY <1>1 DEF PostWake, PortInv
<1>4. LocksOK'
  BY <1>1, <1>3 DEF PortInv, PostWake, AfterPost
<1>5. CloseOK'
  BY <1>1, <1>3 DEF PortInv, PostWake, AfterPost
<1>6. OwnersOK'
  BY <1>1, <1>2, <1>3 DEF PortInv, PostWake, AfterPost
<1>7. ListsOK'
  BY <1>2 DEF PortInv, PostWake
<1>8. UsersOK'
  BY <1>1, <1>2, <1>3 DEF PortInv, PostWake, AfterPost
<1> QED
  BY <1>4, <1>5, <1>6, <1>7, <1>8 DEF PortInv, PostWake

(* The observer is taken from its dispatcher and deleted.  The dispatcher's *)
(* lock keeps out a thread that would still be calling it back.             *)
LEMMA RemoveObserverKeeps ==
  ASSUME PortInv, TypeOK', LocalsOK', NEW t \in Threads, RemoveObserver(t)
  PROVE  PortInv'
<1> DEFINE x == tObs[t]
<1>1. QueuedObs' = QueuedObs
  BY DEF QueuedObs, RemoveObserver
<1>2. QueuedObs = {}
  BY DEF PortInv, RemoveObserver, QueuedObs, ObserversIn
<1>3. /\ x \in Made /\ x \in Observers /\ wait[x].obj \in Objects
      /\ x \notin destroyed \cup packetOwned \cup linked
  BY PortAssumption DEF PortInv, RemoveObserver, WaitArgs
<1>4. \A u \in Threads \ {t} : tObs[u] # x
  <2> SUFFICES ASSUME NEW u \in Threads, u # t, tObs[u] = x
               PROVE  FALSE
    OBVIOUS
  <2>1. pc[u] # "RemoveObserver"
    BY DEF PortInv, RemoveObserver
  <2>2. pc[u] # "AddObserver"
    BY <1>3, PortAssumption DEF PortInv
  <2>3. InCallback(u) /\ wait[x].obj = tObj[u]
    BY <1>3, <2>1, <2>2, PortAssumption DEF PortInv
  <2>4. objLock[tObj[u]] = u
    BY <2>3 DEF PortInv
  <2> QED
    BY <2>3, <2>4, PortAssumption DEF RemoveObserver
<1>5. \A o \in Objects :
        x \notin observers'[o] /\ observers'[o] \subseteq observers[o]
  BY <1>3 DEF PortInv, RemoveObserver, Erase
<1>6. LocksOK' /\ CloseOK' /\ Distinct(packets)'
  BY DEF PortInv, RemoveObserver
<1>7. OwnersOK'
  BY <1>1, <1>2, <1>3, <1>4 DEF PortInv, RemoveObserver
<1>8. ListsOK'
  BY <1>1, <1>3, <1>5 DEF PortInv, RemoveObserver
<1>9. UsersOK'
  BY <1>1, <1>3, <1>4, <1>5 DEF PortInv, RemoveObserver
<1> QED
  BY <1>6, <1>7, <1>8, <1>9 DEF PortInv

(* on_zero_handles unlinks an observer: from here on it will delete it.     *)
LEMMA ZeroObserversKeeps ==
  ASSUME PortInv, TypeOK', LocalsOK', NEW t \in Threads, ZeroObservers(t)
  PROVE  PortInv'
<1>1. QueuedObs' = QueuedObs
  BY DEF QueuedObs, ZeroObservers
<1>2. packets = <<>>
  BY DEF PortInv, ZeroObservers, PacketsDrained
<1>3. PICK x \in linked :
        linked' = linked \ {x} /\ tObs' = [tObs EXCEPT ![t] = x]
  BY DEF ZeroObservers
<1>4. portLock = t /\ tObs[t] = None /\ ClosedFlagSet(t)
  BY DEF PortInv, ZeroObservers, PacketsDrained
<1>5. x \in Made /\ x \in Observers /\ x \notin packetOwned \cup destroyed
  BY DEF PortInv
<1>6. pc'[t] = "RemoveObserver" /\ \A u \in Threads \ {t} : pc'[u] = pc[u]
  BY DEF PortInv, ZeroObservers
<1>7. tObs'[t] = x /\ \A u \in Threads \ {t} : tObs'[u] = tObs[u]
  BY <1>3 DEF PortInv
<1>8. \A u \in Threads : pc[u] # "AddObserver"
  BY <1>4 DEF PortInv
<1>9. LocksOK'
  BY <1>4, <1>6, <1>7 DEF PortInv, ZeroObservers, DropPortLock
<1>10. CloseOK'
  BY <1>2, <1>4, <1>6 DEF PortInv, ZeroObservers
<1>11. OwnersOK'
  <2>1. CloserOwns(x)'
    BY <1>6, <1>7
  <2>2. \A y : CloserOwns(y) => CloserOwns(y)'
    BY <1>6, <1>7 DEF ZeroObservers, PacketsDrained
  <2>3. \A y \in Made' : y \in Made
    BY DEF ZeroObservers
  <2> HIDE DEF CloserOwns
  <2> QED
    BY <1>1, <1>3, <1>5, <2>1, <2>2, <2>3 DEF PortInv, ZeroObservers
<1>12. ListsOK'
  BY <1>1, <1>3 DEF PortInv, ZeroObservers
<1>13. UsersOK'
  BY <1>1, <1>3, <1>4, <1>5, <1>6, <1>7, <1>8, PortAssumption
     DEF PortInv, ZeroObservers
<1> QED
  BY <1>9, <1>10, <1>11, <1>12, <1>13 DEF PortInv, ZeroObservers

LEMMA DequeueUserPacketKeeps ==
  ASSUME PortInv, TypeOK', LocalsOK', NEW t \in Threads, DequeueUserPacket(t)
  PROVE  PortInv'
<1>1. QueuedObs' = QueuedObs /\ Distinct(packets)'
  BY HeadTaken DEF DequeueUserPacket
<1> QED
  BY <1>1 DEF PortInv, DequeueUserPacket

LEMMA ZeroUserPacketKeeps ==
  ASSUME PortInv, TypeOK', LocalsOK', NEW t \in Threads, ZeroUserPacket(t)
  PROVE  PortInv'
<1>1. QueuedObs' = QueuedObs /\ Distinct(packets)'
  BY HeadTaken DEF ZeroUserPacket
<1> QED
  BY <1>1 DEF PortInv, ZeroUserPacket, DropPortLock

LEMMA DequeueSignalPacketKeeps ==
  ASSUME PortInv, TypeOK', LocalsOK', NEW t \in Threads,
         DequeueSignalPacket(t)
  PROVE  PortInv'
<1>1. /\ QueuedObs' = QueuedObs \ {Head(packets)} /\ Distinct(packets)'
      /\ Head(packets) \in QueuedObs
  BY HeadTaken DEF DequeueSignalPacket, ReadIsEphemeral
<1>2. \A u \in Threads : tObs[u] # None => pc'[u] = pc[u]
  BY DEF PortInv, DequeueSignalPacket, ReadIsEphemeral
<1>3. OwnersOK' /\ ListsOK' /\ UsersOK'
  <2> HIDE DEF OwnersOK, ListsOK, UsersOK, TypeOK
  <2> QED
    BY <1>1, <1>2, PacketReleased DEF DequeueSignalPacket, ReadIsEphemeral
<1>4. LocksOK' /\ CloseOK'
  BY DEF PortInv, DequeueSignalPacket, ReadIsEphemeral
<1> QED
  BY <1>1, <1>3, <1>4 DEF PortInv

LEMMA ZeroSignalPacketKeeps ==
  ASSUME PortInv, TypeOK', LocalsOK', NEW t \in Threads, ZeroSignalPacket(t)
  PROVE  PortInv'
<1>1. /\ QueuedObs' = QueuedObs \ {Head(packets)} /\ Distinct(packets)'
      /\ Head(packets) \in QueuedObs
  BY HeadTaken DEF ZeroSignalPacket
<1>2. OwnersOK' /\ ListsOK' /\ UsersOK'
  <2> HIDE DEF OwnersOK, ListsOK, UsersOK, TypeOK
  <2> QED
    BY <1>1, PacketReleased DEF ZeroSignalPacket
<1>3. LocksOK' /\ CloseOK'
  BY DEF PortInv, ZeroSignalPacket
<1> QED
  BY <1>1, <1>2, <1>3 DEF PortInv

LEMMA CancelQueuedKeeps ==
  ASSUME PortInv, TypeOK', LocalsOK', NEW t \in Threads, CancelQueued(t)
  PROVE  PortInv'
<1>1. PICK i \in QueuedMatches(t) :
        packets' = RemoveAt(packets, i) /\ ResetObserver(packets[i])
  BY DEF CancelQueued
<1>2. i \in DOMAIN packets /\ packets[i] \in Observers
  BY DEF QueuedMatches, PacketMatches
<1>3. QueuedObs' = QueuedObs \ {packets[i]} /\ Distinct(packets)'
  <2>1. packets \in Seq(Observers \cup UserPackets) /\ Distinct(packets)
    BY DEF PortInv
  <2>2. /\ ObserversIn(RemoveAt(packets, i))
             = ObserversIn(packets) \ {packets[i]}
        /\ Distinct(RemoveAt(packets, i))
    BY <2>1, <1>2, TakeAt
  <2> QED
    BY <1>1, <2>2 DEF QueuedObs
<1>4. packets[i] \in QueuedObs
  BY <1>2 DEF QueuedObs, ObserversIn
<1>5. OwnersOK' /\ ListsOK' /\ UsersOK'
  <2> HIDE DEF OwnersOK, ListsOK, UsersOK, TypeOK
  <2> QED
    BY <1>1, <1>3, <1>4, PacketReleased DEF CancelQueued
<1>6. LocksOK'
  BY DEF PortInv, CancelQueued
<1>7. CloseOK'
  <2>1. portLock = t /\ packets # <<>>
    BY <1>2 DEF PortInv, CancelQueued
  <2> QED
    BY <2>1 DEF PortInv, CancelQueued
<1> QED
  BY <1>3, <1>5, <1>6, <1>7 DEF PortInv

LEMMA QueueUserKeeps ==
  ASSUME PortInv, TypeOK', LocalsOK', NEW t \in Threads, QueueUser(t)
  PROVE  PortInv'
<1>1. QueuedObs' = QueuedObs /\ Distinct(packets)'
  <2>1. /\ packets \in Seq(Observers \cup UserPackets) /\ Distinct(packets)
        /\ packets' = Append(packets, tPkt[t])
        /\ tPkt[t] \in UserPackets /\ tPkt[t] \notin Observers
    BY PortAssumption DEF PortInv, QueueUser
  <2>2. tPkt[t] \notin ObserversIn(packets)
    BY <2>1 DEF ObserversIn
  <2>3. /\ ObserversIn(Append(packets, tPkt[t]))
             = ObserversIn(packets) \cup ({tPkt[t]} \cap Observers)
        /\ Distinct(Append(packets, tPkt[t]))
    BY <2>1, <2>2, AppendPacket
  <2> QED
    BY <2>1, <2>3 DEF QueuedObs
<1> QED
  BY <1>1 DEF PortInv, QueueUser, PortClosed

(* OnMatch queues the packet of an observer that no other thread calls back: *)
(* both would hold the lock of the same dispatcher.                         *)
LEMMA QueueKeeps ==
  ASSUME PortInv, TypeOK', LocalsOK', NEW t \in Threads, Queue(t)
  PROVE  PortInv'
<1> DEFINE x == tObs[t]
<1>1. x \in Observers /\ x \in Made /\ x \notin QueuedObs
  BY DEF PortInv, Queue
<1>2. ~Queued(x)
  BY <1>1 DEF Queued, QueuedObs, ObserversIn
<1>3. CASE PortClosed
  <2>1. QueuedObs' = QueuedObs
    BY <1>3 DEF Queue, QueuedObs
  <2> QED
    BY <1>3, <2>1 DEF PortInv, Queue, PortClosed
<1>4. CASE ~PortClosed
  <2>1. packets' = Append(packets, x)
    BY <1>2, <1>4 DEF Queue
  <2>2. QueuedObs' = QueuedObs \cup {x} /\ Distinct(packets)'
    <3>1. packets \in Seq(Observers \cup UserPackets) /\ Distinct(packets)
      BY DEF PortInv
    <3>2. x \notin ObserversIn(packets)
      BY <1>1 DEF QueuedObs
    <3>3. /\ ObserversIn(Append(packets, x))
               = ObserversIn(packets) \cup ({x} \cap Observers)
          /\ Distinct(Append(packets, x))
      BY <1>1, <3>1, <3>2, AppendPacket
    <3> QED
      BY <1>1, <2>1, <3>3 DEF QueuedObs
  <2>3. \A u \in Threads \ {t} : InCallback(u) => tObs[u] # x
    <3> SUFFICES ASSUME NEW u \in Threads, InCallback(u), tObs[u] = x
                 PROVE  u = t
      OBVIOUS
    <3>1. wait[x].obj = tObj[u] /\ wait[x].obj = tObj[t]
      BY <1>1, PortAssumption DEF PortInv, Queue
    <3>2. objLock[tObj[u]] = u /\ objLock[tObj[t]] = t
      BY DEF PortInv, Queue
    <3> QED
      BY <3>1, <3>2
  <2>4. LocksOK' /\ CloseOK'
    BY <1>2, <1>4 DEF PortInv, Queue, PortClosed
  <2>5. OwnersOK'
    BY <1>1, <1>2, <1>4, <2>2 DEF PortInv, Queue
  <2>6. ListsOK'
    BY <1>1, <1>2, <1>4, <2>2 DEF PortInv, Queue
  <2>7. UsersOK'
    BY <1>1, <1>2, <1>4, <2>2, <2>3 DEF PortInv, Queue
  <2> QED
    BY <2>2, <2>4, <2>5, <2>6, <2>7 DEF PortInv
<1> QED
  BY <1>3, <1>4

(* MaybeReap: only the thread that still finds the dispatcher linked passes *)
(* the observer on to its packet, or deletes it.                            *)
LEMMA MaybeReapKeeps ==
  ASSUME PortInv, TypeOK', LocalsOK', NEW t \in Threads, MaybeReap(t)
  PROVE  PortInv'
<1> DEFINE x == tObs[t]
<1>1. x \in Observers /\ x \in Made /\ x \notin destroyed \cup packetOwned
  BY DEF PortInv, MaybeReap
<1>2. Queued(x) <=> x \in QueuedObs
  BY <1>1 DEF Queued, QueuedObs, ObserversIn
<1>3. QueuedObs' = QueuedObs
  BY DEF MaybeReap, QueuedObs
<1>4. \A u \in Threads \ {t} : pc[u] # "RemoveObserver" => tObs[u] # x
  BY <1>1 DEF PortInv, MaybeReap
<1>5. pc'[t] \in Callers /\ \A u \in Threads \ {t} : pc'[u] = pc[u]
  BY DEF PortInv, MaybeReap
<1>6. tObs'[t] = None /\ \A u \in Threads \ {t} : tObs'[u] = tObs[u]
  BY DEF PortInv, MaybeReap
<1>7. LocksOK' /\ CloseOK' /\ Distinct(packets)'
  <2>1. LocksOK'
    BY <1>5, <1>6 DEF PortInv, MaybeReap
  <2>2. CloseOK'
    BY <1>5, <1>6 DEF PortInv, MaybeReap
  <2> QED
    BY <2>1, <2>2 DEF PortInv, MaybeReap
<1>8. CASE x \notin linked
  <2>1. UNCHANGED <<linked, packetOwned, destroyed>>
    BY <1>2, <1>8 DEF MaybeReap, Unlinks, PortInv
  <2>2. OwnersOK'
    BY <1>3, <1>5, <1>6, <2>1 DEF PortInv, MaybeReap
  <2>3. ListsOK'
    BY <1>3, <2>1 DEF PortInv, MaybeReap
  <2>4. UsersOK'
    BY <1>3, <1>4, <1>5, <1>6, <2>1 DEF PortInv, MaybeReap
  <2> QED
    BY <1>7, <2>2, <2>3, <2>4 DEF PortInv
<1>9. CASE x \in linked
  <2>1. /\ linked' = linked \ {x}
        /\ packetOwned' = IF x \in QueuedObs THEN packetOwned \cup {x}
                          ELSE packetOwned
        /\ destroyed' = IF x \in QueuedObs THEN destroyed
                        ELSE destroyed \cup {x}
    BY <1>2, <1>9 DEF MaybeReap, Unlinks, PortInv
  <2>2. \A u \in Threads \ {t} : tObs[u] # x
    BY <1>1, <1>4, <1>9, PortAssumption DEF PortInv
  <2>3. OwnersOK'
    BY <1>1, <1>3, <1>5, <1>6, <2>1, <2>2 DEF PortInv, MaybeReap
  <2>4. ListsOK'
    BY <1>1, <1>3, <2>1 DEF PortInv, MaybeReap
  <2>5. UsersOK'
    BY <1>1, <1>3, <1>5, <1>6, <2>1, <2>2 DEF PortInv, MaybeReap
  <2> QED
    BY <1>7, <2>3, <2>4, <2>5 DEF PortInv
<1> QED
  BY <1>8, <1>9

-----------------------------------------------------------------------------
(* The induction.  The actions that leave every owner where it is, or hand  *)
(* an observer to a list or a thread, are one leaf each.                    *)
USE DEF QueuedObs

(* The calls a thread begins.                                               *)
LEMMA BeginKeeps ==
  ASSUME PortInv, TypeOK', LocalsOK', NEW t \in Threads, Begin(t)
  PROVE  PortInv'
<1>1. ASSUME NEW h \in Handles, NEW k \in Keys, NEW trigger \in SUBSET Signals,
             MakeObserver(t, h, k, trigger)
      PROVE  PortInv'
  BY PortAssumption, <1>1 DEF PortInv, MakeObserver, WaitArgs, Made
<1>2. ASSUME NEW h \in Handles, NEW k \in Keys, PortCancel(t, h, k)
      PROVE  PortInv'
  BY PortAssumption, <1>2 DEF PortInv, PortCancel
<1>3. ASSUME NEW o \in Objects, NEW s \in Signals,
             UpdateState(t, o, {s}, {}) \/ UpdateState(t, o, {}, {s})
      PROVE  PortInv'
  <2>1. PICK clear \in SUBSET Signals, set \in SUBSET Signals :
          UpdateState(t, o, clear, set)
    <3> HIDE DEF TypeOK, LocalsOK
    <3> QED
      BY <1>3
  <2> QED
    BY PortAssumption, <2>1 DEF PortInv, UpdateState, LockObject
<1>4. ASSUME NEW h \in Handles, CloseHandle(t, h)
      PROVE  PortInv'
  BY PortAssumption, <1>4 DEF PortInv, CloseHandle
<1>5. CASE Dequeue(t)
  BY PortAssumption, <1>5 DEF PortInv, Dequeue
<1>6. CASE Alloc(t)
  BY PortAssumption, <1>6 DEF PortInv, Alloc
<1>7. ASSUME NEW i \in InterruptPackets, QueueInterruptPacket(t, i)
      PROVE  PortInv'
  BY PortAssumption, <1>7 DEF PortInv, QueueInterruptPacket
<1>8. CASE ClosePort(t)
  BY PortAssumption, <1>8 DEF PortInv, ClosePort, TableWritable, TableReaders
<1> HIDE DEF TypeOK, LocalsOK
<1> QED
  BY <1>1, <1>2, <1>3, <1>4, <1>5, <1>6, <1>7, <1>8 DEF Begin

(* The steps of a call.                                                     *)
LEMMA StepKeeps ==
  ASSUME PortInv, TypeOK', LocalsOK', NEW t \in Threads, Step(t)
  PROVE  PortInv'
<1>1. CASE AddObserver(t)
  BY PortAssumption, <1>1 DEF PortInv, AddObserver
<1>2. CASE AddObserverMatch(t)
  BY PortAssumption, <1>2 DEF PortInv, AddObserverMatch, LockObject
<1>3. CASE FindSource(t)
  BY PortAssumption, <1>3 DEF PortInv, FindSource, Registered, Made
<1>4. CASE SourceClosed(t)
  BY PortAssumption, <1>4 DEF PortInv, SourceClosed
<1>5. CASE LockForCancel(t)
  BY PortAssumption, <1>5 DEF PortInv, LockForCancel, LockObject
<1>6. CASE UpdateStateLocked(t)
    BY PortAssumption, <1>6 DEF PortInv, UpdateStateLocked, Callback, Erase,
     Matching
<1>7. CASE Cancel(t)
  BY PortAssumption, <1>7 DEF PortInv, Cancel, Callback, Erase, OnHandle
<1>8. CASE CancelByKey(t)
    BY PortAssumption, <1>8 DEF PortInv, CancelByKey, Callback, Erase,
     OnHandle, MatchesKey
<1>9. CASE CallbacksDone(t)
  BY PortAssumption, <1>9 DEF PortInv, CallbacksDone, UnlockObject
<1>10. CASE CancelByKeyDone(t)
  BY PortAssumption, <1>10 DEF PortInv, CancelByKeyDone, UnlockObject
<1>11. CASE Queue(t)
  BY <1>11, QueueKeeps
<1>12. CASE PostCount(t)
  BY PortAssumption, <1>12 DEF PortInv, PostCount, CountUp, AfterPost
<1>13. ASSUME NEW w \in Threads, PostWake(t, w)
      PROVE  PortInv'
  BY <1>13, PostWakeKeeps
<1>14. CASE MaybeReap(t)
  BY <1>14, MaybeReapKeeps
<1>15. CASE LockForCancelQueued(t)
  BY PortAssumption, <1>15 DEF PortInv, LockForCancelQueued, LockPort
<1>16. CASE CancelQueued(t)
  BY <1>16, CancelQueuedKeeps
<1>17. CASE CancelQueuedDone(t)
  BY PortAssumption, <1>17 DEF PortInv, CancelQueuedDone
<1>18. CASE Wait(t)
  BY PortAssumption, <1>18 DEF PortInv, Wait, UnitAvailable
<1>19. CASE DequeueInterrupt(t)
  BY PortAssumption, <1>19 DEF PortInv, DequeueInterrupt
<1>20. CASE NoInterrupt(t)
  BY PortAssumption, <1>20 DEF PortInv, NoInterrupt
<1>21. CASE DequeueUserPacket(t)
  BY <1>21, DequeueUserPacketKeeps
<1>22. CASE DequeueSignalPacket(t)
  BY <1>22, DequeueSignalPacketKeeps
<1>23. CASE DequeueSpurious(t)
  BY PortAssumption, <1>23 DEF PortInv, DequeueSpurious
<1>24. CASE QueueUser(t)
  BY <1>24, QueueUserKeeps
<1>25. CASE QueueUserFails(t)
  BY PortAssumption, <1>25 DEF PortInv, QueueUserFails
<1>26. CASE Free(t)
  BY PortAssumption, <1>26 DEF PortInv, Free
<1>27. CASE OnZeroHandles(t)
  BY PortAssumption, <1>27 DEF PortInv, OnZeroHandles, LockPort
<1>28. CASE Relock(t)
  BY PortAssumption, <1>28 DEF PortInv, Relock, LockPort
<1>29. CASE ZeroUserPacket(t)
  BY <1>29, ZeroUserPacketKeeps
<1>30. CASE ZeroSignalPacket(t)
  BY <1>30, ZeroSignalPacketKeeps
<1>31. CASE ZeroObservers(t)
  BY <1>31, ZeroObserversKeeps
<1>32. CASE RemoveObserver(t)
  BY <1>32, RemoveObserverKeeps
<1>33. CASE ZeroDone(t)
  BY PortAssumption, <1>33 DEF PortInv, ZeroDone, PacketsDrained
<1> HIDE DEF TypeOK, LocalsOK
<1> QED
    BY <1>1, <1>2, <1>3, <1>4, <1>5, <1>6, <1>7, <1>8, <1>9, <1>10, <1>11,
     <1>12, <1>13, <1>14, <1>15, <1>16, <1>17, <1>18, <1>19, <1>20, <1>21,
     <1>22, <1>23, <1>24, <1>25, <1>26, <1>27, <1>28, <1>29, <1>30, <1>31,
     <1>32, <1>33 DEF Step

(* Every step preserves the inductive invariant.                            *)
LEMMA NextKeeps == PortInv /\ [Next]_vars => PortInv'
<1> SUFFICES ASSUME PortInv, [Next]_vars PROVE PortInv'
  OBVIOUS
<1>1. TypeOK' /\ LocalsOK'
  <2>1. TypeOK /\ LocalsOK
    BY DEF PortInv
  <2> HIDE DEF TypeOK, LocalsOK
  <2> QED
    BY <2>1, NextTypes
<1>2. CASE UNCHANGED vars
  BY <1>2 DEF PortInv, vars, Distinct, ObserversIn
<1>3. ASSUME NEW t \in Threads, Begin(t) \/ Step(t)
      PROVE  PortInv'
  <2> HIDE DEF TypeOK, LocalsOK
  <2> QED
    BY <1>1, <1>3, BeginKeeps, StepKeeps
<1>4. ASSUME NEW t \in Threads, Timeout(t)
      PROVE  PortInv'
  BY <1>1, <1>4, PortAssumption DEF PortInv, Timeout
<1>5. ASSUME NEW h \in Handles, NEW o \in Objects, MakeHandle(h, o)
      PROVE  PortInv'
  BY <1>1, <1>5, PortAssumption DEF PortInv, MakeHandle
<1>6. ASSUME NEW i \in InterruptPackets, RemoveInterruptPacket(i)
      PROVE  PortInv'
  BY <1>1, <1>6, PortAssumption DEF PortInv, RemoveInterruptPacket
<1> QED
  BY <1>2, <1>3, <1>4, <1>5, <1>6 DEF Next

(* The invariant PortInv (who holds which lock, and who may reach a         *)
(* PortObserver) holds in every reachable state, for any number of threads, *)
(* objects, handles, waits and packets.                                     *)
THEOREM InductiveInvariant == Spec => []PortInv
<1> HIDE DEF PortInv, Init, Next, vars
<1> QED
  BY InitInv, NextKeeps, PTL DEF Spec

(* Every variable keeps its type.                                           *)
THEOREM TypeCorrect == Spec => []TypeOK
<1>1. PortInv => TypeOK
  BY DEF PortInv
<1> HIDE DEF TypeOK
<1> QED
  BY <1>1, InductiveInvariant, PTL

(* No list, queue, packet or thread refers to a deleted PortObserver, in    *)
(* every interleaving of OnMatch, OnCancel, Dequeue, CancelQueued and       *)
(* on_zero_handles (port_dispatcher.cc:165-455).                            *)
THEOREM NoUseAfterFreeHolds == Spec => []NoUseAfterFree
<1>1. PortInv => NoUseAfterFree
  <2> SUFFICES ASSUME PortInv, NEW x \in destroyed
               PROVE  /\ ~Queued(x)
                      /\ x \notin linked \cup packetOwned
                      /\ \A o \in Objects : x \notin observers[o]
                      /\ \A t \in Threads : tObs[t] # x
    BY DEF NoUseAfterFree
  <2>1. x \in Observers
    BY DEF PortInv
  <2>2. ~Queued(x)
    BY <2>1 DEF PortInv, Queued, ObserversIn
  <2>3. x \notin linked \cup packetOwned
    BY DEF PortInv
  <2>4. \A o \in Objects : x \notin observers[o]
    BY DEF PortInv
  <2>5. \A t \in Threads : tObs[t] # x
    BY <2>1, PortAssumption DEF PortInv
  <2> QED
    BY <2>2, <2>3, <2>4, <2>5
<1> QED
  BY <1>1, InductiveInvariant, PTL

(* Every PortObserver that is not deleted has exactly one party that will   *)
(* delete it: the port through its observers_, its own packet, or the       *)
(* thread in on_zero_handles (port_dispatcher.cc:357-386).                  *)
THEOREM OneOwnerHolds == Spec => []OneOwner
<1>1. PortInv => OneOwner
  <2> SUFFICES ASSUME PortInv, NEW x \in Made, x \notin destroyed
               PROVE  \/ x \in linked /\ ~PacketOwns(x) /\ ~CloserOwns(x)
                      \/ PacketOwns(x) /\ x \notin linked /\ ~CloserOwns(x)
                      \/ CloserOwns(x) /\ x \notin linked /\ ~PacketOwns(x)
    BY DEF OneOwner
  <2>1. x \in linked \cup packetOwned \/ CloserOwns(x)
    BY DEF PortInv
  <2>2. x \in packetOwned => Queued(x) /\ x \notin linked
    BY DEF PortInv, Queued, ObserversIn
  <2>3. CloserOwns(x) => x \notin linked \cup packetOwned
    BY PortAssumption DEF PortInv
  <2> QED
    BY <2>1, <2>2, <2>3 DEF PacketOwns
<1> QED
  BY <1>1, InductiveInvariant, PTL

(* A wait that fired, so that its packet is queued or was delivered, is on  *)
(* no dispatcher's list and no thread is about to queue it again            *)
(* (dispatcher.cc:222-233, port_dispatcher.cc:270).                         *)
THEOREM FiresOnceHolds == Spec => []FiresOnce
<1>1. PortInv => FiresOnce
  <2> SUFFICES ASSUME PortInv, NEW x \in Made, Queued(x) \/ x \in delivered
               PROVE  /\ x \notin observers[wait[x].obj]
                      /\ \A t \in Threads :
                           pc[t] \in {"AddObserver", "Queue"} => tObs[t] # x
    BY DEF FiresOnce
  <2>1. x \in QueuedObs \cup delivered
    BY DEF Queued, ObserversIn
  <2>2. wait[x].obj \in Objects
    BY DEF PortInv, WaitArgs
  <2>3. x \notin observers[wait[x].obj]
    BY <2>1, <2>2 DEF PortInv
  <2>4. \A t \in Threads :
          pc[t] \in {"AddObserver", "Queue"} => tObs[t] # x
    BY <2>1, PortAssumption DEF PortInv
  <2> QED
    BY <2>3, <2>4
<1> QED
  BY <1>1, InductiveInvariant, PTL
-----------------------------------------------------------------------------
HIDE DEF QueuedObs

(* The lock of an object and the triggers of its observers: SignalInv.      *)
(* The calls a thread begins.                                               *)
LEMMA BeginSignals ==
  ASSUME TypeOK, LocalsOK, LocksOK, ListsOK, LockHolders, TriggersOK,
         NEW t \in Threads, Begin(t)
  PROVE  (LockHolders /\ TriggersOK)'
<1>1. ASSUME NEW h \in Handles, NEW k \in Keys, NEW trigger \in SUBSET Signals,
             MakeObserver(t, h, k, trigger)
      PROVE  (LockHolders /\ TriggersOK)'
  BY <1>1, PortAssumption DEF MakeObserver, LockHolders, TriggersOK, Updating
<1>2. ASSUME NEW h \in Handles, NEW k \in Keys,
             PortCancel(t, h, k)
      PROVE  (LockHolders /\ TriggersOK)'
  BY <1>2, PortAssumption DEF PortCancel, LockHolders, TriggersOK, Updating
<1>3. ASSUME NEW o \in Objects, NEW s \in Signals,
             UpdateState(t, o, {s}, {}) \/ UpdateState(t, o, {}, {s})
      PROVE  (LockHolders /\ TriggersOK)'
  <2>1. PICK clear \in SUBSET Signals, set \in SUBSET Signals :
          UpdateState(t, o, clear, set)
    <3> HIDE DEF TypeOK, LocalsOK, LocksOK, ListsOK
    <3> QED
      BY <1>3
  <2> QED
    BY <2>1, PortAssumption
       DEF UpdateState, LockObject, LockHolders, TriggersOK, Updating
<1>4. ASSUME NEW h \in Handles,
             CloseHandle(t, h)
      PROVE  (LockHolders /\ TriggersOK)'
  BY <1>4, PortAssumption
     DEF CloseHandle, TableWritable, TableReaders, LockHolders, TriggersOK,
         Updating
<1>5. CASE Dequeue(t)
  BY <1>5, PortAssumption DEF Dequeue, LockHolders, TriggersOK, Updating
<1>6. CASE Alloc(t)
  BY <1>6, PortAssumption DEF Alloc, LockHolders, TriggersOK, Updating
<1>7. ASSUME NEW i \in InterruptPackets,
             QueueInterruptPacket(t, i)
      PROVE  (LockHolders /\ TriggersOK)'
  BY <1>7, PortAssumption
     DEF QueueInterruptPacket, LockHolders, TriggersOK, Updating
<1>8. CASE ClosePort(t)
  BY <1>8, PortAssumption DEF ClosePort, LockHolders, TriggersOK, Updating
<1> HIDE DEF TypeOK, LocalsOK, LocksOK, ListsOK
<1> QED
  BY <1>1, <1>2, <1>3, <1>4, <1>5, <1>6, <1>7, <1>8 DEF Begin

(* The steps of a call.                                                     *)
LEMMA StepSignals ==
  ASSUME TypeOK, LocalsOK, LocksOK, ListsOK, LockHolders, TriggersOK,
         NEW t \in Threads, Step(t)
  PROVE  (LockHolders /\ TriggersOK)'
<1>1. CASE AddObserver(t)
  BY <1>1, PortAssumption
     DEF AddObserver, AlreadyMatched, LockHolders, TriggersOK, Updating
<1>2. CASE AddObserverMatch(t)
  BY <1>2, PortAssumption
     DEF AddObserverMatch, LockObject, LockHolders, TriggersOK, Updating
<1>3. CASE FindSource(t)
  BY <1>3, PortAssumption DEF FindSource, LockHolders, TriggersOK, Updating
<1>4. CASE SourceClosed(t)
  BY <1>4, PortAssumption DEF SourceClosed, LockHolders, TriggersOK, Updating
<1>5. CASE LockForCancel(t)
  BY <1>5, PortAssumption
     DEF LockForCancel, LockObject, LockHolders, TriggersOK, Updating
<1>6. CASE UpdateStateLocked(t)
  BY <1>6, PortAssumption
     DEF UpdateStateLocked, Callback, Erase, Matching, LockHolders,
         TriggersOK, Updating
<1>7. CASE Cancel(t)
  BY <1>7, PortAssumption
     DEF Cancel, Callback, Erase, OnHandle, LockHolders, TriggersOK, Updating
<1>8. CASE CancelByKey(t)
  BY <1>8, PortAssumption
     DEF CancelByKey, Callback, Erase, OnHandle, MatchesKey, LockHolders,
         TriggersOK, Updating
<1>9. CASE CallbacksDone(t)
  BY <1>9, PortAssumption
     DEF CallbacksDone, UnlockObject, Matching, AlreadyMatched, LockHolders,
         TriggersOK, Updating
<1>10. CASE CancelByKeyDone(t)
  BY <1>10, PortAssumption
     DEF CancelByKeyDone, UnlockObject, LockHolders, TriggersOK, Updating
<1>11. CASE Queue(t)
  BY <1>11, PortAssumption DEF Queue, LockHolders, TriggersOK, Updating
<1>12. CASE PostCount(t)
  BY <1>12, PortAssumption
     DEF PostCount, CountUp, AfterPost, LockHolders, TriggersOK, Updating
<1>13. ASSUME NEW w \in Threads, PostWake(t, w)
       PROVE  (LockHolders /\ TriggersOK)'
  <2>1. pc[w] = "blocked" /\ t # w
    BY <1>13 DEF PostWake
  <2>2. /\ pc'[w] = "DequeueInterrupt" /\ pc'[t] = AfterPost(t)
        /\ \A u \in Threads \ {t, w} : pc'[u] = pc[u]
    BY <1>13, <2>1 DEF PostWake
  <2>3. LockHolders'
    BY <1>13, <2>1, <2>2, PortAssumption DEF PostWake, AfterPost, LockHolders
  <2>4. TriggersOK'
    BY <1>13, <2>1, <2>2, PortAssumption
       DEF PostWake, AfterPost, LockHolders, TriggersOK, Updating
  <2> QED
    BY <2>3, <2>4
<1>14. CASE MaybeReap(t)
  BY <1>14, PortAssumption DEF MaybeReap, LockHolders, TriggersOK, Updating
<1>15. CASE LockForCancelQueued(t)
  BY <1>15, PortAssumption
     DEF LockForCancelQueued, LockPort, LockHolders, TriggersOK, Updating
<1>16. CASE CancelQueued(t)
  BY <1>16, PortAssumption DEF CancelQueued, LockHolders, TriggersOK, Updating
<1>17. CASE CancelQueuedDone(t)
  BY <1>17, PortAssumption
     DEF CancelQueuedDone, LockHolders, TriggersOK, Updating
<1>18. CASE Wait(t)
  BY <1>18, PortAssumption
     DEF Wait, UnitAvailable, LockHolders, TriggersOK, Updating
<1>19. CASE DequeueInterrupt(t)
  BY <1>19, PortAssumption
     DEF DequeueInterrupt, LockHolders, TriggersOK, Updating
<1>20. CASE NoInterrupt(t)
  BY <1>20, PortAssumption DEF NoInterrupt, LockHolders, TriggersOK, Updating
<1>21. CASE DequeueUserPacket(t)
  BY <1>21, PortAssumption
     DEF DequeueUserPacket, LockHolders, TriggersOK, Updating
<1>22. CASE DequeueSignalPacket(t)
  BY <1>22, PortAssumption
     DEF DequeueSignalPacket, ReadIsEphemeral, LockHolders, TriggersOK, Updating
<1>23. CASE DequeueSpurious(t)
  BY <1>23, PortAssumption
     DEF DequeueSpurious, LockHolders, TriggersOK, Updating
<1>24. CASE QueueUser(t)
  BY <1>24, PortAssumption DEF QueueUser, LockHolders, TriggersOK, Updating
<1>25. CASE QueueUserFails(t)
  BY <1>25, PortAssumption
     DEF QueueUserFails, LockHolders, TriggersOK, Updating
<1>26. CASE Free(t)
  BY <1>26, PortAssumption DEF Free, LockHolders, TriggersOK, Updating
<1>27. CASE OnZeroHandles(t)
  BY <1>27, PortAssumption
     DEF OnZeroHandles, LockPort, LockHolders, TriggersOK, Updating
<1>28. CASE Relock(t)
  BY <1>28, PortAssumption
     DEF Relock, LockPort, LockHolders, TriggersOK, Updating
<1>29. CASE ZeroUserPacket(t)
  BY <1>29, PortAssumption
     DEF ZeroUserPacket, DropPortLock, LockHolders, TriggersOK, Updating
<1>30. CASE ZeroSignalPacket(t)
  BY <1>30, PortAssumption
     DEF ZeroSignalPacket, LockHolders, TriggersOK, Updating
<1>31. CASE ZeroObservers(t)
  BY <1>31, PortAssumption
     DEF ZeroObservers, DropPortLock, PacketsDrained, LockHolders, TriggersOK,
         Updating
<1>32. CASE RemoveObserver(t)
  BY <1>32, PortAssumption
     DEF RemoveObserver, Erase, LockHolders, TriggersOK, Updating
<1>33. CASE ZeroDone(t)
  BY <1>33, PortAssumption
     DEF ZeroDone, PacketsDrained, LockHolders, TriggersOK, Updating
<1> HIDE DEF TypeOK, LocalsOK, LocksOK, ListsOK
<1> QED
  BY <1>1, <1>2, <1>3, <1>4, <1>5, <1>6, <1>7, <1>8, <1>9, <1>10, <1>11,
     <1>12, <1>13, <1>14, <1>15, <1>16, <1>17, <1>18, <1>19, <1>20, <1>21,
     <1>22, <1>23, <1>24, <1>25, <1>26, <1>27, <1>28, <1>29, <1>30, <1>31,
     <1>32, <1>33 DEF Step

(* Every step.                                                              *)
LEMMA NextSignals ==
  ASSUME TypeOK, LocalsOK, LocksOK, ListsOK, LockHolders, TriggersOK,
         [Next]_vars
  PROVE  (LockHolders /\ TriggersOK)'
<1>1. CASE UNCHANGED vars
  BY <1>1, PortAssumption DEF vars, LockHolders, TriggersOK, Updating
<1>2. ASSUME NEW t \in Threads, Begin(t) \/ Step(t)
      PROVE  (LockHolders /\ TriggersOK)'
  <2> HIDE DEF TypeOK, LocalsOK, LocksOK, ListsOK
  <2> QED
    BY <1>2, BeginSignals, StepSignals
<1>3. ASSUME NEW t \in Threads, Timeout(t)
      PROVE  (LockHolders /\ TriggersOK)'
  BY <1>3, PortAssumption DEF Timeout, LockHolders, TriggersOK, Updating
<1>4. ASSUME NEW h \in Handles, NEW o \in Objects, MakeHandle(h, o)
      PROVE  (LockHolders /\ TriggersOK)'
  BY <1>4, PortAssumption DEF MakeHandle, LockHolders, TriggersOK, Updating
<1>5. ASSUME NEW i \in InterruptPackets, RemoveInterruptPacket(i)
      PROVE  (LockHolders /\ TriggersOK)'
  BY <1>5, PortAssumption
     DEF RemoveInterruptPacket, LockHolders, TriggersOK, Updating
<1> HIDE DEF TypeOK, LocalsOK, LocksOK, ListsOK
<1> QED
  BY <1>1, <1>2, <1>3, <1>4, <1>5 DEF Next

(* The lock and signal invariant holds throughout.                          *)
THEOREM SignalInvariant == Spec => []SignalInv
<1>1. Init => LockHolders /\ TriggersOK
  BY DEF Init, LockHolders, TriggersOK
<1>2. PortInv => TypeOK /\ LocalsOK /\ LocksOK /\ ListsOK
  BY DEF PortInv
<1>3. PortInv /\ SignalInv /\ [Next]_vars => (LockHolders /\ TriggersOK)'
  <2> HIDE DEF TypeOK, LocalsOK, LocksOK, ListsOK
  <2> QED
    BY <1>2, NextSignals DEF SignalInv
<1>4. PortInv /\ LockHolders /\ TriggersOK => SignalInv
  BY DEF SignalInv
<1> HIDE DEF PortInv, SignalInv, LockHolders, TriggersOK, Init, Next, vars
<1> QED
  BY <1>1, <1>3, <1>4, InductiveInvariant, PTL DEF Spec

(* No signal is missed between the check of signals_ in AddObserver and the *)
(* registration: an observer on the list of a dispatcher nobody has locked  *)
(* waits for signals that are down (dispatcher.cc:103-140).                 *)
THEOREM NoMissedSignalHolds == Spec => []NoMissedSignal
<1>1. SignalInv => NoMissedSignal
  BY DEF SignalInv, TriggersOK, NoMissedSignal
<1> HIDE DEF SignalInv
<1> QED
  BY <1>1, SignalInvariant, PTL
-----------------------------------------------------------------------------
(* What zx_port_cancel ends: CancelInv.                                     *)
(* The calls a thread begins.                                               *)
LEMMA BeginGenerations ==
  ASSUME TypeOK, LocalsOK, GenerationsOK,
         NEW t \in Threads, Begin(t)
  PROVE  GenerationsOK'
<1>1. ASSUME NEW h \in Handles, NEW k \in Keys, NEW trigger \in SUBSET Signals,
             MakeObserver(t, h, k, trigger)
      PROVE  GenerationsOK'
  BY <1>1, PortAssumption DEF MakeObserver, GenerationsOK, WaitArgs
<1>2. ASSUME NEW h \in Handles, NEW k \in Keys,
             PortCancel(t, h, k)
      PROVE  GenerationsOK'
  BY <1>2, PortAssumption DEF PortCancel, GenerationsOK, WaitArgs
<1>3. ASSUME NEW o \in Objects, NEW s \in Signals,
             UpdateState(t, o, {s}, {}) \/ UpdateState(t, o, {}, {s})
      PROVE  GenerationsOK'
  <2>1. PICK clear \in SUBSET Signals, set \in SUBSET Signals :
          UpdateState(t, o, clear, set)
    <3> HIDE DEF TypeOK, LocalsOK
    <3> QED
      BY <1>3
  <2> QED
    BY <2>1, PortAssumption
       DEF UpdateState, LockObject, GenerationsOK, WaitArgs
<1>4. ASSUME NEW h \in Handles,
             CloseHandle(t, h)
      PROVE  GenerationsOK'
  BY <1>4, PortAssumption
     DEF CloseHandle, TableWritable, TableReaders, GenerationsOK, WaitArgs
<1>5. CASE Dequeue(t)
  BY <1>5, PortAssumption DEF Dequeue, GenerationsOK, WaitArgs
<1>6. CASE Alloc(t)
  BY <1>6, PortAssumption DEF Alloc, GenerationsOK, WaitArgs
<1>7. ASSUME NEW i \in InterruptPackets,
             QueueInterruptPacket(t, i)
      PROVE  GenerationsOK'
  BY <1>7, PortAssumption DEF QueueInterruptPacket, GenerationsOK, WaitArgs
<1>8. CASE ClosePort(t)
  BY <1>8, PortAssumption DEF ClosePort, GenerationsOK, WaitArgs
<1> HIDE DEF TypeOK, LocalsOK
<1> QED
  BY <1>1, <1>2, <1>3, <1>4, <1>5, <1>6, <1>7, <1>8 DEF Begin

(* The steps of a call.                                                     *)
LEMMA StepGenerations ==
  ASSUME TypeOK, LocalsOK, GenerationsOK,
         NEW t \in Threads, Step(t)
  PROVE  GenerationsOK'
<1>1. CASE AddObserver(t)
  BY <1>1, PortAssumption
     DEF AddObserver, AlreadyMatched, GenerationsOK, WaitArgs
<1>2. CASE AddObserverMatch(t)
  BY <1>2, PortAssumption
     DEF AddObserverMatch, LockObject, GenerationsOK, WaitArgs
<1>3. CASE FindSource(t)
  BY <1>3, PortAssumption DEF FindSource, GenerationsOK, WaitArgs
<1>4. CASE SourceClosed(t)
  BY <1>4, PortAssumption DEF SourceClosed, GenerationsOK, WaitArgs
<1>5. CASE LockForCancel(t)
  BY <1>5, PortAssumption
     DEF LockForCancel, LockObject, GenerationsOK, WaitArgs
<1>6. CASE UpdateStateLocked(t)
  BY <1>6, PortAssumption
     DEF UpdateStateLocked, Callback, Erase, Matching, GenerationsOK, WaitArgs
<1>7. CASE Cancel(t)
  BY <1>7, PortAssumption
     DEF Cancel, Callback, Erase, OnHandle, GenerationsOK, WaitArgs
<1>8. CASE CancelByKey(t)
  BY <1>8, PortAssumption
     DEF CancelByKey, Callback, Erase, OnHandle, MatchesKey, GenerationsOK,
         WaitArgs
<1>9. CASE CallbacksDone(t)
  BY <1>9, PortAssumption
     DEF CallbacksDone, UnlockObject, GenerationsOK, WaitArgs
<1>10. CASE CancelByKeyDone(t)
  BY <1>10, PortAssumption
     DEF CancelByKeyDone, UnlockObject, GenerationsOK, WaitArgs
<1>11. CASE Queue(t)
  BY <1>11, PortAssumption DEF Queue, GenerationsOK, WaitArgs
<1>12. CASE PostCount(t)
  BY <1>12, PortAssumption
     DEF PostCount, CountUp, AfterPost, GenerationsOK, WaitArgs
<1>13. ASSUME NEW w \in Threads, PostWake(t, w)
       PROVE  GenerationsOK'
  BY <1>13, PortAssumption DEF PostWake, AfterPost, GenerationsOK, WaitArgs
<1>14. CASE MaybeReap(t)
  BY <1>14, PortAssumption DEF MaybeReap, GenerationsOK, WaitArgs
<1>15. CASE LockForCancelQueued(t)
  BY <1>15, PortAssumption
     DEF LockForCancelQueued, LockPort, GenerationsOK, WaitArgs
<1>16. CASE CancelQueued(t)
  BY <1>16, PortAssumption DEF CancelQueued, GenerationsOK, WaitArgs
<1>17. CASE CancelQueuedDone(t)
  BY <1>17, PortAssumption DEF CancelQueuedDone, GenerationsOK, WaitArgs
<1>18. CASE Wait(t)
  BY <1>18, PortAssumption DEF Wait, UnitAvailable, GenerationsOK, WaitArgs
<1>19. CASE DequeueInterrupt(t)
  BY <1>19, PortAssumption DEF DequeueInterrupt, GenerationsOK, WaitArgs
<1>20. CASE NoInterrupt(t)
  BY <1>20, PortAssumption DEF NoInterrupt, GenerationsOK, WaitArgs
<1>21. CASE DequeueUserPacket(t)
  BY <1>21, PortAssumption DEF DequeueUserPacket, GenerationsOK, WaitArgs
<1>22. CASE DequeueSignalPacket(t)
  BY <1>22, PortAssumption DEF DequeueSignalPacket, ReadIsEphemeral, GenerationsOK, WaitArgs
<1>23. CASE DequeueSpurious(t)
  BY <1>23, PortAssumption DEF DequeueSpurious, GenerationsOK, WaitArgs
<1>24. CASE QueueUser(t)
  BY <1>24, PortAssumption DEF QueueUser, GenerationsOK, WaitArgs
<1>25. CASE QueueUserFails(t)
  BY <1>25, PortAssumption DEF QueueUserFails, GenerationsOK, WaitArgs
<1>26. CASE Free(t)
  BY <1>26, PortAssumption DEF Free, GenerationsOK, WaitArgs
<1>27. CASE OnZeroHandles(t)
  BY <1>27, PortAssumption
     DEF OnZeroHandles, LockPort, GenerationsOK, WaitArgs
<1>28. CASE Relock(t)
  BY <1>28, PortAssumption DEF Relock, LockPort, GenerationsOK, WaitArgs
<1>29. CASE ZeroUserPacket(t)
  BY <1>29, PortAssumption
     DEF ZeroUserPacket, DropPortLock, GenerationsOK, WaitArgs
<1>30. CASE ZeroSignalPacket(t)
  BY <1>30, PortAssumption DEF ZeroSignalPacket, GenerationsOK, WaitArgs
<1>31. CASE ZeroObservers(t)
  BY <1>31, PortAssumption
     DEF ZeroObservers, DropPortLock, PacketsDrained, GenerationsOK, WaitArgs
<1>32. CASE RemoveObserver(t)
  BY <1>32, PortAssumption DEF RemoveObserver, Erase, GenerationsOK, WaitArgs
<1>33. CASE ZeroDone(t)
  BY <1>33, PortAssumption
     DEF ZeroDone, PacketsDrained, GenerationsOK, WaitArgs
<1> HIDE DEF TypeOK, LocalsOK
<1> QED
  BY <1>1, <1>2, <1>3, <1>4, <1>5, <1>6, <1>7, <1>8, <1>9, <1>10, <1>11,
     <1>12, <1>13, <1>14, <1>15, <1>16, <1>17, <1>18, <1>19, <1>20, <1>21,
     <1>22, <1>23, <1>24, <1>25, <1>26, <1>27, <1>28, <1>29, <1>30, <1>31,
     <1>32, <1>33 DEF Step

(* Every step.                                                              *)
LEMMA NextGenerations ==
  ASSUME TypeOK, LocalsOK, GenerationsOK,
         [Next]_vars
  PROVE  GenerationsOK'
<1>1. CASE UNCHANGED vars
  BY <1>1, PortAssumption DEF vars, GenerationsOK, WaitArgs
<1>2. ASSUME NEW t \in Threads, Begin(t) \/ Step(t)
      PROVE  GenerationsOK'
  <2> HIDE DEF TypeOK, LocalsOK
  <2> QED
    BY <1>2, BeginGenerations, StepGenerations
<1>3. ASSUME NEW t \in Threads, Timeout(t)
      PROVE  GenerationsOK'
  BY <1>3, PortAssumption DEF Timeout, GenerationsOK, WaitArgs
<1>4. ASSUME NEW h \in Handles, NEW o \in Objects, MakeHandle(h, o)
      PROVE  GenerationsOK'
  BY <1>4, PortAssumption DEF MakeHandle, GenerationsOK, WaitArgs
<1>5. ASSUME NEW i \in InterruptPackets, RemoveInterruptPacket(i)
      PROVE  GenerationsOK'
  BY <1>5, PortAssumption DEF RemoveInterruptPacket, GenerationsOK, WaitArgs
<1> HIDE DEF TypeOK, LocalsOK
<1> QED
  BY <1>1, <1>2, <1>3, <1>4, <1>5 DEF Next

(* A wait that was made stays what it is, and its call has one go at the    *)
(* list.                                                                    *)
KeptWait(x) ==
  /\ x \in Made' /\ wait'[x] = wait[x]
  /\ Registering(x)' => Registering(x)

(* The calls a thread begins.                                               *)
LEMMA BeginKeepsWait ==
  ASSUME TypeOK, LocalsOK, NEW x \in Made,
         NEW t \in Threads, Begin(t)
  PROVE  KeptWait(x)
<1>1. ASSUME NEW h \in Handles, NEW k \in Keys, NEW trigger \in SUBSET Signals,
             MakeObserver(t, h, k, trigger)
      PROVE  KeptWait(x)
  BY <1>1, PortAssumption DEF MakeObserver, KeptWait, Registering
<1>2. ASSUME NEW h \in Handles, NEW k \in Keys,
             PortCancel(t, h, k)
      PROVE  KeptWait(x)
  BY <1>2, PortAssumption DEF PortCancel, KeptWait, Registering
<1>3. ASSUME NEW o \in Objects, NEW s \in Signals,
             UpdateState(t, o, {s}, {}) \/ UpdateState(t, o, {}, {s})
      PROVE  KeptWait(x)
  <2>1. PICK clear \in SUBSET Signals, set \in SUBSET Signals :
          UpdateState(t, o, clear, set)
    <3> HIDE DEF TypeOK, LocalsOK
    <3> QED
      BY <1>3
  <2> QED
    BY <2>1, PortAssumption
       DEF UpdateState, LockObject, KeptWait, Registering
<1>4. ASSUME NEW h \in Handles,
             CloseHandle(t, h)
      PROVE  KeptWait(x)
  BY <1>4, PortAssumption
     DEF CloseHandle, TableWritable, TableReaders, KeptWait, Registering
<1>5. CASE Dequeue(t)
  BY <1>5, PortAssumption DEF Dequeue, KeptWait, Registering
<1>6. CASE Alloc(t)
  BY <1>6, PortAssumption DEF Alloc, KeptWait, Registering
<1>7. ASSUME NEW i \in InterruptPackets,
             QueueInterruptPacket(t, i)
      PROVE  KeptWait(x)
  BY <1>7, PortAssumption DEF QueueInterruptPacket, KeptWait, Registering
<1>8. CASE ClosePort(t)
  BY <1>8, PortAssumption DEF ClosePort, KeptWait, Registering
<1> HIDE DEF TypeOK, LocalsOK
<1> QED
  BY <1>1, <1>2, <1>3, <1>4, <1>5, <1>6, <1>7, <1>8 DEF Begin

(* The steps of a call.                                                     *)
LEMMA StepKeepsWait ==
  ASSUME TypeOK, LocalsOK, NEW x \in Made,
         NEW t \in Threads, Step(t)
  PROVE  KeptWait(x)
<1>1. CASE AddObserver(t)
  BY <1>1, PortAssumption
     DEF AddObserver, AlreadyMatched, KeptWait, Registering
<1>2. CASE AddObserverMatch(t)
  BY <1>2, PortAssumption
     DEF AddObserverMatch, LockObject, KeptWait, Registering
<1>3. CASE FindSource(t)
  BY <1>3, PortAssumption DEF FindSource, KeptWait, Registering
<1>4. CASE SourceClosed(t)
  BY <1>4, PortAssumption DEF SourceClosed, KeptWait, Registering
<1>5. CASE LockForCancel(t)
  BY <1>5, PortAssumption DEF LockForCancel, LockObject, KeptWait, Registering
<1>6. CASE UpdateStateLocked(t)
  BY <1>6, PortAssumption
     DEF UpdateStateLocked, Callback, Erase, Matching, KeptWait, Registering
<1>7. CASE Cancel(t)
  BY <1>7, PortAssumption
     DEF Cancel, Callback, Erase, OnHandle, KeptWait, Registering
<1>8. CASE CancelByKey(t)
  BY <1>8, PortAssumption
     DEF CancelByKey, Callback, Erase, OnHandle, MatchesKey, KeptWait,
         Registering
<1>9. CASE CallbacksDone(t)
  BY <1>9, PortAssumption
     DEF CallbacksDone, UnlockObject, KeptWait, Registering
<1>10. CASE CancelByKeyDone(t)
  BY <1>10, PortAssumption
     DEF CancelByKeyDone, UnlockObject, KeptWait, Registering
<1>11. CASE Queue(t)
  BY <1>11, PortAssumption DEF Queue, KeptWait, Registering
<1>12. CASE PostCount(t)
  BY <1>12, PortAssumption
     DEF PostCount, CountUp, AfterPost, KeptWait, Registering
<1>13. ASSUME NEW w \in Threads, PostWake(t, w)
       PROVE  KeptWait(x)
  BY <1>13, PortAssumption DEF PostWake, AfterPost, KeptWait, Registering
<1>14. CASE MaybeReap(t)
  BY <1>14, PortAssumption DEF MaybeReap, KeptWait, Registering
<1>15. CASE LockForCancelQueued(t)
  BY <1>15, PortAssumption
     DEF LockForCancelQueued, LockPort, KeptWait, Registering
<1>16. CASE CancelQueued(t)
  BY <1>16, PortAssumption DEF CancelQueued, KeptWait, Registering
<1>17. CASE CancelQueuedDone(t)
  BY <1>17, PortAssumption DEF CancelQueuedDone, KeptWait, Registering
<1>18. CASE Wait(t)
  BY <1>18, PortAssumption DEF Wait, UnitAvailable, KeptWait, Registering
<1>19. CASE DequeueInterrupt(t)
  BY <1>19, PortAssumption DEF DequeueInterrupt, KeptWait, Registering
<1>20. CASE NoInterrupt(t)
  BY <1>20, PortAssumption DEF NoInterrupt, KeptWait, Registering
<1>21. CASE DequeueUserPacket(t)
  BY <1>21, PortAssumption DEF DequeueUserPacket, KeptWait, Registering
<1>22. CASE DequeueSignalPacket(t)
  BY <1>22, PortAssumption DEF DequeueSignalPacket, ReadIsEphemeral, KeptWait, Registering
<1>23. CASE DequeueSpurious(t)
  BY <1>23, PortAssumption DEF DequeueSpurious, KeptWait, Registering
<1>24. CASE QueueUser(t)
  BY <1>24, PortAssumption DEF QueueUser, KeptWait, Registering
<1>25. CASE QueueUserFails(t)
  BY <1>25, PortAssumption DEF QueueUserFails, KeptWait, Registering
<1>26. CASE Free(t)
  BY <1>26, PortAssumption DEF Free, KeptWait, Registering
<1>27. CASE OnZeroHandles(t)
  BY <1>27, PortAssumption DEF OnZeroHandles, LockPort, KeptWait, Registering
<1>28. CASE Relock(t)
  BY <1>28, PortAssumption DEF Relock, LockPort, KeptWait, Registering
<1>29. CASE ZeroUserPacket(t)
  BY <1>29, PortAssumption
     DEF ZeroUserPacket, DropPortLock, KeptWait, Registering
<1>30. CASE ZeroSignalPacket(t)
  BY <1>30, PortAssumption DEF ZeroSignalPacket, KeptWait, Registering
<1>31. CASE ZeroObservers(t)
  BY <1>31, PortAssumption
     DEF ZeroObservers, DropPortLock, PacketsDrained, KeptWait, Registering
<1>32. CASE RemoveObserver(t)
  BY <1>32, PortAssumption DEF RemoveObserver, Erase, KeptWait, Registering
<1>33. CASE ZeroDone(t)
  BY <1>33, PortAssumption DEF ZeroDone, PacketsDrained, KeptWait, Registering
<1> HIDE DEF TypeOK, LocalsOK
<1> QED
  BY <1>1, <1>2, <1>3, <1>4, <1>5, <1>6, <1>7, <1>8, <1>9, <1>10, <1>11,
     <1>12, <1>13, <1>14, <1>15, <1>16, <1>17, <1>18, <1>19, <1>20, <1>21,
     <1>22, <1>23, <1>24, <1>25, <1>26, <1>27, <1>28, <1>29, <1>30, <1>31,
     <1>32, <1>33 DEF Step

(* Every step.                                                              *)
LEMMA NextKeepsWait ==
  ASSUME TypeOK, LocalsOK, NEW x \in Made,
         [Next]_vars
  PROVE  KeptWait(x)
<1>1. CASE UNCHANGED vars
  BY <1>1, PortAssumption DEF vars, KeptWait, Registering
<1>2. ASSUME NEW t \in Threads, Begin(t) \/ Step(t)
      PROVE  KeptWait(x)
  <2> HIDE DEF TypeOK, LocalsOK
  <2> QED
    BY <1>2, BeginKeepsWait, StepKeepsWait
<1>3. ASSUME NEW t \in Threads, Timeout(t)
      PROVE  KeptWait(x)
  BY <1>3, PortAssumption DEF Timeout, KeptWait, Registering
<1>4. ASSUME NEW h \in Handles, NEW o \in Objects, MakeHandle(h, o)
      PROVE  KeptWait(x)
  BY <1>4, PortAssumption DEF MakeHandle, KeptWait, Registering
<1>5. ASSUME NEW i \in InterruptPackets, RemoveInterruptPacket(i)
      PROVE  KeptWait(x)
  BY <1>5, PortAssumption DEF RemoveInterruptPacket, KeptWait, Registering
<1> HIDE DEF TypeOK, LocalsOK
<1> QED
  BY <1>1, <1>2, <1>3, <1>4, <1>5 DEF Next
(* The calls a thread begins.                                               *)
LEMMA BeginKeepsDormant ==
  ASSUME TypeOK, LocalsOK, ListsOK, NEW x \in Made, Dormant(x),
         NEW t \in Threads, Begin(t)
  PROVE  Dormant(x)'
<1>1. ASSUME NEW h \in Handles, NEW k \in Keys, NEW trigger \in SUBSET Signals,
             MakeObserver(t, h, k, trigger)
      PROVE  Dormant(x)'
  BY <1>1, PortAssumption DEF MakeObserver, Dormant, Registering
<1>2. ASSUME NEW h \in Handles, NEW k \in Keys,
             PortCancel(t, h, k)
      PROVE  Dormant(x)'
  BY <1>2, PortAssumption DEF PortCancel, Dormant, Registering
<1>3. ASSUME NEW o \in Objects, NEW s \in Signals,
             UpdateState(t, o, {s}, {}) \/ UpdateState(t, o, {}, {s})
      PROVE  Dormant(x)'
  <2>1. PICK clear \in SUBSET Signals, set \in SUBSET Signals :
          UpdateState(t, o, clear, set)
    <3> HIDE DEF TypeOK, LocalsOK, ListsOK
    <3> QED
      BY <1>3
  <2> QED
    BY <2>1, PortAssumption
       DEF UpdateState, LockObject, Dormant, Registering
<1>4. ASSUME NEW h \in Handles,
             CloseHandle(t, h)
      PROVE  Dormant(x)'
  BY <1>4, PortAssumption
     DEF CloseHandle, TableWritable, TableReaders, Dormant, Registering
<1>5. CASE Dequeue(t)
  BY <1>5, PortAssumption DEF Dequeue, Dormant, Registering
<1>6. CASE Alloc(t)
  BY <1>6, PortAssumption DEF Alloc, Dormant, Registering
<1>7. ASSUME NEW i \in InterruptPackets,
             QueueInterruptPacket(t, i)
      PROVE  Dormant(x)'
  BY <1>7, PortAssumption DEF QueueInterruptPacket, Dormant, Registering
<1>8. CASE ClosePort(t)
  BY <1>8, PortAssumption DEF ClosePort, Dormant, Registering
<1> HIDE DEF TypeOK, LocalsOK, ListsOK
<1> QED
  BY <1>1, <1>2, <1>3, <1>4, <1>5, <1>6, <1>7, <1>8 DEF Begin

(* The steps of a call.                                                     *)
LEMMA StepKeepsDormant ==
  ASSUME TypeOK, LocalsOK, ListsOK, NEW x \in Made, Dormant(x),
         NEW t \in Threads, Step(t)
  PROVE  Dormant(x)'
<1>1. CASE AddObserver(t)
  BY <1>1, PortAssumption
     DEF AddObserver, AlreadyMatched, Dormant, Registering
<1>2. CASE AddObserverMatch(t)
  BY <1>2, PortAssumption
     DEF AddObserverMatch, LockObject, Dormant, Registering
<1>3. CASE FindSource(t)
  BY <1>3, PortAssumption DEF FindSource, Dormant, Registering
<1>4. CASE SourceClosed(t)
  BY <1>4, PortAssumption DEF SourceClosed, Dormant, Registering
<1>5. CASE LockForCancel(t)
  BY <1>5, PortAssumption DEF LockForCancel, LockObject, Dormant, Registering
<1>6. CASE UpdateStateLocked(t)
  BY <1>6, PortAssumption
     DEF UpdateStateLocked, Callback, Erase, Matching, Dormant, Registering
<1>7. CASE Cancel(t)
  BY <1>7, PortAssumption
     DEF Cancel, Callback, Erase, OnHandle, Dormant, Registering
<1>8. CASE CancelByKey(t)
  BY <1>8, PortAssumption
     DEF CancelByKey, Callback, Erase, OnHandle, MatchesKey, Dormant,
         Registering
<1>9. CASE CallbacksDone(t)
  BY <1>9, PortAssumption
     DEF CallbacksDone, UnlockObject, Dormant, Registering
<1>10. CASE CancelByKeyDone(t)
  BY <1>10, PortAssumption
     DEF CancelByKeyDone, UnlockObject, Dormant, Registering
<1>11. CASE Queue(t)
  BY <1>11, PortAssumption DEF Queue, Dormant, Registering
<1>12. CASE PostCount(t)
  BY <1>12, PortAssumption
     DEF PostCount, CountUp, AfterPost, Dormant, Registering
<1>13. ASSUME NEW w \in Threads, PostWake(t, w)
       PROVE  Dormant(x)'
  BY <1>13, PortAssumption DEF PostWake, AfterPost, Dormant, Registering
<1>14. CASE MaybeReap(t)
  BY <1>14, PortAssumption DEF MaybeReap, Dormant, Registering
<1>15. CASE LockForCancelQueued(t)
  BY <1>15, PortAssumption
     DEF LockForCancelQueued, LockPort, Dormant, Registering
<1>16. CASE CancelQueued(t)
  BY <1>16, PortAssumption DEF CancelQueued, Dormant, Registering
<1>17. CASE CancelQueuedDone(t)
  BY <1>17, PortAssumption DEF CancelQueuedDone, Dormant, Registering
<1>18. CASE Wait(t)
  BY <1>18, PortAssumption DEF Wait, UnitAvailable, Dormant, Registering
<1>19. CASE DequeueInterrupt(t)
  BY <1>19, PortAssumption DEF DequeueInterrupt, Dormant, Registering
<1>20. CASE NoInterrupt(t)
  BY <1>20, PortAssumption DEF NoInterrupt, Dormant, Registering
<1>21. CASE DequeueUserPacket(t)
  BY <1>21, PortAssumption DEF DequeueUserPacket, Dormant, Registering
<1>22. CASE DequeueSignalPacket(t)
  BY <1>22, PortAssumption DEF DequeueSignalPacket, ReadIsEphemeral, Dormant, Registering
<1>23. CASE DequeueSpurious(t)
  BY <1>23, PortAssumption DEF DequeueSpurious, Dormant, Registering
<1>24. CASE QueueUser(t)
  BY <1>24, PortAssumption DEF QueueUser, Dormant, Registering
<1>25. CASE QueueUserFails(t)
  BY <1>25, PortAssumption DEF QueueUserFails, Dormant, Registering
<1>26. CASE Free(t)
  BY <1>26, PortAssumption DEF Free, Dormant, Registering
<1>27. CASE OnZeroHandles(t)
  BY <1>27, PortAssumption DEF OnZeroHandles, LockPort, Dormant, Registering
<1>28. CASE Relock(t)
  BY <1>28, PortAssumption DEF Relock, LockPort, Dormant, Registering
<1>29. CASE ZeroUserPacket(t)
  BY <1>29, PortAssumption
     DEF ZeroUserPacket, DropPortLock, Dormant, Registering
<1>30. CASE ZeroSignalPacket(t)
  BY <1>30, PortAssumption DEF ZeroSignalPacket, Dormant, Registering
<1>31. CASE ZeroObservers(t)
  BY <1>31, PortAssumption
     DEF ZeroObservers, DropPortLock, PacketsDrained, Dormant, Registering
<1>32. CASE RemoveObserver(t)
  BY <1>32, PortAssumption DEF RemoveObserver, Erase, Dormant, Registering
<1>33. CASE ZeroDone(t)
  BY <1>33, PortAssumption DEF ZeroDone, PacketsDrained, Dormant, Registering
<1> HIDE DEF TypeOK, LocalsOK, ListsOK
<1> QED
  BY <1>1, <1>2, <1>3, <1>4, <1>5, <1>6, <1>7, <1>8, <1>9, <1>10, <1>11,
     <1>12, <1>13, <1>14, <1>15, <1>16, <1>17, <1>18, <1>19, <1>20, <1>21,
     <1>22, <1>23, <1>24, <1>25, <1>26, <1>27, <1>28, <1>29, <1>30, <1>31,
     <1>32, <1>33 DEF Step

(* Every step.                                                              *)
LEMMA NextKeepsDormant ==
  ASSUME TypeOK, LocalsOK, ListsOK, NEW x \in Made, Dormant(x),
         [Next]_vars
  PROVE  Dormant(x)'
<1>1. CASE UNCHANGED vars
  BY <1>1, PortAssumption DEF vars, Dormant, Registering
<1>2. ASSUME NEW t \in Threads, Begin(t) \/ Step(t)
      PROVE  Dormant(x)'
  <2> HIDE DEF TypeOK, LocalsOK, ListsOK
  <2> QED
    BY <1>2, BeginKeepsDormant, StepKeepsDormant
<1>3. ASSUME NEW t \in Threads, Timeout(t)
      PROVE  Dormant(x)'
  BY <1>3, PortAssumption DEF Timeout, Dormant, Registering
<1>4. ASSUME NEW h \in Handles, NEW o \in Objects, MakeHandle(h, o)
      PROVE  Dormant(x)'
  BY <1>4, PortAssumption DEF MakeHandle, Dormant, Registering
<1>5. ASSUME NEW i \in InterruptPackets, RemoveInterruptPacket(i)
      PROVE  Dormant(x)'
  BY <1>5, PortAssumption DEF RemoveInterruptPacket, Dormant, Registering
<1> HIDE DEF TypeOK, LocalsOK, ListsOK
<1> QED
  BY <1>1, <1>2, <1>3, <1>4, <1>5 DEF Next

(* What a step leaves true of a wait.                                       *)
Persists(x) == KeptWait(x) /\ (Dormant(x) => Dormant(x)')

(* The calls a thread begins.                                               *)
LEMMA BeginSnaps ==
  ASSUME TypeOK, LocalsOK, LocksOK, ListsOK, UsersOK, GenerationsOK, SnapsOK,
         \A x \in Made : Persists(x),
         NEW t \in Threads, Begin(t)
  PROVE  SnapsOK'
<1>1. ASSUME NEW h \in Handles, NEW k \in Keys, NEW trigger \in SUBSET Signals,
             MakeObserver(t, h, k, trigger)
      PROVE  SnapsOK'
  BY <1>1, PortAssumption
     DEF MakeObserver, SnapsOK, Cancelling, Persists, KeptWait
<1>2. ASSUME NEW h \in Handles, NEW k \in Keys,
             PortCancel(t, h, k)
      PROVE  SnapsOK'
  BY <1>2, PortAssumption
     DEF PortCancel, SnapsOK, Cancelling, Persists, KeptWait
<1>3. ASSUME NEW o \in Objects, NEW s \in Signals,
             UpdateState(t, o, {s}, {}) \/ UpdateState(t, o, {}, {s})
      PROVE  SnapsOK'
  <2>1. PICK clear \in SUBSET Signals, set \in SUBSET Signals :
          UpdateState(t, o, clear, set)
    <3> HIDE DEF TypeOK, LocalsOK, LocksOK, ListsOK, UsersOK
    <3> QED
      BY <1>3
  <2> QED
    BY <2>1, PortAssumption
       DEF UpdateState, LockObject, SnapsOK, Cancelling, Persists, KeptWait
<1>4. ASSUME NEW h \in Handles,
             CloseHandle(t, h)
      PROVE  SnapsOK'
  BY <1>4, PortAssumption
     DEF CloseHandle, TableWritable, TableReaders, SnapsOK, Cancelling,
         Persists, KeptWait
<1>5. CASE Dequeue(t)
  BY <1>5, PortAssumption DEF Dequeue, SnapsOK, Cancelling, Persists, KeptWait
<1>6. CASE Alloc(t)
  BY <1>6, PortAssumption DEF Alloc, SnapsOK, Cancelling, Persists, KeptWait
<1>7. ASSUME NEW i \in InterruptPackets,
             QueueInterruptPacket(t, i)
      PROVE  SnapsOK'
  BY <1>7, PortAssumption
     DEF QueueInterruptPacket, SnapsOK, Cancelling, Persists, KeptWait
<1>8. CASE ClosePort(t)
  BY <1>8, PortAssumption
     DEF ClosePort, SnapsOK, Cancelling, Persists, KeptWait
<1> HIDE DEF TypeOK, LocalsOK, LocksOK, ListsOK, UsersOK
<1> QED
  BY <1>1, <1>2, <1>3, <1>4, <1>5, <1>6, <1>7, <1>8 DEF Begin

(* The steps of a call.                                                     *)
LEMMA StepSnaps ==
  ASSUME TypeOK, LocalsOK, LocksOK, ListsOK, UsersOK, GenerationsOK, SnapsOK,
         \A x \in Made : Persists(x),
         NEW t \in Threads, Step(t)
  PROVE  SnapsOK'
<1>1. CASE AddObserver(t)
  BY <1>1, PortAssumption
     DEF AddObserver, AlreadyMatched, SnapsOK, Cancelling, Persists, KeptWait
<1>2. CASE AddObserverMatch(t)
  BY <1>2, PortAssumption
     DEF AddObserverMatch, LockObject, SnapsOK, Cancelling, Persists, KeptWait
<1>3. CASE FindSource(t)
  BY <1>3, PortAssumption
     DEF FindSource, Registered, GenerationsOK, Registering, SnapsOK,
         Cancelling, Persists, KeptWait
<1>4. CASE SourceClosed(t)
  BY <1>4, PortAssumption
     DEF SourceClosed, SnapsOK, Cancelling, Persists, KeptWait
<1>5. CASE LockForCancel(t)
  BY <1>5, PortAssumption
     DEF LockForCancel, LockObject, SnapsOK, Cancelling, Persists, KeptWait
<1>6. CASE UpdateStateLocked(t)
  BY <1>6, PortAssumption
     DEF UpdateStateLocked, Callback, Erase, Matching, SnapsOK, Cancelling,
         Persists, KeptWait
<1>7. CASE Cancel(t)
  BY <1>7, PortAssumption
     DEF Cancel, Callback, Erase, OnHandle, SnapsOK, Cancelling, Persists,
         KeptWait
<1>8. CASE CancelByKey(t)
  BY <1>8, PortAssumption
     DEF CancelByKey, Callback, Erase, OnHandle, MatchesKey, SnapsOK,
         Cancelling, Persists, KeptWait
<1>9. CASE CallbacksDone(t)
  BY <1>9, PortAssumption
     DEF CallbacksDone, UnlockObject, SnapsOK, Cancelling, Persists, KeptWait
<1>10. CASE CancelByKeyDone(t)
  <2>1. HoldsObject(t) /\ objLock[tObj[t]] = t /\ tObj[t] \in Objects
    BY <1>10 DEF CancelByKeyDone
  <2>2. \A x \in tSnap[t] : Dormant(x)
    <3> SUFFICES ASSUME NEW x \in tSnap[t] PROVE Dormant(x)
      OBVIOUS
    <3>1. /\ x \in Made /\ wait[x].obj = tObj[t] /\ ~Registering(x)
          /\ wait[x].handle = tHandle[t] /\ wait[x].key = tKey[t]
      BY DEF SnapsOK
    <3>2. \A o \in Objects : x \notin observers[o]
      BY <1>10, <3>1 DEF CancelByKeyDone, MatchesKey, OnHandle
    <3>3. \A u \in Threads : pc[u] = "Queue" => tObs[u] # x
      <4> SUFFICES ASSUME NEW u \in Threads, pc[u] = "Queue", tObs[u] = x
                   PROVE  FALSE
        OBVIOUS
      <4>1. tObj[u] = tObj[t] /\ objLock[tObj[u]] = u
        BY <3>1, PortAssumption
      <4> QED
        BY <1>10, <2>1, <4>1 DEF CancelByKeyDone
    <3> QED
      BY <3>1, <3>2, <3>3 DEF Dormant
  <2> QED
    BY <1>10, <2>2, PortAssumption
       DEF CancelByKeyDone, UnlockObject, SnapsOK, Cancelling, Persists,
           KeptWait
<1>11. CASE Queue(t)
  BY <1>11, PortAssumption DEF Queue, SnapsOK, Cancelling, Persists, KeptWait
<1>12. CASE PostCount(t)
  BY <1>12, PortAssumption
     DEF PostCount, CountUp, AfterPost, SnapsOK, Cancelling, Persists,
         KeptWait
<1>13. ASSUME NEW w \in Threads, PostWake(t, w)
       PROVE  SnapsOK'
  <2>1. pc[w] = "blocked" /\ t # w
    BY <1>13 DEF PostWake
  <2>2. /\ pc'[w] = "DequeueInterrupt" /\ pc'[t] = AfterPost(t)
        /\ \A u \in Threads \ {t, w} : pc'[u] = pc[u]
    BY <1>13, <2>1 DEF PostWake
  <2> QED
    BY <1>13, <2>1, <2>2, PortAssumption
       DEF PostWake, AfterPost, SnapsOK, Cancelling, Persists, KeptWait
<1>14. CASE MaybeReap(t)
  BY <1>14, PortAssumption
     DEF MaybeReap, SnapsOK, Cancelling, Persists, KeptWait
<1>15. CASE LockForCancelQueued(t)
  BY <1>15, PortAssumption
     DEF LockForCancelQueued, LockPort, SnapsOK, Cancelling, Persists,
         KeptWait
<1>16. CASE CancelQueued(t)
  BY <1>16, PortAssumption
     DEF CancelQueued, SnapsOK, Cancelling, Persists, KeptWait
<1>17. CASE CancelQueuedDone(t)
  BY <1>17, PortAssumption
     DEF CancelQueuedDone, SnapsOK, Cancelling, Persists, KeptWait
<1>18. CASE Wait(t)
  BY <1>18, PortAssumption
     DEF Wait, UnitAvailable, SnapsOK, Cancelling, Persists, KeptWait
<1>19. CASE DequeueInterrupt(t)
  BY <1>19, PortAssumption
     DEF DequeueInterrupt, SnapsOK, Cancelling, Persists, KeptWait
<1>20. CASE NoInterrupt(t)
  BY <1>20, PortAssumption
     DEF NoInterrupt, SnapsOK, Cancelling, Persists, KeptWait
<1>21. CASE DequeueUserPacket(t)
  BY <1>21, PortAssumption
     DEF DequeueUserPacket, SnapsOK, Cancelling, Persists, KeptWait
<1>22. CASE DequeueSignalPacket(t)
  BY <1>22, PortAssumption
     DEF DequeueSignalPacket, ReadIsEphemeral, SnapsOK, Cancelling, Persists, KeptWait
<1>23. CASE DequeueSpurious(t)
  BY <1>23, PortAssumption
     DEF DequeueSpurious, SnapsOK, Cancelling, Persists, KeptWait
<1>24. CASE QueueUser(t)
  BY <1>24, PortAssumption
     DEF QueueUser, SnapsOK, Cancelling, Persists, KeptWait
<1>25. CASE QueueUserFails(t)
  BY <1>25, PortAssumption
     DEF QueueUserFails, SnapsOK, Cancelling, Persists, KeptWait
<1>26. CASE Free(t)
  BY <1>26, PortAssumption DEF Free, SnapsOK, Cancelling, Persists, KeptWait
<1>27. CASE OnZeroHandles(t)
  BY <1>27, PortAssumption
     DEF OnZeroHandles, LockPort, SnapsOK, Cancelling, Persists, KeptWait
<1>28. CASE Relock(t)
  BY <1>28, PortAssumption
     DEF Relock, LockPort, SnapsOK, Cancelling, Persists, KeptWait
<1>29. CASE ZeroUserPacket(t)
  BY <1>29, PortAssumption
     DEF ZeroUserPacket, DropPortLock, SnapsOK, Cancelling, Persists, KeptWait
<1>30. CASE ZeroSignalPacket(t)
  BY <1>30, PortAssumption
     DEF ZeroSignalPacket, SnapsOK, Cancelling, Persists, KeptWait
<1>31. CASE ZeroObservers(t)
  BY <1>31, PortAssumption
     DEF ZeroObservers, DropPortLock, PacketsDrained, SnapsOK, Cancelling,
         Persists, KeptWait
<1>32. CASE RemoveObserver(t)
  BY <1>32, PortAssumption
     DEF RemoveObserver, Erase, SnapsOK, Cancelling, Persists, KeptWait
<1>33. CASE ZeroDone(t)
  BY <1>33, PortAssumption
     DEF ZeroDone, PacketsDrained, SnapsOK, Cancelling, Persists, KeptWait
<1> HIDE DEF TypeOK, LocalsOK, LocksOK, ListsOK, UsersOK
<1> QED
  BY <1>1, <1>2, <1>3, <1>4, <1>5, <1>6, <1>7, <1>8, <1>9, <1>10, <1>11,
     <1>12, <1>13, <1>14, <1>15, <1>16, <1>17, <1>18, <1>19, <1>20, <1>21,
     <1>22, <1>23, <1>24, <1>25, <1>26, <1>27, <1>28, <1>29, <1>30, <1>31,
     <1>32, <1>33 DEF Step

(* Every step.                                                              *)
LEMMA NextSnaps ==
  ASSUME TypeOK, LocalsOK, LocksOK, ListsOK, UsersOK, GenerationsOK, SnapsOK,
         \A x \in Made : Persists(x),
         [Next]_vars
  PROVE  SnapsOK'
<1>1. CASE UNCHANGED vars
  BY <1>1, PortAssumption DEF vars, SnapsOK, Cancelling, Persists, KeptWait
<1>2. ASSUME NEW t \in Threads, Begin(t) \/ Step(t)
      PROVE  SnapsOK'
  <2> HIDE DEF TypeOK, LocalsOK, LocksOK, ListsOK, UsersOK
  <2> QED
    BY <1>2, BeginSnaps, StepSnaps
<1>3. ASSUME NEW t \in Threads, Timeout(t)
      PROVE  SnapsOK'
  BY <1>3, PortAssumption DEF Timeout, SnapsOK, Cancelling, Persists, KeptWait
<1>4. ASSUME NEW h \in Handles, NEW o \in Objects, MakeHandle(h, o)
      PROVE  SnapsOK'
  BY <1>4, PortAssumption
     DEF MakeHandle, SnapsOK, Cancelling, Persists, KeptWait
<1>5. ASSUME NEW i \in InterruptPackets, RemoveInterruptPacket(i)
      PROVE  SnapsOK'
  BY <1>5, PortAssumption
     DEF RemoveInterruptPacket, SnapsOK, Cancelling, Persists, KeptWait
<1> HIDE DEF TypeOK, LocalsOK, LocksOK, ListsOK, UsersOK
<1> QED
  BY <1>1, <1>2, <1>3, <1>4, <1>5 DEF Next
(* The calls a thread begins.                                               *)
LEMMA BeginCancelled ==
  ASSUME PortInv, TypeOK, LocalsOK, SnapsOK, CancelledOK,
         \A x \in Made : Persists(x),
         NEW t \in Threads, Begin(t)
  PROVE  CancelledOK'
<1>1. ASSUME NEW h \in Handles, NEW k \in Keys, NEW trigger \in SUBSET Signals,
             MakeObserver(t, h, k, trigger)
      PROVE  CancelledOK'
  BY <1>1, PortAssumption
     DEF MakeObserver, CancelledOK, Persists, KeptWait, QueuedObs
<1>2. ASSUME NEW h \in Handles, NEW k \in Keys,
             PortCancel(t, h, k)
      PROVE  CancelledOK'
  BY <1>2, PortAssumption
     DEF PortCancel, CancelledOK, Persists, KeptWait, QueuedObs
<1>3. ASSUME NEW o \in Objects, NEW s \in Signals,
             UpdateState(t, o, {s}, {}) \/ UpdateState(t, o, {}, {s})
      PROVE  CancelledOK'
  <2>1. PICK clear \in SUBSET Signals, set \in SUBSET Signals :
          UpdateState(t, o, clear, set)
    <3> HIDE DEF TypeOK, LocalsOK
    <3> QED
      BY <1>3
  <2> QED
    BY <2>1, PortAssumption
       DEF UpdateState, LockObject, CancelledOK, Persists, KeptWait, QueuedObs
<1>4. ASSUME NEW h \in Handles,
             CloseHandle(t, h)
      PROVE  CancelledOK'
  BY <1>4, PortAssumption
     DEF CloseHandle, TableWritable, TableReaders, CancelledOK, Persists,
         KeptWait, QueuedObs
<1>5. CASE Dequeue(t)
  BY <1>5, PortAssumption
     DEF Dequeue, CancelledOK, Persists, KeptWait, QueuedObs
<1>6. CASE Alloc(t)
  BY <1>6, PortAssumption
     DEF Alloc, CancelledOK, Persists, KeptWait, QueuedObs
<1>7. ASSUME NEW i \in InterruptPackets,
             QueueInterruptPacket(t, i)
      PROVE  CancelledOK'
  BY <1>7, PortAssumption
     DEF QueueInterruptPacket, CancelledOK, Persists, KeptWait, QueuedObs
<1>8. CASE ClosePort(t)
  BY <1>8, PortAssumption
     DEF ClosePort, CancelledOK, Persists, KeptWait, QueuedObs
<1> HIDE DEF TypeOK, LocalsOK
<1> QED
  BY <1>1, <1>2, <1>3, <1>4, <1>5, <1>6, <1>7, <1>8 DEF Begin

(* The steps of a call.                                                     *)
LEMMA StepCancelled ==
  ASSUME PortInv, TypeOK, LocalsOK, SnapsOK, CancelledOK,
         \A x \in Made : Persists(x),
         NEW t \in Threads, Step(t)
  PROVE  CancelledOK'
<1>1. CASE AddObserver(t)
  BY <1>1, PortAssumption
     DEF AddObserver, AlreadyMatched, CancelledOK, Persists, KeptWait,
         QueuedObs
<1>2. CASE AddObserverMatch(t)
  BY <1>2, PortAssumption
     DEF AddObserverMatch, LockObject, CancelledOK, Persists, KeptWait,
         QueuedObs
<1>3. CASE FindSource(t)
  BY <1>3, PortAssumption
     DEF FindSource, CancelledOK, Persists, KeptWait, QueuedObs
<1>4. CASE SourceClosed(t)
  BY <1>4, PortAssumption
     DEF SourceClosed, CancelledOK, Persists, KeptWait, QueuedObs
<1>5. CASE LockForCancel(t)
  BY <1>5, PortAssumption
     DEF LockForCancel, LockObject, CancelledOK, Persists, KeptWait, QueuedObs
<1>6. CASE UpdateStateLocked(t)
  BY <1>6, PortAssumption
     DEF UpdateStateLocked, Callback, Erase, Matching, CancelledOK, Persists,
         KeptWait, QueuedObs
<1>7. CASE Cancel(t)
  BY <1>7, PortAssumption
     DEF Cancel, Callback, Erase, OnHandle, CancelledOK, Persists, KeptWait,
         QueuedObs
<1>8. CASE CancelByKey(t)
  BY <1>8, PortAssumption
     DEF CancelByKey, Callback, Erase, OnHandle, MatchesKey, CancelledOK,
         Persists, KeptWait, QueuedObs
<1>9. CASE CallbacksDone(t)
  BY <1>9, PortAssumption
     DEF CallbacksDone, UnlockObject, CancelledOK, Persists, KeptWait,
         QueuedObs
<1>10. CASE CancelByKeyDone(t)
  BY <1>10, PortAssumption
     DEF CancelByKeyDone, UnlockObject, CancelledOK, Persists, KeptWait,
         QueuedObs
<1>11. CASE Queue(t)
  <2>1. QueuedObs' \subseteq QueuedObs \cup {tObs[t]}
    <3>1. tObs[t] \in Observers
      BY <1>11 DEF Queue
    <3>2. ObserversIn(Append(packets, tObs[t]))
            = ObserversIn(packets) \cup ({tObs[t]} \cap Observers)
      BY <3>1, AppendPacket
    <3> QED
      BY <1>11, <3>2 DEF Queue, QueuedObs
  <2>2. tObs[t] \notin cancelled
    BY <1>11 DEF Queue, CancelledOK, Dormant
  <2> QED
    BY <1>11, <2>1, <2>2 DEF Queue, CancelledOK, Persists, KeptWait
<1>12. CASE PostCount(t)
  BY <1>12, PortAssumption
     DEF PostCount, CountUp, AfterPost, CancelledOK, Persists, KeptWait,
         QueuedObs
<1>13. ASSUME NEW w \in Threads, PostWake(t, w)
       PROVE  CancelledOK'
  BY <1>13, PortAssumption
     DEF PostWake, AfterPost, CancelledOK, Persists, KeptWait, QueuedObs
<1>14. CASE MaybeReap(t)
  BY <1>14, PortAssumption
     DEF MaybeReap, CancelledOK, Persists, KeptWait, QueuedObs
<1>15. CASE LockForCancelQueued(t)
  BY <1>15, PortAssumption
     DEF LockForCancelQueued, LockPort, CancelledOK, Persists, KeptWait,
         QueuedObs
<1>16. CASE CancelQueued(t)
  <2>1. QueuedObs' \subseteq QueuedObs
    <3>1. PICK i \in QueuedMatches(t) : packets' = RemoveAt(packets, i)
      BY <1>16 DEF CancelQueued
    <3>2. i \in DOMAIN packets /\ packets[i] \in Observers
      BY DEF QueuedMatches, PacketMatches
    <3>3. packets \in Seq(Observers \cup UserPackets) /\ Distinct(packets)
      BY DEF PortInv
    <3>4. ObserversIn(RemoveAt(packets, i)) = ObserversIn(packets) \ {packets[i]}
      BY <3>2, <3>3, TakeAt
    <3> QED
      BY <3>1, <3>4 DEF QueuedObs
  <2> QED
    BY <1>16, <2>1 DEF CancelQueued, CancelledOK, Persists, KeptWait
<1>17. CASE CancelQueuedDone(t)
  <2>1. \A x \in tSnap[t] : x \in Made /\ Dormant(x) /\ x \notin QueuedObs
    <3> SUFFICES ASSUME NEW x \in tSnap[t]
                 PROVE  x \in Made /\ Dormant(x) /\ x \notin QueuedObs
      OBVIOUS
    <3>1. /\ x \in Made /\ Dormant(x)
          /\ wait[x].handle = tHandle[t] /\ wait[x].key = tKey[t]
      BY <1>17 DEF CancelQueuedDone, SnapsOK
    <3>2. \A i \in DOMAIN packets : packets[i] # x
      BY <1>17, <3>1 DEF CancelQueuedDone, QueuedMatches, PacketMatches
    <3> QED
      BY <3>1, <3>2 DEF QueuedObs, ObserversIn
  <2>2. QueuedObs' = QueuedObs
    BY <1>17 DEF CancelQueuedDone, QueuedObs
  <2>3. cancelled' = cancelled \cup tSnap[t]
    BY <1>17 DEF CancelQueuedDone
  <2> QED
    BY <2>1, <2>2, <2>3 DEF CancelledOK, Persists, KeptWait
<1>18. CASE Wait(t)
  BY <1>18, PortAssumption
     DEF Wait, UnitAvailable, CancelledOK, Persists, KeptWait, QueuedObs
<1>19. CASE DequeueInterrupt(t)
  BY <1>19, PortAssumption
     DEF DequeueInterrupt, CancelledOK, Persists, KeptWait, QueuedObs
<1>20. CASE NoInterrupt(t)
  BY <1>20, PortAssumption
     DEF NoInterrupt, CancelledOK, Persists, KeptWait, QueuedObs
<1>21. CASE DequeueUserPacket(t)
  <2>1. QueuedObs' \subseteq QueuedObs
    BY <1>21, HeadTaken DEF DequeueUserPacket
  <2> QED
    BY <1>21, <2>1 DEF DequeueUserPacket, CancelledOK, Persists, KeptWait
<1>22. CASE DequeueSignalPacket(t)
  <2>1. QueuedObs' \subseteq QueuedObs
    BY <1>22, HeadTaken DEF DequeueSignalPacket, ReadIsEphemeral
  <2> QED
    BY <1>22, <2>1 DEF DequeueSignalPacket, ReadIsEphemeral, CancelledOK, Persists, KeptWait
<1>23. CASE DequeueSpurious(t)
  BY <1>23, PortAssumption
     DEF DequeueSpurious, CancelledOK, Persists, KeptWait, QueuedObs
<1>24. CASE QueueUser(t)
  <2>1. QueuedObs' \subseteq QueuedObs
    <3>1. tPkt[t] \in UserPackets /\ tPkt[t] \notin Observers
      BY <1>24, PortAssumption DEF QueueUser
    <3>2. ObserversIn(Append(packets, tPkt[t]))
            = ObserversIn(packets) \cup ({tPkt[t]} \cap Observers)
      BY <3>1, AppendPacket
    <3> QED
      BY <1>24, <3>1, <3>2 DEF QueueUser, QueuedObs
  <2> QED
    BY <1>24, <2>1 DEF QueueUser, CancelledOK, Persists, KeptWait
<1>25. CASE QueueUserFails(t)
  BY <1>25, PortAssumption
     DEF QueueUserFails, CancelledOK, Persists, KeptWait, QueuedObs
<1>26. CASE Free(t)
  BY <1>26, PortAssumption
     DEF Free, CancelledOK, Persists, KeptWait, QueuedObs
<1>27. CASE OnZeroHandles(t)
  BY <1>27, PortAssumption
     DEF OnZeroHandles, LockPort, CancelledOK, Persists, KeptWait, QueuedObs
<1>28. CASE Relock(t)
  BY <1>28, PortAssumption
     DEF Relock, LockPort, CancelledOK, Persists, KeptWait, QueuedObs
<1>29. CASE ZeroUserPacket(t)
  <2>1. QueuedObs' \subseteq QueuedObs
    BY <1>29, HeadTaken DEF ZeroUserPacket
  <2> QED
    BY <1>29, <2>1 DEF ZeroUserPacket, CancelledOK, Persists, KeptWait
<1>30. CASE ZeroSignalPacket(t)
  <2>1. QueuedObs' \subseteq QueuedObs
    BY <1>30, HeadTaken DEF ZeroSignalPacket
  <2> QED
    BY <1>30, <2>1 DEF ZeroSignalPacket, CancelledOK, Persists, KeptWait
<1>31. CASE ZeroObservers(t)
  BY <1>31, PortAssumption
     DEF ZeroObservers, DropPortLock, PacketsDrained, CancelledOK, Persists,
         KeptWait, QueuedObs
<1>32. CASE RemoveObserver(t)
  BY <1>32, PortAssumption
     DEF RemoveObserver, Erase, CancelledOK, Persists, KeptWait, QueuedObs
<1>33. CASE ZeroDone(t)
  BY <1>33, PortAssumption
     DEF ZeroDone, PacketsDrained, CancelledOK, Persists, KeptWait, QueuedObs
<1> HIDE DEF TypeOK, LocalsOK
<1> QED
  BY <1>1, <1>2, <1>3, <1>4, <1>5, <1>6, <1>7, <1>8, <1>9, <1>10, <1>11,
     <1>12, <1>13, <1>14, <1>15, <1>16, <1>17, <1>18, <1>19, <1>20, <1>21,
     <1>22, <1>23, <1>24, <1>25, <1>26, <1>27, <1>28, <1>29, <1>30, <1>31,
     <1>32, <1>33 DEF Step

(* Every step.                                                              *)
LEMMA NextCancelled ==
  ASSUME PortInv, TypeOK, LocalsOK, SnapsOK, CancelledOK,
         \A x \in Made : Persists(x),
         [Next]_vars
  PROVE  CancelledOK'
<1>1. CASE UNCHANGED vars
  BY <1>1, PortAssumption DEF vars, CancelledOK, Persists, KeptWait, QueuedObs
<1>2. ASSUME NEW t \in Threads, Begin(t) \/ Step(t)
      PROVE  CancelledOK'
  <2> HIDE DEF TypeOK, LocalsOK
  <2> QED
    BY <1>2, BeginCancelled, StepCancelled
<1>3. ASSUME NEW t \in Threads, Timeout(t)
      PROVE  CancelledOK'
  BY <1>3, PortAssumption
     DEF Timeout, CancelledOK, Persists, KeptWait, QueuedObs
<1>4. ASSUME NEW h \in Handles, NEW o \in Objects, MakeHandle(h, o)
      PROVE  CancelledOK'
  BY <1>4, PortAssumption
     DEF MakeHandle, CancelledOK, Persists, KeptWait, QueuedObs
<1>5. ASSUME NEW i \in InterruptPackets, RemoveInterruptPacket(i)
      PROVE  CancelledOK'
  BY <1>5, PortAssumption
     DEF RemoveInterruptPacket, CancelledOK, Persists, KeptWait, QueuedObs
<1> HIDE DEF TypeOK, LocalsOK
<1> QED
  BY <1>1, <1>2, <1>3, <1>4, <1>5 DEF Next

(* A step keeps the cancellation invariant.                                 *)
LEMMA NextCancels ==
  ASSUME CancelInv, [Next]_vars
  PROVE  (GenerationsOK /\ SnapsOK /\ CancelledOK)'
<1>1. /\ TypeOK /\ LocalsOK /\ LocksOK /\ ListsOK /\ UsersOK
      /\ PortInv /\ GenerationsOK /\ SnapsOK /\ CancelledOK
  BY DEF CancelInv, PortInv
<1> HIDE DEF TypeOK, LocalsOK, LocksOK, ListsOK, UsersOK, Made
<1>2. \A x \in Made : Persists(x)
  BY <1>1, NextKeepsWait, NextKeepsDormant DEF Persists
<1> QED
  BY <1>1, <1>2, NextGenerations, NextSnaps, NextCancelled

(* The cancellation invariant holds throughout.                             *)
THEOREM CancelInvariant == Spec => []CancelInv
<1>1. Init => GenerationsOK /\ SnapsOK /\ CancelledOK
  BY DEF Init, GenerationsOK, SnapsOK, CancelledOK
<1>2. CancelInv /\ [Next]_vars => (GenerationsOK /\ SnapsOK /\ CancelledOK)'
  BY NextCancels
<1>3. PortInv /\ GenerationsOK /\ SnapsOK /\ CancelledOK <=> CancelInv
  BY DEF CancelInv
<1> HIDE DEF PortInv, CancelInv, GenerationsOK, SnapsOK, CancelledOK,
             Init, Next, vars
<1> QED
  BY <1>1, <1>2, <1>3, InductiveInvariant, PTL DEF Spec

(* Once zx_port_cancel has returned, the waits that were registered with    *)
(* the handle and key when it began are over, although it searches the      *)
(* object's list and the port's queue under different locks, with matches   *)
(* made in between (dispatcher.cc:165-190, port_dispatcher.cc:414-455).     *)
THEOREM CancelIsFinalHolds == Spec => []CancelIsFinal
<1>1. CancelInv => CancelIsFinal
  <2> SUFFICES ASSUME CancelInv, NEW x \in cancelled
               PROVE  /\ ~Queued(x)
                      /\ x \notin observers[wait[x].obj]
                      /\ \A t \in Threads : pc[t] = "Queue" => tObs[t] # x
    BY DEF CancelIsFinal
  <2>1. x \in Made /\ Dormant(x) /\ x \notin QueuedObs
    BY DEF CancelInv, CancelledOK
  <2>2. wait[x].obj \in Objects
    BY <2>1 DEF CancelInv, PortInv, WaitArgs
  <2>3. ~Queued(x)
    BY <2>1 DEF Queued, QueuedObs, ObserversIn
  <2> QED
    BY <2>1, <2>2, <2>3 DEF Dormant
<1> HIDE DEF CancelInv
<1> QED
  BY <1>1, CancelInvariant, PTL
-----------------------------------------------------------------------------
(* The units of the semaphore: UnitInv.                                     *)

(* One unit for a label of TokenHolders, or of EarlyHolders.                *)
Unit(label) ==
  IF label \in {"Post", "DequeueInterrupt", "DequeuePacket"} THEN 1 ELSE 0

EarlyUnit(label) == IF label \in {"Post", "DequeueInterrupt"} THEN 1 ELSE 0

(* Sets that differ in one element at most.                                 *)
LEMMA OneMember ==
  ASSUME NEW S, NEW T, NEW t, IsFiniteSet(S), S \ {t} = T \ {t}
  PROVE  /\ IsFiniteSet(T) /\ Cardinality(S) \in Nat /\ Cardinality(T) \in Nat
         /\ Cardinality(T) = Cardinality(S) + (IF t \in T THEN 1 ELSE 0)
                                            - (IF t \in S THEN 1 ELSE 0)
<1>1. IsFiniteSet(S \ {t}) /\ Cardinality(S \ {t}) \in Nat
  BY FS_RemoveElement, FS_CardinalityType
<1>2. Cardinality(S) = Cardinality(S \ {t}) + (IF t \in S THEN 1 ELSE 0)
  <2>1. CASE t \in S
    BY <2>1, <1>1, FS_RemoveElement, FS_CardinalityType
  <2>2. CASE t \notin S
    <3>1. S \ {t} = S
      BY <2>2
    <3>2. Cardinality(S \ {t}) = Cardinality(S)
      BY <3>1
    <3> QED
      BY <2>2, <3>2, <1>1
  <2> QED
    BY <2>1, <2>2
<1>3. /\ IsFiniteSet(T)
      /\ Cardinality(T) = Cardinality(S \ {t}) + (IF t \in T THEN 1 ELSE 0)
  <2>1. CASE t \in T
    <3>1. T = (S \ {t}) \cup {t}
      BY <2>1
    <3> QED
      BY <2>1, <3>1, <1>1, FS_AddElement
  <2>2. CASE t \notin T
    <3>1. T = S \ {t}
      BY <2>2
    <3>2. Cardinality(T) = Cardinality(S \ {t})
      BY <3>1
    <3> QED
      BY <2>2, <3>1, <3>2, <1>1
  <2> QED
    BY <2>1, <2>2
<1> QED
  BY <1>1, <1>2, <1>3

(* What the step of one thread does to the number of units in hand.         *)
Moved(t) ==
  (\A u \in Threads \ {t} : pc'[u] = pc[u]) =>
    /\ Cardinality(TokenHolders')
         = Cardinality(TokenHolders) + Unit(pc'[t]) - Unit(pc[t])
    /\ Cardinality(EarlyHolders')
         = Cardinality(EarlyHolders) + EarlyUnit(pc'[t]) - EarlyUnit(pc[t])

(* The numbers of units before and after a step.                            *)
HoldersCounted ==
  /\ Cardinality(TokenHolders) \in Nat /\ Cardinality(EarlyHolders) \in Nat
  /\ Cardinality(TokenHolders') \in Nat /\ Cardinality(EarlyHolders') \in Nat
  /\ Cardinality(EarlyHolders') <= Cardinality(TokenHolders')

(* Both counts follow the label of the thread that moved.                   *)
LEMMA CountHolders == HoldersCounted /\ \A t \in Threads : Moved(t)
<1>1. /\ IsFiniteSet(TokenHolders) /\ IsFiniteSet(EarlyHolders)
      /\ IsFiniteSet(TokenHolders') /\ IsFiniteSet(EarlyHolders')
      /\ EarlyHolders' \subseteq TokenHolders'
  BY PortAssumption, FS_Subset DEF TokenHolders, EarlyHolders
<1>2. HoldersCounted
  BY <1>1, FS_Subset, FS_CardinalityType DEF HoldersCounted
<1>3. ASSUME NEW t \in Threads, \A u \in Threads \ {t} : pc'[u] = pc[u]
      PROVE  /\ Cardinality(TokenHolders')
                  = Cardinality(TokenHolders) + Unit(pc'[t]) - Unit(pc[t])
             /\ Cardinality(EarlyHolders')
                  = Cardinality(EarlyHolders) + EarlyUnit(pc'[t]) - EarlyUnit(pc[t])
  <2>1. /\ TokenHolders \ {t} = TokenHolders' \ {t}
        /\ EarlyHolders \ {t} = EarlyHolders' \ {t}
    BY <1>3 DEF TokenHolders, EarlyHolders
  <2>2. /\ Unit(pc[t]) = IF t \in TokenHolders THEN 1 ELSE 0
        /\ Unit(pc'[t]) = IF t \in TokenHolders' THEN 1 ELSE 0
        /\ EarlyUnit(pc[t]) = IF t \in EarlyHolders THEN 1 ELSE 0
        /\ EarlyUnit(pc'[t]) = IF t \in EarlyHolders' THEN 1 ELSE 0
    BY DEF TokenHolders, EarlyHolders, Unit, EarlyUnit
  <2> QED
    BY <1>1, <2>1, <2>2, OneMember
<1> QED
  BY <1>2, <1>3 DEF Moved

(* One element taken out and another put in.                                *)
LEMMA Swapped ==
  ASSUME NEW S, NEW t, NEW w, IsFiniteSet(S), t \in S, w \notin S
  PROVE  Cardinality((S \ {t}) \cup {w}) = Cardinality(S)
<1>1. /\ IsFiniteSet(S \ {t}) /\ Cardinality(S \ {t}) = Cardinality(S) - 1
      /\ Cardinality(S) \in Nat
  BY FS_RemoveElement, FS_CardinalityType
<1>2. Cardinality((S \ {t}) \cup {w}) = Cardinality(S \ {t}) + 1
  BY <1>1, FS_AddElement
<1> QED
  BY <1>1, <1>2

(* A step of t after which the units still cover the packets: what it adds  *)
(* to the queues it adds to the units.                                      *)
Balanced(t) ==
  /\ \A u \in Threads \ {t} : pc'[u] = pc[u]
  /\ semaCount' \in Nat /\ Len(packets') \in Nat /\ Len(interruptQueue') \in Nat
  /\ semaCount' + Unit(pc'[t]) - Unit(pc[t]) - Len(packets') - Len(interruptQueue')
       >= semaCount - Len(packets) - Len(interruptQueue)
  /\ semaCount' + EarlyUnit(pc'[t]) - EarlyUnit(pc[t]) - Len(interruptQueue')
       >= semaCount - Len(interruptQueue)
  /\ ~BindToInterrupt => interruptQueue' = <<>>
  /\ semaWaitq' # {} => semaCount' = 0

(* A balanced step keeps the invariant.                                     *)
LEMMA BalancedSteps ==
  ASSUME TypeOK, UnitsOK, NoLostWakeup, NEW t \in Threads, Balanced(t)
  PROVE  (UnitsOK /\ NoLostWakeup)'
<1>1. Moved(t) /\ HoldersCounted
  BY CountHolders
<1>2. PICK n \in Nat, m \in Nat, e \in Nat, f \in Nat :
        /\ n = Cardinality(TokenHolders) /\ m = Cardinality(TokenHolders')
        /\ e = Cardinality(EarlyHolders) /\ f = Cardinality(EarlyHolders')
  BY <1>1 DEF HoldersCounted
<1>3. PICK u \in Nat, v \in Nat, y \in Nat, z \in Nat :
        /\ u = Unit(pc[t]) /\ v = Unit(pc'[t])
        /\ y = EarlyUnit(pc[t]) /\ z = EarlyUnit(pc'[t])
  BY DEF Unit, EarlyUnit
<1>4. PICK p \in Nat, q \in Nat, i \in Nat, j \in Nat, c \in Nat, d \in Nat :
        /\ p = Len(packets) /\ q = Len(packets')
        /\ i = Len(interruptQueue) /\ j = Len(interruptQueue')
        /\ c = semaCount /\ d = semaCount'
  BY DEF Balanced
<1>5. m = n + v - u /\ f = e + z - y
  BY <1>1, <1>2, <1>3 DEF Moved, Balanced
<1>6. c + n >= p + i /\ c + e >= i
  BY <1>2, <1>4 DEF UnitsOK, NoLostWakeup
<1>7. d + v - u - q - j >= c - p - i /\ d + z - y - j >= c - i
  BY <1>3, <1>4 DEF Balanced
<1> HIDE DEF TypeOK
<1>8. d + m >= q + j /\ d + f >= j
  BY <1>5, <1>6, <1>7
<1>9. /\ ~BindToInterrupt => interruptQueue' = <<>>
      /\ semaWaitq' # {} => semaCount' = 0
  BY DEF Balanced
<1> QED
  BY <1>2, <1>4, <1>8, <1>9 DEF UnitsOK, NoLostWakeup

(* The calls a thread begins.                                               *)
LEMMA BeginUnits ==
  ASSUME TypeOK, LocalsOK, UnitsOK, NoLostWakeup,
         NEW t \in Threads, Begin(t)
  PROVE  (UnitsOK /\ NoLostWakeup)'
<1>1. ASSUME NEW h \in Handles, NEW k \in Keys, NEW trigger \in SUBSET Signals,
             MakeObserver(t, h, k, trigger)
      PROVE  (UnitsOK /\ NoLostWakeup)'
  <2>1. Balanced(t)
    BY <1>1, PortAssumption
       DEF MakeObserver, UnitsOK, NoLostWakeup, Balanced, Unit,
           EarlyUnit
  <2> QED
    BY <2>1, BalancedSteps
<1>2. ASSUME NEW h \in Handles, NEW k \in Keys,
             PortCancel(t, h, k)
      PROVE  (UnitsOK /\ NoLostWakeup)'
  <2>1. Balanced(t)
    BY <1>2, PortAssumption
       DEF PortCancel, UnitsOK, NoLostWakeup, Balanced, Unit,
           EarlyUnit
  <2> QED
    BY <2>1, BalancedSteps
<1>3. ASSUME NEW o \in Objects, NEW s \in Signals,
             UpdateState(t, o, {s}, {}) \/ UpdateState(t, o, {}, {s})
      PROVE  (UnitsOK /\ NoLostWakeup)'
  <2>1. Balanced(t)
    BY <1>3 DEF UpdateState, NoLostWakeup, UnitsOK, Balanced, Unit, EarlyUnit
  <2> QED
    BY <2>1, BalancedSteps
<1>4. ASSUME NEW h \in Handles,
             CloseHandle(t, h)
      PROVE  (UnitsOK /\ NoLostWakeup)'
  <2>1. Balanced(t)
    BY <1>4, PortAssumption
       DEF CloseHandle, TableWritable, TableReaders, UnitsOK, NoLostWakeup, Balanced, Unit,
           EarlyUnit
  <2> QED
    BY <2>1, BalancedSteps
<1>5. CASE Dequeue(t)
  <2>1. Balanced(t)
    BY <1>5, PortAssumption
       DEF Dequeue, UnitsOK, NoLostWakeup, Balanced, Unit,
           EarlyUnit
  <2> QED
    BY <2>1, BalancedSteps
<1>6. CASE Alloc(t)
  <2>1. Balanced(t)
    BY <1>6, PortAssumption
       DEF Alloc, UnitsOK, NoLostWakeup, Balanced, Unit,
           EarlyUnit
  <2> QED
    BY <2>1, BalancedSteps
<1>7. ASSUME NEW i \in InterruptPackets,
             QueueInterruptPacket(t, i)
      PROVE  (UnitsOK /\ NoLostWakeup)'
  <2>1. Balanced(t)
    BY <1>7, PortAssumption
       DEF QueueInterruptPacket, UnitsOK, NoLostWakeup, Balanced, Unit,
           EarlyUnit
  <2> QED
    BY <2>1, BalancedSteps
<1>8. CASE ClosePort(t)
  <2>1. Balanced(t)
    BY <1>8, PortAssumption
       DEF ClosePort, UnitsOK, NoLostWakeup, Balanced, Unit,
           EarlyUnit
  <2> QED
    BY <2>1, BalancedSteps
<1> HIDE DEF TypeOK, LocalsOK
<1> QED
  BY <1>1, <1>2, <1>3, <1>4, <1>5, <1>6, <1>7, <1>8 DEF Begin

(* The steps of a call.                                                     *)
LEMMA StepUnits ==
  ASSUME TypeOK, LocalsOK, UnitsOK, NoLostWakeup,
         NEW t \in Threads, Step(t)
  PROVE  (UnitsOK /\ NoLostWakeup)'
<1>1. CASE AddObserver(t)
  <2>1. Balanced(t)
    BY <1>1, PortAssumption
       DEF AddObserver, AlreadyMatched, UnitsOK, NoLostWakeup, Balanced, Unit,
           EarlyUnit
  <2> QED
    BY <2>1, BalancedSteps
<1>2. CASE AddObserverMatch(t)
  <2>1. Balanced(t)
    BY <1>2, PortAssumption
       DEF AddObserverMatch, LockObject, UnitsOK, NoLostWakeup, Balanced, Unit,
           EarlyUnit
  <2> QED
    BY <2>1, BalancedSteps
<1>3. CASE FindSource(t)
  <2>1. Balanced(t)
    BY <1>3, PortAssumption
       DEF FindSource, UnitsOK, NoLostWakeup, Balanced, Unit,
           EarlyUnit
  <2> QED
    BY <2>1, BalancedSteps
<1>4. CASE SourceClosed(t)
  <2>1. Balanced(t)
    BY <1>4, PortAssumption
       DEF SourceClosed, UnitsOK, NoLostWakeup, Balanced, Unit,
           EarlyUnit
  <2> QED
    BY <2>1, BalancedSteps
<1>5. CASE LockForCancel(t)
  <2>1. Balanced(t)
    BY <1>5, PortAssumption
       DEF LockForCancel, LockObject, UnitsOK, NoLostWakeup, Balanced, Unit,
           EarlyUnit
  <2> QED
    BY <2>1, BalancedSteps
<1>6. CASE UpdateStateLocked(t)
  <2>1. Balanced(t)
    BY <1>6, PortAssumption
       DEF UpdateStateLocked, Callback, Erase, Matching, UnitsOK, NoLostWakeup, Balanced, Unit,
           EarlyUnit
  <2> QED
    BY <2>1, BalancedSteps
<1>7. CASE Cancel(t)
  <2>1. Balanced(t)
    BY <1>7, PortAssumption
       DEF Cancel, Callback, Erase, OnHandle, UnitsOK, NoLostWakeup, Balanced, Unit,
           EarlyUnit
  <2> QED
    BY <2>1, BalancedSteps
<1>8. CASE CancelByKey(t)
  <2>1. Balanced(t)
    BY <1>8, PortAssumption
       DEF CancelByKey, Callback, Erase, OnHandle, MatchesKey, UnitsOK, NoLostWakeup, Balanced, Unit,
           EarlyUnit
  <2> QED
    BY <2>1, BalancedSteps
<1>9. CASE CallbacksDone(t)
  <2>1. Balanced(t)
    BY <1>9, PortAssumption
       DEF CallbacksDone, UnlockObject, UnitsOK, NoLostWakeup, Balanced, Unit,
           EarlyUnit
  <2> QED
    BY <2>1, BalancedSteps
<1>10. CASE CancelByKeyDone(t)
  <2>1. Balanced(t)
    BY <1>10, PortAssumption
       DEF CancelByKeyDone, UnlockObject, UnitsOK, NoLostWakeup, Balanced, Unit,
           EarlyUnit
  <2> QED
    BY <2>1, BalancedSteps
<1>11. CASE Queue(t)
  <2>1. Balanced(t)
    BY <1>11, PortAssumption
       DEF Queue, UnitsOK, NoLostWakeup, Balanced, Unit,
           EarlyUnit
  <2> QED
    BY <2>1, BalancedSteps
<1>12. CASE PostCount(t)
  <2>1. Balanced(t)
    BY <1>12, PortAssumption
       DEF PostCount, CountUp, AfterPost, UnitsOK, NoLostWakeup, Balanced, Unit,
           EarlyUnit
  <2> QED
    BY <2>1, BalancedSteps
<1>13. ASSUME NEW w \in Threads, PostWake(t, w)
       PROVE  (UnitsOK /\ NoLostWakeup)'
  <2>1. pc[w] = "blocked" /\ t # w /\ pc[t] = "Post"
    BY <1>13 DEF PostWake
  <2>2. /\ pc'[w] = "DequeueInterrupt"
        /\ pc'[t] \notin {"Post", "DequeueInterrupt", "DequeuePacket"}
        /\ \A u \in Threads \ {t, w} : pc'[u] = pc[u]
    BY <1>13, <2>1 DEF PostWake, AfterPost
  <2>3. /\ TokenHolders' = (TokenHolders \ {t}) \cup {w}
        /\ EarlyHolders' = (EarlyHolders \ {t}) \cup {w}
        /\ t \in TokenHolders /\ w \notin TokenHolders
        /\ t \in EarlyHolders /\ w \notin EarlyHolders
    BY <2>1, <2>2 DEF TokenHolders, EarlyHolders
  <2>4. IsFiniteSet(TokenHolders) /\ IsFiniteSet(EarlyHolders)
    BY PortAssumption, FS_Subset DEF TokenHolders, EarlyHolders
  <2>5. /\ Cardinality(TokenHolders') = Cardinality(TokenHolders)
        /\ Cardinality(EarlyHolders') = Cardinality(EarlyHolders)
    <3> HIDE DEF TypeOK, LocalsOK
    <3> QED
      BY <2>3, <2>4, Swapped
  <2> QED
    BY <1>13, <2>5 DEF PostWake, UnitsOK, NoLostWakeup
<1>14. CASE MaybeReap(t)
  <2>1. Balanced(t)
    BY <1>14, PortAssumption
       DEF MaybeReap, UnitsOK, NoLostWakeup, Balanced, Unit,
           EarlyUnit
  <2> QED
    BY <2>1, BalancedSteps
<1>15. CASE LockForCancelQueued(t)
  <2>1. Balanced(t)
    BY <1>15, PortAssumption
       DEF LockForCancelQueued, LockPort, UnitsOK, NoLostWakeup, Balanced, Unit,
           EarlyUnit
  <2> QED
    BY <2>1, BalancedSteps
<1>16. CASE CancelQueued(t)
  <2>1. PICK i \in DOMAIN packets : packets' = RemoveAt(packets, i)
    BY <1>16 DEF CancelQueued, QueuedMatches
  <2> i \in 1 .. Len(packets)
    OBVIOUS
  <2>2. /\ Len(packets') = Len(packets) - 1
        /\ packets' \in Seq(Observers \cup UserPackets)
    BY <2>1, RemoveAtProperties
  <2>3. Balanced(t)
    BY <1>16, <2>2 DEF CancelQueued, NoLostWakeup, UnitsOK, Balanced, Unit, EarlyUnit
  <2> QED
    BY <2>3, BalancedSteps
<1>17. CASE CancelQueuedDone(t)
  <2>1. Balanced(t)
    BY <1>17, PortAssumption
       DEF CancelQueuedDone, UnitsOK, NoLostWakeup, Balanced, Unit,
           EarlyUnit
  <2> QED
    BY <2>1, BalancedSteps
<1>18. CASE Wait(t)
  <2>1. Balanced(t)
    BY <1>18, PortAssumption
       DEF Wait, UnitAvailable, UnitsOK, NoLostWakeup, Balanced, Unit,
           EarlyUnit
  <2> QED
    BY <2>1, BalancedSteps
<1>19. CASE DequeueInterrupt(t)
  <2>1. Balanced(t)
    BY <1>19, HeadTailProperties
       DEF DequeueInterrupt, UnitsOK, NoLostWakeup, Balanced, Unit,
           EarlyUnit
  <2> QED
    BY <2>1, BalancedSteps
<1>20. CASE NoInterrupt(t)
  <2>1. /\ pc[t] = "DequeueInterrupt" /\ pc'[t] = "DequeuePacket"
        /\ \A u \in Threads \ {t} : pc'[u] = pc[u]
        /\ interruptQueue = <<>> /\ UNCHANGED <<packets, interruptQueue, semaVars>>
    BY <1>20 DEF NoInterrupt, UnitsOK
  <2>2. /\ TokenHolders' = TokenHolders
        /\ Cardinality(EarlyHolders') \in Nat
    BY <2>1, CountHolders DEF HoldersCounted, TokenHolders
  <2>3. Len(interruptQueue) = 0 /\ semaCount \in Nat
    BY <2>1
  <2> QED
    BY <2>1, <2>2, <2>3 DEF UnitsOK, NoLostWakeup
<1>21. CASE DequeueUserPacket(t)
  <2>1. Balanced(t)
    BY <1>21, HeadTailProperties
       DEF DequeueUserPacket, UnitsOK, NoLostWakeup, Balanced, Unit,
           EarlyUnit
  <2> QED
    BY <2>1, BalancedSteps
<1>22. CASE DequeueSignalPacket(t)
  <2>1. Balanced(t)
    BY <1>22, HeadTailProperties
       DEF DequeueSignalPacket, ReadIsEphemeral, UnitsOK, NoLostWakeup, Balanced, Unit,
           EarlyUnit
  <2> QED
    BY <2>1, BalancedSteps
<1>23. CASE DequeueSpurious(t)
  <2>1. /\ pc[t] = "DequeuePacket" /\ pc'[t] = "Wait"
        /\ \A u \in Threads \ {t} : pc'[u] = pc[u]
        /\ packets = <<>> /\ UNCHANGED <<packets, interruptQueue, semaVars>>
    BY <1>23 DEF DequeueSpurious
  <2>2. /\ EarlyHolders' = EarlyHolders
        /\ Cardinality(EarlyHolders') <= Cardinality(TokenHolders')
        /\ Cardinality(EarlyHolders') \in Nat /\ Cardinality(TokenHolders') \in Nat
    BY <2>1, CountHolders DEF HoldersCounted, EarlyHolders
  <2>3. Len(packets) = 0 /\ Len(interruptQueue) \in Nat /\ semaCount \in Nat
    BY <2>1
  <2> QED
    BY <2>1, <2>2, <2>3 DEF UnitsOK, NoLostWakeup
<1>24. CASE QueueUser(t)
  <2>1. Balanced(t)
    BY <1>24, PortAssumption
       DEF QueueUser, UnitsOK, NoLostWakeup, Balanced, Unit,
           EarlyUnit
  <2> QED
    BY <2>1, BalancedSteps
<1>25. CASE QueueUserFails(t)
  <2>1. Balanced(t)
    BY <1>25, PortAssumption
       DEF QueueUserFails, UnitsOK, NoLostWakeup, Balanced, Unit,
           EarlyUnit
  <2> QED
    BY <2>1, BalancedSteps
<1>26. CASE Free(t)
  <2>1. Balanced(t)
    BY <1>26, PortAssumption
       DEF Free, UnitsOK, NoLostWakeup, Balanced, Unit,
           EarlyUnit
  <2> QED
    BY <2>1, BalancedSteps
<1>27. CASE OnZeroHandles(t)
  <2>1. Balanced(t)
    BY <1>27, PortAssumption
       DEF OnZeroHandles, LockPort, UnitsOK, NoLostWakeup, Balanced, Unit,
           EarlyUnit
  <2> QED
    BY <2>1, BalancedSteps
<1>28. CASE Relock(t)
  <2>1. Balanced(t)
    BY <1>28, PortAssumption
       DEF Relock, LockPort, UnitsOK, NoLostWakeup, Balanced, Unit,
           EarlyUnit
  <2> QED
    BY <2>1, BalancedSteps
<1>29. CASE ZeroUserPacket(t)
  <2>1. Balanced(t)
    BY <1>29, HeadTailProperties
       DEF ZeroUserPacket, DropPortLock, UnitsOK, NoLostWakeup, Balanced, Unit,
           EarlyUnit
  <2> QED
    BY <2>1, BalancedSteps
<1>30. CASE ZeroSignalPacket(t)
  <2>1. Balanced(t)
    BY <1>30, HeadTailProperties
       DEF ZeroSignalPacket, UnitsOK, NoLostWakeup, Balanced, Unit,
           EarlyUnit
  <2> QED
    BY <2>1, BalancedSteps
<1>31. CASE ZeroObservers(t)
  <2>1. Balanced(t)
    BY <1>31, PortAssumption
       DEF ZeroObservers, DropPortLock, PacketsDrained, UnitsOK, NoLostWakeup, Balanced, Unit,
           EarlyUnit
  <2> QED
    BY <2>1, BalancedSteps
<1>32. CASE RemoveObserver(t)
  <2>1. Balanced(t)
    BY <1>32, PortAssumption
       DEF RemoveObserver, Erase, UnitsOK, NoLostWakeup, Balanced, Unit,
           EarlyUnit
  <2> QED
    BY <2>1, BalancedSteps
<1>33. CASE ZeroDone(t)
  <2>1. Balanced(t)
    BY <1>33, PortAssumption
       DEF ZeroDone, PacketsDrained, UnitsOK, NoLostWakeup, Balanced, Unit,
           EarlyUnit
  <2> QED
    BY <2>1, BalancedSteps
<1> HIDE DEF TypeOK, LocalsOK
<1> QED
  BY <1>1, <1>2, <1>3, <1>4, <1>5, <1>6, <1>7, <1>8, <1>9, <1>10, <1>11,
     <1>12, <1>13, <1>14, <1>15, <1>16, <1>17, <1>18, <1>19, <1>20, <1>21,
     <1>22, <1>23, <1>24, <1>25, <1>26, <1>27, <1>28, <1>29, <1>30, <1>31,
     <1>32, <1>33 DEF Step

(* Every step.                                                              *)
LEMMA NextUnits ==
  ASSUME TypeOK, LocalsOK, UnitsOK, NoLostWakeup,
         [Next]_vars
  PROVE  (UnitsOK /\ NoLostWakeup)'
<1>1. CASE UNCHANGED vars
  <2>1. TokenHolders' = TokenHolders /\ EarlyHolders' = EarlyHolders
    BY <1>1 DEF vars, TokenHolders, EarlyHolders
  <2> QED
    BY <1>1, <2>1 DEF vars, UnitsOK, NoLostWakeup
<1>2. ASSUME NEW t \in Threads, Begin(t) \/ Step(t)
      PROVE  (UnitsOK /\ NoLostWakeup)'
  <2> HIDE DEF TypeOK, LocalsOK
  <2> QED
    BY <1>2, BeginUnits, StepUnits
<1>3. ASSUME NEW t \in Threads, Timeout(t)
      PROVE  (UnitsOK /\ NoLostWakeup)'
  <2>1. Balanced(t)
    BY <1>3 DEF Timeout, NoLostWakeup, UnitsOK, Balanced, Unit, EarlyUnit
  <2> QED
    BY <2>1, BalancedSteps
<1>4. ASSUME NEW h \in Handles, NEW o \in Objects, MakeHandle(h, o)
      PROVE  (UnitsOK /\ NoLostWakeup)'
  <2>1. TokenHolders' = TokenHolders /\ EarlyHolders' = EarlyHolders
    BY <1>4 DEF MakeHandle, TokenHolders, EarlyHolders
  <2> QED
    BY <1>4, <2>1 DEF MakeHandle, UnitsOK, NoLostWakeup
<1>5. ASSUME NEW i \in InterruptPackets, RemoveInterruptPacket(i)
      PROVE  (UnitsOK /\ NoLostWakeup)'
  <2>1. PICK n \in DOMAIN interruptQueue :
          interruptQueue' = RemoveAt(interruptQueue, n)
    BY <1>5 DEF RemoveInterruptPacket
  <2> n \in 1 .. Len(interruptQueue)
    OBVIOUS
  <2>2. /\ Len(interruptQueue') = Len(interruptQueue) - 1
        /\ interruptQueue' \in Seq(InterruptPackets)
    BY <2>1, RemoveAtProperties
  <2>3. Len(interruptQueue) \in Nat /\ Len(packets) \in Nat /\ semaCount \in Nat
    OBVIOUS
  <2>4. interruptQueue # <<>>
    BY <2>1
  <2>5. TokenHolders' = TokenHolders /\ EarlyHolders' = EarlyHolders
    BY <1>5 DEF RemoveInterruptPacket, TokenHolders, EarlyHolders
  <2>6. Cardinality(TokenHolders) \in Nat /\ Cardinality(EarlyHolders) \in Nat
    BY CountHolders DEF HoldersCounted
  <2>7. packets' = packets /\ semaCount' = semaCount /\ semaWaitq' = semaWaitq
    BY <1>5 DEF RemoveInterruptPacket
  <2> QED
    BY <2>2, <2>3, <2>4, <2>5, <2>6, <2>7 DEF UnitsOK, NoLostWakeup
<1> HIDE DEF TypeOK, LocalsOK
<1> QED
  BY <1>1, <1>2, <1>3, <1>4, <1>5 DEF Next

(* The invariant on the units of the semaphore holds throughout.            *)
THEOREM UnitInvariant == Spec => []UnitInv
<1>1. Init => UnitsOK /\ NoLostWakeup
  <2> SUFFICES ASSUME Init PROVE UnitsOK /\ NoLostWakeup
    OBVIOUS
  <2>1. Cardinality(TokenHolders) \in Nat /\ Cardinality(EarlyHolders) \in Nat
    BY CountHolders DEF HoldersCounted
  <2> QED
    BY <2>1 DEF Init, UnitsOK, NoLostWakeup
<1>2. PortInv => TypeOK /\ LocalsOK
  BY DEF PortInv
<1>3. UnitInv /\ [Next]_vars => (UnitsOK /\ NoLostWakeup)'
  <2> HIDE DEF TypeOK, LocalsOK
  <2> QED
    BY <1>2, NextUnits DEF UnitInv
<1>4. PortInv /\ UnitsOK /\ NoLostWakeup <=> UnitInv
  BY DEF UnitInv
<1> HIDE DEF PortInv, UnitInv, UnitsOK, NoLostWakeup, Init, Next, vars
<1> QED
  BY <1>1, <1>3, <1>4, InductiveInvariant, PTL DEF Spec

(* No wakeup is lost: the units posted or in hand cover every packet of     *)
(* both queues, and nobody is blocked while a unit is left, for any number  *)
(* of readers, packets and cancellations (port_dispatcher.cc:289,           *)
(* kernel/semaphore.cc:16-44).                                              *)
THEOREM NoLostWakeupHolds == Spec => []NoLostWakeup
<1>1. UnitInv => NoLostWakeup
  BY DEF UnitInv
<1> HIDE DEF UnitInv
<1> QED
  BY <1>1, UnitInvariant, PTL
-----------------------------------------------------------------------------
(* The packet arena: PacketInv.                                             *)

(* Appending a packet adds its slot, if it has one.                         *)
LEMMA AppendSlot ==
  ASSUME NEW q \in Seq(Observers \cup UserPackets),
         NEW p \in Observers \cup UserPackets
  PROVE  /\ SlotsIn(Append(q, p)) = SlotsIn(q) \cup ({p} \cap UserPackets)
         /\ OncePerSlot(q) /\ p \notin SlotsIn(q) => OncePerSlot(Append(q, p))
<1>1. /\ Len(Append(q, p)) = Len(q) + 1
      /\ \A i \in 1 .. Len(q) : Append(q, p)[i] = q[i]
      /\ Append(q, p)[Len(q) + 1] = p
      /\ DOMAIN Append(q, p) = 1 .. Len(q) + 1
      /\ DOMAIN q = 1 .. Len(q) /\ Len(q) \in Nat
  OBVIOUS
<1> QED
  BY <1>1 DEF SlotsIn, OncePerSlot

(* Removing the packet at position k removes its slot and no other.         *)
LEMMA RemoveSlot ==
  ASSUME NEW q \in Seq(Observers \cup UserPackets), NEW k \in 1 .. Len(q),
         NEW r \in Seq(Observers \cup UserPackets), Len(r) = Len(q) - 1,
         \A i \in 1 .. Len(q) - 1 : r[i] = IF i < k THEN q[i] ELSE q[i + 1],
         OncePerSlot(q)
  PROVE  /\ SlotsIn(r) = SlotsIn(q) \ {q[k]}
         /\ OncePerSlot(r)
<1>1. DOMAIN q = 1 .. Len(q) /\ Len(q) \in Nat /\ DOMAIN r = 1 .. Len(q) - 1
  OBVIOUS
<1>2. ASSUME NEW p \in SlotsIn(r)
      PROVE  p \in SlotsIn(q) \ {q[k]}
  <2>1. PICK i \in 1 .. Len(q) - 1 : r[i] = p
    BY <1>1 DEF SlotsIn
  <2>2. PICK j \in 1 .. Len(q) : q[j] = p /\ j # k
    BY <1>1, <2>1
  <2>3. p \in UserPackets
    BY DEF SlotsIn
  <2> QED
    BY <1>1, <2>2, <2>3 DEF SlotsIn, OncePerSlot
<1>3. ASSUME NEW p \in SlotsIn(q) \ {q[k]}
      PROVE  p \in SlotsIn(r)
  <2>1. PICK i \in 1 .. Len(q) : q[i] = p
    BY <1>1 DEF SlotsIn
  <2>2. i # k
    BY <2>1
  <2>3. CASE i < k
    <3>1. i \in 1 .. Len(q) - 1 /\ r[i] = p
      BY <1>1, <2>1, <2>3
    <3> QED
      BY <3>1, <1>1 DEF SlotsIn
  <2>4. CASE i > k
    <3>1. i - 1 \in 1 .. Len(q) - 1 /\ r[i - 1] = p
      BY <1>1, <2>1, <2>4
    <3> QED
      BY <3>1, <1>1 DEF SlotsIn
  <2> QED
    BY <1>1, <2>2, <2>3, <2>4
<1>4. OncePerSlot(r)
  <2> SUFFICES ASSUME NEW i \in 1 .. Len(q) - 1, NEW j \in 1 .. Len(q) - 1,
                      r[i] = r[j], r[i] \in UserPackets
               PROVE  i = j
    BY <1>1 DEF OncePerSlot
  <2> DEFINE from(n) == IF n < k THEN n ELSE n + 1
  <2>1. /\ from(i) \in DOMAIN q /\ from(j) \in DOMAIN q
        /\ q[from(i)] = r[i] /\ q[from(j)] = r[j]
    BY <1>1
  <2>2. from(i) = from(j)
    BY <2>1 DEF OncePerSlot
  <2> QED
    BY <1>1, <2>2
<1> QED
  BY <1>2, <1>3, <1>4

(* The head of the queue is taken.                                          *)
LEMMA HeadSlot ==
  ASSUME TypeOK, OncePerSlot(packets), packets # <<>>, packets' = Tail(packets)
  PROVE  /\ SlotsIn(packets') = SlotsIn(packets) \ {Head(packets)}
         /\ OncePerSlot(packets')
         /\ Head(packets) \in UserPackets => Head(packets) \in SlotsIn(packets)
<1> DEFINE q == packets
           r == Tail(packets)
<1>1. /\ q \in Seq(Observers \cup UserPackets) /\ 1 \in 1 .. Len(q)
      /\ r \in Seq(Observers \cup UserPackets) /\ Len(r) = Len(q) - 1
      /\ Head(q) = q[1] /\ DOMAIN q = 1 .. Len(q)
      /\ \A i \in 1 .. Len(q) - 1 : r[i] = q[i + 1]
  OBVIOUS
<1>2. \A i \in 1 .. Len(q) - 1 : r[i] = IF i < 1 THEN q[i] ELSE q[i + 1]
  BY <1>1
<1>3. OncePerSlot(q)
  OBVIOUS
<1>4. Head(q) \in UserPackets => Head(q) \in SlotsIn(q)
  BY <1>1 DEF SlotsIn
<1> HIDE DEF TypeOK, q, r
<1>5. SlotsIn(r) = SlotsIn(q) \ {q[1]} /\ OncePerSlot(r)
  BY <1>1, <1>2, <1>3, RemoveSlot
<1> QED
  BY <1>1, <1>4, <1>5 DEF q, r

(* One more packet in the queue, or one less.                               *)
LEMMA SlotCount ==
  ASSUME TypeOK
  PROVE  /\ IsFiniteSet(SlotsIn(packets)) /\ Cardinality(SlotsIn(packets)) \in Nat
         /\ \A p : p \notin SlotsIn(packets) =>
              Cardinality(SlotsIn(packets) \cup {p})
                = Cardinality(SlotsIn(packets)) + 1
         /\ \A p \in SlotsIn(packets) :
              Cardinality(SlotsIn(packets) \ {p})
                = Cardinality(SlotsIn(packets)) - 1
<1>1. IsFiniteSet(SlotsIn(packets))
  BY PortAssumption, FS_Subset DEF SlotsIn
<1> QED
  BY <1>1, FS_CardinalityType, FS_AddElement, FS_RemoveElement

(* What the step of a thread that touches no packet of the arena leaves.    *)
SlotsKept ==
  /\ OncePerSlot(packets)' /\ SlotsIn(packets') = SlotsIn(packets)
  /\ UNCHANGED <<tPkt, numEphemeral, arena>>
  /\ \A t \in Threads : pc'[t] \in {"QueueUser", "Free", "zeroFree"}
                          <=> pc[t] \in {"QueueUser", "Free", "zeroFree"}

(* Such a step keeps the invariant.                                         *)
LEMMA KeptSlots ==
  ASSUME HandsOK, ArenaOK, SlotsKept
  PROVE  (OncePerSlot(packets) /\ HandsOK /\ ArenaOK)'
<1>1. PacketHolders' = PacketHolders /\ SlotsHeld' = SlotsHeld
  BY DEF SlotsKept, PacketHolders, SlotsHeld
<1>2. SlotsIn(packets)' = SlotsIn(packets)
  BY DEF SlotsKept, SlotsIn
<1>3. HandsOK'
  BY <1>1 DEF SlotsKept, HandsOK
<1>4. ArenaOK'
  BY <1>1, <1>2 DEF SlotsKept, ArenaOK
<1> QED
  BY <1>3, <1>4 DEF SlotsKept

(* A reader or on_zero_handles takes a user packet from the queue.          *)
LEMMA PacketTaken ==
  ASSUME TypeOK, OncePerSlot(packets), HandsOK, ArenaOK, NEW t \in Threads,
         NEW label \in {"Free", "zeroFree"},
         packets # <<>>, packets' = Tail(packets),
         Head(packets) \in UserPackets, tPkt[t] = None,
         tPkt' = [tPkt EXCEPT ![t] = Head(packets)],
         pc' = [pc EXCEPT ![t] = label],
         numEphemeral' = numEphemeral - 1, arena' = arena
  PROVE  (OncePerSlot(packets) /\ HandsOK /\ ArenaOK)'
<1> DEFINE p == Head(packets)
<1>1. /\ SlotsIn(packets') = SlotsIn(packets) \ {p} /\ OncePerSlot(packets')
      /\ p \in SlotsIn(packets)
  BY HeadSlot
<1>2. p # None
  BY PortAssumption
<1>3. PacketHolders' = PacketHolders \cup {t} /\ t \notin PacketHolders
  BY <1>2 DEF PacketHolders
<1>4. SlotsHeld' = SlotsHeld \cup {p}
  BY <1>3 DEF SlotsHeld, PacketHolders
<1>5. p \notin SlotsHeld
  BY <1>1 DEF ArenaOK
<1>6. HandsOK'
  BY <1>2, <1>3, <1>5 DEF HandsOK, PacketHolders, SlotsHeld
<1>7. Cardinality(SlotsIn(packets) \ {p}) = Cardinality(SlotsIn(packets)) - 1
  BY <1>1, SlotCount
<1>8. SlotsIn(packets)' = SlotsIn(packets')
  BY DEF SlotsIn
<1>9. ArenaOK'
  <2>1. /\ Cardinality(SlotsIn(packets)) \in Nat
        /\ kMaxAllocatedPacketCountPerPort \in Nat
    BY SlotCount, PortAssumption
  <2>2. numEphemeral' <= kMaxAllocatedPacketCountPerPort + 1
    BY <2>1 DEF ArenaOK
  <2> HIDE DEF TypeOK
  <2> QED
    BY <1>1, <1>4, <1>5, <1>7, <1>8, <2>2 DEF ArenaOK
<1> QED
  BY <1>1, <1>6, <1>9

(* The calls a thread begins.                                               *)
LEMMA BeginPackets ==
  ASSUME TypeOK, LocalsOK, OncePerSlot(packets), HandsOK, ArenaOK,
         NEW t \in Threads, Begin(t)
  PROVE  (OncePerSlot(packets) /\ HandsOK /\ ArenaOK)'
<1>1. ASSUME NEW h \in Handles, NEW k \in Keys, NEW trigger \in SUBSET Signals,
             MakeObserver(t, h, k, trigger)
      PROVE  (OncePerSlot(packets) /\ HandsOK /\ ArenaOK)'
  <2>1. SlotsKept
    BY <1>1, PortAssumption DEF MakeObserver, SlotsKept, HandsOK
  <2> QED
    BY <2>1, KeptSlots
<1>2. ASSUME NEW h \in Handles, NEW k \in Keys,
             PortCancel(t, h, k)
      PROVE  (OncePerSlot(packets) /\ HandsOK /\ ArenaOK)'
  <2>1. SlotsKept
    BY <1>2, PortAssumption DEF PortCancel, SlotsKept, HandsOK
  <2> QED
    BY <2>1, KeptSlots
<1>3. ASSUME NEW o \in Objects, NEW s \in Signals,
             UpdateState(t, o, {s}, {}) \/ UpdateState(t, o, {}, {s})
      PROVE  (OncePerSlot(packets) /\ HandsOK /\ ArenaOK)'
  <2>1. SlotsKept
    BY <1>3, PortAssumption DEF UpdateState, LockObject, SlotsKept, HandsOK
  <2> QED
    BY <2>1, KeptSlots
<1>4. ASSUME NEW h \in Handles,
             CloseHandle(t, h)
      PROVE  (OncePerSlot(packets) /\ HandsOK /\ ArenaOK)'
  <2>1. SlotsKept
    BY <1>4, PortAssumption DEF CloseHandle, TableWritable, TableReaders, SlotsKept, HandsOK
  <2> QED
    BY <2>1, KeptSlots
<1>5. CASE Dequeue(t)
  <2>1. SlotsKept
    BY <1>5, PortAssumption DEF Dequeue, SlotsKept, HandsOK
  <2> QED
    BY <2>1, KeptSlots
<1>6. CASE Alloc(t)
  <2>1. PICK p \in UserPackets \ arena :
          arena' = arena \cup {p} /\ tPkt' = [tPkt EXCEPT ![t] = p]
    BY <1>6 DEF Alloc
  <2>2. /\ pc' = [pc EXCEPT ![t] = "QueueUser"] /\ tPkt[t] = None
        /\ packets' = packets /\ numEphemeral' = numEphemeral
    BY <1>6 DEF Alloc, HandsOK
  <2>3. p # None
    BY PortAssumption
  <2>4. PacketHolders' = PacketHolders \cup {t} /\ t \notin PacketHolders
    BY <2>1, <2>2, <2>3 DEF PacketHolders
  <2>5. SlotsHeld' = SlotsHeld \cup {p}
    BY <2>1, <2>4 DEF SlotsHeld, PacketHolders
  <2>6. p \notin SlotsHeld /\ p \notin SlotsIn(packets)
    BY DEF ArenaOK
  <2>7. SlotsIn(packets)' = SlotsIn(packets) /\ OncePerSlot(packets)'
    BY <2>2
  <2>8. HandsOK'
    BY <2>1, <2>2, <2>3, <2>4, <2>6 DEF HandsOK, PacketHolders, SlotsHeld
  <2>9. ArenaOK'
    BY <2>1, <2>2, <2>5, <2>6, <2>7 DEF ArenaOK
  <2> QED
    BY <2>7, <2>8, <2>9
<1>7. ASSUME NEW i \in InterruptPackets,
             QueueInterruptPacket(t, i)
      PROVE  (OncePerSlot(packets) /\ HandsOK /\ ArenaOK)'
  <2>1. SlotsKept
    BY <1>7, PortAssumption DEF QueueInterruptPacket, SlotsKept, HandsOK
  <2> QED
    BY <2>1, KeptSlots
<1>8. CASE ClosePort(t)
  <2>1. SlotsKept
    BY <1>8, PortAssumption DEF ClosePort, SlotsKept, HandsOK
  <2> QED
    BY <2>1, KeptSlots
<1> HIDE DEF TypeOK, LocalsOK
<1> QED
  BY <1>1, <1>2, <1>3, <1>4, <1>5, <1>6, <1>7, <1>8 DEF Begin

(* The steps of a call.                                                     *)
LEMMA StepPackets ==
  ASSUME TypeOK, LocalsOK, OncePerSlot(packets), HandsOK, ArenaOK,
         NEW t \in Threads, Step(t)
  PROVE  (OncePerSlot(packets) /\ HandsOK /\ ArenaOK)'
<1>1. CASE AddObserver(t)
  <2>1. tPkt[t] = None
    BY <1>1 DEF AddObserver, HandsOK
  <2>2. tPkt' = tPkt
    BY <1>1, <2>1 DEF AddObserver
  <2>3. SlotsKept
    BY <1>1, <2>2, PortAssumption DEF AddObserver, AlreadyMatched, SlotsKept
  <2> QED
    BY <2>3, KeptSlots
<1>2. CASE AddObserverMatch(t)
  <2>1. SlotsKept
    BY <1>2, PortAssumption DEF AddObserverMatch, LockObject, SlotsKept, HandsOK
  <2> QED
    BY <2>1, KeptSlots
<1>3. CASE FindSource(t)
  <2>1. SlotsKept
    BY <1>3, PortAssumption DEF FindSource, SlotsKept, HandsOK
  <2> QED
    BY <2>1, KeptSlots
<1>4. CASE SourceClosed(t)
  <2>1. tPkt[t] = None
    BY <1>4 DEF SourceClosed, HandsOK
  <2>2. tPkt' = tPkt
    BY <1>4, <2>1 DEF SourceClosed
  <2>3. SlotsKept
    BY <1>4, <2>2, PortAssumption DEF SourceClosed, SlotsKept
  <2> QED
    BY <2>3, KeptSlots
<1>5. CASE LockForCancel(t)
  <2>1. SlotsKept
    BY <1>5, PortAssumption DEF LockForCancel, LockObject, SlotsKept, HandsOK
  <2> QED
    BY <2>1, KeptSlots
<1>6. CASE UpdateStateLocked(t)
  <2>1. SlotsKept
    BY <1>6, PortAssumption DEF UpdateStateLocked, Callback, Erase, Matching, SlotsKept, HandsOK
  <2> QED
    BY <2>1, KeptSlots
<1>7. CASE Cancel(t)
  <2>1. SlotsKept
    BY <1>7, PortAssumption DEF Cancel, Callback, Erase, OnHandle, SlotsKept, HandsOK
  <2> QED
    BY <2>1, KeptSlots
<1>8. CASE CancelByKey(t)
  <2>1. SlotsKept
    BY <1>8, PortAssumption DEF CancelByKey, Callback, Erase, OnHandle, MatchesKey, SlotsKept, HandsOK
  <2> QED
    BY <2>1, KeptSlots
<1>9. CASE CallbacksDone(t)
  <2>1. tPkt[t] = None
    BY <1>9 DEF CallbacksDone, HandsOK
  <2>2. tPkt' = tPkt
    BY <1>9, <2>1 DEF CallbacksDone
  <2>3. SlotsKept
    BY <1>9, <2>2, PortAssumption DEF CallbacksDone, UnlockObject, SlotsKept
  <2> QED
    BY <2>3, KeptSlots
<1>10. CASE CancelByKeyDone(t)
  <2>1. SlotsKept
    BY <1>10, PortAssumption DEF CancelByKeyDone, UnlockObject, SlotsKept, HandsOK
  <2> QED
    BY <2>1, KeptSlots
<1>11. CASE Queue(t)
  <2>1. /\ tObs[t] \in Observers /\ tObs[t] \notin UserPackets
        /\ tObs[t] \notin SlotsIn(packets)
    BY <1>11, PortAssumption DEF Queue, SlotsIn
  <2>2. SlotsIn(packets') = SlotsIn(packets) /\ OncePerSlot(packets')
    <3>1. /\ SlotsIn(Append(packets, tObs[t])) = SlotsIn(packets)
          /\ OncePerSlot(Append(packets, tObs[t]))
      <4>1. packets \in Seq(Observers \cup UserPackets) /\ OncePerSlot(packets)
        OBVIOUS
      <4> HIDE DEF TypeOK, LocalsOK
      <4>2. SlotsIn(Append(packets, tObs[t]))
              = SlotsIn(packets) \cup ({tObs[t]} \cap UserPackets)
        BY <2>1, <4>1, AppendSlot
      <4>3. OncePerSlot(Append(packets, tObs[t]))
        BY <2>1, <4>1, AppendSlot
      <4> QED
        BY <2>1, <4>2, <4>3
    <3>2. packets' = packets \/ packets' = Append(packets, tObs[t])
      BY <1>11 DEF Queue
    <3> QED
      BY <3>1, <3>2
  <2>3. UNCHANGED <<tPkt, numEphemeral, arena>>
    BY <1>11 DEF Queue
  <2>4. \A u \in Threads : pc'[u] \in {"QueueUser", "Free", "zeroFree"}
                             <=> pc[u] \in {"QueueUser", "Free", "zeroFree"}
    BY <1>11 DEF Queue
  <2>5. SlotsKept
    BY <2>2, <2>3, <2>4 DEF SlotsKept
  <2> QED
    BY <2>5, KeptSlots
<1>12. CASE PostCount(t)
  <2>1. SlotsKept
    BY <1>12, PortAssumption DEF PostCount, CountUp, AfterPost, SlotsKept, HandsOK
  <2> QED
    BY <2>1, KeptSlots
<1>13. ASSUME NEW w \in Threads, PostWake(t, w)
       PROVE  (OncePerSlot(packets) /\ HandsOK /\ ArenaOK)'
  <2>1. SlotsKept
    BY <1>13, PortAssumption DEF PostWake, AfterPost, SlotsKept, HandsOK
  <2> QED
    BY <2>1, KeptSlots
<1>14. CASE MaybeReap(t)
  <2>1. /\ caller[t] \in Callers /\ pc[t] = "MaybeReap"
        /\ pc' = [pc EXCEPT ![t] = caller[t]]
        /\ UNCHANGED <<packets, tPkt, numEphemeral, arena>>
    BY <1>14, PortAssumption DEF MaybeReap
  <2>2. SlotsKept
    BY <2>1 DEF SlotsKept
  <2> QED
    BY <2>2, KeptSlots
<1>15. CASE LockForCancelQueued(t)
  <2>1. SlotsKept
    BY <1>15, PortAssumption DEF LockForCancelQueued, LockPort, SlotsKept, HandsOK
  <2> QED
    BY <2>1, KeptSlots
<1>16. CASE CancelQueued(t)
  <2>1. PICK i \in DOMAIN packets :
          packets[i] \in Observers /\ packets' = RemoveAt(packets, i)
    BY <1>16 DEF CancelQueued, QueuedMatches, PacketMatches
  <2> DEFINE r == RemoveAt(packets, i)
  <2>2. i \in 1 .. Len(packets) /\ packets \in Seq(Observers \cup UserPackets)
    BY <2>1
  <2>3. packets[i] \notin UserPackets
    BY <2>1, PortAssumption
  <2>4. /\ r \in Seq(Observers \cup UserPackets) /\ Len(r) = Len(packets) - 1
        /\ \A j \in 1 .. Len(packets) - 1 :
             r[j] = IF j < i THEN packets[j] ELSE packets[j + 1]
    BY <2>2, RemoveAtProperties
  <2> HIDE DEF TypeOK, LocalsOK, r
  <2>5. SlotsIn(r) = SlotsIn(packets) \ {packets[i]} /\ OncePerSlot(r)
    BY <2>2, <2>4, RemoveSlot
  <2>6. packets' = r /\ packets[i] \notin SlotsIn(packets)
    BY <2>1, <2>3 DEF r, SlotsIn
  <2>7. SlotsIn(packets') = SlotsIn(packets) /\ OncePerSlot(packets')
    BY <2>5, <2>6
  <2>8. UNCHANGED <<tPkt, numEphemeral, arena, pc>>
    BY <1>16 DEF CancelQueued
  <2>9. SlotsKept
    BY <2>7, <2>8 DEF SlotsKept
  <2> QED
    BY <2>9, KeptSlots
<1>17. CASE CancelQueuedDone(t)
  <2>1. tPkt[t] = None
    BY <1>17 DEF CancelQueuedDone, HandsOK
  <2>2. tPkt' = tPkt
    BY <1>17, <2>1 DEF CancelQueuedDone
  <2>3. SlotsKept
    BY <1>17, <2>2, PortAssumption DEF CancelQueuedDone, SlotsKept
  <2> QED
    BY <2>3, KeptSlots
<1>18. CASE Wait(t)
  <2>1. SlotsKept
    BY <1>18, PortAssumption DEF Wait, UnitAvailable, SlotsKept, HandsOK
  <2> QED
    BY <2>1, KeptSlots
<1>19. CASE DequeueInterrupt(t)
  <2>1. SlotsKept
    BY <1>19, PortAssumption DEF DequeueInterrupt, SlotsKept, HandsOK
  <2> QED
    BY <2>1, KeptSlots
<1>20. CASE NoInterrupt(t)
  <2>1. SlotsKept
    BY <1>20, PortAssumption DEF NoInterrupt, SlotsKept, HandsOK
  <2> QED
    BY <2>1, KeptSlots
<1>21. CASE DequeueUserPacket(t)
  <2>1. /\ packets # <<>> /\ packets' = Tail(packets)
        /\ Head(packets) \in UserPackets /\ tPkt[t] = None
        /\ tPkt' = [tPkt EXCEPT ![t] = Head(packets)]
        /\ pc' = [pc EXCEPT ![t] = "Free"]
        /\ numEphemeral' = numEphemeral - 1 /\ arena' = arena
    BY <1>21 DEF DequeueUserPacket, HandsOK
  <2> QED
    BY <2>1, PacketTaken
<1>22. CASE DequeueSignalPacket(t)
  <2>1. /\ packets # <<>> /\ packets' = Tail(packets)
        /\ Head(packets) \notin UserPackets
    BY <1>22, PortAssumption DEF DequeueSignalPacket, ReadIsEphemeral
  <2>2. SlotsIn(packets') = SlotsIn(packets) /\ OncePerSlot(packets')
    BY <2>1, HeadSlot DEF SlotsIn
  <2>3. UNCHANGED <<tPkt, numEphemeral, arena>>
    BY <1>22 DEF DequeueSignalPacket, ReadIsEphemeral
  <2>4. \A u \in Threads : pc'[u] \in {"QueueUser", "Free", "zeroFree"}
                             <=> pc[u] \in {"QueueUser", "Free", "zeroFree"}
    BY <1>22 DEF DequeueSignalPacket, ReadIsEphemeral
  <2>5. SlotsKept
    BY <2>2, <2>3, <2>4 DEF SlotsKept
  <2> QED
    BY <2>5, KeptSlots
<1>23. CASE DequeueSpurious(t)
  <2>1. SlotsKept
    BY <1>23, PortAssumption DEF DequeueSpurious, SlotsKept, HandsOK
  <2> QED
    BY <2>1, KeptSlots
<1>24. CASE QueueUser(t)
  <2> DEFINE p == tPkt[t]
  <2>1. /\ p # None /\ p \in UserPackets
        /\ tPkt' = [tPkt EXCEPT ![t] = None]
        /\ pc' = [pc EXCEPT ![t] = "Post"] /\ arena' = arena
        /\ packets' = Append(packets, p)
        /\ numEphemeral' = numEphemeral + 1
        /\ numEphemeral <= kMaxAllocatedPacketCountPerPort
    BY <1>24, PortAssumption DEF QueueUser, PortFull, HandsOK
  <2>2. PacketHolders' = PacketHolders \ {t} /\ t \in PacketHolders
    BY <2>1 DEF PacketHolders
  <2>3. SlotsHeld' = SlotsHeld \ {p} /\ p \in SlotsHeld
    BY <2>1, <2>2 DEF SlotsHeld, PacketHolders, HandsOK
  <2>4. p \notin SlotsIn(packets)
    BY <2>3 DEF ArenaOK
  <2>5. /\ SlotsIn(packets') = SlotsIn(packets) \cup {p}
        /\ OncePerSlot(packets')
    <3>1. packets \in Seq(Observers \cup UserPackets) /\ OncePerSlot(packets)
      OBVIOUS
    <3> HIDE DEF TypeOK, LocalsOK, p
    <3> QED
      BY <2>1, <2>4, <3>1, AppendSlot
  <2>6. Cardinality(SlotsIn(packets) \cup {p}) = Cardinality(SlotsIn(packets)) + 1
    BY <2>4, SlotCount
  <2>7. HandsOK'
    BY <2>1, <2>2 DEF HandsOK, PacketHolders
  <2>8. SlotsIn(packets)' = SlotsIn(packets')
    BY DEF SlotsIn
  <2>9. ArenaOK'
    BY <2>1, <2>3, <2>5, <2>6, <2>8, PortAssumption DEF ArenaOK
  <2> QED
    BY <2>5, <2>7, <2>9
<1>25. CASE QueueUserFails(t)
  <2>1. SlotsKept
    BY <1>25, PortAssumption DEF QueueUserFails, SlotsKept, HandsOK
  <2> QED
    BY <2>1, KeptSlots
<1>26. CASE Free(t)
  <2>1. /\ tPkt[t] # None /\ tPkt' = [tPkt EXCEPT ![t] = None]
        /\ pc'[t] \in {"idle", "relockPackets"}
        /\ \A u \in Threads \ {t} : pc'[u] = pc[u]
        /\ arena' = arena \ {tPkt[t]}
        /\ packets' = packets /\ numEphemeral' = numEphemeral
    BY <1>26 DEF Free, HandsOK
  <2>2. PacketHolders' = PacketHolders \ {t} /\ t \in PacketHolders
    BY <2>1 DEF PacketHolders
  <2>3. SlotsHeld' = SlotsHeld \ {tPkt[t]} /\ tPkt[t] \in SlotsHeld
    BY <2>1, <2>2 DEF SlotsHeld, PacketHolders, HandsOK
  <2>4. SlotsIn(packets)' = SlotsIn(packets) /\ OncePerSlot(packets)'
    BY <2>1
  <2>5. HandsOK'
    BY <2>1, <2>2 DEF HandsOK, PacketHolders
  <2>6. ArenaOK'
    BY <2>1, <2>3, <2>4 DEF ArenaOK
  <2> QED
    BY <2>4, <2>5, <2>6
<1>27. CASE OnZeroHandles(t)
  <2>1. SlotsKept
    BY <1>27, PortAssumption DEF OnZeroHandles, LockPort, SlotsKept, HandsOK
  <2> QED
    BY <2>1, KeptSlots
<1>28. CASE Relock(t)
  <2>1. SlotsKept
    BY <1>28, PortAssumption DEF Relock, LockPort, SlotsKept, HandsOK
  <2> QED
    BY <2>1, KeptSlots
<1>29. CASE ZeroUserPacket(t)
  <2>1. /\ packets # <<>> /\ packets' = Tail(packets)
        /\ Head(packets) \in UserPackets /\ tPkt[t] = None
        /\ tPkt' = [tPkt EXCEPT ![t] = Head(packets)]
        /\ pc' = [pc EXCEPT ![t] = "zeroFree"]
        /\ numEphemeral' = numEphemeral - 1 /\ arena' = arena
    BY <1>29 DEF ZeroUserPacket, HandsOK
  <2> QED
    BY <2>1, PacketTaken
<1>30. CASE ZeroSignalPacket(t)
  <2>1. /\ packets # <<>> /\ packets' = Tail(packets)
        /\ Head(packets) \notin UserPackets
    BY <1>30, PortAssumption DEF ZeroSignalPacket
  <2>2. SlotsIn(packets') = SlotsIn(packets) /\ OncePerSlot(packets')
    BY <2>1, HeadSlot DEF SlotsIn
  <2>3. UNCHANGED <<tPkt, numEphemeral, arena>>
    BY <1>30 DEF ZeroSignalPacket
  <2>4. \A u \in Threads : pc'[u] \in {"QueueUser", "Free", "zeroFree"}
                             <=> pc[u] \in {"QueueUser", "Free", "zeroFree"}
    BY <1>30 DEF ZeroSignalPacket
  <2>5. SlotsKept
    BY <2>2, <2>3, <2>4 DEF SlotsKept
  <2> QED
    BY <2>5, KeptSlots
<1>31. CASE ZeroObservers(t)
  <2>1. SlotsKept
    BY <1>31, PortAssumption DEF ZeroObservers, DropPortLock, PacketsDrained, SlotsKept, HandsOK
  <2> QED
    BY <2>1, KeptSlots
<1>32. CASE RemoveObserver(t)
  <2>1. SlotsKept
    BY <1>32, PortAssumption DEF RemoveObserver, Erase, SlotsKept, HandsOK
  <2> QED
    BY <2>1, KeptSlots
<1>33. CASE ZeroDone(t)
  <2>1. SlotsKept
    BY <1>33, PortAssumption DEF ZeroDone, PacketsDrained, SlotsKept, HandsOK
  <2> QED
    BY <2>1, KeptSlots
<1> HIDE DEF TypeOK, LocalsOK
<1> QED
  BY <1>1, <1>2, <1>3, <1>4, <1>5, <1>6, <1>7, <1>8, <1>9, <1>10, <1>11,
     <1>12, <1>13, <1>14, <1>15, <1>16, <1>17, <1>18, <1>19, <1>20, <1>21,
     <1>22, <1>23, <1>24, <1>25, <1>26, <1>27, <1>28, <1>29, <1>30, <1>31,
     <1>32, <1>33 DEF Step

(* Every step.                                                              *)
LEMMA NextPackets ==
  ASSUME TypeOK, LocalsOK, OncePerSlot(packets), HandsOK, ArenaOK,
         [Next]_vars
  PROVE  (OncePerSlot(packets) /\ HandsOK /\ ArenaOK)'
<1>1. CASE UNCHANGED vars
  <2>1. SlotsKept
    BY <1>1, PortAssumption DEF vars, SlotsKept, HandsOK
  <2> QED
    BY <2>1, KeptSlots
<1>2. ASSUME NEW t \in Threads, Begin(t) \/ Step(t)
      PROVE  (OncePerSlot(packets) /\ HandsOK /\ ArenaOK)'
  <2> HIDE DEF TypeOK, LocalsOK
  <2> QED
    BY <1>2, BeginPackets, StepPackets
<1>3. ASSUME NEW t \in Threads, Timeout(t)
      PROVE  (OncePerSlot(packets) /\ HandsOK /\ ArenaOK)'
  <2>1. SlotsKept
    BY <1>3, PortAssumption DEF Timeout, SlotsKept, HandsOK
  <2> QED
    BY <2>1, KeptSlots
<1>4. ASSUME NEW h \in Handles, NEW o \in Objects, MakeHandle(h, o)
      PROVE  (OncePerSlot(packets) /\ HandsOK /\ ArenaOK)'
  <2>1. SlotsKept
    BY <1>4, PortAssumption DEF MakeHandle, SlotsKept, HandsOK
  <2> QED
    BY <2>1, KeptSlots
<1>5. ASSUME NEW i \in InterruptPackets, RemoveInterruptPacket(i)
      PROVE  (OncePerSlot(packets) /\ HandsOK /\ ArenaOK)'
  <2>1. SlotsKept
    BY <1>5, PortAssumption DEF RemoveInterruptPacket, SlotsKept, HandsOK
  <2> QED
    BY <2>1, KeptSlots
<1> HIDE DEF TypeOK, LocalsOK
<1> QED
  BY <1>1, <1>2, <1>3, <1>4, <1>5 DEF Next

(* The invariant on the packet arena holds throughout.                      *)
THEOREM PacketInvariant == Spec => []PacketInv
<1>1. Init => OncePerSlot(packets) /\ HandsOK /\ ArenaOK
  <2> SUFFICES ASSUME Init PROVE OncePerSlot(packets) /\ HandsOK /\ ArenaOK
    OBVIOUS
  <2>1. SlotsIn(packets) = {} /\ PacketHolders = {} /\ SlotsHeld = {}
    BY DEF Init, SlotsIn, PacketHolders, SlotsHeld
  <2> QED
    <3>1. ArenaOK
      <4>1. Cardinality(SlotsIn(packets)) = 0
        BY <2>1, FS_EmptySet
      <4>2. arena = {} /\ numEphemeral = 0
        BY DEF Init
      <4> QED
        BY <2>1, <4>1, <4>2, PortAssumption DEF ArenaOK
    <3>2. OncePerSlot(packets)
      BY DEF Init, OncePerSlot
    <3>3. HandsOK
      BY <2>1 DEF Init, HandsOK
    <3> QED
      BY <3>1, <3>2, <3>3
<1>2. PortInv => TypeOK /\ LocalsOK
  BY DEF PortInv
<1>3. PacketInv /\ [Next]_vars => (OncePerSlot(packets) /\ HandsOK /\ ArenaOK)'
  <2> HIDE DEF TypeOK, LocalsOK
  <2> QED
    BY <1>2, NextPackets DEF PacketInv
<1>4. PortInv /\ OncePerSlot(packets) /\ HandsOK /\ ArenaOK <=> PacketInv
  BY DEF PacketInv
<1> HIDE DEF PortInv, PacketInv, OncePerSlot, HandsOK, ArenaOK, Init, Next, vars
<1> QED
  BY <1>1, <1>3, <1>4, InductiveInvariant, PTL DEF Spec

(* A set that a function maps to another without collisions has as many     *)
(* elements.                                                                *)
LEMMA SameCount ==
  ASSUME NEW S, NEW T, IsFiniteSet(T), NEW f \in [S -> T],
         \A x, y \in S : f[x] = f[y] => x = y,
         \A z \in T : \E x \in S : f[x] = z
  PROVE  IsFiniteSet(S) /\ Cardinality(S) = Cardinality(T)
<1>1. f \in Injection(S, T) /\ f \in Surjection(S, T)
  BY DEF Injection, Surjection, IsInjective
<1> QED
  BY <1>1, FS_Injection

(* num_ephemeral_packets_ counts the user packets in the queue, stays       *)
(* within one of its limit, and every allocated slot of the arena is in the *)
(* queue or in the hands of one thread (port_dispatcher.cc:237-264,318-345).*)
THEOREM PacketAccountingHolds == Spec => []PacketAccounting
<1>1. PacketInv => PacketAccounting
  <2> SUFFICES ASSUME PacketInv PROVE PacketAccounting
    OBVIOUS
  <2>1. TypeOK /\ OncePerSlot(packets) /\ HandsOK /\ ArenaOK
    BY DEF PacketInv, PortInv
  <2> DEFINE queued == {i \in DOMAIN packets : packets[i] \in UserPackets}
             held == {t \in Threads : tPkt[t] # None}
  <2>2. IsFiniteSet(SlotsIn(packets)) /\ IsFiniteSet(SlotsHeld)
    <3>1. SlotsIn(packets) \subseteq UserPackets /\ SlotsHeld \subseteq UserPackets
      BY <2>1 DEF SlotsIn, SlotsHeld, PacketHolders
    <3> QED
      BY <3>1, PortAssumption, FS_Subset
  <2>3. Cardinality(queued) = Cardinality(SlotsIn(packets))
    <3> DEFINE f == [i \in queued |-> packets[i]]
    <3>1. f \in [queued -> SlotsIn(packets)]
      BY <2>1 DEF SlotsIn
    <3>2. \A x, y \in queued : f[x] = f[y] => x = y
      BY <2>1 DEF OncePerSlot
    <3>3. \A z \in SlotsIn(packets) : \E x \in queued : f[x] = z
      BY DEF SlotsIn
    <3> HIDE DEF f, queued, TypeOK
    <3> QED
      BY <2>2, <3>1, <3>2, <3>3, SameCount
  <2>4. Cardinality(held) = Cardinality(SlotsHeld)
    <3> DEFINE f == [t \in held |-> tPkt[t]]
    <3>1. f \in [held -> SlotsHeld]
      BY DEF SlotsHeld, PacketHolders
    <3>2. \A x, y \in held : f[x] = f[y] => x = y
      BY <2>1 DEF HandsOK, PacketHolders
    <3>3. \A z \in SlotsHeld : \E x \in held : f[x] = z
      BY DEF SlotsHeld, PacketHolders
    <3> HIDE DEF f, held, TypeOK
    <3> QED
      BY <2>2, <3>1, <3>2, <3>3, SameCount
  <2>5. Cardinality(arena) = Cardinality(SlotsIn(packets)) + Cardinality(SlotsHeld)
    <3>1. /\ arena = SlotsIn(packets) \cup SlotsHeld
          /\ SlotsIn(packets) \cap SlotsHeld = {}
      BY <2>1 DEF ArenaOK
    <3> HIDE DEF TypeOK
    <3>2. /\ Cardinality(arena) = Cardinality(SlotsIn(packets))
               + Cardinality(SlotsHeld) - Cardinality({})
          /\ Cardinality(SlotsIn(packets)) \in Nat /\ Cardinality(SlotsHeld) \in Nat
      <4>1. Cardinality(SlotsIn(packets) \cup SlotsHeld)
              = Cardinality(SlotsIn(packets)) + Cardinality(SlotsHeld)
                  - Cardinality(SlotsIn(packets) \cap SlotsHeld)
        BY <2>2, FS_Union
      <4> QED
        BY <2>2, <3>1, <4>1, FS_CardinalityType
    <3> QED
      BY <3>2, FS_EmptySet
  <2>6. SlotsIn(packets) = {packets[i] : i \in queued}
    BY DEF SlotsIn
  <2>7. SlotsHeld = {tPkt[t] : t \in held}
    BY DEF SlotsHeld, PacketHolders
  <2>8. /\ numEphemeral = Cardinality(SlotsIn(packets))
        /\ numEphemeral <= kMaxAllocatedPacketCountPerPort + 1
        /\ arena = SlotsIn(packets) \cup SlotsHeld
    BY <2>1 DEF ArenaOK
  <2> HIDE DEF queued, held, TypeOK
  <2> QED
    BY <2>3, <2>4, <2>5, <2>6, <2>7, <2>8 DEF PacketAccounting, queued, held
<1> HIDE DEF PacketInv
<1> QED
  BY <1>1, PacketInvariant, PTL
=============================================================================
