-------------------------------- MODULE Port --------------------------------
(***************************************************************************)
(* The port kernel object (object/port_dispatcher.cc), the observer lists  *)
(* of the dispatchers it watches (object/dispatcher.cc), the semaphore its *)
(* readers block on (kernel/semaphore.cc) and the system calls that drive  *)
(* them (lib/syscalls/object_wait.cc, port.cc, handle_ops.cc).             *)
(*                                                                         *)
(* A PortObserver is shared by three parties that hold different locks:    *)
(* the watched dispatcher (its lock guards observers), the port (its lock  *)
(* guards packets and the dispatcher_ link) and the thread that runs a     *)
(* callback.  Every critical section is one step; a section that calls     *)
(* into the other object, or loops over calls, is a step per call, with    *)
(* the lock that stays held kept in objLock or portLock.                   *)
(***************************************************************************)
EXTENDS Integers, Sequences, FiniteSets, SequencesExt

CONSTANTS
  Threads,           \* kernel threads and interrupt contexts
  Objects,           \* waitable dispatchers
  Handles,           \* slots of the handle arena: the Handle* addresses
  Keys,              \* keys given to zx_object_wait_async
  Signals,           \* signal bits
  Observers,         \* PortObserver allocations (bounds the async waits)
  UserPackets,       \* slots of the packet arena
  InterruptPackets,  \* PortInterruptPackets of the bound interrupts
  kMaxAllocatedPacketCountPerPort,
  BindToInterrupt,   \* options_ == ZX_PORT_BIND_TO_INTERRUPT
  MaxHandleGen,      \* bound: times one handle slot is allocated
  MaxSemaCount,      \* bound: no interrupt fires at this semaphore count
  None

WaitArgs == [handle : Handles, gen : Nat, obj : Objects, key : Keys,
             trigger : SUBSET Signals]

(* The dispatcher operations that call observers back.                      *)
Callers == {"AddObserverDone", "UpdateState", "Cancel", "CancelByKey"}

ASSUME PortAssumption ==
  /\ kMaxAllocatedPacketCountPerPort \in Nat
  /\ BindToInterrupt \in BOOLEAN
  /\ MaxHandleGen \in Nat /\ MaxSemaCount \in Nat
  /\ None \notin Threads \cup Objects \cup Handles \cup Observers
                 \cup UserPackets \cup WaitArgs \cup Callers
  /\ Observers \cap UserPackets = {}
  /\ IsFiniteSet(Threads) /\ IsFiniteSet(UserPackets)

VARIABLES
  signals,         \* Dispatcher::signals_, per object
  observers,       \* Dispatcher::observers_, per object
  objLock,         \* holder of Dispatcher::get_lock(), per object
  handleObj,       \* object of each handle in the process's table, or None
  handleGen,       \* how often each slot has been allocated
  portInTable,     \* the (only) handle to the port is in the table
  zeroHandles,     \* PortDispatcher::zero_handles_
  packets,         \* PortDispatcher::packets_
  numEphemeral,    \* PortDispatcher::num_ephemeral_packets_
  interruptQueue,  \* PortDispatcher::interrupt_packets_
  portLock,        \* holder of PortDispatcher::get_lock()
  semaCount,       \* Semaphore::count_ of sema_
  semaWaitq,       \* Semaphore::waitq_ of sema_
  arena,           \* allocated slots of the packet arena
  wait,            \* the zx_object_wait_async that made each observer, or None
  linked,          \* observers in PortDispatcher::observers_, which are those
                   \* whose dispatcher_ is set: both change together
  packetOwned,     \* observers their own packet points to (PortPacket::observer)
  destroyed,       \* observers that have been deleted
  delivered,       \* history: observers whose packet a zx_port_wait returned
  cancelled,       \* history: waits a completed zx_port_cancel had to end
  pc,              \* where each thread is
  caller,          \* the dispatcher loop an observer callback returns to
  tObj, tObs, tPkt, tHandle, tKey,  \* what the call of each thread works on
  tSnap            \* history: the waits a zx_port_cancel found registered

objVars    == <<signals, observers, objLock>>
handleVars == <<handleObj, handleGen, portInTable>>
portVars   == <<zeroHandles, portLock>>
queueVars  == <<packets, numEphemeral, interruptQueue, arena>>
semaVars   == <<semaCount, semaWaitq>>
ownerVars  == <<packetOwned, destroyed>>
obsVars    == <<wait, linked, ownerVars>>
histVars   == <<delivered, cancelled>>
argVars    == <<tHandle, tKey, tSnap>>
localVars  == <<caller, tObj, tObs, tPkt, argVars>>

vars == <<objVars, handleVars, portVars, queueVars, semaVars, obsVars,
          histVars, pc, localVars>>
-----------------------------------------------------------------------------
Made == {x \in Observers : wait[x] # None}

Queued(p) == \E i \in DOMAIN packets : packets[i] = p

Goto(t, label) == pc' = [pc EXCEPT ![t] = label]

(* Return from a call: the locals of the thread go out of scope.            *)
Return(t) ==
  /\ Goto(t, "idle")
  /\ caller' = [caller EXCEPT ![t] = None]
  /\ tObj' = [tObj EXCEPT ![t] = None]
  /\ tObs' = [tObs EXCEPT ![t] = None]
  /\ tPkt' = [tPkt EXCEPT ![t] = None]
  /\ tHandle' = [tHandle EXCEPT ![t] = None]
  /\ tKey' = [tKey EXCEPT ![t] = None]
  /\ tSnap' = [tSnap EXCEPT ![t] = {}]

(* Threads inside a section guarded by the handle table's reader lock.      *)
TableReaders ==
  {t \in Threads :
     \/ pc[t] \in {"AddObserver", "AddObserverDone", "lockCancelByKey",
                   "CancelByKey", "lockCancelQueued", "CancelQueued"}
     \/ caller[t] \in {"AddObserverDone", "CancelByKey"}}

(* The writer side of that lock, for the sections that change the table.    *)
TableWritable == TableReaders = {}

LockObject(t, o) ==
  /\ objLock[o] = None
  /\ objLock' = [objLock EXCEPT ![o] = t]

UnlockObject(o) == objLock' = [objLock EXCEPT ![o] = None]

LockPort(t) == portLock = None /\ portLock' = t
-----------------------------------------------------------------------------
(* A handle to o is made and added to the process's table.  The arena hands *)
(* out slots that earlier handles used.                                     *)
MakeHandle(h, o) ==
  /\ TableWritable
  /\ handleObj[h] = None
  /\ \A t \in Threads : tHandle[t] = h => pc[t] = "findSource"
  /\ handleGen[h] < MaxHandleGen
  /\ handleObj' = [handleObj EXCEPT ![h] = o]
  /\ handleGen' = [handleGen EXCEPT ![h] = @ + 1]
  /\ UNCHANGED <<portInTable, objVars, portVars, queueVars, semaVars, obsVars,
                 histVars, pc, localVars>>

(* zx_object_wait_async up to and including the port-locked part of         *)
(* MakeObserver; the thread keeps the handle table's reader lock.           *)
MakeObserver(t, h, k, trigger) ==
  /\ pc[t] = "idle"
  /\ portInTable /\ handleObj[h] # None
  /\ portLock = None
  /\ \E x \in Observers \ Made :
       /\ wait' = [wait EXCEPT ![x] =
            [handle |-> h, gen |-> handleGen[h], obj |-> handleObj[h],
             key |-> k, trigger |-> trigger]]
       /\ linked' = linked \cup {x}
       /\ tObs' = [tObs EXCEPT ![t] = x]
       /\ tObj' = [tObj EXCEPT ![t] = handleObj[h]]
  /\ Goto(t, "AddObserver")
  /\ UNCHANGED <<objVars, handleVars, portVars, queueVars, semaVars,
                 ownerVars, histVars, caller, tPkt, argVars>>

(* Mutant of AlreadyMatched: the signals are not looked at under the lock.  *)
NeverMatched(o, x) == FALSE

AlreadyMatched(o, x) == signals[o] \cap wait[x].trigger # {}

(* Dispatcher::AddObserver: join the list, or match at once.                *)
AddObserver(t) ==
  /\ pc[t] = "AddObserver"
  /\ objLock[tObj[t]] = None
  /\ ~AlreadyMatched(tObj[t], tObs[t])
  /\ observers' = [observers EXCEPT ![tObj[t]] = @ \cup {tObs[t]}]
  /\ Return(t)
  /\ UNCHANGED <<signals, objLock, handleVars, portVars, queueVars, semaVars,
                 obsVars, histVars>>

AddObserverMatch(t) ==
  /\ pc[t] = "AddObserver"
  /\ AlreadyMatched(tObj[t], tObs[t])
  /\ LockObject(t, tObj[t])
  /\ caller' = [caller EXCEPT ![t] = "AddObserverDone"]
  /\ Goto(t, "Queue")
  /\ UNCHANGED <<signals, observers, handleVars, portVars, queueVars, semaVars,
                 obsVars, histVars, tObj, tObs, tPkt, argVars>>
-----------------------------------------------------------------------------
(* Dispatcher::UpdateState: zx_object_signal, or any state change of the    *)
(* object.  The lock stays held over the callbacks to the observers.        *)
UpdateState(t, o, clear, set) ==
  LET new == (signals[o] \ clear) \cup set IN
  /\ pc[t] = "idle"
  /\ new # signals[o]
  /\ LockObject(t, o)
  /\ signals' = [signals EXCEPT ![o] = new]
  /\ tObj' = [tObj EXCEPT ![t] = o]
  /\ Goto(t, "UpdateState")
  /\ UNCHANGED <<observers, handleVars, portVars, queueVars, semaVars, obsVars,
                 histVars, caller, tObs, tPkt, argVars>>

(* Handle close: the handle leaves the table, then HandleTableArena::Delete *)
(* cancels the waits registered through it, then frees the slot.            *)
CloseHandle(t, h) ==
  /\ pc[t] = "idle"
  /\ TableWritable
  /\ handleObj[h] # None
  /\ handleObj' = [handleObj EXCEPT ![h] = None]
  /\ tObj' = [tObj EXCEPT ![t] = handleObj[h]]
  /\ tHandle' = [tHandle EXCEPT ![t] = h]
  /\ Goto(t, "lockCancel")
  /\ UNCHANGED <<objVars, handleGen, portInTable, portVars, queueVars,
                 semaVars, obsVars, histVars, caller, tObs, tPkt, tKey, tSnap>>

(* zx_port_cancel takes a reference to the port before it locks the table.  *)
PortCancel(t, h, k) ==
  /\ pc[t] = "idle"
  /\ portInTable
  /\ tHandle' = [tHandle EXCEPT ![t] = h]
  /\ tKey' = [tKey EXCEPT ![t] = k]
  /\ Goto(t, "findSource")
  /\ UNCHANGED <<objVars, handleVars, portVars, queueVars, semaVars, obsVars,
                 histVars, caller, tObj, tObs, tPkt, tSnap>>

(* Waits registered through handle h with key k by calls that returned.     *)
Registered(h, k) ==
  {x \in Made : /\ wait[x].handle = h /\ wait[x].gen = handleGen[h]
                /\ wait[x].key = k
                /\ \A t \in Threads :
                     \/ pc[t] = "AddObserver"
                     \/ caller[t] = "AddObserverDone"
                     => tObs[t] # x}

FindSource(t) ==
  /\ pc[t] = "findSource"
  /\ handleObj[tHandle[t]] # None
  /\ tObj' = [tObj EXCEPT ![t] = handleObj[tHandle[t]]]
  /\ tSnap' = [tSnap EXCEPT ![t] = Registered(tHandle[t], tKey[t])]
  /\ Goto(t, "lockCancelByKey")
  /\ UNCHANGED <<objVars, handleVars, portVars, queueVars, semaVars, obsVars,
                 histVars, caller, tObs, tPkt, tHandle, tKey>>

SourceClosed(t) ==                              \* ZX_ERR_BAD_HANDLE
  /\ pc[t] = "findSource"
  /\ handleObj[tHandle[t]] = None
  /\ Return(t)
  /\ UNCHANGED <<objVars, handleVars, portVars, queueVars, semaVars, obsVars,
                 histVars>>

(* Dispatcher::Cancel and CancelByKey take the object's lock.               *)
LockForCancel(t) ==
  /\ pc[t] \in {"lockCancel", "lockCancelByKey"}
  /\ LockObject(t, tObj[t])
  /\ Goto(t, IF pc[t] = "lockCancel" THEN "Cancel" ELSE "CancelByKey")
  /\ UNCHANGED <<signals, observers, handleVars, portVars, queueVars, semaVars,
                 obsVars, histVars, localVars>>
-----------------------------------------------------------------------------
(* Mutant of Erase: the observer stays on the list while it is called.      *)
KeepListed(o, x) == observers' = observers

Erase(o, x) == observers' = [observers EXCEPT ![o] = @ \ {x}]

(* The loops of the dispatcher over its observers.  Each turn erases one    *)
(* entry and calls back into the port with the dispatcher's lock held.      *)
Callback(t, x, loop, label) ==
  /\ Erase(tObj[t], x)
  /\ tObs' = [tObs EXCEPT ![t] = x]
  /\ caller' = [caller EXCEPT ![t] = loop]
  /\ Goto(t, label)
  /\ UNCHANGED <<signals, objLock, handleVars, portVars, queueVars, semaVars,
                 obsVars, histVars, tObj, tPkt, argVars>>

Matching(t) == {x \in observers[tObj[t]] : AlreadyMatched(tObj[t], x)}

OnHandle(t) ==
  {x \in observers[tObj[t]] : wait[x].handle = tHandle[t]}

MatchesKey(t) == {x \in OnHandle(t) : wait[x].key = tKey[t]}

UpdateStateLocked(t) ==
  /\ pc[t] = "UpdateState"
  /\ \E x \in Matching(t) : Callback(t, x, "UpdateState", "Queue")

Cancel(t) ==
  /\ pc[t] = "Cancel"
  /\ \E x \in OnHandle(t) : Callback(t, x, "Cancel", "MaybeReap")

CancelByKey(t) ==
  /\ pc[t] = "CancelByKey"
  /\ \E x \in MatchesKey(t) : Callback(t, x, "CancelByKey", "MaybeReap")

(* End of AddObserver's match, of UpdateState, and of Cancel, after which   *)
(* HandleTableArena::Delete frees the slot.                                 *)
CallbacksDone(t) ==
  /\ \/ pc[t] = "AddObserverDone"
     \/ pc[t] = "UpdateState" /\ Matching(t) = {}
     \/ pc[t] = "Cancel" /\ OnHandle(t) = {}
  /\ UnlockObject(tObj[t])
  /\ Return(t)
  /\ UNCHANGED <<signals, observers, handleVars, portVars, queueVars, semaVars,
                 obsVars, histVars>>

(* End of CancelByKey: zx_port_cancel goes on to the port's queue.          *)
CancelByKeyDone(t) ==
  /\ pc[t] = "CancelByKey"
  /\ MatchesKey(t) = {}
  /\ UnlockObject(tObj[t])
  /\ Goto(t, "lockCancelQueued")
  /\ UNCHANGED <<signals, observers, handleVars, portVars, queueVars, semaVars,
                 obsVars, histVars, localVars>>
-----------------------------------------------------------------------------
PortClosed == zeroHandles

(* PortObserver::OnMatch: Queue, Post, MaybeReap.  A packet that is already *)
(* queued only collects the new signals, and ZX_ERR_BAD_HANDLE is ignored.  *)
Queue(t) ==
  LET x == tObs[t]
      rejected == PortClosed \/ Queued(x) IN
  /\ pc[t] = "Queue"
  /\ portLock = None
  /\ packets' = IF rejected THEN packets ELSE Append(packets, x)
  /\ Goto(t, IF rejected THEN "MaybeReap" ELSE "Post")
  /\ UNCHANGED <<objVars, handleVars, portVars, numEphemeral, interruptQueue,
                 arena, semaVars, obsVars, histVars, localVars>>

(* Mutant of CountUp: the semaphore holds at most one unit.                 *)
CountSaturates == semaCount' = 1

CountUp == semaCount' = semaCount + 1

(* Semaphore::Post, after the lock of the queue has been dropped: hand the  *)
(* unit to a waiter or count it.  Post is the last step of QueueUser and    *)
(* QueueInterruptPacket; OnMatch goes on to MaybeReap.                      *)
AfterPost(t) == IF tObs[t] = None THEN "idle" ELSE "MaybeReap"

PostCount(t) ==
  /\ pc[t] = "Post"
  /\ semaWaitq = {}
  /\ CountUp
  /\ Goto(t, AfterPost(t))
  /\ UNCHANGED <<objVars, handleVars, portVars, queueVars, semaWaitq, obsVars,
                 histVars, localVars>>

PostWake(t, w) ==
  /\ pc[t] = "Post"
  /\ w \in semaWaitq
  /\ semaWaitq' = semaWaitq \ {w}
  /\ pc' = [pc EXCEPT ![t] = AfterPost(t), ![w] = "DequeueInterrupt"]
  /\ UNCHANGED <<objVars, handleVars, portVars, queueVars, semaCount, obsVars,
                 histVars, localVars>>

(* Mutant of Unlinks: MaybeReap does not ask who unlinked the dispatcher.   *)
AlwaysUnlinks(x) == TRUE

(* UnlinkDispatcherLocked returns the dispatcher, once.                     *)
Unlinks(x) == x \in linked

(* Whoever unlinks the dispatcher, MaybeReap or on_zero_handles, has to see *)
(* that the observer is deleted: at once, or with its queued packet.        *)
MaybeReap(t) ==
  LET x == tObs[t] IN
  /\ pc[t] = "MaybeReap"
  /\ portLock = None
  /\ linked' = linked \ {x}
  /\ packetOwned' = IF Unlinks(x) /\ Queued(x) THEN packetOwned \cup {x}
                    ELSE packetOwned
  /\ destroyed' = IF Unlinks(x) /\ ~Queued(x) THEN destroyed \cup {x}
                  ELSE destroyed
  /\ tObs' = [tObs EXCEPT ![t] = None]
  /\ caller' = [caller EXCEPT ![t] = None]
  /\ Goto(t, caller[t])
  /\ UNCHANGED <<objVars, handleVars, portVars, queueVars, semaVars, wait,
                 histVars, tObj, tPkt, argVars>>
-----------------------------------------------------------------------------
(* Mutant of ResetObserver: the packet gives up its observer undeleted.     *)
ReleaseObserver(p) == packetOwned' = packetOwned \ {p} /\ UNCHANGED destroyed

(* packet->observer.reset(): deletes the observer the packet owns, if any.  *)
ResetObserver(p) ==
  /\ packetOwned' = packetOwned \ {p}
  /\ destroyed' = IF p \in packetOwned THEN destroyed \cup {p} ELSE destroyed

(* CancelQueued(handle, key): the queue is searched under the port's lock   *)
(* for packets whose Handle* and key are the caller's.                      *)
LockForCancelQueued(t) ==
  /\ pc[t] = "lockCancelQueued"
  /\ LockPort(t)
  /\ Goto(t, "CancelQueued")
  /\ UNCHANGED <<objVars, handleVars, zeroHandles, queueVars, semaVars, obsVars,
                 histVars, localVars>>

PacketMatches(t, p) ==
  /\ p \in Observers
  /\ wait[p].handle = tHandle[t]
  /\ wait[p].key = tKey[t]

(* Mutant of QueuedMatches: the search gives up at the first other packet.  *)
HeadMatches(t) == {i \in {1} \cap DOMAIN packets : PacketMatches(t, packets[i])}

QueuedMatches(t) == {i \in DOMAIN packets : PacketMatches(t, packets[i])}

CancelQueued(t) ==
  /\ pc[t] = "CancelQueued"
  /\ \E i \in QueuedMatches(t) :
       /\ packets' = RemoveAt(packets, i)
       /\ ResetObserver(packets[i])
  /\ UNCHANGED <<objVars, handleVars, portVars, numEphemeral, interruptQueue,
                 arena, semaVars, wait, linked, histVars, pc, localVars>>

CancelQueuedDone(t) ==
  /\ pc[t] = "CancelQueued"
  /\ QueuedMatches(t) = {}
  /\ portLock' = None
  /\ cancelled' = cancelled \cup tSnap[t]
  /\ Return(t)
  /\ UNCHANGED <<objVars, handleVars, zeroHandles, queueVars, semaVars, obsVars,
                 delivered>>
-----------------------------------------------------------------------------
(* zx_port_wait.                                                            *)
Dequeue(t) ==
  /\ pc[t] = "idle"
  /\ portInTable
  /\ Goto(t, "Wait")
  /\ UNCHANGED <<objVars, handleVars, portVars, queueVars, semaVars, obsVars,
                 histVars, localVars>>

UnitAvailable == semaCount > 0

(* Semaphore::Wait: take a unit or block.                                   *)
Wait(t) ==
  /\ pc[t] = "Wait"
  /\ semaCount' = IF UnitAvailable THEN semaCount - 1 ELSE semaCount
  /\ semaWaitq' = IF UnitAvailable THEN semaWaitq ELSE semaWaitq \cup {t}
  /\ Goto(t, IF UnitAvailable THEN "DequeueInterrupt" ELSE "blocked")
  /\ UNCHANGED <<objVars, handleVars, portVars, queueVars, obsVars, histVars,
                 localVars>>

(* The deadline passes, or the thread is killed or suspended.               *)
Timeout(t) ==
  /\ pc[t] = "blocked"
  /\ semaWaitq' = semaWaitq \ {t}
  /\ Goto(t, "idle")
  /\ UNCHANGED <<objVars, handleVars, portVars, queueVars, semaCount, obsVars,
                 histVars, localVars>>

(* Interrupt packets, under the spinlock, come before all others.           *)
DequeueInterrupt(t) ==
  /\ pc[t] = "DequeueInterrupt"
  /\ BindToInterrupt /\ interruptQueue # <<>>
  /\ interruptQueue' = Tail(interruptQueue)
  /\ Goto(t, "idle")
  /\ UNCHANGED <<objVars, handleVars, portVars, packets, numEphemeral, arena,
                 semaVars, obsVars, histVars, localVars>>

NoInterrupt(t) ==
  /\ pc[t] = "DequeueInterrupt"
  /\ BindToInterrupt => interruptQueue = <<>>
  /\ Goto(t, "DequeuePacket")
  /\ UNCHANGED <<objVars, handleVars, portVars, queueVars, semaVars, obsVars,
                 histVars, localVars>>

DequeueUserPacket(t) ==
  /\ pc[t] = "DequeuePacket"
  /\ portLock = None
  /\ packets # <<>> /\ Head(packets) \in UserPackets
  /\ packets' = Tail(packets)
  /\ numEphemeral' = numEphemeral - 1
  /\ tPkt' = [tPkt EXCEPT ![t] = Head(packets)]
  /\ Goto(t, "Free")
  /\ UNCHANGED <<objVars, handleVars, portVars, interruptQueue, arena, semaVars,
                 obsVars, histVars, caller, tObj, tObs, argVars>>

(* Mutant of ReadIsEphemeral: read when the lock is dropped, through a      *)
(* pointer to the packet, which is part of its observer.                    *)
ReadUnlocked(t, p) == tObs' = [tObs EXCEPT ![t] = p]

(* port_packet->is_ephemeral() is read with the lock held, and the packet   *)
(* is not looked at any more once the lock is dropped.                      *)
ReadIsEphemeral(t, p) == UNCHANGED tObs

DequeueSignalPacket(t) ==
  /\ pc[t] = "DequeuePacket"
  /\ portLock = None
  /\ packets # <<>> /\ Head(packets) \in Observers
  /\ packets' = Tail(packets)
  /\ ResetObserver(Head(packets))
  /\ delivered' = delivered \cup {Head(packets)}
  /\ ReadIsEphemeral(t, Head(packets))
  /\ Goto(t, "idle")
  /\ UNCHANGED <<objVars, handleVars, portVars, numEphemeral, interruptQueue,
                 arena, semaVars, wait, linked, cancelled, caller, tObj, tPkt, argVars>>

(* The packet was cancelled after its unit was posted: wait again.          *)
DequeueSpurious(t) ==
  /\ pc[t] = "DequeuePacket"
  /\ portLock = None
  /\ packets = <<>>
  /\ Goto(t, "Wait")
  /\ UNCHANGED <<objVars, handleVars, portVars, queueVars, semaVars, obsVars,
                 histVars, localVars>>
-----------------------------------------------------------------------------
(* zx_port_queue: QueueUser allocates from the shared arena (an empty arena *)
(* is ZX_ERR_NO_MEMORY), then queues under the port's lock.                 *)
Alloc(t) ==
  /\ pc[t] = "idle"
  /\ portInTable
  /\ \E p \in UserPackets \ arena :
       /\ arena' = arena \cup {p}
       /\ tPkt' = [tPkt EXCEPT ![t] = p]
  /\ Goto(t, "QueueUser")
  /\ UNCHANGED <<objVars, handleVars, portVars, packets, numEphemeral,
                 interruptQueue, semaVars, obsVars, histVars, caller, tObj,
                 tObs, argVars>>

(* Mutant of PortFull: the limit is not checked.                            *)
NeverFull == FALSE

PortFull == numEphemeral > kMaxAllocatedPacketCountPerPort

QueueUser(t) ==
  /\ pc[t] = "QueueUser"
  /\ portLock = None
  /\ ~PortClosed /\ ~PortFull
  /\ packets' = Append(packets, tPkt[t])
  /\ numEphemeral' = numEphemeral + 1
  /\ tPkt' = [tPkt EXCEPT ![t] = None]
  /\ Goto(t, "Post")
  /\ UNCHANGED <<objVars, handleVars, portVars, interruptQueue, arena, semaVars,
                 obsVars, histVars, caller, tObj, tObs, argVars>>

QueueUserFails(t) ==        \* ZX_ERR_BAD_HANDLE, ZX_ERR_SHOULD_WAIT
  /\ pc[t] = "QueueUser"
  /\ portLock = None
  /\ PortClosed \/ PortFull
  /\ Goto(t, "Free")
  /\ UNCHANGED <<objVars, handleVars, portVars, queueVars, semaVars, obsVars,
                 histVars, localVars>>

(* PortPacket::Free, outside the lock; on_zero_handles then takes it again. *)
Free(t) ==
  /\ pc[t] \in {"Free", "zeroFree"}
  /\ arena' = arena \ {tPkt[t]}
  /\ tPkt' = [tPkt EXCEPT ![t] = None]
  /\ Goto(t, IF pc[t] = "Free" THEN "idle" ELSE "relockPackets")
  /\ UNCHANGED <<objVars, handleVars, portVars, packets, numEphemeral,
                 interruptQueue, semaVars, obsVars, histVars, caller, tObj,
                 tObs, argVars>>
-----------------------------------------------------------------------------
(* An interrupt bound to the port fires; its packet may still be queued.    *)
QueueInterruptPacket(t, i) ==
  /\ pc[t] = "idle"
  /\ BindToInterrupt
  /\ semaCount < MaxSemaCount
  /\ ~Contains(interruptQueue, i)
  /\ interruptQueue' = Append(interruptQueue, i)
  /\ Goto(t, "Post")
  /\ UNCHANGED <<objVars, handleVars, portVars, packets, numEphemeral, arena,
                 semaVars, obsVars, histVars, localVars>>

(* The interrupt is destroyed or unbound.                                   *)
RemoveInterruptPacket(i) ==
  /\ \E n \in DOMAIN interruptQueue :
       /\ interruptQueue[n] = i
       /\ interruptQueue' = RemoveAt(interruptQueue, n)
  /\ UNCHANGED <<objVars, handleVars, portVars, packets, numEphemeral, arena,
                 semaVars, obsVars, histVars, pc, localVars>>
-----------------------------------------------------------------------------
(* The last handle to the port is closed; on_zero_handles follows outside   *)
(* the handle table's lock.                                                 *)
ClosePort(t) ==
  /\ pc[t] = "idle"
  /\ portInTable
  /\ TableWritable
  /\ portInTable' = FALSE
  /\ Goto(t, "onZeroHandles")
  /\ UNCHANGED <<objVars, handleObj, handleGen, portVars, queueVars, semaVars,
                 obsVars, histVars, localVars>>

OnZeroHandles(t) ==
  /\ pc[t] = "onZeroHandles"
  /\ LockPort(t)
  /\ zeroHandles' = TRUE
  /\ Goto(t, "zeroPackets")
  /\ UNCHANGED <<objVars, handleVars, queueVars, semaVars, obsVars, histVars,
                 localVars>>

(* Mutant of DropPortLock: the guard is kept over the unlocked call.        *)
KeepPortLock == UNCHANGED portLock

(* guard.CallUnlocked releases the lock for the call, Relock takes it again. *)
DropPortLock == portLock' = None

Relock(t) ==
  /\ pc[t] \in {"relockPackets", "relockObservers"}
  /\ LockPort(t)
  /\ Goto(t, IF pc[t] = "relockPackets" THEN "zeroPackets" ELSE "zeroObservers")
  /\ UNCHANGED <<objVars, handleVars, zeroHandles, queueVars, semaVars, obsVars,
                 histVars, localVars>>

(* First loop: user packets are freed with the lock dropped.                *)
ZeroUserPacket(t) ==
  /\ pc[t] = "zeroPackets"
  /\ packets # <<>> /\ Head(packets) \in UserPackets
  /\ packets' = Tail(packets)
  /\ numEphemeral' = numEphemeral - 1
  /\ tPkt' = [tPkt EXCEPT ![t] = Head(packets)]
  /\ DropPortLock
  /\ Goto(t, "zeroFree")
  /\ UNCHANGED <<objVars, handleVars, zeroHandles, interruptQueue, arena,
                 semaVars, obsVars, histVars, caller, tObj, tObs, argVars>>

ZeroSignalPacket(t) ==
  /\ pc[t] = "zeroPackets"
  /\ packets # <<>> /\ Head(packets) \in Observers
  /\ packets' = Tail(packets)
  /\ ResetObserver(Head(packets))
  /\ UNCHANGED <<objVars, handleVars, portVars, numEphemeral, interruptQueue,
                 arena, semaVars, wait, linked, histVars, pc, localVars>>

PacketsDrained(t) ==
  \/ pc[t] = "zeroPackets" /\ packets = <<>>
  \/ pc[t] = "zeroObservers"

(* Second loop: each observer is unlinked under the lock, taken from its    *)
(* dispatcher with the lock dropped, and deleted.                           *)
ZeroObservers(t) ==
  /\ PacketsDrained(t)
  /\ \E x \in linked :
       /\ linked' = linked \ {x}
       /\ tObs' = [tObs EXCEPT ![t] = x]
  /\ DropPortLock
  /\ Goto(t, "RemoveObserver")
  /\ UNCHANGED <<objVars, handleVars, zeroHandles, queueVars, semaVars, wait,
                 ownerVars, histVars, caller, tObj, tPkt, argVars>>

RemoveObserver(t) ==
  LET x == tObs[t] IN
  /\ pc[t] = "RemoveObserver"
  /\ objLock[wait[x].obj] = None
  /\ Erase(wait[x].obj, x)
  /\ destroyed' = destroyed \cup {x}
  /\ tObs' = [tObs EXCEPT ![t] = None]
  /\ Goto(t, "relockObservers")
  /\ UNCHANGED <<signals, objLock, handleVars, portVars, queueVars, semaVars,
                 wait, linked, packetOwned, histVars, caller, tObj, tPkt,
                 argVars>>

(* Mutant of AllUnlinked: on_zero_handles leaves observers behind.          *)
StopEarly == TRUE

AllUnlinked == linked = {}

ZeroDone(t) ==
  /\ PacketsDrained(t)
  /\ AllUnlinked
  /\ portLock' = None
  /\ Goto(t, "idle")
  /\ UNCHANGED <<objVars, handleVars, zeroHandles, queueVars, semaVars, obsVars,
                 histVars, localVars>>
-----------------------------------------------------------------------------
Init ==
  /\ signals = [o \in Objects |-> {}]
  /\ observers = [o \in Objects |-> {}]
  /\ objLock = [o \in Objects |-> None]
  /\ handleObj = [h \in Handles |-> None]
  /\ handleGen = [h \in Handles |-> 0]
  /\ portInTable = TRUE
  /\ zeroHandles = FALSE /\ portLock = None
  /\ packets = <<>> /\ numEphemeral = 0
  /\ interruptQueue = <<>>
  /\ semaCount = 0 /\ semaWaitq = {}
  /\ arena = {}
  /\ wait = [x \in Observers |-> None]
  /\ linked = {} /\ packetOwned = {} /\ destroyed = {}
  /\ delivered = {} /\ cancelled = {}
  /\ pc = [t \in Threads |-> "idle"]
  /\ caller = [t \in Threads |-> None]
  /\ tObj = [t \in Threads |-> None]
  /\ tObs = [t \in Threads |-> None]
  /\ tPkt = [t \in Threads |-> None]
  /\ tHandle = [t \in Threads |-> None]
  /\ tKey = [t \in Threads |-> None]
  /\ tSnap = [t \in Threads |-> {}]

(* A system call, or an interrupt, begins.                                  *)
Begin(t) ==
  \/ \E h \in Handles, k \in Keys :
       \/ \E trigger \in (SUBSET Signals) \ {{}} : MakeObserver(t, h, k, trigger)
       \/ PortCancel(t, h, k)
  \/ \E o \in Objects, s \in Signals :
       UpdateState(t, o, {s}, {}) \/ UpdateState(t, o, {}, {s})
  \/ \E h \in Handles : CloseHandle(t, h)
  \/ Dequeue(t)
  \/ Alloc(t)
  \/ \E i \in InterruptPackets : QueueInterruptPacket(t, i)
  \/ ClosePort(t)

(* The steps a thread takes once a call has begun.                          *)
Step(t) ==
  \/ AddObserver(t) \/ AddObserverMatch(t)
  \/ FindSource(t) \/ SourceClosed(t) \/ LockForCancel(t)
  \/ UpdateStateLocked(t) \/ Cancel(t) \/ CancelByKey(t)
  \/ CallbacksDone(t) \/ CancelByKeyDone(t)
  \/ Queue(t) \/ PostCount(t) \/ (\E w \in Threads : PostWake(t, w))
  \/ MaybeReap(t)
  \/ LockForCancelQueued(t) \/ CancelQueued(t) \/ CancelQueuedDone(t)
  \/ Wait(t) \/ DequeueInterrupt(t) \/ NoInterrupt(t)
  \/ DequeueUserPacket(t) \/ DequeueSignalPacket(t) \/ DequeueSpurious(t)
  \/ QueueUser(t) \/ QueueUserFails(t) \/ Free(t)
  \/ OnZeroHandles(t) \/ Relock(t) \/ ZeroUserPacket(t) \/ ZeroSignalPacket(t)
  \/ ZeroObservers(t) \/ RemoveObserver(t) \/ ZeroDone(t)

Next ==
  \/ \E t \in Threads : Begin(t) \/ Step(t) \/ Timeout(t)
  \/ \E h \in Handles, o \in Objects : MakeHandle(h, o)
  \/ \E i \in InterruptPackets : RemoveInterruptPacket(i)

Spec == Init /\ [][Next]_vars

(* The scheduler runs every runnable thread, and a Mutex is handed to its   *)
(* waiters; nothing makes a thread enter the kernel, and no deadline has to *)
(* pass.                                                                    *)
FairSpec == Spec /\ \A t \in Threads : SF_vars(Step(t))
-----------------------------------------------------------------------------
Labels ==
  {"idle", "AddObserver", "AddObserverDone", "UpdateState", "lockCancel",
   "Cancel", "findSource", "lockCancelByKey", "CancelByKey",
   "lockCancelQueued", "CancelQueued", "Queue", "Post", "MaybeReap", "Wait",
   "blocked", "DequeueInterrupt", "DequeuePacket", "QueueUser", "Free",
   "onZeroHandles", "zeroPackets", "zeroFree", "relockPackets",
   "zeroObservers", "RemoveObserver", "relockObservers"}

ObjectTypes ==
  /\ signals \in [Objects -> SUBSET Signals]
  /\ observers \in [Objects -> SUBSET Observers]
  /\ objLock \in [Objects -> Threads \cup {None}]
  /\ handleObj \in [Handles -> Objects \cup {None}]
  /\ handleGen \in [Handles -> Nat]

PortTypes ==
  /\ portInTable \in BOOLEAN /\ zeroHandles \in BOOLEAN
  /\ portLock \in Threads \cup {None}
  /\ packets \in Seq(Observers \cup UserPackets)
  /\ numEphemeral \in Int
  /\ interruptQueue \in Seq(InterruptPackets)
  /\ semaCount \in Nat /\ semaWaitq \subseteq Threads
  /\ arena \subseteq UserPackets

ObserverTypes ==
  /\ wait \in [Observers -> WaitArgs \cup {None}]
  /\ linked \subseteq Observers
  /\ packetOwned \subseteq Observers /\ destroyed \subseteq Observers
  /\ delivered \subseteq Observers /\ cancelled \subseteq Observers

ThreadTypes ==
  /\ pc \in [Threads -> Labels]
  /\ caller \in [Threads -> Callers \cup {None}]
  /\ tObj \in [Threads -> Objects \cup {None}]
  /\ tObs \in [Threads -> Observers \cup {None}]
  /\ tPkt \in [Threads -> UserPackets \cup {None}]
  /\ tHandle \in [Threads -> Handles \cup {None}]
  /\ tKey \in [Threads -> Keys \cup {None}]
  /\ tSnap \in [Threads -> SUBSET Observers]

(* Every variable has its type. *)
TypeOK == ObjectTypes /\ PortTypes /\ ObserverTypes /\ ThreadTypes

(* No list, queue, packet or thread refers to a deleted PortObserver: the   *)
(* race of OnMatch/OnCancel with on_zero_handles and Dequeue never deletes  *)
(* an observer under somebody who still uses it (port_dispatcher.cc:191).   *)
NoUseAfterFree ==
  \A x \in destroyed :
    /\ ~Queued(x)
    /\ x \notin linked \cup packetOwned
    /\ \A o \in Objects : x \notin observers[o]
    /\ \A t \in Threads : tObs[t] # x

(* Every PortObserver that has not been deleted has exactly one party that  *)
(* will delete it: whoever unlinks its dispatcher, its queued packet, or    *)
(* on_zero_handles (port_dispatcher.cc:368).  So none leaks and none is     *)
(* deleted twice.                                                           *)
PacketOwns(x) == x \in packetOwned /\ Queued(x)

CloserOwns(x) == \E t \in Threads : pc[t] = "RemoveObserver" /\ tObs[t] = x

OneOwner ==
  \A x \in Made \ destroyed :
    \/ x \in linked /\ ~PacketOwns(x) /\ ~CloserOwns(x)
    \/ PacketOwns(x) /\ x \notin linked /\ ~CloserOwns(x)
    \/ CloserOwns(x) /\ x \notin linked /\ ~PacketOwns(x)

(* A wait fires at most once: an observer whose packet is queued or was     *)
(* delivered is never matched again, so the branch of Queue for a packet    *)
(* that is already in the queue is not reached by ZX_WAIT_ASYNC_ONCE.       *)
FiresOnce ==
  \A x \in Made :
    Queued(x) \/ x \in delivered =>
      /\ x \notin observers[wait[x].obj]
      /\ \A t \in Threads :
           pc[t] \in {"AddObserver", "Queue"} => tObs[t] # x

(* No signal is missed between the check of signals_ and the registration:  *)
(* an observer on the list of an unlocked dispatcher has no active trigger  *)
(* (dispatcher.cc:103).                                                     *)
NoMissedSignal ==
  \A o \in Objects :
    objLock[o] = None =>
      \A x \in observers[o] : wait[x].trigger \cap signals[o] = {}

(* Once zx_port_cancel has returned, the waits that were registered with    *)
(* the handle and key when it began are over: no packet of theirs is queued *)
(* or will be (port_dispatcher.cc:414, dispatcher.cc:165).                  *)
CancelIsFinal ==
  \A x \in cancelled :
    /\ ~Queued(x)
    /\ x \notin observers[wait[x].obj]
    /\ \A t \in Threads : pc[t] = "Queue" => tObs[t] # x

(* Threads that have taken or are about to post a unit of the semaphore for *)
(* a packet.                                                                *)
TokenHolders ==
  {t \in Threads : pc[t] \in {"Post", "DequeueInterrupt", "DequeuePacket"}}

(* No lost wakeup: the units posted or in hand are enough for every packet  *)
(* of both queues, and nobody is blocked while one is left, although        *)
(* packets are cancelled without taking back a unit and the post is made    *)
(* after the lock is dropped (port_dispatcher.cc:289, semaphore.cc:16).     *)
NoLostWakeup ==
  /\ semaCount + Cardinality(TokenHolders)
       >= Len(packets) + Len(interruptQueue)
  /\ semaWaitq # {} => semaCount = 0

(* num_ephemeral_packets_ counts the user packets in the queue, stays       *)
(* within one of its limit (the test is > and not >=), and every allocated  *)
(* slot of the arena is in the queue or in the hands of one thread that     *)
(* frees or queues it (port_dispatcher.cc:264).                             *)
PacketAccounting ==
  LET queued == {i \in DOMAIN packets : packets[i] \in UserPackets}
      held == {t \in Threads : tPkt[t] # None} IN
  /\ numEphemeral = Cardinality(queued)
  /\ numEphemeral <= kMaxAllocatedPacketCountPerPort + 1
  /\ Cardinality(arena) = Cardinality(queued) + Cardinality(held)
  /\ arena = {packets[i] : i \in queued} \cup {tPkt[t] : t \in held}

(* Where zx_port_wait waits for a unit and looks at the queues.             *)
WaitLoop == {"Wait", "blocked", "DequeueInterrupt", "DequeuePacket"}

(* Every call comes to an end or into the loop of zx_port_wait, which gets  *)
(* past the port's lock each time and blocks or takes another unit: no two  *)
(* threads wait for each other's lock (port_dispatcher.cc:199).  The loop   *)
(* itself has no bound: an interrupt that fires and is unbound over and     *)
(* over gives a reader units without packets.                               *)
CallsReturn ==
  \A t \in Threads :
    /\ pc[t] \notin WaitLoop \cup {"idle"} ~> pc[t] \in WaitLoop \cup {"idle"}
    /\ pc[t] = "DequeuePacket" ~> pc[t] # "DequeuePacket"

(* Closing the port ends in the deletion of every observer and packet, and  *)
(* none is added to it after that by a call that had looked the port up, so *)
(* that ~PortDispatcher finds what it asserts (port_dispatcher.cc:165).     *)
CloseReclaims == ~portInTable ~> [](Made = destroyed /\ packets = <<>>)
=============================================================================
