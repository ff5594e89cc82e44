---------------------------- MODULE PortInvariant ----------------------------
(* The inductive invariant behind the safety properties of Port: what each  *)
(* label says of the locals and locks of a thread, and who may still reach  *)
(* a PortObserver.                                                          *)
EXTENDS Port

(* The dispatcher is calling the observer back.                             *)
InCallback(t) ==
  \/ pc[t] \in {"Queue", "MaybeReap"}
  \/ pc[t] = "Post" /\ tObs[t] # None

HoldsObject(t) ==
  \/ InCallback(t)
  \/ pc[t] \in {"AddObserverDone", "UpdateState", "Cancel", "CancelByKey"}

UsesObject(t) ==
  \/ HoldsObject(t)
  \/ pc[t] \in {"AddObserver", "lockCancel", "lockCancelByKey"}

HoldsPort(t) == pc[t] \in {"CancelQueued", "zeroPackets", "zeroObservers"}

(* on_zero_handles past the store to zero_handles_; from the removal of the *)
(* handle on; and past the first loop.                                      *)
ClosedFlagSet(t) ==
  pc[t] \in {"zeroPackets", "zeroFree", "relockPackets", "zeroObservers",
             "RemoveObserver", "relockObservers"}

Closing(t) == pc[t] = "onZeroHandles" \/ ClosedFlagSet(t)

Drained(t) == pc[t] \in {"zeroObservers", "RemoveObserver", "relockObservers"}

(* What each label says about the locals of the thread.                     *)
LocalsOK ==
  \A t \in Threads :
    /\ pc[t] \in {"AddObserver", "Queue", "MaybeReap", "RemoveObserver"}
         => tObs[t] # None
    /\ tObs[t] # None =>
         pc[t] \in {"AddObserver", "Queue", "Post", "MaybeReap",
                    "RemoveObserver"}
    /\ InCallback(t) => caller[t] # None
    /\ UsesObject(t) => tObj[t] # None
    /\ pc[t] = "findSource" => tHandle[t] # None
    /\ pc[t] = "QueueUser" => tPkt[t] # None
    /\ t \in semaWaitq => pc[t] = "blocked"

(* A lock is held by the one thread whose label says so.                    *)
LocksOK ==
  /\ \A t \in Threads : HoldsObject(t) => objLock[tObj[t]] = t
  /\ \A t \in Threads : HoldsPort(t) => portLock = t

(* on_zero_handles runs once, leaves the queue empty for good, and does not *)
(* meet a zx_object_wait_async (lib/syscalls/object_wait.cc:196).           *)
CloseOK ==
  /\ zeroHandles => ~portInTable
  /\ \A t \in Threads :
       /\ Closing(t) => ~portInTable
       /\ ClosedFlagSet(t) => zeroHandles
       /\ Drained(t) => packets = <<>>
       /\ pc[t] = "AddObserver" => portInTable
       /\ \A u \in Threads : Closing(t) /\ Closing(u) => t = u

(* The observers whose packets are in queue q, each of them once.           *)
ObserversIn(q) == {x \in Observers : \E i \in DOMAIN q : q[i] = x}

Distinct(q) ==
  \A i, j \in DOMAIN q : q[i] = q[j] /\ q[i] \in Observers => i = j

QueuedObs == ObserversIn(packets)

(* Everything that names an observer names one that was made, and the       *)
(* parties that may delete it exclude one another.                          *)
OwnersOK ==
  /\ \A x \in linked : x \in Made /\ x \notin packetOwned \cup destroyed
  /\ \A x \in packetOwned : x \in QueuedObs /\ x \notin destroyed
  /\ \A x \in QueuedObs : x \in Made /\ x \notin destroyed
  /\ \A x \in delivered \cup destroyed : x \in Made
  /\ \A x \in Made : \/ x \in linked \cup packetOwned \cup destroyed
                     \/ CloserOwns(x)

(* An observer on a dispatcher's list has not fired and is not deleted.     *)
ListsOK ==
  \A o \in Objects : \A x \in observers[o] :
    /\ x \in Made /\ wait[x].obj = o
    /\ x \notin QueuedObs \cup delivered \cup destroyed \cup packetOwned

(* The observer a thread works on is its own while it does.                 *)
UsersOK ==
  \A t \in Threads : tObs[t] # None =>
    /\ tObs[t] \in Made /\ tObs[t] \notin destroyed \cup packetOwned
    /\ pc[t] # "RemoveObserver" =>
         /\ wait[tObs[t]].obj = tObj[t]
         /\ \A o \in Objects : tObs[t] \notin observers[o]
    /\ pc[t] \in {"AddObserver", "Queue"} =>
         tObs[t] \notin QueuedObs \cup delivered
    /\ pc[t] = "AddObserver" =>
         /\ tObs[t] \in linked
         /\ \A u \in Threads : tObs[u] = tObs[t] => u = t
    /\ pc[t] = "RemoveObserver" => tObs[t] \notin linked

(* The inductive invariant: every part above, and the types.                *)
PortInv ==
  /\ TypeOK /\ LocalsOK /\ LocksOK /\ CloseOK
  /\ Distinct(packets) /\ OwnersOK /\ ListsOK /\ UsersOK
-----------------------------------------------------------------------------
(* Who has the lock of an object is inside a section that it guards.        *)
LockHolders ==
  \A o \in Objects : objLock[o] # None =>
    HoldsObject(objLock[o]) /\ tObj[objLock[o]] = o

(* The loop of UpdateState, or a callback that returns to it.               *)
Updating(t) ==
  \/ pc[t] = "UpdateState"
  \/ InCallback(t) /\ caller[t] = "UpdateState"

(* A listed observer whose trigger is active is about to be called back by  *)
(* the thread that has the lock.                                            *)
TriggersOK ==
  \A o \in Objects : \A x \in observers[o] :
    wait[x].trigger \cap signals[o] # {} =>
      objLock[o] # None /\ Updating(objLock[o])

SignalInv == PortInv /\ LockHolders /\ TriggersOK
-----------------------------------------------------------------------------
(* The slots of the arena are told apart by how often they were allocated:  *)
(* a wait through the handle that is in the slot now is a wait on its       *)
(* object.                                                                  *)
GenerationsOK ==
  \A x \in Made : LET h == wait[x].handle IN
    /\ wait[x].gen <= handleGen[h]
    /\ handleObj[h] # None /\ wait[x].gen = handleGen[h] =>
         wait[x].obj = handleObj[h]

(* zx_port_cancel after it has found the source, with the table locked.     *)
Cancelling(t) ==
  \/ pc[t] \in {"lockCancelByKey", "CancelByKey", "lockCancelQueued", "CancelQueued"}
  \/ InCallback(t) /\ caller[t] = "CancelByKey"

(* The call that made the wait has still to put it on the list.             *)
Registering(x) == \E t \in Threads : pc[t] = "AddObserver" /\ tObs[t] = x

(* On no list, and nobody will put it on one or queue its packet.           *)
Dormant(x) ==
  /\ \A o \in Objects : x \notin observers[o]
  /\ ~Registering(x)
  /\ \A t \in Threads : pc[t] = "Queue" => tObs[t] # x

(* What a zx_port_cancel under way knows of the waits it is to end: once it *)
(* has left the object they are dormant, with at most a packet in the queue.*)
SnapsOK ==
  \A t \in Threads : \A x \in tSnap[t] :
    /\ Cancelling(t)
    /\ x \in Made /\ wait[x].handle = tHandle[t] /\ wait[x].key = tKey[t]
    /\ wait[x].obj = tObj[t]
    /\ ~Registering(x)
    /\ pc[t] \in {"lockCancelQueued", "CancelQueued"} => Dormant(x)

(* A cancelled wait is dormant, and its packet is not queued.               *)
CancelledOK ==
  \A x \in cancelled : x \in Made /\ Dormant(x) /\ x \notin QueuedObs

CancelInv == PortInv /\ GenerationsOK /\ SnapsOK /\ CancelledOK
-----------------------------------------------------------------------------
(* Threads whose unit may still serve an interrupt packet.                  *)
EarlyHolders == {t \in Threads : pc[t] \in {"Post", "DequeueInterrupt"}}

(* A reader that has found no interrupt packet gives its unit up when there *)
(* is no other either, so the other units have to cover the interrupts.     *)
UnitsOK ==
  /\ semaCount + Cardinality(EarlyHolders) >= Len(interruptQueue)
  /\ ~BindToInterrupt => interruptQueue = <<>>

UnitInv == PortInv /\ UnitsOK /\ NoLostWakeup
-----------------------------------------------------------------------------
(* The packets of the arena in queue q, and those in the hands of a thread. *)
SlotsIn(q) == {p \in UserPackets : \E i \in DOMAIN q : q[i] = p}

PacketHolders == {t \in Threads : tPkt[t] # None}

SlotsHeld == {tPkt[t] : t \in PacketHolders}

(* No packet is twice in the queue, or in two hands.                        *)
OncePerSlot(q) ==
  \A i, j \in DOMAIN q : q[i] = q[j] /\ q[i] \in UserPackets => i = j

HandsOK ==
  /\ \A t, u \in PacketHolders : tPkt[t] = tPkt[u] => t = u
  /\ \A t \in Threads :
       tPkt[t] # None <=> pc[t] \in {"QueueUser", "Free", "zeroFree"}

(* An allocated slot of the arena is in the queue or in a hand, and not in  *)
(* both.                                                                    *)
ArenaOK ==
  /\ arena = SlotsIn(packets) \cup SlotsHeld
  /\ SlotsIn(packets) \cap SlotsHeld = {}
  /\ numEphemeral = Cardinality(SlotsIn(packets))
  /\ numEphemeral <= kMaxAllocatedPacketCountPerPort + 1

PacketInv == PortInv /\ OncePerSlot(packets) /\ HandsOK /\ ArenaOK
=============================================================================
