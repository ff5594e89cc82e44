------------------------------ MODULE Channel ------------------------------
(***************************************************************************)
(* The channel kernel object (object/channel_dispatcher.cc), its system    *)
(* calls (lib/syscalls/channel.cc), the retry loop of zx_channel_call in   *)
(* the vDSO (system/ulib/zircon/zx_channel_call.cc) and the way its two    *)
(* handles move between the handle tables of processes.                    *)
(*                                                                         *)
(* Both endpoints share one lock, so each section under it is one step.    *)
(* What makes a channel hard lies between the steps: a system call looks   *)
(* its endpoint up in the handle table and takes the lock later, when the  *)
(* handle may be with another process or closed; and a zx_channel_call     *)
(* blocks with its MessageWaiter on the endpoint's list, where a reply,    *)
(* the close of either endpoint, its deadline, a suspension of its thread  *)
(* and the death of its process race for it.                               *)
(***************************************************************************)
EXTENDS Integers, Sequences, FiniteSets

CONSTANTS
  Processes,
  Threads,
  ProcessOf,      \* the process of each thread
  Messages,       \* MessagePackets (bounds the writes and calls)
  Mortal,         \* processes that may be killed
  NumTxids,       \* transaction ids of the kernel: 2^31 in the code
  MaxTransfers,   \* bound: times each handle is added to a handle table
  None

Endpoints == {0, 1}

Peer(e) == 1 - e

(* A message: the endpoint it was sent from, its transaction id (None for   *)
(* one of userspace's), the request it answers, whether zx_channel_call     *)
(* sent it.                                                                 *)
Packets ==
  [from : Endpoints, txid : (0 .. NumTxids - 1) \cup {None},
   answers : Messages \cup {None}, call : BOOLEAN]

ASSUME ChannelAssumption ==
  /\ ProcessOf \in [Threads -> Processes]
  /\ Mortal \subseteq Processes
  /\ NumTxids \in Nat \ {0}
  /\ MaxTransfers \in [Endpoints -> Nat]
  /\ None \notin Processes \cup Messages \cup Endpoints \cup Packets \cup Nat
  /\ {"kernel", "deleted"} \cap Processes = {}

VARIABLES
  hasPeer,    \* PeeredDispatcher::peer_ is set, per endpoint
  messages,   \* messages_
  waiters,    \* waiters_: the threads whose MessageWaiter is on the list
  owner,      \* owner_
  txid,       \* txid_, of which only the low 31 bits reach a message
  signals,    \* signals_
  handle,     \* where the endpoint's only handle is: in a process's table,
              \* in the kernel's hands ("kernel") or "deleted"
  destroyed,  \* endpoints that have been destructed
  wChannel,   \* MessageWaiter::channel_ of each thread's waiter
  wMsg,       \* MessageWaiter::msg_
  wTxid,      \* MessageWaiter::txid_
  wStatus,    \* MessageWaiter::status_ and with it the result of event_,
              \* which is unsignalled while this is ZX_ERR_TIMED_OUT
  pc,         \* where each thread is
  tEnd,       \* the endpoint of its system call
  tMsg,       \* the message its system call sends
  killed,     \* processes that are dying
  packet,     \* contents of each message, None before it is made
  fate,       \* history: what became of each message
  transfers,  \* history: times the handle was added to a handle table
  receipt,    \* history: the transfer that last gave a process the handle
  lastUse     \* history: the receipt by which the endpoint was last used

endVars    == <<hasPeer, owner, txid>>
queueVars  == <<messages, signals>>
handleVars == <<handle, transfers, receipt>>
waitVars   == <<waiters, wChannel, wMsg, wTxid, wStatus>>
msgVars    == <<packet, fate>>
callVars   == <<tEnd, tMsg>>
vars == <<endVars, queueVars, handleVars, destroyed, waitVars, pc, callVars,
          killed, msgVars, lastUse>>

(* A thread inside zx_channel_call after its message was written.           *)
InCall(t) == pc[t] \in {"waiting", "retry", "woken", "expired"}
-----------------------------------------------------------------------------
Goto(t, label) == pc' = [pc EXCEPT ![t] = label]

(* Return to userspace: the locals of the system call go out of scope.      *)
Return(t) ==
  /\ Goto(t, "idle")
  /\ tEnd' = [tEnd EXCEPT ![t] = None]
  /\ tMsg' = [tMsg EXCEPT ![t] = None]

(* The state ChannelDispatcher::Create leaves: two endpoints, no handle in  *)
(* any handle table yet.                                                    *)
Init ==
  /\ hasPeer = [e \in Endpoints |-> TRUE]
  /\ messages = [e \in Endpoints |-> <<>>]
  /\ waiters = [e \in Endpoints |-> {}]
  /\ owner = [e \in Endpoints |-> None]
  /\ txid = [e \in Endpoints |-> 0]
  /\ signals = [e \in Endpoints |-> {"WRITABLE"}]
  /\ handle = [e \in Endpoints |-> "kernel"]
  /\ destroyed = {}
  /\ wChannel = [t \in Threads |-> None]
  /\ wMsg = [t \in Threads |-> None]
  /\ wTxid = [t \in Threads |-> None]
  /\ wStatus = [t \in Threads |-> "BAD_STATE"]
  /\ pc = [t \in Threads |-> "idle"]
  /\ tEnd = [t \in Threads |-> None]
  /\ tMsg = [t \in Threads |-> None]
  /\ killed = {}
  /\ packet = [m \in Messages |-> None]
  /\ fate = [m \in Messages |-> "unmade"]
  /\ transfers = [e \in Endpoints |-> 0]
  /\ receipt = [e \in Endpoints |-> [p \in Processes |-> 0]]
  /\ lastUse = [e \in Endpoints |-> 0]
-----------------------------------------------------------------------------
(* Handles.                                                                 *)

ThreadsOf(p) == {t \in Threads : ProcessOf[t] = p}

SetOwner(e, p) == owner' = [owner EXCEPT ![e] = p]

(* AddHandle: the endpoint's owner changes and the handle enters the table  *)
(* of p, under the lock of that table.                                      *)
AddHandle(e, p) ==
  /\ handle[e] = "kernel"
  /\ \E t \in ThreadsOf(p) : pc[t] # "dead"
  /\ transfers[e] < MaxTransfers[e]
  /\ SetOwner(e, p)
  /\ handle' = [handle EXCEPT ![e] = p]
  /\ transfers' = [transfers EXCEPT ![e] = @ + 1]
  /\ receipt' = [receipt EXCEPT ![e][p] = transfers[e] + 1]
  /\ UNCHANGED <<hasPeer, txid, queueVars, destroyed, waitVars, pc, callVars,
                 killed, msgVars, lastUse>>

(* The handle leaves its table, to be closed or to travel in a message of   *)
(* another channel; set_owner ignores ZX_KOID_INVALID.  A thread of the     *)
(* process does this, or the death of the process.                          *)
RemoveHandle(e) ==
  /\ handle[e] \in Processes
  /\ \/ \E t \in ThreadsOf(handle[e]) : pc[t] = "idle"
     \/ \A t \in ThreadsOf(handle[e]) : pc[t] = "dead"
  /\ handle' = [handle EXCEPT ![e] = "kernel"]
  /\ UNCHANGED <<endVars, queueVars, transfers, receipt, destroyed, waitVars,
                 pc, callVars, killed, msgVars, lastUse>>

(* The waiters on_zero_handles_locked cancels on the closed endpoint, and   *)
(* those OnPeerZeroHandlesLocked cancels on its peer.                       *)
OwnWaiters(e) == waiters[e]

NoPeerWaiters(e) == {}

PeerWaiters(e) == IF hasPeer[e] THEN waiters[Peer(e)] ELSE {}

OnPeerZeroSignals(s) == (s \ {"WRITABLE"}) \cup {"PEER_CLOSED"}

(* The handle is deleted and with it its last reference from a handle:      *)
(* PeeredDispatcher::on_zero_handles.                                       *)
OnZeroHandles(e) ==
  /\ handle[e] = "kernel"
  /\ handle' = [handle EXCEPT ![e] = "deleted"]
  /\ hasPeer' = [d \in Endpoints |-> IF d = e THEN FALSE
                                     ELSE hasPeer[d] /\ ~hasPeer[e]]
  /\ waiters' = [d \in Endpoints |->
       IF d = e THEN waiters[d] \ OwnWaiters(e)
       ELSE waiters[d] \ PeerWaiters(e)]
  /\ wStatus' = [t \in Threads |->
       CASE t \in OwnWaiters(e) -> "CANCELED"
         [] t \in PeerWaiters(e) \ OwnWaiters(e) -> "PEER_CLOSED"
         [] OTHER -> wStatus[t]]
  /\ signals' = [signals EXCEPT ![Peer(e)] =
       IF hasPeer[e] THEN OnPeerZeroSignals(@) ELSE @]
  /\ UNCHANGED <<owner, txid, messages, transfers, receipt, destroyed,
                 wChannel, wMsg, wTxid, pc, callVars, killed, msgVars,
                 lastUse>>

(* The destructor, when neither a handle, a system call, a waiter nor the   *)
(* peer refers to the endpoint: what is left in its queue is discarded.     *)
Destroy(e) ==
  /\ handle[e] = "deleted" /\ e \notin destroyed
  /\ ~hasPeer[Peer(e)]
  /\ \A t \in Threads : tEnd[t] # e /\ wChannel[t] # e
  /\ destroyed' = destroyed \cup {e}
  /\ messages' = [messages EXCEPT ![e] = <<>>]
  /\ fate' = [m \in Messages |->
       IF \E i \in DOMAIN messages[e] : messages[e][i] = m
       THEN "discarded" ELSE fate[m]]
  /\ UNCHANGED <<endVars, signals, handleVars, waitVars, pc, callVars, killed,
                 packet, lastUse>>
-----------------------------------------------------------------------------
(* zx_channel_read, zx_channel_write and zx_channel_call up to the lock:    *)
(* the endpoint is looked up in the handle table of the process.            *)
Lookup(t, e) ==
  /\ pc[t] = "idle"
  /\ handle[e] = ProcessOf[t]
  /\ tEnd' = [tEnd EXCEPT ![t] = e]

StartRead(t, e) ==
  /\ Lookup(t, e)
  /\ Goto(t, "Read")
  /\ UNCHANGED <<endVars, queueVars, handleVars, destroyed, waitVars, tMsg,
                 killed, msgVars, lastUse>>

(* A message is made.  The programs keep the rules of channel_call.md: a    *)
(* reply carries the transaction id of the request it answers, any other    *)
(* message one of userspace's.                                              *)
MakeMessage(t, e, m, r, isCall) ==
  /\ packet[m] = None
  /\ packet' = [packet EXCEPT ![m] =
       [from |-> e, txid |-> IF r = None THEN None ELSE packet[r].txid,
        answers |-> r, call |-> isCall]]
  /\ fate' = [fate EXCEPT ![m] = "made"]
  /\ tMsg' = [tMsg EXCEPT ![t] = m]

Answerable(e, r) ==
  /\ packet[r] # None /\ fate[r] = "received"
  /\ packet[r].from = Peer(e) /\ packet[r].call

StartWrite(t, e, m, r) ==
  /\ Lookup(t, e)
  /\ r # None => Answerable(e, r)
  /\ MakeMessage(t, e, m, r, FALSE)
  /\ Goto(t, "Write")
  /\ UNCHANGED <<endVars, queueVars, handleVars, destroyed, waitVars, killed,
                 lastUse>>

StartCall(t, e, m) ==
  /\ Lookup(t, e)
  /\ MakeMessage(t, e, m, None, TRUE)
  /\ Goto(t, "Call")
  /\ UNCHANGED <<endVars, queueVars, handleVars, destroyed, waitVars, killed,
                 lastUse>>
-----------------------------------------------------------------------------
AnyOwner(t) == TRUE

IsOwner(t) == owner[tEnd[t]] = ProcessOf[t]

(* The process of t uses the endpoint, by the handle it last received.      *)
Use(t) == lastUse' = [lastUse EXCEPT ![tEnd[t]] = receipt[tEnd[t]][ProcessOf[t]]]

(* The signals of an endpoint whose queue Read has left with these messages. *)
AfterPop(s, queue) == IF queue = <<>> THEN s \ {"READABLE"} ELSE s

(* A message taken off the channel is copied out to the program if it fits, *)
(* and destroyed if it does not.                                            *)
ReadOut(fits) == IF fits THEN "received" ELSE "discarded"

(* Read fails: the endpoint has another owner, there is no message, or it   *)
(* does not fit and stays.                                                  *)
ReadFails(t, fits, mayDiscard) ==
  /\ pc[t] = "Read"
  /\ \/ ~IsOwner(t)
     \/ messages[tEnd[t]] = <<>>
     \/ ~fits /\ ~mayDiscard
  /\ Return(t)
  /\ UNCHANGED <<endVars, queueVars, handleVars, destroyed, waitVars, killed,
                 msgVars, lastUse>>

(* Read takes the first message; one that does not fit is discarded.        *)
Read(t, fits, mayDiscard) ==
  LET e == tEnd[t] IN
  /\ pc[t] = "Read"
  /\ IsOwner(t) /\ messages[e] # <<>>
  /\ fits \/ mayDiscard
  /\ messages' = [messages EXCEPT ![e] = Tail(@)]
  /\ signals' = [signals EXCEPT ![e] = AfterPop(@, Tail(messages[e]))]
  /\ fate' = [fate EXCEPT ![Head(messages[e])] = ReadOut(fits)]
  /\ Use(t)
  /\ Return(t)
  /\ UNCHANGED <<endVars, handleVars, destroyed, waitVars, killed, packet>>

AnyWaiter(d, x) == {w \in waiters[d] : x # None}

(* The waiters of d a message with transaction id x is for.                 *)
Matches(d, x) == {w \in waiters[d] : wTxid[w] = x}

(* WriteSelf on endpoint d: the message goes to the waiter of its           *)
(* transaction id, MessageWaiter::Deliver, or else to the queue.  The       *)
(* arguments list and status are waiters_ and status_ as the caller has     *)
(* left them.  The diagnostics at kMaxPendingMessageCount are left out.     *)
WriteSelf(d, m, x, list, status) ==
  \/ \E w \in Matches(d, x) :
       /\ waiters' = [list EXCEPT ![d] = @ \ {w}]
       /\ wMsg' = [wMsg EXCEPT ![w] = m]
       /\ wStatus' = [status EXCEPT ![w] = "OK"]
       /\ UNCHANGED queueVars
  \/ /\ Matches(d, x) = {}
     /\ messages' = [messages EXCEPT ![d] = Append(@, m)]
     /\ signals' = [signals EXCEPT ![d] = @ \cup {"READABLE"}]
     /\ waiters' = list
     /\ wStatus' = status
     /\ UNCHANGED wMsg

(* Write fails: the endpoint has another owner or no peer.                  *)
WriteFails(t) ==
  /\ pc[t] = "Write"
  /\ ~IsOwner(t) \/ ~hasPeer[tEnd[t]]
  /\ fate' = [fate EXCEPT ![tMsg[t]] = "failed"]
  /\ Return(t)
  /\ UNCHANGED <<endVars, queueVars, handleVars, destroyed, waitVars, killed,
                 packet, lastUse>>

Write(t) ==
  /\ pc[t] = "Write"
  /\ IsOwner(t) /\ hasPeer[tEnd[t]]
  /\ WriteSelf(Peer(tEnd[t]), tMsg[t], packet[tMsg[t]].txid, waiters, wStatus)
  /\ fate' = [fate EXCEPT ![tMsg[t]] = "landed"]
  /\ Use(t)
  /\ Return(t)
  /\ UNCHANGED <<endVars, handleVars, destroyed, wChannel, wTxid, killed,
                 packet>>
-----------------------------------------------------------------------------
(* Call when BeginWait finds the waiter of the thread in use: the process   *)
(* is killed, and the thread dies on its way back to userspace.             *)
CallShot(t) ==
  /\ pc[t] = "Call"
  /\ wChannel[t] # None
  /\ killed' = killed \cup {ProcessOf[t]}
  /\ fate' = [fate EXCEPT ![tMsg[t]] = "failed"]
  /\ Goto(t, "shot")
  /\ tEnd' = [tEnd EXCEPT ![t] = None]
  /\ tMsg' = [tMsg EXCEPT ![t] = None]
  /\ UNCHANGED <<endVars, queueVars, handleVars, destroyed, waitVars, packet,
                 lastUse>>

(* Call with another owner: it returns after BeginWait, without EndWait.    *)
CallNotOwner(t) ==
  /\ pc[t] = "Call"
  /\ wChannel[t] = None
  /\ ~IsOwner(t)
  /\ wChannel' = [wChannel EXCEPT ![t] = tEnd[t]]
  /\ wStatus' = [wStatus EXCEPT ![t] = "TIMED_OUT"]
  /\ fate' = [fate EXCEPT ![tMsg[t]] = "failed"]
  /\ Return(t)
  /\ UNCHANGED <<endVars, queueVars, handleVars, destroyed, waiters, wMsg,
                 wTxid, killed, packet, lastUse>>

(* Call on an endpoint without a peer: BeginWait and EndWait.               *)
CallPeerClosed(t) ==
  /\ pc[t] = "Call"
  /\ wChannel[t] = None
  /\ IsOwner(t) /\ ~hasPeer[tEnd[t]]
  /\ wStatus' = [wStatus EXCEPT ![t] = "TIMED_OUT"]
  /\ fate' = [fate EXCEPT ![tMsg[t]] = "failed"]
  /\ Return(t)
  /\ UNCHANGED <<endVars, queueVars, handleVars, destroyed, waiters, wChannel,
                 wMsg, wTxid, killed, packet, lastUse>>

TxidAfter(x, k) == (x + k) % NumTxids

TxidUnchecked(e, x) == TRUE

TxidFree(e, x) == \A w \in waiters[e] : wTxid[w] # x

(* Call: the next transaction id no waiter of the endpoint has is put into  *)
(* the waiter and the message, the waiter is put on the list, and the       *)
(* message is written to the peer.                                          *)
Call(t) ==
  LET e == tEnd[t]  m == tMsg[t] IN
  /\ pc[t] = "Call"
  /\ wChannel[t] = None
  /\ IsOwner(t) /\ hasPeer[e]
  /\ \E k \in 1 .. NumTxids :
       LET x == TxidAfter(txid[e], k) IN
       /\ TxidFree(e, x)
       /\ \A j \in 1 .. (k - 1) : ~TxidFree(e, TxidAfter(txid[e], j))
       /\ txid' = [txid EXCEPT ![e] = x]
       /\ wTxid' = [wTxid EXCEPT ![t] = x]
       /\ packet' = [packet EXCEPT ![m].txid = x]
       /\ WriteSelf(Peer(e), m, x, [waiters EXCEPT ![e] = @ \cup {t}],
                    [wStatus EXCEPT ![t] = "TIMED_OUT"])
  /\ wChannel' = [wChannel EXCEPT ![t] = e]
  /\ fate' = [fate EXCEPT ![m] = "landed"]
  /\ Use(t)
  /\ Goto(t, "waiting")
  /\ UNCHANGED <<hasPeer, owner, handleVars, destroyed, callVars, killed>>
-----------------------------------------------------------------------------
(* MessageWaiter::Wait returns: the event is signalled or the process is    *)
(* dying; the deadline passes; or the thread is suspended and leaves for    *)
(* userspace with ZX_ERR_INTERNAL_INTR_RETRY.                               *)
Signalled(t) == wStatus[t] # "TIMED_OUT"

Woken(t) ==
  /\ pc[t] = "waiting"
  /\ Signalled(t) \/ ProcessOf[t] \in killed
  /\ Goto(t, "woken")
  /\ UNCHANGED <<endVars, queueVars, handleVars, destroyed, waitVars,
                 callVars, killed, msgVars, lastUse>>

Expires(t) ==
  /\ pc[t] = "waiting"
  /\ ~Signalled(t)
  /\ Goto(t, "expired")
  /\ UNCHANGED <<endVars, queueVars, handleVars, destroyed, waitVars,
                 callVars, killed, msgVars, lastUse>>

Interrupted(t) ==
  /\ pc[t] = "waiting"
  /\ ~Signalled(t) /\ ProcessOf[t] \notin killed
  /\ Goto(t, "retry")
  /\ UNCHANGED <<endVars, queueVars, handleVars, destroyed, waitVars,
                 callVars, killed, msgVars, lastUse>>

(* zx_channel_call_finish, which the vDSO calls after an interruption.      *)
CallFinish(t) ==
  /\ pc[t] = "retry"
  /\ wChannel[t] # None
  /\ tEnd' = [tEnd EXCEPT ![t] = wChannel[t]]
  /\ Goto(t, "waiting")
  /\ UNCHANGED <<endVars, queueVars, handleVars, destroyed, waitVars, tMsg,
                 killed, msgVars, lastUse>>

(* What EndWait returns, and the waiter ResumeInterruptedCall then erases.  *)
WaitStatus(t) == IF pc[t] = "expired" THEN "TIMED_OUT" ELSE wStatus[t]

EndStatus(t) == wStatus[t]

NotErased(t) == {}

Erased(t) == IF EndStatus(t) = "TIMED_OUT" THEN {t} ELSE {}

(* ResumeInterruptedCall after the wait, and channel_call_epilogue, which   *)
(* discards a reply that does not fit.                                      *)
ResumeInterruptedCall(t, fits) ==
  /\ pc[t] \in {"woken", "expired"}
  /\ waiters' = [waiters EXCEPT ![tEnd[t]] = @ \ Erased(t)]
  /\ wChannel' = [wChannel EXCEPT ![t] = None]
  /\ wMsg' = [wMsg EXCEPT ![t] = None]
  /\ fate' = IF EndStatus(t) = "OK"
             THEN [fate EXCEPT ![wMsg[t]] = ReadOut(fits)]
             ELSE fate
  /\ Return(t)
  /\ UNCHANGED <<endVars, queueVars, handleVars, destroyed, wTxid, wStatus,
                 killed, packet, lastUse>>
-----------------------------------------------------------------------------
(* zx_task_kill on a process, or its zx_process_exit.                       *)
Kill(p) ==
  /\ p \in Mortal \ killed
  /\ killed' = killed \cup {p}
  /\ UNCHANGED <<endVars, queueVars, handleVars, destroyed, waitVars, pc,
                 callVars, msgVars, lastUse>>

(* A thread of a dying process exits when it is in, or about to return to,  *)
(* userspace, which includes the retry loop of the vDSO.                    *)
Exit(t) ==
  /\ ProcessOf[t] \in killed
  /\ pc[t] \in {"idle", "retry", "shot"}
  /\ Goto(t, "dead")
  /\ tEnd' = [tEnd EXCEPT ![t] = None]
  /\ tMsg' = [tMsg EXCEPT ![t] = None]
  /\ UNCHANGED <<endVars, queueVars, handleVars, destroyed, waitVars, killed,
                 msgVars, lastUse>>

(* The thread object goes, and with it its MessageWaiter, which leaves the  *)
(* list of its channel; a reply it never fetched is discarded.              *)
RemoveWaiter(t) ==
  /\ pc[t] = "dead"
  /\ wChannel[t] # None
  /\ waiters' = [waiters EXCEPT ![wChannel[t]] = @ \ {t}]
  /\ wChannel' = [wChannel EXCEPT ![t] = None]
  /\ fate' = IF wMsg[t] # None THEN [fate EXCEPT ![wMsg[t]] = "discarded"]
             ELSE fate
  /\ wMsg' = [wMsg EXCEPT ![t] = None]
  /\ UNCHANGED <<endVars, queueVars, handleVars, destroyed, wTxid, wStatus,
                 pc, callVars, killed, packet, lastUse>>
-----------------------------------------------------------------------------
Next ==
  \/ \E e \in Endpoints :
       \/ \E p \in Processes : AddHandle(e, p)
       \/ RemoveHandle(e)
       \/ OnZeroHandles(e)
       \/ Destroy(e)
  \/ \E t \in Threads, e \in Endpoints :
       \/ StartRead(t, e)
       \/ \E m \in Messages : \/ \E r \in Messages \cup {None} : StartWrite(t, e, m, r)
                              \/ StartCall(t, e, m)
  \/ \E t \in Threads :
       \/ \E fits, mayDiscard \in BOOLEAN : \/ ReadFails(t, fits, mayDiscard)
                                            \/ Read(t, fits, mayDiscard)
       \/ WriteFails(t)
       \/ Write(t)
       \/ CallShot(t)
       \/ CallNotOwner(t)
       \/ CallPeerClosed(t)
       \/ Call(t)
       \/ Woken(t)
       \/ Expires(t)
       \/ Interrupted(t)
       \/ CallFinish(t)
       \/ \E fits \in BOOLEAN : ResumeInterruptedCall(t, fits)
       \/ Exit(t)
       \/ RemoveWaiter(t)
  \/ \E p \in Processes : Kill(p)

(* A thread that can run inside a call does run, and a suspended one is     *)
(* resumed.  Deadlines may be infinite, so nothing is assumed of Expires.   *)
CallSteps(t) ==
  \/ CallShot(t) \/ CallNotOwner(t) \/ CallPeerClosed(t) \/ Call(t)
  \/ Woken(t) \/ CallFinish(t)
  \/ \E fits \in BOOLEAN : ResumeInterruptedCall(t, fits)

Spec == Init /\ [][Next]_vars

FairSpec == Spec /\ \A t \in Threads : WF_vars(CallSteps(t))
-----------------------------------------------------------------------------
Statuses == {"BAD_STATE", "TIMED_OUT", "OK", "CANCELED", "PEER_CLOSED"}

Labels == {"idle", "Read", "Write", "Call", "waiting", "retry", "woken",
           "expired", "shot", "dead"}

TypeOK ==
  /\ hasPeer \in [Endpoints -> BOOLEAN]
  /\ messages \in [Endpoints -> Seq(Messages)]
  /\ waiters \in [Endpoints -> SUBSET Threads]
  /\ owner \in [Endpoints -> Processes \cup {None}]
  /\ txid \in [Endpoints -> 0 .. NumTxids - 1]
  /\ signals \in [Endpoints -> SUBSET {"READABLE", "WRITABLE", "PEER_CLOSED"}]
  /\ handle \in [Endpoints -> Processes \cup {"kernel", "deleted"}]
  /\ destroyed \subseteq Endpoints
  /\ wChannel \in [Threads -> Endpoints \cup {None}]
  /\ wMsg \in [Threads -> Messages \cup {None}]
  /\ wTxid \in [Threads -> (0 .. NumTxids - 1) \cup {None}]
  /\ wStatus \in [Threads -> Statuses]
  /\ pc \in [Threads -> Labels]
  /\ tEnd \in [Threads -> Endpoints \cup {None}]
  /\ tMsg \in [Threads -> Messages \cup {None}]
  /\ killed \subseteq Processes
  /\ packet \in [Messages -> Packets \cup {None}]
  /\ fate \in [Messages -> {"unmade", "made", "failed", "landed", "received",
                            "discarded"}]
  /\ transfers \in [Endpoints -> Nat]
  /\ receipt \in [Endpoints -> [Processes -> Nat]]
  /\ lastUse \in [Endpoints -> Nat]

(* What the DEBUG_ASSERTs of MessageWaiter rely on: a waiter on a list is   *)
(* in use on that endpoint, unanswered, and its thread is inside the call   *)
(* or died in it.  BeginWait therefore never meets a listed waiter, and     *)
(* Deliver and Cancel never one without a channel or one already answered.  *)
ListedWaiters ==
  \A e \in Endpoints : \A t \in waiters[e] :
    /\ wChannel[t] = e /\ wMsg[t] = None /\ ~Signalled(t)
    /\ InCall(t) \/ pc[t] = "dead"

(* A thread inside zx_channel_call that has no answer yet can still get     *)
(* one: it is on the list of its endpoint, and neither endpoint has been    *)
(* closed (closing cancels it, whatever the thread is doing then).          *)
NoStrandedCaller ==
  \A t \in Threads :
    InCall(t) /\ ~Signalled(t) =>
      /\ t \in waiters[tEnd[t]]
      /\ hasPeer[tEnd[t]]
      /\ \A e \in Endpoints : handle[e] # "deleted"

(* Calls pending on one endpoint have different transaction ids, also when  *)
(* the counter has wrapped around (the alloc_txid loop of Call).            *)
UniqueTxids ==
  \A e \in Endpoints : \A t, u \in waiters[e] :
    wTxid[t] = wTxid[u] => t = u

(* The requests of endpoint e that were given a transaction id.             *)
Requests(e) == {m \in Messages :
  /\ packet[m] # None /\ packet[m].call
  /\ packet[m].from = e /\ packet[m].txid # None}

(* What the caller t got is a request of the peer's owner that was given    *)
(* the transaction id of t's own: each endpoint has a counter of its own.   *)
CrossingCall(t) ==
  /\ packet[wMsg[t]].call
  /\ packet[wMsg[t]].from = Peer(tEnd[t])
  /\ packet[wMsg[t]].txid = packet[tMsg[t]].txid

(* While the counter of its endpoint has not wrapped around, what a call    *)
(* gets is the reply to its own request, not to that of another thread or   *)
(* of an earlier call of its own that timed out.  WriteSelf looks at the    *)
(* transaction id alone, so there is one exception: when the owners of both *)
(* endpoints use zx_channel_call, the request of one may be taken for the   *)
(* reply to the other's.                                                    *)
ReplyAnswersCall ==
  \A t \in Threads :
    InCall(t) /\ wMsg[t] # None /\ Cardinality(Requests(tEnd[t])) <= NumTxids =>
      packet[wMsg[t]].answers = tMsg[t] \/ CrossingCall(t)

Places(m) ==
  (UNION {{<<e, i>> : i \in {j \in DOMAIN messages[e] : messages[e][j] = m}} :
          e \in Endpoints})
  \cup {<<t, 0>> : t \in {u \in Threads : wMsg[u] = m}}

(* A message that Write or Call accepted is in exactly one place, one queue *)
(* or one waiter, until a program receives it or something discards it: a   *)
(* reply that meets the deadline is neither lost nor delivered twice.       *)
MessageConservation ==
  \A m \in Messages :
    Cardinality(Places(m)) = IF fate[m] = "landed" THEN 1 ELSE 0

(* READABLE is asserted exactly while there is a message to read, and an    *)
(* open endpoint asserts PEER_CLOSED, and not WRITABLE, exactly when its    *)
(* peer has been closed.                                                    *)
SignalsMatch ==
  \A e \in Endpoints :
    /\ e \notin destroyed => ("READABLE" \in signals[e] <=> messages[e] # <<>>)
    /\ handle[e] # "deleted" =>
         /\ "PEER_CLOSED" \in signals[e] <=> handle[Peer(e)] = "deleted"
         /\ "WRITABLE" \in signals[e] <=> handle[Peer(e)] # "deleted"

(* Reads, writes and calls of successive owners of an endpoint take effect  *)
(* in the order in which they received it: none of a previous owner's, even *)
(* one in progress when the handle moved, follows one of a later owner.     *)
OwnerOrder == [][\A e \in Endpoints : lastUse'[e] >= lastUse[e]]_vars

(* A call returns once it is answered or its peer is gone, however often    *)
(* its thread is suspended meanwhile.                                       *)
CallReturns ==
  \A t \in Threads :
    (\/ InCall(t) /\ wMsg[t] # None
     \/ pc[t] \in {"Call", "waiting", "retry", "woken", "expired"}
        /\ \E e \in Endpoints : tEnd[t] = e /\ ~hasPeer[e])
      ~> (pc[t] \in {"idle", "shot", "dead"})

(* The comment in Call that only a violation of the vDSO's contract makes   *)
(* BeginWait fail: here every thread keeps the contract, so no process      *)
(* would be shot.                                                           *)
OnlyViolatorsShot == \A t \in Threads : pc[t] # "shot"
-----------------------------------------------------------------------------
(* The parts of the inductive invariant the proofs use.                     *)

(* The locals of a thread that is inside a system call.                     *)
Locals ==
  \A t \in Threads :
    /\ pc[t] \in {"Read", "Write", "Call"} => tEnd[t] \in Endpoints
    /\ pc[t] \in {"Write", "Call"} =>
         tMsg[t] \in Messages /\ packet[tMsg[t]] # None

(* A thread inside a call has its waiter in use on the endpoint it called,  *)
(* and on the list there until it is answered.                              *)
CallerListed ==
  \A t \in Threads : InCall(t) =>
    /\ tEnd[t] \in Endpoints /\ wChannel[t] = tEnd[t]
    /\ ~Signalled(t) => t \in waiters[tEnd[t]]

(* A waiter that is not in use holds no message.                            *)
IdleWaiters == \A t \in Threads : wChannel[t] = None => wMsg[t] = None

(* Both endpoints have their peer until one handle is deleted; from then on *)
(* neither has a peer or a waiter.                                          *)
PeersAgree ==
  \A e \in Endpoints :
    /\ hasPeer[e] <=> handle[0] # "deleted" /\ handle[1] # "deleted"
    /\ ~hasPeer[e] => waiters[e] = {}

(* The owner is the process that received the endpoint last.                *)
OwnerIsLatest ==
  \A e \in Endpoints :
    /\ lastUse[e] <= transfers[e]
    /\ \A p \in Processes : owner[e] = p => receipt[e][p] = transfers[e]

ChannelInv ==
  /\ TypeOK
  /\ Locals
  /\ CallerListed
  /\ IdleWaiters
  /\ PeersAgree
  /\ ListedWaiters
  /\ UniqueTxids
  /\ SignalsMatch
  /\ OwnerIsLatest
=============================================================================
