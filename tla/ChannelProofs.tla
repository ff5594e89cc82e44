--------------------------- MODULE ChannelProofs ---------------------------
(* Proofs about Channel: ChannelInv is inductive, one lemma per action, and *)
(* the safety properties follow from it.                                    *)
EXTENDS Channel, FiniteSetTheorems, TLAPS

(* Peer exchanges the two endpoints.                                        *)
LEMMA PeerFacts ==
  \A e \in Endpoints : /\ Peer(e) \in Endpoints /\ Peer(e) # e
                       /\ Peer(Peer(e)) = e
                       /\ \A d \in Endpoints : d # e => d = Peer(e)
BY DEF Peer, Endpoints

(* Every thread belongs to a process.                                       *)
LEMMA ProcessType == \A t \in Threads : ProcessOf[t] \in Processes
BY ChannelAssumption

(* A process that uses an endpoint as its owner does so by the latest       *)
(* transfer.                                                                *)
LEMMA UseIsLatest ==
  ASSUME TypeOK, OwnerIsLatest, NEW t \in Threads, tEnd[t] \in Endpoints,
         IsOwner(t), Use(t)
  PROVE  /\ receipt[tEnd[t]][ProcessOf[t]] = transfers[tEnd[t]]
         /\ lastUse' = [lastUse EXCEPT ![tEnd[t]] = transfers[tEnd[t]]]
         /\ lastUse' \in [Endpoints -> Nat]
<1>1. receipt[tEnd[t]][ProcessOf[t]] = transfers[tEnd[t]]
  BY ProcessType DEF OwnerIsLatest, IsOwner
<1>2. lastUse' = [lastUse EXCEPT ![tEnd[t]] = transfers[tEnd[t]]]
  BY <1>1 DEF Use
<1>3. transfers[tEnd[t]] \in Nat
  BY DEF TypeOK
<1> QED BY <1>1, <1>2, <1>3 DEF TypeOK

(* WriteSelf keeps the types of what it changes.                            *)
LEMMA WriteSelfTypes ==
  ASSUME TypeOK, NEW d \in Endpoints, NEW m \in Messages, NEW x,
         NEW list \in [Endpoints -> SUBSET Threads],
         NEW status \in [Threads -> Statuses],
         WriteSelf(d, m, x, list, status)
  PROVE  /\ messages' \in [Endpoints -> Seq(Messages)]
         /\ signals' \in [Endpoints -> SUBSET {"READABLE", "WRITABLE", "PEER_CLOSED"}]
         /\ waiters' \in [Endpoints -> SUBSET Threads]
         /\ wMsg' \in [Threads -> Messages \cup {None}]
         /\ wStatus' \in [Threads -> Statuses]
<1>1. CASE Matches(d, x) = {}
  <2>1. /\ messages' = [messages EXCEPT ![d] = Append(@, m)]
        /\ signals' = [signals EXCEPT ![d] = @ \cup {"READABLE"}]
        /\ waiters' = list /\ wStatus' = status /\ wMsg' = wMsg
    BY <1>1 DEF WriteSelf
  <2>2. messages' \in [Endpoints -> Seq(Messages)]
    BY <2>1 DEF TypeOK
  <2>3. signals' \in [Endpoints -> SUBSET {"READABLE", "WRITABLE", "PEER_CLOSED"}]
    BY <2>1 DEF TypeOK
  <2> QED BY <2>1, <2>2, <2>3 DEF TypeOK
<1>2. CASE Matches(d, x) # {}
  <2>1. PICK w \in Matches(d, x) :
          /\ waiters' = [list EXCEPT ![d] = @ \ {w}]
          /\ wMsg' = [wMsg EXCEPT ![w] = m]
          /\ wStatus' = [status EXCEPT ![w] = "OK"]
          /\ UNCHANGED queueVars
    BY <1>2 DEF WriteSelf
  <2>2. waiters' \in [Endpoints -> SUBSET Threads]
    BY <2>1
  <2> QED BY <2>1, <2>2 DEF TypeOK, Statuses, queueVars
<1> QED BY <1>1, <1>2

(* What WriteSelf does to lists, in the words of the invariant: it removes  *)
(* at most one waiter, which it answers, and touches no other.              *)
LEMMA WriteSelfWaiters ==
  ASSUME TypeOK, NEW d \in Endpoints, NEW m \in Messages, NEW x,
         NEW list \in [Endpoints -> SUBSET Threads],
         NEW status \in [Threads -> Statuses],
         waiters[d] \subseteq list[d],
         WriteSelf(d, m, x, list, status)
  PROVE  /\ \A t \in Threads :
              \/ /\ wStatus'[t] = status[t] /\ wMsg'[t] = wMsg[t]
                 /\ t \in waiters'[d] <=> t \in list[d]
              \/ wStatus'[t] = "OK" /\ t \in waiters[d] /\ t \notin waiters'[d]
         /\ \A e \in Endpoints : e # d => waiters'[e] = list[e]
         /\ waiters'[d] \subseteq list[d]
<1>1. CASE Matches(d, x) = {}
  BY <1>1 DEF WriteSelf, TypeOK
<1>2. CASE Matches(d, x) # {}
  <2>1. PICK w \in Matches(d, x) :
          /\ waiters' = [list EXCEPT ![d] = @ \ {w}]
          /\ wMsg' = [wMsg EXCEPT ![w] = m]
          /\ wStatus' = [status EXCEPT ![w] = "OK"]
    BY <1>2 DEF WriteSelf
  <2>2. w \in waiters[d] /\ w \in Threads
    BY DEF Matches, TypeOK
  <2>3. \A t \in Threads : t # w =>
          /\ wStatus'[t] = status[t] /\ wMsg'[t] = wMsg[t]
          /\ t \in waiters'[d] <=> t \in list[d]
    BY <2>1, <2>2 DEF TypeOK
  <2>4. wStatus'[w] = "OK" /\ w \notin waiters'[d]
    BY <2>1, <2>2
  <2>5. /\ \A e \in Endpoints : e # d => waiters'[e] = list[e]
        /\ waiters'[d] \subseteq list[d]
    BY <2>1
  <2> QED BY <2>2, <2>3, <2>4, <2>5
<1> QED BY <1>1, <1>2

(* What WriteSelf does to queues and signals.                               *)
LEMMA WriteSelfQueues ==
  ASSUME TypeOK, NEW d \in Endpoints, NEW m \in Messages, NEW x, NEW list,
         NEW status, WriteSelf(d, m, x, list, status)
  PROVE  \/ UNCHANGED queueVars
         \/ /\ messages'[d] # <<>>
            /\ signals'[d] = signals[d] \cup {"READABLE"}
            /\ \A e \in Endpoints : e # d => /\ messages'[e] = messages[e]
                                             /\ signals'[e] = signals[e]
<1>1. CASE Matches(d, x) = {}
  <2>1. /\ messages' = [messages EXCEPT ![d] = Append(@, m)]
        /\ signals' = [signals EXCEPT ![d] = @ \cup {"READABLE"}]
    BY <1>1 DEF WriteSelf
  <2>2. messages[d] \in Seq(Messages)
    BY DEF TypeOK
  <2>3. Append(messages[d], m) # <<>>
    BY <2>2
  <2> QED BY <2>1, <2>3 DEF TypeOK
<1>2. CASE Matches(d, x) # {}
  BY <1>2 DEF WriteSelf
<1> QED BY <1>1, <1>2

-----------------------------------------------------------------------------
(* AddHandle preserves the invariant.                                      *)
LEMMA AddHandleStep ==
  ASSUME NEW e \in Endpoints, NEW p \in Processes,
         ChannelInv, AddHandle(e, p)
  PROVE  ChannelInv'
<1>1. TypeOK'
  <2>1. transfers' \in [Endpoints -> Nat]
    BY ChannelAssumption DEF ChannelInv, TypeOK, AddHandle
  <2>2. receipt' \in [Endpoints -> [Processes -> Nat]]
    BY ChannelAssumption DEF ChannelInv, TypeOK, AddHandle
  <2> QED BY <2>1, <2>2 DEF ChannelInv, TypeOK, Labels, AddHandle, SetOwner,
     queueVars, waitVars, msgVars, callVars
<1>2. PeersAgree'
  BY ChannelAssumption DEF ChannelInv, TypeOK, PeersAgree, AddHandle,
     waitVars
<1>3. SignalsMatch'
  <2>1. \A d \in Endpoints : handle'[d] = "deleted" <=> handle[d] = "deleted"
    BY ChannelAssumption DEF ChannelInv, TypeOK, AddHandle
  <2>2. UNCHANGED <<destroyed, signals, messages>>
    BY DEF AddHandle, queueVars
  <2> QED BY <2>1, <2>2, PeerFacts DEF ChannelInv, SignalsMatch
<1>4. OwnerIsLatest'
  BY DEF ChannelInv, TypeOK, OwnerIsLatest, AddHandle, SetOwner
<1>5. /\ Locals' /\ CallerListed' /\ IdleWaiters'
      /\ ListedWaiters' /\ UniqueTxids'
  BY DEF ChannelInv, Locals, CallerListed, InCall, Signalled, IdleWaiters,
     ListedWaiters, UniqueTxids, AddHandle, queueVars, waitVars, msgVars,
     callVars
<1> QED BY <1>1, <1>2, <1>3, <1>4, <1>5 DEF ChannelInv

(* RemoveHandle preserves the invariant.                                   *)
LEMMA RemoveHandleStep ==
  ASSUME NEW e \in Endpoints,
         ChannelInv, RemoveHandle(e)
  PROVE  ChannelInv'
<1>1. TypeOK'
  BY ChannelAssumption DEF ChannelInv, TypeOK, Labels, Statuses,
     RemoveHandle, endVars, queueVars, waitVars, msgVars, callVars
<1>2. PeersAgree'
  BY ChannelAssumption DEF ChannelInv, TypeOK, PeersAgree, RemoveHandle,
     endVars, waitVars
<1>3. SignalsMatch'
  <2>1. \A d \in Endpoints : handle'[d] = "deleted" <=> handle[d] = "deleted"
    BY ChannelAssumption DEF ChannelInv, TypeOK, RemoveHandle
  <2>2. UNCHANGED <<destroyed, signals, messages>>
    BY DEF RemoveHandle, queueVars
  <2> QED BY <2>1, <2>2, PeerFacts DEF ChannelInv, SignalsMatch
<1>4. /\ Locals' /\ CallerListed' /\ IdleWaiters'
      /\ ListedWaiters' /\ UniqueTxids' /\ OwnerIsLatest'
  BY DEF ChannelInv, Locals, CallerListed, InCall, Signalled, IdleWaiters,
     ListedWaiters, UniqueTxids, OwnerIsLatest, RemoveHandle, endVars,
     queueVars, waitVars, msgVars, callVars
<1> QED BY <1>1, <1>2, <1>3, <1>4 DEF ChannelInv

(* OnZeroHandles preserves the invariant.                                  *)
LEMMA OnZeroHandlesStep ==
  ASSUME NEW e \in Endpoints,
         ChannelInv, OnZeroHandles(e)
  PROVE  ChannelInv'
<1>1. TypeOK'
  <2>1. hasPeer' \in [Endpoints -> BOOLEAN]
    BY DEF ChannelInv, TypeOK, OnZeroHandles, OwnWaiters, PeerWaiters,
       OnPeerZeroSignals
  <2>2. waiters' \in [Endpoints -> SUBSET Threads]
    BY DEF ChannelInv, TypeOK, OnZeroHandles, OwnWaiters, PeerWaiters,
       OnPeerZeroSignals
  <2>3. wStatus' \in [Threads -> Statuses]
    BY DEF ChannelInv, TypeOK, OnZeroHandles, OwnWaiters, PeerWaiters,
       OnPeerZeroSignals, Statuses
  <2>4. signals' \in [Endpoints -> SUBSET {"READABLE", "WRITABLE", "PEER_CLOSED"}]
    BY DEF ChannelInv, TypeOK, OnZeroHandles, OwnWaiters, PeerWaiters,
       OnPeerZeroSignals
  <2> QED BY <2>1, <2>2, <2>3, <2>4 DEF ChannelInv, TypeOK, Labels,
     OnZeroHandles, OwnWaiters, PeerWaiters, OnPeerZeroSignals, msgVars,
     callVars
<1>2. CallerListed'
  BY DEF ChannelInv, TypeOK, CallerListed, InCall, Signalled, OnZeroHandles,
     OwnWaiters, PeerWaiters, OnPeerZeroSignals, callVars
<1>3. PeersAgree'
  <2>1. /\ handle' = [handle EXCEPT ![e] = "deleted"] /\ handle[e] = "kernel"
        /\ \A d \in Endpoints : hasPeer'[d] =
             IF d = e THEN FALSE ELSE hasPeer[d] /\ ~hasPeer[e]
        /\ \A d \in Endpoints : waiters'[d] =
             IF d = e THEN {}
             ELSE waiters[d] \ IF hasPeer[e] THEN waiters[Peer(e)] ELSE {}
    BY DEF OnZeroHandles, OwnWaiters, PeerWaiters
  <2>2. \A d \in Endpoints : ~hasPeer'[d]
    BY <2>1, PeerFacts DEF ChannelInv, PeersAgree, TypeOK
  <2>3. handle'[0] = "deleted" \/ handle'[1] = "deleted"
    BY <2>1 DEF ChannelInv, TypeOK, Endpoints
  <2>4. \A d \in Endpoints : waiters'[d] = {}
    <3> SUFFICES ASSUME NEW d \in Endpoints, d # e
                 PROVE  waiters'[d] = {}
      BY <2>1
    <3>1. d = Peer(e)
      BY PeerFacts
    <3>2. CASE hasPeer[e]
      BY <2>1, <3>1, <3>2
    <3>3. CASE ~hasPeer[e]
      <4>1. waiters[d] = {}
        BY <3>3 DEF ChannelInv, PeersAgree
      <4> QED BY <2>1, <4>1
    <3> QED BY <3>2, <3>3
  <2> QED BY <2>2, <2>3, <2>4 DEF PeersAgree
<1>4. ListedWaiters'
  BY DEF ChannelInv, TypeOK, ListedWaiters, InCall, Signalled, OnZeroHandles,
     OwnWaiters, PeerWaiters, OnPeerZeroSignals
<1>5. UniqueTxids'
  BY DEF ChannelInv, TypeOK, UniqueTxids, OnZeroHandles, OwnWaiters,
     PeerWaiters, OnPeerZeroSignals
<1>6. SignalsMatch'
  <2> DEFINE d == Peer(e)
  <2>1. /\ handle[e] = "kernel" /\ handle' = [handle EXCEPT ![e] = "deleted"]
        /\ UNCHANGED <<destroyed, messages>>
        /\ signals' = [signals EXCEPT ![d] =
             IF hasPeer[e] THEN (@ \ {"WRITABLE"}) \cup {"PEER_CLOSED"} ELSE @]
    BY DEF OnZeroHandles, OnPeerZeroSignals
  <2>2. /\ d \in Endpoints /\ d # e /\ Peer(d) = e
        /\ \A f \in Endpoints : f = e \/ f = d
    BY PeerFacts
  <2>3. handle'[e] = "deleted" /\ handle'[d] = handle[d]
    BY <2>1, <2>2 DEF ChannelInv, TypeOK
  <2>4. \A f \in Endpoints : "READABLE" \in signals'[f] <=> "READABLE" \in signals[f]
    BY <2>1, <2>2 DEF ChannelInv, TypeOK
  <2>5. handle[d] # "deleted" => hasPeer[e]
    BY <2>1, <2>2 DEF ChannelInv, PeersAgree, Endpoints
  <2>6. handle[d] # "deleted" => "PEER_CLOSED" \in signals'[d] /\ "WRITABLE" \notin signals'[d]
    BY <2>1, <2>2, <2>5 DEF ChannelInv, TypeOK
  <2> HIDE DEF d
  <2>7. ASSUME NEW f \in Endpoints
        PROVE  /\ f \notin destroyed' => ("READABLE" \in signals'[f] <=> messages'[f] # <<>>)
               /\ handle'[f] # "deleted" =>
                    /\ "PEER_CLOSED" \in signals'[f] <=> handle'[Peer(f)] = "deleted"
                    /\ "WRITABLE" \in signals'[f] <=> handle'[Peer(f)] # "deleted"
    <3>1. f \notin destroyed' => ("READABLE" \in signals'[f] <=> messages'[f] # <<>>)
      BY <2>1, <2>4 DEF ChannelInv, SignalsMatch
    <3>2. CASE f = e
      BY <3>1, <3>2, <2>3
    <3>3. CASE f = d
      BY <3>1, <3>3, <2>2, <2>3, <2>6
    <3> QED BY <3>2, <3>3, <2>2
  <2> QED BY <2>7 DEF SignalsMatch
<1>7. /\ Locals' /\ IdleWaiters' /\ OwnerIsLatest'
  BY DEF ChannelInv, Locals, IdleWaiters, OwnerIsLatest, OnZeroHandles,
     msgVars, callVars
<1> QED BY <1>1, <1>2, <1>3, <1>4, <1>5, <1>6, <1>7 DEF ChannelInv

(* Destroy preserves the invariant.                                        *)
LEMMA DestroyStep ==
  ASSUME NEW e \in Endpoints,
         ChannelInv, Destroy(e)
  PROVE  ChannelInv'
<1>1. TypeOK'
  <2>1. messages' \in [Endpoints -> Seq(Messages)]
    BY DEF ChannelInv, TypeOK, Destroy
  <2>2. fate' \in [Messages -> {"unmade", "made", "failed", "landed", "received",
                            "discarded"}]
    BY DEF ChannelInv, TypeOK, Destroy
  <2> QED BY <2>1, <2>2 DEF ChannelInv, TypeOK, Labels, Destroy, endVars,
     handleVars, waitVars, callVars
<1>2. SignalsMatch'
  BY DEF ChannelInv, TypeOK, SignalsMatch, Destroy, handleVars
<1>3. /\ Locals' /\ CallerListed' /\ IdleWaiters'
      /\ PeersAgree' /\ ListedWaiters' /\ UniqueTxids'
      /\ OwnerIsLatest'
  BY DEF ChannelInv, Locals, CallerListed, InCall, Signalled, IdleWaiters,
     PeersAgree, ListedWaiters, UniqueTxids, OwnerIsLatest, Destroy, endVars,
     handleVars, waitVars, callVars
<1> QED BY <1>1, <1>2, <1>3 DEF ChannelInv

(* StartRead preserves the invariant.                                      *)
LEMMA StartReadStep ==
  ASSUME NEW t \in Threads, NEW e \in Endpoints,
         ChannelInv, StartRead(t, e)
  PROVE  ChannelInv'
<1>1. TypeOK'
  BY ChannelAssumption DEF ChannelInv, TypeOK, Labels, Statuses, StartRead,
     Lookup, Goto, endVars, queueVars, handleVars, waitVars, msgVars
<1>2. Locals'
  BY DEF ChannelInv, TypeOK, Locals, StartRead, Lookup, Goto, msgVars
<1>3. CallerListed'
  BY DEF ChannelInv, TypeOK, CallerListed, InCall, Signalled, StartRead,
     Lookup, Goto, waitVars
<1>4. ListedWaiters'
  BY DEF ChannelInv, TypeOK, ListedWaiters, InCall, Signalled, StartRead,
     Lookup, Goto, waitVars
<1>5. /\ IdleWaiters' /\ PeersAgree' /\ UniqueTxids'
      /\ SignalsMatch' /\ OwnerIsLatest'
  BY DEF ChannelInv, IdleWaiters, PeersAgree, UniqueTxids, SignalsMatch,
     OwnerIsLatest, StartRead, endVars, queueVars, handleVars, waitVars,
     msgVars
<1> QED BY <1>1, <1>2, <1>3, <1>4, <1>5 DEF ChannelInv

(* StartWrite preserves the invariant.                                     *)
LEMMA StartWriteStep ==
  ASSUME NEW t \in Threads, NEW e \in Endpoints, NEW m \in Messages,
         NEW r \in Messages \cup {None},
         ChannelInv, StartWrite(t, e, m, r)
  PROVE  ChannelInv'
<1>1. TypeOK'
  <2>1. packet' \in [Messages -> Packets \cup {None}]
    BY DEF ChannelInv, TypeOK, StartWrite, MakeMessage, Answerable, Packets
  <2> QED BY <2>1 DEF ChannelInv, TypeOK, Labels, StartWrite, Lookup, Goto,
     MakeMessage, Answerable, Packets, endVars, queueVars, handleVars,
     waitVars
<1>2. Locals'
  <2>1. packet'[m] # None /\ tMsg' = [tMsg EXCEPT ![t] = m] /\ packet[m] = None
        /\ \A n \in Messages : n # m => packet'[n] = packet[n]
    <3>1. packet'[m] \in Packets \cup {None} /\ packet[m] = None
      BY <1>1 DEF TypeOK, StartWrite, MakeMessage
    <3>2. packet'[m] = [from |-> e, txid |-> IF r = None THEN None ELSE packet[r].txid,
                        answers |-> r, call |-> FALSE]
      BY DEF ChannelInv, TypeOK, StartWrite, MakeMessage
    <3>3. packet'[m] \in Packets
      <4>1. (IF r = None THEN None ELSE packet[r].txid) \in (0 .. NumTxids - 1) \cup {None}
        BY DEF ChannelInv, TypeOK, StartWrite, Answerable, Packets
      <4> QED BY <4>1, <3>2 DEF Packets
    <3> QED BY <3>1, <3>3, ChannelAssumption DEF ChannelInv, TypeOK, StartWrite, MakeMessage
  <2>2. /\ tEnd' = [tEnd EXCEPT ![t] = e] /\ pc' = [pc EXCEPT ![t] = "Write"]
    BY DEF StartWrite, Lookup, Goto
  <2> QED BY <2>1, <2>2 DEF ChannelInv, Locals, TypeOK
<1>3. CallerListed'
  BY DEF ChannelInv, TypeOK, CallerListed, InCall, Signalled, StartWrite,
     Lookup, Goto, waitVars
<1>4. ListedWaiters'
  BY DEF ChannelInv, TypeOK, ListedWaiters, InCall, Signalled, StartWrite,
     Lookup, Goto, waitVars
<1>5. /\ IdleWaiters' /\ PeersAgree' /\ UniqueTxids'
      /\ SignalsMatch' /\ OwnerIsLatest'
  BY DEF ChannelInv, IdleWaiters, PeersAgree, UniqueTxids, SignalsMatch,
     OwnerIsLatest, StartWrite, endVars, queueVars, handleVars, waitVars
<1> QED BY <1>1, <1>2, <1>3, <1>4, <1>5 DEF ChannelInv

(* StartCall preserves the invariant.                                      *)
LEMMA StartCallStep ==
  ASSUME NEW t \in Threads, NEW e \in Endpoints, NEW m \in Messages,
         ChannelInv, StartCall(t, e, m)
  PROVE  ChannelInv'
<1>1. TypeOK'
  BY ChannelAssumption DEF ChannelInv, TypeOK, Labels, Statuses, StartCall,
     Lookup, Goto, MakeMessage, Packets, endVars, queueVars, handleVars,
     waitVars
<1>2. Locals'
  <2>1. packet'[m] # None /\ tMsg' = [tMsg EXCEPT ![t] = m] /\ packet[m] = None
        /\ \A n \in Messages : n # m => packet'[n] = packet[n]
    <3>1. packet'[m] = [from |-> e, txid |-> None, answers |-> None, call |-> TRUE]
      BY DEF ChannelInv, TypeOK, StartCall, MakeMessage
    <3>2. packet'[m] \in Packets
      BY <3>1 DEF Packets
    <3> QED BY <3>2, ChannelAssumption DEF ChannelInv, TypeOK, StartCall, MakeMessage
  <2>2. /\ tEnd' = [tEnd EXCEPT ![t] = e] /\ pc' = [pc EXCEPT ![t] = "Call"]
    BY DEF StartCall, Lookup, Goto
  <2> QED BY <2>1, <2>2 DEF ChannelInv, Locals, TypeOK
<1>3. CallerListed'
  BY DEF ChannelInv, TypeOK, CallerListed, InCall, Signalled, StartCall,
     Lookup, Goto, waitVars
<1>4. ListedWaiters'
  BY DEF ChannelInv, TypeOK, ListedWaiters, InCall, Signalled, StartCall,
     Lookup, Goto, waitVars
<1>5. /\ IdleWaiters' /\ PeersAgree' /\ UniqueTxids'
      /\ SignalsMatch' /\ OwnerIsLatest'
  BY DEF ChannelInv, IdleWaiters, PeersAgree, UniqueTxids, SignalsMatch,
     OwnerIsLatest, StartCall, endVars, queueVars, handleVars, waitVars
<1> QED BY <1>1, <1>2, <1>3, <1>4, <1>5 DEF ChannelInv

(* ReadFails preserves the invariant.                                      *)
LEMMA ReadFailsStep ==
  ASSUME NEW t \in Threads, NEW fits \in BOOLEAN, NEW mayDiscard \in BOOLEAN,
         ChannelInv, ReadFails(t, fits, mayDiscard)
  PROVE  ChannelInv'
<1>1. TypeOK'
  BY ChannelAssumption DEF ChannelInv, TypeOK, Labels, Statuses, ReadFails,
     Return, Goto, endVars, queueVars, handleVars, waitVars, msgVars
<1>2. Locals'
  BY DEF ChannelInv, TypeOK, Locals, ReadFails, Return, Goto, msgVars
<1>3. CallerListed'
  BY DEF ChannelInv, TypeOK, CallerListed, InCall, Signalled, ReadFails,
     Return, Goto, waitVars
<1>4. ListedWaiters'
  BY DEF ChannelInv, TypeOK, ListedWaiters, InCall, Signalled, ReadFails,
     Return, Goto, waitVars
<1>5. /\ IdleWaiters' /\ PeersAgree' /\ UniqueTxids'
      /\ SignalsMatch' /\ OwnerIsLatest'
  BY DEF ChannelInv, IdleWaiters, PeersAgree, UniqueTxids, SignalsMatch,
     OwnerIsLatest, ReadFails, endVars, queueVars, handleVars, waitVars,
     msgVars
<1> QED BY <1>1, <1>2, <1>3, <1>4, <1>5 DEF ChannelInv

(* Read preserves the invariant.                                           *)
LEMMA ReadStep ==
  ASSUME NEW t \in Threads, NEW fits \in BOOLEAN, NEW mayDiscard \in BOOLEAN,
         ChannelInv, Read(t, fits, mayDiscard)
  PROVE  ChannelInv'
<1>1. TypeOK'
  <2>1. messages' \in [Endpoints -> Seq(Messages)]
    BY DEF ChannelInv, TypeOK, Locals, Read
  <2>2. signals' \in [Endpoints -> SUBSET {"READABLE", "WRITABLE", "PEER_CLOSED"}]
    BY DEF ChannelInv, TypeOK, Locals, Read, AfterPop
  <2>3. fate' \in [Messages -> {"unmade", "made", "failed", "landed", "received",
                            "discarded"}]
    BY DEF ChannelInv, TypeOK, Locals, Read, ReadOut
  <2>4. lastUse' \in [Endpoints -> Nat]
    BY UseIsLatest DEF ChannelInv, Locals, Read
  <2> QED BY <2>1, <2>2, <2>3, <2>4 DEF ChannelInv, TypeOK, Labels, Read,
     Return, Goto, Use, IsOwner, AfterPop, ReadOut, endVars, handleVars,
     waitVars
<1>2. Locals'
  BY DEF ChannelInv, TypeOK, Locals, Read, Return, Goto
<1>3. CallerListed'
  BY DEF ChannelInv, TypeOK, CallerListed, InCall, Signalled, Read, Return,
     Goto, waitVars
<1>4. ListedWaiters'
  BY DEF ChannelInv, TypeOK, ListedWaiters, InCall, Signalled, Read, Return,
     Goto, waitVars
<1>5. SignalsMatch'
  BY DEF ChannelInv, TypeOK, SignalsMatch, Read, AfterPop, handleVars
<1>6. OwnerIsLatest'
  <2>1. tEnd[t] \in Endpoints /\ lastUse' = [lastUse EXCEPT ![tEnd[t]] = transfers[tEnd[t]]]
    BY UseIsLatest DEF ChannelInv, Locals, Read
  <2>2. UNCHANGED <<owner, transfers, receipt>>
    BY DEF Read, endVars, handleVars
  <2> QED BY <2>1, <2>2 DEF ChannelInv, OwnerIsLatest, TypeOK
<1>7. /\ IdleWaiters' /\ PeersAgree' /\ UniqueTxids'
  BY DEF ChannelInv, IdleWaiters, PeersAgree, UniqueTxids, Read, endVars,
     handleVars, waitVars
<1> QED BY <1>1, <1>2, <1>3, <1>4, <1>5, <1>6, <1>7 DEF ChannelInv

(* WriteFails preserves the invariant.                                     *)
LEMMA WriteFailsStep ==
  ASSUME NEW t \in Threads,
         ChannelInv, WriteFails(t)
  PROVE  ChannelInv'
<1>1. TypeOK'
  BY ChannelAssumption DEF ChannelInv, TypeOK, Labels, Statuses, WriteFails,
     Return, Goto, endVars, queueVars, handleVars, waitVars
<1>2. Locals'
  BY DEF ChannelInv, TypeOK, Locals, WriteFails, Return, Goto
<1>3. CallerListed'
  BY DEF ChannelInv, TypeOK, CallerListed, InCall, Signalled, WriteFails,
     Return, Goto, waitVars
<1>4. ListedWaiters'
  BY DEF ChannelInv, TypeOK, ListedWaiters, InCall, Signalled, WriteFails,
     Return, Goto, waitVars
<1>5. /\ IdleWaiters' /\ PeersAgree' /\ UniqueTxids'
      /\ SignalsMatch' /\ OwnerIsLatest'
  BY DEF ChannelInv, IdleWaiters, PeersAgree, UniqueTxids, SignalsMatch,
     OwnerIsLatest, WriteFails, endVars, queueVars, handleVars, waitVars
<1> QED BY <1>1, <1>2, <1>3, <1>4, <1>5 DEF ChannelInv

(* CallShot preserves the invariant.                                       *)
LEMMA CallShotStep ==
  ASSUME NEW t \in Threads,
         ChannelInv, CallShot(t)
  PROVE  ChannelInv'
<1>1. TypeOK'
  <2>1. killed' \subseteq Processes
    <3>1. killed' = killed \cup {ProcessOf[t]}
      BY DEF CallShot
    <3> QED BY <3>1, ProcessType DEF ChannelInv, TypeOK
  <2> QED BY <2>1 DEF ChannelInv, TypeOK, Labels, CallShot, Goto, endVars,
     queueVars, handleVars, waitVars
<1>2. Locals'
  BY DEF ChannelInv, TypeOK, Locals, CallShot, Goto
<1>3. CallerListed'
  BY DEF ChannelInv, TypeOK, CallerListed, InCall, Signalled, CallShot, Goto,
     waitVars
<1>4. ListedWaiters'
  BY DEF ChannelInv, TypeOK, ListedWaiters, InCall, Signalled, CallShot,
     Goto, waitVars
<1>5. /\ IdleWaiters' /\ PeersAgree' /\ UniqueTxids'
      /\ SignalsMatch' /\ OwnerIsLatest'
  BY DEF ChannelInv, IdleWaiters, PeersAgree, UniqueTxids, SignalsMatch,
     OwnerIsLatest, CallShot, endVars, queueVars, handleVars, waitVars
<1> QED BY <1>1, <1>2, <1>3, <1>4, <1>5 DEF ChannelInv

(* CallNotOwner preserves the invariant.                                   *)
LEMMA CallNotOwnerStep ==
  ASSUME NEW t \in Threads,
         ChannelInv, CallNotOwner(t)
  PROVE  ChannelInv'
<1>1. TypeOK'
  BY ChannelAssumption DEF ChannelInv, TypeOK, Labels, Statuses,
     CallNotOwner, Return, Goto, endVars, queueVars, handleVars
<1>2. Locals'
  BY DEF ChannelInv, TypeOK, Locals, CallNotOwner, Return, Goto
<1>3. CallerListed'
  BY DEF ChannelInv, TypeOK, CallerListed, InCall, Signalled, CallNotOwner,
     Return, Goto
<1>4. IdleWaiters'
  BY DEF ChannelInv, TypeOK, IdleWaiters, CallNotOwner
<1>5. ListedWaiters'
  BY DEF ChannelInv, TypeOK, ListedWaiters, InCall, Signalled, CallNotOwner,
     Return, Goto
<1>6. /\ PeersAgree' /\ UniqueTxids' /\ SignalsMatch'
      /\ OwnerIsLatest'
  BY DEF ChannelInv, PeersAgree, UniqueTxids, SignalsMatch, OwnerIsLatest,
     CallNotOwner, endVars, queueVars, handleVars
<1> QED BY <1>1, <1>2, <1>3, <1>4, <1>5, <1>6 DEF ChannelInv

(* CallPeerClosed preserves the invariant.                                 *)
LEMMA CallPeerClosedStep ==
  ASSUME NEW t \in Threads,
         ChannelInv, CallPeerClosed(t)
  PROVE  ChannelInv'
<1>1. TypeOK'
  BY ChannelAssumption DEF ChannelInv, TypeOK, Labels, Statuses,
     CallPeerClosed, Return, Goto, endVars, queueVars, handleVars
<1>2. Locals'
  BY DEF ChannelInv, TypeOK, Locals, CallPeerClosed, Return, Goto
<1>3. CallerListed'
  BY DEF ChannelInv, TypeOK, CallerListed, InCall, Signalled, CallPeerClosed,
     Return, Goto
<1>4. ListedWaiters'
  BY DEF ChannelInv, TypeOK, ListedWaiters, InCall, Signalled,
     CallPeerClosed, Return, Goto
<1>5. /\ IdleWaiters' /\ PeersAgree' /\ UniqueTxids'
      /\ SignalsMatch' /\ OwnerIsLatest'
  BY DEF ChannelInv, IdleWaiters, PeersAgree, UniqueTxids, SignalsMatch,
     OwnerIsLatest, CallPeerClosed, endVars, queueVars, handleVars
<1> QED BY <1>1, <1>2, <1>3, <1>4, <1>5 DEF ChannelInv

(* Woken preserves the invariant.                                          *)
LEMMA WokenStep ==
  ASSUME NEW t \in Threads,
         ChannelInv, Woken(t)
  PROVE  ChannelInv'
<1>1. TypeOK'
  BY ChannelAssumption DEF ChannelInv, TypeOK, Labels, Statuses, Woken, Goto,
     endVars, queueVars, handleVars, waitVars, msgVars, callVars
<1>2. Locals'
  BY DEF ChannelInv, TypeOK, Locals, Woken, Goto, msgVars, callVars
<1>3. CallerListed'
  BY DEF ChannelInv, TypeOK, CallerListed, InCall, Signalled, Woken, Goto,
     waitVars, callVars
<1>4. ListedWaiters'
  BY DEF ChannelInv, TypeOK, ListedWaiters, InCall, Signalled, Woken, Goto,
     waitVars
<1>5. /\ IdleWaiters' /\ PeersAgree' /\ UniqueTxids'
      /\ SignalsMatch' /\ OwnerIsLatest'
  BY DEF ChannelInv, IdleWaiters, PeersAgree, UniqueTxids, SignalsMatch,
     OwnerIsLatest, Woken, endVars, queueVars, handleVars, waitVars, msgVars,
     callVars
<1> QED BY <1>1, <1>2, <1>3, <1>4, <1>5 DEF ChannelInv

(* Expires preserves the invariant.                                        *)
LEMMA ExpiresStep ==
  ASSUME NEW t \in Threads,
         ChannelInv, Expires(t)
  PROVE  ChannelInv'
<1>1. TypeOK'
  BY ChannelAssumption DEF ChannelInv, TypeOK, Labels, Statuses, Expires,
     Goto, endVars, queueVars, handleVars, waitVars, msgVars, callVars
<1>2. Locals'
  BY DEF ChannelInv, TypeOK, Locals, Expires, Goto, msgVars, callVars
<1>3. CallerListed'
  BY DEF ChannelInv, TypeOK, CallerListed, InCall, Signalled, Expires, Goto,
     waitVars, callVars
<1>4. ListedWaiters'
  BY DEF ChannelInv, TypeOK, ListedWaiters, InCall, Signalled, Expires, Goto,
     waitVars
<1>5. /\ IdleWaiters' /\ PeersAgree' /\ UniqueTxids'
      /\ SignalsMatch' /\ OwnerIsLatest'
  BY DEF ChannelInv, IdleWaiters, PeersAgree, UniqueTxids, SignalsMatch,
     OwnerIsLatest, Expires, endVars, queueVars, handleVars, waitVars,
     msgVars, callVars
<1> QED BY <1>1, <1>2, <1>3, <1>4, <1>5 DEF ChannelInv

(* Interrupted preserves the invariant.                                    *)
LEMMA InterruptedStep ==
  ASSUME NEW t \in Threads,
         ChannelInv, Interrupted(t)
  PROVE  ChannelInv'
<1>1. TypeOK'
  BY ChannelAssumption DEF ChannelInv, TypeOK, Labels, Statuses, Interrupted,
     Goto, endVars, queueVars, handleVars, waitVars, msgVars, callVars
<1>2. Locals'
  BY DEF ChannelInv, TypeOK, Locals, Interrupted, Goto, msgVars, callVars
<1>3. CallerListed'
  BY DEF ChannelInv, TypeOK, CallerListed, InCall, Signalled, Interrupted,
     Goto, waitVars, callVars
<1>4. ListedWaiters'
  BY DEF ChannelInv, TypeOK, ListedWaiters, InCall, Signalled, Interrupted,
     Goto, waitVars
<1>5. /\ IdleWaiters' /\ PeersAgree' /\ UniqueTxids'
      /\ SignalsMatch' /\ OwnerIsLatest'
  BY DEF ChannelInv, IdleWaiters, PeersAgree, UniqueTxids, SignalsMatch,
     OwnerIsLatest, Interrupted, endVars, queueVars, handleVars, waitVars,
     msgVars, callVars
<1> QED BY <1>1, <1>2, <1>3, <1>4, <1>5 DEF ChannelInv

(* CallFinish preserves the invariant.                                     *)
LEMMA CallFinishStep ==
  ASSUME NEW t \in Threads,
         ChannelInv, CallFinish(t)
  PROVE  ChannelInv'
<1>1. TypeOK'
  BY ChannelAssumption DEF ChannelInv, TypeOK, Labels, Statuses, CallFinish,
     Goto, endVars, queueVars, handleVars, waitVars, msgVars
<1>2. Locals'
  BY DEF ChannelInv, TypeOK, Locals, CallFinish, Goto, msgVars
<1>3. CallerListed'
  BY DEF ChannelInv, TypeOK, CallerListed, InCall, Signalled, CallFinish,
     Goto, waitVars
<1>4. ListedWaiters'
  BY DEF ChannelInv, TypeOK, ListedWaiters, InCall, Signalled, CallFinish,
     Goto, waitVars
<1>5. /\ IdleWaiters' /\ PeersAgree' /\ UniqueTxids'
      /\ SignalsMatch' /\ OwnerIsLatest'
  BY DEF ChannelInv, IdleWaiters, PeersAgree, UniqueTxids, SignalsMatch,
     OwnerIsLatest, CallFinish, endVars, queueVars, handleVars, waitVars,
     msgVars
<1> QED BY <1>1, <1>2, <1>3, <1>4, <1>5 DEF ChannelInv

(* ResumeInterruptedCall preserves the invariant.                          *)
LEMMA ResumeInterruptedCallStep ==
  ASSUME NEW t \in Threads, NEW fits \in BOOLEAN,
         ChannelInv, ResumeInterruptedCall(t, fits)
  PROVE  ChannelInv'
<1>1. TypeOK'
  <2>1. waiters' \in [Endpoints -> SUBSET Threads]
    BY DEF ChannelInv, TypeOK, CallerListed, ResumeInterruptedCall, Erased,
       EndStatus
  <2>2. fate' \in [Messages -> {"unmade", "made", "failed", "landed", "received",
                            "discarded"}]
    BY DEF ChannelInv, TypeOK, ResumeInterruptedCall, Erased, EndStatus,
       ReadOut
  <2> QED BY <2>1, <2>2 DEF ChannelInv, TypeOK, Labels,
     ResumeInterruptedCall, Return, Goto, Erased, EndStatus, ReadOut,
     endVars, queueVars, handleVars
<1>2. Locals'
  BY DEF ChannelInv, TypeOK, Locals, ResumeInterruptedCall, Return, Goto
<1>3. CallerListed'
  BY DEF ChannelInv, TypeOK, CallerListed, InCall, Signalled,
     ResumeInterruptedCall, Return, Goto, Erased, EndStatus
<1>4. IdleWaiters'
  BY DEF ChannelInv, TypeOK, IdleWaiters, ResumeInterruptedCall
<1>5. PeersAgree'
  BY DEF ChannelInv, TypeOK, PeersAgree, ResumeInterruptedCall, Erased,
     EndStatus, endVars, handleVars
<1>6. ListedWaiters'
  <2>1. /\ tEnd[t] \in Endpoints /\ wChannel[t] = tEnd[t]
        /\ ~Signalled(t) => t \in waiters[tEnd[t]]
    BY DEF ChannelInv, CallerListed, InCall, ResumeInterruptedCall
  <2>2. \A f \in Endpoints : t \notin waiters'[f]
    <3>1. \A f \in Endpoints : t \in waiters[f] => f = tEnd[t] /\ ~Signalled(t)
      BY <2>1 DEF ChannelInv, ListedWaiters
    <3> QED
      BY <2>1, <3>1 DEF ResumeInterruptedCall, Erased, EndStatus, Signalled,
         ChannelInv, TypeOK
  <2>3. \A f \in Endpoints : waiters'[f] \subseteq waiters[f]
    BY <2>1 DEF ResumeInterruptedCall, ChannelInv, TypeOK
  <2>4. /\ wStatus' = wStatus /\ pc' = [pc EXCEPT ![t] = "idle"]
        /\ wMsg' = [wMsg EXCEPT ![t] = None]
        /\ wChannel' = [wChannel EXCEPT ![t] = None]
    BY DEF ResumeInterruptedCall, Return, Goto
  <2> QED
    BY <2>2, <2>3, <2>4 DEF ChannelInv, ListedWaiters, Signalled, InCall, TypeOK
<1>7. UniqueTxids'
  BY DEF ChannelInv, TypeOK, UniqueTxids, ResumeInterruptedCall
<1>8. /\ SignalsMatch' /\ OwnerIsLatest'
  BY DEF ChannelInv, SignalsMatch, OwnerIsLatest, ResumeInterruptedCall,
     endVars, queueVars, handleVars
<1> QED BY <1>1, <1>2, <1>3, <1>4, <1>5, <1>6, <1>7, <1>8 DEF ChannelInv

(* Kill preserves the invariant.                                           *)
LEMMA KillStep ==
  ASSUME NEW p \in Processes,
         ChannelInv, Kill(p)
  PROVE  ChannelInv'
<1>1. TypeOK'
  <2>1. killed' \subseteq Processes
    BY DEF ChannelInv, TypeOK, Kill
  <2> QED BY <2>1 DEF ChannelInv, TypeOK, Labels, Kill, endVars, queueVars,
     handleVars, waitVars, msgVars, callVars
<1>2. /\ Locals' /\ CallerListed' /\ IdleWaiters'
      /\ PeersAgree' /\ ListedWaiters' /\ UniqueTxids'
      /\ SignalsMatch' /\ OwnerIsLatest'
  BY DEF ChannelInv, Locals, CallerListed, InCall, Signalled, IdleWaiters,
     PeersAgree, ListedWaiters, UniqueTxids, SignalsMatch, OwnerIsLatest,
     Kill, endVars, queueVars, handleVars, waitVars, msgVars, callVars
<1> QED BY <1>1, <1>2 DEF ChannelInv

(* Exit preserves the invariant.                                           *)
LEMMA ExitStep ==
  ASSUME NEW t \in Threads,
         ChannelInv, Exit(t)
  PROVE  ChannelInv'
<1>1. TypeOK'
  BY ChannelAssumption DEF ChannelInv, TypeOK, Labels, Statuses, Exit, Goto,
     endVars, queueVars, handleVars, waitVars, msgVars
<1>2. Locals'
  BY DEF ChannelInv, TypeOK, Locals, Exit, Goto, msgVars
<1>3. CallerListed'
  BY DEF ChannelInv, TypeOK, CallerListed, InCall, Signalled, Exit, Goto,
     waitVars
<1>4. ListedWaiters'
  BY DEF ChannelInv, TypeOK, ListedWaiters, InCall, Signalled, Exit, Goto,
     waitVars
<1>5. /\ IdleWaiters' /\ PeersAgree' /\ UniqueTxids'
      /\ SignalsMatch' /\ OwnerIsLatest'
  BY DEF ChannelInv, IdleWaiters, PeersAgree, UniqueTxids, SignalsMatch,
     OwnerIsLatest, Exit, endVars, queueVars, handleVars, waitVars, msgVars
<1> QED BY <1>1, <1>2, <1>3, <1>4, <1>5 DEF ChannelInv

(* RemoveWaiter preserves the invariant.                                   *)
LEMMA RemoveWaiterStep ==
  ASSUME NEW t \in Threads,
         ChannelInv, RemoveWaiter(t)
  PROVE  ChannelInv'
<1>1. TypeOK'
  BY ChannelAssumption DEF ChannelInv, TypeOK, Labels, Statuses,
     RemoveWaiter, endVars, queueVars, handleVars, callVars
<1>2. CallerListed'
  BY DEF ChannelInv, TypeOK, CallerListed, InCall, Signalled, RemoveWaiter,
     callVars
<1>3. IdleWaiters'
  BY DEF ChannelInv, TypeOK, IdleWaiters, RemoveWaiter
<1>4. PeersAgree'
  BY DEF ChannelInv, TypeOK, PeersAgree, RemoveWaiter, endVars, handleVars
<1>5. ListedWaiters'
  BY DEF ChannelInv, TypeOK, ListedWaiters, InCall, Signalled, RemoveWaiter
<1>6. UniqueTxids'
  BY DEF ChannelInv, TypeOK, UniqueTxids, RemoveWaiter
<1>7. /\ Locals' /\ SignalsMatch' /\ OwnerIsLatest'
  BY DEF ChannelInv, Locals, SignalsMatch, OwnerIsLatest, RemoveWaiter,
     endVars, queueVars, handleVars, callVars
<1> QED BY <1>1, <1>2, <1>3, <1>4, <1>5, <1>6, <1>7 DEF ChannelInv

(* Write preserves the invariant.                                           *)
LEMMA WriteStep ==
  ASSUME NEW t \in Threads, ChannelInv, Write(t)
  PROVE  ChannelInv'
<1> DEFINE e == tEnd[t]
           m == tMsg[t]
           d == Peer(tEnd[t])
<1>1. /\ e \in Endpoints /\ d \in Endpoints /\ m \in Messages
      /\ IsOwner(t) /\ hasPeer[e] /\ Use(t) /\ Return(t)
      /\ WriteSelf(d, m, packet[m].txid, waiters, wStatus)
  BY PeerFacts DEF ChannelInv, Locals, Write
<1>2. waiters \in [Endpoints -> SUBSET Threads] /\ wStatus \in [Threads -> Statuses]
  BY DEF ChannelInv, TypeOK
<1>3. TypeOK'
  <2>1. /\ messages' \in [Endpoints -> Seq(Messages)]
        /\ signals' \in [Endpoints -> SUBSET {"READABLE", "WRITABLE", "PEER_CLOSED"}]
        /\ waiters' \in [Endpoints -> SUBSET Threads]
        /\ wMsg' \in [Threads -> Messages \cup {None}]
        /\ wStatus' \in [Threads -> Statuses]
    BY <1>1, <1>2, WriteSelfTypes DEF ChannelInv
  <2>2. lastUse' \in [Endpoints -> Nat]
    BY <1>1, UseIsLatest DEF ChannelInv
  <2> QED
    BY <2>1, <2>2 DEF ChannelInv, TypeOK, Write, Return, Goto, Labels,
       endVars, handleVars
<1>4. /\ \A u \in Threads :
           \/ /\ wStatus'[u] = wStatus[u] /\ wMsg'[u] = wMsg[u]
              /\ u \in waiters'[d] <=> u \in waiters[d]
           \/ wStatus'[u] = "OK" /\ u \in waiters[d] /\ u \notin waiters'[d]
      /\ \A f \in Endpoints : f # d => waiters'[f] = waiters[f]
      /\ waiters'[d] \subseteq waiters[d]
  BY <1>1, <1>2, WriteSelfWaiters DEF ChannelInv
<1>5. Locals'
  BY DEF ChannelInv, Locals, TypeOK, Write, Return, Goto
<1>6. CallerListed' /\ IdleWaiters'
  <2>1. /\ pc' = [pc EXCEPT ![t] = "idle"] /\ UNCHANGED wChannel
        /\ \A u \in Threads : u # t => tEnd'[u] = tEnd[u]
    BY DEF Write, Return, Goto, ChannelInv, TypeOK
  <2>2. ASSUME NEW u \in Threads, InCall(u)'
        PROVE  /\ tEnd'[u] \in Endpoints /\ wChannel'[u] = tEnd'[u]
               /\ (~Signalled(u))' => u \in waiters'[tEnd'[u]]
    <3>1. u # t /\ InCall(u)
      BY <2>1, <2>2 DEF InCall, ChannelInv, TypeOK
    <3>2. /\ tEnd[u] \in Endpoints /\ wChannel[u] = tEnd[u]
          /\ ~Signalled(u) => u \in waiters[tEnd[u]]
      BY <3>1 DEF ChannelInv, CallerListed
    <3> QED BY <2>1, <3>1, <3>2, <1>4 DEF Signalled
  <2>3. IdleWaiters'
    <3>1. \A u \in Threads : u \in waiters[d] => wChannel[u] # None
      BY <1>1, ChannelAssumption DEF ChannelInv, ListedWaiters
    <3> QED BY <2>1, <3>1, <1>4 DEF ChannelInv, IdleWaiters
  <2> QED BY <2>2, <2>3 DEF CallerListed
<1>7. PeersAgree'
  BY <1>1, <1>2, <1>3, <1>4 DEF ChannelInv, PeersAgree, TypeOK, Write, endVars, handleVars
<1>8. ListedWaiters'
  <2> SUFFICES ASSUME NEW f \in Endpoints, NEW u \in waiters'[f]
               PROVE  /\ wChannel'[u] = f /\ wMsg'[u] = None /\ (~Signalled(u))'
                      /\ InCall(u)' \/ pc'[u] = "dead"
    BY DEF ListedWaiters
  <2>1. u \in waiters[f] /\ u \in Threads
    BY <1>2, <1>4
  <2>2. /\ wChannel[u] = f /\ wMsg[u] = None /\ ~Signalled(u)
        /\ InCall(u) \/ pc[u] = "dead"
    BY <2>1 DEF ChannelInv, ListedWaiters
  <2>3. wStatus'[u] = wStatus[u] /\ wMsg'[u] = wMsg[u]
    <3>1. CASE f = d
      BY <3>1, <1>4, <2>1
    <3>2. CASE f # d
      BY <3>2, <1>1, <1>4, <2>1, <2>2 DEF ChannelInv, ListedWaiters
    <3> QED BY <3>1, <3>2
  <2>4. pc'[u] = pc[u] /\ wChannel'[u] = wChannel[u]
    BY <2>1, <2>2 DEF Write, Return, Goto, InCall, ChannelInv, TypeOK
  <2> QED BY <2>2, <2>3, <2>4 DEF Signalled, InCall
<1>9. UniqueTxids'
  BY <1>1, <1>2, <1>4 DEF ChannelInv, UniqueTxids, Write
<1>10. SignalsMatch'
  <2>1. \/ UNCHANGED queueVars
        \/ /\ messages'[d] # <<>>
           /\ signals'[d] = signals[d] \cup {"READABLE"}
           /\ \A f \in Endpoints : f # d => /\ messages'[f] = messages[f]
                                            /\ signals'[f] = signals[f]
    BY <1>1, <1>2, WriteSelfQueues DEF ChannelInv
  <2> QED
    BY <1>1, <2>1 DEF ChannelInv, SignalsMatch, Write, queueVars, handleVars
<1>11. OwnerIsLatest'
  <2>1. lastUse' = [lastUse EXCEPT ![e] = transfers[e]]
    BY <1>1, UseIsLatest DEF ChannelInv
  <2>2. UNCHANGED <<owner, transfers, receipt>>
    BY DEF Write, endVars, handleVars
  <2> QED BY <2>1, <2>2 DEF ChannelInv, OwnerIsLatest, TypeOK
<1> QED BY <1>3, <1>5, <1>6, <1>7, <1>8, <1>9, <1>10, <1>11 DEF ChannelInv

(* A transaction id taken modulo their number is one.                       *)
LEMMA TxidAfterType ==
  ASSUME NEW x \in Nat, NEW k \in Nat
  PROVE  TxidAfter(x, k) \in 0 .. NumTxids - 1
<1>1. NumTxids \in Nat /\ NumTxids > 0 /\ x + k \in Int
  BY ChannelAssumption
<1>2. \A n \in Int : n % NumTxids \in 0 .. NumTxids - 1
  BY <1>1
<1> QED BY <1>1, <1>2 DEF TxidAfter

(* Call preserves the invariant.                                            *)
LEMMA CallStep ==
  ASSUME NEW t \in Threads, ChannelInv, Call(t)
  PROVE  ChannelInv'
<1> DEFINE e == tEnd[t]
           m == tMsg[t]
           d == Peer(tEnd[t])
           list == [waiters EXCEPT ![e] = @ \cup {t}]
           status == [wStatus EXCEPT ![t] = "TIMED_OUT"]
<1>1. /\ e \in Endpoints /\ d \in Endpoints /\ d # e /\ m \in Messages
      /\ packet[m] # None /\ IsOwner(t) /\ hasPeer[e] /\ Use(t)
      /\ wChannel[t] = None
  BY PeerFacts DEF ChannelInv, Locals, Call
<1>2. PICK k \in 1 .. NumTxids :
        LET x == TxidAfter(txid[e], k) IN
        /\ TxidFree(e, x)
        /\ txid' = [txid EXCEPT ![e] = x]
        /\ wTxid' = [wTxid EXCEPT ![t] = x]
        /\ packet' = [packet EXCEPT ![m].txid = x]
        /\ WriteSelf(d, m, x, list, status)
  BY DEF Call
<1> DEFINE x == TxidAfter(txid[e], k)
<1>3. x \in 0 .. NumTxids - 1
  <2>1. txid[e] \in Nat /\ k \in Nat
    BY <1>1, ChannelAssumption DEF ChannelInv, TypeOK
  <2> QED BY <2>1, TxidAfterType
<1>4. /\ list \in [Endpoints -> SUBSET Threads]
      /\ status \in [Threads -> Statuses]
      /\ waiters[d] \subseteq list[d]
      /\ waiters \in [Endpoints -> SUBSET Threads]
  BY <1>1 DEF ChannelInv, TypeOK, Statuses
<1>5. \A f \in Endpoints : t \notin waiters[f]
  BY <1>1, ChannelAssumption DEF ChannelInv, ListedWaiters
<1> HIDE DEF list, status, x
<1>6. TypeOK'
  <2>1. /\ messages' \in [Endpoints -> Seq(Messages)]
        /\ signals' \in [Endpoints -> SUBSET {"READABLE", "WRITABLE", "PEER_CLOSED"}]
        /\ waiters' \in [Endpoints -> SUBSET Threads]
        /\ wMsg' \in [Threads -> Messages \cup {None}]
        /\ wStatus' \in [Threads -> Statuses]
    BY <1>1, <1>2, <1>4, WriteSelfTypes DEF ChannelInv, x
  <2>2. lastUse' \in [Endpoints -> Nat]
    BY <1>1, UseIsLatest DEF ChannelInv
  <2>3. packet' \in [Messages -> Packets \cup {None}]
    <3>1. packet[m] \in Packets
      BY <1>1 DEF ChannelInv, TypeOK
    <3>2. [packet[m] EXCEPT !.txid = x] \in Packets
      BY <3>1, <1>3 DEF Packets
    <3> QED BY <1>1, <1>2, <3>2 DEF ChannelInv, TypeOK, x
  <2>4. txid' \in [Endpoints -> 0 .. NumTxids - 1]
    BY <1>2, <1>3 DEF ChannelInv, TypeOK, x
  <2>5. wTxid' \in [Threads -> (0 .. NumTxids - 1) \cup {None}]
    BY <1>2, <1>3 DEF ChannelInv, TypeOK, x
  <2> QED
    BY <1>1, <2>1, <2>2, <2>3, <2>4, <2>5 DEF ChannelInv, TypeOK, Call, Goto,
       Labels, handleVars, callVars
<1>7. /\ \A u \in Threads :
           \/ /\ wStatus'[u] = status[u] /\ wMsg'[u] = wMsg[u]
              /\ u \in waiters'[d] <=> u \in list[d]
           \/ wStatus'[u] = "OK" /\ u \in waiters[d] /\ u \notin waiters'[d]
      /\ \A f \in Endpoints : f # d => waiters'[f] = list[f]
      /\ waiters'[d] \subseteq list[d]
  BY <1>1, <1>2, <1>4, WriteSelfWaiters DEF ChannelInv, x
<1>8. list[d] = waiters[d] /\ list[e] = waiters[e] \cup {t}
  BY <1>1, <1>4 DEF list
<1>9. /\ status[t] = "TIMED_OUT"
      /\ \A u \in Threads : u # t => status[u] = wStatus[u]
  BY DEF status, ChannelInv, TypeOK
<1>10. \A f \in Endpoints : f = d \/ f = e
  BY <1>1, PeerFacts
<1>11. /\ pc' = [pc EXCEPT ![t] = "waiting"] /\ pc[t] = "Call"
       /\ wChannel' = [wChannel EXCEPT ![t] = e]
       /\ UNCHANGED <<hasPeer, owner, handle, transfers, receipt, destroyed,
                      tEnd, tMsg>>
  BY DEF Call, Goto, handleVars, callVars
<1>12. Locals'
  <2>1. \A n \in Messages : packet[n] # None => packet'[n] # None
    <3>1. packet[m] \in Packets
      BY <1>1 DEF ChannelInv, TypeOK
    <3>2. [packet[m] EXCEPT !.txid = x] \in Packets
      BY <3>1, <1>3 DEF Packets
    <3>3. packet'[m] = [packet[m] EXCEPT !.txid = x]
      BY <1>1, <1>2 DEF ChannelInv, TypeOK, x
    <3>4. packet'[m] # None
      BY <3>2, <3>3, ChannelAssumption
    <3> QED BY <3>4, <1>2 DEF ChannelInv, TypeOK
  <2> QED BY <2>1, <1>11 DEF ChannelInv, Locals, TypeOK
<1>13. CallerListed'
  <2> SUFFICES ASSUME NEW u \in Threads, InCall(u)'
               PROVE  /\ tEnd'[u] \in Endpoints /\ wChannel'[u] = tEnd'[u]
                      /\ (~Signalled(u))' => u \in waiters'[tEnd'[u]]
    BY DEF CallerListed
  <2>1. CASE u = t
    BY <2>1, <1>1, <1>5, <1>7, <1>8, <1>11 DEF ChannelInv, TypeOK
  <2>2. CASE u # t
    <3>1. InCall(u)
      BY <2>2, <1>11 DEF InCall, ChannelInv, TypeOK
    <3>2. /\ tEnd[u] \in Endpoints /\ wChannel[u] = tEnd[u]
          /\ ~Signalled(u) => u \in waiters[tEnd[u]]
      BY <3>1 DEF ChannelInv, CallerListed
    <3>3. wChannel'[u] = wChannel[u] /\ tEnd'[u] = tEnd[u]
      BY <2>2, <1>11 DEF ChannelInv, TypeOK
    <3>4. CASE wStatus'[u] = "OK"
      BY <3>2, <3>3, <3>4 DEF Signalled
    <3>5. CASE wStatus'[u] # "OK"
      <4>1. /\ wStatus'[u] = wStatus[u]
            /\ u \in waiters'[d] <=> u \in list[d]
        BY <2>2, <3>5, <1>7, <1>9
      <4>2. \A f \in Endpoints : u \in waiters[f] => u \in waiters'[f]
        BY <4>1, <1>7, <1>8, <1>10
      <4> QED BY <3>2, <3>3, <4>1, <4>2 DEF Signalled
    <3> QED BY <3>4, <3>5
  <2> QED BY <2>1, <2>2
<1>13a. IdleWaiters'
  <2>1. \A u \in waiters[d] : wChannel[u] # None
    BY <1>1, ChannelAssumption DEF ChannelInv, ListedWaiters
  <2> QED
    BY <2>1, <1>1, <1>7, <1>11, ChannelAssumption DEF ChannelInv, IdleWaiters, TypeOK
<1>14. PeersAgree'
  BY <1>1, <1>8, <1>10, <1>7, <1>11 DEF ChannelInv, PeersAgree
<1>15. ListedWaiters'
  <2> SUFFICES ASSUME NEW f \in Endpoints, NEW u \in waiters'[f]
               PROVE  /\ wChannel'[u] = f /\ wMsg'[u] = None /\ (~Signalled(u))'
                      /\ InCall(u)' \/ pc'[u] = "dead"
    BY DEF ListedWaiters
  <2>1. u \in Threads
    BY <1>6 DEF TypeOK
  <2>2. CASE u = t
    <3>1. f = e
      BY <2>2, <1>5, <1>7, <1>8, <1>10
    <3>2. wMsg[t] = None
      BY <1>1 DEF ChannelInv, IdleWaiters
    <3> QED
      BY <2>2, <3>1, <3>2, <1>1, <1>5, <1>7, <1>9, <1>11
         DEF ChannelInv, TypeOK, Signalled, InCall
  <2>3. CASE u # t
    <3>1. u \in waiters[f]
      BY <2>3, <1>7, <1>8, <1>10
    <3>2. /\ wChannel[u] = f /\ wMsg[u] = None /\ ~Signalled(u)
          /\ InCall(u) \/ pc[u] = "dead"
      BY <3>1 DEF ChannelInv, ListedWaiters
    <3>3. wStatus'[u] = wStatus[u] /\ wMsg'[u] = wMsg[u]
      BY <2>1, <2>3, <3>1, <3>2, <1>7, <1>9, <1>10, <1>1 DEF ChannelInv, ListedWaiters
    <3> QED
      BY <2>1, <2>3, <3>2, <3>3, <1>11 DEF ChannelInv, TypeOK, Signalled, InCall
  <2> QED BY <2>2, <2>3
<1>16. UniqueTxids'
  <2>1. \A u \in waiters[e] : wTxid[u] # x
    BY <1>2 DEF TxidFree, x
  <2>2. \A f \in Endpoints : waiters'[f] \subseteq waiters[f] \cup IF f = e THEN {t} ELSE {}
    BY <1>1, <1>7, <1>8, <1>10
  <2>3. \A f \in Endpoints : \A u \in waiters'[f] :
          wTxid'[u] = IF u = t THEN x ELSE wTxid[u]
    BY <1>2, <1>6 DEF ChannelInv, TypeOK, x
  <2> QED BY <2>1, <2>2, <2>3, <1>5 DEF ChannelInv, UniqueTxids
<1>17. SignalsMatch'
  <2>1. \/ UNCHANGED queueVars
        \/ /\ messages'[d] # <<>>
           /\ signals'[d] = signals[d] \cup {"READABLE"}
           /\ \A f \in Endpoints : f # d => /\ messages'[f] = messages[f]
                                            /\ signals'[f] = signals[f]
    BY <1>1, <1>2, WriteSelfQueues DEF ChannelInv, x
  <2> QED
    BY <1>1, <2>1, <1>11 DEF ChannelInv, SignalsMatch, queueVars
<1>18. OwnerIsLatest'
  <2>1. lastUse' = [lastUse EXCEPT ![e] = transfers[e]]
    BY <1>1, UseIsLatest DEF ChannelInv
  <2> QED BY <2>1, <1>11 DEF ChannelInv, OwnerIsLatest, TypeOK
<1> QED
  BY <1>6, <1>12, <1>13, <1>13a, <1>14, <1>15, <1>16, <1>17, <1>18 DEF ChannelInv

-----------------------------------------------------------------------------
(* The state that Create leaves satisfies the invariant.                    *)
LEMMA InitInv == Init => ChannelInv
<1> SUFFICES ASSUME Init PROVE ChannelInv
  OBVIOUS
<1>1. TypeOK
  <2>1. receipt \in [Endpoints -> [Processes -> Nat]]
    BY ChannelAssumption DEF Init
  <2>2. messages \in [Endpoints -> Seq(Messages)]
    BY DEF Init
  <2> QED
    BY <2>1, <2>2, ChannelAssumption DEF Init, TypeOK, Statuses, Labels
<1>2. Locals /\ CallerListed /\ IdleWaiters /\ ListedWaiters /\ UniqueTxids
  BY DEF Init, Locals, CallerListed, IdleWaiters, ListedWaiters, UniqueTxids,
     InCall
<1>3. PeersAgree
  BY DEF Init, PeersAgree, Endpoints
<1>4. SignalsMatch
  BY PeerFacts DEF Init, SignalsMatch
<1>5. OwnerIsLatest
  BY ChannelAssumption DEF Init, OwnerIsLatest
<1> QED BY <1>1, <1>2, <1>3, <1>4, <1>5 DEF ChannelInv

(* Every step preserves the invariant.                                      *)
LEMMA NextInv == ChannelInv /\ [Next]_vars => ChannelInv'
<1> SUFFICES ASSUME ChannelInv, [Next]_vars PROVE ChannelInv'
  OBVIOUS
<1>1. CASE Next
  <2>1. ASSUME NEW e \in Endpoints,
               \/ \E p \in Processes : AddHandle(e, p)
               \/ RemoveHandle(e) \/ OnZeroHandles(e) \/ Destroy(e)
        PROVE  ChannelInv'
    BY <2>1, AddHandleStep, RemoveHandleStep, OnZeroHandlesStep, DestroyStep
  <2>2. ASSUME NEW t \in Threads, NEW e \in Endpoints,
               \/ StartRead(t, e)
               \/ \E m \in Messages :
                    \/ \E r \in Messages \cup {None} : StartWrite(t, e, m, r)
                    \/ StartCall(t, e, m)
        PROVE  ChannelInv'
    BY <2>2, StartReadStep, StartWriteStep, StartCallStep
  <2>3. ASSUME NEW t \in Threads,
               \/ \E fits, mayDiscard \in BOOLEAN :
                    ReadFails(t, fits, mayDiscard) \/ Read(t, fits, mayDiscard)
               \/ WriteFails(t) \/ Write(t)
        PROVE  ChannelInv'
    BY <2>3, ReadFailsStep, ReadStep, WriteFailsStep, WriteStep
  <2>4. ASSUME NEW t \in Threads,
               \/ CallShot(t) \/ CallNotOwner(t) \/ CallPeerClosed(t) \/ Call(t)
               \/ Woken(t) \/ Expires(t) \/ Interrupted(t) \/ CallFinish(t)
               \/ \E fits \in BOOLEAN : ResumeInterruptedCall(t, fits)
               \/ Exit(t) \/ RemoveWaiter(t)
        PROVE  ChannelInv'
    BY <2>4, CallShotStep, CallNotOwnerStep, CallPeerClosedStep, CallStep,
       WokenStep, ExpiresStep, InterruptedStep, CallFinishStep,
       ResumeInterruptedCallStep, ExitStep, RemoveWaiterStep
  <2>5. ASSUME NEW p \in Processes, Kill(p)
        PROVE  ChannelInv'
    BY <2>5, KillStep
  <2> QED BY <1>1, <2>1, <2>2, <2>3, <2>4, <2>5 DEF Next
<1>2. CASE UNCHANGED vars
  <2>1. UNCHANGED <<endVars, queueVars, handleVars, destroyed, waitVars, pc,
                    callVars, killed, msgVars, lastUse>>
    BY <1>2 DEF vars
  <2>2. TypeOK'
    BY <2>1 DEF ChannelInv, TypeOK, endVars, queueVars, handleVars, waitVars,
       callVars, msgVars
  <2>3. Locals' /\ CallerListed' /\ IdleWaiters' /\ ListedWaiters' /\ UniqueTxids'
    BY <2>1 DEF ChannelInv, Locals, CallerListed, IdleWaiters, ListedWaiters,
       UniqueTxids, InCall, Signalled, waitVars, callVars, msgVars
  <2>4. PeersAgree' /\ SignalsMatch' /\ OwnerIsLatest'
    BY <2>1 DEF ChannelInv, PeersAgree, SignalsMatch, OwnerIsLatest, endVars,
       queueVars, handleVars, waitVars
  <2> QED BY <2>2, <2>3, <2>4 DEF ChannelInv
<1> QED BY <1>1, <1>2

(* ChannelInv is an invariant of the channel, for any number of processes,  *)
(* threads, messages and transfers of the two handles.                      *)
THEOREM ChannelInvariant == Spec => []ChannelInv
BY InitInv, NextInv, PTL DEF Spec

(* Every variable keeps its type.                                           *)
THEOREM ChannelTypeCorrect == Spec => []TypeOK
<1>1. ChannelInv => TypeOK
  BY DEF ChannelInv
<1> QED BY <1>1, ChannelInvariant, PTL

(* The DEBUG_ASSERTs of MessageWaiter hold: a waiter on a list is in use on *)
(* that endpoint, unanswered, and its thread is in the call or dead.        *)
THEOREM ListedWaitersHolds == Spec => []ListedWaiters
<1>1. ChannelInv => ListedWaiters
  BY DEF ChannelInv
<1> QED BY <1>1, ChannelInvariant, PTL

(* No thread waits in zx_channel_call for an answer that cannot come: until *)
(* it is answered it is listed, and closing either endpoint answers it.     *)
THEOREM NoStrandedCallerHolds == Spec => []NoStrandedCaller
<1>1. ChannelInv => NoStrandedCaller
  <2> SUFFICES ASSUME ChannelInv, NEW t \in Threads, InCall(t), ~Signalled(t)
               PROVE  /\ t \in waiters[tEnd[t]]
                      /\ hasPeer[tEnd[t]]
                      /\ \A e \in Endpoints : handle[e] # "deleted"
    BY DEF NoStrandedCaller
  <2>1. tEnd[t] \in Endpoints /\ t \in waiters[tEnd[t]]
    BY DEF ChannelInv, CallerListed
  <2>2. hasPeer[tEnd[t]]
    BY <2>1 DEF ChannelInv, PeersAgree
  <2>3. \A e \in Endpoints : handle[e] # "deleted"
    BY <2>1, <2>2 DEF ChannelInv, PeersAgree, Endpoints
  <2> QED BY <2>1, <2>2, <2>3
<1> QED BY <1>1, ChannelInvariant, PTL

(* Calls pending on one endpoint never share a transaction id, however      *)
(* often the counter of Call wraps around.                                  *)
THEOREM UniqueTxidsHolds == Spec => []UniqueTxids
<1>1. ChannelInv => UniqueTxids
  BY DEF ChannelInv
<1> QED BY <1>1, ChannelInvariant, PTL

(* READABLE, WRITABLE and PEER_CLOSED say what the queue and the handles    *)
(* say.                                                                     *)
THEOREM SignalsMatchHolds == Spec => []SignalsMatch
<1>1. ChannelInv => SignalsMatch
  BY DEF ChannelInv
<1> QED BY <1>1, ChannelInvariant, PTL

(* Uses of an endpoint by successive owners take effect in the order in     *)
(* which the owners received it.                                            *)
THEOREM OwnerOrderHolds == Spec => OwnerOrder
<1>1. ChannelInv /\ [Next]_vars =>
        [\A e \in Endpoints : lastUse'[e] >= lastUse[e]]_vars
  <2> SUFFICES ASSUME ChannelInv, Next, NEW e \in Endpoints
               PROVE  lastUse'[e] >= lastUse[e]
    OBVIOUS
  <2>1. lastUse[e] \in Nat /\ lastUse[e] <= transfers[e] /\ transfers[e] \in Nat
    BY DEF ChannelInv, TypeOK, OwnerIsLatest
  <2>2. CASE UNCHANGED lastUse
    BY <2>1, <2>2
  <2>3. ASSUME NEW t \in Threads, tEnd[t] \in Endpoints, IsOwner(t), Use(t)
        PROVE  lastUse'[e] >= lastUse[e]
    <3>1. lastUse' = [lastUse EXCEPT ![tEnd[t]] = transfers[tEnd[t]]]
      BY <2>3, UseIsLatest DEF ChannelInv
    <3> QED BY <2>1, <3>1 DEF ChannelInv, TypeOK
  <2>4. ASSUME NEW t \in Threads,
               \/ \E fits, mayDiscard \in BOOLEAN : Read(t, fits, mayDiscard)
               \/ Write(t) \/ Call(t)
        PROVE  tEnd[t] \in Endpoints /\ IsOwner(t) /\ Use(t)
    BY <2>4 DEF ChannelInv, Locals, Read, Write, Call
  <2>5. \/ UNCHANGED lastUse
        \/ \E t \in Threads :
             \/ \E fits, mayDiscard \in BOOLEAN : Read(t, fits, mayDiscard)
             \/ Write(t) \/ Call(t)
    BY DEF Next, AddHandle, RemoveHandle, OnZeroHandles, Destroy, StartRead,
       StartWrite, StartCall, ReadFails, WriteFails, CallShot, CallNotOwner,
       CallPeerClosed, Woken, Expires, Interrupted, CallFinish,
       ResumeInterruptedCall, Exit, RemoveWaiter, Kill
  <2> QED BY <2>2, <2>3, <2>4, <2>5
<1> QED BY <1>1, ChannelInvariant, PTL DEF Spec, OwnerOrder

-----------------------------------------------------------------------------
(* Conservation of messages.                                                *)

(* A message in a queue, and a message in the hands of a thread that writes *)
(* it.                                                                      *)
InQueue(e, m) == \E i \in DOMAIN messages[e] : messages[e][i] = m

Sending(t) == pc[t] \in {"Write", "Call"}

(* A message is made once, and is in the hands of one thread until it is    *)
(* written.                                                                 *)
MadeOnce ==
  /\ \A m \in Messages : fate[m] = "unmade" <=> packet[m] = None
  /\ \A t \in Threads : Sending(t) => fate[tMsg[t]] = "made"
  /\ \A t, u \in Threads : Sending(t) /\ Sending(u) /\ tMsg[t] = tMsg[u] => t = u

(* A caller is answered with ZX_OK exactly when it holds a reply.           *)
AnsweredOK ==
  \A t \in Threads : InCall(t) => (wStatus[t] = "OK" <=> wMsg[t] # None)

(* No message is twice in the queues and waiters, and what is there has     *)
(* been written and not yet received or discarded;                          *)
QueuesDistinct ==
  \A e \in Endpoints :
    /\ \A i, j \in DOMAIN messages[e] : messages[e][i] = messages[e][j] => i = j
    /\ \A m \in Messages : InQueue(e, m) =>
         /\ fate[m] = "landed"
         /\ \A d \in Endpoints : InQueue(d, m) => d = e

RepliesDistinct ==
  \A t \in Threads : wMsg[t] # None =>
    /\ fate[wMsg[t]] = "landed"
    /\ \A u \in Threads : wMsg[u] = wMsg[t] => u = t
    /\ \A e \in Endpoints : ~InQueue(e, wMsg[t])

(* and what has been written and not received or discarded is there.        *)
NoneLost ==
  \A m \in Messages : fate[m] = "landed" =>
    (\E e \in Endpoints : InQueue(e, m)) \/ (\E t \in Threads : wMsg[t] = m)

ConserveInv ==
  MadeOnce /\ AnsweredOK /\ QueuesDistinct /\ RepliesDistinct /\ NoneLost

(* A step that moves no message and makes no call answered.                 *)
LEMMA ConserveFrame ==
  ASSUME ConserveInv, UNCHANGED <<messages, wMsg, fate, packet>>,
         \A t \in Threads : Sending(t)' => Sending(t) /\ tMsg'[t] = tMsg[t],
         \A t \in Threads : InCall(t)' =>
           InCall(t) /\ (wStatus'[t] = "OK" <=> wStatus[t] = "OK")
  PROVE  ConserveInv'
<1>1. MadeOnce'
  BY DEF ConserveInv, MadeOnce
<1>2. AnsweredOK'
  BY DEF ConserveInv, AnsweredOK
<1>3. QueuesDistinct' /\ RepliesDistinct' /\ NoneLost'
  BY DEF ConserveInv, QueuesDistinct, RepliesDistinct, NoneLost, InQueue
<1> QED BY <1>1, <1>2, <1>3 DEF ConserveInv

(* A write or call that fails gives up its message.                         *)
LEMMA ConserveFailed ==
  ASSUME ChannelInv, ConserveInv, UNCHANGED <<messages, wMsg, packet>>,
         NEW t \in Threads, Sending(t),
         fate' = [fate EXCEPT ![tMsg[t]] = "failed"],
         ~Sending(t)', ~InCall(t)',
         \A u \in Threads : u # t => /\ pc'[u] = pc[u] /\ tMsg'[u] = tMsg[u]
                                     /\ wStatus'[u] = wStatus[u]
  PROVE  ConserveInv'
<1>1. tMsg[t] \in Messages /\ packet[tMsg[t]] # None /\ fate[tMsg[t]] = "made"
  BY DEF ChannelInv, Locals, Sending, ConserveInv, MadeOnce
<1>2. \A m \in Messages : fate'[m] = IF m = tMsg[t] THEN "failed" ELSE fate[m]
  BY <1>1 DEF ChannelInv, TypeOK
<1>3. \A u \in Threads : Sending(u)' => u # t /\ Sending(u) /\ tMsg'[u] = tMsg[u]
  BY DEF Sending
<1>4. \A u \in Threads : Sending(u) => tMsg[u] \in Messages
  BY DEF ChannelInv, Locals, Sending
<1>5. MadeOnce'
  BY <1>1, <1>2, <1>3, <1>4 DEF ConserveInv, MadeOnce
<1>6. AnsweredOK'
  BY DEF ConserveInv, AnsweredOK, InCall
<1>7. QueuesDistinct'
  BY <1>1, <1>2 DEF ConserveInv, QueuesDistinct, InQueue
<1>8. RepliesDistinct'
  <2>1. \A u \in Threads : wMsg[u] \in Messages \cup {None}
    BY DEF ChannelInv, TypeOK
  <2> QED BY <1>1, <1>2, <2>1 DEF ConserveInv, RepliesDistinct, InQueue
<1>9. NoneLost'
  BY <1>1, <1>2 DEF ConserveInv, NoneLost, InQueue
<1> QED BY <1>5, <1>6, <1>7, <1>8, <1>9 DEF ConserveInv

(* A message that is made is new, and only its maker has it.                *)
LEMMA ConserveMade ==
  ASSUME ChannelInv, ConserveInv, UNCHANGED <<messages, wMsg, wStatus>>,
         NEW t \in Threads, NEW e \in Endpoints, NEW m \in Messages,
         NEW r \in Messages \cup {None}, r # None => packet[r] # None,
         NEW isCall \in BOOLEAN, NEW label \in {"Write", "Call"},
         MakeMessage(t, e, m, r, isCall), Goto(t, label), pc[t] = "idle"
  PROVE  ConserveInv'
<1>1. /\ fate[m] = "unmade"
      /\ \A n \in Messages : n # m => fate'[n] = fate[n] /\ packet'[n] = packet[n]
      /\ fate'[m] = "made"
  BY DEF ChannelInv, TypeOK, MakeMessage, ConserveInv, MadeOnce
<1>2. packet'[m] # None
  <2>1. r # None => packet[r] \in Packets
    BY DEF ChannelInv, TypeOK
  <2>2. packet'[m] = [from |-> e, txid |-> IF r = None THEN None ELSE packet[r].txid,
                      answers |-> r, call |-> isCall]
    BY DEF MakeMessage, ChannelInv, TypeOK
  <2>3. packet'[m] \in Packets
    <3>1. CASE r = None
      BY <2>2, <3>1 DEF Packets
    <3>2. CASE r # None
      BY <2>1, <2>2, <3>2 DEF Packets
    <3> QED BY <3>1, <3>2
  <2> QED BY <2>3, ChannelAssumption
<1>3. /\ \A u \in Threads : u # t => pc'[u] = pc[u] /\ tMsg'[u] = tMsg[u]
      /\ tMsg'[t] = m /\ pc'[t] = label
  BY DEF ChannelInv, TypeOK, MakeMessage, Goto
<1>4. \A u \in Threads : Sending(u) => tMsg[u] # m /\ tMsg[u] \in Messages
  BY <1>1 DEF ConserveInv, MadeOnce, ChannelInv, Locals, Sending
<1>5. MadeOnce'
  <2>1. \A n \in Messages : fate'[n] = "unmade" <=> packet'[n] = None
    BY <1>1, <1>2 DEF ConserveInv, MadeOnce
  <2>2. \A u \in Threads : u # t => (Sending(u)' <=> Sending(u)) /\ tMsg'[u] = tMsg[u]
    BY <1>3 DEF Sending
  <2>3. \A u \in Threads : Sending(u)' => fate'[tMsg'[u]] = "made"
    BY <1>1, <1>3, <1>4, <2>2 DEF ConserveInv, MadeOnce
  <2>4. \A u, v \in Threads :
          Sending(u)' /\ Sending(v)' /\ tMsg'[u] = tMsg'[v] => u = v
    BY <1>3, <1>4, <2>2 DEF ConserveInv, MadeOnce
  <2> QED BY <2>1, <2>3, <2>4 DEF MadeOnce
<1>6. AnsweredOK'
  BY <1>3 DEF ConserveInv, AnsweredOK, InCall
<1>7. QueuesDistinct'
  BY <1>1 DEF ConserveInv, QueuesDistinct, InQueue
<1>8. RepliesDistinct'
  <2>1. \A u \in Threads : wMsg[u] \in Messages \cup {None}
    BY DEF ChannelInv, TypeOK
  <2> QED BY <1>1, <2>1 DEF ConserveInv, RepliesDistinct, InQueue
<1>9. NoneLost'
  BY <1>1 DEF ConserveInv, NoneLost, InQueue
<1> QED BY <1>5, <1>6, <1>7, <1>8, <1>9 DEF ConserveInv

(* A message that is written is in the waiter or the queue it went to.      *)
LEMMA ConserveLanded ==
  ASSUME ChannelInv, ConserveInv,
         NEW t \in Threads, NEW d \in Endpoints, NEW x, Sending(t),
         NEW m \in Messages, m = tMsg[t],
         NEW list \in [Endpoints -> SUBSET Threads],
         NEW status \in [Threads -> Statuses],
         WriteSelf(d, m, x, list, status),
         fate' = [fate EXCEPT ![m] = "landed"],
         \A n \in Messages : packet'[n] = None <=> packet[n] = None,
         ~Sending(t)', InCall(t)' => status[t] = "TIMED_OUT" /\ wMsg[t] = None,
         t \notin waiters[d],
         \A u \in Threads : u # t => /\ pc'[u] = pc[u] /\ tMsg'[u] = tMsg[u]
                                     /\ status[u] = wStatus[u]
  PROVE  ConserveInv'
<1>1. packet[m] # None /\ fate[m] = "made"
  BY DEF ChannelInv, Locals, Sending, ConserveInv, MadeOnce
<1>2. \A n \in Messages : fate'[n] = IF n = m THEN "landed" ELSE fate[n]
  BY <1>1 DEF ChannelInv, TypeOK
<1>3. \A u \in Threads : Sending(u)' => u # t /\ Sending(u) /\ tMsg'[u] = tMsg[u]
  BY DEF Sending
<1>4. \A u \in Threads : Sending(u) => tMsg[u] \in Messages
  BY DEF ChannelInv, Locals, Sending
<1>5. MadeOnce'
  BY <1>1, <1>2, <1>3, <1>4 DEF ConserveInv, MadeOnce
<1>6. \A u \in Threads : wMsg[u] \in Messages \cup {None} /\ wMsg[u] # m
  BY <1>1, ChannelAssumption DEF ChannelInv, TypeOK, ConserveInv, RepliesDistinct
<1>7. \A e \in Endpoints : ~InQueue(e, m)
  BY <1>1 DEF ConserveInv, QueuesDistinct
<1>8. m # None
  BY <1>1, ChannelAssumption
<1>9. CASE Matches(d, x) # {}
  <2>1. PICK w \in Matches(d, x) : /\ wMsg' = [wMsg EXCEPT ![w] = m]
                                   /\ wStatus' = [status EXCEPT ![w] = "OK"]
                                   /\ UNCHANGED queueVars
    BY <1>9 DEF WriteSelf
  <2>2. w \in Threads /\ w # t /\ wMsg[w] = None
    BY DEF Matches, ChannelInv, TypeOK, ListedWaiters
  <2>3. \A u \in Threads : wMsg'[u] = IF u = w THEN m ELSE wMsg[u]
    BY <2>1, <2>2 DEF ChannelInv, TypeOK
  <2>4. \A u \in Threads : wStatus'[u] = IF u = w THEN "OK" ELSE status[u]
    BY <2>1, <2>2
  <2>5. AnsweredOK'
    <3> SUFFICES ASSUME NEW u \in Threads, InCall(u)'
                 PROVE  wStatus'[u] = "OK" <=> wMsg'[u] # None
      BY DEF AnsweredOK
    <3>1. CASE u = w
      BY <3>1, <2>3, <2>4, <1>8
    <3>2. CASE u = t
      BY <3>2, <2>2, <2>3, <2>4
    <3>3. CASE u # w /\ u # t
      <4>1. InCall(u)
        BY <3>3 DEF InCall
      <4> QED BY <3>3, <4>1, <2>3, <2>4 DEF ConserveInv, AnsweredOK
    <3> QED BY <3>1, <3>2, <3>3
  <2>6. messages' = messages
    BY <2>1 DEF queueVars
  <2>7. QueuesDistinct'
    BY <1>2, <1>7, <2>6 DEF ConserveInv, QueuesDistinct, InQueue
  <2>8. RepliesDistinct'
    <3>1. \A e \in Endpoints, n \in Messages : InQueue(e, n)' <=> InQueue(e, n)
      BY <2>6 DEF InQueue
    <3> QED BY <1>1, <1>2, <1>6, <1>7, <2>2, <2>3, <3>1
            DEF ConserveInv, RepliesDistinct
  <2>9. NoneLost'
    <3> SUFFICES ASSUME NEW n \in Messages, fate'[n] = "landed"
                 PROVE  (\E e \in Endpoints : InQueue(e, n)') \/ (\E u \in Threads : wMsg'[u] = n)
      BY DEF NoneLost
    <3>1. CASE n = m
      BY <3>1, <2>2, <2>3
    <3>2. CASE n # m
      <4>1. \/ \E e \in Endpoints : InQueue(e, n)
            \/ \E u \in Threads : wMsg[u] = n
        BY <3>2, <1>2 DEF ConserveInv, NoneLost
      <4>2. \A e \in Endpoints : InQueue(e, n)' <=> InQueue(e, n)
        BY <2>6 DEF InQueue
      <4>3. n # None
        BY ChannelAssumption
      <4> QED BY <4>1, <4>2, <4>3, <2>2, <2>3
    <3> QED BY <3>1, <3>2
  <2> QED BY <1>5, <2>5, <2>7, <2>8, <2>9 DEF ConserveInv
<1>10. CASE Matches(d, x) = {}
  <2>1. /\ messages' = [messages EXCEPT ![d] = Append(@, m)]
        /\ wStatus' = status /\ wMsg' = wMsg
    BY <1>10 DEF WriteSelf
  <2>2. messages[d] \in Seq(Messages)
    BY DEF ChannelInv, TypeOK
  <2>3. /\ \A e \in Endpoints : e # d => messages'[e] = messages[e]
        /\ messages'[d] = Append(messages[d], m)
    BY <2>1 DEF ChannelInv, TypeOK
  <2>4. /\ DOMAIN messages[d] = 1 .. Len(messages[d]) /\ Len(messages[d]) \in Nat
        /\ DOMAIN messages'[d] = 1 .. (Len(messages[d]) + 1)
        /\ \A i \in 1 .. Len(messages[d]) : messages'[d][i] = messages[d][i]
        /\ messages'[d][Len(messages[d]) + 1] = m
    BY <2>2, <2>3, <1>1
  <2>5. \A n \in Messages : InQueue(d, n)' <=> InQueue(d, n) \/ n = m
    <3>1. \A n \in Messages : InQueue(d, n) => InQueue(d, n)'
      BY <2>4 DEF InQueue
    <3>2. InQueue(d, m)'
      BY <2>4 DEF InQueue
    <3>3. ASSUME NEW n \in Messages, InQueue(d, n)', n # m
          PROVE  InQueue(d, n)
      <4>1. PICK i \in 1 .. (Len(messages[d]) + 1) : messages'[d][i] = n
        BY <3>3, <2>4 DEF InQueue
      <4>2. i \in 1 .. Len(messages[d])
        BY <4>1, <3>3, <2>4
      <4> QED BY <4>1, <4>2, <2>4 DEF InQueue
    <3> QED BY <3>1, <3>2, <3>3
  <2>6. \A n \in Messages, e \in Endpoints :
          InQueue(e, n)' <=> InQueue(e, n) \/ (e = d /\ n = m)
    BY <2>3, <2>5 DEF InQueue
  <2>7. AnsweredOK'
    <3> SUFFICES ASSUME NEW u \in Threads, InCall(u)'
                 PROVE  wStatus'[u] = "OK" <=> wMsg'[u] # None
      BY DEF AnsweredOK
    <3>1. CASE u = t
      BY <3>1, <2>1
    <3>2. CASE u # t
      <4>1. InCall(u)
        BY <3>2 DEF InCall
      <4> QED BY <3>2, <4>1, <2>1 DEF ConserveInv, AnsweredOK
    <3> QED BY <3>1, <3>2
  <2>8. QueuesDistinct'
    <3>1. ASSUME NEW i \in DOMAIN messages'[d], NEW j \in DOMAIN messages'[d],
                 messages'[d][i] = messages'[d][j]
          PROVE  i = j
      <4>1. \A k \in 1 .. Len(messages[d]) : messages[d][k] # m
        BY <1>7, <2>4 DEF InQueue
      <4>2. \A k, l \in 1 .. Len(messages[d]) : messages[d][k] = messages[d][l] => k = l
        BY <2>4 DEF ConserveInv, QueuesDistinct
      <4> QED BY <3>1, <4>1, <4>2, <2>4
    <3>2. \A e \in Endpoints : \A i, j \in DOMAIN messages'[e] :
            messages'[e][i] = messages'[e][j] => i = j
      <4> SUFFICES ASSUME NEW e \in Endpoints
                   PROVE  \A i, j \in DOMAIN messages'[e] :
                            messages'[e][i] = messages'[e][j] => i = j
        OBVIOUS
      <4>1. CASE e = d
        BY <4>1, <3>1
      <4>2. CASE e # d
        BY <4>2, <2>3 DEF ConserveInv, QueuesDistinct
      <4> QED BY <4>1, <4>2
    <3>3. \A e \in Endpoints : \A n \in Messages : InQueue(e, n)' =>
            /\ fate'[n] = "landed"
            /\ \A f \in Endpoints : InQueue(f, n)' => f = e
      BY <1>2, <1>7, <2>6 DEF ConserveInv, QueuesDistinct
    <3> QED BY <3>2, <3>3 DEF QueuesDistinct
  <2>9. RepliesDistinct'
    BY <1>2, <1>6, <2>1, <2>6 DEF ConserveInv, RepliesDistinct
  <2>10. NoneLost'
    BY <1>2, <2>1, <2>6 DEF ConserveInv, NoneLost
  <2> QED BY <1>5, <2>7, <2>8, <2>9, <2>10 DEF ConserveInv
<1> QED BY <1>9, <1>10

(* Read takes the first message out of its queue.                           *)
LEMMA ConserveRead ==
  ASSUME NEW t \in Threads, NEW fits \in BOOLEAN, NEW mayDiscard \in BOOLEAN,
         ChannelInv, ConserveInv, Read(t, fits, mayDiscard)
  PROVE  ConserveInv'
<1>1. PICK e \in Endpoints : e = tEnd[t]
  BY DEF ChannelInv, Locals, Read
<1>2. /\ messages[e] # <<>>
      /\ messages' = [messages EXCEPT ![e] = Tail(@)]
      /\ fate' = [fate EXCEPT ![Head(messages[e])] = ReadOut(fits)]
      /\ UNCHANGED <<wMsg, wStatus, packet>>
      /\ pc' = [pc EXCEPT ![t] = "idle"]
      /\ tMsg' = [tMsg EXCEPT ![t] = None]
  BY <1>1 DEF Read, Return, Goto, waitVars
<1>3. messages[e] \in Seq(Messages)
  BY DEF ChannelInv, TypeOK
<1>4. PICK m \in Messages : m = Head(messages[e])
  BY <1>2, <1>3
<1>5. /\ DOMAIN messages[e] = 1 .. Len(messages[e]) /\ Len(messages[e]) \in Nat \ {0}
      /\ messages'[e] = Tail(messages[e])
      /\ DOMAIN messages'[e] = 1 .. (Len(messages[e]) - 1)
      /\ \A i \in 1 .. (Len(messages[e]) - 1) : messages'[e][i] = messages[e][i + 1]
      /\ messages[e][1] = m
  BY <1>2, <1>3, <1>4 DEF ChannelInv, TypeOK
<1>6. \A d \in Endpoints : d # e => messages'[d] = messages[d]
  BY <1>2 DEF ChannelInv, TypeOK
<1>7. \A i, j \in DOMAIN messages[e] : messages[e][i] = messages[e][j] => i = j
  BY DEF ConserveInv, QueuesDistinct
<1>8. \A n \in Messages : InQueue(e, n)' <=> InQueue(e, n) /\ n # m
  <2>1. ASSUME NEW n \in Messages, InQueue(e, n)'
        PROVE  InQueue(e, n) /\ n # m
    <3>1. PICK i \in 1 .. (Len(messages[e]) - 1) : messages'[e][i] = n
      BY <2>1, <1>5 DEF InQueue
    <3>2. messages[e][i + 1] = n /\ i + 1 \in 1 .. Len(messages[e]) /\ i + 1 # 1
      BY <3>1, <1>5
    <3> QED BY <3>2, <1>5, <1>7 DEF InQueue
  <2>2. ASSUME NEW n \in Messages, InQueue(e, n), n # m
        PROVE  InQueue(e, n)'
    <3>1. PICK i \in 1 .. Len(messages[e]) : messages[e][i] = n
      BY <2>2, <1>5 DEF InQueue
    <3>2. i - 1 \in 1 .. (Len(messages[e]) - 1) /\ (i - 1) + 1 = i
      BY <3>1, <2>2, <1>5
    <3> QED BY <3>1, <3>2, <1>5 DEF InQueue
  <2> QED BY <2>1, <2>2
<1>9. \A d \in Endpoints, n \in Messages :
        InQueue(d, n)' <=> InQueue(d, n) /\ (d # e \/ n # m)
  BY <1>6, <1>8 DEF InQueue
<1>10. InQueue(e, m) /\ fate[m] = "landed"
  <2>1. InQueue(e, m)
    BY <1>5 DEF InQueue
  <2> QED BY <2>1 DEF ConserveInv, QueuesDistinct
<1>11. \A n \in Messages : fate'[n] = IF n = m THEN ReadOut(fits) ELSE fate[n]
  BY <1>2, <1>4 DEF ChannelInv, TypeOK
<1>12. ReadOut(fits) \notin {"unmade", "made", "landed"}
  BY DEF ReadOut
<1>13. /\ ~Sending(t)' /\ ~InCall(t)'
       /\ \A u \in Threads : u # t => pc'[u] = pc[u] /\ tMsg'[u] = tMsg[u]
  BY <1>2 DEF Sending, InCall, ChannelInv, TypeOK
<1>14. MadeOnce'
  <2>1. \A u \in Threads : Sending(u)' => u # t /\ Sending(u) /\ tMsg'[u] = tMsg[u]
    BY <1>13 DEF Sending
  <2>2. \A u \in Threads : Sending(u) => tMsg[u] \in Messages
    BY DEF ChannelInv, Locals, Sending
  <2> QED BY <1>2, <1>10, <1>11, <1>12, <2>1, <2>2 DEF ConserveInv, MadeOnce
<1>15. AnsweredOK'
  BY <1>2, <1>13 DEF ConserveInv, AnsweredOK, InCall
<1>16. QueuesDistinct'
  <2>1. \A i, j \in DOMAIN messages'[e] : messages'[e][i] = messages'[e][j] => i = j
    <3> SUFFICES ASSUME NEW i \in 1 .. (Len(messages[e]) - 1),
                        NEW j \in 1 .. (Len(messages[e]) - 1),
                        messages[e][i + 1] = messages[e][j + 1]
                 PROVE  i = j
      BY <1>5
    <3>1. i + 1 \in 1 .. Len(messages[e]) /\ j + 1 \in 1 .. Len(messages[e])
      BY <1>5
    <3>2. i + 1 = j + 1
      BY <3>1, <1>5, <1>7
    <3> QED BY <3>2
  <2>2. \A d \in Endpoints : \A i, j \in DOMAIN messages'[d] :
          messages'[d][i] = messages'[d][j] => i = j
    <3> SUFFICES ASSUME NEW d \in Endpoints
                 PROVE  \A i, j \in DOMAIN messages'[d] :
                          messages'[d][i] = messages'[d][j] => i = j
      OBVIOUS
    <3>1. CASE d = e
      BY <3>1, <2>1
    <3>2. CASE d # e
      BY <3>2, <1>6 DEF ConserveInv, QueuesDistinct
    <3> QED BY <3>1, <3>2
  <2>3. \A d \in Endpoints : \A n \in Messages : InQueue(d, n)' =>
          /\ fate'[n] = "landed"
          /\ \A f \in Endpoints : InQueue(f, n)' => f = d
    BY <1>9, <1>10, <1>11 DEF ConserveInv, QueuesDistinct
  <2> QED BY <2>2, <2>3 DEF QueuesDistinct
<1>17. RepliesDistinct'
  <2>1. \A u \in Threads : wMsg[u] \in Messages \cup {None} /\ wMsg[u] # m
    BY <1>10, ChannelAssumption DEF ChannelInv, TypeOK, ConserveInv, RepliesDistinct
  <2> QED BY <1>2, <1>9, <1>11, <2>1 DEF ConserveInv, RepliesDistinct
<1>18. NoneLost'
  BY <1>2, <1>9, <1>11, <1>12 DEF ConserveInv, NoneLost
<1> QED BY <1>14, <1>15, <1>16, <1>17, <1>18 DEF ConserveInv

(* Destroy discards the queue of the endpoint.                              *)
LEMMA ConserveDestroy ==
  ASSUME NEW e \in Endpoints, ChannelInv, ConserveInv, Destroy(e)
  PROVE  ConserveInv'
<1>1. /\ messages' = [messages EXCEPT ![e] = <<>>]
      /\ \A n \in Messages :
           fate'[n] = IF InQueue(e, n) THEN "discarded" ELSE fate[n]
      /\ UNCHANGED <<wMsg, wStatus, packet, pc, tMsg>>
  BY DEF Destroy, InQueue, waitVars, callVars
<1>2. /\ DOMAIN messages'[e] = {}
      /\ \A d \in Endpoints : d # e => messages'[d] = messages[d]
  BY <1>1 DEF ChannelInv, TypeOK
<1>3. \A d \in Endpoints, n \in Messages :
        InQueue(d, n)' <=> InQueue(d, n) /\ d # e
  BY <1>2 DEF InQueue
<1>4. \A n \in Messages : InQueue(e, n) => fate[n] = "landed"
  BY DEF ConserveInv, QueuesDistinct
<1>5. MadeOnce'
  <2>1. \A u \in Threads : Sending(u)' <=> Sending(u)
    BY <1>1 DEF Sending
  <2>2. \A u \in Threads : Sending(u) => tMsg[u] \in Messages
    BY DEF ChannelInv, Locals, Sending
  <2> QED BY <1>1, <1>4, <2>1, <2>2 DEF ConserveInv, MadeOnce
<1>6. AnsweredOK'
  BY <1>1 DEF ConserveInv, AnsweredOK, InCall
<1>7. QueuesDistinct'
  <2>1. \A d \in Endpoints : \A i, j \in DOMAIN messages'[d] :
          messages'[d][i] = messages'[d][j] => i = j
    BY <1>2 DEF ConserveInv, QueuesDistinct
  <2>2. \A d \in Endpoints : \A n \in Messages : InQueue(d, n)' =>
          /\ fate'[n] = "landed"
          /\ \A f \in Endpoints : InQueue(f, n)' => f = d
    BY <1>1, <1>3 DEF ConserveInv, QueuesDistinct
  <2> QED BY <2>1, <2>2 DEF QueuesDistinct
<1>8. RepliesDistinct'
  <2>1. \A u \in Threads : wMsg[u] \in Messages \cup {None}
    BY DEF ChannelInv, TypeOK
  <2> QED BY <1>1, <1>3, <2>1 DEF ConserveInv, RepliesDistinct
<1>9. NoneLost'
  BY <1>1, <1>3 DEF ConserveInv, NoneLost
<1> QED BY <1>5, <1>6, <1>7, <1>8, <1>9 DEF ConserveInv

(* A thread takes the reply out of its waiter, if there is one.             *)
LEMMA ConserveTaken ==
  ASSUME ChannelInv, ConserveInv, NEW t \in Threads,
         NEW outcome \in {"received", "discarded"},
         UNCHANGED <<messages, packet>>,
         wMsg' = [wMsg EXCEPT ![t] = None],
         fate' = IF wMsg[t] # None THEN [fate EXCEPT ![wMsg[t]] = outcome]
                 ELSE fate,
         ~Sending(t)', ~InCall(t)',
         \A u \in Threads : u # t => /\ pc'[u] = pc[u] /\ tMsg'[u] = tMsg[u]
                                     /\ wStatus'[u] = wStatus[u]
  PROVE  ConserveInv'
<1>1. PICK m \in Messages \cup {None} : m = wMsg[t]
  BY DEF ChannelInv, TypeOK
<1>2. \A u \in Threads : wMsg'[u] = IF u = t THEN None ELSE wMsg[u]
  BY DEF ChannelInv, TypeOK
<1>3. \A n \in Messages : fate'[n] = IF n = m THEN outcome ELSE fate[n]
  BY <1>1, ChannelAssumption DEF ChannelInv, TypeOK
<1>4. m # None => fate[m] = "landed" /\ \A e \in Endpoints : ~InQueue(e, m)
  BY <1>1 DEF ConserveInv, RepliesDistinct
<1>5. \A e \in Endpoints, n \in Messages : InQueue(e, n)' <=> InQueue(e, n)
  BY DEF InQueue
<1>6. MadeOnce'
  <2>1. \A u \in Threads : Sending(u)' => u # t /\ Sending(u) /\ tMsg'[u] = tMsg[u]
    BY DEF Sending
  <2>2. \A u \in Threads : Sending(u) => tMsg[u] \in Messages
    BY DEF ChannelInv, Locals, Sending
  <2> QED BY <1>3, <1>4, <2>1, <2>2, ChannelAssumption DEF ConserveInv, MadeOnce
<1>7. AnsweredOK'
  BY <1>2 DEF ConserveInv, AnsweredOK, InCall
<1>8. QueuesDistinct'
  <2>1. \A d \in Endpoints : \A n \in Messages : InQueue(d, n)' =>
          /\ fate'[n] = "landed"
          /\ \A f \in Endpoints : InQueue(f, n)' => f = d
    BY <1>3, <1>4, <1>5, ChannelAssumption DEF ConserveInv, QueuesDistinct
  <2> QED BY <2>1 DEF ConserveInv, QueuesDistinct
<1>9. RepliesDistinct'
  <2>1. \A u \in Threads : wMsg[u] \in Messages \cup {None}
    BY DEF ChannelInv, TypeOK
  <2> QED BY <1>1, <1>2, <1>3, <1>5, <2>1 DEF ConserveInv, RepliesDistinct
<1>10. NoneLost'
  BY <1>1, <1>2, <1>3, <1>5 DEF ConserveInv, NoneLost
<1> QED BY <1>6, <1>7, <1>8, <1>9, <1>10 DEF ConserveInv

(* The steps of the channel, by what they do to messages.                   *)
LEMMA ConserveStep ==
  ASSUME ChannelInv, ConserveInv, Next
  PROVE  ConserveInv'
<1>1. ASSUME NEW e \in Endpoints,
             \/ \E p \in Processes : AddHandle(e, p)
             \/ RemoveHandle(e) \/ OnZeroHandles(e)
      PROVE  ConserveInv'
  <2>1. /\ UNCHANGED <<messages, wMsg, fate, packet, pc, tMsg>>
        /\ \A t \in Threads : wStatus'[t] = "OK" <=> wStatus[t] = "OK"
    <3>1. CASE \/ \E p \in Processes : AddHandle(e, p)
               \/ RemoveHandle(e)
      BY <3>1 DEF AddHandle, RemoveHandle, queueVars, waitVars, callVars, msgVars
    <3>2. CASE OnZeroHandles(e)
      <4>1. \A t \in OwnWaiters(e) \cup PeerWaiters(e) : wStatus[t] = "TIMED_OUT"
        BY PeerFacts DEF OwnWaiters, PeerWaiters, ChannelInv, ListedWaiters, Signalled
      <4>2. \A t \in Threads :
              \/ wStatus'[t] = wStatus[t]
              \/ /\ t \in OwnWaiters(e) \cup PeerWaiters(e)
                 /\ wStatus'[t] \in {"CANCELED", "PEER_CLOSED"}
        BY <3>2 DEF OnZeroHandles
      <4> QED BY <3>2, <4>1, <4>2 DEF OnZeroHandles, callVars, msgVars
    <3> QED BY <1>1, <3>1, <3>2
  <2> QED BY <2>1, ConserveFrame DEF Sending, InCall
<1>2. ASSUME NEW e \in Endpoints, Destroy(e)
      PROVE  ConserveInv'
  BY <1>2, ConserveDestroy
<1>3. ASSUME NEW t \in Threads, NEW e \in Endpoints, StartRead(t, e)
      PROVE  ConserveInv'
  BY <1>3, ConserveFrame
  DEF StartRead, Goto, Sending, InCall, queueVars, waitVars, msgVars, ChannelInv, TypeOK
<1>4. ASSUME NEW t \in Threads, NEW e \in Endpoints, NEW m \in Messages,
             \/ \E r \in Messages \cup {None} : StartWrite(t, e, m, r)
             \/ StartCall(t, e, m)
      PROVE  ConserveInv'
  <2>1. ASSUME NEW r \in Messages \cup {None}, StartWrite(t, e, m, r)
        PROVE  ConserveInv'
    <3>1. /\ r # None => packet[r] # None
          /\ UNCHANGED <<messages, wMsg, wStatus>> /\ pc[t] = "idle"
          /\ MakeMessage(t, e, m, r, FALSE) /\ Goto(t, "Write")
      BY <2>1 DEF StartWrite, Answerable, Lookup, queueVars, waitVars
    <3> QED BY <3>1, ConserveMade
  <2>2. ASSUME StartCall(t, e, m)
        PROVE  ConserveInv'
    <3>1. /\ UNCHANGED <<messages, wMsg, wStatus>> /\ pc[t] = "idle"
          /\ MakeMessage(t, e, m, None, TRUE) /\ Goto(t, "Call")
      BY <2>2 DEF StartCall, Lookup, queueVars, waitVars
    <3> QED BY <3>1, ConserveMade
  <2> QED BY <1>4, <2>1, <2>2
<1>5. ASSUME NEW t \in Threads, NEW fits \in BOOLEAN, NEW mayDiscard \in BOOLEAN,
             ReadFails(t, fits, mayDiscard) \/ Read(t, fits, mayDiscard)
      PROVE  ConserveInv'
  <2>1. CASE ReadFails(t, fits, mayDiscard)
    BY <2>1, ConserveFrame DEF ReadFails, Return, Goto, Sending, InCall, queueVars,
       waitVars, msgVars, ChannelInv, TypeOK
  <2> QED BY <1>5, <2>1, ConserveRead
<1>6. ASSUME NEW t \in Threads,
             \/ WriteFails(t) \/ CallShot(t) \/ CallNotOwner(t)
             \/ CallPeerClosed(t)
      PROVE  ConserveInv'
  <2>1. /\ Sending(t) /\ fate' = [fate EXCEPT ![tMsg[t]] = "failed"]
        /\ UNCHANGED <<messages, wMsg, packet>>
        /\ pc' = [pc EXCEPT ![t] = "idle"] \/ pc' = [pc EXCEPT ![t] = "shot"]
        /\ tMsg' = [tMsg EXCEPT ![t] = None]
        /\ wStatus' = wStatus \/ wStatus' = [wStatus EXCEPT ![t] = "TIMED_OUT"]
    BY <1>6 DEF WriteFails, CallShot, CallNotOwner, CallPeerClosed, Return, Goto,
       Sending, queueVars, waitVars, msgVars
  <2>2. ~Sending(t)' /\ ~InCall(t)'
    BY <2>1 DEF Sending, InCall, ChannelInv, TypeOK
  <2>3. \A u \in Threads : u # t => /\ pc'[u] = pc[u] /\ tMsg'[u] = tMsg[u]
                                    /\ wStatus'[u] = wStatus[u]
    BY <2>1 DEF ChannelInv, TypeOK
  <2> QED BY <2>1, <2>2, <2>3, ConserveFailed
<1>7. ASSUME NEW t \in Threads, Write(t)
      PROVE  ConserveInv'
  <2>1. tEnd[t] \in Endpoints /\ tMsg[t] \in Messages
    BY <1>7 DEF Write, ChannelInv, Locals
  <2>2. PICK m \in Messages : m = tMsg[t]
    BY <2>1
  <2>3. PICK d \in Endpoints : d = Peer(tEnd[t])
    BY <2>1, PeerFacts
  <2>4. /\ Sending(t) /\ WriteSelf(d, m, packet[m].txid, waiters, wStatus)
        /\ fate' = [fate EXCEPT ![m] = "landed"] /\ packet' = packet
        /\ pc' = [pc EXCEPT ![t] = "idle"]
        /\ tMsg' = [tMsg EXCEPT ![t] = None]
    BY <1>7, <2>2, <2>3 DEF Write, Sending, Return, Goto
  <2>5. /\ ~Sending(t)' /\ ~InCall(t)'
        /\ \A u \in Threads : u # t => pc'[u] = pc[u] /\ tMsg'[u] = tMsg[u]
    BY <2>4 DEF Sending, InCall, ChannelInv, TypeOK
  <2>6. /\ waiters \in [Endpoints -> SUBSET Threads]
        /\ wStatus \in [Threads -> Statuses]
        /\ t \notin waiters[d]
    BY <1>7 DEF Write, InCall, ChannelInv, TypeOK, ListedWaiters
  <2> QED BY <2>2, <2>4, <2>5, <2>6, ConserveLanded
<1>8. ASSUME NEW t \in Threads, Call(t)
      PROVE  ConserveInv'
  <2>1. /\ tEnd[t] \in Endpoints /\ tMsg[t] \in Messages
        /\ packet[tMsg[t]] # None /\ wChannel[t] = None
    BY <1>8 DEF Call, ChannelInv, Locals
  <2>2. PICK m \in Messages : m = tMsg[t]
    BY <2>1
  <2>3. PICK d \in Endpoints : d = Peer(tEnd[t])
    BY <2>1, PeerFacts
  <2>4. PICK x \in 0 .. NumTxids - 1 :
          /\ packet' = [packet EXCEPT ![m].txid = x]
          /\ WriteSelf(d, m, x, [waiters EXCEPT ![tEnd[t]] = @ \cup {t}],
                       [wStatus EXCEPT ![t] = "TIMED_OUT"])
    <3>1. PICK k \in 1 .. NumTxids :
            /\ packet' = [packet EXCEPT ![m].txid = TxidAfter(txid[tEnd[t]], k)]
            /\ WriteSelf(d, m, TxidAfter(txid[tEnd[t]], k),
                         [waiters EXCEPT ![tEnd[t]] = @ \cup {t}],
                         [wStatus EXCEPT ![t] = "TIMED_OUT"])
      BY <1>8, <2>2, <2>3 DEF Call
    <3>2. txid[tEnd[t]] \in Nat /\ k \in Nat
      BY <2>1, ChannelAssumption DEF ChannelInv, TypeOK
    <3>3. TxidAfter(txid[tEnd[t]], k) \in 0 .. NumTxids - 1
      BY <3>2, TxidAfterType
    <3> QED BY <3>1, <3>3
  <2>5. /\ Sending(t) /\ fate' = [fate EXCEPT ![m] = "landed"]
        /\ pc' = [pc EXCEPT ![t] = "waiting"] /\ tMsg' = tMsg
    BY <1>8, <2>2 DEF Call, Sending, Goto, callVars
  <2>6. /\ ~Sending(t)'
        /\ \A u \in Threads : u # t => pc'[u] = pc[u] /\ tMsg'[u] = tMsg[u]
    BY <2>5 DEF Sending, ChannelInv, TypeOK
  <2>7. \A n \in Messages : packet'[n] = None <=> packet[n] = None
    <3>1. packet[m] \in Packets
      BY <2>1, <2>2 DEF ChannelInv, TypeOK
    <3>2. packet'[m] \in Packets
      BY <2>4, <3>1 DEF ChannelInv, TypeOK, Packets
    <3>3. \A n \in Messages : n # m => packet'[n] = packet[n]
      BY <2>4 DEF ChannelInv, TypeOK
    <3> QED BY <3>1, <3>2, <3>3, ChannelAssumption
  <2>8. /\ [waiters EXCEPT ![tEnd[t]] = @ \cup {t}] \in [Endpoints -> SUBSET Threads]
        /\ [wStatus EXCEPT ![t] = "TIMED_OUT"] \in [Threads -> Statuses]
        /\ [wStatus EXCEPT ![t] = "TIMED_OUT"][t] = "TIMED_OUT"
        /\ \A u \in Threads : u # t => [wStatus EXCEPT ![t] = "TIMED_OUT"][u] = wStatus[u]
    BY <2>1 DEF ChannelInv, TypeOK, Statuses
  <2>9. wMsg[t] = None /\ t \notin waiters[d]
    BY <2>1, ChannelAssumption DEF ChannelInv, IdleWaiters, ListedWaiters
  <2> QED BY <2>2, <2>4, <2>5, <2>6, <2>7, <2>8, <2>9, ConserveLanded
<1>9. ASSUME NEW t \in Threads,
             \/ Woken(t) \/ Expires(t) \/ Interrupted(t) \/ CallFinish(t)
      PROVE  ConserveInv'
  BY <1>9, ConserveFrame DEF Woken, Expires, Interrupted, CallFinish, Goto, Sending,
     InCall, queueVars, waitVars, callVars, msgVars, ChannelInv, TypeOK
<1>10. ASSUME NEW t \in Threads, NEW fits \in BOOLEAN,
              ResumeInterruptedCall(t, fits)
       PROVE  ConserveInv'
  <2>1. EndStatus(t) = "OK" <=> wMsg[t] # None
    BY <1>10 DEF ConserveInv, AnsweredOK, InCall, EndStatus, ResumeInterruptedCall
  <2>2. ReadOut(fits) \in {"received", "discarded"}
    BY DEF ReadOut
  <2>3. /\ UNCHANGED <<messages, packet, wStatus>>
        /\ wMsg' = [wMsg EXCEPT ![t] = None]
        /\ fate' = IF wMsg[t] # None THEN [fate EXCEPT ![wMsg[t]] = ReadOut(fits)]
                   ELSE fate
        /\ pc' = [pc EXCEPT ![t] = "idle"] /\ tMsg' = [tMsg EXCEPT ![t] = None]
    BY <1>10, <2>1 DEF ResumeInterruptedCall, Return, Goto, queueVars
  <2>4. /\ ~Sending(t)' /\ ~InCall(t)'
        /\ \A u \in Threads : u # t => pc'[u] = pc[u] /\ tMsg'[u] = tMsg[u]
    BY <2>3 DEF Sending, InCall, ChannelInv, TypeOK
  <2> QED BY <2>2, <2>3, <2>4, ConserveTaken
<1>11. ASSUME NEW t \in Threads, Exit(t)
       PROVE  ConserveInv'
  BY <1>11, ConserveFrame DEF Exit, Goto, Sending, InCall, queueVars, waitVars, msgVars,
     ChannelInv, TypeOK
<1>12. ASSUME NEW t \in Threads, RemoveWaiter(t)
       PROVE  ConserveInv'
  <2>1. /\ UNCHANGED <<messages, packet, wStatus, pc, tMsg>> /\ pc[t] = "dead"
        /\ wMsg' = [wMsg EXCEPT ![t] = None]
        /\ fate' = IF wMsg[t] # None THEN [fate EXCEPT ![wMsg[t]] = "discarded"]
                   ELSE fate
    BY <1>12 DEF RemoveWaiter, queueVars, callVars
  <2>2. ~Sending(t)' /\ ~InCall(t)'
    BY <2>1 DEF Sending, InCall
  <2> QED BY <2>1, <2>2, ConserveTaken
<1>13. ASSUME NEW p \in Processes, Kill(p)
       PROVE  ConserveInv'
  BY <1>13, ConserveFrame DEF Kill, Sending, InCall, queueVars, waitVars, callVars, msgVars
<1> QED BY <1>1, <1>2, <1>3, <1>4, <1>5, <1>6, <1>7, <1>8, <1>9, <1>10, <1>11,
           <1>12, <1>13 DEF Next

(* ConserveInv is an invariant: each message is made once, and from then on *)
(* one thread, one queue or one waiter has it until it is received,         *)
(* discarded or given up.                                                   *)
THEOREM ConserveInvariant == Spec => []ConserveInv
<1>1. Init => ConserveInv
  BY ChannelAssumption DEF Init, ConserveInv, MadeOnce, AnsweredOK, QueuesDistinct,
     RepliesDistinct, NoneLost, InQueue, Sending, InCall
<1>2. ChannelInv /\ ConserveInv /\ [Next]_vars => ConserveInv'
  <2> SUFFICES ASSUME ChannelInv, ConserveInv, [Next]_vars
               PROVE  ConserveInv'
    OBVIOUS
  <2>1. CASE UNCHANGED vars
    BY <2>1, ConserveFrame DEF vars, queueVars, waitVars, callVars, msgVars, Sending, InCall
  <2> QED BY <2>1, ConserveStep
<1> QED BY <1>1, <1>2, ChannelInvariant, PTL DEF Spec

(* A message that Write or Call accepted is in exactly one queue or waiter  *)
(* until a program receives it or something discards it, for any number of  *)
(* threads and messages: no race of a reply with the deadline, a close or a *)
(* death loses it or delivers it twice.                                     *)
THEOREM MessageConservationHolds == Spec => []MessageConservation
<1>1. ChannelInv /\ ConserveInv => MessageConservation
  <2> SUFFICES ASSUME ChannelInv, ConserveInv, NEW m \in Messages
               PROVE  Cardinality(Places(m)) = IF fate[m] = "landed" THEN 1 ELSE 0
    BY DEF MessageConservation
  <2>1. \A p : p \in Places(m) <=>
          \/ \E e \in Endpoints : \E i \in DOMAIN messages[e] :
               messages[e][i] = m /\ p = <<e, i>>
          \/ \E t \in Threads : wMsg[t] = m /\ p = <<t, 0>>
    <3> DEFINE At(e) == {<<e, i>> : i \in {j \in DOMAIN messages[e] : messages[e][j] = m}}
               Held == {<<t, 0>> : t \in {u \in Threads : wMsg[u] = m}}
    <3>1. \A p : p \in Places(m) <=> (\E e \in Endpoints : p \in At(e)) \/ p \in Held
      <4>1. Places(m) = (UNION {At(e) : e \in Endpoints}) \cup Held
        BY DEF Places
      <4> HIDE DEF At, Held
      <4>2. \A p : p \in UNION {At(e) : e \in Endpoints} <=> \E e \in Endpoints : p \in At(e)
        BY Zenon
      <4> DEFINE Queues == UNION {At(e) : e \in Endpoints}
      <4>3. \A p : p \in Queues \cup Held <=> p \in Queues \/ p \in Held
        BY Zenon
      <4> QED BY <4>1, <4>2, <4>3, Zenon
    <3>2. \A p, e : p \in At(e) <=>
            \E i \in DOMAIN messages[e] : messages[e][i] = m /\ p = <<e, i>>
      BY Zenon
    <3>3. \A p : p \in Held <=> \E t \in Threads : wMsg[t] = m /\ p = <<t, 0>>
      BY Zenon
    <3> HIDE DEF At, Held
    <3> QED BY <3>1, <3>2, <3>3
  <2>2. m # None
    BY ChannelAssumption
  <2>3. CASE fate[m] # "landed"
    <3>1. /\ \A t \in Threads : wMsg[t] # m
          /\ \A e \in Endpoints : ~InQueue(e, m)
      BY <2>2, <2>3 DEF ConserveInv, RepliesDistinct, QueuesDistinct
    <3>2. Places(m) = {}
      BY <2>1, <3>1 DEF InQueue
    <3> QED BY <2>3, <3>2, FS_EmptySet
  <2>4. ASSUME NEW e \in Endpoints, InQueue(e, m)
        PROVE  Cardinality(Places(m)) = 1
    <3>1. PICK i \in DOMAIN messages[e] : messages[e][i] = m
      BY <2>4 DEF InQueue
    <3>2. \A t \in Threads : wMsg[t] # m
      BY <2>2, <2>4 DEF ConserveInv, RepliesDistinct
    <3>3. \A d \in Endpoints : \A j \in DOMAIN messages[d] :
            messages[d][j] = m => d = e /\ j = i
      <4> SUFFICES ASSUME NEW d \in Endpoints, NEW j \in DOMAIN messages[d],
                          messages[d][j] = m
                   PROVE  d = e /\ j = i
        OBVIOUS
      <4>1. d = e
        BY <2>4 DEF ConserveInv, QueuesDistinct, InQueue
      <4> QED BY <4>1, <3>1 DEF ConserveInv, QueuesDistinct
    <3>4. Places(m) = {<<e, i>>}
      BY <2>1, <3>1, <3>2, <3>3
    <3> QED BY <3>4, FS_Singleton
  <2>5. ASSUME NEW t \in Threads, wMsg[t] = m
        PROVE  Cardinality(Places(m)) = 1
    <3>1. /\ \A u \in Threads : wMsg[u] = m => u = t
          /\ \A e \in Endpoints : ~InQueue(e, m)
      BY <2>2, <2>5 DEF ConserveInv, RepliesDistinct
    <3>2. Places(m) = {<<t, 0>>}
      BY <2>1, <2>5, <3>1 DEF InQueue
    <3> QED BY <3>2, FS_Singleton
  <2>6. CASE fate[m] = "landed"
    BY <2>4, <2>5, <2>6 DEF ConserveInv, NoneLost
  <2> QED BY <2>3, <2>6
<1> QED BY <1>1, ChannelInvariant, ConserveInvariant, PTL

-----------------------------------------------------------------------------
(* Replies and the calls they answer.                                       *)

IsRequest(m) == packet[m] # None /\ packet[m].call

(* A request is given its transaction id when it is written.                *)
RequestsOK ==
  \A m \in Messages : IsRequest(m) =>
    (packet[m].txid = None <=> fate[m] \in {"made", "failed"})

(* Any other message with a transaction id of the kernel's has that of the  *)
(* request of the other endpoint it answers.                                *)
RepliesOK ==
  \A m \in Messages : packet[m] # None /\ ~packet[m].call /\ packet[m].txid # None =>
    /\ packet[m].answers \in Requests(Peer(packet[m].from))
    /\ packet[m].txid = packet[packet[m].answers].txid

(* A thread about to write has a message of the kind it writes,             *)
SendersOK ==
  \A t \in Threads : Sending(t) =>
    /\ packet[tMsg[t]].from = tEnd[t]
    /\ packet[tMsg[t]].call <=> pc[t] = "Call"

(* a thread in a call has its request, and its waiter has the request's id, *)
CallersOK ==
  \A t \in Threads : InCall(t) =>
    tMsg[t] \in Requests(tEnd[t]) /\ packet[tMsg[t]].txid = wTxid[t]

(* and so has the waiter of a thread that died in one.                      *)
WaitersOK ==
  \A e \in Endpoints : \A t \in waiters[e] :
    \E m \in Requests(e) : packet[m].txid = wTxid[t]

(* The counter gives the ids 1, 2, ... and last 0, each to one request.     *)
Count(e) == Cardinality(Requests(e))

Numbering(e) ==
  /\ txid[e] = IF Count(e) = NumTxids THEN 0 ELSE Count(e)
  /\ \A m \in Requests(e) : \/ packet[m].txid \in 1 .. Count(e)
                            \/ Count(e) = NumTxids /\ packet[m].txid = 0
  /\ \A m, r \in Requests(e) : packet[m].txid = packet[r].txid => m = r

Numbered(e) == IsFiniteSet(Requests(e)) /\ (Count(e) <= NumTxids => Numbering(e))

NumberInv ==
  /\ RequestsOK /\ RepliesOK /\ SendersOK /\ CallersOK /\ WaitersOK
  /\ \A e \in Endpoints : Numbered(e)

ReplyInv == NumberInv /\ ReplyAnswersCall

(* The requests of an endpoint are messages that have been made.            *)
LEMMA RequestsMade ==
  \A e, m : m \in Requests(e) =>
    /\ m \in Messages /\ packet[m] # None /\ packet[m].call
    /\ packet[m].from = e /\ packet[m].txid # None
BY DEF Requests

(* A step that makes no message and gives no transaction id.                *)
LEMMA NumberFrame ==
  ASSUME ChannelInv, NumberInv, UNCHANGED <<packet, txid, wTxid>>,
         \A m \in Messages : IsRequest(m) =>
           (fate'[m] \in {"made", "failed"} <=> fate[m] \in {"made", "failed"}),
         \A t \in Threads : Sending(t)' =>
           /\ Sending(t) /\ pc'[t] = pc[t] /\ tMsg'[t] = tMsg[t] /\ tEnd'[t] = tEnd[t],
         \A t \in Threads : InCall(t)' =>
           InCall(t) /\ tMsg'[t] = tMsg[t] /\ tEnd'[t] = tEnd[t],
         \A e \in Endpoints : waiters'[e] \subseteq waiters[e]
  PROVE  NumberInv'
<1>1. \A e : Requests(e)' = Requests(e)
  BY DEF Requests
<1>2. \A e : Count(e)' = Count(e)
  BY <1>1 DEF Count
<1>3. RequestsOK'
  BY DEF NumberInv, RequestsOK, IsRequest
<1>4. RepliesOK'
  BY <1>1 DEF NumberInv, RepliesOK
<1>5. SendersOK'
  BY DEF NumberInv, SendersOK
<1>6. CallersOK'
  BY <1>1 DEF NumberInv, CallersOK
<1>7. WaitersOK'
  BY <1>1 DEF NumberInv, WaitersOK
<1>8. \A e \in Endpoints : Numbered(e)'
  BY <1>1, <1>2 DEF NumberInv, Numbered, Numbering
<1> QED BY <1>3, <1>4, <1>5, <1>6, <1>7, <1>8 DEF NumberInv

(* What the caller t has got is right: ReplyAnswersCall for one thread.     *)
Answered(t) ==
  InCall(t) /\ wMsg[t] # None /\ Count(tEnd[t]) <= NumTxids =>
    packet[wMsg[t]].answers = tMsg[t] \/ CrossingCall(t)

(* ReplyAnswersCall, thread by thread.                                      *)
LEMMA AnswersAll == ReplyAnswersCall <=> \A t \in Threads : Answered(t)
BY DEF ReplyAnswersCall, Answered, Count

(* A step that puts nothing into the waiter of t.                           *)
LEMMA AnswerKept ==
  ASSUME NEW t \in Threads, Answered(t),
         Count(tEnd[t])' <= NumTxids => Count(tEnd[t]) <= NumTxids,
         InCall(t)' /\ wMsg'[t] # None =>
           /\ InCall(t) /\ tMsg'[t] = tMsg[t] /\ wMsg'[t] = wMsg[t] /\ tEnd'[t] = tEnd[t]
           /\ packet'[wMsg[t]] = packet[wMsg[t]]
           /\ packet'[tMsg[t]] = packet[tMsg[t]]
  PROVE  Answered(t)'
BY DEF Answered, CrossingCall, Peer

(* The reply in a waiter has been made.                                     *)
LEMMA ReplyMade ==
  ASSUME ChannelInv, ConserveInv, NEW t \in Threads, wMsg[t] # None
  PROVE  wMsg[t] \in Messages /\ packet[wMsg[t]] # None /\ fate[wMsg[t]] = "landed"
<1>1. wMsg[t] \in Messages /\ fate[wMsg[t]] = "landed"
  BY DEF ChannelInv, TypeOK, ConserveInv, RepliesDistinct
<1> QED BY <1>1 DEF ConserveInv, MadeOnce

(* A message that is made is not numbered unless it answers a request.      *)
LEMMA NumberMade ==
  ASSUME ChannelInv, ConserveInv, ReplyInv,
         UNCHANGED <<txid, wTxid, wMsg, waiters>>,
         NEW t \in Threads, NEW e \in Endpoints, NEW m \in Messages,
         NEW r \in Messages \cup {None}, r # None => Answerable(e, r),
         NEW isCall \in BOOLEAN, isCall => r = None,
         MakeMessage(t, e, m, r, isCall), Lookup(t, e),
         Goto(t, IF isCall THEN "Call" ELSE "Write")
  PROVE  ReplyInv'
<1>1. /\ packet[m] = None /\ fate[m] = "unmade"
      /\ \A n \in Messages : n # m => packet'[n] = packet[n] /\ fate'[n] = fate[n]
      /\ packet'[m] = [from |-> e, txid |-> IF r = None THEN None ELSE packet[r].txid,
                       answers |-> r, call |-> isCall]
      /\ fate'[m] = "made"
  BY DEF MakeMessage, ChannelInv, TypeOK, ConserveInv, MadeOnce
<1>2. packet'[m] # None
  <2>1. r # None => packet[r] \in Packets
    BY DEF ChannelInv, TypeOK, Answerable
  <2>2. packet'[m] \in Packets
    <3>1. CASE r = None
      BY <1>1, <3>1 DEF Packets
    <3>2. CASE r # None
      BY <1>1, <2>1, <3>2 DEF Packets
    <3> QED BY <3>1, <3>2
  <2> QED BY <2>2, ChannelAssumption
<1>3. r # None => r \in Requests(Peer(e)) /\ r # m
  BY <1>1 DEF Answerable, Requests, ReplyInv, NumberInv, RequestsOK, IsRequest
<1>4. \A d : Requests(d)' = Requests(d)
  <2> SUFFICES ASSUME NEW d PROVE Requests(d)' = Requests(d)
    OBVIOUS
  <2>1. m \notin Requests(d) /\ m \notin Requests(d)'
    BY <1>1 DEF Requests
  <2>2. \A n \in Messages : n # m => (n \in Requests(d)' <=> n \in Requests(d))
    BY <1>1 DEF Requests
  <2>3. Requests(d) \subseteq Messages /\ Requests(d)' \subseteq Messages
    BY DEF Requests
  <2> QED BY <2>1, <2>2, <2>3
<1>5. \A d : \A n \in Requests(d) : n \in Messages /\ n # m /\ packet'[n] = packet[n]
  BY <1>1, RequestsMade
<1>6. \A d : Count(d)' = Count(d)
  BY <1>4 DEF Count
<1>7. /\ pc[t] = "idle" /\ pc'[t] = (IF isCall THEN "Call" ELSE "Write")
      /\ tMsg'[t] = m /\ tEnd'[t] = e
      /\ \A u \in Threads : u # t =>
           pc'[u] = pc[u] /\ tMsg'[u] = tMsg[u] /\ tEnd'[u] = tEnd[u]
  BY DEF Lookup, MakeMessage, Goto, ChannelInv, TypeOK
<1>8. RequestsOK'
  <2>1. \A n \in Messages : n # m => (IsRequest(n)' <=> IsRequest(n))
    BY <1>1 DEF IsRequest
  <2>2. IsRequest(m)' => packet'[m].txid = None
    BY <1>1 DEF IsRequest
  <2> QED BY <1>1, <2>1, <2>2 DEF ReplyInv, NumberInv, RequestsOK
<1>9. RepliesOK'
  <2> SUFFICES ASSUME NEW n \in Messages, packet'[n] # None, ~packet'[n].call,
                      packet'[n].txid # None
               PROVE  /\ packet'[n].answers \in Requests(Peer(packet'[n].from))
                      /\ packet'[n].txid = packet'[packet'[n].answers].txid
    BY <1>4 DEF RepliesOK, Peer
  <2>1. CASE n = m
    BY <2>1, <1>1, <1>3
  <2>2. CASE n # m
    BY <2>2, <1>1, <1>5 DEF ReplyInv, NumberInv, RepliesOK
  <2> QED BY <2>1, <2>2
<1>10. SendersOK'
  <2> SUFFICES ASSUME NEW u \in Threads, Sending(u)'
               PROVE  /\ packet'[tMsg'[u]].from = tEnd'[u]
                      /\ packet'[tMsg'[u]].call <=> pc'[u] = "Call"
    BY DEF SendersOK
  <2>1. CASE u = t
    BY <2>1, <1>1, <1>7
  <2>2. CASE u # t
    <3>1. Sending(u)
      BY <2>2, <1>7 DEF Sending
    <3>2. tMsg[u] \in Messages /\ tMsg[u] # m
      BY <3>1, <1>1 DEF Sending, ChannelInv, Locals
    <3> QED BY <2>2, <3>1, <3>2, <1>1, <1>7 DEF ReplyInv, NumberInv, SendersOK
  <2> QED BY <2>1, <2>2
<1>11. \A u \in Threads : InCall(u)' => InCall(u) /\ u # t
  BY <1>7 DEF InCall
<1>12. CallersOK'
  BY <1>4, <1>5, <1>7, <1>11 DEF ReplyInv, NumberInv, CallersOK
<1>13. WaitersOK'
  BY <1>4, <1>5 DEF ReplyInv, NumberInv, WaitersOK
<1>14. \A d \in Endpoints : Numbered(d)'
  BY <1>4, <1>5, <1>6 DEF ReplyInv, NumberInv, Numbered, Numbering
<1>15. NumberInv'
  BY <1>8, <1>9, <1>10, <1>12, <1>13, <1>14 DEF NumberInv
<1>16. \A u \in Threads : Answered(u)'
  <2> SUFFICES ASSUME NEW u \in Threads PROVE Answered(u)'
    OBVIOUS
  <2>1. ASSUME InCall(u)', wMsg'[u] # None
        PROVE  /\ InCall(u) /\ tMsg'[u] = tMsg[u] /\ wMsg'[u] = wMsg[u]
               /\ tEnd'[u] = tEnd[u]
               /\ packet'[wMsg[u]] = packet[wMsg[u]]
               /\ packet'[tMsg[u]] = packet[tMsg[u]]
    <3>1. wMsg[u] \in Messages /\ wMsg[u] # m
      BY <2>1, <1>1, ReplyMade
    <3>2. packet'[tMsg[u]] = packet[tMsg[u]]
      BY <2>1, <1>5, <1>11 DEF ReplyInv, NumberInv, CallersOK
    <3> QED BY <2>1, <3>1, <3>2, <1>1, <1>7, <1>11
  <2>2. CASE InCall(u)' /\ wMsg'[u] # None
    <3>1. PICK d : d = tEnd[u] /\ d = tEnd'[u]
      BY <2>1, <2>2
    <3>2. Count(d)' = Count(d)
      BY <1>6
    <3>3. Count(tEnd[u])' = Count(tEnd[u])
      BY <3>1, <3>2 DEF Count, Requests
    <3> QED BY <2>1, <2>2, <3>3, AnswersAll, AnswerKept DEF ReplyInv
  <2> QED BY <2>2 DEF Answered
<1> QED BY <1>15, <1>16, AnswersAll DEF ReplyInv, ReplyAnswersCall, Answered, Count

(* Call numbers its request with the first id the counter comes to that no  *)
(* waiter has.  Until the counter wraps around that is the next one, which  *)
(* no request has, so no id is passed over.                                 *)
LEMMA NextTxid ==
  ASSUME ChannelInv, NumberInv, NEW e \in Endpoints, NEW k \in 1 .. NumTxids,
         Count(e) < NumTxids,
         TxidFree(e, TxidAfter(txid[e], k)),
         \A j \in 1 .. (k - 1) : ~TxidFree(e, TxidAfter(txid[e], j))
  PROVE  /\ TxidAfter(txid[e], k) = IF Count(e) + 1 = NumTxids THEN 0 ELSE Count(e) + 1
         /\ \A m \in Requests(e) : packet[m].txid # TxidAfter(txid[e], k)
<1>1. Count(e) \in Nat /\ NumTxids \in Nat \ {0} 
  BY FS_CardinalityType, ChannelAssumption DEF Count, NumberInv, Numbered
<1>2. txid[e] = Count(e)
  BY <1>1 DEF NumberInv, Numbered, Numbering
<1> DEFINE y == IF Count(e) + 1 = NumTxids THEN 0 ELSE Count(e) + 1
<1>3. TxidAfter(txid[e], 1) = y
  <2>1. (Count(e) + 1) % NumTxids = y
    <3>1. CASE Count(e) + 1 = NumTxids
      <4>1. NumTxids % NumTxids = 0
        BY <1>1
      <4> QED BY <3>1, <4>1
    <3>2. CASE Count(e) + 1 # NumTxids
      <4>1. Count(e) + 1 \in 0 .. NumTxids - 1
        BY <3>2, <1>1
      <4>2. \A n \in 0 .. NumTxids - 1 : n % NumTxids = n
        BY <1>1
      <4> QED BY <3>2, <4>1, <4>2
    <3> QED BY <3>1, <3>2
  <2> QED BY <1>2, <2>1 DEF TxidAfter
<1>4. \A m \in Requests(e) : packet[m].txid # y
  <2>1. \A m \in Requests(e) : packet[m].txid \in 1 .. Count(e)
    BY <1>1 DEF NumberInv, Numbered, Numbering
  <2> QED BY <1>1, <2>1
<1>5. TxidFree(e, y)
  BY <1>1, <1>4 DEF TxidFree, NumberInv, WaitersOK
<1>6. k = 1
  <2>1. ~(1 \in 1 .. (k - 1))
    BY <1>3, <1>5
  <2> QED BY <2>1, <1>1
<1> QED BY <1>3, <1>4, <1>6

(* Call numbers its request and lists its waiter under that number.         *)
LEMMA NumberCall ==
  ASSUME ChannelInv, ConserveInv, ReplyInv, NEW t \in Threads, Call(t)
  PROVE  ReplyInv'
<1>1. /\ tEnd[t] \in Endpoints /\ tMsg[t] \in Messages /\ packet[tMsg[t]] # None
      /\ pc[t] = "Call" /\ Sending(t)
  BY DEF Call, ChannelInv, Locals, Sending
<1>2. PICK m \in Messages : m = tMsg[t]
  BY <1>1
<1>3. PICK e \in Endpoints : e = tEnd[t]
  BY <1>1
<1>4. packet[m] \in Packets /\ packet[m].call /\ packet[m].from = e /\ fate[m] = "made"
  BY <1>1, <1>2, <1>3 DEF ChannelInv, TypeOK, ReplyInv, NumberInv, SendersOK, ConserveInv, MadeOnce
<1>5. packet[m].txid = None
  BY <1>1, <1>2, <1>4 DEF ReplyInv, NumberInv, RequestsOK, IsRequest
<1>6. Peer(e) \in Endpoints /\ Peer(e) # e /\ Peer(Peer(e)) = e
  BY PeerFacts
<1>7. PICK k \in 1 .. NumTxids :
        /\ TxidFree(e, TxidAfter(txid[e], k))
        /\ \A j \in 1 .. (k - 1) : ~TxidFree(e, TxidAfter(txid[e], j))
        /\ txid' = [txid EXCEPT ![e] = TxidAfter(txid[e], k)]
        /\ wTxid' = [wTxid EXCEPT ![t] = TxidAfter(txid[e], k)]
        /\ packet' = [packet EXCEPT ![m].txid = TxidAfter(txid[e], k)]
        /\ WriteSelf(Peer(e), m, TxidAfter(txid[e], k),
                     [waiters EXCEPT ![e] = @ \cup {t}],
                     [wStatus EXCEPT ![t] = "TIMED_OUT"])
  BY <1>2, <1>3 DEF Call
<1>8. PICK x \in 0 .. NumTxids - 1 : x = TxidAfter(txid[e], k)
  <2>1. txid[e] \in Nat /\ k \in Nat
    BY ChannelAssumption DEF ChannelInv, TypeOK
  <2> QED BY <2>1, TxidAfterType
<1>9. x # None
  BY <1>8, ChannelAssumption
<1>10. /\ waiters \in [Endpoints -> SUBSET Threads] /\ wMsg \in [Threads -> Messages \cup {None}]
       /\ \A d \in Endpoints : t \notin waiters[d]
  BY ChannelAssumption DEF ChannelInv, TypeOK, Call, ListedWaiters
<1>11. /\ \A d \in Endpoints : waiters'[d] \subseteq waiters[d] \cup (IF d = e THEN {t} ELSE {})
       /\ \A u \in Threads : wMsg'[u] # wMsg[u] =>
            u \in waiters[Peer(e)] /\ wTxid[u] = x /\ wMsg'[u] = m
  <2>1. CASE \E w \in Matches(Peer(e), x) :
               /\ waiters' = [[waiters EXCEPT ![e] = @ \cup {t}] EXCEPT ![Peer(e)] = @ \ {w}]
               /\ wMsg' = [wMsg EXCEPT ![w] = m]
    <3>1. PICK w \in Matches(Peer(e), x) :
               /\ waiters' = [[waiters EXCEPT ![e] = @ \cup {t}] EXCEPT ![Peer(e)] = @ \ {w}]
               /\ wMsg' = [wMsg EXCEPT ![w] = m]
      BY <2>1
    <3>2. w \in waiters[Peer(e)] /\ wTxid[w] = x
      BY DEF Matches
    <3> QED BY <3>1, <3>2, <1>6, <1>10
  <2>2. CASE waiters' = [waiters EXCEPT ![e] = @ \cup {t}] /\ wMsg' = wMsg
    BY <2>2, <1>10
  <2> QED BY <2>1, <2>2, <1>7, <1>8 DEF WriteSelf
<1>12. /\ packet'[m] = [packet[m] EXCEPT !.txid = x]
       /\ \A n \in Messages : n # m => packet'[n] = packet[n]
  BY <1>7, <1>8 DEF ChannelInv, TypeOK
<1>13. /\ packet'[m] \in Packets /\ packet'[m] # None /\ packet'[m].txid = x
       /\ packet'[m].call /\ packet'[m].from = e
  <2>1. /\ packet'[m] \in Packets /\ packet'[m].txid = x
        /\ packet'[m].call = packet[m].call /\ packet'[m].from = packet[m].from
    BY <1>4, <1>8, <1>12 DEF Packets
  <2> QED BY <2>1, <1>4, ChannelAssumption
<1>14. /\ m \notin Requests(e) /\ Requests(e)' = Requests(e) \cup {m}
       /\ \A d : d # e => Requests(d)' = Requests(d)
  <2>1. /\ \A d : m \notin Requests(d)
        /\ \A d : m \in Requests(d)' <=> d = e
    BY <1>5, <1>9, <1>13 DEF Requests
  <2>2. \A d : \A n \in Messages : n # m => (n \in Requests(d)' <=> n \in Requests(d))
    BY <1>12 DEF Requests
  <2>3. \A d : Requests(d) \subseteq Messages /\ Requests(d)' \subseteq Messages
    BY DEF Requests
  <2> QED BY <2>1, <2>2, <2>3
<1>15. /\ IsFiniteSet(Requests(e)') /\ Count(e) \in Nat /\ Count(e)' = Count(e) + 1
       /\ \A d : d # e => Count(d)' = Count(d)
  <2>1. IsFiniteSet(Requests(e))
    BY DEF ReplyInv, NumberInv, Numbered
  <2>2. /\ IsFiniteSet(Requests(e)') /\ Cardinality(Requests(e)) \in Nat
        /\ Cardinality(Requests(e)') = Cardinality(Requests(e)) + 1
    BY <1>14, <2>1, FS_AddElement, FS_CardinalityType
  <2>3. \A d : d # e => Cardinality(Requests(d)') = Cardinality(Requests(d))
    BY <1>14
  <2> QED BY <2>2, <2>3 DEF Count
<1>16. \A d : \A n \in Requests(d) : n \in Messages /\ n # m /\ packet'[n] = packet[n]
  BY <1>5, <1>12, RequestsMade
<1>17. /\ pc' = [pc EXCEPT ![t] = "waiting"] /\ tMsg' = tMsg /\ tEnd' = tEnd
       /\ fate' = [fate EXCEPT ![m] = "landed"]
  BY <1>2 DEF Call, Goto, callVars
<1>18. /\ pc'[t] = "waiting"
       /\ \A u \in Threads : u # t => pc'[u] = pc[u] /\ wTxid'[u] = wTxid[u]
       /\ wTxid'[t] = x
  BY <1>7, <1>8, <1>17 DEF ChannelInv, TypeOK
<1>19. RequestsOK'
  <2>1. \A n \in Messages : n # m => (IsRequest(n)' <=> IsRequest(n)) /\ fate'[n] = fate[n]
    BY <1>12, <1>17 DEF IsRequest, ChannelInv, TypeOK
  <2>2. fate'[m] = "landed" /\ packet'[m].txid # None
    BY <1>9, <1>13, <1>17 DEF ChannelInv, TypeOK
  <2>3. \A n \in Messages : n # m /\ IsRequest(n) =>
          (packet'[n].txid = None <=> fate'[n] \in {"made", "failed"})
    BY <1>12, <2>1 DEF ReplyInv, NumberInv, RequestsOK
  <2> QED BY <2>1, <2>2, <2>3 DEF RequestsOK
<1>20. RepliesOK'
  <2> SUFFICES ASSUME NEW n \in Messages, packet'[n] # None, ~packet'[n].call,
                      packet'[n].txid # None
               PROVE  /\ packet'[n].answers \in Requests(Peer(packet[n].from))'
                      /\ packet'[n].txid = packet'[packet'[n].answers].txid
    BY <1>12, <1>13 DEF RepliesOK, Peer
  <2>1. n # m /\ packet'[n] = packet[n]
    BY <1>12, <1>13
  <2>2. /\ packet[n].answers \in Requests(Peer(packet[n].from))
        /\ packet[n].txid = packet[packet[n].answers].txid
    BY <2>1 DEF ReplyInv, NumberInv, RepliesOK
  <2>3. \A d : Requests(d) \subseteq Requests(d)'
    BY <1>14
  <2> QED BY <2>1, <2>2, <2>3, <1>16 DEF Peer
<1>21. SendersOK'
  <2> SUFFICES ASSUME NEW u \in Threads, Sending(u)'
               PROVE  /\ packet'[tMsg'[u]].from = tEnd'[u]
                      /\ packet'[tMsg'[u]].call <=> pc'[u] = "Call"
    BY DEF SendersOK
  <2>1. u # t /\ Sending(u)
    BY <1>18 DEF Sending
  <2>2. tMsg[u] \in Messages /\ tMsg[u] # m
    BY <2>1, <1>1, <1>2 DEF ConserveInv, MadeOnce, Sending, ChannelInv, Locals
  <2> QED BY <2>1, <2>2, <1>12, <1>17, <1>18 DEF ReplyInv, NumberInv, SendersOK
<1>22. \A u \in Threads : InCall(u)' => u = t \/ InCall(u)
  BY <1>18 DEF InCall
<1>23. CallersOK'
  <2> SUFFICES ASSUME NEW u \in Threads, InCall(u)'
               PROVE  tMsg[u] \in Requests(tEnd[u])' /\ packet'[tMsg[u]].txid = wTxid'[u]
    BY <1>17 DEF CallersOK, Requests
  <2>1. CASE u = t
    <3>1. m \in Requests(e)'
      BY <1>14
    <3> QED BY <2>1, <3>1, <1>2, <1>3, <1>13, <1>17, <1>18 DEF Requests
  <2>2. CASE u # t
    <3>1. tMsg[u] \in Requests(tEnd[u]) /\ packet[tMsg[u]].txid = wTxid[u]
      BY <2>2, <1>22 DEF ReplyInv, NumberInv, CallersOK
    <3>2. Requests(tEnd[u]) \subseteq Requests(tEnd[u])'
      <4>1. tEnd[u] \in Endpoints
        BY <2>2, <1>22 DEF ChannelInv, CallerListed
      <4>2. PICK d \in Endpoints : d = tEnd[u]
        BY <4>1
      <4>3. Requests(d) \subseteq Requests(d)'
        BY <1>14
      <4> QED BY <4>2, <4>3, <1>17 DEF Requests
    <3> QED BY <2>2, <3>1, <3>2, <1>16, <1>18
  <2> QED BY <2>1, <2>2
<1>24. WaitersOK'
  <2> SUFFICES ASSUME NEW d \in Endpoints, NEW u \in waiters'[d]
               PROVE  \E n \in Requests(d)' : packet'[n].txid = wTxid'[u]
    BY DEF WaitersOK
  <2>1. CASE u \in waiters[d]
    <3>1. u \in Threads /\ u # t
      BY <2>1, <1>10
    <3>2. PICK n \in Requests(d) : packet[n].txid = wTxid[u]
      BY <2>1 DEF ReplyInv, NumberInv, WaitersOK
    <3>3. n \in Requests(d)' /\ packet'[n] = packet[n]
      BY <1>14, <1>16
    <3> QED BY <3>1, <3>2, <3>3, <1>18
  <2>2. CASE u = t /\ d = e
    BY <2>2, <1>13, <1>14, <1>18
  <2> QED BY <2>1, <2>2, <1>11
<1>25. \A d \in Endpoints : Numbered(d)'
  <2>1. ASSUME NEW d \in Endpoints, d # e PROVE Numbered(d)'
    <3>1. Requests(d)' = Requests(d) /\ Count(d)' = Count(d) /\ txid'[d] = txid[d]
      BY <2>1, <1>7, <1>14, <1>15 DEF ChannelInv, TypeOK
    <3>2. \A n \in Requests(d) : packet'[n] = packet[n]
      BY <1>16
    <3> QED BY <3>1, <3>2 DEF ReplyInv, NumberInv, Numbered, Numbering
  <2>2. ASSUME Count(e)' <= NumTxids PROVE Numbering(e)'
    <3>1. Count(e) < NumTxids /\ NumTxids \in Nat
      BY <1>15, <2>2, ChannelAssumption
    <3>2. /\ x = IF Count(e) + 1 = NumTxids THEN 0 ELSE Count(e) + 1
          /\ \A n \in Requests(e) : packet[n].txid # x
      BY <1>7, <1>8, <3>1, NextTxid DEF ReplyInv
    <3>3. txid'[e] = x
      BY <1>7, <1>8 DEF ChannelInv, TypeOK
    <3>4. /\ \A n \in Requests(e) : packet'[n].txid \in 1 .. Count(e)
          /\ \A n, r \in Requests(e) : packet'[n].txid = packet'[r].txid => n = r
      BY <1>16, <3>1, <1>15 DEF ReplyInv, NumberInv, Numbered, Numbering
    <3>5. \A n \in Requests(e)' : \/ packet'[n].txid \in 1 .. Count(e)'
                                  \/ Count(e)' = NumTxids /\ packet'[n].txid = 0
      BY <1>13, <1>14, <1>15, <3>1, <3>2, <3>4
    <3>6. \A n, r \in Requests(e)' : packet'[n].txid = packet'[r].txid => n = r
      BY <1>13, <1>14, <1>16, <3>2, <3>4
    <3>7. txid'[e] = IF Count(e)' = NumTxids THEN 0 ELSE Count(e)'
      BY <1>15, <3>2, <3>3
    <3> QED BY <3>5, <3>6, <3>7 DEF Numbering
  <2>3. Numbered(e)'
    BY <1>15, <2>2 DEF Numbered
  <2> QED BY <2>1, <2>3
<1>26. NumberInv'
  BY <1>19, <1>20, <1>21, <1>23, <1>24, <1>25 DEF NumberInv
<1>27. ASSUME NEW u \in Threads PROVE Answered(u)'
  <2>1. CASE u = t
    <3>1. wMsg[t] = None /\ wMsg'[t] = wMsg[t]
      BY <1>6, <1>10, <1>11 DEF Call, ChannelInv, IdleWaiters
    <3> QED BY <2>1, <3>1 DEF Answered
  <2>2. CASE u # t /\ wMsg'[u] = wMsg[u]
    <3>1. ASSUME InCall(u)', wMsg'[u] # None
          PROVE  /\ InCall(u) /\ tMsg'[u] = tMsg[u] /\ wMsg'[u] = wMsg[u]
                 /\ tEnd'[u] = tEnd[u]
                 /\ packet'[wMsg[u]] = packet[wMsg[u]]
                 /\ packet'[tMsg[u]] = packet[tMsg[u]]
      <4>1. wMsg[u] \in Messages /\ wMsg[u] # m
        BY <2>2, <3>1, <1>4, ReplyMade
      <4>2. InCall(u) /\ packet'[tMsg[u]] = packet[tMsg[u]]
        BY <2>2, <3>1, <1>16, <1>22 DEF ReplyInv, NumberInv, CallersOK
      <4> QED BY <2>2, <4>1, <4>2, <1>12, <1>17
    <3>2. Answered(u)
      BY AnswersAll DEF ReplyInv
    <3>3. CASE InCall(u)'
      <4>1. PICK d \in Endpoints : d = tEnd[u]
        BY <2>2, <3>3, <1>22 DEF ChannelInv, CallerListed
      <4>2. Count(d)' <= NumTxids => Count(d) <= NumTxids
        BY <1>15, ChannelAssumption
      <4>3. Count(tEnd[u])' <= NumTxids => Count(tEnd[u]) <= NumTxids
        BY <4>1, <4>2, <1>17 DEF Count, Requests
      <4> QED BY <3>1, <3>2, <4>3, AnswerKept
    <3> QED BY <3>3 DEF Answered
  <2>3. CASE u # t /\ wMsg'[u] # wMsg[u]
    <3>1. u \in waiters[Peer(e)] /\ wTxid[u] = x /\ wMsg'[u] = m
      BY <2>3, <1>11
    <3>2. ASSUME InCall(u)' PROVE CrossingCall(u)'
      <4>1. InCall(u) /\ tEnd[u] = Peer(e)
        BY <2>3, <3>1, <3>2, <1>6, <1>22 DEF ChannelInv, CallerListed, ListedWaiters
      <4>2. packet'[tMsg[u]].txid = x
        BY <3>1, <4>1, <1>16 DEF ReplyInv, NumberInv, CallersOK
      <4> QED BY <3>1, <4>1, <4>2, <1>6, <1>13, <1>17 DEF CrossingCall, Peer
    <3> QED BY <3>2 DEF Answered
  <2> QED BY <2>1, <2>2, <2>3
<1> QED BY <1>26, <1>27, AnswersAll DEF ReplyInv, ReplyAnswersCall, Answered, Count

(* A write to a waiter that waits for it is the reply to that waiter's      *)
(* request.                                                                 *)
LEMMA NumberWrite ==
  ASSUME ChannelInv, ConserveInv, ReplyInv, NEW t \in Threads, Write(t)
  PROVE  ReplyInv'
<1>1. /\ tEnd[t] \in Endpoints /\ tMsg[t] \in Messages /\ packet[tMsg[t]] # None
      /\ pc[t] = "Write" /\ Sending(t)
  BY DEF Write, ChannelInv, Locals, Sending
<1>2. PICK m \in Messages : m = tMsg[t]
  BY <1>1
<1>3. PICK d \in Endpoints : d = Peer(tEnd[t])
  BY <1>1, PeerFacts
<1>4. /\ WriteSelf(d, m, packet[m].txid, waiters, wStatus)
      /\ fate' = [fate EXCEPT ![m] = "landed"]
      /\ UNCHANGED <<packet, txid, wTxid>>
      /\ pc' = [pc EXCEPT ![t] = "idle"]
      /\ tMsg' = [tMsg EXCEPT ![t] = None]
      /\ tEnd' = [tEnd EXCEPT ![t] = None]
  BY <1>2, <1>3 DEF Write, Return, Goto, endVars
<1>5. packet[m] # None /\ ~packet[m].call /\ Peer(packet[m].from) = d
  BY <1>1, <1>2, <1>3 DEF ReplyInv, NumberInv, SendersOK
<1>6. /\ ~Sending(t)' /\ ~InCall(t)'
      /\ \A u \in Threads : u # t =>
           pc'[u] = pc[u] /\ tMsg'[u] = tMsg[u] /\ tEnd'[u] = tEnd[u]
  BY <1>4 DEF Sending, InCall, ChannelInv, TypeOK
<1>7. \A e \in Endpoints : waiters'[e] \subseteq waiters[e]
  <2>1. /\ waiters \in [Endpoints -> SUBSET Threads]
        /\ wStatus \in [Threads -> Statuses] /\ TypeOK
    BY DEF ChannelInv, TypeOK
  <2> QED BY <1>4, <2>1, WriteSelfWaiters
<1>8. NumberInv'
  <2>1. \A n \in Messages : IsRequest(n) => fate'[n] = fate[n]
    BY <1>4, <1>5 DEF IsRequest, ChannelInv, TypeOK
  <2>2. \A u \in Threads : Sending(u)' =>
          /\ Sending(u) /\ pc'[u] = pc[u] /\ tMsg'[u] = tMsg[u] /\ tEnd'[u] = tEnd[u]
    BY <1>6 DEF Sending
  <2>3. \A u \in Threads : InCall(u)' =>
          InCall(u) /\ tMsg'[u] = tMsg[u] /\ tEnd'[u] = tEnd[u]
    BY <1>6 DEF InCall
  <2> QED BY <1>4, <1>7, <2>1, <2>2, <2>3, NumberFrame DEF ReplyInv
<1>9. ASSUME NEW u \in Threads PROVE Answered(u)'
  <2> SUFFICES ASSUME InCall(u)', wMsg'[u] # None, Count(tEnd[u]) <= NumTxids
               PROVE  packet[wMsg'[u]].answers = tMsg[u] \/ CrossingCall(u)'
    BY <1>4, <1>6 DEF Answered, Count, Requests
  <2>1. u # t /\ InCall(u) /\ tMsg'[u] = tMsg[u] /\ tEnd'[u] = tEnd[u]
    BY <1>6 DEF InCall
  <2>2. CASE wMsg'[u] = wMsg[u]
    BY <2>1, <2>2, <1>4, AnswersAll DEF ReplyInv, Answered, CrossingCall, Peer
  <2>3. CASE wMsg'[u] # wMsg[u]
    <3>1. PICK w \in Matches(d, packet[m].txid) : wMsg' = [wMsg EXCEPT ![w] = m]
      BY <1>4, <2>3 DEF WriteSelf
    <3>2. u = w /\ wMsg'[u] = m /\ u \in waiters[d] /\ wTxid[u] = packet[m].txid
      BY <2>3, <3>1 DEF Matches, ChannelInv, TypeOK
    <3>3. tEnd[u] = d
      BY <2>1, <3>2 DEF ChannelInv, CallerListed, ListedWaiters
    <3>4. tMsg[u] \in Requests(d) /\ packet[tMsg[u]].txid = packet[m].txid
      BY <2>1, <3>2, <3>3 DEF ReplyInv, NumberInv, CallersOK
    <3>5. packet[m].txid # None
      BY <3>4, RequestsMade
    <3>6. packet[m].answers \in Requests(d) /\ packet[packet[m].answers].txid = packet[m].txid
      BY <1>5, <3>5 DEF ReplyInv, NumberInv, RepliesOK
    <3> QED BY <3>2, <3>3, <3>4, <3>6 DEF ReplyInv, NumberInv, Numbered, Numbering
  <2> QED BY <2>2, <2>3
<1> QED BY <1>8, <1>9, AnswersAll DEF ReplyInv, ReplyAnswersCall, Answered, Count

(* The steps that neither make, write nor number a message.                 *)
LEMMA NumberOther ==
  ASSUME ChannelInv, ConserveInv, ReplyInv, UNCHANGED <<packet, txid, wTxid>>,
         \A m \in Messages : IsRequest(m) =>
           (fate'[m] \in {"made", "failed"} <=> fate[m] \in {"made", "failed"}),
         \A t \in Threads : Sending(t)' =>
           /\ Sending(t) /\ pc'[t] = pc[t] /\ tMsg'[t] = tMsg[t] /\ tEnd'[t] = tEnd[t],
         \A t \in Threads : InCall(t)' =>
           InCall(t) /\ tMsg'[t] = tMsg[t] /\ tEnd'[t] = tEnd[t],
         \A t \in Threads : wMsg'[t] # None => wMsg'[t] = wMsg[t],
         \A e \in Endpoints : waiters'[e] \subseteq waiters[e]
  PROVE  ReplyInv'
<1>1. NumberInv'
  BY NumberFrame DEF ReplyInv
<1>2. ASSUME NEW t \in Threads PROVE Answered(t)'
  <2>1. CASE InCall(t)' /\ wMsg'[t] # None
    <3>1. Count(tEnd[t])' = Count(tEnd[t])
      BY <2>1 DEF Count, Requests
    <3> QED BY <2>1, <3>1, AnswersAll, AnswerKept DEF ReplyInv
  <2> QED BY <2>1 DEF Answered
<1> QED BY <1>1, <1>2, AnswersAll DEF ReplyInv, ReplyAnswersCall, Answered, Count

(* The steps of the channel, by what they do to requests and replies.       *)
LEMMA ReplyStep ==
  ASSUME ChannelInv, ConserveInv, ReplyInv, Next
  PROVE  ReplyInv'
<1>1. ASSUME NEW e \in Endpoints,
             \/ \E p \in Processes : AddHandle(e, p)
             \/ RemoveHandle(e) \/ OnZeroHandles(e)
      PROVE  ReplyInv'
  <2>1. /\ UNCHANGED <<packet, txid, wTxid, fate, pc, tMsg, tEnd, wMsg>>
        /\ \A d \in Endpoints : waiters'[d] \subseteq waiters[d]
    BY <1>1 DEF AddHandle, RemoveHandle, OnZeroHandles, endVars, waitVars, callVars, msgVars
  <2> QED BY <2>1, NumberOther DEF Sending, InCall
<1>2. ASSUME NEW e \in Endpoints, Destroy(e)
      PROVE  ReplyInv'
  <2>1. /\ UNCHANGED <<packet, txid, wTxid, pc, tMsg, tEnd, wMsg, waiters>>
        /\ \A n \in Messages :
             fate'[n] = IF InQueue(e, n) THEN "discarded" ELSE fate[n]
    BY <1>2 DEF Destroy, InQueue, endVars, waitVars, callVars
  <2>2. \A n \in Messages : InQueue(e, n) => fate[n] = "landed"
    BY DEF ConserveInv, QueuesDistinct
  <2> QED BY <2>1, <2>2, NumberOther DEF Sending, InCall
<1>3. ASSUME NEW t \in Threads, NEW e \in Endpoints, StartRead(t, e)
      PROVE  ReplyInv'
  <2>1. /\ UNCHANGED <<packet, txid, wTxid, fate, tMsg, wMsg, waiters>>
        /\ pc' = [pc EXCEPT ![t] = "Read"] /\ tEnd' = [tEnd EXCEPT ![t] = e]
    BY <1>3 DEF StartRead, Lookup, Goto, endVars, waitVars, msgVars
  <2> QED BY <2>1, NumberOther DEF Sending, InCall, ChannelInv, TypeOK
<1>4. ASSUME NEW t \in Threads, NEW e \in Endpoints, NEW m \in Messages,
             \/ \E r \in Messages \cup {None} : StartWrite(t, e, m, r)
             \/ StartCall(t, e, m)
      PROVE  ReplyInv'
  <2>1. ASSUME NEW r \in Messages \cup {None}, StartWrite(t, e, m, r)
        PROVE  ReplyInv'
    <3>1. /\ r # None => Answerable(e, r)
          /\ UNCHANGED <<txid, wTxid, wMsg, waiters>> /\ Lookup(t, e)
          /\ MakeMessage(t, e, m, r, FALSE) /\ Goto(t, "Write")
      BY <2>1 DEF StartWrite, endVars, waitVars
    <3> QED BY <3>1, NumberMade
  <2>2. ASSUME StartCall(t, e, m)
        PROVE  ReplyInv'
    <3>1. /\ UNCHANGED <<txid, wTxid, wMsg, waiters>> /\ Lookup(t, e)
          /\ MakeMessage(t, e, m, None, TRUE) /\ Goto(t, "Call")
      BY <2>2 DEF StartCall, endVars, waitVars
    <3> QED BY <3>1, NumberMade
  <2> QED BY <1>4, <2>1, <2>2
<1>5. ASSUME NEW t \in Threads, NEW fits \in BOOLEAN, NEW mayDiscard \in BOOLEAN,
             ReadFails(t, fits, mayDiscard) \/ Read(t, fits, mayDiscard)
      PROVE  ReplyInv'
  <2>1. /\ UNCHANGED <<packet, txid, wTxid, wMsg, waiters>>
        /\ pc' = [pc EXCEPT ![t] = "idle"]
        /\ tMsg' = [tMsg EXCEPT ![t] = None] /\ tEnd' = [tEnd EXCEPT ![t] = None]
    BY <1>5 DEF ReadFails, Read, Return, Goto, endVars, waitVars, msgVars
  <2>2. \A m \in Messages : fate'[m] \in {"made", "failed"} <=> fate[m] \in {"made", "failed"}
    <3>1. CASE ReadFails(t, fits, mayDiscard)
      BY <3>1 DEF ReadFails, msgVars
    <3>2. CASE Read(t, fits, mayDiscard)
      <4>1. PICK e \in Endpoints : e = tEnd[t]
        BY <3>2 DEF ChannelInv, Locals, Read
      <4>2. /\ messages[e] # <<>> /\ messages[e] \in Seq(Messages)
            /\ fate' = [fate EXCEPT ![Head(messages[e])] = ReadOut(fits)]
        BY <3>2, <4>1 DEF Read, ChannelInv, TypeOK
      <4>3. Head(messages[e]) \in Messages /\ InQueue(e, Head(messages[e]))
        BY <4>2 DEF InQueue
      <4>4. fate[Head(messages[e])] = "landed"
        BY <4>3 DEF ConserveInv, QueuesDistinct
      <4> QED BY <4>2, <4>3, <4>4 DEF ReadOut, ChannelInv, TypeOK
    <3> QED BY <1>5, <3>1, <3>2
  <2> QED BY <2>1, <2>2, NumberOther DEF Sending, InCall, ChannelInv, TypeOK
<1>6. ASSUME NEW t \in Threads,
             \/ WriteFails(t) \/ CallShot(t) \/ CallNotOwner(t)
             \/ CallPeerClosed(t)
      PROVE  ReplyInv'
  <2>1. /\ Sending(t) /\ fate' = [fate EXCEPT ![tMsg[t]] = "failed"]
        /\ UNCHANGED <<packet, txid, wTxid, wMsg, waiters>>
        /\ pc' = [pc EXCEPT ![t] = "idle"] \/ pc' = [pc EXCEPT ![t] = "shot"]
        /\ tMsg' = [tMsg EXCEPT ![t] = None] /\ tEnd' = [tEnd EXCEPT ![t] = None]
    BY <1>6 DEF WriteFails, CallShot, CallNotOwner, CallPeerClosed, Return, Goto,
       Sending, endVars, waitVars
  <2>2. tMsg[t] \in Messages /\ fate[tMsg[t]] = "made"
    BY <2>1 DEF ConserveInv, MadeOnce, Sending, ChannelInv, Locals
  <2>3. \A m \in Messages : fate'[m] \in {"made", "failed"} <=> fate[m] \in {"made", "failed"}
    BY <2>1, <2>2 DEF ChannelInv, TypeOK
  <2>4. /\ \A u \in Threads : Sending(u)' =>
             /\ Sending(u) /\ pc'[u] = pc[u] /\ tMsg'[u] = tMsg[u] /\ tEnd'[u] = tEnd[u]
        /\ \A u \in Threads : InCall(u)' =>
             InCall(u) /\ tMsg'[u] = tMsg[u] /\ tEnd'[u] = tEnd[u]
    BY <2>1 DEF Sending, InCall, ChannelInv, TypeOK
  <2> QED BY <2>1, <2>3, <2>4, NumberOther
<1>7. ASSUME NEW t \in Threads, Write(t)
      PROVE  ReplyInv'
  BY <1>7, NumberWrite
<1>8. ASSUME NEW t \in Threads, Call(t)
      PROVE  ReplyInv'
  BY <1>8, NumberCall
<1>9. ASSUME NEW t \in Threads,
             \/ Woken(t) \/ Expires(t) \/ Interrupted(t) \/ CallFinish(t)
      PROVE  ReplyInv'
  <2>1. /\ UNCHANGED <<packet, txid, wTxid, fate, tMsg, wMsg, waiters>>
        /\ InCall(t)
        /\ \E label \in {"woken", "expired", "retry", "waiting"} :
             pc' = [pc EXCEPT ![t] = label]
        /\ \A u \in Threads : tEnd'[u] = tEnd[u]
    BY <1>9 DEF Woken, Expires, Interrupted, CallFinish, Goto, InCall, endVars, waitVars,
       callVars, msgVars, ChannelInv, TypeOK, CallerListed
  <2>2. ~Sending(t)' /\ \A u \in Threads : u # t => pc'[u] = pc[u]
    BY <2>1 DEF Sending, ChannelInv, TypeOK
  <2> QED BY <2>1, <2>2, NumberOther DEF Sending, InCall
<1>10. ASSUME NEW t \in Threads,
              \/ \E fits \in BOOLEAN : ResumeInterruptedCall(t, fits)
              \/ RemoveWaiter(t)
       PROVE  ReplyInv'
  <2>1. /\ UNCHANGED <<packet, txid, wTxid>>
        /\ wMsg' = [wMsg EXCEPT ![t] = None]
        /\ \E old : waiters' = [d \in Endpoints |-> waiters[d] \ old[d]]
    <3>1. CASE \E fits \in BOOLEAN : ResumeInterruptedCall(t, fits)
      <4>1. waiters' = [waiters EXCEPT ![tEnd[t]] = @ \ Erased(t)]
        BY <3>1 DEF ResumeInterruptedCall
      <4>2. waiters' = [d \in Endpoints |->
              waiters[d] \ [c \in Endpoints |-> IF c = tEnd[t] THEN Erased(t) ELSE {}][d]]
        BY <4>1 DEF ChannelInv, TypeOK
      <4> QED BY <3>1, <4>2 DEF ResumeInterruptedCall, endVars
    <3>2. CASE RemoveWaiter(t)
      <4>1. waiters' = [waiters EXCEPT ![wChannel[t]] = @ \ {t}]
        BY <3>2 DEF RemoveWaiter
      <4>2. waiters' = [d \in Endpoints |->
              waiters[d] \ [c \in Endpoints |-> IF c = wChannel[t] THEN {t} ELSE {}][d]]
        BY <4>1 DEF ChannelInv, TypeOK
      <4> QED BY <3>2, <4>2 DEF RemoveWaiter, endVars
    <3> QED BY <1>10, <3>1, <3>2
  <2>2. \/ fate' = fate
        \/ /\ wMsg[t] # None
           /\ \E v \in {"received", "discarded"} : fate' = [fate EXCEPT ![wMsg[t]] = v]
    BY <1>10 DEF ResumeInterruptedCall, RemoveWaiter, ReadOut, ConserveInv, AnsweredOK,
       InCall, EndStatus
  <2>3. \A m \in Messages : fate'[m] \in {"made", "failed"} <=> fate[m] \in {"made", "failed"}
    BY <2>2 DEF ConserveInv, RepliesDistinct, ChannelInv, TypeOK
  <2>4. /\ ~Sending(t)' /\ ~InCall(t)'
        /\ \A u \in Threads : u # t =>
             pc'[u] = pc[u] /\ tMsg'[u] = tMsg[u] /\ tEnd'[u] = tEnd[u]
    BY <1>10 DEF ResumeInterruptedCall, RemoveWaiter, Return, Goto, callVars, Sending,
       InCall, ChannelInv, TypeOK
  <2>5. \A d \in Endpoints : waiters'[d] \subseteq waiters[d]
    BY <2>1
  <2>6. \A u \in Threads : wMsg'[u] # None => wMsg'[u] = wMsg[u]
    BY <2>1 DEF ChannelInv, TypeOK
  <2>7. /\ \A u \in Threads : Sending(u)' =>
             /\ Sending(u) /\ pc'[u] = pc[u] /\ tMsg'[u] = tMsg[u] /\ tEnd'[u] = tEnd[u]
        /\ \A u \in Threads : InCall(u)' =>
             InCall(u) /\ tMsg'[u] = tMsg[u] /\ tEnd'[u] = tEnd[u]
    BY <2>4 DEF Sending, InCall
  <2> QED BY <2>1, <2>3, <2>5, <2>6, <2>7, NumberOther
<1>11. ASSUME NEW t \in Threads, Exit(t)
       PROVE  ReplyInv'
  <2>1. /\ UNCHANGED <<packet, txid, wTxid, fate, wMsg, waiters>>
        /\ pc' = [pc EXCEPT ![t] = "dead"]
        /\ tMsg' = [tMsg EXCEPT ![t] = None] /\ tEnd' = [tEnd EXCEPT ![t] = None]
    BY <1>11 DEF Exit, Goto, endVars, waitVars, msgVars
  <2> QED BY <2>1, NumberOther DEF Sending, InCall, ChannelInv, TypeOK
<1>12. ASSUME NEW p \in Processes, Kill(p)
       PROVE  ReplyInv'
  BY <1>12, NumberOther
  DEF Kill, Sending, InCall, endVars, waitVars, callVars, msgVars
<1> QED BY <1>1, <1>2, <1>3, <1>4, <1>5, <1>6, <1>7, <1>8, <1>9, <1>10, <1>11,
           <1>12 DEF Next

(* While the counter of its endpoint has not wrapped around, what a call    *)
(* gets is the reply to its own request or a crossing request of the peer,  *)
(* for any number of threads, messages and transaction ids and whichever    *)
(* endpoints' owners use zx_channel_call: never the reply to another call.  *)
THEOREM ReplyAnswersCallHolds == Spec => []ReplyAnswersCall
<1>1. Init => ReplyInv
  <2> SUFFICES ASSUME Init PROVE ReplyInv
    OBVIOUS
  <2>1. \A e : Requests(e) = {}
    BY DEF Init, Requests
  <2>2. \A e : IsFiniteSet(Requests(e)) /\ Count(e) = 0
    BY <2>1, FS_EmptySet DEF Count
  <2>3. RequestsOK /\ RepliesOK /\ SendersOK /\ CallersOK /\ WaitersOK
    BY DEF Init, RequestsOK, RepliesOK, SendersOK, CallersOK, WaitersOK, IsRequest,
       Sending, InCall
  <2>4. \A e \in Endpoints : Numbered(e)
    BY <2>1, <2>2, ChannelAssumption DEF Init, Numbered, Numbering
  <2>5. ReplyAnswersCall
    BY DEF Init, ReplyAnswersCall, InCall
  <2> QED BY <2>3, <2>4, <2>5 DEF ReplyInv, NumberInv
<1>2. ChannelInv /\ ConserveInv /\ ReplyInv /\ [Next]_vars => ReplyInv'
  <2> SUFFICES ASSUME ChannelInv, ConserveInv, ReplyInv, [Next]_vars
               PROVE  ReplyInv'
    OBVIOUS
  <2>1. CASE UNCHANGED vars
    BY <2>1, NumberOther DEF vars, endVars, waitVars, callVars, msgVars, Sending, InCall
  <2> QED BY <2>1, ReplyStep
<1>3. ReplyInv => ReplyAnswersCall
  BY DEF ReplyInv
<1> QED BY <1>1, <1>2, <1>3, ChannelInvariant, ConserveInvariant, PTL DEF Spec
=============================================================================
