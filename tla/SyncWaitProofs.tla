--------------------------- MODULE SyncWaitProofs ---------------------------
(***************************************************************************)
(* Proofs about SyncWait, for any set of threads, handles, objects and     *)
(* signals and any lists of items: that no list and no callback refers to  *)
(* an observer that has gone, that no thread blocks through a signal or a  *)
(* closed handle it waits for, and that what a wait returns is explained   *)
(* by the signals it returns.                                              *)
(***************************************************************************)
EXTENDS SyncWait, TLAPS

(* While the loops over the items run, ix is the number of an item or one  *)
(* more.                                                                   *)
IndexOK ==
  \A t \in Threads : /\ pc[t] \in {"begin", "end", "unwind"} => ix[t] > 0
                     /\ pc[t] = "unwind" => /\ numAdded[t] <= Len(items[t])
                                            /\ ix[t] <= numAdded[t] + 1

(* An object refers to the observers of live items of its own only, ...    *)
RefOK(o, who) ==
  /\ who[2] \in DOMAIN items[who[1]]
  /\ Alive(who)
  /\ ObjectOf[Watched(who).handle] = o

RefsOK == \A o \in Objects : \A who \in Refers(o) : RefOK(o, who)

(* ... and to each of them once.                                           *)
OnceOK ==
  \A o \in Objects : \A call \in callbacks[o] :
    /\ call.who \notin observers[o]
    /\ \A other \in callbacks[o] : other.who = call.who => other = call

(* A call carries the flags that make it due, and has stored them before   *)
(* it signals.                                                             *)
CallOK(call) ==
  /\ call.step = "signal" => final[call.who[1]][call.who[2]] = call.flags
  /\ call.result = "OK" => call.flags \cap Watched(call.who).waitfor # {}
  /\ call.result = "CANCELED" => "CLOSED" \in call.flags

CallsOK == \A o \in Objects : \A call \in callbacks[o] : CallOK(call)

(* An observer stays on the list while nothing has happened to it.         *)
Quiet(o, who) ==
  /\ signals[o] \cap Watched(who).waitfor = {}
  /\ handle[Watched(who).handle] # "closed"

QuietOK == \A o \in Objects : \A who \in observers[o] : Quiet(o, who)

(* The observer of item i has been added.                                  *)
Begun(t, i) == pc[t] = "begin" => i < ix[t]

(* Until the event is signalled, the object of every item whose observer   *)
(* has begun will call it.                                                 *)
Covered(t) ==
  (pc[t] \in {"begin", "wait"} /\ event[t] = "none") =>
    \A i \in DOMAIN items[t] :
      Begun(t, i) => <<t, i>> \in Refers(ObjectOf[items[t][i].handle])

(* Once the event is signalled, the item whose callback came first holds   *)
(* the flags of that callback, which nothing will write again, and End     *)
(* hands them over.                                                        *)
Settled(t, i) ==
  /\ Begun(t, i)
  /\ \A o \in Objects : <<t, i>> \notin Refers(o)
  /\ event[t] = "OK" => final[t][i] \cap items[t][i].waitfor # {}
  /\ event[t] = "CANCELED" => "CLOSED" \in final[t][i]
  /\ (pc[t] = "end" /\ i < ix[t]) => pending[t][i] = final[t][i]

Explained(t) == event[t] # "none" => \E i \in DOMAIN items[t] : Settled(t, i)

(* A thread that was woken by its event took the result from it.           *)
StatusOK(t) ==
  (pc[t] = "end" /\ status[t] \in {"OK", "CANCELED"}) => event[t] = status[t]

WaitersOK == \A t \in Threads : Covered(t) /\ Explained(t) /\ StatusOK(t)

FrameInv == TypeOK /\ LocalsOK /\ IndexOK

LinkInv == RefsOK /\ OnceOK /\ CallsOK

SyncInv == FrameInv /\ LinkInv /\ QuietOK /\ WaitersOK
-----------------------------------------------------------------------------
(* Writing one element keeps a sequence's length and type.                 *)
LEMMA SeqExcept ==
  ASSUME NEW S, NEW s \in Seq(S), NEW i \in DOMAIN s, NEW x \in S
  PROVE  /\ [s EXCEPT ![i] = x] \in Seq(S)
         /\ Len([s EXCEPT ![i] = x]) = Len(s)
         /\ DOMAIN [s EXCEPT ![i] = x] = DOMAIN s
  OBVIOUS

(* The arrays of a call have one entry for each item.                      *)
LEMMA SeqConstant ==
  ASSUME NEW S, NEW x \in S, NEW T, NEW s \in Seq(T)
  PROVE  /\ [i \in DOMAIN s |-> x] \in Seq(S)
         /\ Len([i \in DOMAIN s |-> x]) = Len(s)
  <1> DEFINE c == [i \in 1 .. Len(s) |-> x]
  <1>1. c \in Seq(S)
    OBVIOUS
  <1>2. Len(c) = Len(s)
    OBVIOUS
  <1>3. DOMAIN s = 1 .. Len(s)
    OBVIOUS
  <1> QED  BY <1>1, <1>2, <1>3

LEMMA FunExcept ==
  ASSUME NEW A, NEW B, NEW f \in [A -> B], NEW x, NEW y \in B
  PROVE  [f EXCEPT ![x] = y] \in [A -> B]
  OBVIOUS

(* The locals of a call start with the right type.                         *)
LEMMA FrameEnter ==
  ASSUME SyncInv, NEW t \in Threads, NEW list \in ItemLists[t], Enter(t, list)
  PROVE  FrameInv'
  <1> USE DEF SyncInv, FrameInv
  <1>1. list \in Seq(WaitItems)
    BY SyncWaitAssumption
  <1> DEFINE empty == [i \in DOMAIN list |-> {}]
  <1>2. {} \in Flags
    BY DEF Flags
  <1>3. empty \in Seq(Flags) /\ Len(empty) = Len(list)
    BY <1>1, <1>2, SeqConstant
  <1>4. /\ final' = [final EXCEPT ![t] = empty]
        /\ pending' = [pending EXCEPT ![t] = empty]
    BY DEF Enter
  <1> HIDE DEF empty
  <1>5. TypeOK'
    <2>1. /\ items' \in [Threads -> Seq(WaitItems)]
          /\ final' \in [Threads -> Seq(Flags)]
          /\ pending' \in [Threads -> Seq(Flags)]
      <3>1. /\ items \in [Threads -> Seq(WaitItems)]
            /\ final \in [Threads -> Seq(Flags)]
            /\ pending \in [Threads -> Seq(Flags)]
        BY DEF TypeOK
      <3>2. items' = [items EXCEPT ![t] = list]
        BY DEF Enter
      <3>3. items' \in [Threads -> Seq(WaitItems)]
        BY <1>1, <3>1, <3>2, FunExcept
      <3>4. final' \in [Threads -> Seq(Flags)]
        BY <1>3, <1>4, <3>1, FunExcept
      <3>5. pending' \in [Threads -> Seq(Flags)]
        BY <1>3, <1>4, <3>1, FunExcept
      <3> QED  BY <3>3, <3>4, <3>5
    <2>2. /\ pc' \in [Threads -> {"idle", "begin", "wait", "end", "unwind"}]
          /\ ix' \in [Threads -> Nat] /\ numAdded' \in [Threads -> Nat]
          /\ event' \in [Threads -> {"none", "OK", "CANCELED"}]
          /\ status' \in [Threads -> Results]
      BY DEF TypeOK, Enter, Goto, Results
    <2> QED  BY <2>1, <2>2 DEF TypeOK, Enter, objVars
  <1>6. LocalsOK'
    BY <1>1, <1>3, <1>4 DEF TypeOK, LocalsOK, Enter, Goto
  <1>7. IndexOK'
    BY DEF TypeOK, IndexOK, Enter, Goto
  <1> QED  BY <1>5, <1>6, <1>7

LEMMA FrameBeginFails ==
  ASSUME SyncInv, NEW t \in Threads, BeginFails(t)
  PROVE  FrameInv'
  BY DEF SyncInv, FrameInv, TypeOK, LocalsOK, IndexOK, BeginFails, Goto, objVars, Results

(* The item the loop has reached.                                          *)
LEMMA ItemFacts ==
  ASSUME SyncInv, NEW t \in Threads, ix[t] > 0, ix[t] <= Len(items[t])
  PROVE  /\ ix[t] \in DOMAIN items[t]
         /\ ix[t] \in DOMAIN final[t]
         /\ ix[t] \in DOMAIN pending[t]
         /\ Item(t) \in WaitItems
         /\ Item(t).handle \in Handles
         /\ ObjectOf[Item(t).handle] \in Objects
         /\ Item(t).waitfor \in SUBSET Signals
  <1>1. ix[t] \in DOMAIN items[t] /\ ix[t] \in DOMAIN final[t] /\ ix[t] \in DOMAIN pending[t]
    BY DEF SyncInv, FrameInv, TypeOK, LocalsOK
  <1>2. Item(t) \in WaitItems
    BY <1>1 DEF SyncInv, FrameInv, TypeOK, Item
  <1> QED  BY <1>1, <1>2, SyncWaitAssumption DEF WaitItems

(* Begin takes one of its two ways.                                        *)
LEMMA BeginFacts ==
  ASSUME SyncInv, NEW t \in Threads, Begin(t),
         NEW o, o = ObjectOf[Item(t).handle]
  PROVE  /\ pc[t] = "begin"
         /\ o \in Objects
         /\ ix[t] \in DOMAIN items[t] /\ ix[t] \in DOMAIN final[t]
         /\ ix[t] > 0 /\ ix[t] <= Len(items[t])
         /\ handle[Item(t).handle] = "open"
         /\ callbacks[o] = {}
         /\ \/ /\ signals[o] \cap Item(t).waitfor # {}
               /\ final' = [final EXCEPT ![t][ix[t]] = signals[o]]
               /\ event' = [event EXCEPT ![t] = IF @ = "none" THEN "OK" ELSE @]
               /\ UNCHANGED observers
            \/ /\ signals[o] \cap Item(t).waitfor = {}
               /\ observers' = [observers EXCEPT ![o] = @ \cup {<<t, ix[t]>>}]
               /\ UNCHANGED <<final, event>>
         /\ ix' = [ix EXCEPT ![t] = ix[t] + 1]
         /\ UNCHANGED <<signals, callbacks, handle, pc, items, numAdded, pending, status>>
  <1>1. ix[t] > 0 /\ ix[t] <= Len(items[t])
    BY DEF SyncInv, FrameInv, IndexOK, Begin
  <1>2. o \in Objects /\ ix[t] \in DOMAIN items[t] /\ ix[t] \in DOMAIN final[t]
    BY <1>1, ItemFacts
  <1>3. \/ /\ signals[o] \cap Item(t).waitfor # {}
           /\ final' = [final EXCEPT ![t][ix[t]] = signals[o]]
           /\ event' = [event EXCEPT ![t] = IF @ = "none" THEN "OK" ELSE @]
           /\ UNCHANGED observers
        \/ /\ signals[o] \cap Item(t).waitfor = {}
           /\ observers' = [observers EXCEPT ![o] = @ \cup {<<t, ix[t]>>}]
           /\ UNCHANGED <<final, event>>
    BY Zenon DEF Begin, AlreadyMatched, FirstSignal
  <1> QED  BY <1>1, <1>2, <1>3 DEF Begin, NextItem, Unlocked

LEMMA FrameBegin ==
  ASSUME SyncInv, NEW t \in Threads, Begin(t)
  PROVE  FrameInv'
  <1> DEFINE o == ObjectOf[Item(t).handle]
  <1>1. /\ o \in Objects
        /\ ix[t] \in DOMAIN final[t]
        /\ pc[t] = "begin" /\ ix[t] > 0 /\ ix[t] <= Len(items[t])
        /\ ix' = [ix EXCEPT ![t] = ix[t] + 1]
        /\ UNCHANGED <<signals, callbacks, handle, pc, items, numAdded, pending, status>>
    BY BeginFacts
  <1>2. \/ /\ final' = [final EXCEPT ![t][ix[t]] = signals[o]]
           /\ event' = [event EXCEPT ![t] = IF @ = "none" THEN "OK" ELSE @]
           /\ UNCHANGED observers
        \/ /\ observers' = [observers EXCEPT ![o] = @ \cup {<<t, ix[t]>>}]
           /\ UNCHANGED <<final, event>>
    BY BeginFacts
  <1> HIDE DEF o
  <1> DEFINE stored == [final[t] EXCEPT ![ix[t]] = signals[o]]
  <1>3. final[t] \in Seq(Flags) /\ signals[o] \in Flags
    BY <1>1 DEF SyncInv, FrameInv, TypeOK, Flags
  <1>4. stored \in Seq(Flags) /\ Len(stored) = Len(final[t])
    BY <1>1, <1>3, SeqExcept
  <1>5. final' = final \/ final' = [final EXCEPT ![t] = stored]
    BY <1>2
  <1> HIDE DEF stored
  <1>6. observers' \in [Objects -> SUBSET (Threads \X Nat)]
    <2>1. observers \in [Objects -> SUBSET (Threads \X Nat)] /\ <<t, ix[t]>> \in Threads \X Nat
      BY DEF SyncInv, FrameInv, TypeOK
    <2>2. CASE observers' = observers
      BY <2>1, <2>2
    <2>3. CASE observers' = [observers EXCEPT ![o] = @ \cup {<<t, ix[t]>>}]
      BY <2>1, <2>3
    <2> QED  BY <1>2, <2>2, <2>3
  <1>7. event' \in [Threads -> {"none", "OK", "CANCELED"}]
    <2>1. event \in [Threads -> {"none", "OK", "CANCELED"}]
      BY DEF SyncInv, FrameInv, TypeOK
    <2> QED  BY <1>2, <2>1
  <1>8. final' \in [Threads -> Seq(Flags)] /\ ix' \in [Threads -> Nat]
    <2>1. final \in [Threads -> Seq(Flags)] /\ ix \in [Threads -> Nat]
      BY DEF SyncInv, FrameInv, TypeOK
    <2>2. final' \in [Threads -> Seq(Flags)]
      BY <1>4, <1>5, <2>1, FunExcept
    <2> QED  BY <1>1, <2>1, <2>2
  <1>9. TypeOK'
    BY <1>1, <1>6, <1>7, <1>8 DEF SyncInv, FrameInv, TypeOK
  <1>10. LocalsOK'
    BY <1>1, <1>4, <1>5 DEF SyncInv, FrameInv, TypeOK, LocalsOK
  <1>11. IndexOK'
    BY <1>1 DEF SyncInv, FrameInv, TypeOK, IndexOK
  <1> QED  BY <1>9, <1>10, <1>11 DEF FrameInv

LEMMA FrameBeginDone ==
  ASSUME SyncInv, NEW t \in Threads, BeginDone(t)
  PROVE  FrameInv'
  BY DEF SyncInv, FrameInv, TypeOK, LocalsOK, IndexOK, BeginDone, Goto, objVars, waitVars

LEMMA FrameWakes ==
  ASSUME SyncInv, NEW t \in Threads,
         NEW result \in {"OK", "CANCELED", "TIMED_OUT", "INTERRUPTED"}, Wakes(t, result)
  PROVE  FrameInv'
  BY DEF SyncInv, FrameInv, TypeOK, LocalsOK, IndexOK, Wakes, Goto, objVars, Results

LEMMA FrameEnd ==
  ASSUME SyncInv, NEW t \in Threads, End(t)
  PROVE  FrameInv'
  <1> DEFINE o == ObjectOf[Item(t).handle]
             kept == EndState(t, o, <<t, ix[t]>> \in observers[o])
  <1>1. ix[t] > 0 /\ ix[t] <= Len(items[t])
    BY DEF SyncInv, FrameInv, IndexOK, End
  <1>2. o \in Objects /\ ix[t] \in DOMAIN pending[t] /\ ix[t] \in DOMAIN final[t]
    BY <1>1, ItemFacts
  <1>2a. final[t][ix[t]] \in Flags
    BY <1>2 DEF SyncInv, FrameInv, TypeOK
  <1>3. pending[t] \in Seq(Flags) /\ kept \in Flags
    BY <1>2, <1>2a DEF SyncInv, FrameInv, TypeOK, Flags, EndState
  <1>4. pending' = [pending EXCEPT ![t][ix[t]] = kept]
    BY DEF End
  <1>5. observers' \in [Objects -> SUBSET (Threads \X Nat)]
    BY <1>2 DEF SyncInv, FrameInv, TypeOK, End
  <1> HIDE DEF kept, o
  <1> DEFINE stored == [pending[t] EXCEPT ![ix[t]] = kept]
  <1>6. stored \in Seq(Flags) /\ Len(stored) = Len(pending[t])
    BY <1>2, <1>3, SeqExcept
  <1>7. pending' = [pending EXCEPT ![t] = stored]
    BY <1>4
  <1> HIDE DEF stored
  <1>8. TypeOK'
    <2>1. pending' \in [Threads -> Seq(Flags)]
      <3>1. pending \in [Threads -> Seq(Flags)]
        BY DEF SyncInv, FrameInv, TypeOK
      <3> QED  BY <1>6, <1>7, <3>1, FunExcept
    <2>2. ix' \in [Threads -> Nat]
      BY DEF SyncInv, FrameInv, TypeOK, End, NextItem
    <2> QED  BY <1>5, <2>1, <2>2 DEF SyncInv, FrameInv, TypeOK, End
  <1>9. LocalsOK'
    BY <1>1, <1>6, <1>7 DEF SyncInv, FrameInv, TypeOK, LocalsOK, End, NextItem
  <1>10. IndexOK'
    BY DEF SyncInv, FrameInv, TypeOK, IndexOK, End, NextItem
  <1> QED  BY <1>8, <1>9, <1>10 DEF FrameInv

LEMMA FrameLeave ==
  ASSUME SyncInv, NEW t \in Threads, NEW result \in Results, Leave(t, result)
  PROVE  FrameInv'
  <1> << >> \in Seq(WaitItems) /\ << >> \in Seq(Flags) /\ Len(<< >>) = 0
    OBVIOUS
  <1> QED  BY DEF SyncInv, FrameInv, TypeOK, LocalsOK, IndexOK, Leave, Goto, objVars

LEMMA FrameUnwind ==
  ASSUME SyncInv, NEW t \in Threads, Unwind(t)
  PROVE  FrameInv'
  <1> DEFINE o == ObjectOf[Item(t).handle]
  <1>1. observers' \in [Objects -> SUBSET (Threads \X Nat)]
    <2>1. observers' = [observers EXCEPT ![o] = @ \ {<<t, ix[t]>>}]
      BY DEF Unwind
    <2> QED  BY <2>1 DEF SyncInv, FrameInv, TypeOK
  <1> QED
    BY <1>1 DEF SyncInv, FrameInv, TypeOK, LocalsOK, IndexOK, Unwind, NextItem

(* The calls made for a set of observers.                                  *)
LEMMA CallAllType ==
  ASSUME NEW chosen \in SUBSET (Threads \X Nat), NEW flags \in Flags,
         NEW result \in {"OK", "CANCELED"}
  PROVE  CallAll(chosen, flags, result) \in SUBSET Calls
  BY DEF CallAll, Calls

LEMMA FrameUpdateState ==
  ASSUME SyncInv, NEW o \in Objects, NEW new \in SUBSET Signals, UpdateState(o, new)
  PROVE  FrameInv'
  <1> DEFINE matched == {who \in observers[o] : Watched(who).waitfor \cap new # {}}
  <1>1. matched \in SUBSET (Threads \X Nat) /\ new \in Flags
    BY DEF SyncInv, FrameInv, TypeOK, Flags
  <1>2. CallAll(matched, new, "OK") \in SUBSET Calls
    BY <1>1, CallAllType
  <1>3. /\ callbacks' = [callbacks EXCEPT ![o] = CallAll(matched, new, "OK")]
        /\ observers' = [observers EXCEPT ![o] = @ \ matched]
    BY DEF UpdateState
  <1> HIDE DEF matched
  <1>4. /\ signals' \in [Objects -> SUBSET Signals]
        /\ observers' \in [Objects -> SUBSET (Threads \X Nat)]
        /\ callbacks' \in [Objects -> SUBSET Calls]
    <2>1. /\ signals \in [Objects -> SUBSET Signals]
          /\ observers \in [Objects -> SUBSET (Threads \X Nat)]
          /\ callbacks \in [Objects -> SUBSET Calls]
      BY DEF SyncInv, FrameInv, TypeOK
    <2>2. signals' = [signals EXCEPT ![o] = new]
      BY DEF UpdateState
    <2>3. callbacks' \in [Objects -> SUBSET Calls]
      BY <1>2, <1>3, <2>1, FunExcept
    <2> QED  BY <1>3, <2>1, <2>2, <2>3
  <1> QED
    BY <1>4 DEF SyncInv, FrameInv, TypeOK, LocalsOK, IndexOK, UpdateState, waitVars

LEMMA FrameRemoveHandle ==
  ASSUME SyncInv, NEW h \in Handles, RemoveHandle(h)
  PROVE  FrameInv'
  BY DEF SyncInv, FrameInv, TypeOK, LocalsOK, IndexOK, RemoveHandle, objVars, waitVars

LEMMA FrameCancel ==
  ASSUME SyncInv, NEW h \in Handles, Cancel(h)
  PROVE  FrameInv'
  <1> DEFINE o == ObjectOf[h]
             mine == {who \in observers[o] : Watched(who).handle = h}
             flags == signals[o] \cup {"CLOSED"}
  <1>1. o \in Objects
    BY SyncWaitAssumption
  <1>2. mine \in SUBSET (Threads \X Nat) /\ flags \in Flags
    BY <1>1 DEF SyncInv, FrameInv, TypeOK, Flags
  <1>3. CallAll(mine, flags, "CANCELED") \in SUBSET Calls
    BY <1>2, CallAllType
  <1>4. /\ callbacks' = [callbacks EXCEPT ![o] = CallAll(mine, flags, "CANCELED")]
        /\ observers' = [observers EXCEPT ![o] = @ \ mine]
    BY DEF Cancel
  <1> HIDE DEF mine, flags, o
  <1>5. /\ handle' \in [Handles -> {"open", "removed", "closed"}]
        /\ observers' \in [Objects -> SUBSET (Threads \X Nat)]
        /\ callbacks' \in [Objects -> SUBSET Calls]
    <2>1. /\ handle \in [Handles -> {"open", "removed", "closed"}]
          /\ observers \in [Objects -> SUBSET (Threads \X Nat)]
          /\ callbacks \in [Objects -> SUBSET Calls]
      BY DEF SyncInv, FrameInv, TypeOK
    <2>2. handle' = [handle EXCEPT ![h] = "closed"]
      BY DEF Cancel
    <2>3. callbacks' \in [Objects -> SUBSET Calls]
      BY <1>3, <1>4, <2>1, FunExcept
    <2> QED  BY <1>4, <2>1, <2>2, <2>3
  <1> QED
    BY <1>5 DEF SyncInv, FrameInv, TypeOK, LocalsOK, IndexOK, Cancel, waitVars

(* A callback finds the observer it writes to.                             *)
LEMMA CallFacts ==
  ASSUME SyncInv, NEW o \in Objects, NEW call \in callbacks[o]
  PROVE  /\ call \in Calls
         /\ call.who[1] \in Threads
         /\ call.who[2] \in DOMAIN items[call.who[1]]
         /\ call.who[2] \in DOMAIN final[call.who[1]]
         /\ call.who = <<call.who[1], call.who[2]>>
         /\ call.who \in Refers(o)
         /\ ObjectOf[Watched(call.who).handle] = o
  <1>1. call \in Calls
    BY DEF SyncInv, FrameInv, TypeOK
  <1>2. call.who \in Threads \X Nat
    BY <1>1 DEF Calls
  <1>3. call.who[1] \in Threads /\ call.who = <<call.who[1], call.who[2]>>
    BY <1>2
  <1>4. call.who \in Refers(o)
    BY DEF Refers
  <1>5. call.who[2] \in DOMAIN items[call.who[1]] /\ ObjectOf[Watched(call.who).handle] = o
    BY <1>4 DEF SyncInv, LinkInv, RefsOK, RefOK
  <1>6. call.who[2] \in DOMAIN final[call.who[1]]
    BY <1>3, <1>5 DEF SyncInv, FrameInv, TypeOK, LocalsOK
  <1> QED  BY <1>1, <1>3, <1>4, <1>5, <1>6

(* The two steps of a callback, with the observer it writes to named.      *)
LEMMA StoreFacts ==
  ASSUME SyncInv, NEW o \in Objects, Store(o)
  PROVE  \E call \in callbacks[o] :
           /\ call.step = "store"
           /\ \A c \in callbacks[o] : c.step = "store"
           /\ final' = [final EXCEPT ![call.who[1]] =
                          [@ EXCEPT ![call.who[2]] = call.flags]]
           /\ callbacks' = [callbacks EXCEPT ![o] =
                (@ \ {call}) \cup {[call EXCEPT !.step = "signal"]}]
           /\ UNCHANGED <<signals, observers, handle, pc, items, ix,
                          numAdded, event, pending, status>>
  <1>1. PICK call \in callbacks[o] :
          /\ final' = [final EXCEPT ![call.who[1]] =
                      IF call.who[2] \in DOMAIN @
                        THEN [@ EXCEPT ![call.who[2]] = call.flags] ELSE @]
          /\ callbacks' = [callbacks EXCEPT ![o] =
                          (@ \ {call}) \cup {[call EXCEPT !.step = "signal"]}]
    BY DEF Store
  <1>2. call.who[2] \in DOMAIN final[call.who[1]] /\ call.who[1] \in Threads
    BY CallFacts
  <1>3. final' = [final EXCEPT ![call.who[1]] = [@ EXCEPT ![call.who[2]] = call.flags]]
    BY <1>1, <1>2 DEF SyncInv, FrameInv, TypeOK
  <1> QED  BY <1>1, <1>3 DEF Store

LEMMA FrameStore ==
  ASSUME SyncInv, NEW o \in Objects, Store(o)
  PROVE  FrameInv'
  <1>1. PICK call \in callbacks[o] :
           /\ call.step = "store"
           /\ final' = [final EXCEPT ![call.who[1]] =
                          [@ EXCEPT ![call.who[2]] = call.flags]]
           /\ callbacks' = [callbacks EXCEPT ![o] =
                (@ \ {call}) \cup {[call EXCEPT !.step = "signal"]}]
           /\ UNCHANGED <<signals, observers, handle, pc, items, ix,
                          numAdded, event, pending, status>>
    BY StoreFacts
  <1>2. /\ call \in Calls
        /\ call.who[1] \in Threads
        /\ call.who[2] \in DOMAIN final[call.who[1]]
    BY CallFacts
  <1> DEFINE done == [call EXCEPT !.step = "signal"]
             u == call.who[1]
             stored == [final[u] EXCEPT ![call.who[2]] = call.flags]
  <1>3. done \in Calls /\ call.flags \in Flags
    BY <1>2 DEF Calls
  <1>4. final[u] \in Seq(Flags)
    BY <1>2 DEF SyncInv, FrameInv, TypeOK
  <1>5. stored \in Seq(Flags) /\ Len(stored) = Len(final[u])
    BY <1>2, <1>3, <1>4, SeqExcept
  <1>6. final' = [final EXCEPT ![u] = stored]
    BY <1>1, <1>2 DEF SyncInv, FrameInv, TypeOK
  <1>7. callbacks' \in [Objects -> SUBSET Calls]
    BY <1>1, <1>3 DEF SyncInv, FrameInv, TypeOK
  <1> HIDE DEF stored, u
  <1> QED
    BY <1>1, <1>5, <1>6, <1>7 DEF SyncInv, FrameInv, TypeOK, LocalsOK, IndexOK

LEMMA FrameSignal ==
  ASSUME SyncInv, NEW o \in Objects, Signal(o)
  PROVE  FrameInv'
  <1>1. PICK call \in callbacks[o] :
          /\ FirstSignal(call.who[1], call.result)
          /\ callbacks' = [callbacks EXCEPT ![o] = @ \ {call}]
    BY DEF Signal
  <1>2. call.result \in {"OK", "CANCELED"}
    BY CallFacts DEF Calls
  <1>3. callbacks' \in [Objects -> SUBSET Calls]
    BY <1>1 DEF SyncInv, FrameInv, TypeOK
  <1>4. event' \in [Threads -> {"none", "OK", "CANCELED"}]
    BY <1>1, <1>2 DEF SyncInv, FrameInv, TypeOK, FirstSignal
  <1> QED
    BY <1>3, <1>4 DEF SyncInv, FrameInv, TypeOK, LocalsOK, IndexOK, Signal
-----------------------------------------------------------------------------
(* What an item is.                                                        *)
LEMMA ItemType ==
  ASSUME SyncInv, NEW t \in Threads, NEW i \in DOMAIN items[t]
  PROVE  /\ i \in Nat /\ i > 0 /\ i <= Len(items[t])
         /\ items[t][i].handle \in Handles
         /\ items[t][i].waitfor \in SUBSET Signals
         /\ ObjectOf[items[t][i].handle] \in Objects
  <1>1. items[t] \in Seq(WaitItems)
    BY DEF SyncInv, FrameInv, TypeOK
  <1>2. items[t][i] \in WaitItems /\ i \in Nat /\ i > 0 /\ i <= Len(items[t])
    BY <1>1
  <1> QED  BY <1>2, SyncWaitAssumption DEF WaitItems

(* What a list or a callback refers to.                                    *)
LEMMA RefFacts ==
  ASSUME SyncInv, NEW o \in Objects, NEW who \in Refers(o)
  PROVE  /\ who[1] \in Threads /\ who[2] \in Nat
         /\ who = <<who[1], who[2]>>
         /\ RefOK(o, who)
         /\ Watched(who) \in WaitItems
         /\ Watched(who).handle \in Handles
  <1>1. who \in Threads \X Nat
    <2>1. CASE who \in observers[o]
      BY <2>1 DEF SyncInv, FrameInv, TypeOK
    <2>2. CASE \E call \in callbacks[o] : who = call.who
      BY <2>2 DEF SyncInv, FrameInv, TypeOK, Calls
    <2> QED  BY <2>1, <2>2 DEF Refers
  <1>2. RefOK(o, who)
    BY DEF SyncInv, LinkInv, RefsOK
  <1>3. items[who[1]] \in Seq(WaitItems) /\ who[2] \in DOMAIN items[who[1]]
    BY <1>1, <1>2 DEF SyncInv, FrameInv, TypeOK, RefOK
  <1>4. Watched(who) \in WaitItems
    BY <1>3 DEF Watched
  <1> QED  BY <1>1, <1>2, <1>4 DEF WaitItems

(* A step of thread t that makes no call: what concerns the other threads  *)
(* stays as it is.                                                         *)
LEMMA ThreadStep ==
  ASSUME SyncInv, FrameInv', NEW t \in Threads,
         UNCHANGED <<signals, callbacks, handle>>,
         \A u \in Threads \ {t} :
           /\ pc'[u] = pc[u] /\ items'[u] = items[u] /\ ix'[u] = ix[u]
           /\ numAdded'[u] = numAdded[u] /\ event'[u] = event[u] /\ final'[u] = final[u]
           /\ pending'[u] = pending[u] /\ status'[u] = status[u],
         \A o \in Objects : \A who \in Threads \X Nat :
           who[1] # t => (who \in observers'[o] <=> who \in observers[o]),
         \A o \in Objects : \A who \in Refers(o)' : who[1] = t => RefOK(o, who)',
         \A o \in Objects : \A who \in observers'[o] : who[1] = t => Quiet(o, who)',
         \A o \in Objects : \A call \in callbacks[o] : call.who[1] = t =>
           /\ call.who \notin observers'[o]
           /\ items'[t] = items[t]
           /\ final'[t][call.who[2]] = final[t][call.who[2]],
         Covered(t)', Explained(t)', StatusOK(t)'
  PROVE  SyncInv'
  <1>1. ASSUME NEW o \in Objects
        PROVE  /\ observers'[o] \subseteq Threads \X Nat
               /\ observers[o] \subseteq Threads \X Nat
               /\ \A call \in callbacks[o] : call.who \in Threads \X Nat
    BY DEF SyncInv, FrameInv, TypeOK, Calls
  <1>2. ASSUME NEW o \in Objects, NEW who \in Threads \X Nat, who[1] # t
        PROVE  who \in Refers(o)' <=> who \in Refers(o)
    BY <1>2 DEF Refers
  <1>3. RefsOK'
    <2>1. ASSUME NEW o \in Objects, NEW who \in Refers(o)', who[1] # t
          PROVE  RefOK(o, who)'
      <3>1. who \in Threads \X Nat
        BY <1>1 DEF Refers
      <3>2. who \in Refers(o)
        BY <1>2, <2>1, <3>1
      <3>3. RefOK(o, who)
        BY <3>2 DEF SyncInv, LinkInv, RefsOK
      <3>4. who[1] \in Threads \ {t}
        BY <2>1, <3>1
      <3> QED  BY <3>3, <3>4 DEF RefOK, Alive, Watched
    <2> QED  BY <2>1 DEF RefsOK
  <1>4. OnceOK'
    <2>1. ASSUME NEW o \in Objects, NEW call \in callbacks[o]
          PROVE  call.who \notin observers'[o]
      <3>1. call.who \notin observers[o] /\ call.who \in Threads \X Nat
        BY <1>1 DEF SyncInv, LinkInv, OnceOK
      <3> QED  BY <3>1
    <2> QED  BY <2>1 DEF SyncInv, LinkInv, OnceOK
  <1>5. CallsOK'
    <2>1. ASSUME NEW o \in Objects, NEW call \in callbacks[o]
          PROVE  CallOK(call)'
      <3>1. CallOK(call) /\ call.who \in Threads \X Nat
        BY <1>1 DEF SyncInv, LinkInv, CallsOK
      <3>2. CASE call.who[1] = t
        BY <3>1, <3>2 DEF CallOK, Watched
      <3>3. CASE call.who[1] # t
        <4>1. call.who[1] \in Threads \ {t}
          BY <3>1, <3>3
        <4> QED  BY <3>1, <4>1 DEF CallOK, Watched
      <3> QED  BY <3>2, <3>3
    <2> QED  BY <2>1 DEF CallsOK
  <1>6. QuietOK'
    <2>1. ASSUME NEW o \in Objects, NEW who \in observers'[o], who[1] # t
          PROVE  Quiet(o, who)'
      <3>1. who \in Threads \X Nat
        BY <1>1
      <3>2. who \in observers[o] /\ who[1] \in Threads \ {t}
        BY <2>1, <3>1
      <3>3. Quiet(o, who)
        BY <3>2 DEF SyncInv, QuietOK
      <3> QED  BY <3>2, <3>3 DEF Quiet, Watched
    <2> QED  BY <2>1 DEF QuietOK
  <1>7. ASSUME NEW u \in Threads \ {t}
        PROVE  Covered(u)' /\ Explained(u)' /\ StatusOK(u)'
    <2>0. /\ pc'[u] = pc[u] /\ items'[u] = items[u] /\ ix'[u] = ix[u]
          /\ numAdded'[u] = numAdded[u] /\ event'[u] = event[u] /\ final'[u] = final[u]
          /\ pending'[u] = pending[u] /\ status'[u] = status[u]
      OBVIOUS
    <2>1. \A i \in DOMAIN items[u] : <<u, i>> \in Threads \X Nat
      BY DEF SyncInv, FrameInv, TypeOK
    <2>2. \A o \in Objects, i \in DOMAIN items[u] :
            <<u, i>> \in Refers(o)' <=> <<u, i>> \in Refers(o)
      BY <1>2, <2>1
    <2>3. Covered(u)'
      <3>1. \A i \in DOMAIN items[u] : ObjectOf[items[u][i].handle] \in Objects
        BY ItemType
      <3>2. Covered(u)
        BY DEF SyncInv, WaitersOK
      <3> QED  BY <2>0, <2>2, <3>1, <3>2 DEF Covered, Begun
    <2>4. Explained(u)'
      <3>1. Explained(u)
        BY DEF SyncInv, WaitersOK
      <3>2. \A i \in DOMAIN items[u] : Settled(u, i) => Settled(u, i)'
        BY <2>0, <2>2 DEF Settled, Begun
      <3> QED  BY <2>0, <3>1, <3>2 DEF Explained
    <2>5. StatusOK(u)'
      BY <2>0 DEF SyncInv, WaitersOK, StatusOK
    <2> QED  BY <2>3, <2>4, <2>5
  <1>8. WaitersOK'
    BY <1>7 DEF WaitersOK
  <1> QED  BY <1>3, <1>4, <1>5, <1>6, <1>8 DEF SyncInv, LinkInv

(* A thread outside the calls, or done with them, is not referred to.      *)
LEMMA Unreferred ==
  ASSUME SyncInv, NEW t \in Threads,
         \/ pc[t] = "idle"
         \/ pc[t] = "end" /\ ix[t] > Len(items[t])
         \/ pc[t] = "unwind" /\ ix[t] > numAdded[t]
  PROVE  \A o \in Objects : \A who \in Refers(o) : who[1] # t
  <1> SUFFICES ASSUME NEW o \in Objects, NEW who \in Refers(o), who[1] = t
               PROVE  FALSE
    OBVIOUS
  <1>1. who[2] \in DOMAIN items[t] /\ Alive(who)
    BY RefFacts DEF RefOK
  <1>2. who[2] \in Nat /\ who[2] > 0 /\ who[2] <= Len(items[t])
    BY <1>1, ItemType
  <1>3. ix[t] \in Nat /\ numAdded[t] \in Nat /\ Len(items[t]) \in Nat
    BY DEF SyncInv, FrameInv, TypeOK
  <1> QED  BY <1>1, <1>2, <1>3 DEF Alive

LEMMA EnterInv ==
  ASSUME SyncInv, NEW t \in Threads, NEW list \in ItemLists[t], Enter(t, list)
  PROVE  SyncInv'
  <1>1. FrameInv'
    BY FrameEnter
  <1>2. \A o \in Objects : \A who \in Refers(o) : who[1] # t
    BY Unreferred DEF Enter
  <1>3. \A o \in Objects : Refers(o)' = Refers(o)
    BY DEF Enter, objVars, Refers
  <1>4. \A o \in Objects : \A call \in callbacks[o] : call.who \in Refers(o)
    BY DEF Refers
  <1>5. /\ items'[t] = list /\ pc'[t] = "begin" /\ ix'[t] = 1
        /\ event'[t] = "none" /\ list \in Seq(WaitItems)
    BY SyncWaitAssumption DEF SyncInv, FrameInv, TypeOK, Enter, Goto
  <1>6. Covered(t)' /\ Explained(t)' /\ StatusOK(t)'
    BY <1>5 DEF Covered, Explained, StatusOK, Begun
  <1>7. \A u \in Threads \ {t} :
          /\ pc'[u] = pc[u] /\ items'[u] = items[u] /\ ix'[u] = ix[u]
          /\ numAdded'[u] = numAdded[u] /\ event'[u] = event[u] /\ final'[u] = final[u]
          /\ pending'[u] = pending[u] /\ status'[u] = status[u]
    BY DEF SyncInv, FrameInv, TypeOK, Enter, Goto
  <1>8. UNCHANGED <<signals, observers, callbacks, handle>>
    BY DEF Enter, objVars
  <1>9. \A o \in Objects : observers[o] \subseteq Refers(o)
    BY DEF Refers
  <1> HIDE DEF SyncInv, FrameInv, RefOK, Quiet, Covered, Explained, StatusOK
  <1> QED  BY <1>1, <1>2, <1>3, <1>4, <1>6, <1>7, <1>8, <1>9, ThreadStep

LEMMA LeaveInv ==
  ASSUME SyncInv, NEW t \in Threads, NEW result \in Results, Leave(t, result),
         \A o \in Objects : \A who \in Refers(o) : who[1] # t
  PROVE  SyncInv'
  <1>1. FrameInv'
    BY FrameLeave
  <1>3. \A o \in Objects : Refers(o)' = Refers(o)
    BY DEF Leave, objVars, Refers
  <1>4. \A o \in Objects : \A call \in callbacks[o] : call.who \in Refers(o)
    BY DEF Refers
  <1>5. pc'[t] = "idle" /\ event'[t] = "none"
    BY DEF SyncInv, FrameInv, TypeOK, Leave, Goto
  <1>6. Covered(t)' /\ Explained(t)' /\ StatusOK(t)'
    BY <1>5 DEF Covered, Explained, StatusOK
  <1>7. \A u \in Threads \ {t} :
          /\ pc'[u] = pc[u] /\ items'[u] = items[u] /\ ix'[u] = ix[u]
          /\ numAdded'[u] = numAdded[u] /\ event'[u] = event[u] /\ final'[u] = final[u]
          /\ pending'[u] = pending[u] /\ status'[u] = status[u]
    BY DEF SyncInv, FrameInv, TypeOK, Leave, Goto
  <1>8. UNCHANGED <<signals, observers, callbacks, handle>>
    BY DEF Leave, objVars
  <1>9. \A o \in Objects : observers[o] \subseteq Refers(o)
    BY DEF Refers
  <1> QED  BY <1>1, <1>3, <1>4, <1>6, <1>7, <1>8, <1>9, ThreadStep

LEMMA ReturnInv ==
  ASSUME SyncInv, NEW t \in Threads, Return(t)
  PROVE  SyncInv'
  <1>1. \A o \in Objects : \A who \in Refers(o) : who[1] # t
    BY Unreferred DEF Return
  <1>2. PICK result \in Results : Leave(t, result)
    BY DEF Return, SyncInv, FrameInv, TypeOK, Results
  <1> QED  BY <1>1, <1>2, LeaveInv

LEMMA UnwoundInv ==
  ASSUME SyncInv, NEW t \in Threads, Unwound(t)
  PROVE  SyncInv'
  <1>1. \A o \in Objects : \A who \in Refers(o) : who[1] # t
    BY Unreferred DEF Unwound
  <1>2. PICK result \in Results : Leave(t, result)
    BY DEF Unwound, SyncInv, FrameInv, TypeOK
  <1> QED  BY <1>1, <1>2, LeaveInv

(* A step of a thread that leaves its items and observers alone: its       *)
(* observers stay alive.                                                   *)
LEMMA MoveInv ==
  ASSUME SyncInv, FrameInv', NEW t \in Threads,
         UNCHANGED <<objVars, handle, items, event, final, pending>>,
         \A u \in Threads \ {t} :
           /\ pc'[u] = pc[u] /\ ix'[u] = ix[u] /\ numAdded'[u] = numAdded[u]
           /\ status'[u] = status[u],
         \A i \in DOMAIN items[t] : Alive(<<t, i>>) => Alive(<<t, i>>)',
         \A i \in DOMAIN items[t] : Begun(t, i) => Begun(t, i)',
         pc'[t] = "end" => ix'[t] = 1,
         Covered(t)', StatusOK(t)'
  PROVE  SyncInv'
  <1>1. \A o \in Objects : Refers(o)' = Refers(o)
    BY DEF objVars, Refers
  <1>2. \A o \in Objects : \A who \in Refers(o)' : who[1] = t => RefOK(o, who)'
    <2> SUFFICES ASSUME NEW o \in Objects, NEW who \in Refers(o), who[1] = t
                 PROVE  RefOK(o, who)'
      BY <1>1
    <2>1. RefOK(o, who) /\ who = <<t, who[2]>>
      BY RefFacts
    <2>2. Alive(who)'
      BY <2>1 DEF RefOK
    <2> QED  BY <2>1, <2>2 DEF RefOK, Watched
  <1>3. \A o \in Objects : \A who \in observers'[o] : who[1] = t => Quiet(o, who)'
    BY DEF SyncInv, QuietOK, Quiet, Watched, objVars
  <1>4. Explained(t)'
    <2>1. \A i \in DOMAIN items[t] : Settled(t, i) => Settled(t, i)'
      <3>1. \A i \in DOMAIN items[t] : i > 0 /\ i \in Nat
        BY ItemType
      <3> QED  BY <1>1, <3>1 DEF Settled
    <2> QED  BY <2>1 DEF SyncInv, WaitersOK, Explained
  <1>5. \A o \in Objects : \A call \in callbacks[o] : call.who \notin observers[o]
    BY DEF SyncInv, LinkInv, OnceOK
  <1>6. UNCHANGED <<signals, observers, callbacks, handle>>
    BY DEF objVars
  <1> HIDE DEF SyncInv, FrameInv, RefOK, Quiet, Covered, Explained, StatusOK
  <1> QED  BY <1>2, <1>3, <1>4, <1>5, <1>6, ThreadStep

LEMMA BeginFailsInv ==
  ASSUME SyncInv, NEW t \in Threads, BeginFails(t)
  PROVE  SyncInv'
  <1>1. FrameInv'
    BY FrameBeginFails
  <1>2. /\ pc[t] = "begin" /\ pc'[t] = "unwind" /\ ix'[t] = 1
        /\ numAdded'[t] = ix[t] - 1 /\ ix[t] \in Nat /\ ix[t] > 0
        /\ \A u \in Threads \ {t} :
              pc'[u] = pc[u] /\ ix'[u] = ix[u] /\ numAdded'[u] = numAdded[u]
           /\ status'[u] = status[u]
    BY DEF SyncInv, FrameInv, TypeOK, IndexOK, BeginFails, Goto
  <1>3. \A i \in DOMAIN items[t] : i \in Nat /\ i > 0
    BY ItemType
  <1>4. \A i \in DOMAIN items[t] : Alive(<<t, i>>) => Alive(<<t, i>>)'
    BY <1>2, <1>3 DEF Alive
  <1>5. Covered(t)' /\ StatusOK(t)' /\ \A i \in DOMAIN items[t] : Begun(t, i)'
    BY <1>2 DEF Covered, StatusOK, Begun
  <1>6. UNCHANGED <<objVars, handle, items, event, final, pending>>
    BY DEF BeginFails
  <1> QED  BY <1>1, <1>2, <1>4, <1>5, <1>6, MoveInv

LEMMA BeginDoneInv ==
  ASSUME SyncInv, NEW t \in Threads, BeginDone(t)
  PROVE  SyncInv'
  <1>1. FrameInv'
    BY FrameBeginDone
  <1>2. /\ pc[t] = "begin" /\ pc'[t] = "wait" /\ ix[t] > Len(items[t])
        /\ ix[t] \in Nat /\ Len(items[t]) \in Nat
        /\ \A u \in Threads \ {t} : pc'[u] = pc[u]
    BY DEF SyncInv, FrameInv, TypeOK, BeginDone, Goto
  <1>3. UNCHANGED <<objVars, handle, items, ix, numAdded, event, final, pending, status>>
    BY DEF BeginDone, waitVars
  <1>4. \A i \in DOMAIN items[t] : Begun(t, i) /\ Begun(t, i)'
    BY <1>2, ItemType DEF Begun
  <1>5. \A i \in DOMAIN items[t] : Alive(<<t, i>>)'
    BY <1>2 DEF Alive
  <1>6. Covered(t)'
    <2>1. Covered(t)
      BY DEF SyncInv, WaitersOK
    <2>2. \A o : Refers(o)' = Refers(o)
      BY <1>3 DEF Refers, objVars
    <2> QED  BY <1>2, <1>3, <1>4, <2>1, <2>2 DEF Covered
  <1>7. StatusOK(t)'
    BY <1>2 DEF StatusOK
  <1> QED  BY <1>1, <1>2, <1>3, <1>4, <1>5, <1>6, <1>7, MoveInv

LEMMA WakesInv ==
  ASSUME SyncInv, NEW t \in Threads,
         NEW result \in {"OK", "CANCELED", "TIMED_OUT", "INTERRUPTED"}, Wakes(t, result)
  PROVE  SyncInv'
  <1>1. FrameInv'
    BY FrameWakes
  <1>2. /\ pc[t] = "wait" /\ pc'[t] = "end" /\ ix'[t] = 1 /\ status'[t] = result
        /\ \A u \in Threads \ {t} :
              pc'[u] = pc[u] /\ ix'[u] = ix[u] /\ numAdded'[u] = numAdded[u]
           /\ status'[u] = status[u]
    BY DEF SyncInv, FrameInv, TypeOK, Wakes, Goto
  <1>3. UNCHANGED <<objVars, handle, items, numAdded, event, final, pending>>
    BY DEF Wakes
  <1>4. \A i \in DOMAIN items[t] : Alive(<<t, i>>)' /\ Begun(t, i)'
    BY <1>2, ItemType DEF Alive, Begun
  <1>5. Covered(t)' /\ StatusOK(t)'
    BY <1>2, <1>3 DEF Covered, StatusOK, Wakes
  <1> QED  BY <1>1, <1>2, <1>3, <1>4, <1>5, MoveInv

(* Adding an observer, or finding its signals up already.                  *)
LEMMA BeginInv ==
  ASSUME SyncInv, NEW t \in Threads, Begin(t)
  PROVE  SyncInv'
  <1> DEFINE o == ObjectOf[Item(t).handle]
             me == <<t, ix[t]>>
  <1>1. FrameInv'
    BY FrameBegin
  <1>2. /\ pc[t] = "begin" /\ o \in Objects
        /\ ix[t] \in DOMAIN items[t] /\ ix[t] \in DOMAIN final[t]
        /\ ix[t] > 0 /\ ix[t] <= Len(items[t])
        /\ handle[Item(t).handle] = "open"
        /\ callbacks[o] = {}
        /\ ix' = [ix EXCEPT ![t] = ix[t] + 1]
        /\ UNCHANGED <<signals, callbacks, handle, pc, items, numAdded, pending, status>>
    BY BeginFacts
  <1>3. \/ /\ signals[o] \cap Item(t).waitfor # {}
           /\ final' = [final EXCEPT ![t][ix[t]] = signals[o]]
           /\ event' = [event EXCEPT ![t] = IF @ = "none" THEN "OK" ELSE @]
           /\ UNCHANGED observers
        \/ /\ signals[o] \cap Item(t).waitfor = {}
           /\ observers' = [observers EXCEPT ![o] = @ \cup {me}]
           /\ UNCHANGED <<final, event>>
    BY BeginFacts
  <1>4. /\ ix \in [Threads -> Nat] /\ event \in [Threads -> {"none", "OK", "CANCELED"}]
        /\ observers \in [Objects -> SUBSET (Threads \X Nat)]
        /\ final \in [Threads -> Seq(Flags)]
    BY DEF SyncInv, FrameInv, TypeOK
  <1>5. Item(t) = items[t][ix[t]] /\ Watched(me) = items[t][ix[t]]
    BY DEF Item, Watched
  <1>0. \A i \in DOMAIN final[t] : i # ix[t] => final'[t][i] = final[t][i]
    <2>1. CASE final' = [final EXCEPT ![t][ix[t]] = signals[o]]
      <3>1. final'[t] = [final[t] EXCEPT ![ix[t]] = signals[o]]
        BY <1>4, <2>1
      <3> QED  BY <3>1
    <2> QED  BY <1>3, <2>1
  <1> HIDE DEF o
  <1>6. \A p \in Objects : me \notin Refers(p)
    <2> SUFFICES ASSUME NEW p \in Objects, me \in Refers(p) PROVE FALSE
      OBVIOUS
    <2>1. Alive(me)
      BY RefFacts DEF RefOK
    <2> QED  BY <1>2, <1>4, <2>1 DEF Alive
  <1>7. \A p \in Objects : Refers(p)' \subseteq Refers(p) \cup {me}
    BY <1>2, <1>3, <1>4 DEF Refers
  <1>8. \A p \in Objects : Refers(p) \subseteq Refers(p)'
    BY <1>2, <1>3, <1>4 DEF Refers
  <1>9. \A p \in Objects : me \in Refers(p)' => p = o /\ me \in observers'[o]
    BY <1>2, <1>3, <1>4, <1>6 DEF Refers
  <1>10. ix'[t] = ix[t] + 1
    BY <1>2, <1>4
  <1>11. \A p \in Objects : \A who \in Refers(p)' : who[1] = t => RefOK(p, who)'
    <2> SUFFICES ASSUME NEW p \in Objects, NEW who \in Refers(p)', who[1] = t
                 PROVE  RefOK(p, who)'
      OBVIOUS
    <2>1. CASE who = me
      <3>1. p = o
        BY <1>9, <2>1
      <3> QED  BY <1>2, <1>4, <1>5, <1>10, <2>1, <3>1 DEF RefOK, Alive, Watched, o
    <2>2. CASE who # me
      <3>1. who \in Refers(p)
        BY <1>7, <2>2
      <3>2. RefOK(p, who) /\ who[2] \in Nat
        BY <3>1, RefFacts
      <3> QED  BY <1>2, <1>4, <1>10, <3>2 DEF RefOK, Alive, Watched
    <2> QED  BY <2>1, <2>2
  <1>12. \A p \in Objects : \A who \in observers'[p] : who[1] = t => Quiet(p, who)'
    <2> SUFFICES ASSUME NEW p \in Objects, NEW who \in observers'[p]
                 PROVE  Quiet(p, who)'
      OBVIOUS
    <2>1. CASE who \in observers[p]
      <3>1. Quiet(p, who)
        BY <2>1 DEF SyncInv, QuietOK
      <3> QED  BY <1>2, <3>1 DEF Quiet, Watched
    <2>2. CASE who \notin observers[p]
      <3>1. who = me /\ p = o /\ signals[o] \cap Item(t).waitfor = {}
        BY <1>2, <1>3, <1>4, <2>2
      <3> QED  BY <1>2, <1>5, <3>1 DEF Quiet, Watched
    <2> QED  BY <2>1, <2>2
  <1>13. \A p \in Objects : \A call \in callbacks[p] : call.who[1] = t =>
           /\ call.who \notin observers'[p]
           /\ final'[t][call.who[2]] = final[t][call.who[2]]
    <2> SUFFICES ASSUME NEW p \in Objects, NEW call \in callbacks[p], call.who[1] = t
                 PROVE  /\ call.who \notin observers'[p]
                        /\ final'[t][call.who[2]] = final[t][call.who[2]]
      OBVIOUS
    <2>1. /\ call.who \in Refers(p) /\ call.who = <<t, call.who[2]>>
          /\ call.who[2] \in DOMAIN final[t]
      BY CallFacts
    <2>2. call.who # me /\ call.who[2] # ix[t]
      BY <1>6, <2>1
    <2>3. call.who \notin observers[p]
      BY DEF SyncInv, LinkInv, OnceOK
    <2>4. call.who \notin observers'[p]
      BY <1>3, <1>4, <2>2, <2>3
    <2> QED  BY <1>0, <2>1, <2>2, <2>4
  <1>14. Covered(t)'
    <2> SUFFICES ASSUME event'[t] = "none", NEW i \in DOMAIN items[t], i < ix[t] + 1
                 PROVE  <<t, i>> \in Refers(ObjectOf[items[t][i].handle])'
      BY <1>2, <1>10 DEF Covered, Begun
    <2>1. event[t] = "none" /\ observers' = [observers EXCEPT ![o] = @ \cup {me}]
      BY <1>3, <1>4
    <2>2. ObjectOf[items[t][i].handle] \in Objects /\ i \in Nat
      BY ItemType
    <2>3. CASE i = ix[t]
      BY <1>2, <1>4, <1>5, <2>1, <2>3 DEF Refers, o
    <2>4. CASE i < ix[t]
      <3>0. Covered(t)
        BY DEF SyncInv, WaitersOK
      <3>1. <<t, i>> \in Refers(ObjectOf[items[t][i].handle])
        BY <1>2, <2>1, <2>4, <3>0 DEF Covered, Begun
      <3>2. \A p \in Objects : <<t, i>> \in Refers(p) => <<t, i>> \in Refers(p)'
        BY <1>8
      <3>3. items' = items
        BY <1>2
      <3> HIDE DEF me
      <3> QED  BY <2>2, <3>1, <3>2, <3>3
    <2>5. ix[t] \in Nat
      BY <1>4
    <2> QED  BY <2>2, <2>3, <2>4, <2>5
  <1>15. Explained(t)'
    <2>1. CASE event[t] # "none"
      <3>1. PICK i \in DOMAIN items[t] : Settled(t, i)
        BY <2>1 DEF SyncInv, WaitersOK, Explained
      <3>2. i < ix[t] /\ i \in Nat /\ <<t, i>> # me
        BY <1>2, <3>1, ItemType DEF Settled, Begun
      <3>3. final'[t][i] = final[t][i] /\ event'[t] = event[t]
        <4>1. i \in DOMAIN final[t] /\ i # ix[t]
          BY <1>4, <3>2 DEF SyncInv, FrameInv, TypeOK, LocalsOK
        <4>2. event'[t] = event[t]
          BY <1>3, <1>4, <2>1
        <4> QED  BY <1>0, <4>1, <4>2
      <3>4. \A p \in Objects : <<t, i>> \notin Refers(p)'
        BY <1>7, <3>1, <3>2 DEF Settled
      <3>5. Settled(t, i)'
        <4>1. ix[t] \in Nat
          BY <1>4
        <4>2. Begun(t, i)'
          BY <1>10, <3>2, <4>1 DEF Begun
        <4> QED  BY <1>2, <3>1, <3>3, <3>4, <4>2 DEF Settled
      <3> QED  BY <1>2, <3>5 DEF Explained
    <2>2. CASE event[t] = "none" /\ event'[t] # "none"
      <3>1. /\ signals[o] \cap Item(t).waitfor # {}
            /\ final' = [final EXCEPT ![t][ix[t]] = signals[o]]
            /\ observers' = observers
            /\ event'[t] = "OK"
        BY <1>3, <1>4, <2>2
      <3>2. final'[t][ix[t]] = signals[o]
        BY <1>2, <1>4, <3>1
      <3>3. \A p \in Objects : me \notin Refers(p)'
        BY <1>2, <1>6, <3>1 DEF Refers
      <3>4. PICK i \in DOMAIN items[t] : i = ix[t]
        BY <1>2
      <3>5. Begun(t, i)'
        BY <1>4, <1>10, <3>4 DEF Begun
      <3>6. Settled(t, i)'
        BY <1>2, <1>5, <3>1, <3>2, <3>3, <3>4, <3>5 DEF Settled
      <3> QED  BY <1>2, <3>6 DEF Explained
    <2> QED  BY <2>1, <2>2 DEF Explained
  <1>16. StatusOK(t)'
    BY <1>2 DEF StatusOK
  <1>17. \A p \in Objects : \A who \in Threads \X Nat :
           who[1] # t => (who \in observers'[p] <=> who \in observers[p])
    <2>1. CASE observers' = [observers EXCEPT ![o] = @ \cup {me}]
      <3> SUFFICES ASSUME NEW p \in Objects, NEW who \in Threads \X Nat, who[1] # t
                   PROVE  who \in observers'[p] <=> who \in observers[p]
        OBVIOUS
      <3>1. who # me
        OBVIOUS
      <3> QED  BY <1>4, <2>1, <3>1
    <2> QED  BY <1>3, <2>1
  <1>18. \A u \in Threads \ {t} :
           /\ pc'[u] = pc[u] /\ items'[u] = items[u] /\ ix'[u] = ix[u]
           /\ numAdded'[u] = numAdded[u] /\ event'[u] = event[u] /\ final'[u] = final[u]
           /\ pending'[u] = pending[u] /\ status'[u] = status[u]
    BY <1>2, <1>3, <1>4
  <1> HIDE DEF SyncInv, FrameInv, RefOK, Quiet, Covered, Explained, StatusOK
  <1> QED
    BY <1>1, <1>2, <1>11, <1>12, <1>13, <1>14, <1>15, <1>16, <1>17, <1>18, ThreadStep

(* End takes the lock of the object, so afterwards nothing refers to the   *)
(* observer.                                                               *)
LEMMA Removal ==
  ASSUME SyncInv, NEW t \in Threads, ix[t] > 0, ix[t] <= Len(items[t]),
         NEW o, o = ObjectOf[Item(t).handle], callbacks[o] = {},
         observers' = [observers EXCEPT ![o] = @ \ {<<t, ix[t]>>}],
         callbacks' = callbacks
  PROVE  /\ \A p \in Objects : observers'[p] \subseteq observers[p]
         /\ \A p \in Objects : Refers(p)' \subseteq Refers(p)
         /\ \A p \in Objects : <<t, ix[t]>> \notin Refers(p)'
         /\ \A p \in Objects : \A who \in Threads \X Nat :
              who[1] # t => (who \in observers'[p] <=> who \in observers[p])
  <1>1. observers \in [Objects -> SUBSET (Threads \X Nat)]
    BY DEF SyncInv, FrameInv, TypeOK
  <1>2. \A p \in Objects : observers'[p] \subseteq observers[p]
    BY <1>1
  <1>3. \A p \in Objects : Refers(p)' \subseteq Refers(p)
    BY <1>2 DEF Refers
  <1>4. \A p \in Objects : <<t, ix[t]>> \notin Refers(p)'
    <2> SUFFICES ASSUME NEW p \in Objects, <<t, ix[t]>> \in Refers(p)' PROVE FALSE
      OBVIOUS
    <2>1. RefOK(p, <<t, ix[t]>>)
      BY <1>3, RefFacts
    <2>2. p = o
      BY <2>1 DEF RefOK, Watched, Item
    <2> QED  BY <1>1, <2>2 DEF Refers
  <1> QED  BY <1>1, <1>2, <1>3, <1>4

LEMMA EndInv ==
  ASSUME SyncInv, NEW t \in Threads, End(t)
  PROVE  SyncInv'
  <1> DEFINE o == ObjectOf[Item(t).handle]
             me == <<t, ix[t]>>
  <1>1. FrameInv'
    BY FrameEnd
  <1>2. /\ pc[t] = "end" /\ ix[t] <= Len(items[t])
        /\ callbacks[o] = {}
        /\ observers' = [observers EXCEPT ![o] = @ \ {me}]
        /\ pending' = [pending EXCEPT ![t][ix[t]] = EndState(t, o, me \in observers[o])]
        /\ ix' = [ix EXCEPT ![t] = ix[t] + 1]
        /\ UNCHANGED <<signals, callbacks, handle, pc, items,
                       numAdded, event, final, status>>
    BY DEF End, EndLock, Unlocked, NextItem
  <1>3. ix[t] > 0
    BY <1>2 DEF SyncInv, FrameInv, IndexOK
  <1>4. ix \in [Threads -> Nat] /\ pending \in [Threads -> Seq(Flags)]
    BY DEF SyncInv, FrameInv, TypeOK
  <1>5. o \in Objects /\ ix[t] \in DOMAIN pending[t]
    BY <1>2, <1>3, ItemFacts
  <1> HIDE DEF o
  <1>6. /\ \A p \in Objects : observers'[p] \subseteq observers[p]
        /\ \A p \in Objects : Refers(p)' \subseteq Refers(p)
        /\ \A p \in Objects : me \notin Refers(p)'
        /\ \A p \in Objects : \A who \in Threads \X Nat :
              who[1] # t => (who \in observers'[p] <=> who \in observers[p])
    BY <1>2, <1>3, Removal DEF o
  <1>7. ix'[t] = ix[t] + 1
    BY <1>2, <1>4
  <1>8. \A p \in Objects : \A who \in Refers(p)' : who[1] = t => RefOK(p, who)'
    <2> SUFFICES ASSUME NEW p \in Objects, NEW who \in Refers(p)', who[1] = t
                 PROVE  RefOK(p, who)'
      OBVIOUS
    <2>1. RefOK(p, who) /\ who = <<t, who[2]>> /\ who[2] \in Nat
      BY <1>6, RefFacts
    <2>2. who[2] # ix[t]
      BY <1>6, <2>1
    <2> QED  BY <1>2, <1>4, <1>7, <2>1, <2>2 DEF RefOK, Alive, Watched
  <1>9. \A p \in Objects : \A who \in observers'[p] : who[1] = t => Quiet(p, who)'
    BY <1>2, <1>6 DEF SyncInv, QuietOK, Quiet, Watched
  <1>10. Covered(t)' /\ StatusOK(t)'
    BY <1>2 DEF Covered, StatusOK, SyncInv, WaitersOK
  <1>11. Explained(t)'
    <2> SUFFICES ASSUME event[t] # "none"
                 PROVE  \E i \in DOMAIN items[t] : Settled(t, i)'
      BY <1>2 DEF Explained
    <2>1. PICK i \in DOMAIN items[t] : Settled(t, i)
      BY DEF SyncInv, WaitersOK, Explained
    <2>2. \A p \in Objects : <<t, i>> \notin Refers(p) /\ <<t, i>> \notin Refers(p)'
      BY <1>6, <2>1 DEF Settled
    <2>3. i \in Nat
      BY ItemType
    <2>4. i < ix[t] + 1 => pending'[t][i] = final[t][i]
      <3>1. CASE i = ix[t]
        <4>1. me \notin observers[o]
          BY <1>5, <2>2, <3>1 DEF Refers
        <4> QED  BY <1>2, <1>4, <1>5, <3>1, <4>1 DEF EndState
      <3>2. CASE i < ix[t]
        BY <1>2, <1>4, <2>1, <2>3, <3>2 DEF Settled
      <3> QED  BY <1>4, <2>3, <3>1, <3>2
    <2>5. Settled(t, i)'
      BY <1>2, <1>7, <2>1, <2>2, <2>4 DEF Settled, Begun
    <2> QED  BY <2>5
  <1>12. \A p \in Objects : \A call \in callbacks[p] : call.who \notin observers'[p]
    BY <1>6 DEF SyncInv, LinkInv, OnceOK
  <1>13. \A u \in Threads \ {t} : ix'[u] = ix[u] /\ pending'[u] = pending[u]
    BY <1>2, <1>4
  <1> HIDE DEF SyncInv, FrameInv, RefOK, Quiet, Covered, Explained, StatusOK
  <1> QED
    BY <1>1, <1>2, <1>6, <1>8, <1>9, <1>10, <1>11, <1>12, <1>13, ThreadStep

LEMMA UnwindInv ==
  ASSUME SyncInv, NEW t \in Threads, Unwind(t)
  PROVE  SyncInv'
  <1> DEFINE o == ObjectOf[Item(t).handle]
             me == <<t, ix[t]>>
  <1>1. FrameInv'
    BY FrameUnwind
  <1>2. /\ pc[t] = "unwind" /\ ix[t] <= numAdded[t]
        /\ callbacks[o] = {}
        /\ observers' = [observers EXCEPT ![o] = @ \ {me}]
        /\ ix' = [ix EXCEPT ![t] = ix[t] + 1]
        /\ UNCHANGED <<signals, callbacks, handle, pc, items, numAdded,
                       event, final, pending, status>>
    BY DEF Unwind, EndLock, Unlocked, NextItem
  <1>3. ix[t] > 0 /\ ix[t] <= Len(items[t])
    BY <1>2 DEF SyncInv, FrameInv, TypeOK, IndexOK
  <1>4. ix \in [Threads -> Nat] /\ numAdded \in [Threads -> Nat]
    BY DEF SyncInv, FrameInv, TypeOK
  <1>5. /\ \A p \in Objects : observers'[p] \subseteq observers[p]
        /\ \A p \in Objects : Refers(p)' \subseteq Refers(p)
        /\ \A p \in Objects : me \notin Refers(p)'
        /\ \A p \in Objects : \A who \in Threads \X Nat :
              who[1] # t => (who \in observers'[p] <=> who \in observers[p])
    BY <1>2, <1>3, Removal
  <1> HIDE DEF o
  <1>6. ix'[t] = ix[t] + 1
    BY <1>2, <1>4
  <1>7. \A p \in Objects : \A who \in Refers(p)' : who[1] = t => RefOK(p, who)'
    <2> SUFFICES ASSUME NEW p \in Objects, NEW who \in Refers(p)', who[1] = t
                 PROVE  RefOK(p, who)'
      OBVIOUS
    <2>1. RefOK(p, who) /\ who = <<t, who[2]>> /\ who[2] \in Nat
      BY <1>5, RefFacts
    <2>2. who[2] # ix[t]
      BY <1>5, <2>1
    <2> QED  BY <1>2, <1>4, <1>6, <2>1, <2>2 DEF RefOK, Alive, Watched
  <1>8. \A p \in Objects : \A who \in observers'[p] : who[1] = t => Quiet(p, who)'
    BY <1>2, <1>5 DEF SyncInv, QuietOK, Quiet, Watched
  <1>9. Covered(t)' /\ StatusOK(t)'
    BY <1>2 DEF Covered, StatusOK
  <1>10. Explained(t)'
    <2>1. \A i \in DOMAIN items[t] : Settled(t, i) => Settled(t, i)'
      BY <1>2, <1>5 DEF Settled, Begun
    <2> QED  BY <1>2, <2>1 DEF SyncInv, WaitersOK, Explained
  <1>11. \A p \in Objects : \A call \in callbacks[p] : call.who \notin observers'[p]
    BY <1>5 DEF SyncInv, LinkInv, OnceOK
  <1>12. \A u \in Threads \ {t} : ix'[u] = ix[u]
    BY <1>2, <1>4
  <1> HIDE DEF SyncInv, FrameInv, RefOK, Quiet, Covered, Explained, StatusOK
  <1> QED
    BY <1>1, <1>2, <1>5, <1>7, <1>8, <1>9, <1>10, <1>11, <1>12, ThreadStep
-----------------------------------------------------------------------------
(* A step that changes the lists or the calls of one object moves          *)
(* references about; the waiters that are covered stay covered.            *)
LEMMA WaitersKept ==
  ASSUME SyncInv, UNCHANGED <<pc, waitVars>>,
         \A o \in Objects : Refers(o)' = Refers(o)
  PROVE  WaitersOK' /\ RefsOK'
  <1> USE DEF waitVars
  <1>1. RefsOK'
    BY DEF SyncInv, LinkInv, RefsOK, RefOK, Alive, Watched
  <1>2. ASSUME NEW t \in Threads
        PROVE  Covered(t)' /\ Explained(t)' /\ StatusOK(t)'
    <2>1. Covered(t) /\ Explained(t) /\ StatusOK(t)
      BY DEF SyncInv, WaitersOK
    <2>2. Covered(t)'
      <3>1. \A i \in DOMAIN items[t] : ObjectOf[items[t][i].handle] \in Objects
        BY ItemType
      <3> QED  BY <2>1, <3>1 DEF Covered, Begun
    <2>3. \A i \in DOMAIN items[t] : Settled(t, i) => Settled(t, i)'
      BY DEF Settled, Begun
    <2> QED  BY <2>1, <2>2, <2>3 DEF Explained, StatusOK
  <1> QED  BY <1>1, <1>2 DEF WaitersOK

(* An unlocked object takes some observers off its list and calls them.    *)
LEMMA CallStep ==
  ASSUME SyncInv, FrameInv', QuietOK', UNCHANGED <<pc, waitVars>>,
         NEW o \in Objects, callbacks[o] = {},
         NEW chosen \in SUBSET observers[o],
         NEW flags, NEW result \in {"OK", "CANCELED"},
         callbacks' = [callbacks EXCEPT ![o] = CallAll(chosen, flags, result)],
         observers' = [observers EXCEPT ![o] = @ \ chosen],
         result = "OK" => \A who \in chosen : flags \cap Watched(who).waitfor # {},
         result = "CANCELED" => "CLOSED" \in flags
  PROVE  SyncInv'
  <1> DEFINE made == CallAll(chosen, flags, result)
  <1>1. /\ observers \in [Objects -> SUBSET (Threads \X Nat)]
        /\ callbacks \in [Objects -> SUBSET Calls]
    BY DEF SyncInv, FrameInv, TypeOK
  <1>2. \A call \in made :
          /\ call.who \in chosen /\ call.step = "store"
          /\ call.flags = flags /\ call.result = result
          /\ call = [who |-> call.who, step |-> "store", flags |-> flags, result |-> result]
    BY DEF CallAll
  <1>3. {call.who : call \in made} = chosen
    <2>1. ASSUME NEW who \in chosen
          PROVE  who \in {call.who : call \in made}
      <3> DEFINE c == [who |-> who, step |-> "store", flags |-> flags, result |-> result]
      <3>1. c \in made /\ c.who = who
        BY DEF CallAll
      <3> HIDE DEF c
      <3> QED  BY <3>1
    <2> QED  BY <1>2, <2>1
  <1> HIDE DEF made
  <1>4. /\ callbacks'[o] = made /\ observers'[o] = observers[o] \ chosen
        /\ \A p \in Objects \ {o} : callbacks'[p] = callbacks[p] /\ observers'[p] = observers[p]
    BY <1>1 DEF made
  <1>5. \A p \in Objects : Refers(p)' = Refers(p)
    <2>1. Refers(o)' = Refers(o)
      BY <1>3, <1>4 DEF Refers
    <2>2. \A p \in Objects \ {o} : Refers(p)' = Refers(p)
      BY <1>4 DEF Refers
    <2> QED  BY <2>1, <2>2
  <1>6. WaitersOK' /\ RefsOK'
    BY <1>5, WaitersKept
  <1>7. OnceOK'
    <2>1. ASSUME NEW call \in made
          PROVE  /\ call.who \notin observers'[o]
                 /\ \A other \in made : other.who = call.who => other = call
      BY <1>2, <1>4
    <2>2. ASSUME NEW p \in Objects \ {o}, NEW call \in callbacks'[p]
          PROVE  /\ call.who \notin observers'[p]
                 /\ \A other \in callbacks'[p] : other.who = call.who => other = call
      BY <1>4 DEF SyncInv, LinkInv, OnceOK
    <2> QED  BY <1>4, <2>1, <2>2 DEF OnceOK
  <1>8. CallsOK'
    <2>1. ASSUME NEW call \in made
          PROVE  CallOK(call)'
      BY <1>2 DEF CallOK, Watched, waitVars
    <2>2. ASSUME NEW p \in Objects \ {o}, NEW call \in callbacks'[p]
          PROVE  CallOK(call)'
      <3>1. CallOK(call)
        BY <1>4 DEF SyncInv, LinkInv, CallsOK
      <3> QED  BY <3>1 DEF CallOK, Watched, waitVars
    <2> QED  BY <1>4, <2>1, <2>2 DEF CallsOK
  <1> QED  BY <1>6, <1>7, <1>8 DEF SyncInv, LinkInv

LEMMA UpdateStateInv ==
  ASSUME SyncInv, NEW o \in Objects, NEW new \in SUBSET Signals, UpdateState(o, new)
  PROVE  SyncInv'
  <1> DEFINE matched == {who \in observers[o] : Watched(who).waitfor \cap new # {}}
  <1>1. FrameInv'
    BY FrameUpdateState
  <1>2. /\ callbacks[o] = {}
        /\ signals' = [signals EXCEPT ![o] = new]
        /\ callbacks' = [callbacks EXCEPT ![o] = CallAll(matched, new, "OK")]
        /\ observers' = [observers EXCEPT ![o] = @ \ matched]
        /\ UNCHANGED <<handle, pc, waitVars>>
    BY DEF UpdateState, Unlocked
  <1>3. signals \in [Objects -> SUBSET Signals] /\ observers \in [Objects -> SUBSET (Threads \X Nat)]
    BY DEF SyncInv, FrameInv, TypeOK
  <1>4. QuietOK'
    <2> SUFFICES ASSUME NEW p \in Objects, NEW who \in observers'[p]
                 PROVE  Quiet(p, who)'
      BY DEF QuietOK
    <2>1. who \in observers[p] /\ (p = o => who \notin matched)
      BY <1>2, <1>3
    <2>2. Quiet(p, who)
      BY <2>1 DEF SyncInv, QuietOK
    <2>3. CASE p = o
      <3>1. signals'[p] = new /\ Watched(who).waitfor \cap new = {}
        BY <1>2, <1>3, <2>1, <2>3
      <3> QED  BY <1>2, <2>2, <3>1 DEF Quiet, Watched, waitVars
    <2>4. CASE p # o
      BY <1>2, <1>3, <2>2, <2>4 DEF Quiet, Watched, waitVars
    <2> QED  BY <2>3, <2>4
  <1>5. \A who \in matched : new \cap Watched(who).waitfor # {}
    OBVIOUS
  <1>6. matched \in SUBSET observers[o]
    OBVIOUS
  <1> HIDE DEF matched
  <1> QED  BY <1>1, <1>2, <1>4, <1>5, <1>6, CallStep

LEMMA CancelInv ==
  ASSUME SyncInv, NEW h \in Handles, Cancel(h)
  PROVE  SyncInv'
  <1> DEFINE o == ObjectOf[h]
             mine == {who \in observers[o] : Watched(who).handle = h}
             flags == signals[o] \cup {"CLOSED"}
  <1>1. FrameInv'
    BY FrameCancel
  <1>2. /\ callbacks[o] = {}
        /\ handle' = [handle EXCEPT ![h] = "closed"]
        /\ callbacks' = [callbacks EXCEPT ![o] = CallAll(mine, flags, "CANCELED")]
        /\ observers' = [observers EXCEPT ![o] = @ \ mine]
        /\ UNCHANGED <<signals, pc, waitVars>>
    BY DEF Cancel, Unlocked
  <1>3. o \in Objects
    BY SyncWaitAssumption
  <1>4. /\ handle \in [Handles -> {"open", "removed", "closed"}]
        /\ observers \in [Objects -> SUBSET (Threads \X Nat)]
    BY DEF SyncInv, FrameInv, TypeOK
  <1>5. QuietOK'
    <2> SUFFICES ASSUME NEW p \in Objects, NEW who \in observers'[p]
                 PROVE  Quiet(p, who)'
      BY DEF QuietOK
    <2>1. who \in observers[p] /\ (p = o => who \notin mine)
      BY <1>2, <1>3, <1>4
    <2>2. Quiet(p, who)
      BY <2>1 DEF SyncInv, QuietOK
    <2>3. Watched(who).handle \in Handles /\ ObjectOf[Watched(who).handle] = p
      BY <2>1, RefFacts DEF Refers, RefOK
    <2>4. Watched(who).handle # h
      BY <2>1, <2>3
    <2>5. handle'[Watched(who).handle] = handle[Watched(who).handle]
      BY <1>2, <1>4, <2>3, <2>4
    <2> QED  BY <1>2, <2>2, <2>5 DEF Quiet, Watched, waitVars
  <1>6. mine \in SUBSET observers[o] /\ "CLOSED" \in flags
    OBVIOUS
  <1> HIDE DEF mine, flags, o
  <1> QED  BY <1>1, <1>2, <1>3, <1>5, <1>6, CallStep

LEMMA RemoveHandleInv ==
  ASSUME SyncInv, NEW h \in Handles, RemoveHandle(h)
  PROVE  SyncInv'
  <1>1. FrameInv'
    BY FrameRemoveHandle
  <1>2. UNCHANGED <<signals, observers, callbacks, pc, waitVars>>
    BY DEF RemoveHandle, objVars
  <1>3. \A o \in Objects : Refers(o)' = Refers(o)
    BY <1>2 DEF Refers
  <1>4. WaitersOK' /\ RefsOK'
    BY <1>2, <1>3, WaitersKept
  <1>5. OnceOK'
    BY <1>2 DEF SyncInv, LinkInv, OnceOK
  <1>6. CallsOK'
    BY <1>2 DEF SyncInv, LinkInv, CallsOK, CallOK, Watched, waitVars
  <1>7. QuietOK'
    <2> SUFFICES ASSUME NEW p \in Objects, NEW who \in observers[p]
                 PROVE  Quiet(p, who)'
      BY <1>2 DEF QuietOK
    <2>1. Quiet(p, who)
      BY DEF SyncInv, QuietOK
    <2>2. Watched(who).handle \in Handles
      BY RefFacts DEF Refers
    <2>3. handle'[Watched(who).handle] # "closed"
      BY <2>1, <2>2 DEF Quiet, RemoveHandle, SyncInv, FrameInv, TypeOK
    <2> QED  BY <1>2, <2>1, <2>3 DEF Quiet, Watched, waitVars
  <1> QED  BY <1>1, <1>4, <1>5, <1>6, <1>7 DEF SyncInv, LinkInv

(* What the callback writes is what it still refers to.                    *)
LEMMA StoreInv ==
  ASSUME SyncInv, NEW o \in Objects, Store(o)
  PROVE  SyncInv'
  <1>1. FrameInv'
    BY FrameStore
  <1>2. PICK call \in callbacks[o] :
           /\ call.step = "store"
           /\ \A c \in callbacks[o] : c.step = "store"
           /\ final' = [final EXCEPT ![call.who[1]] =
                          [@ EXCEPT ![call.who[2]] = call.flags]]
           /\ callbacks' = [callbacks EXCEPT ![o] =
                (@ \ {call}) \cup {[call EXCEPT !.step = "signal"]}]
           /\ UNCHANGED <<signals, observers, handle, pc, items, ix,
                          numAdded, event, pending, status>>
    BY StoreFacts
  <1>3. /\ call \in Calls
        /\ call.who[1] \in Threads
        /\ call.who[2] \in DOMAIN final[call.who[1]]
        /\ call.who = <<call.who[1], call.who[2]>>
        /\ call.who \in Refers(o)
    BY CallFacts
  <1>4. final \in [Threads -> Seq(Flags)] /\ callbacks \in [Objects -> SUBSET Calls]
    BY DEF SyncInv, FrameInv, TypeOK
  <1> DEFINE done == [call EXCEPT !.step = "signal"]
  <1>5. /\ done.who = call.who /\ done.flags = call.flags
        /\ done.result = call.result /\ done.step = "signal"
    BY <1>3 DEF Calls
  <1> HIDE DEF done
  <1>6. callbacks'[o] = (callbacks[o] \ {call}) \cup {done}
    BY <1>2, <1>4 DEF done
  <1>7. \A p \in Objects \ {o} : callbacks'[p] = callbacks[p]
    BY <1>2, <1>4
  <1>8. \A p \in Objects : Refers(p)' = Refers(p)
    <2>1. Refers(o)' = Refers(o)
      BY <1>2, <1>5, <1>6 DEF Refers
    <2>2. \A p \in Objects \ {o} : Refers(p)' = Refers(p)
      BY <1>2, <1>7 DEF Refers
    <2> QED  BY <2>1, <2>2
  <1>9. RefsOK'
    BY <1>2, <1>8 DEF SyncInv, LinkInv, RefsOK, RefOK, Alive, Watched
  <1>10. OnceOK'
    <2>1. \A c \in callbacks[o] : c.who \notin observers[o]
      BY DEF SyncInv, LinkInv, OnceOK
    <2>2. \A c, d \in callbacks[o] : c.who = d.who => c = d
      BY DEF SyncInv, LinkInv, OnceOK
    <2>3. ASSUME NEW c \in callbacks'[o]
          PROVE  /\ c.who \notin observers'[o]
                 /\ \A d \in callbacks'[o] : d.who = c.who => d = c
      BY <1>2, <1>5, <1>6, <2>1, <2>2
    <2>4. ASSUME NEW p \in Objects \ {o}, NEW c \in callbacks'[p]
          PROVE  /\ c.who \notin observers'[p]
                 /\ \A d \in callbacks'[p] : d.who = c.who => d = c
      BY <1>2, <1>7 DEF SyncInv, LinkInv, OnceOK
    <2> QED  BY <2>3, <2>4 DEF OnceOK
  <1>11. final'[call.who[1]][call.who[2]] = call.flags
    BY <1>2, <1>3, <1>4
  <1>12. ASSUME NEW t \in Threads, NEW i \in DOMAIN final[t], <<t, i>> # call.who
         PROVE  final'[t][i] = final[t][i]
    BY <1>2, <1>3, <1>4, <1>12
  <1>13. CallsOK'
    <2> SUFFICES ASSUME NEW p \in Objects, NEW c \in callbacks'[p]
                 PROVE  CallOK(c)'
      BY DEF CallsOK
    <2>1. CASE c = done /\ p = o
      <3>1. CallOK(call)
        BY DEF SyncInv, LinkInv, CallsOK
      <3> QED  BY <1>2, <1>5, <1>11, <2>1, <3>1 DEF CallOK, Watched
    <2>2. CASE p = o /\ c # done
      <3>1. c \in callbacks[o]
        BY <1>6, <2>2
      <3>2. CallOK(c) /\ c.step = "store"
        BY <1>2, <3>1 DEF SyncInv, LinkInv, CallsOK
      <3> QED  BY <1>2, <3>2 DEF CallOK, Watched
    <2>3. CASE p # o
      <3>1. c \in callbacks[p]
        BY <1>7, <2>3
      <3>2. CallOK(c)
        BY <3>1 DEF SyncInv, LinkInv, CallsOK
      <3>3. /\ c.who[1] \in Threads /\ c.who = <<c.who[1], c.who[2]>>
            /\ c.who[2] \in DOMAIN final[c.who[1]]
            /\ ObjectOf[Watched(c.who).handle] = p
        BY <3>1, CallFacts
      <3>4. ObjectOf[Watched(call.who).handle] = o
        BY CallFacts
      <3>5. c.who # call.who
        BY <2>3, <3>3, <3>4
      <3>6. final'[c.who[1]][c.who[2]] = final[c.who[1]][c.who[2]]
        BY <1>12, <3>3, <3>5
      <3> QED  BY <1>2, <3>2, <3>6 DEF CallOK, Watched
    <2> QED  BY <2>1, <2>2, <2>3
  <1>14. QuietOK'
    BY <1>2 DEF SyncInv, QuietOK, Quiet, Watched
  <1>15. ASSUME NEW t \in Threads
         PROVE  Covered(t)' /\ Explained(t)' /\ StatusOK(t)'
    <2>1. Covered(t) /\ Explained(t) /\ StatusOK(t)
      BY DEF SyncInv, WaitersOK
    <2>2. Covered(t)'
      <3>1. \A i \in DOMAIN items[t] : ObjectOf[items[t][i].handle] \in Objects
        BY ItemType
      <3> QED  BY <1>2, <1>8, <2>1, <3>1 DEF Covered, Begun
    <2>3. \A i \in DOMAIN items[t] : Settled(t, i) => Settled(t, i)'
      <3> SUFFICES ASSUME NEW i \in DOMAIN items[t], Settled(t, i)
                   PROVE  Settled(t, i)'
        OBVIOUS
      <3>1. <<t, i>> # call.who
        BY <1>3 DEF Settled
      <3>2. i \in DOMAIN final[t]
        BY DEF SyncInv, FrameInv, TypeOK, LocalsOK
      <3>3. final'[t][i] = final[t][i]
        BY <1>12, <3>1, <3>2
      <3> QED  BY <1>2, <1>8, <3>3 DEF Settled, Begun
    <2> QED  BY <1>2, <2>1, <2>2, <2>3 DEF Explained, StatusOK
  <1> QED  BY <1>1, <1>9, <1>10, <1>13, <1>14, <1>15 DEF SyncInv, LinkInv, WaitersOK

(* The first signal is explained by the item whose callback gave it.       *)
LEMMA SignalInv ==
  ASSUME SyncInv, NEW o \in Objects, Signal(o)
  PROVE  SyncInv'
  <1>1. FrameInv'
    BY FrameSignal
  <1>2. PICK call \in callbacks[o] :
          /\ call.step = "signal"
          /\ event' = [event EXCEPT ![call.who[1]] = IF @ = "none" THEN call.result ELSE @]
          /\ callbacks' = [callbacks EXCEPT ![o] = @ \ {call}]
    BY DEF Signal, FirstSignal
  <1>3. UNCHANGED <<signals, observers, handle, pc, items, ix,
                    numAdded, final, pending, status>>
    BY DEF Signal
  <1>4. /\ call \in Calls
        /\ call.who[1] \in Threads
        /\ call.who[2] \in DOMAIN items[call.who[1]]
        /\ call.who = <<call.who[1], call.who[2]>>
        /\ call.who \in Refers(o)
        /\ ObjectOf[Watched(call.who).handle] = o
    BY CallFacts
  <1>5. event \in [Threads -> {"none", "OK", "CANCELED"}] /\ callbacks \in [Objects -> SUBSET Calls]
    BY DEF SyncInv, FrameInv, TypeOK
  <1>6. /\ callbacks'[o] = callbacks[o] \ {call}
        /\ \A p \in Objects : callbacks'[p] \subseteq callbacks[p]
        /\ \A p \in Objects \ {o} : callbacks'[p] = callbacks[p]
    BY <1>2, <1>5
  <1>7. \A p \in Objects : Refers(p)' \subseteq Refers(p)
    BY <1>3, <1>6 DEF Refers
  <1>8. \A p \in Objects : Refers(p) \subseteq Refers(p)' \cup {call.who}
    BY <1>3, <1>6 DEF Refers
  <1>9. \A p \in Objects : call.who \notin Refers(p)'
    <2> SUFFICES ASSUME NEW p \in Objects, call.who \in Refers(p)' PROVE FALSE
      OBVIOUS
    <2>1. p = o
      <3>1. RefOK(p, call.who)
        BY <1>7, RefFacts
      <3> QED  BY <1>4, <3>1 DEF RefOK
    <2>2. call.who \notin observers'[o]
      BY <1>3 DEF SyncInv, LinkInv, OnceOK
    <2>3. \A c \in callbacks'[o] : c.who # call.who
      BY <1>6 DEF SyncInv, LinkInv, OnceOK
    <2> QED  BY <2>1, <2>2, <2>3 DEF Refers
  <1>10. RefsOK'
    BY <1>3, <1>7 DEF SyncInv, LinkInv, RefsOK, RefOK, Alive, Watched
  <1>11. OnceOK'
    BY <1>3, <1>6 DEF SyncInv, LinkInv, OnceOK
  <1>12. CallsOK'
    BY <1>3, <1>6 DEF SyncInv, LinkInv, CallsOK, CallOK, Watched
  <1>13. QuietOK'
    BY <1>3 DEF SyncInv, QuietOK, Quiet, Watched
  <1>14. ASSUME NEW t \in Threads
         PROVE  Covered(t)' /\ Explained(t)' /\ StatusOK(t)'
    <2>1. Covered(t) /\ Explained(t) /\ StatusOK(t)
      BY DEF SyncInv, WaitersOK
    <2>2. event[t] # "none" => event'[t] = event[t]
      BY <1>2, <1>5
    <2>3. Covered(t)'
      <3> SUFFICES ASSUME pc[t] \in {"begin", "wait"}, event'[t] = "none",
                          NEW i \in DOMAIN items[t], Begun(t, i)
                   PROVE  <<t, i>> \in Refers(ObjectOf[items[t][i].handle])'
        BY <1>3 DEF Covered, Begun
      <3>1. event[t] = "none"
        BY <2>2
      <3>2. <<t, i>> \in Refers(ObjectOf[items[t][i].handle])
        BY <2>1, <3>1 DEF Covered
      <3>3. ObjectOf[items[t][i].handle] \in Objects
        BY ItemType
      <3>4. t # call.who[1]
        BY <1>2, <1>4, <1>5, <3>1 DEF Calls
      <3>5. <<t, i>> # call.who
        BY <3>4
      <3>6. \A p \in Objects : <<t, i>> \in Refers(p) => <<t, i>> \in Refers(p)'
        BY <1>8, <3>5
      <3> QED  BY <1>3, <3>2, <3>3, <3>6
    <2>4. CASE event[t] # "none"
      <3>1. \A i \in DOMAIN items[t] : Settled(t, i) => Settled(t, i)'
        BY <1>3, <1>7, <2>2, <2>4 DEF Settled, Begun
      <3> QED  BY <1>3, <2>1, <2>2, <2>3, <2>4, <3>1 DEF Explained, StatusOK
    <2>5. CASE event[t] = "none"
      <3>1. StatusOK(t)'
        BY <1>3, <2>1, <2>5 DEF StatusOK
      <3>2. CASE event'[t] = "none"
        BY <2>3, <3>1, <3>2 DEF Explained
      <3>3. CASE event'[t] # "none"
        <4>1. t = call.who[1] /\ event'[t] = call.result
          BY <1>2, <1>4, <1>5, <2>5, <3>3
        <4>2. PICK i \in DOMAIN items[t] : i = call.who[2]
          BY <1>4, <4>1
        <4>3. /\ final[t][i] = call.flags
              /\ call.result = "OK" => call.flags \cap items[t][i].waitfor # {}
              /\ call.result = "CANCELED" => "CLOSED" \in call.flags
          <5>1. CallOK(call)
            BY DEF SyncInv, LinkInv, CallsOK
          <5> QED  BY <1>2, <4>1, <4>2, <5>1 DEF CallOK, Watched
        <4>4. \A p \in Objects : <<t, i>> \notin Refers(p)'
          BY <1>4, <1>9, <4>1, <4>2
        <4>5. Alive(call.who)
          BY <1>4, RefFacts DEF RefOK
        <4>6. Begun(t, i) /\ ~(pc[t] = "end" /\ i < ix[t])
          <5>1. i \in Nat /\ ix[t] \in Nat
            BY ItemType DEF SyncInv, FrameInv, TypeOK
          <5> QED  BY <4>1, <4>2, <4>5, <5>1 DEF Alive, Begun
        <4>7. Settled(t, i)'
          BY <1>3, <4>1, <4>3, <4>4, <4>6 DEF Settled, Begun
        <4> QED  BY <1>3, <2>3, <3>1, <4>7 DEF Explained
      <3> QED  BY <3>2, <3>3
    <2> QED  BY <2>4, <2>5
  <1> QED  BY <1>1, <1>10, <1>11, <1>12, <1>13, <1>14 DEF SyncInv, LinkInv, WaitersOK
-----------------------------------------------------------------------------
LEMMA SyncInit ==
  ASSUME Init
  PROVE  SyncInv
  <1>1. << >> \in Seq(WaitItems) /\ << >> \in Seq(Flags) /\ Len(<< >>) = 0
    OBVIOUS
  <1>2. FrameInv
    BY <1>1 DEF Init, FrameInv, TypeOK, LocalsOK, IndexOK, Results
  <1>3. \A o \in Objects : Refers(o) = {}
    BY DEF Init, Refers
  <1>4. LinkInv /\ QuietOK
    BY <1>3 DEF Init, LinkInv, RefsOK, OnceOK, CallsOK, QuietOK
  <1>5. WaitersOK
    BY DEF Init, WaitersOK, Covered, Explained, StatusOK
  <1> QED  BY <1>2, <1>4, <1>5 DEF SyncInv

LEMMA SyncStep ==
  ASSUME SyncInv, [Next]_vars
  PROVE  SyncInv'
  <1>1. ASSUME NEW t \in Threads, NEW list \in ItemLists[t], Enter(t, list)
        PROVE  SyncInv'
    BY <1>1, EnterInv
  <1>2. ASSUME NEW t \in Threads, InCall(t)
        PROVE  SyncInv'
    BY <1>2, BeginFailsInv, BeginInv, BeginDoneInv, EndInv, ReturnInv, UnwindInv,
       UnwoundInv, WakesInv DEF InCall
  <1>3. ASSUME NEW t \in Threads, Wakes(t, "TIMED_OUT") \/ Wakes(t, "INTERRUPTED")
        PROVE  SyncInv'
    BY <1>3, WakesInv
  <1>4. ASSUME NEW o \in Objects, NEW new \in SUBSET Signals, UpdateState(o, new)
        PROVE  SyncInv'
    BY <1>4, UpdateStateInv
  <1>5. ASSUME NEW o \in Objects, Callback(o)
        PROVE  SyncInv'
    BY <1>5, StoreInv, SignalInv DEF Callback
  <1>6. ASSUME NEW h \in Handles, RemoveHandle(h) \/ Cancel(h)
        PROVE  SyncInv'
    BY <1>6, RemoveHandleInv, CancelInv
  <1>7. ASSUME UNCHANGED vars
        PROVE  SyncInv'
    <2>1. UNCHANGED <<signals, observers, callbacks, handle, pc, waitVars>>
      BY <1>7 DEF vars, objVars
    <2>2. FrameInv'
      BY <2>1 DEF SyncInv, FrameInv, TypeOK, LocalsOK, IndexOK, waitVars
    <2>3. \A o \in Objects : Refers(o)' = Refers(o)
      BY <2>1 DEF Refers
    <2>4. WaitersOK' /\ RefsOK'
      BY <2>1, <2>3, WaitersKept
    <2>5. OnceOK' /\ CallsOK' /\ QuietOK'
      BY <2>1
      DEF SyncInv, LinkInv, OnceOK, CallsOK, CallOK, QuietOK, Quiet, Watched, waitVars
    <2> QED  BY <2>2, <2>4, <2>5 DEF SyncInv, LinkInv
  <1> QED  BY <1>1, <1>2, <1>3, <1>4, <1>5, <1>6, <1>7 DEF Next

(* The inductive invariant of the synchronous waits.                       *)
THEOREM SyncInvariant == Spec => []SyncInv
  BY SyncInit, SyncStep, PTL DEF Spec

(* No observer list and no callback in progress refers to an observer that *)
(* has left the stack of its thread, however the wait ended.               *)
THEOREM NoDanglingObserverHolds == Spec => []NoDanglingObserver
  <1>1. SyncInv => NoDanglingObserver
    <2> SUFFICES ASSUME SyncInv PROVE NoDanglingObserver
      OBVIOUS
    <2>1. ASSUME NEW who \in Referenced
          PROVE  Alive(who)
      <3>1. PICK o \in Objects : who \in Refers(o)
        BY DEF Referenced
      <3> QED  BY <3>1 DEF SyncInv, LinkInv, RefsOK, RefOK
    <2> QED  BY <2>1 DEF SyncInv, FrameInv, NoDanglingObserver
  <1> QED  BY <1>1, SyncInvariant, PTL

(* A thread blocks only while, of each of its items, the signals are down  *)
(* and the handle open, or the object is about to call its observer.       *)
THEOREM NoMissedWakeupHolds == Spec => []NoMissedWakeup
  <1>1. SyncInv => NoMissedWakeup
    <2> SUFFICES ASSUME SyncInv, NEW t \in Threads, pc[t] = "wait", event[t] = "none",
                        NEW i \in DOMAIN items[t],
                        NEW o, o = ObjectOf[items[t][i].handle]
                 PROVE  \/ /\ <<t, i>> \in observers[o]
                           /\ signals[o] \cap items[t][i].waitfor = {}
                           /\ handle[items[t][i].handle] # "closed"
                        \/ \E call \in callbacks[o] : call.who = <<t, i>>
      BY Zenon DEF NoMissedWakeup
    <2>1. o \in Objects
      BY ItemType
    <2>2. <<t, i>> \in Refers(o)
      BY DEF SyncInv, WaitersOK, Covered, Begun
    <2>3. CASE <<t, i>> \in observers[o]
      <3>1. Quiet(o, <<t, i>>)
        BY <2>1, <2>3 DEF SyncInv, QuietOK
      <3> QED  BY <2>3, <3>1 DEF Quiet, Watched
    <2>4. CASE \E call \in callbacks[o] : call.who = <<t, i>>
      BY <2>4
    <2> QED  BY <2>2, <2>3, <2>4 DEF Refers
  <1> QED  BY <1>1, SyncInvariant, PTL

(* The item that explains a result is still there when the wait returns.   *)
LEMMA ReturnExplained ==
  ASSUME SyncInv, NEW t \in Threads, Return(t)
  PROVE  LET Closed == \E i \in DOMAIN items[t] : "CLOSED" \in pending[t][i]
             Matched == \E i \in DOMAIN items[t] :
                          pending[t][i] \cap items[t][i].waitfor # {}
         IN  /\ status'[t] = "OK" => Matched /\ ~Closed
             /\ status'[t] = "CANCELED" => Closed
             /\ status'[t] \in {"TIMED_OUT", "INTERRUPTED"} => ~Closed
  <1> DEFINE Closed == \E i \in DOMAIN items[t] : "CLOSED" \in pending[t][i]
             Matched == \E i \in DOMAIN items[t] :
                          pending[t][i] \cap items[t][i].waitfor # {}
  <1>1. pc[t] = "end" /\ ix[t] > Len(items[t])
    BY DEF Return
  <1>2. Canceled(t) <=> Closed
    <2>1. DOMAIN pending[t] = DOMAIN items[t]
      BY DEF SyncInv, FrameInv, TypeOK, LocalsOK
    <2> QED  BY <2>1 DEF Canceled
  <1>3. status'[t] = IF Closed THEN "CANCELED" ELSE status[t]
    BY <1>2 DEF Return, Leave, SyncInv, FrameInv, TypeOK
  <1>4. status[t] = "OK" => Matched
    <2> SUFFICES ASSUME status[t] = "OK" PROVE Matched
      OBVIOUS
    <2>1. event[t] = "OK"
      BY <1>1 DEF SyncInv, WaitersOK, StatusOK
    <2>2. PICK i \in DOMAIN items[t] : Settled(t, i)
      BY <2>1 DEF SyncInv, WaitersOK, Explained
    <2>3. i < ix[t]
      BY <1>1, ItemType DEF SyncInv, FrameInv, TypeOK
    <2> QED  BY <1>1, <2>1, <2>2, <2>3 DEF Settled
  <1>5. status[t] = "CANCELED" => Closed
    <2> SUFFICES ASSUME status[t] = "CANCELED" PROVE Closed
      OBVIOUS
    <2>1. event[t] = "CANCELED"
      BY <1>1 DEF SyncInv, WaitersOK, StatusOK
    <2>2. PICK i \in DOMAIN items[t] : Settled(t, i)
      BY <2>1 DEF SyncInv, WaitersOK, Explained
    <2>3. i < ix[t]
      BY <1>1, ItemType DEF SyncInv, FrameInv, TypeOK
    <2> QED  BY <1>1, <2>1, <2>2, <2>3 DEF Settled
  <1> HIDE DEF Closed, Matched
  <1>6. /\ status'[t] = "OK" => Matched /\ ~Closed
        /\ status'[t] = "CANCELED" => Closed
        /\ status'[t] \in {"TIMED_OUT", "INTERRUPTED"} => ~Closed
    BY <1>3, <1>4, <1>5
  <1> QED  BY <1>6 DEF Closed, Matched

(* Only Return takes a thread from the loop over End to the caller.        *)
LEMMA OnlyReturn ==
  ASSUME SyncInv, [Next]_vars, NEW t \in Threads, pc[t] = "end", pc'[t] = "idle"
  PROVE  Return(t)
  <1>1. pc \in [Threads -> {"idle", "begin", "wait", "end", "unwind"}]
    BY DEF SyncInv, FrameInv, TypeOK
  <1>2. pc' # pc
    OBVIOUS
  <1>3. ASSUME NEW u \in Threads, NEW list \in ItemLists[u], Enter(u, list)
        PROVE  FALSE
    BY <1>1, <1>3 DEF Enter, Goto
  <1>4. ASSUME NEW u \in Threads, NEW label,
               pc[u] # "end", pc' = [pc EXCEPT ![u] = label]
        PROVE  FALSE
    BY <1>1, <1>4
  <1>5. ASSUME NEW u \in Threads, InCall(u), ~Return(u)
        PROVE  FALSE
    <2>1. \/ BeginFails(u) \/ Begin(u) \/ BeginDone(u) \/ End(u) \/ Unwind(u)
          \/ Unwound(u) \/ Wakes(u, "OK") \/ Wakes(u, "CANCELED")
      BY <1>5 DEF InCall
    <2>2. pc' = pc \/ (pc[u] # "end" /\ \E label : pc' = [pc EXCEPT ![u] = label])
      BY <2>1 DEF BeginFails, Begin, BeginDone, End, Unwind, Unwound, Wakes, Leave, Goto
    <2> QED  BY <1>2, <1>4, <2>2
  <1>6. ASSUME NEW u \in Threads, Wakes(u, "TIMED_OUT") \/ Wakes(u, "INTERRUPTED")
        PROVE  FALSE
    BY <1>4, <1>6 DEF Wakes, Goto
  <1>7. ASSUME NEW u \in Threads, Return(u)
        PROVE  u = t
    BY <1>1, <1>7 DEF Return, Leave, Goto
  <1>8. ASSUME NEW o \in Objects, Callback(o) \/ \E new \in SUBSET Signals : UpdateState(o, new)
        PROVE  FALSE
    BY <1>2, <1>8 DEF Callback, Store, Signal, UpdateState
  <1>9. ASSUME NEW h \in Handles, RemoveHandle(h) \/ Cancel(h)
        PROVE  FALSE
    BY <1>2, <1>9 DEF RemoveHandle, Cancel
  <1>10. ~UNCHANGED vars
    BY <1>2 DEF vars
  <1>11. PICK u \in Threads : InCall(u)
    BY <1>3, <1>6, <1>8, <1>9, <1>10 DEF Next
  <1> QED  BY <1>5, <1>7, <1>11

(* What a wait returns is explained by the signals it returns, whichever   *)
(* callbacks came between the wake-up and the end of the wait.             *)
THEOREM ResultExplainedHolds == Spec => ResultExplained
  <1>1. ASSUME SyncInv, [Next]_vars
        PROVE  [\A t \in Threads : (pc[t] = "end" /\ pc'[t] = "idle") =>
                  LET Closed == \E i \in DOMAIN items[t] : "CLOSED" \in pending[t][i]
                      Matched == \E i \in DOMAIN items[t] :
                                   pending[t][i] \cap items[t][i].waitfor # {}
                  IN  /\ status'[t] = "OK" => Matched /\ ~Closed
                      /\ status'[t] = "CANCELED" => Closed
                      /\ status'[t] \in {"TIMED_OUT", "INTERRUPTED"} => ~Closed]_vars
    BY <1>1, OnlyReturn, ReturnExplained
  <1> QED  BY <1>1, SyncInvariant, PTL DEF Spec, ResultExplained
=============================================================================
