------------------------------ MODULE SyncWait ------------------------------
(***************************************************************************)
(* zx_object_wait_one and zx_object_wait_many (lib/syscalls/object_wait.cc)*)
(* with their observers (object/wait_signal_observer.cc), the observer     *)
(* lists of the dispatchers (object/dispatcher.cc) and the event the       *)
(* caller blocks on (kernel/event.cc).                                     *)
(*                                                                         *)
(* The observers and the event live on the stack of the waiting thread.    *)
(* A dispatcher calls an observer with the dispatcher's lock held; what    *)
(* keeps the stack alive until it has done so is that End takes that lock  *)
(* for every observer, whatever woke the thread.  A wait for one handle is *)
(* a wait for many with one item.                                          *)
(***************************************************************************)
EXTENDS Integers, Sequences

CONSTANTS
  Threads,      \* waiting threads
  Handles,
  Objects,
  ObjectOf,     \* the object of each handle
  Signals,
  ItemLists     \* the arguments of the waits each thread makes: sequences
                \* of [handle, waitfor]

WaitItems == [handle : Handles, waitfor : SUBSET Signals]

ASSUME SyncWaitAssumption ==
  /\ ObjectOf \in [Handles -> Objects]
  /\ ItemLists \in [Threads -> SUBSET Seq(WaitItems)]
  /\ "CLOSED" \notin Signals

VARIABLES
  signals,      \* signals_ of each object
  observers,    \* observers_ of each object: pairs <<thread, item>>
  callbacks,    \* the calls the holder of each object's lock has still to
                \* make, in any order; an object without any is unlocked
  handle,       \* "open", "removed" from the table, "closed" (observers
                \* cancelled)
  pc,           \* "idle", "begin", "wait", "end", "unwind"
  items,        \* the wait items of each thread
  ix,           \* the index of the loop over Begin, then of that over End
  numAdded,     \* num_added where the loop over Begin was left early
  event,        \* Event::result_: "none", "OK" or "CANCELED"
  final,        \* final_signal_state_ of each item's observer
  pending,      \* items[].pending
  status        \* result, and after the return what was returned

objVars  == <<signals, observers, callbacks>>
waitVars == <<items, ix, numAdded, event, final, pending, status>>
vars == <<objVars, handle, pc, waitVars>>

Init ==
  /\ signals = [o \in Objects |-> {}]
  /\ observers = [o \in Objects |-> {}]
  /\ callbacks = [o \in Objects |-> {}]
  /\ handle = [h \in Handles |-> "open"]
  /\ pc = [t \in Threads |-> "idle"]
  /\ items = [t \in Threads |-> <<>>]
  /\ ix = [t \in Threads |-> 0]
  /\ numAdded = [t \in Threads |-> 0]
  /\ event = [t \in Threads |-> "none"]
  /\ final = [t \in Threads |-> <<>>]
  /\ pending = [t \in Threads |-> <<>>]
  /\ status = [t \in Threads |-> "none"]
-----------------------------------------------------------------------------
Unlocked(o) == callbacks[o] = {}

Goto(t, label) == pc' = [pc EXCEPT ![t] = label]

NextItem(t) == ix[t] + 1

Item(t) == items[t][ix[t]]

Watched(who) == items[who[1]][who[2]]

(* Entry: the locals of the system call.  The handle table is locked for    *)
(* reading until every observer has begun.                                  *)
Enter(t, list) ==
  /\ pc[t] = "idle"
  /\ Goto(t, "begin")
  /\ items' = [items EXCEPT ![t] = list]
  /\ ix' = [ix EXCEPT ![t] = 1]
  /\ event' = [event EXCEPT ![t] = "none"]
  /\ final' = [final EXCEPT ![t] = [i \in DOMAIN list |-> {}]]
  /\ pending' = [pending EXCEPT ![t] = [i \in DOMAIN list |-> {}]]
  /\ status' = [status EXCEPT ![t] = "none"]
  /\ UNCHANGED <<objVars, handle, numAdded>>

(* An item fails, and the observers begun so far are ended.  The handle is  *)
(* not in the table; that it lacks ZX_RIGHT_WAIT (ACCESS_DENIED) or that    *)
(* its object is not waitable (NOT_SUPPORTED) is decided at the same place, *)
(* in the same state, with the same consequence, and is not told apart.     *)
BeginFails(t) ==
  /\ pc[t] = "begin"
  /\ ix[t] <= Len(items[t])
  /\ handle[Item(t).handle] # "open"
  /\ Goto(t, "unwind")
  /\ numAdded' = [numAdded EXCEPT ![t] = ix[t] - 1]
  /\ ix' = [ix EXCEPT ![t] = 1]
  /\ status' = [status EXCEPT ![t] = "BAD_HANDLE"]
  /\ UNCHANGED <<objVars, handle, items, event, final, pending>>

NoMatch(o, waitfor) == FALSE

AlreadyMatched(o, waitfor) == signals[o] \cap waitfor # {}

FirstSignal(t, result) ==
  event' = [event EXCEPT ![t] = IF @ = "none" THEN result ELSE @]

(* WaitSignalObserver::Begin: AddObserver calls OnMatch at once, or puts    *)
(* the observer on the list.                                                *)
Begin(t) ==
  /\ pc[t] = "begin"
  /\ ix[t] <= Len(items[t])
  /\ handle[Item(t).handle] = "open"
  /\ LET o == ObjectOf[Item(t).handle]
     IN  /\ Unlocked(o)
         /\ IF AlreadyMatched(o, Item(t).waitfor)
              THEN /\ final' = [final EXCEPT ![t][ix[t]] = signals[o]]
                   /\ FirstSignal(t, "OK")
                   /\ UNCHANGED observers
              ELSE /\ observers' = [observers EXCEPT ![o] = @ \cup {<<t, ix[t]>>}]
                   /\ UNCHANGED <<final, event>>
  /\ ix' = [ix EXCEPT ![t] = NextItem(t)]
  /\ UNCHANGED <<signals, callbacks, handle, pc, items, numAdded, pending, status>>

BeginDone(t) ==
  /\ pc[t] = "begin"
  /\ ix[t] > Len(items[t])
  /\ Goto(t, "wait")
  /\ UNCHANGED <<objVars, handle, waitVars>>

(* Event::Wait returns: the event was signalled, or else the deadline       *)
(* passed or the thread is being suspended or killed.                       *)
Wakes(t, result) ==
  /\ pc[t] = "wait"
  /\ \/ event[t] = result
     \/ event[t] = "none" /\ result \in {"TIMED_OUT", "INTERRUPTED"}
  /\ status' = [status EXCEPT ![t] = result]
  /\ ix' = [ix EXCEPT ![t] = 1]
  /\ Goto(t, "end")
  /\ UNCHANGED <<objVars, handle, items, numAdded, event, final, pending>>

NoLockNeeded(o) == TRUE

EndLock(o) == Unlocked(o)

(* What End returns: the signals at the removal of an observer that was     *)
(* still listed, else what the callback stored.                             *)
EndState(t, o, removed) == IF removed THEN signals[o] ELSE final[t][ix[t]]

(* WaitSignalObserver::End of one item.                                     *)
End(t) ==
  /\ pc[t] = "end"
  /\ ix[t] <= Len(items[t])
  /\ LET o == ObjectOf[Item(t).handle]
         removed == <<t, ix[t]>> \in observers[o]
     IN  /\ EndLock(o)
         /\ observers' = [observers EXCEPT ![o] = @ \ {<<t, ix[t]>>}]
         /\ pending' = [pending EXCEPT ![t][ix[t]] = EndState(t, o, removed)]
  /\ ix' = [ix EXCEPT ![t] = NextItem(t)]
  /\ UNCHANGED <<signals, callbacks, handle, pc, items, numAdded, event, final, status>>

LastCanceled(t) == "CLOSED" \in pending[t][Len(pending[t])]

Canceled(t) == \E i \in DOMAIN pending[t] : "CLOSED" \in pending[t][i]

Leave(t, result) ==
  /\ Goto(t, "idle")
  /\ items' = [items EXCEPT ![t] = <<>>]
  /\ ix' = [ix EXCEPT ![t] = 0]
  /\ numAdded' = [numAdded EXCEPT ![t] = 0]
  /\ event' = [event EXCEPT ![t] = "none"]
  /\ final' = [final EXCEPT ![t] = <<>>]
  /\ pending' = [pending EXCEPT ![t] = <<>>]
  /\ status' = [status EXCEPT ![t] = result]
  /\ UNCHANGED <<objVars, handle>>

Return(t) ==
  /\ pc[t] = "end"
  /\ ix[t] > Len(items[t])
  /\ Leave(t, IF Canceled(t) THEN "CANCELED" ELSE status[t])

(* The loop that ends, first to last, the observers that were added.        *)
Unwind(t) ==
  /\ pc[t] = "unwind"
  /\ ix[t] <= numAdded[t]
  /\ LET o == ObjectOf[Item(t).handle]
     IN  /\ EndLock(o)
         /\ observers' = [observers EXCEPT ![o] = @ \ {<<t, ix[t]>>}]
  /\ ix' = [ix EXCEPT ![t] = NextItem(t)]
  /\ UNCHANGED <<signals, callbacks, handle, pc, items, numAdded, event, final,
                 pending, status>>

Unwound(t) ==
  /\ pc[t] = "unwind"
  /\ ix[t] > numAdded[t]
  /\ Leave(t, status[t])
-----------------------------------------------------------------------------
(* A call of OnMatch or OnCancel, which takes two steps, for each observer. *)
CallAll(chosen, flags, result) ==
  {[who |-> who, step |-> "store", flags |-> flags, result |-> result] :
     who \in chosen}

(* UpdateState changes the signals and takes the observers they match off   *)
(* the list; they are called one by one before the lock is dropped.         *)
UpdateState(o, new) ==
  /\ Unlocked(o)
  /\ signals[o] # new
  /\ signals' = [signals EXCEPT ![o] = new]
  /\ LET matched == {who \in observers[o] : Watched(who).waitfor \cap new # {}}
     IN  /\ callbacks' = [callbacks EXCEPT ![o] = CallAll(matched, new, "OK")]
         /\ observers' = [observers EXCEPT ![o] = @ \ matched]
  /\ UNCHANGED <<handle, pc, waitVars>>

(* zx_handle_close: the handle leaves the table, which no thread is reading.*)
RemoveHandle(h) ==
  /\ handle[h] = "open"
  /\ \A t \in Threads : pc[t] # "begin"
  /\ handle' = [handle EXCEPT ![h] = "removed"]
  /\ UNCHANGED <<objVars, pc, waitVars>>

(* Dispatcher::Cancel of the observers that began on h.                     *)
Cancel(h) ==
  /\ handle[h] = "removed"
  /\ Unlocked(ObjectOf[h])
  /\ handle' = [handle EXCEPT ![h] = "closed"]
  /\ LET o == ObjectOf[h]
         mine == {who \in observers[o] : Watched(who).handle = h}
     IN  /\ callbacks' = [callbacks EXCEPT ![o] =
                CallAll(mine, signals[o] \cup {"CLOSED"}, "CANCELED")]
         /\ observers' = [observers EXCEPT ![o] = @ \ mine]
  /\ UNCHANGED <<signals, pc, waitVars>>

(* OnMatch and OnCancel store the state the waiter is to return, ...        *)
Store(o) ==
  /\ \A call \in callbacks[o] : call.step = "store"
  /\ \E call \in callbacks[o] :
       /\ final' = [final EXCEPT ![call.who[1]] =
                      IF call.who[2] \in DOMAIN @
                        THEN [@ EXCEPT ![call.who[2]] = call.flags] ELSE @]
       /\ callbacks' = [callbacks EXCEPT ![o] =
                          (@ \ {call}) \cup {[call EXCEPT !.step = "signal"]}]
  /\ UNCHANGED <<signals, observers, handle, pc, items, ix, numAdded, event,
                 pending, status>>

(* ... and signal its event, which keeps the first result.                  *)
Signal(o) ==
  /\ \E call \in callbacks[o] :
       /\ call.step = "signal"
       /\ FirstSignal(call.who[1], call.result)
       /\ callbacks' = [callbacks EXCEPT ![o] = @ \ {call}]
  /\ UNCHANGED <<signals, observers, handle, pc, items, ix, numAdded, final,
                 pending, status>>
-----------------------------------------------------------------------------
InCall(t) ==
  \/ BeginFails(t) \/ Begin(t) \/ BeginDone(t)
  \/ End(t) \/ Return(t) \/ Unwind(t) \/ Unwound(t)
  \/ Wakes(t, "OK") \/ Wakes(t, "CANCELED")

Callback(o) == Store(o) \/ Signal(o)

Next ==
  \/ \E t \in Threads :
       \/ \E list \in ItemLists[t] : Enter(t, list)
       \/ InCall(t)
       \/ Wakes(t, "TIMED_OUT") \/ Wakes(t, "INTERRUPTED")
  \/ \E o \in Objects :
       \/ \E new \in SUBSET Signals : UpdateState(o, new)
       \/ Callback(o)
  \/ \E h \in Handles : RemoveHandle(h) \/ Cancel(h)

(* A thread that is in the kernel and not blocked goes on, with its turn at *)
(* the lock of an object; a deadline need not come.                         *)
Spec ==
  /\ Init /\ [][Next]_vars
  /\ \A t \in Threads : SF_vars(InCall(t))
  /\ \A o \in Objects : WF_vars(Callback(o))
-----------------------------------------------------------------------------
Flags == SUBSET (Signals \cup {"CLOSED"})

Calls == [who : Threads \X Nat, step : {"store", "signal"}, flags : Flags,
          result : {"OK", "CANCELED"}]

Results == {"none", "OK", "CANCELED", "TIMED_OUT", "INTERRUPTED", "BAD_HANDLE"}

(* Every variable has its type. *)
TypeOK ==
  /\ signals \in [Objects -> SUBSET Signals]
  /\ observers \in [Objects -> SUBSET (Threads \X Nat)]
  /\ callbacks \in [Objects -> SUBSET Calls]
  /\ handle \in [Handles -> {"open", "removed", "closed"}]
  /\ pc \in [Threads -> {"idle", "begin", "wait", "end", "unwind"}]
  /\ items \in [Threads -> Seq(WaitItems)]
  /\ ix \in [Threads -> Nat] /\ numAdded \in [Threads -> Nat]
  /\ event \in [Threads -> {"none", "OK", "CANCELED"}]
  /\ final \in [Threads -> Seq(Flags)]
  /\ pending \in [Threads -> Seq(Flags)]
  /\ status \in [Threads -> Results]

(* The locals of a call fit together.                                       *)
LocalsOK ==
  \A t \in Threads : /\ ix[t] <= Len(items[t]) + 1
                     /\ Len(final[t]) = Len(items[t])
                     /\ Len(pending[t]) = Len(items[t])

(* Observers that a list or a callback in progress refers to.               *)
Refers(o) == observers[o] \cup {call.who : call \in callbacks[o]}

Referenced == UNION {Refers(o) : o \in Objects}

(* Its observer has begun and not ended.                                    *)
Alive(who) ==
  LET t == who[1] IN
    \/ pc[t] = "begin" /\ who[2] < ix[t]
    \/ pc[t] = "wait"
    \/ pc[t] = "end" /\ who[2] >= ix[t]
    \/ pc[t] = "unwind" /\ who[2] \in ix[t] .. numAdded[t]

(* No observer list and no callback refers to the stack of a thread that    *)
(* has ended its observer: WaitSignalObserver::End waits for the object.    *)
(* (Every variable keeps its type.)                                         *)
NoDanglingObserver ==
  /\ TypeOK /\ LocalsOK
  /\ \A who \in Referenced : Alive(who)

(* A thread blocks only while nothing it waits for has happened: of each    *)
(* item the signals are down and the handle is open, unless the object is   *)
(* about to call the observer.                                              *)
NoMissedWakeup ==
  \A t \in Threads : (pc[t] = "wait" /\ event[t] = "none") =>
    \A i \in DOMAIN items[t] :
      LET o == ObjectOf[items[t][i].handle] IN
        \/ /\ <<t, i>> \in observers[o]
           /\ signals[o] \cap items[t][i].waitfor = {}
           /\ handle[items[t][i].handle] # "closed"
        \/ \E call \in callbacks[o] : call.who = <<t, i>>

(* What a wait returns is explained by the signals it returns: ZX_OK comes  *)
(* with a signal that was waited for and no closed handle, ZX_ERR_CANCELED  *)
(* with a closed handle, whichever callbacks came between the wake-up and   *)
(* the end of the wait.                                                     *)
ResultExplained ==
  [][\A t \in Threads : (pc[t] = "end" /\ pc'[t] = "idle") =>
       LET Closed == \E i \in DOMAIN items[t] : "CLOSED" \in pending[t][i]
           Matched == \E i \in DOMAIN items[t] :
                        pending[t][i] \cap items[t][i].waitfor # {}
       IN  /\ status'[t] = "OK" => Matched /\ ~Closed
           /\ status'[t] = "CANCELED" => Closed
           /\ status'[t] \in {"TIMED_OUT", "INTERRUPTED"} => ~Closed]_vars

(* A wait returns once one of its handles is closed or one of its signals   *)
(* has been seen up, though it be down again before the thread runs.        *)
WaitReturns ==
  \A t \in Threads :
    (pc[t] = "wait" /\ \E i \in DOMAIN items[t] :
       \/ handle[items[t][i].handle] = "closed"
       \/ signals[ObjectOf[items[t][i].handle]] \cap items[t][i].waitfor # {})
      ~> pc[t] = "idle"
=============================================================================
