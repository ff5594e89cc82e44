----------------------------- MODULE MCSyncWait -----------------------------
(* An instance of SyncWait for model checking.                              *)
EXTENDS SyncWait, TLC

CONSTANTS h1, h2, h3, o1, o2, a, t1, t2

(* Two handles to one object, one to another.                               *)
TwoAndOne == h1 :> o1 @@ h2 :> o1 @@ h3 :> o2

ItemFor(h) == [handle |-> h, waitfor |-> {a}]

(* Thread t1 waits for two objects, t2 for one of them by another handle.   *)
Waits == t1 :> {<<ItemFor(h1), ItemFor(h3)>>} @@ t2 :> {<<ItemFor(h2)>>}
=============================================================================
