----------------------------- MODULE MCChannel -----------------------------
(* Instances of Channel for model checking.  Messages, and threads of one   *)
(* process, are used only through equality; the safety runs use that.       *)
EXTENDS Channel, TLC

CONSTANTS A, B, t1, t2, t3

(* Two threads of A, one of B.                                              *)
TwoAndOne == t1 :> A @@ t2 :> A @@ t3 :> B

(* Each handle is received once; that of endpoint 0 moves on once.          *)
OneEach == [e \in Endpoints |-> 1]

TwoAndOneMoves == [e \in Endpoints |-> 2 - e]

(* The run without symmetry: messages are interchangeable and are made in   *)
(* one order, and only one thread uses zx_channel_call.                     *)
OneCaller ==
  /\ \A t \in Threads : pc'[t] = "Call" => t = t1
  /\ \A m, n \in Messages : n < m /\ packet'[m] # None => packet'[n] # None

(* Both owners call: A, with two threads, has endpoint 0, and B endpoint 1. *)
BothCall ==
  /\ handle'[0] \in {A, "kernel", "deleted"}
  /\ handle'[1] \in {B, "kernel", "deleted"}

ThreadSymmetry == Permutations({t1, t2}) \cup Permutations(Messages)
=============================================================================
