------------------------------ MODULE MCFutex ------------------------------
(* Instances of Futex for model checking.                                   *)
EXTENDS Futex, TLC

FutexSymmetry == Permutations(Threads) \cup Permutations(Futexes)
=============================================================================
