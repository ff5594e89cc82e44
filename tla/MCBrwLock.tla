----------------------------- MODULE MCBrwLock ------------------------------
(* The instance of BrwLock for model checking.                              *)
EXTENDS BrwLock
=============================================================================
