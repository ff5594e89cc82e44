------------------------------ MODULE MCMutex -------------------------------
(* The instance of Mutex for model checking.                                *)
EXTENDS Mutex
=============================================================================
