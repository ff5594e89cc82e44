------------------------------- MODULE MCPort -------------------------------
(* Instances of Port for model checking.  A slot of an arena, a thread, an   *)
(* observer or a key is used only through equality, so these sets are        *)
(* symmetric; the run without temporal properties uses that.                 *)
EXTENDS PortInvariant, TLC

ObserverSymmetry ==
  Permutations(Threads) \cup Permutations(Observers) \cup Permutations(Keys)
=============================================================================
