------------------------- MODULE MCTimerDispatcher -------------------------
(* The instance of TimerDispatcher for model checking.                      *)
EXTENDS TimerDispatcher
=============================================================================
