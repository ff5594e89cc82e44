---------------------------- MODULE MCTimerQueue ----------------------------
(* Instances of TimerQueue for model checking.  Timers and CPUs are used    *)
(* only through equality.                                                   *)
EXTENDS TimerQueue, FiniteSets, TLC

CONSTANT MaxRaceTime

Symmetry == Permutations(Timers) \cup Permutations(Cpus)

(* The run covers two regions.  In the first, one CPU sets timers with any  *)
(* windows, in any order.                                                   *)
Filling ==
  /\ now = 0
  /\ cancel = {}
  /\ \E c \in Cpus : \A d \in Cpus \ {c} : list[d] = <<>>
  /\ \A c \in Cpus : tick[c] = "none" /\ preempt[c] = Infinite

(* In the second, everything happens, to two timers with narrow windows.    *)
Narrow == {w \in Windows :
  w.mode = "CENTER" /\ w.slack < w.when /\ w.when < MaxRaceTime}

Racing ==
  /\ now <= MaxRaceTime
  /\ Cardinality({t \in Timers : scheduled[t] # 0} \cup cancel) <= 2
  /\ \A t \in Timers : window[t] \in Narrow \cup {NoWindow}

MCNext ==
  \/ Filling /\ \E c \in Cpus, t \in Timers, w \in Windows : Set(c, t, w)
  \/ Racing /\ Steps(Narrow)

Scope == (Filling \/ Racing)'

MCSpec == Init /\ [][MCNext]_vars
=============================================================================
