---------------------------- MODULE OneShotTimer ----------------------------
(***************************************************************************)
(* What zx_timer_set and zx_timer_cancel promise: a timer holds at most    *)
(* one deadline; SIGNALED goes up once the window of that deadline is      *)
(* reached, for no other deadline, and stays up until the next call.       *)
(***************************************************************************)
EXTENDS Integers

CONSTANTS
  Clients,
  Windows,    \* the windows a client may ask for: [when, from, to]
  MaxTime     \* bound: the clock stops here

VARIABLES
  now,
  armed,      \* the window waited for, as a set of at most one element
  signaled,
  call,       \* of each client: "idle", in a "call" or at its "return"
  life        \* "open", "closing" (no client can begin a call) or "closed"

timerVars == <<now, armed, signaled, call, life>>

Init ==
  /\ now = 0
  /\ armed = {}
  /\ signaled = FALSE
  /\ call = [p \in Clients |-> "idle"]
  /\ life = "open"

Elapse ==
  /\ now < MaxTime
  /\ now' = now + 1
  /\ UNCHANGED <<armed, signaled, call, life>>

Moves(p, from, to) == call[p] = from /\ call' = [call EXCEPT ![p] = to]

Begin(p) ==
  /\ life = "open"
  /\ Moves(p, "idle", "call")
  /\ UNCHANGED <<now, armed, signaled, life>>

End(p) == Moves(p, "return", "idle") /\ UNCHANGED <<now, armed, signaled, life>>

(* A deadline that is due is signalled at once.                             *)
Request(p, w) ==
  /\ Moves(p, "call", "return")
  /\ signaled' = (w.when <= now)
  /\ armed' = {w} \ {x \in {w} : x.when <= now}
  /\ UNCHANGED <<now, life>>

Disarm == signaled' = FALSE /\ armed' = {} /\ UNCHANGED now

Withdraw(p) == Moves(p, "call", "return") /\ Disarm /\ UNCHANGED life

(* The last handle is closed: no more calls, ...                            *)
Shut ==
  /\ life = "open"
  /\ life' = "closing"
  /\ UNCHANGED <<now, armed, signaled, call>>

(* ... and, once, the deadline is withdrawn.  Calls that have begun go on.  *)
Close ==
  /\ life = "closing"
  /\ life' = "closed"
  /\ Disarm
  /\ UNCHANGED call

Fire ==
  /\ \E w \in armed : w.from <= now
  /\ signaled' = TRUE
  /\ armed' = {}
  /\ UNCHANGED <<now, call, life>>

Next ==
  \/ \E p \in Clients : \/ Begin(p) \/ End(p)
                        \/ \E w \in Windows : Request(p, w)
                        \/ Withdraw(p)
  \/ Elapse \/ Shut \/ Close \/ Fire

Safety == Init /\ [][Next]_timerVars

(* A window that is reached is signalled, and a close carried out, in the   *)
(* end.                                                                     *)
Spec ==
  /\ Safety
  /\ WF_timerVars(Elapse) /\ WF_timerVars(Fire) /\ WF_timerVars(Close)
=============================================================================
