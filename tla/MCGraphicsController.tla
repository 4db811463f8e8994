------------------------- MODULE MCGraphicsController -------------------------
(***************************************************************************)
(* GraphicsController for TLC: of every call of the zapper's, at most      *)
(* MaxCalls are made, in any order and at any moment.  Two are enough for  *)
(* every pair of calls, and for a call that asks again for an element      *)
(* whose timer is running or has just expired.                             *)
(***************************************************************************)
EXTENDS GraphicsController

CONSTANT MaxCalls
ASSUME MaxCallsAssumption == MaxCalls \in Nat

VARIABLE calls   \* how many calls have been made

MCInit == Init /\ calls = 0

MCNext ==
  \/ PrintCall /\ calls < MaxCalls /\ calls' = calls + 1
  \/ /\ \/ render_loop
        \/ \E o \in Indicators, t \in TimerThreads : TimerExpires(o, t) \/ TimerRoutine(o, t)
        \/ graphics_init \/ graphics_deinit
     /\ UNCHANGED calls

MCSpec == MCInit /\ [][MCNext]_<<vars, calls>> /\ Fairness

===============================================================================
