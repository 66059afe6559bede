----------------------------- MODULE MCTimerMS ------------------------------
(***************************************************************************)
(* Seconds of two ms, ms of three us; a call beside two other coroutines.    *)
(***************************************************************************)
EXTENDS TimerMS

MCClockSteps == {0, 2}
=============================================================================
