---------------------------- MODULE MCTimerQueue ----------------------------
(* TimerQueue on small instances. *)
EXTENDS TimerQueue

ShortDelays == {1, 2}
WithZero == {0, 2}
OneDelay == {2}
=============================================================================
