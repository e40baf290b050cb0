---------------------------- MODULE MCEventLoop ----------------------------
(* EventLoop on small instances. *)
EXTENDS EventLoop, TLC

CONSTANTS t1, t2, loop, e1, e2

TwoCallers == {t1, loop}
ThreeCallers == {t1, t2, loop}
OneQuitter == {t2}
MCEvents == {e1, e2}
=============================================================================
