---------------------------- MODULE MCRtspServer ----------------------------
(* RtspServer on small instances. *)
EXTENDS RtspServer, TLC
CONSTANTS a, b, s1, s2
MCConns == {a, b}
MCFds == 1 .. 2
MCFds1 == {1}
MCFds3 == 1 .. 3
MCOne == [s \in {s1} |-> "live"]
MCTwo == (s1 :> "live" @@ s2 :> "cam")
Symmetric == Permutations(MCConns)
=============================================================================
