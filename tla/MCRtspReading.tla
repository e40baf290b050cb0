--------------------------- MODULE MCRtspReading ----------------------------
(* RtspReading on small instances. *)
EXTENDS RtspReading

\* One method of each kind: complete with any header, with a header of its own,
\* with one that may come before the CSeq, the last of a connection, and one the
\* server does not know.
MCMethods == {"OPTIONS", "DESCRIBE", "PLAY", "TEARDOWN", "PAUSE"}
=============================================================================
