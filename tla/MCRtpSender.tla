---------------------------- MODULE MCRtpSender -----------------------------
(***************************************************************************)
(* One client of RtpSender: clients share no variable, only the frames.    *)
(* The frames that MediaSources cuts have sizes around those at which the  *)
(* number of packets changes, and every first byte of a NAL header.        *)
(***************************************************************************)
EXTENDS RtpSender, MediaSources

CONSTANT a
OneClient == {a}

MCSizes == 1 .. 40 \cup 1412 .. 1424 \cup 2832 .. 2842 \cup 4249 .. 4260
MCHeaders == 0 .. 255

\* A frame of any size that is sent arrives as it was: the packets its source has
\* cut it into are neither too long nor empty, have one start, one end and one
\* marker, and give back the bytes and the NAL header of the frame.
FramesWhole == [][(\E t \in FrameTypes : SendFrame(t)) => VideoWhole /\ AudioWhole]_vars
=============================================================================
