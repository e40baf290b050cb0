---------------------------- MODULE RtspReading -----------------------------
(***************************************************************************)
(* RtspConnection::handleRead: the same buffer and the same end of a read  *)
(* for both kinds of connection.  What is read goes to the request parser  *)
(* on a connection that RtspServer accepted, and to the response parser on *)
(* one that RtspPusher opened (sendOptions sets _connMode).                *)
(***************************************************************************)
EXTENDS RequestReader, RtspPusher

VARIABLE connMode  \* RtspConnection::_connMode

vars == <<connMode, streamVars, parserVars, clientVars, reply, pusherVars>>

Init ==
  /\ connMode \in {"RTSP_SERVER", "RTSP_CLIENT"}
  /\ RequestInit /\ PusherInit

ServerSide ==
  /\ connMode = "RTSP_SERVER"
  /\ RequestNext
  /\ UNCHANGED <<connMode, pusherVars>>

ClientSide ==
  /\ connMode = "RTSP_CLIENT"
  /\ PusherNext
  /\ UNCHANGED <<connMode, parserVars, clientVars, reply>>

Next == ServerSide \/ ClientSide

Spec == Init /\ [][Next]_vars

\* The loop handles what arrives and what is posted, and the pusher's server
\* answers the requests it gets.
Fairness ==
  /\ WF_vars(ClientSide /\ (NewClient \/ HandleClosing \/ HandleResponse \/ ResponseFails))
  /\ WF_vars(ClientSide /\ Respond)

FairSpec == Spec /\ Fairness

-----------------------------------------------------------------------------
(* Properties *)

\* InStep, on a connection of the server: a client whose requests arrive whole,
\* with the headers they need, and who sends no RTCP, finds every one it sent by
\* itself answered, and the parser ready for the next.
ServerInStep == connMode = "RTSP_SERVER" => InStep

\* ClosedForCause, on a connection of the server: unless there is a method it does
\* not know, a URL it does not take or no CSeq, it takes a request in pieces or
\* behind RTCP to make it close the connection.
ServerClosesForCause == connMode = "RTSP_SERVER" => ClosedForCause

\* OneAtATime, on a connection of the pusher: with responses that arrive whole
\* every request waits for the grant of the one before, and frames for that of
\* RECORD.
PusherWaits == connMode = "RTSP_CLIENT" => OneAtATime
=============================================================================
