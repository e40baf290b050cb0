----------------------------- MODULE RtspPusher -----------------------------
(***************************************************************************)
(* xop::RtspPusher and the client half of RtspConnection: openUrl posts    *)
(* the new connection to the loop, which sends OPTIONS and then one        *)
(* request for every response it takes for good, up to RECORD.  The server *)
(* it talks to answers the requests in order; a response, like a request,  *)
(* may arrive in pieces.  Once it records, the server is silent.           *)
(***************************************************************************)
EXTENDS BufferReader

CONSTANT Tracks  \* media sources of the session

ASSUME PusherAssumption == Tracks \in 0 .. 2  \* MAX_MEDIA_CHANNEL

VARIABLES opening,   \* openUrl has not been called, is posted, or has run
          media,     \* _mediaSessions is set
          closing,   \* close has posted handleClose
          rmethod,   \* RtspResponse::_method
          rcseq,     \* RtspResponse::_cseq
          setups,    \* tracks set up
          playing,   \* isPlay of the tracks: frames are sent
          stale,     \* what earlier responses have left behind _writerIndex
          requests,  \* history: the requests sent
          served,    \* requests the server has answered
          heard,     \* history: responses received to their end
          refusal    \* history: one of them was an error

callerVars  == <<opening, media, closing>>
clientState == <<rmethod, rcseq, setups, playing, requests>>
pusherVars  == <<callerVars, clientState, stale, served, heard, refusal>>

PusherInit ==
  /\ BufferInit
  /\ opening = "no" /\ media = TRUE /\ closing = FALSE
  /\ rmethod = "none" /\ rcseq = 0 /\ setups = 0 /\ playing = FALSE
  /\ stale = <<>> /\ requests = <<>>
  /\ served = 0 /\ heard = 0 /\ refusal = FALSE

-----------------------------------------------------------------------------
(* Calls of the application *)

OpenUrl ==
  /\ opening = "no"
  /\ opening' = "posted"
  /\ UNCHANGED <<streamVars, media, closing, clientState, stale, served, heard, refusal>>

RemoveMediaSession ==
  /\ media
  /\ media' = FALSE
  /\ UNCHANGED <<streamVars, opening, closing, clientState, stale, served, heard, refusal>>

\* close posts handleClose for the connections there are.
CloseUrl ==
  /\ opening = "yes" /\ closed = "no" /\ ~closing
  /\ closing' = TRUE
  /\ UNCHANGED <<streamVars, opening, media, clientState, stale, served, heard, refusal>>

-----------------------------------------------------------------------------
(* RtspConnection as a client *)

\* Mutation: the number is taken before the response is counted.
Send_OldNumber(m) ==
  /\ rmethod' = m
  /\ requests' = Append(requests, [method |-> m, cseq |-> rcseq + 1])

\* setMethod and sendMessage
Send(m) ==
  /\ rmethod' = m
  /\ requests' = Append(requests, [method |-> m, cseq |-> rcseq' + 1])

\* The callback of openUrl: newConnection and sendOptions.
NewClient ==
  /\ opening = "posted"
  /\ opening' = "yes"
  /\ UNCHANGED rcseq
  /\ Send("OPTIONS")
  /\ UNCHANGED <<streamVars, media, closing, setups, playing, stale, served, heard, refusal>>

\* handleClose, called for close
HandleClosing ==
  /\ closing /\ closed = "no"
  /\ Close("done")
  /\ UNCHANGED <<wire, bufferVars, split, pusherVars>>

SendAnnounce ==
  /\ UNCHANGED <<setups, playing>>
  /\ \/ media /\ Send("ANNOUNCE") /\ UNCHANGED closed
     \/ ~media /\ Close("session") /\ UNCHANGED <<rmethod, requests>>

\* Mutation: the track is set up when its response comes.
SendSetup_Again ==
  /\ UNCHANGED playing
  /\ \/ ~media /\ Close("session") /\ rmethod' = "SETUP" /\ UNCHANGED <<setups, requests>>
     \/ /\ media /\ (setups < Tracks \/ rmethod = "ANNOUNCE")
        /\ Send("SETUP")
        /\ setups' = IF rmethod = "SETUP" THEN setups + 1 ELSE setups
        /\ UNCHANGED closed
     \/ media /\ setups = Tracks /\ Send("RECORD") /\ UNCHANGED <<setups, closed>>

\* sendSetup: the next track that is not set up, or RECORD.
SendSetup ==
  /\ UNCHANGED playing
  /\ \/ ~media /\ Close("session") /\ rmethod' = "SETUP" /\ UNCHANGED <<setups, requests>>
     \/ media /\ setups < Tracks /\ Send("SETUP") /\ setups' = setups + 1 /\ UNCHANGED closed
     \/ media /\ setups = Tracks /\ Send("RECORD") /\ UNCHANGED <<setups, closed>>

HandleRecord ==
  /\ playing' = TRUE
  /\ UNCHANGED <<rmethod, setups, requests, closed>>

\* Mutation: the answer to SETUP is taken for one that needs no request.
NextRequest_OneSetup ==
  \/ rmethod = "OPTIONS" /\ SendAnnounce
  \/ rmethod = "ANNOUNCE" /\ SendSetup
  \/ rmethod = "SETUP" /\ UNCHANGED <<rmethod, setups, requests, closed, playing>>
  \/ rmethod = "RECORD" /\ HandleRecord

\* handleRtspResponse goes by the request sent last.
NextRequest ==
  \/ rmethod = "OPTIONS" /\ SendAnnounce
  \/ rmethod \in {"ANNOUNCE", "SETUP"} /\ SendSetup
  \/ rmethod = "RECORD" /\ HandleRecord

\* What strstr sees: all from _readerIndex on, past _writerIndex too.
Kinds(s) == {s[i].kind : i \in DOMAIN s}

\* What is behind the write index after k tokens have been received.
Beyond(k) == SubSeq(stale, k + 1, Len(stale))

IsGood(seen) == "OK" \in seen

\* parseResponse is false: the end of a message is there, and no OK.
BadResponse(k, seen) ==
  /\ "blank" \in seen /\ ~IsGood(seen)
  /\ Close("bad")
  /\ Retrieved(Received(k), reader) /\ stale' = Beyond(k)
  /\ UNCHANGED clientState

\* A response that ends: it is counted and everything received is used up
\* (retrieveUntil is given an address outside the buffer).
WholeResponse(k, seen) ==
  /\ "blank" \in seen /\ IsGood(seen)
  /\ rcseq' = rcseq + 1
  /\ Retrieved(<<>>, 0) /\ stale' = Received(k) \o Beyond(k)
  /\ NextRequest

\* One that does not end yet: parseResponse is true for it, too.
PartOfResponse(k, seen) ==
  /\ "blank" \notin seen
  /\ UNCHANGED rcseq
  /\ Kept(Received(k), Received(k))
  /\ stale' = IF unread' = <<>> THEN Received(k) \o Beyond(k) ELSE Beyond(k)
  /\ NextRequest

Ends(k) == {i \in 1 .. k : wire[i].kind = "blank"}

HandleResponse ==
  /\ closed = "no"
  /\ \E k \in 1 .. Len(wire) :
       /\ ReadFd(k, {"head", "end"})
       /\ heard' = heard + Cardinality(Ends(k))
       /\ refusal' = (refusal \/ \E i \in Ends(k) : wire[i].method = "error")
       /\ LET seen == Kinds(Received(k) \o Beyond(k))
          IN  BadResponse(k, seen) \/ WholeResponse(k, seen) \/ PartOfResponse(k, seen)
  /\ UNCHANGED <<callerVars, served>>

ResponseFails == ReadFails /\ UNCHANGED pusherVars

-----------------------------------------------------------------------------
(* The server *)

\* "RTSP/1.0 200 ", "OK" or an error, the other header lines, the empty line
Response(word) ==
  <<Text("head", 0, "none"), Text(word, 0, "none"), Text("fields", 0, "none"),
    Text("blank", 0, word)>>

Respond ==
  /\ Connected /\ served < Len(requests)
  /\ \E word \in {"OK", "error"} : wire' = wire \o Response(word)
  /\ served' = served + 1
  /\ UNCHANGED <<bufferVars, split, closed, callerVars, clientState, stale,
                 heard, refusal>>

ServerHangup == opening = "yes" /\ Hangup /\ UNCHANGED pusherVars

-----------------------------------------------------------------------------
PusherStep == NewClient \/ HandleClosing \/ HandleResponse \/ ResponseFails
PusherNext ==
  \/ OpenUrl \/ RemoveMediaSession \/ CloseUrl
  \/ PusherStep
  \/ Respond \/ ServerHangup

PusherSpec == PusherInit /\ [][PusherNext]_<<streamVars, pusherVars>>

-----------------------------------------------------------------------------
(* Properties *)

Handshake == <<"OPTIONS", "ANNOUNCE">> \o [i \in 1 .. Tracks |-> "SETUP"] \o <<"RECORD">>

\* Whatever pieces the responses come in, the pusher asks for one thing after
\* the other, every track once and RECORD last, and sends no frame before that.
InOrder ==
  /\ Len(requests) <= Len(Handshake)
  /\ \A i \in DOMAIN requests : requests[i].method = Handshake[i]
  /\ playing => Len(requests) = Len(Handshake)

\* As long as responses arrive whole, no request is sent before the one ahead of
\* it was granted, each has a number of its own, and frames wait for the answer
\* to RECORD.
OneAtATime ==
  ~split =>
    /\ Len(requests) <= heard + 1
    /\ \A i \in DOMAIN requests : requests[i].cseq = i
    /\ playing => heard = Len(requests)
    /\ refusal => closed # "no"

\* The handshake comes to an end, whether or not the responses arrive in pieces
\* or run together.
Recording == opening = "posted" ~> playing \/ closed # "no"
=============================================================================
