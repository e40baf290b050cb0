---------------------------- MODULE RequestReader ---------------------------
(***************************************************************************)
(* How an RtspConnection of xop::RtspServer reads requests: handleRead,    *)
(* handleRtspRequest and RtspRequest.  A client writes its requests one    *)
(* after the other, and one may lack what the server looks for; with RTP   *)
(* over TCP it may send RTCP on the same stream.                           *)
(***************************************************************************)
EXTENDS BufferReader

CONSTANTS Methods,      \* the methods clients use
          MaxRequests,  \* bound: requests of a client
          MaxLacks,     \* bound: requests that lack something
          MaxRtcp,      \* bound: its RTCP packets
          Pipelining    \* a client may send a request before the last reply

Known == {"OPTIONS", "DESCRIBE", "SETUP", "PLAY", "TEARDOWN", "GET_PARAMETER"}
ASSUME RequestAssumption ==
  /\ {MaxRequests, MaxLacks, MaxRtcp} \subseteq Nat
  /\ Pipelining \in BOOLEAN
  /\ "none" \notin Methods  \* what stands for no method

VARIABLES state,    \* RtspRequest::_state
          line,     \* the request whose line is in _requestLineParam, 0 for none
          method,   \* RtspRequest::_method
          cseq,     \* "cseq" in _headerLineParam, 0 for none
          sent,     \* requests the client has sent
          rtcp,     \* and its RTCP packets
          lacks,    \* history: which request lacked what
          reply,    \* the last reply: to which request line, with which CSeq
          together  \* history: a request was sent before the reply to the last

parserVars == <<state, line, method, cseq>>
clientVars == <<sent, rtcp, lacks, together>>
requestVars == <<streamVars, parserVars, clientVars, reply>>

RequestInit ==
  /\ BufferInit
  /\ state = "kParseRequestLine" /\ line = 0 /\ method = "none" /\ cseq = 0
  /\ sent = 0 /\ rtcp = 0 /\ lacks = {} /\ together = FALSE
  /\ reply = [line |-> 0, cseq |-> 0]

-----------------------------------------------------------------------------
(* RtspRequest *)

Crlfs(s) == {i \in DOMAIN s : s[i].kind = "crlf"}
FirstCrlf(s) == CHOOSE i \in Crlfs(s) : \A j \in Crlfs(s) : i <= j

\* Mutation: the headers are read up to their first CRLF, too.
LastCrlf_First(s) == CHOOSE i \in Crlfs(s) : \A j \in Crlfs(s) : i <= j

LastCrlf(s) == CHOOSE i \in Crlfs(s) : \A j \in Crlfs(s) : j <= i
After(s, i) == SubSeq(s, i + 1, Len(s))

\* Text that is not three words is no request line, and is skipped; what begins
\* with RTCP ends for sscanf at its first zero byte.
IsThreeWords(text) == Len(text) = 1 /\ text[1].kind \in {"request", "badurl", "agent"}

\* Of three words, the first must be a method, and the second must say rtsp://,
\* a host and a suffix.
IsRequestLine(text) ==
  Len(text) = 1 /\ text[1].kind = "request" /\ text[1].method \in Known

\* parseRequestLine of the text before the first CRLF; only that line is used
\* up, also when it is skipped.  The method is set before the URL is looked at.
ParseRequestLine(p) ==
  LET i == FirstCrlf(p.unread)
      text == SubSeq(p.unread, 1, i - 1)
      ok == IsRequestLine(text)
  IN  IF Crlfs(p.unread) = {} THEN p
      ELSE [p EXCEPT !.unread = After(p.unread, i),
                     !.ok = ~IsThreeWords(text) \/ ok,
                     !.state = IF ok THEN "kParseHeadersLine" ELSE @,
                     !.line = IF ok THEN text[1].of ELSE @,
                     !.method = IF IsThreeWords(text) THEN text[1].method ELSE @]

\* The header without which a request of that method is not complete.
Needed(m) == CASE m = "DESCRIBE" -> {"Accept"}
               [] m = "SETUP" -> {"Transport"}
               [] m = "PLAY" -> {"Session"}
               [] OTHER -> {}

\* parseHeadersLine of all the lines received: the CSeq must be among them or
\* have been found before; the first one counts (emplace).
ParseHeadersLine(p) ==
  LET i == LastCrlf(p.unread)
      lines == SubSeq(p.unread, 1, i)
      numbers == {j \in DOMAIN lines : lines[j].kind = "CSeq"}
      first == CHOOSE j \in numbers : \A k \in numbers : j <= k
      ok == numbers # {} \/ p.cseq # 0
      found == Needed(p.method) \subseteq {lines[j].kind : j \in DOMAIN lines}
  IN  IF Crlfs(p.unread) = {} THEN p
      ELSE [p EXCEPT !.unread = After(p.unread, i),
                     !.ok = ok,
                     !.cseq = IF p.cseq = 0 /\ numbers # {} THEN lines[first].of ELSE @,
                     !.state = IF ok /\ found THEN "kGotAll" ELSE @]

\* parseRequest
ParseRequest(p) ==
  LET q == IF p.state = "kParseRequestLine" THEN ParseRequestLine(p) ELSE p
  IN  IF q.state = "kParseHeadersLine" THEN ParseHeadersLine(q) ELSE q

Parser(s) == [state |-> state, line |-> line, method |-> method, cseq |-> cseq,
              unread |-> s, ok |-> TRUE]

-----------------------------------------------------------------------------
(* RtspConnection::handleRead and handleRtspRequest *)

\* Mutation: reset does not clear the headers.
Reset_KeepsHeaders == state' = "kParseRequestLine" /\ line' = 0 /\ UNCHANGED cseq

\* Mutation: the parser stays where it is.
Reset_KeepsState == state' = "kGotAll" /\ line' = 0 /\ cseq' = 0

\* RtspRequest::reset
Reset == state' = "kParseRequestLine" /\ line' = 0 /\ cseq' = 0

\* Parsing fails: the connection is closed.
BadRequest(p) ==
  /\ ~p.ok
  /\ Close("bad")
  /\ Retrieved(p.unread, reader)
  /\ state' = p.state /\ line' = p.line /\ method' = p.method /\ cseq' = p.cseq
  /\ UNCHANGED reply

\* There is more to come.
PartOfRequest(p, received) ==
  /\ p.ok /\ p.state # "kGotAll"
  /\ state' = p.state /\ line' = p.line /\ method' = p.method /\ cseq' = p.cseq
  /\ Kept(received, p.unread)
  /\ UNCHANGED <<closed, reply>>

\* The request is answered; what else has been read is dropped.
WholeRequest(p) ==
  /\ p.ok /\ p.state = "kGotAll"
  /\ reply' = [line |-> p.line, cseq |-> p.cseq]
  /\ Reset /\ method' = p.method
  /\ Retrieved(<<>>, 0)
  /\ Close(IF p.method = "TEARDOWN" THEN "torn" ELSE "no")

HandleRead ==
  /\ closed = "no"
  /\ \E k \in 1 .. Len(wire) :
       /\ ReadFd(k, {"request", "badurl", "rtcp", "end"})
       /\ LET p == ParseRequest(Parser(Received(k)))
          IN  BadRequest(p) \/ PartOfRequest(p, Received(k)) \/ WholeRequest(p)
  /\ UNCHANGED clientVars

HandleReadFails == ReadFails /\ UNCHANGED <<parserVars, clientVars, reply>>

-----------------------------------------------------------------------------
(* The client *)

\* What a request of that method may lack: a URL that the server takes, its
\* CSeq, a header it is not complete without.
Lackable(m) == {"url", "CSeq"} \cup Needed(m)

\* The headers of a request, in any order: its CSeq and what its method needs,
\* but for what it lacks, and perhaps one whose value has two words or more.
HeaderSets(m, lack) ==
  {(({"CSeq"} \cup Needed(m)) \ lack) \cup extra : extra \in SUBSET {"agent"}}
HeaderOrders(m, lack) ==
  UNION {{h \in [1 .. Cardinality(S) -> S] : {h[i] : i \in DOMAIN h} = S} :
           S \in HeaderSets(m, lack)}

\* The lines of a request and the empty one that ends it.
Request(n, m, lack, headers) ==
  <<Text(IF "url" \in lack THEN "badurl" ELSE "request", n, m), Crlf(n)>>
    \o [i \in 1 .. 2 * Len(headers) |->
          IF i % 2 = 1 THEN Text(headers[(i + 1) \div 2], n, "none") ELSE Crlf(n)]
    \o <<Crlf(n)>>

SendRequest(m) ==
  /\ Connected
  /\ sent < MaxRequests
  /\ Pipelining \/ reply.line = sent
  /\ \E lack \in {{}} \cup {{x} : x \in Lackable(m)} :
       /\ lack = {} \/ Cardinality(lacks) < MaxLacks
       /\ lacks' = lacks \cup ({sent + 1} \X lack)
       /\ \E headers \in HeaderOrders(m, lack) :
            wire' = wire \o Request(sent + 1, m, lack, headers)
  /\ sent' = sent + 1
  /\ together' = (together \/ reply.line # sent)
  /\ UNCHANGED <<bufferVars, split, closed, parserVars, reply, rtcp>>

SendRtcp ==
  /\ Connected
  /\ rtcp < MaxRtcp /\ reply.line > 0
  /\ wire' = Append(wire, Rtcp)
  /\ rtcp' = rtcp + 1
  /\ UNCHANGED <<bufferVars, split, closed, parserVars, reply, sent, lacks, together>>

ClientHangup == Hangup /\ UNCHANGED <<parserVars, reply, clientVars>>

-----------------------------------------------------------------------------
RequestNext ==
  \/ HandleRead \/ HandleReadFails
  \/ \E m \in Methods : SendRequest(m)
  \/ SendRtcp \/ ClientHangup

RequestSpec == RequestInit /\ [][RequestNext]_requestVars

-----------------------------------------------------------------------------
(* Properties *)

\* Every reply answers a request with the CSeq of that request, once, and in the
\* order of the requests, however they are cut or run together (the header map
\* that reset clears, the method and the URL of the request line).  Only one
\* that has no CSeq can get another, that of a request behind it.
OwnReply ==
  [][reply' # reply =>
       /\ reply'.line > reply.line
       /\ \/ reply'.cseq = reply'.line
          \/ <<reply'.line, "CSeq">> \in lacks /\ reply'.cseq > reply'.line]_requestVars

\* No request lacked a header its method needs: with any other lack the server
\* does not wait for more.
Completable == \A lack \in lacks : lack[2] \in {"url", "CSeq"}

\* A client whose requests arrive whole, with the headers their methods need, and
\* who sends no RTCP, is in step with the parser after every read: nothing is
\* left in the buffer, and all that was asked one at a time is answered.
InStep ==
  closed = "no" /\ ~split /\ rtcp = 0 /\ Completable =>
    /\ unread = <<>> /\ state = "kParseRequestLine"
    /\ ~together /\ wire = <<>> => reply.line = sent

\* The server closes a connection that its client has not left or torn down only
\* over a method it does not know, a URL it does not take, a request without
\* CSeq, or over a request that came in pieces or behind RTCP.
ClosedForCause ==
  closed \in {"bad", "full"} =>
    \/ split \/ rtcp > 0
    \/ method \notin Known \cup {"none"}
    \/ \E lack \in lacks : lack[2] \in {"url", "CSeq"}
=============================================================================
