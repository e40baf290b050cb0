----------------------------- MODULE RtpSender ------------------------------
(***************************************************************************)
(* What a client of xop::RtspServer is sent over its one TCP socket: RTP   *)
(* packets (RtpConnection) and RTSP replies (RtspConnection), both through *)
(* the connection's BufferWriter, with EPOLLOUT asked for when they think  *)
(* it is needed.  A message is cut in Parts parts; the kernel's buffer     *)
(* takes whole parts, so a message can be left half sent.                  *)
(***************************************************************************)
EXTENDS Integers, Sequences, FiniteSets

CONSTANTS Clients,   \* clients that asked for RTP over TCP
          MaxQueue,  \* _maxQueueLength of the BufferWriter
          SockBuf,   \* parts the socket's send buffer holds
          Parts      \* parts of a message

ASSUME SenderAssumption == {MaxQueue, SockBuf, Parts} \subseteq Nat \ {0}

\* Messages are numbered, client by client, as the queue accepts them; the
\* numbers go round.
Numbers == 0 .. MaxQueue + 1
Succ(n) == (n + 1) % (MaxQueue + 2)

\* The types of frames: "untyped" is 0, which is what AVFrame begins with and
\* what an application that does not set it sends; "P" is all the other types.
FrameTypes == {"untyped", "I", "P"}
Kinds == {"reply"} \cup FrameTypes

VARIABLES play,    \* MediaChannelInfo::isPlay
          idr,     \* RtpConnection::_isIDRFrame
          torn,    \* RtpConnection::_isClosed
          closed,  \* RtspConnection::_isClosed
          out,     \* EVENT_OUT is set in the channel
          buf,     \* parts in the BufferWriter
          next,    \* the number of the next message
          sock,    \* parts in the kernel, not read by the peer
          seen,    \* the last part the peer has read
          gone,    \* the peer has reset the connection
          first    \* history: the type of the first frame sent, or that the
                   \* gate was open when the client began to play

rtpVars  == <<play, idr, torn, first>>
rtspVars == <<closed, out>>
dataVars == <<buf, next, sock, seen>>
vars == <<rtpVars, rtspVars, dataVars, gone>>

Part == [num : Numbers, part : 1 .. Parts, kind : Kinds]

Init ==
  /\ play = [c \in Clients |-> FALSE] /\ idr = [c \in Clients |-> FALSE]
  /\ torn = [c \in Clients |-> FALSE] /\ closed = [c \in Clients |-> FALSE]
  /\ out = [c \in Clients |-> FALSE] /\ gone = [c \in Clients |-> FALSE]
  /\ buf = [c \in Clients |-> <<>>] /\ sock = [c \in Clients |-> <<>>]
  /\ next = [c \in Clients |-> 0]
  /\ seen = [c \in Clients |-> [num |-> MaxQueue + 1, part |-> Parts, kind |-> "reply"]]
  /\ first = [c \in Clients |-> "none"]

-----------------------------------------------------------------------------
(* BufferWriter *)

\* The packets in a queue: each has its last part in it.
Packets(q) == Cardinality({i \in DOMAIN q : q[i].part = Parts})

Message(n, kind) == [i \in 1 .. Parts |-> [num |-> n, part |-> i, kind |-> kind]]

\* Mutation: the limit is tested after the message is in.
Appended_Late(q, n, kind) == IF Packets(q) <= MaxQueue THEN q \o Message(n, kind) ELSE q

\* append: a full queue refuses the message.
Appended(q, n, kind) == IF Packets(q) < MaxQueue THEN q \o Message(n, kind) ELSE q
Numbered(q, n) == IF Packets(q) < MaxQueue THEN Succ(n) ELSE n

\* The parts that repeated calls of send get into the socket; on a socket that
\* was reset the first call fails.
Room(c) == IF gone[c] THEN 0 ELSE SockBuf - Len(sock[c])
Fit(c, q) == IF Len(q) < Room(c) THEN Len(q) ELSE Room(c)
Into(c, q) == SubSeq(q, 1, Fit(c, q))

\* Mutation: the packet is popped although send took only a part of it.
Left_PopsPartial(c, q) ==
  LET rest == SubSeq(q, Fit(c, q) + 1, Len(q)) IN
  IF rest # <<>> /\ rest[1].part > 1 /\ Fit(c, q) > 0
  THEN SelectSeq(rest, LAMBDA p : p.num # rest[1].num) ELSE rest

Left(c, q) == SubSeq(q, Fit(c, q) + 1, Len(q))

\* send returns an error.
Fails(c, q) == gone[c] /\ q # <<>>

-----------------------------------------------------------------------------
(* RtspConnection *)

\* Mutation: the interest in EPOLLOUT is that of the RTP side.
ReplyInterest_Inverted(c, q) == out[c] \/ q = <<>>

\* sendMessage asks for EPOLLOUT when something is left.
ReplyInterest(c, q) == out[c] \/ q # <<>>

\* sendMessage.  A send that fails closes the connection; what is queued then
\* is of no use any more.
SendMessage(c) ==
  LET q == Appended(buf[c], next[c], "reply") IN
  /\ next' = [next EXCEPT ![c] = Numbered(buf[c], @)]
  /\ sock' = [sock EXCEPT ![c] = @ \o Into(c, q)]
  /\ buf' = [buf EXCEPT ![c] = Left(c, q)]
  /\ out' = [out EXCEPT ![c] = IF Fails(c, q) THEN @ ELSE ReplyInterest(c, Left(c, q))]
  /\ closed' = [closed EXCEPT ![c] = Fails(c, q)]

\* handleCmdOption, handleCmdGetParamter and the like.
Request(c) ==
  /\ ~closed[c] /\ ~gone[c]
  /\ SendMessage(c)
  /\ UNCHANGED <<rtpVars, seen, gone>>

\* handleCmdPlay
Play(c) ==
  /\ ~closed[c] /\ ~gone[c]
  /\ play' = [play EXCEPT ![c] = TRUE]
  /\ first' = [first EXCEPT ![c] = IF @ = "none" /\ idr[c] THEN "opened" ELSE @]
  /\ SendMessage(c)
  /\ UNCHANGED <<idr, torn, seen, gone>>

\* Mutation: the interest is dropped with the queue half empty.
WriteInterest_Dropped(c, q) == FALSE

\* handleWrite gives up EPOLLOUT when all is sent.
WriteInterest(c, q) == q # <<>>

\* handleWrite, when epoll reports room or an error.
HandleWrite(c) ==
  /\ ~closed[c] /\ out[c] /\ (Room(c) > 0 \/ gone[c])
  /\ sock' = [sock EXCEPT ![c] = @ \o Into(c, buf[c])]
  /\ buf' = [buf EXCEPT ![c] = Left(c, @)]
  /\ out' = [out EXCEPT ![c] = Fails(c, buf[c]) \/ WriteInterest(c, Left(c, buf[c]))]
  /\ closed' = [closed EXCEPT ![c] = Fails(c, buf[c])]
  /\ UNCHANGED <<rtpVars, next, seen, gone>>

\* handleRead finds that the peer has gone, the heartbeat finds it silent, or a
\* TEARDOWN was answered, whether or not the reply got through.
HandleClose(c) ==
  /\ ~closed[c]
  /\ closed' = [closed EXCEPT ![c] = TRUE]
  /\ UNCHANGED <<rtpVars, out, dataVars, gone>>

-----------------------------------------------------------------------------
(* MediaSession and RtpConnection *)

\* Mutation: any frame opens the gate.
Opens_Any(type) == type \in FrameTypes

\* setFrameType
Opens(type) == type \in {"untyped", "I"}

\* The gate of setRtpHeader and sendRtpPacket.
Receives(c) == ~closed[c] /\ play[c] /\ idr'[c] /\ ~torn[c]

\* sendRtpOverTcp asks for EPOLLOUT when nothing is left.
RtpInterest(c, q) == out[c] \/ q = <<>>

\* The lambda of addMediaSource, for every client of the session: setFrameType,
\* then sendRtpOverTcp for those that play.
SendFrame(type) ==
  LET q(c) == Appended(buf[c], next[c], type) IN
  /\ idr' = [c \in Clients |-> idr[c] \/ (~closed[c] /\ Opens(type))]
  /\ next' = [c \in Clients |-> IF Receives(c) THEN Numbered(buf[c], next[c]) ELSE next[c]]
  /\ sock' = [c \in Clients |-> IF Receives(c) THEN sock[c] \o Into(c, q(c)) ELSE sock[c]]
  /\ buf' = [c \in Clients |-> IF Receives(c) THEN Left(c, q(c)) ELSE buf[c]]
  /\ torn' = [c \in Clients |-> torn[c] \/ (Receives(c) /\ Fails(c, q(c)))]
  /\ out' = [c \in Clients |->
       IF Receives(c) /\ ~Fails(c, q(c)) THEN RtpInterest(c, Left(c, q(c))) ELSE out[c]]
  /\ first' = [c \in Clients |->
       IF Receives(c) /\ first[c] = "none" THEN type ELSE first[c]]
  /\ UNCHANGED <<play, closed, seen, gone>>

-----------------------------------------------------------------------------
(* The peer *)

\* It reads some of what has arrived.
PeerReads(c) ==
  /\ \E k \in 1 .. Len(sock[c]) :
       /\ seen' = [seen EXCEPT ![c] = sock[c][k]]
       /\ sock' = [sock EXCEPT ![c] = SubSeq(@, k + 1, Len(@))]
  /\ UNCHANGED <<rtpVars, rtspVars, buf, next, gone>>

PeerResets(c) ==
  /\ ~gone[c]
  /\ gone' = [gone EXCEPT ![c] = TRUE]
  /\ UNCHANGED <<rtpVars, rtspVars, dataVars>>

-----------------------------------------------------------------------------
Next ==
  \/ \E c \in Clients : \/ Request(c) \/ Play(c) \/ HandleWrite(c) \/ HandleClose(c)
                        \/ PeerReads(c) \/ PeerResets(c)
  \/ \E type \in FrameTypes : SendFrame(type)

Spec == Init /\ [][Next]_vars

\* The loop handles what epoll reports, the encoder goes on producing frames, of
\* whatever types (snedFrame is an endless loop), a peer reads what has arrived
\* or is closed in the end, and one that has reset its connection is found out.
Fairness ==
  /\ WF_vars(\E type \in FrameTypes : SendFrame(type))
  /\ \A c \in Clients :
       /\ WF_vars(HandleWrite(c))
       /\ WF_vars(PeerReads(c) \/ (sock[c] # <<>> /\ HandleClose(c)))
       /\ WF_vars(gone[c] /\ HandleClose(c))

FairSpec == Spec /\ Fairness

-----------------------------------------------------------------------------
(* Properties *)

Shape ==
  /\ {play, idr, torn, closed, out, gone} \subseteq [Clients -> BOOLEAN]
  /\ next \in [Clients -> Numbers] /\ seen \in [Clients -> Part]
  /\ buf \in [Clients -> Seq(Part)] /\ sock \in [Clients -> Seq(Part)]
  /\ \A c \in Clients : Len(sock[c]) <= SockBuf
  /\ first \in [Clients -> {"none", "opened"} \cup FrameTypes]

QueueBounded == \A c \in Clients : Packets(buf[c]) <= MaxQueue

\* The queue never holds more packets than it may, whatever is left of the
\* first, and the kernel no more than fits.
TypeOK == Shape /\ QueueBounded

\* Part y comes right after part x.
Follows(x, y) ==
  \/ y.num = x.num /\ y.part = x.part + 1 /\ y.kind = x.kind
  \/ x.part = Parts /\ y.part = 1 /\ y.num = Succ(x.num)

Joint(read, sent, queued) == read \o sent \o queued
Stream(c) == Joint(<<seen[c]>>, sock[c], buf[c])

\* The peer can find the messages in the stream: what it has read, what is on
\* its way and what is queued are whole messages, each once, in the order in
\* which the queue accepted them, replies never inside an RTP packet.
WholeMessages ==
  \A c \in Clients : \A i \in 1 .. Len(Stream(c)) - 1 :
    Follows(Stream(c)[i], Stream(c)[i + 1])

\* A reply that waits has EPOLLOUT to wait for: RTP traffic in between never
\* takes the interest away.
ReplyHasInterest ==
  \A c \in Clients : \A i \in DOMAIN buf[c] :
    buf[c][i].kind = "reply" => out[c] \/ closed[c]

\* A client that began to play before its gate was open waits for the frame that
\* opens it and is sent that one first, however many other frames pass: an I
\* frame, or one whose type was left at 0, be it an I frame or not.  One whose
\* gate an earlier frame had opened starts with the frame that comes next.
FirstFrameOpens == \A c \in Clients : first[c] # "P"

\* Every message the queue accepted leaves it, unless the connection is closed;
\* for RTP packets only the frames that follow see to that.
Flushed ==
  \A c \in Clients, n \in Numbers :
    (\E i \in DOMAIN buf[c] : buf[c][i].num = n) ~>
      ((\A i \in DOMAIN buf[c] : buf[c][i].num # n) \/ closed[c])
=============================================================================
