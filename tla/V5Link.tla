------------------------------- MODULE V5Link -------------------------------
(***************************************************************************)
(* The video link over TCP.  On the server the encoder thread sends every  *)
(* frame in records to clientPid, which the accept loop closes and         *)
(* replaces; a send to a connection its client has left may kill the       *)
(* process, and a script starts it again.  The client puts records         *)
(* together from what recv returns, and frames from records.               *)
(*                                                                         *)
(* A record (1300 bytes) is two halves on the wire, so that a send or a    *)
(* recv can take a part of it.  The lengths of frames count records.       *)
(***************************************************************************)
EXTENDS Integers, Sequences, FiniteSets

CONSTANTS Fds,       \* descriptors of the server, more than it can lose
          Room,      \* halves the sockets hold
          Records,   \* records of the data of a frame
          Gop,       \* frames from one I frame to the next
          Frames,    \* bound: frames with a number of their own
          MaxTries,  \* bad packages the client puts up with
          MaxFaults, \* bound: time-outs of a send or of the client
          MaxMeets   \* bound: meetings of the threads in a narrow place

ASSUME LinkAssumption ==
  /\ Fds \subseteq Nat \ {0}
  /\ {Room, MaxTries, MaxFaults, MaxMeets} \subseteq Nat
  /\ {Records, Gop, Frames} \subseteq Nat \ {0}

VARIABLES
  up,          \* the server runs
  fds,         \* its descriptors: whose connection
  clientPid,   \* -1 for none
  accepting,   \* the accept loop: select, accept, assign
  newfd,       \* what accept has returned
  doing,       \* the encoder thread: idle, send, close, forget
  isFirst,
  frame,       \* the frame of the encoder,
  part,        \* of which the header or the data is being sent,
  index,       \* and the record
  backlog,     \* connections not accepted yet
  wire,        \* halves on the way to the client
  ended,       \* the server has closed the client's connection
  open,        \* serverPid of the client is a socket
  save,        \* saveBuff up to saveLen
  needRestart,
  box,         \* tmpFrameBox up to totalLen
  mLen,        \* vdec_stream.mLen
  trycount,
  decoded,     \* history: what the decoder was given last
  faults, met, \* history: their number
  spoilt,      \* history: the client holds, or will get, a part of something
  gap,         \* history: the encoder has found no client since it last sent
  clean,       \* history: so when the client's connection was accepted
  first,       \* history: the first part sent on that connection
  leaked       \* history: clientPid was forgotten while it was open

acceptVars == <<accepting, newfd, backlog>>
encoderVars == <<doing, isFirst, frame, part, index, gap>>
clientVars == <<open, save, needRestart, box, mLen, trycount, decoded>>
vars == <<up, fds, clientPid, acceptVars, encoderVars, wire, ended, clientVars,
          faults, met, spoilt, clean, first, leaked>>

ServerInit ==
  /\ up = TRUE
  /\ fds = [f \in Fds |-> "free"] /\ clientPid = -1
  /\ accepting = "select" /\ newfd = -1 /\ backlog = <<>>
  /\ doing = "idle" /\ isFirst = TRUE
  /\ frame = Frames - 1 /\ part = "data" /\ index = 1
  /\ gap = TRUE

Init ==
  /\ ServerInit
  /\ wire = <<>> /\ ended = FALSE
  /\ open = FALSE /\ save = <<>> /\ needRestart = TRUE
  /\ box = <<>> /\ mLen = 0 /\ trycount = 0
  /\ decoded = <<>> /\ faults = 0 /\ met = 0 /\ spoilt = FALSE
  /\ clean = FALSE /\ first = "none" /\ leaked = FALSE

-----------------------------------------------------------------------------
(* The encoder thread: SendStream_1 and sendToSocket *)

Size(p) == IF p = "head" THEN 1 ELSE Records
Halves(r) == <<r \o <<1>>, r \o <<2>>>>
Record == <<part, frame, index>>

\* close(fd): a client whose connection it is reads to its end.
Closed(f) ==
  /\ fds' = [g \in Fds |-> IF g = f THEN "free" ELSE fds[g]]
  /\ ended' = (ended \/ (f \in Fds /\ fds[f] = "live"))

\* Mutation: a frame that is not sent leaves isFirst alone.
Skip_KeepsFirst == UNCHANGED isFirst

Skip == isFirst' = TRUE

\* The threads meet in their narrow places a bounded number of times.
Meets(narrow) ==
  \/ ~narrow /\ UNCHANGED met
  \/ narrow /\ met < MaxMeets /\ met' = met + 1

\* The next frame of the encoder is sent, or skipped until an I frame comes.
GetFrame ==
  /\ up /\ doing = "idle"
  /\ Meets(accepting # "select")
  /\ frame' = (frame + 1) % Frames
  /\ \/ /\ clientPid > 0 /\ (~isFirst \/ frame' % Gop = 0)
        /\ doing' = "send" /\ isFirst' = FALSE /\ gap' = FALSE
        /\ part' = IF frame' % Gop = 0 THEN "head" ELSE "data"
        /\ index' = 1
     \/ /\ ~(clientPid > 0 /\ (~isFirst \/ frame' % Gop = 0))
        /\ Skip /\ gap' = (gap \/ clientPid <= 0)
        /\ UNCHANGED <<doing, part, index>>
  /\ UNCHANGED <<up, fds, clientPid, acceptVars, wire, ended, clientVars, faults,
                 spoilt, clean, first, leaked>>

\* sendToSocket returns: after the header comes the data.
Done ==
  /\ doing' = IF part = "head" THEN "send" ELSE "idle"
  /\ part' = "data" /\ index' = 1

\* More than 0 bytes are taken for all of them.
Taken ==
  \/ index < Size(part) /\ index' = index + 1 /\ UNCHANGED <<doing, part>>
  \/ index = Size(part) /\ Done

\* EINTR and EAGAIN are looked for in the result, not in errno.
Failed == doing' = "close" /\ UNCHANGED <<part, index>>

Sending(whose) ==
  /\ up /\ doing = "send"
  /\ whose = IF clientPid \in Fds THEN fds[clientPid] ELSE "free"

\* send to a client that is there blocks while there is no room, for 5 s.
SendToClient ==
  /\ Sending("live")
  /\ \/ Len(wire) + 2 <= Room /\ wire' = wire \o Halves(Record)
        /\ Taken /\ UNCHANGED <<faults, spoilt>>
     \/ Len(wire) + 1 = Room /\ wire' = Append(wire, Halves(Record)[1])
        /\ Taken /\ faults < MaxFaults /\ faults' = faults + 1 /\ spoilt' = TRUE
     \/ Len(wire) >= Room /\ UNCHANGED <<wire, spoilt>>
        /\ Failed /\ faults < MaxFaults /\ faults' = faults + 1
  /\ first' = IF first = "none" /\ wire' # wire THEN part ELSE first
  /\ UNCHANGED <<up, fds, clientPid, acceptVars, isFirst, frame, gap, ended,
                 clientVars, clean, met, leaked>>

\* A connection the client has left takes records until the reset arrives.
SendToNobody ==
  /\ \/ Sending("dead") /\ Taken
     \/ (Sending("dead") \/ Sending("free")) /\ Failed
  /\ UNCHANGED <<up, fds, clientPid, acceptVars, isFirst, frame, gap, wire, ended,
                 clientVars, faults, spoilt, clean, first, met, leaked>>

\* send on a connection that was reset raises SIGPIPE: the kernel closes what
\* the process had, and the next one starts afresh.
Killed ==
  /\ Sending("dead")
  /\ up' = FALSE
  /\ fds' = [f \in Fds |-> "free"] /\ clientPid' = -1
  /\ accepting' = "select" /\ newfd' = -1 /\ backlog' = <<>>
  /\ doing' = "idle" /\ isFirst' = TRUE
  /\ frame' = Frames - 1 /\ part' = "data" /\ index' = 1
  /\ gap' = TRUE /\ leaked' = FALSE
  /\ ended' = open
  /\ UNCHANGED <<wire, clientVars, faults, met, spoilt, clean, first>>

\* The script starts the server when it is not there.
Start ==
  /\ ~up
  /\ up' = TRUE
  /\ UNCHANGED <<fds, clientPid, acceptVars, encoderVars, wire, ended, clientVars,
                 faults, met, spoilt, clean, first, leaked>>

\* After a failed send: close(clientPid), then clientPid = -1.
CloseClient ==
  /\ doing = "close"
  /\ Closed(clientPid)
  /\ doing' = "forget"
  /\ UNCHANGED <<up, clientPid, acceptVars, isFirst, frame, part, index, gap, wire,
                 clientVars, faults, spoilt, clean, first, met, leaked>>

ForgetClient ==
  /\ doing = "forget"
  /\ clientPid' = -1 /\ Done
  /\ leaked' = (leaked \/ (clientPid \in Fds /\ fds[clientPid] # "free"))
  /\ UNCHANGED <<up, fds, acceptVars, isFirst, frame, gap, wire, ended, clientVars,
                 faults, met, spoilt, clean, first>>
-----------------------------------------------------------------------------
(* The accept loop of the server *)

\* Mutation: the descriptor of the client before is left open.
CloseOld_Not == UNCHANGED <<fds, ended>>

CloseOld == Closed(clientPid)

\* Mostly no send has just failed while the loop accepts.
AcceptMeets == Meets(doing \in {"close", "forget"})

Select ==
  /\ up /\ accepting = "select" /\ backlog # <<>>
  /\ AcceptMeets
  /\ accepting' = "accept"
  /\ CloseOld
  /\ UNCHANGED <<up, clientPid, newfd, backlog, encoderVars, wire, clientVars, faults,
                 spoilt, clean, first, leaked>>

\* user_connect: accept returns the lowest descriptor that is free.
Lowest(f) == fds[f] = "free" /\ \A g \in Fds : fds[g] = "free" => f <= g
Accept ==
  /\ accepting = "accept" /\ AcceptMeets
  /\ accepting' = "assign"
  /\ \E f \in Fds : /\ Lowest(f)
                    /\ newfd' = f
                    /\ fds' = [fds EXCEPT ![f] = Head(backlog)]
  /\ backlog' = Tail(backlog)
  /\ clean' = IF Head(backlog) = "live" THEN gap ELSE clean
  /\ first' = IF Head(backlog) = "live" THEN "none" ELSE first
  /\ UNCHANGED <<up, clientPid, encoderVars, wire, ended, clientVars, faults,
                 spoilt, leaked>>

Assign ==
  /\ accepting = "assign" /\ AcceptMeets
  /\ accepting' = "select" /\ clientPid' = newfd
  /\ UNCHANGED <<up, fds, newfd, backlog, encoderVars, wire, ended, clientVars, faults,
                 spoilt, clean, first, leaked>>

-----------------------------------------------------------------------------
(* The client: main and getDataToVDEC *)

\* A server that is not there refuses the connection, which the first recv
\* finds out.
ConnectServer ==
  /\ ~open
  /\ open' = TRUE /\ wire' = <<>>
  /\ ended' = ~up
  /\ backlog' = IF up THEN Append(backlog, "live") ELSE <<>>
  /\ UNCHANGED <<up, fds, clientPid, accepting, newfd, encoderVars, save, needRestart,
                 box, mLen, trycount, decoded, faults, spoilt, clean, first, met, leaked>>

\* close: whatever was on its way is lost.
Left(whose) == IF whose = "live" THEN "dead" ELSE whose
CloseServer ==
  /\ open' = FALSE /\ wire' = <<>>
  /\ fds' = [f \in Fds |-> Left(fds[f])]
  /\ backlog' = [i \in DOMAIN backlog |-> Left(backlog[i])]
  /\ UNCHANGED <<up, clientPid, accepting, newfd, encoderVars, ended, decoded, clean,
                 first, met, leaked>>

\* Mutation: half a record survives.
Restart_KeepsSave == needRestart' = TRUE /\ box' = <<>> /\ mLen' = 0 /\ UNCHANGED save

Restart == needRestart' = TRUE /\ box' = <<>> /\ mLen' = 0 /\ save' = <<>>

\* recv returns 0 or less.
ServerGone ==
  /\ open /\ ended /\ wire = <<>>
  /\ CloseServer
  /\ Restart /\ spoilt' = FALSE
  /\ UNCHANGED <<trycount, faults>>

\* Mutation: select waits without a limit.
Forgotten_Never == FALSE

\* Five seconds without data, because the network is slow, or because the
\* server has forgotten the connection; nothing is reset.
Forgotten ==
  /\ up /\ ~ended /\ wire = <<>> /\ backlog = <<>> /\ accepting = "select"
  /\ ~(clientPid \in Fds /\ fds[clientPid] = "live")
TimeOut ==
  /\ open
  /\ \/ Forgotten /\ UNCHANGED faults
     \/ faults < MaxFaults /\ faults' = faults + 1
  /\ CloseServer
  /\ spoilt' = (spoilt \/ save # <<>> \/ (~needRestart /\ Len(box) # mLen))
  /\ UNCHANGED <<save, needRestart, box, mLen, trycount>>

IsWhole == mLen > 0 /\ Len(box) = mLen

\* What is done with a record: its first one starts a frame, and the frame
\* before goes to the decoder if it has the length that was announced.
Package(r) ==
  LET start == r[3] = 1
      tooLong == Len(box) > Size(r[1])
  IN  \/ /\ start
         /\ decoded' = IF IsWhole /\ ~needRestart THEN box ELSE decoded
         /\ needRestart' = FALSE /\ mLen' = Size(r[1]) /\ box' = <<r>>
      \/ /\ ~start
         /\ box' = CASE needRestart -> box
                     [] ~needRestart /\ r[3] = 0 -> IF tooLong THEN <<box[1]>> ELSE box
                     [] OTHER -> IF tooLong THEN <<box[1], r>> ELSE Append(box, r)
         /\ UNCHANGED <<decoded, needRestart, mLen>>

\* recv returns k halves, which go behind what is saved.
Got(k) == save \o SubSeq(wire, 1, k)
Arrives(k) ==
  /\ open /\ k <= Len(wire)
  /\ wire' = SubSeq(wire, k + 1, Len(wire))
  /\ UNCHANGED <<up, fds, clientPid, acceptVars, encoderVars, ended, open, faults,
                 spoilt, clean, first, met, leaked>>

\* A whole record or two halves that are none: those are read as a header that
\* is bad, or as one of any kind.
Fits(h) == h[1][4] = 1 /\ h[2] = [h[1] EXCEPT ![4] = 2]
Strange == {<<p, Frames, i>> : p \in {"head", "data"}, i \in 0 .. 2}

RecvHalf ==
  \E k \in 1 .. 2 :
    /\ Arrives(k) /\ Len(Got(k)) < 2
    /\ save' = Got(k)
    /\ UNCHANGED <<needRestart, box, mLen, trycount, decoded>>

RecvRecord ==
  \E k \in 1 .. 2 :
    /\ Arrives(k) /\ Len(Got(k)) >= 2
    /\ save' = SubSeq(Got(k), 3, Len(Got(k)))
    /\ \/ Fits(Got(k)) /\ Package(SubSeq(Got(k)[1], 1, 3))
       \/ ~Fits(Got(k)) /\ \E r \in Strange : Package(r)
    /\ UNCHANGED trycount

RecvBad ==
  \E k \in 1 .. 2 :
    /\ Arrives(k) /\ Len(Got(k)) >= 2 /\ ~Fits(Got(k))
    /\ trycount <= MaxTries /\ trycount' = trycount + 1
    /\ save' = SubSeq(Got(k), 3, Len(Got(k)))
    /\ UNCHANGED <<needRestart, box, mLen, decoded>>

GiveUp ==
  /\ open /\ trycount > MaxTries
  /\ \E k \in 1 .. 2 : k <= Len(wire) /\ Len(Got(k)) >= 2 /\ ~Fits(Got(k))
  /\ CloseServer
  /\ Restart /\ trycount' = 0 /\ spoilt' = FALSE
  /\ UNCHANGED faults

-----------------------------------------------------------------------------
Encoder ==
  \/ GetFrame \/ SendToClient \/ SendToNobody \/ Killed
  \/ CloseClient \/ ForgetClient
AcceptLoop == Select \/ Accept \/ Assign
Client ==
  \/ ConnectServer \/ ServerGone \/ TimeOut
  \/ RecvHalf \/ RecvRecord \/ RecvBad \/ GiveUp

Next == Encoder \/ Start \/ AcceptLoop \/ Client

Spec == Init /\ [][Next]_vars

\* Both threads of the server and the client run; data that is no header is
\* not taken for one for ever.
Fairness ==
  /\ WF_vars(GetFrame) /\ WF_vars(SendToClient \/ SendToNobody)
  /\ WF_vars(CloseClient) /\ WF_vars(ForgetClient)
  /\ WF_vars(Start) /\ WF_vars(AcceptLoop)
  /\ WF_vars(ConnectServer) /\ WF_vars(ServerGone)
  /\ WF_vars(Forgotten /\ TimeOut)
  /\ WF_vars(RecvHalf \/ RecvRecord) /\ SF_vars(RecvBad) /\ SF_vars(GiveUp)

FairSpec == Spec /\ Fairness

-----------------------------------------------------------------------------
(* Properties *)

\* What the decoder gets is the header of an I frame or all the records of one
\* frame in their order, unless a send was cut short or the client has timed out
\* in the middle of a frame and has not been disconnected since (what recv
\* returning 0 resets and the time-out does not).
WholeFrames ==
  [][decoded' # decoded /\ ~spoilt =>
       LET r == decoded'[1]
       IN  decoded' = [i \in 1 .. Size(r[1]) |-> <<r[1], r[2], i>>]]_vars

\* A connection that was accepted when the encoder had found no client begins
\* with the header of an I frame, whatever accept and send do to clientPid in
\* between (isFirst).
BeginsWithI == clean => first \in {"none", "head"}

\* The server keeps one descriptor of a client open at a time, the one in
\* clientPid; others stay open only when clientPid = -1 after a failed send has
\* overtaken the accept loop.
OneClient ==
  \A f \in Fds : fds[f] # "free" =>
    f = clientPid \/ (accepting = "assign" /\ f = newfd) \/ leaked

\* However the threads interleave, the decoder gets a frame again and again: a
\* client that the server forgets, and one that is out of step with the records,
\* connects anew.
Watched == []<><<decoded' # decoded>>_vars
=============================================================================
