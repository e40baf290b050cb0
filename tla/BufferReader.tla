---------------------------- MODULE BufferReader ----------------------------
(***************************************************************************)
(* The read buffer of an RtspConnection and the socket it is filled from.  *)
(* What the peer writes is a sequence of tokens: the text of a line, its   *)
(* CRLF, a packet of RTCP, or the end of the stream.  A read takes any     *)
(* number of them, so a message arrives in pieces, cut anywhere, or with   *)
(* the next one.  Lengths and limits count tokens.                         *)
(***************************************************************************)
EXTENDS Integers, Sequences, FiniteSets

CONSTANTS MaxRead,      \* MAX_BYTES_PER_READ
          InitialSize,  \* kInitialSize
          MaxBuffer,    \* MAX_BUFFER_SIZE
          MaxMessage    \* MAX_RTSP_MESSAGE_SIZE

ASSUME BufferAssumption ==
  /\ {MaxRead, InitialSize, MaxMessage} \subseteq Nat \ {0}
  /\ MaxBuffer \in Nat
  /\ InitialSize <= MaxBuffer

VARIABLES wire,    \* what the peer has written and recv has not returned
          unread,  \* between _readerIndex and _writerIndex
          reader,  \* _readerIndex
          size,    \* _buffer.size()
          split,   \* history: a piece has ended inside a message
          closed   \* _isClosed of the connection, and why

bufferVars == <<unread, reader, size>>
streamVars == <<wire, bufferVars, split, closed>>

Text(kind, n, m) == [kind |-> kind, of |-> n, method |-> m]
Crlf(n) == Text("crlf", n, "none")
Rtcp == Text("rtcp", 0, "none")
End == Text("end", 0, "none")

BufferInit ==
  /\ wire = <<>> /\ unread = <<>> /\ reader = 0 /\ size = InitialSize
  /\ split = FALSE /\ closed = "no"

-----------------------------------------------------------------------------
Writer == reader + Len(unread)
Crowded == size - Writer < MaxRead

\* readFd gives up a buffer that has grown too much.
Refused == Crowded /\ size > MaxBuffer

\* Mutation: the buffer is resized when it is full, not when it is crowded.
Grown_WhenFull == IF size = Writer THEN size + MaxRead ELSE size

\* readFd makes room for a whole read.
Grown == IF Crowded THEN size + MaxRead ELSE size

\* recv returns k tokens of what has arrived; Starts are the kinds of token a
\* message begins with.
Received(k) == unread \o SubSeq(wire, 1, k)
ReadFd(k, Starts) ==
  /\ ~Refused
  /\ k <= MaxRead
  /\ \A i \in 1 .. k : wire[i] # End
  /\ wire' = SubSeq(wire, k + 1, Len(wire))
  /\ size' = Grown
  /\ split' = (split \/ (k < Len(wire) /\ wire[k + 1].kind \notin Starts))

\* retrieve, and what follows from it for the indices: they start over when
\* nothing is left.
Retrieved(left, rd) ==
  /\ unread' = left
  /\ reader' = IF left = <<>> THEN 0 ELSE rd

\* The end of handleRead: too much of what nobody has read is taken for RTCP and
\* dropped.
Kept(received, left) ==
  Retrieved(IF Len(left) > MaxMessage THEN <<>> ELSE left,
            reader + Len(received) - Len(left))

Close(why) == closed' = why

\* recv, or readFd for it, returns 0: handleRead closes the connection.
ReadFails ==
  /\ closed = "no" /\ wire # <<>>
  /\ \/ Refused /\ Close("full") /\ UNCHANGED wire
     \/ ~Refused /\ wire[1] = End /\ Close("end") /\ wire' = Tail(wire)
  /\ size' = IF Refused THEN size ELSE Grown
  /\ UNCHANGED <<unread, reader, split>>

-----------------------------------------------------------------------------
(* The peer *)

Connected == closed = "no" /\ \A i \in DOMAIN wire : wire[i] # End

Hangup ==
  /\ Connected
  /\ wire' = Append(wire, End)
  /\ UNCHANGED <<bufferVars, split, closed>>

-----------------------------------------------------------------------------
\* recv is given no more room than the buffer has: after the read, and so
\* before the next one, the indices lie inside it (readFd's resize, and the
\* reader index that only goes back to 0 when everything has been read).
InBuffer == reader >= 0 /\ Writer <= size
=============================================================================
