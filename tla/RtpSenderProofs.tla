-------------------------- MODULE RtpSenderProofs ---------------------------
(***************************************************************************)
(* What a client reads is a sequence of whole messages, for any number of  *)
(* clients, any length of the queue, of the socket's buffer and of a       *)
(* message.                                                                *)
(***************************************************************************)
EXTENDS RtpSender, SequenceTheorems, FiniteSetTheorems, TLAPS

\* Each part of s follows the one before it.
Chain(s) == \A i \in 1 .. Len(s) - 1 : Follows(s[i], s[i + 1])

\* s is whole up to its last message, and n is the number of the one to come.
Whole(s, n) ==
  /\ s # <<>> /\ Chain(s)
  /\ s[Len(s)].part = Parts /\ n = Succ(s[Len(s)].num)

\* The part that the peer has read last, as a stream.
Read(c) == <<seen[c]>>

StreamInv == \A c \in Clients : Whole(Stream(c), next[c])

SendInv == Shape /\ StreamInv

-----------------------------------------------------------------------------
(* Sequences *)

\* A sequence cut in two.
LEMMA Cut ==
  ASSUME NEW S, NEW q \in Seq(S), NEW k \in 0 .. Len(q)
  PROVE  /\ SubSeq(q, 1, k) \in Seq(S) /\ Len(SubSeq(q, 1, k)) = k
         /\ SubSeq(q, k + 1, Len(q)) \in Seq(S)
         /\ Len(SubSeq(q, k + 1, Len(q))) = Len(q) - k
         /\ \A i \in 1 .. Len(q) - k : SubSeq(q, k + 1, Len(q))[i] = q[k + i]
         /\ SubSeq(q, 1, k) \o SubSeq(q, k + 1, Len(q)) = q
<1>1. /\ Len(q) \in Nat /\ k \in Int /\ k + 1 \in Int
      /\ \A i \in 1 .. k : q[i] \in S
      /\ \A i \in k + 1 .. Len(q) : q[i] \in S
  BY ElementOfSeq
<1>2. SubSeq(q, 1, k) \in Seq(S) /\ Len(SubSeq(q, 1, k)) = k
  BY <1>1, SubSeqProperties, SMT
<1>3. /\ SubSeq(q, k + 1, Len(q)) \in Seq(S)
      /\ Len(SubSeq(q, k + 1, Len(q))) = Len(q) - k
      /\ \A i \in 1 .. Len(q) - k : SubSeq(q, k + 1, Len(q))[i] = q[k + i]
  BY <1>1, SubSeqProperties, SMT
<1>4. SubSeq(q, 1, k) \o SubSeq(q, k + 1, Len(q)) = SubSeq(q, 1, Len(q))
  BY <1>1, ConcatAdjacentSubSeq, 1 \in 1 .. Len(q) + 1, k \in 1 - 1 .. Len(q),
     Len(q) \in k .. Len(q)
<1>5. QED
  BY <1>2, <1>3, <1>4, SubSeqFull

\* Two sequences put together.
LEMMA Joined ==
  ASSUME NEW S, NEW s \in Seq(S), NEW t \in Seq(S)
  PROVE  /\ s \o t \in Seq(S) /\ Len(s \o t) = Len(s) + Len(t)
         /\ Len(s) \in Nat /\ Len(t) \in Nat
         /\ \A i \in 1 .. Len(s) : (s \o t)[i] = s[i]
         /\ \A i \in 1 .. Len(t) : (s \o t)[Len(s) + i] = t[i]
<1>1. Len(s) \in Nat /\ Len(t) \in Nat
  BY LenProperties
<1>2. QED
  BY <1>1, ConcatProperties

\* Parts go over from the queue to the socket.
LEMMA Moved ==
  ASSUME NEW a \in Seq(Part), NEW w \in Seq(Part),
         NEW i \in Seq(Part), NEW l \in Seq(Part)
  PROVE  Joint(a, w \o i, l) = Joint(a, w, i \o l)
<1>1. (a \o w) \o i = a \o (w \o i)
  BY SMTT(60)
<1>2. a \o w \in Seq(Part)
  BY Joined
<1>3. ((a \o w) \o i) \o l = (a \o w) \o (i \o l)
  BY <1>2, ConcatAssociative, SMTT(30)
<1>4. QED
  BY <1>1, <1>3 DEF Joint

\* The numbers of messages.
LEMMA SuccType == ASSUME NEW n \in Numbers PROVE Succ(n) \in Numbers
  BY SenderAssumption DEF Succ, Numbers

\* A message is a chain of parts that ends in its last.
LEMMA MessageIsWhole ==
  ASSUME NEW n \in Numbers, NEW kind \in Kinds
  PROVE  /\ Message(n, kind) \in Seq(Part) /\ Len(Message(n, kind)) = Parts
         /\ \A i \in 1 .. Parts : Message(n, kind)[i] = [num |-> n, part |-> i, kind |-> kind]
         /\ Chain(Message(n, kind))
<1>1. /\ Message(n, kind) \in Seq(Part) /\ Len(Message(n, kind)) = Parts
      /\ \A i \in 1 .. Parts : Message(n, kind)[i] = [num |-> n, part |-> i, kind |-> kind]
  <2>1. Message(n, kind) \in [1 .. Parts -> Part] /\ Parts \in Nat
    BY SenderAssumption DEF Message, Part
  <2>2. Message(n, kind) \in Seq(Part)
    BY <2>1, SeqDef
  <2>3. 1 .. Len(Message(n, kind)) = 1 .. Parts /\ Len(Message(n, kind)) \in Nat
    BY <2>1, <2>2, LenProperties
  <2>4. Len(Message(n, kind)) = Parts
    BY <2>1, <2>3
  <2>5. QED
    BY <2>2, <2>4 DEF Message
<1>2. QED
  BY <1>1, SenderAssumption DEF Chain, Follows

\* Two chains make one when the second starts where the first ends.
LEMMA Chained ==
  ASSUME NEW s \in Seq(Part), NEW m \in Seq(Part), s # <<>>, m # <<>>,
         Chain(s), Chain(m), Follows(s[Len(s)], m[1])
  PROVE  /\ Chain(s \o m) /\ s \o m # <<>>
         /\ (s \o m)[Len(s \o m)] = m[Len(m)]
<1>1. /\ s \o m \in Seq(Part) /\ Len(s \o m) = Len(s) + Len(m)
      /\ \A i \in 1 .. Len(s) : (s \o m)[i] = s[i]
      /\ \A i \in 1 .. Len(m) : (s \o m)[Len(s) + i] = m[i]
  BY Joined
<1>2. Len(s) \in Nat \ {0} /\ Len(m) \in Nat \ {0}
  BY EmptySeq
<1>3. PICK t \in Seq(Part) : t = s \o m
  BY <1>1
<1>4. /\ Len(t) = Len(s) + Len(m)
      /\ \A i \in 1 .. Len(s) : t[i] = s[i]
      /\ \A i \in 1 .. Len(m) : t[Len(s) + i] = m[i]
  BY <1>1, <1>3
<1>5. ASSUME NEW i \in 1 .. Len(t) - 1
      PROVE  Follows(t[i], t[i + 1])
  <2>1. CASE i < Len(s)
    <3>1. i \in 1 .. Len(s) - 1 /\ i \in 1 .. Len(s) /\ i + 1 \in 1 .. Len(s)
      BY <1>2, <2>1
    <3>2. t[i] = s[i] /\ t[i + 1] = s[i + 1]
      BY <1>4, <3>1
    <3>3. QED
      BY <3>1, <3>2 DEF Chain
  <2>2. CASE i = Len(s)
    <3>1. t[i] = s[Len(s)] /\ t[i + 1] = m[1]
      BY <1>2, <1>4, <2>2
    <3>2. QED
      BY <3>1
  <2>3. CASE i > Len(s)
    <3>1. PICK j \in 1 .. Len(m) - 1 : i = Len(s) + j
      <4>1. i - Len(s) \in 1 .. Len(m) - 1 /\ i = Len(s) + (i - Len(s))
        BY <1>2, <1>4, <2>3
      <4>2. QED
        BY <4>1, Zenon
    <3>2. j \in 1 .. Len(m) /\ j + 1 \in 1 .. Len(m) /\ i + 1 = Len(s) + (j + 1)
      BY <1>2, <3>1
    <3>3. t[Len(s) + j] = m[j] /\ t[Len(s) + (j + 1)] = m[j + 1]
      BY <1>4, <3>2, Zenon
    <3>4. QED
      BY <3>1, <3>2, <3>3 DEF Chain
  <2>4. QED
    BY <1>2, <1>4, <2>1, <2>2, <2>3
<1>6. t[Len(t)] = m[Len(m)] /\ t # <<>>
  <2>1. Len(m) \in 1 .. Len(m)
    BY <1>2
  <2>2. t # <<>>
    BY <1>2, <1>4, EmptySeq
  <2>3. QED
    BY <1>4, <2>1, <2>2
<1>7. QED
  BY <1>3, <1>5, <1>6 DEF Chain

\* A message put behind a whole stream makes a whole stream.
LEMMA OneMore ==
  ASSUME NEW s \in Seq(Part), NEW n \in Numbers, NEW kind \in Kinds, Whole(s, n)
  PROVE  Whole(s \o Message(n, kind), Succ(n))
<1>1. PICK m \in Seq(Part) : m = Message(n, kind)
  BY MessageIsWhole
<1>2. /\ Len(m) = Parts /\ Parts \in Nat \ {0} /\ m # <<>> /\ Chain(m)
      /\ m[1].part = 1 /\ m[1].num = n
      /\ m[Len(m)].part = Parts /\ m[Len(m)].num = n
  <2>1. /\ Len(m) = Parts /\ Chain(m)
        /\ \A i \in 1 .. Parts : m[i] = [num |-> n, part |-> i, kind |-> kind]
    BY <1>1, MessageIsWhole
  <2>2. Parts \in Nat \ {0} /\ 1 \in 1 .. Parts /\ Parts \in 1 .. Parts
    BY SenderAssumption
  <2>3. m # <<>>
    BY <2>1, <2>2, EmptySeq
  <2>4. QED
    BY <2>1, <2>2, <2>3
<1>3. Follows(s[Len(s)], m[1])
  BY <1>2 DEF Whole, Follows
<1>4. QED
  BY <1>1, <1>2, <1>3, Chained DEF Whole

\* What is left of a whole stream when the peer has read some of it.
LEMMA FromMiddle ==
  ASSUME NEW s \in Seq(Part), NEW t \in Seq(Part), NEW n \in Numbers, Whole(s, n),
         NEW k \in 0 .. Len(s) - 1, Len(t) = Len(s) - k,
         \A i \in 1 .. Len(t) : t[i] = s[k + i]
  PROVE  Whole(t, n)
<1>1. Len(s) \in Nat \ {0} /\ Len(t) \in Nat \ {0} /\ t # <<>>
  BY EmptySeq
<1>2. ASSUME NEW i \in 1 .. Len(t) - 1
      PROVE  Follows(t[i], t[i + 1])
  <2>1. k + i \in 1 .. Len(s) - 1 /\ t[i] = s[k + i] /\ t[i + 1] = s[(k + i) + 1]
    BY <1>1
  <2>2. QED
    BY <2>1 DEF Whole, Chain
<1>3. t[Len(t)] = s[Len(s)]
  BY <1>1
<1>4. QED
  BY <1>1, <1>2, <1>3 DEF Whole, Chain

-----------------------------------------------------------------------------
(* Messages that are queued and sent *)

\* What send leaves and what it takes make up the queue.
LEMMA TakenAndLeft ==
  ASSUME Shape, NEW c \in Clients, NEW q \in Seq(Part)
  PROVE  /\ Left(c, q) \in Seq(Part)
         /\ sock[c] \o Into(c, q) \in Seq(Part) /\ Len(sock[c] \o Into(c, q)) <= SockBuf
         /\ Joint(Read(c), sock[c] \o Into(c, q), Left(c, q)) = Joint(Read(c), sock[c], q)
<1>1. /\ Read(c) \in Seq(Part) /\ sock[c] \in Seq(Part)
      /\ Len(sock[c]) \in Nat /\ Len(sock[c]) <= SockBuf
      /\ Len(q) \in Nat /\ SockBuf \in Nat
  BY SenderAssumption, LenProperties DEF Shape, Read
<1>2. Fit(c, q) \in 0 .. Len(q) /\ Len(sock[c]) + Fit(c, q) <= SockBuf
  <2>1. Room(c) = 0 \/ Room(c) = SockBuf - Len(sock[c])
    BY DEF Room
  <2>2. Room(c) \in Nat /\ Len(sock[c]) + Room(c) <= SockBuf
    BY <1>1, <2>1
  <2>3. QED
    BY <1>1, <2>2 DEF Fit
<1>3. /\ Into(c, q) \in Seq(Part) /\ Len(Into(c, q)) = Fit(c, q)
      /\ Left(c, q) \in Seq(Part) /\ Into(c, q) \o Left(c, q) = q
  BY <1>2, Cut DEF Into, Left
<1>4. sock[c] \o Into(c, q) \in Seq(Part) /\ Len(sock[c] \o Into(c, q)) <= SockBuf
  BY <1>1, <1>2, <1>3, Joined
<1>5. Joint(Read(c), sock[c] \o Into(c, q), Left(c, q)) =
        Joint(Read(c), sock[c], Into(c, q) \o Left(c, q))
  <2>1. Into(c, q) \in Seq(Part) /\ Left(c, q) \in Seq(Part)
    BY <1>3
  <2>2. QED
    BY <1>1, <2>1, Moved
<1>6. QED
  BY <1>3, <1>4, <1>5

\* What is where in a stream.
LEMMA JointItems ==
  ASSUME NEW a \in Seq(Part), NEW w \in Seq(Part), NEW q \in Seq(Part)
  PROVE  /\ Joint(a, w, q) \in Seq(Part)
         /\ Len(Joint(a, w, q)) = Len(a) + Len(w) + Len(q)
         /\ \A i \in 1 .. Len(a) : Joint(a, w, q)[i] = a[i]
         /\ \A i \in 1 .. Len(w) : Joint(a, w, q)[Len(a) + i] = w[i]
         /\ \A i \in 1 .. Len(q) : Joint(a, w, q)[Len(a) + Len(w) + i] = q[i]
<1>1. PICK b \in Seq(Part) :
        /\ b = a \o w /\ Len(b) = Len(a) + Len(w)
        /\ \A i \in 1 .. Len(a) : b[i] = a[i]
        /\ \A i \in 1 .. Len(w) : b[Len(a) + i] = w[i]
  <2>1. /\ a \o w \in Seq(Part) /\ Len(a \o w) = Len(a) + Len(w)
        /\ \A i \in 1 .. Len(a) : (a \o w)[i] = a[i]
        /\ \A i \in 1 .. Len(w) : (a \o w)[Len(a) + i] = w[i]
    BY Joined
  <2>2. QED
    BY <2>1, Zenon
<1>2. PICK d \in Seq(Part) :
        /\ d = b \o q /\ Len(d) = Len(b) + Len(q)
        /\ \A i \in 1 .. Len(b) : d[i] = b[i]
        /\ \A i \in 1 .. Len(q) : d[Len(b) + i] = q[i]
  <2>1. /\ b \o q \in Seq(Part) /\ Len(b \o q) = Len(b) + Len(q)
        /\ \A i \in 1 .. Len(b) : (b \o q)[i] = b[i]
        /\ \A i \in 1 .. Len(q) : (b \o q)[Len(b) + i] = q[i]
    <3>1. b \in Seq(Part)
      BY <1>1
    <3>2. QED
      BY <3>1, Joined
  <2>2. QED
    BY <2>1, Zenon
<1>3. d = Joint(a, w, q)
  BY <1>1, <1>2 DEF Joint
<1>4. Len(a) \in Nat /\ Len(w) \in Nat /\ Len(q) \in Nat
  BY LenProperties
<1>5. /\ Len(d) = Len(a) + Len(w) + Len(q)
      /\ \A i \in 1 .. Len(a) : d[i] = a[i]
      /\ \A i \in 1 .. Len(w) : d[Len(a) + i] = w[i]
      /\ \A i \in 1 .. Len(q) : d[Len(a) + Len(w) + i] = q[i]
  BY <1>1, <1>2, <1>4
<1>6. QED
  BY <1>3, <1>5

\* A message put behind the queue is put behind the stream.
LEMMA Lengthened ==
  ASSUME NEW p \in Seq(Part), NEW w \in Seq(Part), NEW q \in Seq(Part), NEW m \in Seq(Part)
  PROVE  Joint(p, w, q) \in Seq(Part) /\ Joint(p, w, q) \o m = Joint(p, w, q \o m)
<1>1. p \o w \in Seq(Part)
  BY Joined
<1>2. ((p \o w) \o q) \o m = (p \o w) \o (q \o m)
  BY <1>1, ConcatAssociative, SMTT(30)
<1>3. (p \o w) \o q \in Seq(Part)
  BY <1>1, Joined
<1>4. QED
  BY <1>2, <1>3 DEF Joint

\* What send leaves is a tail of the queue.
LEMMA LeftIsTail ==
  ASSUME Shape, NEW c \in Clients, NEW q \in Seq(Part)
  PROVE  \E k \in 0 .. Len(q) : Left(c, q) = SubSeq(q, k + 1, Len(q))
<1>1. Len(sock[c]) \in Nat /\ Len(sock[c]) <= SockBuf /\ SockBuf \in Nat
  BY SenderAssumption, LenProperties DEF Shape
<1>2. Room(c) \in Nat
  BY <1>1 DEF Room
<1>3. Fit(c, q) \in 0 .. Len(q)
  BY <1>2, LenProperties DEF Fit
<1>4. QED
  BY <1>3, Zenon DEF Left

\* append keeps the stream whole, whether it accepts the message or refuses it.
LEMMA QueuedWhole ==
  ASSUME NEW p \in Seq(Part), NEW w \in Seq(Part), NEW q \in Seq(Part),
         NEW n \in Numbers, NEW kind \in Kinds, Whole(Joint(p, w, q), n)
  PROVE  /\ Appended(q, n, kind) \in Seq(Part) /\ Numbered(q, n) \in Numbers
         /\ Whole(Joint(p, w, Appended(q, n, kind)), Numbered(q, n))
<1>1. CASE Packets(q) < MaxQueue
  <2>1. PICK m \in Seq(Part) : m = Message(n, kind)
    BY MessageIsWhole
  <2>2. Appended(q, n, kind) = q \o m /\ Numbered(q, n) = Succ(n)
    BY <1>1, <2>1 DEF Appended, Numbered
  <2>3. q \o m \in Seq(Part)
    BY <2>1, Joined
  <2>4. Joint(p, w, q) \in Seq(Part) /\ Joint(p, w, q) \o m = Joint(p, w, q \o m)
    <3>1. m \in Seq(Part)
      BY <2>1
    <3>2. QED
      BY <3>1, Lengthened
  <2>5. Whole(Joint(p, w, q) \o m, Succ(n))
    BY <2>1, <2>4, OneMore
  <2>6. QED
    BY <2>2, <2>3, <2>4, <2>5, SuccType
<1>2. CASE ~(Packets(q) < MaxQueue)
  BY <1>2 DEF Appended, Numbered
<1>3. QED
  BY <1>1, <1>2

\* The state of a client after a message was queued and sent.
LEMMA AfterSend ==
  ASSUME SendInv, NEW c \in Clients, NEW kind \in Kinds,
         NEW q, q = Appended(buf[c], next[c], kind)
  PROVE  /\ q \in Seq(Part) /\ Left(c, q) \in Seq(Part)
         /\ sock[c] \o Into(c, q) \in Seq(Part) /\ Len(sock[c] \o Into(c, q)) <= SockBuf
         /\ Numbered(buf[c], next[c]) \in Numbers
         /\ Whole(Joint(Read(c), sock[c] \o Into(c, q), Left(c, q)),
                  Numbered(buf[c], next[c]))
<1>1. /\ buf[c] \in Seq(Part) /\ sock[c] \in Seq(Part) /\ Read(c) \in Seq(Part)
      /\ next[c] \in Numbers /\ Shape
  BY DEF SendInv, Shape, Read
<1>2. Whole(Joint(Read(c), sock[c], buf[c]), next[c])
  BY DEF SendInv, StreamInv, Stream, Read
<1>3. /\ q \in Seq(Part) /\ Numbered(buf[c], next[c]) \in Numbers
      /\ Whole(Joint(Read(c), sock[c], q), Numbered(buf[c], next[c]))
  BY <1>1, <1>2, QueuedWhole
<1>4. QED
  BY <1>1, <1>3, TakenAndLeft

\* The state of a client after handleWrite sent what it could.
LEMMA AfterWrite ==
  ASSUME SendInv, NEW c \in Clients
  PROVE  /\ Left(c, buf[c]) \in Seq(Part) /\ sock[c] \o Into(c, buf[c]) \in Seq(Part)
         /\ Len(sock[c] \o Into(c, buf[c])) <= SockBuf
         /\ Whole(Joint(Read(c), sock[c] \o Into(c, buf[c]), Left(c, buf[c])), next[c])
<1>1. buf[c] \in Seq(Part) /\ Shape
  BY DEF SendInv, Shape
<1>2. Whole(Joint(Read(c), sock[c], buf[c]), next[c])
  BY DEF SendInv, StreamInv, Stream, Read
<1>3. QED
  BY <1>1, <1>2, TakenAndLeft

\* The stream of a client after the peer has read k parts.
LEMMA AfterRead ==
  ASSUME SendInv, NEW c \in Clients, NEW k \in 1 .. Len(sock[c])
  PROVE  /\ sock[c][k] \in Part /\ SubSeq(sock[c], k + 1, Len(sock[c])) \in Seq(Part)
         /\ Len(SubSeq(sock[c], k + 1, Len(sock[c]))) <= SockBuf
         /\ Whole(Joint(<<sock[c][k]>>, SubSeq(sock[c], k + 1, Len(sock[c])), buf[c]), next[c])
<1>1. PICK w \in Seq(Part), q \in Seq(Part), r \in Seq(Part), n \in Numbers :
        w = sock[c] /\ q = buf[c] /\ r = <<seen[c]>> /\ n = next[c] /\ Len(w) <= SockBuf
  <2>1. /\ sock[c] \in Seq(Part) /\ buf[c] \in Seq(Part) /\ <<seen[c]>> \in Seq(Part)
        /\ next[c] \in Numbers /\ Len(sock[c]) <= SockBuf
    BY DEF SendInv, Shape
  <2>2. QED
    BY <2>1, Zenon
<1>2. /\ Len(w) \in Nat /\ Len(q) \in Nat /\ Len(r) = 1 /\ SockBuf \in Nat
      /\ k \in 1 .. Len(w) /\ k \in 0 .. Len(w)
  BY <1>1, LenProperties, SenderAssumption
<1>3. PICK v \in Seq(Part), e \in Seq(Part) :
        /\ v = SubSeq(w, k + 1, Len(w)) /\ Len(v) = Len(w) - k
        /\ \A i \in 1 .. Len(v) : v[i] = w[k + i]
        /\ e = <<w[k]>> /\ Len(e) = 1 /\ e[1] = w[k] /\ w[k] \in Part
  <2>1. /\ SubSeq(w, k + 1, Len(w)) \in Seq(Part)
        /\ Len(SubSeq(w, k + 1, Len(w))) = Len(w) - k
        /\ \A i \in 1 .. Len(w) - k : SubSeq(w, k + 1, Len(w))[i] = w[k + i]
    BY <1>1, <1>2, Cut, SMTT(30)
  <2>2. w[k] \in Part
    BY <1>1, <1>2, ElementOfSeq
  <2>3. <<w[k]>> \in Seq(Part) /\ Len(<<w[k]>>) = 1 /\ <<w[k]>>[1] = w[k]
    BY <2>2
  <2>4. QED
    BY <2>1, <2>2, <2>3, Zenon
<1>4. PICK s \in Seq(Part) :
        /\ s = Joint(r, w, q) /\ Len(s) = Len(r) + Len(w) + Len(q)
        /\ \A i \in 1 .. Len(w) : s[Len(r) + i] = w[i]
        /\ \A i \in 1 .. Len(q) : s[Len(r) + Len(w) + i] = q[i]
  <2>1. r \in Seq(Part) /\ w \in Seq(Part) /\ q \in Seq(Part)
    BY <1>1
  <2>2. /\ Joint(r, w, q) \in Seq(Part)
        /\ Len(Joint(r, w, q)) = Len(r) + Len(w) + Len(q)
        /\ \A i \in 1 .. Len(r) : Joint(r, w, q)[i] = r[i]
        /\ \A i \in 1 .. Len(w) : Joint(r, w, q)[Len(r) + i] = w[i]
        /\ \A i \in 1 .. Len(q) : Joint(r, w, q)[Len(r) + Len(w) + i] = q[i]
    BY <2>1, JointItems, ZenonT(40)
  <2>3. QED
    BY <2>2, Zenon
<1>5. PICK t \in Seq(Part) :
        /\ t = Joint(e, v, q) /\ Len(t) = Len(e) + Len(v) + Len(q)
        /\ \A i \in 1 .. Len(e) : t[i] = e[i]
        /\ \A i \in 1 .. Len(v) : t[Len(e) + i] = v[i]
        /\ \A i \in 1 .. Len(q) : t[Len(e) + Len(v) + i] = q[i]
  <2>1. e \in Seq(Part) /\ v \in Seq(Part) /\ q \in Seq(Part)
    BY <1>1, <1>3
  <2>2. /\ Joint(e, v, q) \in Seq(Part)
        /\ Len(Joint(e, v, q)) = Len(e) + Len(v) + Len(q)
        /\ \A i \in 1 .. Len(e) : Joint(e, v, q)[i] = e[i]
        /\ \A i \in 1 .. Len(v) : Joint(e, v, q)[Len(e) + i] = v[i]
        /\ \A i \in 1 .. Len(q) : Joint(e, v, q)[Len(e) + Len(v) + i] = q[i]
    BY <2>1, JointItems, ZenonT(60)
  <2>3. QED
    BY <2>2, Zenon
<1>6. PICK nw \in Nat, nq \in Nat : nw = Len(w) /\ nq = Len(q)
  BY <1>2, Zenon
<1>7. /\ k \in 1 .. nw /\ Len(s) = 1 + nw + nq /\ Len(t) = 1 + (nw - k) + nq
      /\ \A i \in 1 .. nw : s[1 + i] = w[i]
      /\ \A i \in 1 .. nq : s[1 + nw + i] = q[i]
      /\ t[1] = w[k]
      /\ \A i \in 1 .. nw - k : t[1 + i] = w[k + i]
      /\ \A i \in 1 .. nq : t[1 + (nw - k) + i] = q[i]
  <2>1. k \in 1 .. nw /\ Len(s) = 1 + nw + nq /\ Len(v) = nw - k /\ Len(t) = 1 + (nw - k) + nq
    BY <1>2, <1>3, <1>4, <1>5, <1>6
  <2>2. /\ \A i \in 1 .. nw : s[1 + i] = w[i]
        /\ \A i \in 1 .. nq : s[1 + nw + i] = q[i]
    <3>1. Len(r) = 1 /\ Len(w) = nw /\ Len(q) = nq
      BY <1>2, <1>6
    <3>2. /\ \A i \in 1 .. nw : s[Len(r) + i] = w[i]
          /\ \A i \in 1 .. nq : s[Len(r) + nw + i] = q[i]
      BY <1>4, <3>1
    <3>3. QED
      BY <3>1, <3>2
  <2>3. t[1] = w[k]
    <3>1. 1 \in 1 .. Len(e) /\ e[1] = w[k]
      BY <1>3
    <3>2. \A i \in 1 .. Len(e) : t[i] = e[i]
      BY <1>5
    <3>3. QED
      BY <3>1, <3>2, Zenon
  <2>4. ASSUME NEW i \in 1 .. nw - k
        PROVE  t[1 + i] = w[k + i]
    <3>1. Len(e) = 1 /\ i \in 1 .. Len(v)
      BY <1>3, <2>1
    <3>2. t[Len(e) + i] = v[i]
      BY <1>5, <3>1, Zenon
    <3>3. v[i] = w[k + i]
      BY <1>3, <1>6, <2>1
    <3>4. QED
      BY <3>1, <3>2, <3>3
  <2>5. \A i \in 1 .. nq : t[1 + (nw - k) + i] = q[i]
    BY <1>3, <1>5, <1>6, <2>1, ZenonT(30)
  <2>6. QED
    BY <2>1, <2>2, <2>3, <2>4, <2>5
<1>8. ASSUME NEW i \in 1 .. Len(t)
      PROVE  t[i] = s[k + i]
  <2>1. CASE i = 1
    BY <1>7, <2>1
  <2>2. CASE i \in 2 .. 1 + (nw - k)
    <3>1. PICK j \in 1 .. nw - k : i = 1 + j /\ k + j \in 1 .. nw
      <4>1. i - 1 \in 1 .. nw - k /\ i = 1 + (i - 1) /\ k + (i - 1) \in 1 .. nw
        BY <1>7, <2>2
      <4>2. QED
        BY <4>1, Zenon
    <3>2. t[1 + j] = w[k + j] /\ s[1 + (k + j)] = w[k + j] /\ 1 + (k + j) = k + i
      BY <1>7, <3>1
    <3>3. QED
      BY <3>1, <3>2
  <2>3. CASE i \in 2 + (nw - k) .. 1 + (nw - k) + nq
    <3>1. PICK j \in 1 .. nq : i = 1 + (nw - k) + j
      <4>1. i - 1 - (nw - k) \in 1 .. nq /\ i = 1 + (nw - k) + (i - 1 - (nw - k))
        BY <1>7, <2>3
      <4>2. QED
        BY <4>1, Zenon
    <3>2. /\ t[1 + (nw - k) + j] = q[j] /\ s[1 + nw + j] = q[j]
          /\ 1 + nw + j = k + i
      BY <1>7, <3>1, SMTT(30)
    <3>3. QED
      BY <3>1, <3>2
  <2>4. QED
    BY <1>7, <2>1, <2>2, <2>3
<1>9. Whole(s, n)
  BY <1>1, <1>4 DEF SendInv, StreamInv, Stream
<1>10. Whole(t, n)
  <2>1. k \in 0 .. Len(s) - 1 /\ Len(t) = Len(s) - k
    BY <1>7, SMTT(30)
  <2>2. \A i \in 1 .. Len(t) : t[i] = s[k + i]
    BY <1>8
  <2>3. s \in Seq(Part) /\ t \in Seq(Part) /\ n \in Numbers
    BY <1>1, <1>4, <1>5
  <2>4. QED
    BY <2>1, <2>2, <2>3, <1>9, FromMiddle
<1>11. QED
  BY <1>1, <1>2, <1>3, <1>5, <1>10

-----------------------------------------------------------------------------
(* The steps *)

\* What Shape says of the variables without messages.
Flags ==
  /\ {play, idr, torn, closed, out, gone} \subseteq [Clients -> BOOLEAN]
  /\ first \in [Clients -> {"none", "opened"} \cup FrameTypes]

\* A step that touches the messages of no client but c.
LEMMA OneClientStep ==
  ASSUME SendInv, NEW c \in Clients, Flags',
         NEW b \in Seq(Part), NEW s \in Seq(Part), NEW n \in Numbers, NEW e \in Part,
         buf' = [buf EXCEPT ![c] = b], sock' = [sock EXCEPT ![c] = s],
         next' = [next EXCEPT ![c] = n], seen' = [seen EXCEPT ![c] = e],
         Len(s) <= SockBuf, Whole(Joint(<<e>>, s, b), n)
  PROVE  SendInv'
<1>1. /\ buf \in [Clients -> Seq(Part)] /\ sock \in [Clients -> Seq(Part)]
      /\ next \in [Clients -> Numbers] /\ seen \in [Clients -> Part]
      /\ \A d \in Clients : Len(sock[d]) <= SockBuf
  BY DEF SendInv, Shape
<1>2. /\ buf' \in [Clients -> Seq(Part)] /\ sock' \in [Clients -> Seq(Part)]
      /\ next' \in [Clients -> Numbers] /\ seen' \in [Clients -> Part]
      /\ \A d \in Clients : Len(sock'[d]) <= SockBuf
  BY <1>1
<1>3. ASSUME NEW d \in Clients
      PROVE  Whole(Stream(d)', next'[d])
  <2>1. CASE d = c
    BY <1>1, <2>1 DEF Stream
  <2>2. CASE d # c
    <3>1. /\ buf'[d] = buf[d] /\ sock'[d] = sock[d]
          /\ next'[d] = next[d] /\ seen'[d] = seen[d]
      BY <1>1, <2>2
    <3>2. Whole(Stream(d), next[d])
      BY DEF SendInv, StreamInv
    <3>3. QED
      BY <3>1, <3>2 DEF Stream
  <2>3. QED
    BY <2>1, <2>2
<1>4. Shape'
  BY <1>2 DEF Shape, Flags
<1>5. QED
  BY <1>3, <1>4 DEF SendInv, StreamInv

\* A step that touches no messages.
LEMMA NoMessageStep ==
  ASSUME SendInv, Flags', UNCHANGED dataVars
  PROVE  SendInv'
  BY DEF SendInv, Shape, Flags, StreamInv, Stream, dataVars

\* sendMessage
LEMMA ReplyStep ==
  ASSUME SendInv, NEW c \in Clients, SendMessage(c), Flags', seen' = seen
  PROVE  SendInv'
<1>1. PICK q : q = Appended(buf[c], next[c], "reply")
  BY Zenon
<1>2. /\ buf' = [buf EXCEPT ![c] = Left(c, q)]
      /\ sock' = [sock EXCEPT ![c] = sock[c] \o Into(c, q)]
      /\ next' = [next EXCEPT ![c] = Numbered(buf[c], next[c])]
      /\ seen' = [seen EXCEPT ![c] = seen[c]] /\ seen[c] \in Part
  BY <1>1 DEF SendMessage, SendInv, Shape
<1>3. "reply" \in Kinds
  BY DEF Kinds
<1>4. /\ Left(c, q) \in Seq(Part) /\ sock[c] \o Into(c, q) \in Seq(Part)
      /\ Len(sock[c] \o Into(c, q)) <= SockBuf /\ Numbered(buf[c], next[c]) \in Numbers
      /\ Whole(Joint(Read(c), sock[c] \o Into(c, q), Left(c, q)), Numbered(buf[c], next[c]))
  BY <1>1, <1>3, AfterSend
<1>5. QED
  BY <1>2, <1>4, OneClientStep DEF Read

\* Every step keeps the flags Boolean.
LEMMA FlagsStep == Shape /\ [Next]_vars => Flags'
<1> SUFFICES ASSUME Shape, [Next]_vars
             PROVE  Flags'
  OBVIOUS
<1>1. /\ play \in [Clients -> BOOLEAN] /\ idr \in [Clients -> BOOLEAN]
      /\ torn \in [Clients -> BOOLEAN] /\ closed \in [Clients -> BOOLEAN]
      /\ out \in [Clients -> BOOLEAN] /\ gone \in [Clients -> BOOLEAN]
      /\ first \in [Clients -> {"none", "opened"} \cup FrameTypes]
  BY DEF Shape
<1>2. ASSUME NEW c \in Clients, NEW q PROVE Fails(c, q) \in BOOLEAN
  BY DEF Fails
<1>3. ASSUME NEW c \in Clients, SendMessage(c)
      PROVE  out' \in [Clients -> BOOLEAN] /\ closed' \in [Clients -> BOOLEAN]
  <2>1. PICK q : q = Appended(buf[c], next[c], "reply")
    BY Zenon
  <2>2. Fails(c, q) \in BOOLEAN /\ ReplyInterest(c, Left(c, q)) \in BOOLEAN
    BY <1>1, <1>2 DEF ReplyInterest
  <2>3. /\ closed' = [closed EXCEPT ![c] = Fails(c, q)]
        /\ out' = [out EXCEPT ![c] =
             IF Fails(c, q) THEN out[c] ELSE ReplyInterest(c, Left(c, q))]
    BY <1>3, <2>1 DEF SendMessage
  <2>4. QED
    BY <1>1, <2>2, <2>3
<1>4. ASSUME NEW c \in Clients, Request(c) PROVE Flags'
  BY <1>1, <1>3, <1>4 DEF Request, Flags, rtpVars
<1>5. ASSUME NEW c \in Clients, Play(c) PROVE Flags'
  BY <1>1, <1>3, <1>5 DEF Play, Flags
<1>6. ASSUME NEW c \in Clients, HandleWrite(c) PROVE Flags'
  <2>1. PICK f \in BOOLEAN, o \in BOOLEAN :
          f = Fails(c, buf[c]) /\ o = (Fails(c, buf[c]) \/ WriteInterest(c, Left(c, buf[c])))
    BY <1>2 DEF WriteInterest
  <2>2. out' = [out EXCEPT ![c] = o] /\ closed' = [closed EXCEPT ![c] = f]
    BY <1>6, <2>1 DEF HandleWrite
  <2>3. QED
    BY <1>1, <1>6, <2>1, <2>2 DEF HandleWrite, rtpVars, Flags
<1>7. ASSUME NEW c \in Clients, HandleClose(c) PROVE Flags'
  BY <1>1, <1>7 DEF HandleClose, rtpVars, dataVars, Flags
<1>8. ASSUME NEW c \in Clients, PeerReads(c) PROVE Flags'
  BY <1>1, <1>8 DEF PeerReads, rtpVars, rtspVars, Flags
<1>9. ASSUME NEW c \in Clients, PeerResets(c) PROVE Flags'
  BY <1>1, <1>9 DEF PeerResets, rtpVars, rtspVars, Flags
<1>10. ASSUME NEW type \in FrameTypes, SendFrame(type) PROVE Flags'
  <2>1. idr' \in [Clients -> BOOLEAN]
    BY <1>1, <1>10 DEF SendFrame, Opens
  <2>2. torn' \in [Clients -> BOOLEAN]
    BY <1>10 DEF SendFrame
  <2>3. out' \in [Clients -> BOOLEAN]
    BY <1>1, <1>10 DEF SendFrame, RtpInterest
  <2>4. first' \in [Clients -> {"none", "opened"} \cup FrameTypes]
    BY <1>1, <1>10 DEF SendFrame
  <2>5. QED
    BY <1>1, <1>10, <2>1, <2>2, <2>3, <2>4 DEF SendFrame, Flags
<1>11. CASE UNCHANGED vars
  BY <1>1, <1>11 DEF vars, rtpVars, rtspVars, Flags
<1>12. QED
  BY <1>4, <1>5, <1>6, <1>7, <1>8, <1>9, <1>10, <1>11 DEF Next

\* handleWrite
LEMMA WriteStep ==
  ASSUME SendInv, NEW c \in Clients, HandleWrite(c), Flags'
  PROVE  SendInv'
<1>1. /\ buf' = [buf EXCEPT ![c] = Left(c, buf[c])]
      /\ sock' = [sock EXCEPT ![c] = sock[c] \o Into(c, buf[c])]
      /\ next' = [next EXCEPT ![c] = next[c]] /\ next[c] \in Numbers
      /\ seen' = [seen EXCEPT ![c] = seen[c]] /\ seen[c] \in Part
  BY DEF HandleWrite, SendInv, Shape
<1>2. QED
  BY <1>1, AfterWrite, OneClientStep DEF Read

\* The peer reads.
LEMMA ReadStep ==
  ASSUME SendInv, NEW c \in Clients, PeerReads(c), Flags'
  PROVE  SendInv'
<1>1. PICK k \in 1 .. Len(sock[c]) :
        /\ seen' = [seen EXCEPT ![c] = sock[c][k]]
        /\ sock' = [sock EXCEPT ![c] = SubSeq(sock[c], k + 1, Len(sock[c]))]
        /\ buf' = buf /\ next' = next
  BY DEF PeerReads
<1>2. /\ buf' = [buf EXCEPT ![c] = buf[c]] /\ buf[c] \in Seq(Part)
      /\ next' = [next EXCEPT ![c] = next[c]] /\ next[c] \in Numbers
  BY <1>1 DEF SendInv, Shape
<1>3. QED
  BY <1>1, <1>2, AfterRead, OneClientStep

\* A frame goes to every client of the session that receives.
LEMMA FrameStep ==
  ASSUME SendInv, NEW type \in FrameTypes, SendFrame(type), Flags'
  PROVE  SendInv'
<1>1. type \in Kinds
  BY DEF Kinds
<1>2. ASSUME NEW d \in Clients
      PROVE  /\ buf'[d] \in Seq(Part) /\ sock'[d] \in Seq(Part) /\ next'[d] \in Numbers
             /\ Len(sock'[d]) <= SockBuf /\ Whole(Joint(Read(d), sock'[d], buf'[d]), next'[d])
  <2>1. PICK q : q = Appended(buf[d], next[d], type)
    BY Zenon
  <2>2. CASE Receives(d)
    <3>1. /\ buf'[d] = Left(d, q) /\ sock'[d] = sock[d] \o Into(d, q)
          /\ next'[d] = Numbered(buf[d], next[d])
      BY <2>1, <2>2 DEF SendFrame
    <3>2. QED
      BY <1>1, <2>1, <3>1, AfterSend
  <2>3. CASE ~Receives(d)
    <3>1. buf'[d] = buf[d] /\ sock'[d] = sock[d] /\ next'[d] = next[d]
      BY <2>3 DEF SendFrame
    <3>2. Whole(Joint(Read(d), sock[d], buf[d]), next[d])
      BY DEF SendInv, StreamInv, Stream, Read
    <3>3. QED
      BY <3>1, <3>2 DEF SendInv, Shape
  <2>4. QED
    BY <2>2, <2>3
<1>3. /\ buf' \in [Clients -> Seq(Part)] /\ sock' \in [Clients -> Seq(Part)]
      /\ next' \in [Clients -> Numbers] /\ seen' = seen
  <2>1. PICK f, g, h :
          /\ f = buf' /\ g = sock' /\ h = next'
          /\ f = [c \in Clients |-> f[c]] /\ g = [c \in Clients |-> g[c]]
          /\ h = [c \in Clients |-> h[c]]
    BY DEF SendFrame
  <2>2. QED
    BY <1>2, <2>1 DEF SendFrame
<1>4. Shape'
  BY <1>2, <1>3 DEF SendInv, Shape, Flags
<1>5. StreamInv'
  BY <1>2, <1>3 DEF StreamInv, Stream, Read
<1>6. QED
  BY <1>4, <1>5 DEF SendInv

\* Every step keeps the streams whole.
LEMMA SendStep == SendInv /\ [Next]_vars => SendInv'
<1> SUFFICES ASSUME SendInv, [Next]_vars
             PROVE  SendInv'
  OBVIOUS
<1>1. Flags'
  BY FlagsStep DEF SendInv
<1>2. ASSUME NEW c \in Clients, Request(c) PROVE SendInv'
  BY <1>1, <1>2, ReplyStep DEF Request
<1>3. ASSUME NEW c \in Clients, Play(c) PROVE SendInv'
  BY <1>1, <1>3, ReplyStep DEF Play
<1>4. ASSUME NEW c \in Clients, HandleWrite(c) PROVE SendInv'
  BY <1>1, <1>4, WriteStep
<1>5. ASSUME NEW c \in Clients, HandleClose(c) PROVE SendInv'
  BY <1>1, <1>5, NoMessageStep DEF HandleClose
<1>6. ASSUME NEW c \in Clients, PeerReads(c) PROVE SendInv'
  BY <1>1, <1>6, ReadStep
<1>7. ASSUME NEW c \in Clients, PeerResets(c) PROVE SendInv'
  BY <1>1, <1>7, NoMessageStep DEF PeerResets
<1>8. ASSUME NEW type \in FrameTypes, SendFrame(type) PROVE SendInv'
  BY <1>1, <1>8, FrameStep
<1>9. CASE UNCHANGED vars
  BY <1>1, <1>9, NoMessageStep DEF vars
<1>10. QED
  BY <1>2, <1>3, <1>4, <1>5, <1>6, <1>7, <1>8, <1>9 DEF Next

\* Nothing is sent or queued at the start.
LEMMA SendInit == Init => SendInv
<1> SUFFICES ASSUME Init
             PROVE  SendInv
  OBVIOUS
<1>1. /\ MaxQueue + 1 \in Numbers /\ 0 \in Numbers /\ Succ(MaxQueue + 1) = 0
      /\ Parts \in 1 .. Parts /\ SockBuf \in Nat
  BY SenderAssumption DEF Numbers, Succ
<1>2. PICK e \in Part : e = [num |-> MaxQueue + 1, part |-> Parts, kind |-> "reply"]
  BY <1>1 DEF Part, Kinds
<1>3. /\ seen = [c \in Clients |-> e] /\ next = [c \in Clients |-> 0]
      /\ buf = [c \in Clients |-> <<>>] /\ sock = [c \in Clients |-> <<>>]
  BY <1>2 DEF Init
<1>4. Shape
  BY <1>1, <1>3 DEF Init, Shape
<1>5. Joint(<<e>>, <<>>, <<>>) = <<e>>
  BY ConcatEmptySeq DEF Joint
<1>6. Whole(<<e>>, 0)
  BY <1>1, <1>2 DEF Whole, Chain
<1>7. StreamInv
  BY <1>3, <1>5, <1>6 DEF StreamInv, Stream
<1>8. QED
  BY <1>4, <1>7 DEF SendInv

\* What a client reads is a sequence of whole messages in the order in which
\* they were queued: BufferWriter::send goes on where it left off, append never
\* puts anything in between, and neither sendMessage nor sendRtpOverTcp goes
\* past the queue.
THEOREM StreamOfMessages == Spec => []WholeMessages
<1>1. SendInv => WholeMessages
  BY DEF SendInv, StreamInv, Whole, Chain, WholeMessages
<1>2. QED
  BY <1>1, SendInit, SendStep, PTL DEF Spec

-----------------------------------------------------------------------------
(* The bound of the queue *)

\* Where the packets of a queue end.
Ends(q) == {i \in DOMAIN q : q[i].part = Parts}

\* A queue has finitely many of them.
LEMMA EndsFinite ==
  ASSUME NEW q \in Seq(Part)
  PROVE  IsFiniteSet(Ends(q)) /\ Packets(q) = Cardinality(Ends(q)) /\ Packets(q) \in Nat
<1>1. Ends(q) \subseteq 1 .. Len(q) /\ Len(q) \in Nat
  BY LenProperties DEF Ends
<1>2. IsFiniteSet(1 .. Len(q))
  BY <1>1, FS_Interval
<1>3. IsFiniteSet(Ends(q))
  BY <1>1, <1>2, FS_Subset
<1>4. QED
  BY <1>3, FS_CardinalityType DEF Packets, Ends

\* Another message is one packet more.
LEMMA PacketsOfMore ==
  ASSUME NEW q \in Seq(Part), NEW n \in Numbers, NEW kind \in Kinds
  PROVE  Packets(q \o Message(n, kind)) = Packets(q) + 1
<1>1. PICK m \in Seq(Part) :
        /\ m = Message(n, kind) /\ Len(m) = Parts
        /\ \A i \in 1 .. Parts : m[i].part = i
  <2>1. /\ Message(n, kind) \in Seq(Part) /\ Len(Message(n, kind)) = Parts
        /\ \A i \in 1 .. Parts : Message(n, kind)[i].part = i
    <3>1. ASSUME NEW i \in 1 .. Parts PROVE Message(n, kind)[i].part = i
      <4>1. Message(n, kind)[i] = [num |-> n, part |-> i, kind |-> kind]
        BY MessageIsWhole
      <4>2. QED
        BY <4>1
    <3>2. QED
      BY <3>1, MessageIsWhole
  <2>2. QED
    BY <2>1, Zenon
<1>2. PICK t \in Seq(Part) :
        /\ t = q \o m /\ Len(t) = Len(q) + Len(m)
        /\ \A i \in 1 .. Len(q) : t[i] = q[i]
        /\ \A i \in 1 .. Len(m) : t[Len(q) + i] = m[i]
  <2>1. m \in Seq(Part)
    BY <1>1
  <2>2. /\ q \o m \in Seq(Part) /\ Len(q \o m) = Len(q) + Len(m)
        /\ \A i \in 1 .. Len(q) : (q \o m)[i] = q[i]
        /\ \A i \in 1 .. Len(m) : (q \o m)[Len(q) + i] = m[i]
    BY <2>1, Joined
  <2>3. QED
    BY <2>2, Zenon
<1>3. PICK nq \in Nat, np \in Nat \ {0} : nq = Len(q) /\ np = Parts
  BY SenderAssumption, LenProperties
<1>4. /\ DOMAIN t = 1 .. nq + np /\ DOMAIN q = 1 .. nq
      /\ \A i \in 1 .. nq : t[i] = q[i]
      /\ \A i \in 1 .. np : t[nq + i].part = i
  <2>1. Len(m) = np /\ Len(q) = nq
    BY <1>1, <1>3
  <2>2. DOMAIN t = 1 .. Len(t) /\ DOMAIN q = 1 .. Len(q)
    BY <1>2, LenProperties
  <2>3. /\ \A i \in 1 .. np : t[nq + i] = m[i]
        /\ \A i \in 1 .. np : m[i].part = i
    BY <1>1, <1>2, <1>3, <2>1
  <2>4. QED
    BY <1>2, <2>1, <2>2, <2>3
<1>5. Ends(t) = Ends(q) \cup {nq + np} /\ nq + np \notin Ends(q)
  <2>1. \A i \in 1 .. nq + np : i \in 1 .. nq \/ \E j \in 1 .. np : i = nq + j
    <3>1. \A i \in 1 .. nq + np : i > nq => i - nq \in 1 .. np /\ i = nq + (i - nq)
      BY <1>3
    <3>2. QED
      BY <1>3, <3>1, SMTT(30)
  <2>2. ASSUME NEW i PROVE i \in Ends(t) <=> i \in Ends(q) \cup {nq + np}
    <3>1. CASE i \in 1 .. nq
      BY <1>3, <1>4, <3>1 DEF Ends
    <3>2. CASE \E j \in 1 .. np : i = nq + j
      <4>1. PICK j \in 1 .. np : i = nq + j
        BY <3>2
      <4>2. i \in 1 .. nq + np /\ i \notin 1 .. nq /\ (j = np <=> i = nq + np)
        BY <1>3, <4>1, SMTT(30)
      <4>3. t[i].part = j
        BY <1>4, <4>1
      <4>4. QED
        BY <1>3, <1>4, <4>1, <4>2, <4>3 DEF Ends
    <3>3. CASE i \notin 1 .. nq + np
      BY <1>3, <1>4, <3>3 DEF Ends
    <3>4. QED
      BY <2>1, <3>1, <3>2, <3>3
  <2>3. nq + np \notin Ends(q)
    BY <1>3, <1>4 DEF Ends
  <2>4. QED
    BY <2>2, <2>3
<1>6. Packets(t) = Packets(q) + 1
  <2>1. IsFiniteSet(Ends(q)) /\ Packets(q) = Cardinality(Ends(q))
    BY EndsFinite
  <2>2. Packets(t) = Cardinality(Ends(t))
    BY <1>2, EndsFinite
  <2>3. Cardinality(Ends(q) \cup {nq + np}) = Cardinality(Ends(q)) + 1
    BY <1>5, <2>1, FS_AddElement
  <2>4. QED
    BY <1>5, <2>1, <2>2, <2>3
<1>7. QED
  BY <1>1, <1>2, <1>6

\* What is left of a queue has no packet that was not in it.
LEMMA PacketsLeft ==
  ASSUME NEW q \in Seq(Part), NEW k \in 0 .. Len(q)
  PROVE  Packets(SubSeq(q, k + 1, Len(q))) <= Packets(q)
<1>1. PICK t \in Seq(Part) :
        /\ t = SubSeq(q, k + 1, Len(q)) /\ Len(t) = Len(q) - k
        /\ \A i \in 1 .. Len(q) - k : t[i] = q[k + i]
  <2>1. /\ SubSeq(q, k + 1, Len(q)) \in Seq(Part)
        /\ Len(SubSeq(q, k + 1, Len(q))) = Len(q) - k
        /\ \A i \in 1 .. Len(q) - k : SubSeq(q, k + 1, Len(q))[i] = q[k + i]
    BY Cut
  <2>2. QED
    BY <2>1, Zenon
<1>2. PICK nq \in Nat : nq = Len(q)
  BY LenProperties
<1>3. DOMAIN t = 1 .. nq - k /\ DOMAIN q = 1 .. nq /\ k \in 0 .. nq
  BY <1>1, <1>2, LenProperties
<1>4. PICK f : f = [i \in Ends(t) |-> k + i]
  BY Zenon
<1>5. f \in Injection(Ends(t), Ends(q))
  <2>1. ASSUME NEW i \in Ends(t) PROVE k + i \in Ends(q)
    <3>1. i \in 1 .. nq - k /\ t[i].part = Parts /\ t[i] = q[k + i]
      BY <1>1, <1>2, <1>3 DEF Ends
    <3>2. k + i \in 1 .. nq
      BY <1>3, <3>1
    <3>3. QED
      BY <1>3, <3>1, <3>2 DEF Ends
  <2>2. \A i \in Ends(t) : i \in Int
    BY <1>3 DEF Ends
  <2>3. \A i, j \in Ends(t) : k + i = k + j => i = j
    BY <1>3, <2>2
  <2>4. QED
    BY <1>4, <2>1, <2>3 DEF Injection, IsInjective
<1>6. Cardinality(Ends(t)) <= Cardinality(Ends(q))
  BY <1>5, EndsFinite, FS_Injection
<1>7. QED
  BY <1>1, <1>6, EndsFinite

\* append and send keep to the bound of the queue.
LEMMA StillBounded ==
  ASSUME Shape, QueueBounded, NEW c \in Clients, NEW n \in Numbers, NEW kind \in Kinds
  PROVE  /\ Packets(Left(c, Appended(buf[c], n, kind))) <= MaxQueue
         /\ Packets(Left(c, buf[c])) <= MaxQueue
<1>1. buf[c] \in Seq(Part) /\ Packets(buf[c]) <= MaxQueue /\ MaxQueue \in Nat
  BY SenderAssumption DEF Shape, QueueBounded
<1>2. ASSUME NEW q \in Seq(Part), Packets(q) <= MaxQueue
      PROVE  Packets(Left(c, q)) <= MaxQueue
  <2>1. PICK k \in 0 .. Len(q) : Left(c, q) = SubSeq(q, k + 1, Len(q))
    BY LeftIsTail
  <2>2. PICK t \in Seq(Part) : t = SubSeq(q, k + 1, Len(q))
    BY Cut
  <2>3. Left(c, q) = t
    BY <2>1, <2>2
  <2>4. Packets(t) <= Packets(q)
    BY <2>2, PacketsLeft
  <2>5. Packets(t) \in Nat /\ Packets(q) \in Nat
    BY <2>2, EndsFinite
  <2>6. QED
    BY <1>1, <1>2, <2>3, <2>4, <2>5
<1>3. /\ Appended(buf[c], n, kind) \in Seq(Part)
      /\ Packets(Appended(buf[c], n, kind)) <= MaxQueue
  <2>1. CASE Packets(buf[c]) < MaxQueue
    <3>1. PICK m \in Seq(Part) : m = Message(n, kind)
      BY MessageIsWhole
    <3>2. buf[c] \o m \in Seq(Part)
      BY <1>1, <3>1, Joined
    <3>3. Packets(buf[c] \o m) = Packets(buf[c]) + 1 /\ Packets(buf[c]) \in Nat
      BY <1>1, <3>1, PacketsOfMore, EndsFinite
    <3>4. QED
      BY <1>1, <2>1, <3>1, <3>2, <3>3 DEF Appended
  <2>2. CASE ~(Packets(buf[c]) < MaxQueue)
    BY <1>1, <2>2 DEF Appended
  <2>3. QED
    BY <2>1, <2>2
<1>4. QED
  BY <1>1, <1>2, <1>3

\* Every step keeps to the bounds.
LEMMA BoundStep == Shape /\ QueueBounded /\ [Next]_vars => QueueBounded'
<1> SUFFICES ASSUME Shape, QueueBounded, [Next]_vars, NEW d \in Clients
             PROVE  Packets(buf'[d]) <= MaxQueue
  BY DEF QueueBounded
<1>1. next[d] \in Numbers /\ Packets(buf[d]) <= MaxQueue /\ buf \in [Clients -> Seq(Part)]
  BY DEF Shape, QueueBounded
<1>2. ASSUME NEW c \in Clients, SendMessage(c)
      PROVE  buf'[d] = buf[d] \/ buf'[d] = Left(d, Appended(buf[d], next[d], "reply"))
  BY <1>1, <1>2 DEF SendMessage
<1>3. ASSUME NEW type \in FrameTypes, SendFrame(type)
      PROVE  buf'[d] = buf[d] \/ buf'[d] = Left(d, Appended(buf[d], next[d], type))
  BY <1>3 DEF SendFrame
<1>4. ASSUME NEW c \in Clients, HandleWrite(c)
      PROVE  buf'[d] = buf[d] \/ buf'[d] = Left(d, buf[d])
  BY <1>1, <1>4 DEF HandleWrite
<1>5. \/ buf'[d] = buf[d] \/ buf'[d] = Left(d, buf[d])
      \/ \E kind \in Kinds : buf'[d] = Left(d, Appended(buf[d], next[d], kind))
  <2>1. "reply" \in Kinds /\ FrameTypes \subseteq Kinds
    BY DEF Kinds
  <2>2. CASE \E c \in Clients : Request(c) \/ Play(c)
    BY <1>2, <2>1, <2>2 DEF Request, Play
  <2>3. CASE \E c \in Clients : HandleWrite(c)
    BY <1>4, <2>3
  <2>4. CASE \E type \in FrameTypes : SendFrame(type)
    BY <1>3, <2>1, <2>4
  <2>5. CASE \/ \E c \in Clients : HandleClose(c) \/ PeerReads(c) \/ PeerResets(c)
             \/ UNCHANGED vars
    BY <2>5 DEF HandleClose, PeerReads, PeerResets, dataVars, vars
  <2>6. QED
    BY <2>2, <2>3, <2>4, <2>5 DEF Next
<1>6. QED
  <2>1. CASE buf'[d] = Left(d, buf[d])
    <3>1. "reply" \in Kinds
      BY DEF Kinds
    <3>2. QED
      BY <1>1, <2>1, <3>1, StillBounded
  <2>2. CASE \E kind \in Kinds : buf'[d] = Left(d, Appended(buf[d], next[d], kind))
    BY <1>1, <2>2, StillBounded
  <2>3. QED
    BY <1>1, <1>5, <2>1, <2>2

\* The write queue never holds more packets than BufferWriter was made for,
\* whatever replies and RTP packets compete for it, and the variables have
\* their types.
THEOREM SenderTypeCorrect == Spec => []TypeOK
<1>1. Init => QueueBounded
  <2> SUFFICES ASSUME Init, NEW c \in Clients
               PROVE  Packets(buf[c]) <= MaxQueue
    BY DEF QueueBounded
  <2>1. buf[c] = <<>> /\ MaxQueue \in Nat
    BY SenderAssumption DEF Init
  <2>2. Ends(<<>>) = {} /\ <<>> \in Seq(Part)
    BY DEF Ends
  <2>3. Packets(<<>>) = 0
    BY <2>2, EndsFinite, FS_EmptySet
  <2>4. QED
    BY <2>1, <2>3
<1>2. SendInv /\ QueueBounded => TypeOK
  BY DEF SendInv, TypeOK
<1>3. SendInv /\ QueueBounded /\ [Next]_vars => SendInv' /\ QueueBounded'
  BY SendStep, BoundStep DEF SendInv
<1>4. QED
  BY <1>1, <1>2, <1>3, SendInit, PTL DEF Spec

-----------------------------------------------------------------------------
(* Replies that wait *)

HasReply(q) == \E i \in DOMAIN q : q[i].kind = "reply"

\* Neither an RTP packet behind the queue nor sending makes a reply.
LEMMA NoNewReply ==
  ASSUME Shape, NEW c \in Clients, NEW n \in Numbers, NEW type \in FrameTypes,
         HasReply(Left(c, Appended(buf[c], n, type)))
  PROVE  HasReply(buf[c])
<1>1. buf[c] \in Seq(Part) /\ type \in Kinds
  BY DEF Shape, Kinds
<1>2. ASSUME NEW q \in Seq(Part), HasReply(Left(c, q))
      PROVE  HasReply(q)
  <2>1. PICK k \in 0 .. Len(q) : Left(c, q) = SubSeq(q, k + 1, Len(q))
    BY LeftIsTail
  <2>2. PICK t \in Seq(Part) :
          /\ t = SubSeq(q, k + 1, Len(q)) /\ Len(t) = Len(q) - k
          /\ \A i \in 1 .. Len(q) - k : t[i] = q[k + i]
    <3>1. /\ SubSeq(q, k + 1, Len(q)) \in Seq(Part)
          /\ Len(SubSeq(q, k + 1, Len(q))) = Len(q) - k
          /\ \A i \in 1 .. Len(q) - k : SubSeq(q, k + 1, Len(q))[i] = q[k + i]
      BY Cut
    <3>2. QED
      BY <3>1, Zenon
  <2>3. t = Left(c, q)
    BY <2>1, <2>2
  <2>4. PICK i \in 1 .. Len(t) : t[i].kind = "reply"
    BY <1>2, <2>2, <2>3, LenProperties DEF HasReply
  <2>5. k + i \in 1 .. Len(q) /\ t[i] = q[k + i] /\ DOMAIN q = 1 .. Len(q)
    BY <2>1, <2>2, <2>4, LenProperties
  <2>6. QED
    BY <2>4, <2>5 DEF HasReply
<1>3. CASE Packets(buf[c]) < MaxQueue
  <2>1. PICK m \in Seq(Part) :
          /\ m = Message(n, type) /\ Len(m) = Parts
          /\ \A i \in 1 .. Parts : m[i].kind = type
    <3>1. ASSUME NEW i \in 1 .. Parts PROVE Message(n, type)[i].kind = type
      <4>1. Message(n, type)[i] = [num |-> n, part |-> i, kind |-> type]
        BY <1>1, MessageIsWhole
      <4>2. QED
        BY <4>1
    <3>2. Message(n, type) \in Seq(Part) /\ Len(Message(n, type)) = Parts
      BY <1>1, MessageIsWhole
    <3>3. QED
      BY <3>1, <3>2, Zenon
  <2>2. PICK b \in Seq(Part) : b = buf[c]
    BY <1>1
  <2>3. PICK t \in Seq(Part) :
          /\ t = b \o m /\ Len(t) = Len(b) + Len(m)
          /\ \A i \in 1 .. Len(b) : t[i] = b[i]
          /\ \A i \in 1 .. Len(m) : t[Len(b) + i] = m[i]
    <3>1. m \in Seq(Part) /\ b \in Seq(Part)
      BY <2>1, <2>2
    <3>2. /\ b \o m \in Seq(Part) /\ Len(b \o m) = Len(b) + Len(m)
          /\ \A i \in 1 .. Len(b) : (b \o m)[i] = b[i]
          /\ \A i \in 1 .. Len(m) : (b \o m)[Len(b) + i] = m[i]
      BY <3>1, Joined
    <3>3. QED
      BY <3>2, Zenon
  <2>4. t = Appended(buf[c], n, type)
    BY <1>3, <2>1, <2>2, <2>3 DEF Appended
  <2>5. PICK i \in DOMAIN t : t[i].kind = "reply"
    BY <1>2, <2>4 DEF HasReply
  <2>6. PICK nb \in Nat, np \in Nat : nb = Len(b) /\ np = Len(m)
    BY LenProperties
  <2>7. DOMAIN t = 1 .. nb + np /\ DOMAIN b = 1 .. nb
    BY <2>3, <2>6, LenProperties
  <2>8. CASE i \in 1 .. nb
    <3>1. b[i].kind = "reply"
      BY <2>3, <2>5, <2>6, <2>8
    <3>2. QED
      BY <2>2, <2>7, <2>8, <3>1 DEF HasReply
  <2>9. CASE i \notin 1 .. nb
    <3>1. PICK j \in 1 .. np : i = nb + j
      <4>1. i - nb \in 1 .. np /\ i = nb + (i - nb)
        BY <2>5, <2>6, <2>7, <2>9
      <4>2. QED
        BY <4>1, Zenon
    <3>2. t[nb + j] = m[j] /\ m[j].kind = type
      BY <2>1, <2>3, <2>6, <3>1
    <3>3. QED
      BY <2>5, <3>1, <3>2 DEF FrameTypes
  <2>10. QED
    BY <2>8, <2>9
<1>4. CASE ~(Packets(buf[c]) < MaxQueue)
  BY <1>1, <1>2, <1>4 DEF Appended
<1>5. QED
  BY <1>3, <1>4

\* ReplyHasInterest, client by client.
Waits(c) == HasReply(buf[c]) => out[c] \/ closed[c]
AllWait == \A c \in Clients : Waits(c)

\* Every step keeps it.
LEMMA WaitsStep == Shape /\ AllWait /\ [Next]_vars => AllWait'
<1> SUFFICES ASSUME Shape, NEW d \in Clients, Waits(d), [Next]_vars, HasReply(buf'[d])
             PROVE  out'[d] \/ closed'[d]
  BY DEF AllWait, Waits
<1>1. /\ out \in [Clients -> BOOLEAN] /\ closed \in [Clients -> BOOLEAN]
      /\ buf \in [Clients -> Seq(Part)] /\ next[d] \in Numbers
  BY DEF Shape
<1>2. buf'[d] # <<>>
  BY DEF HasReply
<1>3. ASSUME NEW c \in Clients, SendMessage(c) PROVE out'[d] \/ closed'[d]
  <2>1. PICK q : q = Appended(buf[c], next[c], "reply")
    BY Zenon
  <2>2. /\ buf' = [buf EXCEPT ![c] = Left(c, q)]
        /\ closed' = [closed EXCEPT ![c] = Fails(c, q)]
        /\ out' = [out EXCEPT ![c] =
             IF Fails(c, q) THEN out[c] ELSE ReplyInterest(c, Left(c, q))]
    BY <1>3, <2>1 DEF SendMessage
  <2>3. CASE c = d
    BY <1>1, <1>2, <2>2, <2>3 DEF ReplyInterest
  <2>4. CASE c # d
    BY <1>1, <2>2, <2>4 DEF Waits
  <2>5. QED
    BY <2>3, <2>4
<1>4. ASSUME NEW c \in Clients, HandleWrite(c) PROVE out'[d] \/ closed'[d]
  <2>1. CASE c = d
    BY <1>1, <1>2, <1>4, <2>1 DEF HandleWrite, WriteInterest
  <2>2. CASE c # d
    BY <1>1, <1>4, <2>2 DEF HandleWrite, Waits
  <2>3. QED
    BY <2>1, <2>2
<1>5. ASSUME NEW c \in Clients, HandleClose(c) PROVE out'[d] \/ closed'[d]
  BY <1>1, <1>5 DEF HandleClose, dataVars, Waits
<1>6. ASSUME NEW type \in FrameTypes, SendFrame(type) PROVE out'[d] \/ closed'[d]
  <2>1. HasReply(buf[d])
    <3>1. buf'[d] = buf[d] \/ buf'[d] = Left(d, Appended(buf[d], next[d], type))
      BY <1>6 DEF SendFrame
    <3>2. QED
      BY <1>1, <3>1, NoNewReply
  <2>2. (out[d] => out'[d]) /\ closed' = closed
    BY <1>6 DEF SendFrame, RtpInterest
  <2>3. QED
    BY <2>1, <2>2 DEF Waits
<1>7. CASE \/ \E c \in Clients : PeerReads(c) \/ PeerResets(c)
           \/ UNCHANGED vars
  BY <1>7 DEF PeerReads, PeerResets, dataVars, rtspVars, vars, Waits
<1>8. QED
  BY <1>3, <1>4, <1>5, <1>6, <1>7 DEF Next, Request, Play

\* A reply that waits in the queue always has EPOLLOUT to wait for, in spite of
\* the inverted test in sendRtpOverTcp.
THEOREM RepliesAreFlushed == Spec => []ReplyHasInterest
<1>1. Init => AllWait
  BY DEF Init, AllWait, Waits, HasReply
<1>2. AllWait => ReplyHasInterest
  BY DEF AllWait, Waits, HasReply, ReplyHasInterest
<1>3. SendInv => Shape
  BY DEF SendInv
<1>4. QED
  BY <1>1, <1>2, <1>3, SendInit, SendStep, WaitsStep, PTL DEF Spec

-----------------------------------------------------------------------------
(* The gate *)

\* The gate of a client that plays is open only when its first frame was sent,
\* or never will be.
Gate(c) ==
  /\ first[c] # "P"
  /\ play[c] /\ idr[c] => first[c] # "none" \/ torn[c] \/ closed[c]
AllGates == \A c \in Clients : Gate(c)

\* Every step keeps it.
LEMMA GateStep == Shape /\ AllGates /\ [Next]_vars => AllGates'
<1> SUFFICES ASSUME Shape, NEW d \in Clients, Gate(d), [Next]_vars
             PROVE  Gate(d)'
  BY DEF AllGates
<1>1. /\ play \in [Clients -> BOOLEAN] /\ idr \in [Clients -> BOOLEAN]
      /\ torn \in [Clients -> BOOLEAN] /\ closed \in [Clients -> BOOLEAN]
      /\ first \in [Clients -> {"none", "opened"} \cup FrameTypes]
  BY DEF Shape
<1>2. ASSUME NEW c \in Clients, SendMessage(c), ~closed[c]
      PROVE  closed[d] => closed'[d]
  <2>1. PICK f : f = Fails(c, Appended(buf[c], next[c], "reply"))
    BY Zenon
  <2>2. closed' = [closed EXCEPT ![c] = f]
    BY <1>2, <2>1 DEF SendMessage
  <2>3. QED
    BY <1>1, <1>2, <2>2
<1>3. ASSUME NEW c \in Clients, Request(c) PROVE Gate(d)'
  BY <1>1, <1>2, <1>3 DEF Request, rtpVars, Gate
<1>4. ASSUME NEW c \in Clients, Play(c) PROVE Gate(d)'
  <2>1. CASE c = d
    BY <1>1, <1>4, <2>1 DEF Play, Gate
  <2>2. CASE c # d
    BY <1>1, <1>2, <1>4, <2>2 DEF Play, Gate
  <2>3. QED
    BY <2>1, <2>2
<1>5. ASSUME NEW c \in Clients, HandleWrite(c) PROVE Gate(d)'
  <2>1. PICK f : f = Fails(c, buf[c])
    BY Zenon
  <2>2. closed' = [closed EXCEPT ![c] = f] /\ ~closed[c]
    BY <1>5, <2>1 DEF HandleWrite
  <2>3. QED
    BY <1>1, <1>5, <2>2 DEF HandleWrite, rtpVars, Gate
<1>6. ASSUME NEW c \in Clients, HandleClose(c) PROVE Gate(d)'
  BY <1>1, <1>6 DEF HandleClose, rtpVars, Gate
<1>7. ASSUME NEW type \in FrameTypes, SendFrame(type) PROVE Gate(d)'
  <2>1. /\ idr'[d] = (idr[d] \/ (~closed[d] /\ type \in {"untyped", "I"}))
        /\ play' = play /\ closed' = closed
        /\ first'[d] = IF Receives(d) /\ first[d] = "none" THEN type ELSE first[d]
    BY <1>7 DEF SendFrame, Opens
  <2>2. torn[d] => torn'[d]
    BY <1>7 DEF SendFrame
  <2>3. Receives(d) <=> ~closed[d] /\ play[d] /\ idr'[d] /\ ~torn[d]
    BY DEF Receives
  <2>4. QED
    BY <1>1, <2>1, <2>2, <2>3 DEF Gate
<1>8. CASE \/ \E c \in Clients : PeerReads(c) \/ PeerResets(c)
           \/ UNCHANGED vars
  BY <1>8 DEF PeerReads, PeerResets, rtpVars, rtspVars, vars, Gate
<1>9. QED
  BY <1>3, <1>4, <1>5, <1>6, <1>7, <1>8 DEF Next

\* A client that plays before its gate is open is sent the frame that opens it
\* first: an I frame or one of type 0 (RtpConnection.cpp:224-231, 249).
THEOREM StartsAtTheGate == Spec => []FirstFrameOpens
<1>1. Init => AllGates
  BY DEF Init, AllGates, Gate
<1>2. AllGates => FirstFrameOpens
  BY DEF AllGates, Gate, FirstFrameOpens
<1>3. SendInv => Shape
  BY DEF SendInv
<1>4. QED
  BY <1>1, <1>2, <1>3, SendInit, SendStep, GateStep, PTL DEF Spec

=============================================================================
