---------------------------- MODULE MediaSources ----------------------------
(***************************************************************************)
(* How the media sources of xop cut a frame into RTP packets: H264Source   *)
(* and H265Source fragment what does not fit into one packet, AACSource    *)
(* and G711ASource refuse it. A frame is its size and, for video, the      *)
(* first byte of its NAL header; a packet says which of the frame's bytes  *)
(* it carries, from (exclusive) and to, behind which bytes of its own.     *)
(***************************************************************************)
EXTENDS Integers, Sequences

CONSTANTS MaxPayload,  \* MAX_RTP_PAYLOAD_SIZE
          FrameSizes,  \* sizes of frames
          NalHeaders   \* first bytes of NAL headers

\* The length of an access unit has 13 bits (AuSize is 4).
ASSUME SourceAssumption ==
  /\ MaxPayload \in Nat /\ MaxPayload > 4 /\ MaxPayload - 4 < 8192
  /\ FrameSizes \subseteq Nat \ {0} /\ NalHeaders \subseteq 0 .. 255

Packet(own, from, to, marker) == [own |-> own, from |-> from, to |-> to, marker |-> marker]
Alone(n) == <<Packet(<<>>, 0, n, 1)>>

-----------------------------------------------------------------------------
(* Video.  What a fragment replaces of the frame, its own bytes, and those  *)
(* of the byte with the start bit (128) and the end bit (64).               *)

Codecs == {"H264", "H265"}
Replaced(codec) == IF codec = "H264" THEN 1 ELSE 2
OwnBytes(codec) == IF codec = "H264" THEN 2 ELSE 3

\* FU_A[0] and FU_A[1]; FU[0] and FU[2] (FU[1] is the second byte of the frame).
Indicator(codec, h) ==
  IF codec = "H264" THEN (h \div 32) * 32 + 28 ELSE (h \div 128) * 128 + 98 + (h % 2)
NalType(codec, h) == IF codec = "H264" THEN h % 32 ELSE (h % 128) \div 2
FuHeader(codec, h, start, end) ==
  NalType(codec, h) + (IF start THEN 128 ELSE 0) + (IF end THEN 64 ELSE 0)

Fragment(codec, h, from, to, end) ==
  Packet(<<Indicator(codec, h), FuHeader(codec, h, from = Replaced(codec), end)>>,
         from, to, IF end THEN 1 ELSE 0)

\* Mutation: a rest that just fills a packet is cut once more.
Exceeds_OffByOne(codec, rest) == rest + OwnBytes(codec) >= MaxPayload

\* The condition of the while loop.
Exceeds(codec, rest) == rest + OwnBytes(codec) > MaxPayload

\* The while loop and the last fragment, from the byte at.
FragmentsFrom(codec, h, n) ==
  LET step == MaxPayload - OwnBytes(codec)
      f[at \in 0 .. n] ==
        IF Exceeds(codec, n - at)
        THEN <<Fragment(codec, h, at, at + step, FALSE)>> \o f[at + step]
        ELSE <<Fragment(codec, h, at, n, TRUE)>>
  IN  f[Replaced(codec)]

VideoPackets(codec, h, n) ==
  IF n <= MaxPayload THEN Alone(n) ELSE FragmentsFrom(codec, h, n)

-----------------------------------------------------------------------------
(* Audio *)

AuSize == 4     \* AU_SIZE
AdtsSize == 7   \* ADTS_SIZE

\* An access unit is sent without its ADTS header, behind its length in 13 bits.
AacPackets(adts, n) ==
  LET from == IF adts THEN AdtsSize ELSE 0
      size == n - from
  IN  IF n > MaxPayload - AuSize THEN <<>>
      ELSE <<Packet(<<0, 16, (size % 8192) \div 32, (size % 32) * 8>>, from, n, 1)>>

G711aPackets(n) == IF n > MaxPayload THEN <<>> ELSE Alone(n)

-----------------------------------------------------------------------------
(* What a receiver makes of the packets (RFC 6184, RFC 7798, RFC 3640)       *)

Starts(p) == p.own[2] \div 128 = 1
Ends(p) == (p.own[2] \div 64) % 2 = 1

\* The first byte of the NAL header a fragment is from.
Restored(codec, p) ==
  IF codec = "H264" THEN (p.own[1] \div 32) * 32 + (p.own[2] % 32)
                    ELSE (p.own[1] \div 128) * 128 + (p.own[2] % 64) * 2 + (p.own[1] % 2)

\* The packets carry, one after the other, the bytes after from up to n, none of
\* them empty, and the last one only has the marker.
Covers(ps, from, n) ==
  /\ ps[1].from = from /\ ps[Len(ps)].to = n
  /\ \A i \in DOMAIN ps :
       /\ ps[i].from < ps[i].to
       /\ i > 1 => ps[i].from = ps[i - 1].to
       /\ ps[i].marker = 1 <=> i = Len(ps)

Fragmented(codec, h, ps) ==
  \A i \in DOMAIN ps : /\ Starts(ps[i]) <=> i = 1
                       /\ Ends(ps[i]) <=> i = Len(ps)
                       /\ Restored(codec, ps[i]) = h
                       /\ OwnBytes(codec) + ps[i].to - ps[i].from <= MaxPayload

\* One packet, or two and more fragments that fit into packets and that the
\* receiver can put together, exactly one start, one end and one marker among
\* them, and with the NAL header restored.
VideoWhole ==
  \A codec \in Codecs, h \in NalHeaders, n \in FrameSizes :
    LET ps == VideoPackets(codec, h, n) IN
    IF n <= MaxPayload THEN Covers(ps, 0, n) /\ Len(ps) = 1
    ELSE Covers(ps, Replaced(codec), n) /\ Len(ps) > 1 /\ Fragmented(codec, h, ps)

\* A frame that is not refused fits into one packet, and the length field of AAC
\* is the number of bytes that follow it, with and without ADTS header.
AudioWhole ==
  \A n \in FrameSizes :
    /\ G711aPackets(n) # <<>> => n <= MaxPayload /\ Covers(G711aPackets(n), 0, n)
    /\ \A adts \in BOOLEAN :
         LET ps == AacPackets(adts, n) IN
         (adts => n > AdtsSize) /\ ps # <<>> =>
           /\ Covers(ps, IF adts THEN AdtsSize ELSE 0, n)
           /\ AuSize + ps[1].to - ps[1].from <= MaxPayload
           /\ ps[1].own[3] * 32 + (ps[1].own[4] \div 8) = ps[1].to - ps[1].from
=============================================================================
