------------------------- MODULE MediaSourcesProofs -------------------------
(***************************************************************************)
(* The packets of MediaSources for frames of every size, every NAL header  *)
(* and every size of a packet.                                             *)
(***************************************************************************)
EXTENDS MCRtpSender, SequenceTheorems, WellFoundedInduction, TLAPS

\* A set of numbers has a least one.
LEMMA Lowest ==
  ASSUME NEW C \in SUBSET Nat, C # {}
  PROVE  \E m \in C : \A j \in C : m <= j
<1> DEFINE Lower == {ss \in Nat \X Nat : ss[1] < ss[2]}
<1>1. IsWellFoundedOn(Lower, Nat)
  BY NatLessThanWellFounded DEF OpToRel
<1>2. \A i, j \in Nat : <<j, i>> \in Lower <=> j < i
  OBVIOUS
<1> HIDE DEF Lower
<1>3. PICK m \in C : \A j \in C : ~(<<j, m>> \in Lower)
  BY <1>1, WFMin, Zenon
<1>4. \A j \in C : ~(j < m)
  BY <1>2, <1>3
<1>5. QED
  BY <1>4

-----------------------------------------------------------------------------
(* The while loop *)

Step(codec) == MaxPayload - OwnBytes(codec)
Loop(codec, h, n, g, at) ==
  IF Exceeds(codec, n - at)
  THEN <<Fragment(codec, h, at, at + Step(codec), FALSE)>> \o g[at + Step(codec)]
  ELSE <<Fragment(codec, h, at, n, TRUE)>>

\* g is what the loop makes of the last m bytes and less.
Defines(codec, h, n, m, g) == g = [at \in (n - m) .. n |-> Loop(codec, h, n, g, at)]

LEMMA StepFacts ==
  ASSUME NEW codec \in Codecs
  PROVE  /\ Step(codec) \in Nat /\ Step(codec) >= 1
         /\ \A n \in Nat, at \in Int : Exceeds(codec, n - at) <=> at + Step(codec) < n
         /\ OwnBytes(codec) = Replaced(codec) + 1 /\ Replaced(codec) \in {1, 2}
         /\ MaxPayload \in Nat /\ MaxPayload > 4
         /\ OwnBytes(codec) + Step(codec) = MaxPayload
  BY SourceAssumption DEF Codecs, Step, OwnBytes, Replaced, Exceeds

\* The loop ends, whatever the frame: a function satisfies its equation.
LEMMA LoopEnds ==
  ASSUME NEW codec \in Codecs, NEW h, NEW n \in Nat
  PROVE  \E g : Defines(codec, h, n, n, g)
<1> DEFINE Good(m) == \E g : Defines(codec, h, n, m, g)
           Bad == {m \in 0 .. n : ~Good(m)}
           S == Step(codec)
<1>1. /\ S \in Nat /\ S >= 1
      /\ \A at \in Int : Exceeds(codec, n - at) <=> at + S < n
  BY StepFacts
<1> HIDE DEF S
<1>2. Good(0)
  <2> DEFINE g == [at \in (n - 0) .. n |-> <<Fragment(codec, h, at, n, TRUE)>>]
  <2>1. \A at \in (n - 0) .. n : Loop(codec, h, n, g, at) = <<Fragment(codec, h, at, n, TRUE)>>
    <3>1. \A at \in (n - 0) .. n : ~Exceeds(codec, n - at)
      BY <1>1
    <3>2. QED
      BY <3>1 DEF Loop
  <2>2. Defines(codec, h, n, 0, g)
    BY <2>1 DEF Defines
  <2>3. QED
    BY <2>2
<1>3. ASSUME NEW m \in 1 .. n, Good(m - 1)
      PROVE  Good(m)
  <2>1. PICK g : g = [at \in (n - (m - 1)) .. n |-> Loop(codec, h, n, g, at)]
    BY <1>3 DEF Defines
  <2> DEFINE k == [at \in (n - m) .. n |->
                     IF at = n - m THEN Loop(codec, h, n, g, at) ELSE g[at]]
  <2>2. ASSUME NEW at \in (n - m) .. n, Exceeds(codec, n - at)
        PROVE  k[at + S] = g[at + S]
    <3>1. at + S \in (n - m) .. n /\ at + S # n - m
      BY <1>1, <2>2
    <3>2. QED
      BY <3>1
  <2>3. ASSUME NEW at \in (n - m) .. n
        PROVE  k[at] = Loop(codec, h, n, g, at)
    <3>1. CASE at = n - m
      BY <3>1
    <3>2. CASE at # n - m
      <4>1. at \in (n - (m - 1)) .. n
        BY <3>2
      <4>2. g[at] = Loop(codec, h, n, g, at)
        BY <2>1, <4>1
      <4>3. QED
        BY <3>2, <4>2
    <3>3. QED
      BY <3>1, <3>2
  <2>4. k = [at \in (n - m) .. n |-> k[at]]
    OBVIOUS
  <2> HIDE DEF k
  <2>5. ASSUME NEW at \in (n - m) .. n
        PROVE  Loop(codec, h, n, g, at) = Loop(codec, h, n, k, at)
    BY <2>2 DEF Loop, S
  <2>6. k = [at \in (n - m) .. n |-> Loop(codec, h, n, k, at)]
    <3>1. \A at \in (n - m) .. n : k[at] = Loop(codec, h, n, k, at)
      BY <2>3, <2>5
    <3>2. QED
      BY <2>4, <3>1
  <2>7. QED
    BY <2>6 DEF Defines
<1> HIDE DEF Good
<1>4. Bad = {}
  <2> SUFFICES ASSUME Bad # {}
               PROVE  FALSE
    OBVIOUS
  <2>1. Bad \in SUBSET Nat
    OBVIOUS
  <2>2. PICK m \in Bad : \A j \in Bad : m <= j
    BY <2>1, Lowest
  <2>3. m \in 0 .. n /\ ~Good(m)
    OBVIOUS
  <2>4. m # 0
    BY <1>2, <2>3
  <2>5. m \in 1 .. n /\ m - 1 \in 0 .. n /\ ~(m <= m - 1)
    BY <2>3, <2>4
  <2>6. Good(m - 1)
    BY <2>2, <2>5
  <2>7. QED
    BY <1>3, <2>3, <2>5, <2>6
<1>5. Good(n)
  <2>1. n \in 0 .. n
    OBVIOUS
  <2>2. QED
    BY <1>4, <2>1
<1>6. QED
  BY <1>5 DEF Good

\* So FragmentsFrom is what the loop computes.
LEMMA LoopRuns ==
  ASSUME NEW codec \in Codecs, NEW h, NEW n \in Nat
  PROVE  \E g : /\ \A at \in 0 .. n : g[at] = Loop(codec, h, n, g, at)
                /\ FragmentsFrom(codec, h, n) = g[Replaced(codec)]
<1> DEFINE F(g) == g = [at \in 0 .. n |-> Loop(codec, h, n, g, at)]
           f == CHOOSE g : F(g)
<1>1. \E g : F(g)
  <2>1. n - n = 0
    OBVIOUS
  <2>2. PICK g : Defines(codec, h, n, n, g)
    BY LoopEnds
  <2>3. F(g)
    BY <2>1, <2>2 DEF Defines
  <2>4. QED
    BY <2>3
<1>2. F(f)
  BY <1>1
<1>3. FragmentsFrom(codec, h, n) = f[Replaced(codec)]
  BY DEF FragmentsFrom, Loop, Step
<1>4. \A at \in 0 .. n : f[at] = Loop(codec, h, n, f, at)
  <2> HIDE DEF f
  <2>1. QED
    BY <1>2
<1>5. QED
  BY <1>3, <1>4

-----------------------------------------------------------------------------
(* The fragments of a frame of n bytes *)

PacketsOf(n) == [own : Seq(Int), from : 0 .. n, to : 0 .. n, marker : {0, 1}]

\* The fragments ps carry the bytes from at on.
Cut(codec, h, n, ps, at) ==
  /\ ps \in Seq(PacketsOf(n)) /\ Len(ps) >= 1
  /\ ps[1].from = at /\ ps[Len(ps)].to = n
  /\ \A i \in 1 .. Len(ps) :
       /\ ps[i] = Fragment(codec, h, ps[i].from, ps[i].to, i = Len(ps))
       /\ ps[i].from \in 0 .. n /\ ps[i].to \in 0 .. n /\ ps[i].from < ps[i].to
       /\ ps[i].to - ps[i].from <= Step(codec)
       /\ i > 1 => ps[i].from = ps[i - 1].to /\ ps[i].from > at

LEMMA FragmentFields ==
  ASSUME NEW codec \in Codecs, NEW h \in 0 .. 255, NEW n \in Nat,
         NEW from \in 0 .. n, NEW to \in 0 .. n, NEW end \in BOOLEAN
  PROVE  /\ Fragment(codec, h, from, to, end) \in PacketsOf(n)
         /\ Fragment(codec, h, from, to, end).from = from
         /\ Fragment(codec, h, from, to, end).to = to
         /\ Fragment(codec, h, from, to, end).marker = (IF end THEN 1 ELSE 0)
         /\ Fragment(codec, h, from, to, end).own =
              <<Indicator(codec, h), FuHeader(codec, h, from = Replaced(codec), end)>>
<1>1. Indicator(codec, h) \in Int
  BY DEF Indicator
<1>2. FuHeader(codec, h, from = Replaced(codec), end) \in Int
  BY DEF FuHeader, NalType
<1>3. QED
  BY <1>1, <1>2 DEF Fragment, Packet, PacketsOf

LEMMA CutLast ==
  ASSUME NEW codec \in Codecs, NEW h \in 0 .. 255, NEW n \in Nat, NEW at \in 0 .. n, at < n,
         at + Step(codec) >= n
  PROVE  Cut(codec, h, n, <<Fragment(codec, h, at, n, TRUE)>>, at)
<1> DEFINE p == Fragment(codec, h, at, n, TRUE)
           ps == <<p>>
<1>1. p.from = at /\ p.to = n /\ p \in PacketsOf(n)
  <2>1. n \in 0 .. n
    OBVIOUS
  <2>2. QED
    BY <2>1, FragmentFields, ZenonT(30)
<1>2. p = Fragment(codec, h, p.from, p.to, TRUE)
  BY <1>1
<1> HIDE DEF p
<1>3. ps \in Seq(PacketsOf(n)) /\ Len(ps) = 1 /\ ps[1] = p
  BY <1>1
<1>4. Step(codec) \in Nat
  BY StepFacts
<1> HIDE DEF ps
<1>5. ASSUME NEW i \in 1 .. Len(ps)
      PROVE  /\ ps[i] = Fragment(codec, h, ps[i].from, ps[i].to, i = Len(ps))
             /\ ps[i].from \in 0 .. n /\ ps[i].to \in 0 .. n /\ ps[i].from < ps[i].to
             /\ ps[i].to - ps[i].from <= Step(codec)
             /\ ~(i > 1)
  <2>1. i = 1 /\ i = Len(ps) /\ (i = Len(ps)) = TRUE
    BY <1>3
  <2>2. ps[i] = p
    BY <1>3, <2>1
  <2>3. ps[i] = Fragment(codec, h, ps[i].from, ps[i].to, i = Len(ps))
    BY <1>2, <2>1, <2>2
  <2>4. n - at <= Step(codec)
    BY <1>4
  <2>5. QED
    BY <1>1, <2>1, <2>2, <2>3, <2>4
<1>6. ps[1].from = at /\ ps[Len(ps)].to = n
  BY <1>1, <1>3
<1>7. Cut(codec, h, n, ps, at)
  BY <1>3, <1>5, <1>6 DEF Cut
<1>8. QED
  BY <1>7 DEF p, ps

LEMMA CutMore ==
  ASSUME NEW codec \in Codecs, NEW h \in 0 .. 255, NEW n \in Nat, NEW at \in 0 .. n,
         at + Step(codec) < n, NEW qs, Cut(codec, h, n, qs, at + Step(codec))
  PROVE  Cut(codec, h, n, <<Fragment(codec, h, at, at + Step(codec), FALSE)>> \o qs, at)
<1> DEFINE S == Step(codec)
           p == Fragment(codec, h, at, at + S, FALSE)
           ps == <<p>> \o qs
<1>1. S \in Nat /\ S >= 1
  BY StepFacts
<1>2. p.from = at /\ p.to = at + S /\ p \in PacketsOf(n)
  <2>1. at + S \in 0 .. n
    BY <1>1
  <2> HIDE DEF S
  <2>2. QED
    BY <2>1, FragmentFields, ZenonT(30)
<1>3. p = Fragment(codec, h, p.from, p.to, FALSE)
  BY <1>2
<1> HIDE DEF p
<1>4. qs \in Seq(PacketsOf(n)) /\ Len(qs) \in Nat /\ Len(qs) >= 1
  BY DEF Cut
<1>5. /\ ps \in Seq(PacketsOf(n)) /\ Len(ps) = Len(qs) + 1 /\ ps[1] = p
      /\ \A i \in 1 .. Len(qs) : ps[i + 1] = qs[i]
  <2>1. <<p>> \in Seq(PacketsOf(n)) /\ Len(<<p>>) = 1 /\ <<p>>[1] = p
    BY <1>2
  <2>2. /\ ps \in Seq(PacketsOf(n)) /\ Len(ps) = Len(<<p>>) + Len(qs)
        /\ \A i \in 1 .. Len(<<p>>) + Len(qs) :
             ps[i] = IF i <= Len(<<p>>) THEN <<p>>[i] ELSE qs[i - Len(<<p>>)]
    BY <1>4, <2>1, ConcatProperties
  <2> HIDE DEF ps
  <2>3. Len(ps) = Len(qs) + 1 /\ 1 \in 1 .. 1 + Len(qs) /\ ps[1] = p
    BY <1>4, <2>1, <2>2
  <2>4. ASSUME NEW i \in 1 .. Len(qs) PROVE ps[i + 1] = qs[i]
    <3>1. /\ i + 1 \in 1 .. Len(<<p>>) + Len(qs) /\ ~(i + 1 <= Len(<<p>>))
          /\ (i + 1) - Len(<<p>>) = i
      BY <1>4, <2>1
    <3>2. QED
      BY <2>2, <3>1
  <2>5. QED
    BY <2>2, <2>3, <2>4
<1> HIDE DEF ps
<1>6. ASSUME NEW i \in 1 .. Len(ps)
      PROVE  /\ ps[i] = Fragment(codec, h, ps[i].from, ps[i].to, i = Len(ps))
             /\ ps[i].from \in 0 .. n /\ ps[i].to \in 0 .. n /\ ps[i].from < ps[i].to
             /\ ps[i].to - ps[i].from <= Step(codec)
             /\ i > 1 => ps[i].from = ps[i - 1].to /\ ps[i].from > at
  <2>1. CASE i = 1
    <3>1. ps[i] = p /\ (i = Len(ps)) = FALSE
      BY <1>4, <1>5, <2>1
    <3>2. ps[i] = Fragment(codec, h, ps[i].from, ps[i].to, i = Len(ps))
      BY <1>3, <3>1
    <3>3. at + S \in 0 .. n /\ at < at + S /\ (at + S) - at <= S /\ ~(i > 1)
      BY <1>1, <2>1 DEF S
    <3>4. QED
      BY <1>2, <3>1, <3>2, <3>3 DEF S
  <2>2. CASE i # 1
    <3>1. PICK j \in 1 .. Len(qs) : i = j + 1
      <4>1. i - 1 \in 1 .. Len(qs) /\ i = (i - 1) + 1
        BY <1>4, <1>5, <2>2
      <4>2. QED
        BY <4>1
    <3>2. ps[i] = qs[j] /\ (i = Len(ps)) = (j = Len(qs))
      BY <1>4, <1>5, <3>1
    <3>3. /\ qs[j] = Fragment(codec, h, qs[j].from, qs[j].to, j = Len(qs))
          /\ qs[j].from \in 0 .. n /\ qs[j].to \in 0 .. n /\ qs[j].from < qs[j].to
          /\ qs[j].to - qs[j].from <= Step(codec)
          /\ j > 1 => qs[j].from = qs[j - 1].to /\ qs[j].from > at + S
          /\ qs[1].from = at + S
      BY DEF Cut, S
    <3>4. ps[i].from = ps[i - 1].to /\ ps[i].from > at
      <4>1. CASE j = 1
        <5>1. i - 1 = 1 /\ at + S > at
          BY <1>1, <3>1, <4>1
        <5>2. QED
          BY <1>2, <1>5, <3>2, <3>3, <4>1, <5>1
      <4>2. CASE j # 1
        <5>1. j > 1 /\ j - 1 \in 1 .. Len(qs) /\ i - 1 = (j - 1) + 1
          BY <1>4, <3>1, <4>2
        <5>2. ps[i - 1] = qs[j - 1]
          BY <1>5, <5>1
        <5>3. qs[j].from > at
          <6>1. qs[j].from > at + S /\ qs[j].from \in Int
            BY <3>3, <5>1
          <6> HIDE DEF S
          <6>2. QED
            BY <1>1, <6>1
        <5>4. QED
          BY <3>2, <3>3, <5>1, <5>2, <5>3
      <4>3. QED
        BY <4>1, <4>2
    <3>5. QED
      BY <3>2, <3>3, <3>4
  <2>3. QED
    BY <2>1, <2>2
<1>7. ps[1].from = at /\ ps[Len(ps)].to = n /\ Len(ps) >= 1
  <2>1. ps[Len(ps)] = qs[Len(qs)]
    BY <1>4, <1>5
  <2>2. qs[Len(qs)].to = n
    BY DEF Cut
  <2>3. QED
    BY <1>2, <1>4, <1>5, <2>1, <2>2
<1>8. Cut(codec, h, n, ps, at)
  BY <1>5, <1>6, <1>7 DEF Cut
<1>9. QED
  BY <1>8 DEF p, ps, S

\* From wherever the loop starts, it cuts the rest of the frame.
LEMMA LoopCuts ==
  ASSUME NEW codec \in Codecs, NEW h \in 0 .. 255, NEW n \in Nat, NEW g,
         \A at \in 0 .. n : g[at] = Loop(codec, h, n, g, at)
  PROVE  \A at \in 0 .. n : at < n => Cut(codec, h, n, g[at], at)
<1> DEFINE S == Step(codec)
           Bad == {k \in 1 .. n : ~Cut(codec, h, n, g[n - k], n - k)}
<1>1. /\ S \in Nat /\ S >= 1
      /\ \A at \in Int : Exceeds(codec, n - at) <=> at + S < n
  BY StepFacts
<1>2. ASSUME NEW at \in 0 .. n, at < n,
             at + S < n => Cut(codec, h, n, g[at + S], at + S)
      PROVE  Cut(codec, h, n, g[at], at)
  <2>1. CASE at + S < n
    <3>1. Exceeds(codec, n - at)
      BY <1>1, <2>1
    <3>2. PICK qs : qs = g[at + S]
      OBVIOUS
    <3>3. g[at] = <<Fragment(codec, h, at, at + S, FALSE)>> \o qs
      BY <3>1, <3>2 DEF Loop
    <3>4. Cut(codec, h, n, qs, at + S)
      BY <1>2, <2>1, <3>2
    <3>5. Cut(codec, h, n, <<Fragment(codec, h, at, at + S, FALSE)>> \o qs, at)
      BY <1>2, <2>1, <3>4, CutMore, Zenon
    <3>6. QED
      BY <3>3, <3>5
  <2>2. CASE ~(at + S < n)
    <3>1. ~Exceeds(codec, n - at) /\ at + S >= n
      BY <1>1, <2>2
    <3>2. g[at] = <<Fragment(codec, h, at, n, TRUE)>>
      BY <3>1 DEF Loop
    <3>3. Cut(codec, h, n, <<Fragment(codec, h, at, n, TRUE)>>, at)
      BY <1>2, <3>1, CutLast, Zenon
    <3>4. QED
      BY <3>2, <3>3
  <2>3. QED
    BY <2>1, <2>2
<1>3. Bad = {}
  <2> SUFFICES ASSUME Bad # {}
               PROVE  FALSE
    OBVIOUS
  <2>1. Bad \in SUBSET Nat
    OBVIOUS
  <2>2. PICK k \in Bad : \A j \in Bad : k <= j
    BY <2>1, Lowest
  <2>3. k \in 1 .. n /\ ~Cut(codec, h, n, g[n - k], n - k)
    OBVIOUS
  <2>4. n - k \in 0 .. n /\ n - k < n
    BY <2>3
  <2>5. (n - k) + S < n => Cut(codec, h, n, g[(n - k) + S], (n - k) + S)
    <3>1. ASSUME (n - k) + S < n
          PROVE  Cut(codec, h, n, g[(n - k) + S], (n - k) + S)
      <4>1. k - S \in 1 .. n /\ ~(k <= k - S) /\ n - (k - S) = (n - k) + S
        <5> HIDE DEF S
        <5>1. QED
          BY <1>1, <2>3, <3>1
      <4>2. k - S \notin Bad
        BY <2>2, <4>1
      <4>3. Cut(codec, h, n, g[n - (k - S)], n - (k - S))
        BY <4>1, <4>2
      <4>4. QED
        BY <4>1, <4>3
    <3>2. QED
      BY <3>1
  <2>6. QED
    BY <1>2, <2>3, <2>4, <2>5
<1>4. ASSUME NEW at \in 0 .. n, at < n PROVE Cut(codec, h, n, g[at], at)
  <2>1. n - at \in 1 .. n /\ n - (n - at) = at
    BY <1>4
  <2>2. Cut(codec, h, n, g[n - (n - at)], n - (n - at))
    BY <1>3, <2>1
  <2>3. QED
    BY <2>1, <2>2
<1>5. QED
  BY <1>4

\* The two bytes in front of a fragment, and what they tell the receiver.
StartBit == {0, 128}
EndBit == {0, 64}

HasBytes(codec, h, start, end, p) ==
  /\ p.own[1] = Indicator(codec, h)
  /\ p.own[2] = NalType(codec, h) + start + end

Reads(codec, h, start, end, p) ==
  /\ Starts(p) <=> start = 128
  /\ Ends(p) <=> end = 64
  /\ Restored(codec, p) = h

LEMMA FragmentReads ==
  ASSUME NEW codec \in Codecs, NEW h \in 0 .. 255, NEW start \in StartBit, NEW end \in EndBit,
         NEW p, HasBytes(codec, h, start, end, p)
  PROVE  Reads(codec, h, start, end, p)
<1> DEFINE ind == Indicator(codec, h)
           t == NalType(codec, h)
           hdr == t + start + end
<1>1. p.own[1] = ind /\ p.own[2] = hdr
  BY DEF HasBytes
<1>2. t \in 0 .. 63 /\ hdr = t + start + end
  BY DEF NalType, StartBit, EndBit
<1> HIDE DEF ind, hdr, t
<1>3. Starts(p) <=> start = 128
  <2>1. hdr \div 128 = 1 <=> start = 128
    BY <1>2 DEF StartBit, EndBit
  <2>2. QED
    BY <1>1, <2>1 DEF Starts
<1>4. Ends(p) <=> end = 64
  <2>1. (hdr \div 64) % 2 = 1 <=> end = 64
    BY <1>2 DEF StartBit, EndBit
  <2>2. QED
    BY <1>1, <2>1 DEF Ends
<1>5. CASE codec = "H264"
  <2>1. t = h % 32 /\ ind = (h \div 32) * 32 + 28
    BY <1>5 DEF t, ind, NalType, Indicator
  <2>2. hdr % 32 = h % 32
    <3>1. PICK r \in 0 .. 31 : r = t
      BY <2>1
    <3>2. r % 32 = r /\ (r + 64) % 32 = r /\ (r + 128) % 32 = r /\ (r + 128 + 64) % 32 = r
      OBVIOUS
    <3>3. hdr \in {r, r + 64, r + 128, r + 128 + 64}
      BY <1>2, <3>1 DEF StartBit, EndBit
    <3>4. QED
      BY <2>1, <3>1, <3>2, <3>3
  <2>3. ind \div 32 = h \div 32
    BY <2>1
  <2>4. (h \div 32) * 32 + (h % 32) = h
    OBVIOUS
  <2>5. QED
    BY <1>1, <1>3, <1>4, <1>5, <2>2, <2>3, <2>4 DEF Restored, Reads
<1>6. CASE codec = "H265"
  <2>1. t = (h % 128) \div 2 /\ ind = (h \div 128) * 128 + 98 + (h % 2)
    BY <1>6 DEF t, ind, NalType, Indicator
  <2>2. hdr % 64 = (h % 128) \div 2
    BY <1>2, <2>1 DEF StartBit, EndBit
  <2>3. ind \div 128 = h \div 128 /\ ind % 2 = h % 2
    BY <2>1
  <2>4. (h \div 128) * 128 + ((h % 128) \div 2) * 2 + (h % 2) = h
    OBVIOUS
  <2>5. QED
    BY <1>1, <1>3, <1>4, <1>6, <2>2, <2>3, <2>4 DEF Restored, Reads
<1>7. QED
  BY <1>5, <1>6 DEF Codecs

-----------------------------------------------------------------------------
(* Video *)

\* A frame that does not fit into one packet is cut behind its header.
LEMMA FrameCut ==
  ASSUME NEW codec \in Codecs, NEW h \in 0 .. 255, NEW n \in Nat, n > MaxPayload
  PROVE  Cut(codec, h, n, FragmentsFrom(codec, h, n), Replaced(codec))
<1>1. PICK g : /\ \A at \in 0 .. n : g[at] = Loop(codec, h, n, g, at)
               /\ FragmentsFrom(codec, h, n) = g[Replaced(codec)]
  BY LoopRuns
<1>2. \A at \in 0 .. n : at < n => Cut(codec, h, n, g[at], at)
  BY <1>1, LoopCuts
<1>3. Replaced(codec) \in 0 .. n /\ Replaced(codec) < n
  <2>1. Replaced(codec) \in {1, 2} /\ MaxPayload \in Nat /\ MaxPayload > 4
    BY StepFacts
  <2>2. QED
    BY <2>1
<1>4. Cut(codec, h, n, g[Replaced(codec)], Replaced(codec))
  BY <1>2, <1>3
<1>5. QED
  BY <1>1, <1>4

\* Fragments that are cut behind the header of a frame give the frame back.
LEMMA CutIsWhole ==
  ASSUME NEW codec \in Codecs, NEW h \in 0 .. 255, NEW n \in Nat, n > MaxPayload,
         NEW ps, Cut(codec, h, n, ps, Replaced(codec))
  PROVE  Covers(ps, Replaced(codec), n) /\ Len(ps) > 1 /\ Fragmented(codec, h, ps)
<1> DEFINE r == Replaced(codec)
           S == Step(codec)
<1>1. S \in Nat /\ r \in {1, 2} /\ OwnBytes(codec) = r + 1 /\ r + 1 + S = MaxPayload
  BY StepFacts
<1> HIDE DEF r, S
<1>2. Len(ps) \in Nat /\ Len(ps) >= 1 /\ DOMAIN ps = 1 .. Len(ps)
  <2>1. ps \in Seq(PacketsOf(n)) /\ Len(ps) >= 1
    BY DEF Cut
  <2>2. QED
    BY <2>1
<1>3. ps[1].from = r /\ ps[Len(ps)].to = n
  BY DEF Cut, r
<1>4. ASSUME NEW i \in 1 .. Len(ps)
      PROVE  /\ ps[i] = Fragment(codec, h, ps[i].from, ps[i].to, i = Len(ps))
             /\ ps[i].from \in 0 .. n /\ ps[i].to \in 0 .. n /\ ps[i].from < ps[i].to
             /\ ps[i].to - ps[i].from <= S
             /\ i > 1 => ps[i].from = ps[i - 1].to
             /\ i > 1 => ps[i].from > r
  BY Zenon DEF Cut, r, S
<1>5. ASSUME NEW i \in 1 .. Len(ps)
      PROVE  /\ (ps[i].marker = 1) <=> (i = Len(ps))
             /\ Starts(ps[i]) <=> (i = 1)
             /\ Ends(ps[i]) <=> (i = Len(ps))
             /\ Restored(codec, ps[i]) = h
             /\ OwnBytes(codec) + ps[i].to - ps[i].from <= MaxPayload
  <2>1. PICK from \in 0 .. n, to \in 0 .. n : from = ps[i].from /\ to = ps[i].to
    <3>1. ps[i].from \in 0 .. n /\ ps[i].to \in 0 .. n
      BY <1>4
    <3>2. QED
      BY <3>1
  <2>2. PICK end \in BOOLEAN : end = (i = Len(ps))
    BY Zenon
  <2>3. PICK p \in {ps[i]} : p = Fragment(codec, h, from, to, end)
    <3>1. ps[i] = Fragment(codec, h, from, to, end)
      BY <1>4, <2>1, <2>2, Zenon
    <3>2. QED
      BY <3>1
  <2>4. p.marker = (IF end THEN 1 ELSE 0)
    BY <2>3 DEF Fragment, Packet
  <2>5. /\ Starts(p) <=> (from = Replaced(codec))
        /\ Ends(p) <=> end
        /\ Restored(codec, p) = h
    <3>1. PICK s \in StartBit, e \in EndBit :
            /\ s = 128 <=> from = Replaced(codec)
            /\ e = 64 <=> end
            /\ FuHeader(codec, h, from = Replaced(codec), end) = NalType(codec, h) + s + e
      BY DEF FuHeader, StartBit, EndBit
    <3>2. p.own[1] = Indicator(codec, h)
      BY <2>3 DEF Fragment, Packet
    <3>3. p.own[2] = FuHeader(codec, h, from = Replaced(codec), end)
      BY <2>3 DEF Fragment, Packet
    <3>4. p.own[2] = NalType(codec, h) + s + e
      BY <3>1, <3>3, Zenon
    <3>5. HasBytes(codec, h, s, e, p)
      BY <3>2, <3>4 DEF HasBytes
    <3>6. Reads(codec, h, s, e, p)
      BY <3>5, FragmentReads, Zenon
    <3>7. QED
      BY <3>1, <3>6 DEF Reads
  <2>6. from = Replaced(codec) <=> (i = 1)
    <3>1. CASE i = 1
      BY <1>3, <2>1, <3>1 DEF r
    <3>2. CASE i # 1
      <4>1. i > 1
        BY <1>2, <3>2
      <4>2. from > r
        BY <1>4, <2>1, <4>1
      <4>3. from # r
        BY <1>1, <4>2
      <4>4. QED
        BY <3>2, <4>3 DEF r
    <3>3. QED
      BY <3>1, <3>2
  <2>7. to - from <= S
    BY <1>4, <2>1, Zenon
  <2>8. OwnBytes(codec) + to - from <= MaxPayload
    BY <1>1, <2>7
  <2>9. p.marker = 1 <=> end
    BY <2>4
  <2>10. p = ps[i]
    OBVIOUS
  <2>11. /\ (p.marker = 1) <=> (i = Len(ps))
         /\ Starts(p) <=> (i = 1)
         /\ Ends(p) <=> (i = Len(ps))
    BY <2>2, <2>5, <2>6, <2>9, Zenon
  <2>12. QED
    BY <2>1, <2>5, <2>8, <2>10, <2>11, Zenon
<1>6. Covers(ps, Replaced(codec), n)
  <2>1. ps[1].from = Replaced(codec) /\ ps[Len(ps)].to = n
    BY <1>3 DEF r
  <2>2. ASSUME NEW i \in DOMAIN ps
        PROVE  /\ ps[i].from < ps[i].to
               /\ i > 1 => ps[i].from = ps[i - 1].to
               /\ (ps[i].marker = 1) <=> (i = Len(ps))
    BY <1>2, <1>4, <1>5, Zenon
  <2>3. QED
    BY <2>1, <2>2, Zenon DEF Covers
<1>7. Len(ps) > 1
  <2>1. CASE Len(ps) = 1
    <3>1. 1 \in 1 .. Len(ps)
      BY <1>2
    <3>2. ps[1].to - ps[1].from <= S
      BY <1>4, <3>1, Zenon
    <3>3. n - r <= S
      BY <1>3, <2>1, <3>2
    <3>4. QED
      BY <1>1, <3>3
  <2>2. QED
    BY <1>2, <2>1
<1>8. Fragmented(codec, h, ps)
  BY <1>2, <1>5, Zenon DEF Fragmented
<1>9. QED
  BY <1>6, <1>7, <1>8

\* A packet that carries the whole frame.
LEMMA AloneIsWhole ==
  ASSUME NEW n \in Nat \ {0}
  PROVE  Covers(Alone(n), 0, n) /\ Len(Alone(n)) = 1
<1>1. Alone(n) = <<[own |-> <<>>, from |-> 0, to |-> n, marker |-> 1]>>
  BY DEF Alone, Packet
<1>2. QED
  BY <1>1 DEF Covers

\* A NAL unit of any size and with any header is sent in one packet or in fragments
\* that fit, are not empty, have one start, one end and one marker, and from which
\* the receiver gets its bytes and its header back (H264Source and H265Source).
THEOREM VideoFramesWhole == VideoWhole
<1> SUFFICES ASSUME NEW codec \in Codecs, NEW h \in NalHeaders, NEW n \in FrameSizes
             PROVE  LET ps == VideoPackets(codec, h, n) IN
                    IF n <= MaxPayload THEN Covers(ps, 0, n) /\ Len(ps) = 1
                    ELSE /\ Covers(ps, Replaced(codec), n) /\ Len(ps) > 1
                         /\ Fragmented(codec, h, ps)
  BY DEF VideoWhole
<1>1. n \in Nat \ {0} /\ h \in 0 .. 255 /\ MaxPayload \in Nat
  BY SourceAssumption
<1>2. CASE n <= MaxPayload
  BY <1>1, <1>2, AloneIsWhole DEF VideoPackets
<1>3. CASE ~(n <= MaxPayload)
  <2>1. PICK ps : ps = FragmentsFrom(codec, h, n)
    OBVIOUS
  <2>2. n > MaxPayload
    BY <1>1, <1>3
  <2>3. Cut(codec, h, n, ps, Replaced(codec))
    BY <1>1, <2>1, <2>2, FrameCut
  <2>4. Covers(ps, Replaced(codec), n) /\ Len(ps) > 1 /\ Fragmented(codec, h, ps)
    BY <1>1, <2>2, <2>3, CutIsWhole
  <2>5. VideoPackets(codec, h, n) = ps
    BY <1>3, <2>1 DEF VideoPackets
  <2>6. QED
    BY <1>3, <2>4, <2>5
<1>4. QED
  BY <1>2, <1>3

-----------------------------------------------------------------------------
(* Audio *)

\* The 13 bits of the length are cut into two bytes and put together again.
LEMMA LengthField ==
  ASSUME NEW size \in 0 .. 8191
  PROVE  ((size % 8192) \div 32) * 32 + (((size % 32) * 8) \div 8) = size
<1>1. size % 8192 = size
  OBVIOUS
<1>2. ((size % 32) * 8) \div 8 = size % 32
  OBVIOUS
<1>3. (size \div 32) * 32 + (size % 32) = size
  OBVIOUS
<1>4. QED
  BY <1>1, <1>2, <1>3

\* The packet of an access unit that is not refused.
AuHigh(size) == (size % 8192) \div 32
AuLow(size) == (size % 32) * 8

AccessUnit(from, n) ==
  <<[own |-> <<0, 16, AuHigh(n - from), AuLow(n - from)>>, from |-> from, to |-> n, marker |-> 1]>>

LEMMA AccessUnitIsWhole ==
  ASSUME NEW n \in Nat, NEW from \in {0, 7}, n > from, n <= MaxPayload - AuSize,
         NEW ps, ps = AccessUnit(from, n)
  PROVE  /\ Covers(ps, from, n)
         /\ AuSize + ps[1].to - ps[1].from <= MaxPayload
         /\ ps[1].own[3] * 32 + (ps[1].own[4] \div 8) = ps[1].to - ps[1].from
<1>1. PICK size \in 0 .. 8191 : size = n - from
  BY SourceAssumption, SMTT(30) DEF AuSize
<1>2. PICK hi \in Int, lo \in Int : /\ hi = AuHigh(size) /\ lo = AuLow(size)
                                    /\ hi * 32 + (lo \div 8) = size
  <2>1. AuHigh(size) * 32 + (AuLow(size) \div 8) = size
    BY LengthField DEF AuHigh, AuLow
  <2>2. AuHigh(size) \in Int /\ AuLow(size) \in Int
    BY SMTT(30) DEF AuHigh, AuLow
  <2>3. QED
    BY <2>1, <2>2
<1>3. ps = <<[own |-> <<0, 16, hi, lo>>, from |-> from, to |-> n, marker |-> 1]>>
  BY <1>1, <1>2, SMTT(30) DEF AccessUnit
<1>4. /\ Len(ps) = 1 /\ DOMAIN ps = {1} /\ ps[1].from = from /\ ps[1].to = n
      /\ ps[1].marker = 1 /\ ps[1].own[3] = hi /\ ps[1].own[4] = lo
  BY <1>3
<1>5. Covers(ps, from, n)
  BY <1>4 DEF Covers
<1>6. AuSize + n - from <= MaxPayload
  BY SourceAssumption DEF AuSize
<1>7. AuSize + ps[1].to - ps[1].from <= MaxPayload
  BY <1>4, <1>6
<1>8. ps[1].own[3] * 32 + (ps[1].own[4] \div 8) = ps[1].to - ps[1].from
  <2>1. hi * 32 + (lo \div 8) = n - from
    BY <1>1, <1>2
  <2>2. ps[1].own[3] * 32 + (ps[1].own[4] \div 8) = hi * 32 + (lo \div 8)
    BY <1>4
  <2>3. ps[1].to - ps[1].from = n - from
    BY <1>4
  <2>4. QED
    BY <2>1, <2>2, <2>3
<1>9. QED
  BY <1>5, <1>7, <1>8

\* An access unit of AAC or a frame of G.711 that the source does not refuse fits
\* into one packet that carries all of it, and the length in front of an access unit
\* is the number of bytes behind it (AACSource and G711ASource).
THEOREM AudioFramesWhole == AudioWhole
<1> DEFINE Kept(adts, n) ==
             LET ps == AacPackets(adts, n) IN
             (adts => n > AdtsSize) /\ ps # <<>> =>
               /\ Covers(ps, IF adts THEN AdtsSize ELSE 0, n)
               /\ AuSize + ps[1].to - ps[1].from <= MaxPayload
               /\ ps[1].own[3] * 32 + (ps[1].own[4] \div 8) = ps[1].to - ps[1].from
<1>1. ASSUME NEW n \in FrameSizes
      PROVE  n \in Nat \ {0} /\ MaxPayload \in Nat
  BY SourceAssumption
<1>2. ASSUME NEW n \in FrameSizes, G711aPackets(n) # <<>>
      PROVE  n <= MaxPayload /\ Covers(G711aPackets(n), 0, n)
  <2>1. n <= MaxPayload /\ G711aPackets(n) = Alone(n)
    BY <1>1, <1>2 DEF G711aPackets
  <2>2. QED
    BY <1>1, <2>1, AloneIsWhole
<1>3. ASSUME NEW n \in FrameSizes PROVE Kept(TRUE, n)
  <2> SUFFICES ASSUME n > AdtsSize, NEW ps, ps = AacPackets(TRUE, n), ps # <<>>
               PROVE  /\ Covers(ps, AdtsSize, n)
                      /\ AuSize + ps[1].to - ps[1].from <= MaxPayload
                      /\ ps[1].own[3] * 32 + (ps[1].own[4] \div 8) = ps[1].to - ps[1].from
    OBVIOUS
  <2>1. ~(n > MaxPayload - AuSize)
    BY DEF AacPackets
  <2>2. ps = AccessUnit(7, n)
    BY <2>1 DEF AacPackets, AccessUnit, Packet, AdtsSize, AuHigh, AuLow
  <2>3. n > 7 /\ n <= MaxPayload - AuSize
    BY <1>1, <2>1 DEF AdtsSize, AuSize
  <2>4. QED
    BY <1>1, <2>2, <2>3, AccessUnitIsWhole DEF AdtsSize
<1>4. ASSUME NEW n \in FrameSizes PROVE Kept(FALSE, n)
  <2> SUFFICES ASSUME NEW ps, ps = AacPackets(FALSE, n), ps # <<>>
               PROVE  /\ Covers(ps, 0, n)
                      /\ AuSize + ps[1].to - ps[1].from <= MaxPayload
                      /\ ps[1].own[3] * 32 + (ps[1].own[4] \div 8) = ps[1].to - ps[1].from
    OBVIOUS
  <2>1. ~(n > MaxPayload - AuSize)
    BY DEF AacPackets
  <2>2. ps = AccessUnit(0, n)
    BY <2>1 DEF AacPackets, AccessUnit, Packet, AuHigh, AuLow
  <2>3. n > 0 /\ n <= MaxPayload - AuSize
    BY <1>1, <2>1 DEF AuSize
  <2>4. QED
    BY <1>1, <2>2, <2>3, AccessUnitIsWhole
<1>5. ASSUME NEW n \in FrameSizes PROVE \A adts \in BOOLEAN : Kept(adts, n)
  <2> HIDE DEF Kept
  <2>1. \A adts \in {TRUE, FALSE} : Kept(adts, n)
    BY <1>3, <1>4
  <2>2. BOOLEAN = {TRUE, FALSE}
    OBVIOUS
  <2>3. QED
    BY <2>1, <2>2
<1>6. QED
  BY <1>2, <1>5, Zenon DEF AudioWhole

\* Every frame that pushFrame hands to the clients has been cut into packets that
\* give it back, whatever its size: no step of the server sends another one.
THEOREM SourcesKeepFrames == Spec => FramesWhole
<1>1. [Next]_vars => [(\E t \in FrameTypes : SendFrame(t)) => VideoWhole /\ AudioWhole]_vars
  BY VideoFramesWhole, AudioFramesWhole
<1>2. QED
  BY <1>1, PTL DEF Spec, FramesWhole

=============================================================================
