------------------------- MODULE RtspReadingProofs --------------------------
(***************************************************************************)
(* Safety of RtspReading for every size of the buffer, every set of        *)
(* methods, any number of requests and of tracks, and all the ways in      *)
(* which what is sent can be cut into reads.                               *)
(***************************************************************************)
EXTENDS RtspReading, SequenceTheorems, FiniteSetTheorems, WellFoundedInduction, TLAPS

Headers == {"CSeq", "Accept", "Transport", "Session", "agent"}
TokenKinds == Headers \cup {"request", "badurl", "crlf", "rtcp", "end", "head", "OK", "error",
                            "fields", "blank"}
Words == Methods \cup Known \cup {"none", "OK", "error"}
Tokens == [kind : TokenKinds, of : Nat, method : Words]
Texts == Seq(Tokens)

-----------------------------------------------------------------------------
(* Sequences of tokens *)

LEMMA Least ==
  ASSUME NEW C \in SUBSET Nat, C # {}
  PROVE  \E m \in C : \A j \in C : m <= j
<1> DEFINE Lower == {ss \in Nat \X Nat : ss[1] < ss[2]}
<1>1. IsWellFoundedOn(Lower, Nat)
  BY NatLessThanWellFounded DEF OpToRel
<1>2. \E m \in C : \A j \in C : ~(<<j, m>> \in Lower)
  <2> HIDE DEF Lower
  <2>1. C \subseteq Nat
    OBVIOUS
  <2>2. QED
    BY <1>1, <2>1, WFMin, Zenon
<1>3. \A i, j \in Nat : <<j, i>> \in Lower <=> j < i
  OBVIOUS
<1>4. QED
  <2> HIDE DEF Lower
  <2>1. PICK m \in C : \A j \in C : ~(<<j, m>> \in Lower)
    BY <1>2
  <2>2. \A j \in C : ~(j < m)
    BY <2>1, <1>3
  <2>3. QED
    BY <2>2

LEMMA Greatest ==
  ASSUME NEW n \in Nat, NEW C \in SUBSET (1 .. n), C # {}
  PROVE  \E m \in C : \A j \in C : j <= m
<1> DEFINE D == {i \in 0 .. n : n - i \in C}
<1>1. D \in SUBSET Nat /\ D # {}
  <2>1. PICK c \in C : TRUE
    OBVIOUS
  <2>2. n - c \in 0 .. n /\ n - (n - c) = c
    OBVIOUS
  <2>3. n - c \in D
    BY <2>2
  <2>4. 0 .. n \subseteq Nat
    OBVIOUS
  <2>5. D \subseteq 0 .. n
    OBVIOUS
  <2>6. QED
    BY <2>3, <2>4, <2>5, Zenon
<1>2. \E m \in D : \A j \in D : m <= j
  <2> HIDE DEF D
  <2>1. QED
    BY <1>1, Least
<1>3. PICK m \in D : \A j \in D : m <= j
  BY <1>2
<1>4. n - m \in C
  BY <1>3
<1>5. \A j \in C : j <= n - m
  <2> TAKE j \in C
  <2>1. n - j \in 0 .. n /\ n - (n - j) = j
    OBVIOUS
  <2>2. m <= n - j
    BY <2>1, <1>3
  <2>3. QED
    BY <2>2, <1>3
<1>6. QED
  BY <1>4, <1>5

LEMMA TextFacts ==
  ASSUME NEW s \in Texts
  PROVE  /\ Len(s) \in Nat /\ DOMAIN s = 1 .. Len(s)
         /\ \A i \in 1 .. Len(s) : s[i] \in Tokens /\ s[i].of \in Nat /\ s[i].method \in Words
<1>1. \A t \in Tokens : t.of \in Nat /\ t.method \in Words
  BY DEF Tokens
<1>2. QED
  BY <1>1, ElementOfSeq, LenProperties DEF Texts

LEMMA AfterFacts ==
  ASSUME NEW s \in Texts, NEW i \in 0 .. Len(s)
  PROVE  /\ After(s, i) \in Texts
         /\ Len(After(s, i)) = Len(s) - i
         /\ \A j \in 1 .. Len(s) - i : After(s, i)[j] = s[i + j]
<1>1. Len(s) \in Int /\ i + 1 \in Int /\ \A j \in i + 1 .. Len(s) : s[j] \in Tokens
  BY TextFacts
<1>2. /\ SubSeq(s, i + 1, Len(s)) \in Seq(Tokens)
      /\ Len(SubSeq(s, i + 1, Len(s))) =
           IF i + 1 <= Len(s) THEN Len(s) - (i + 1) + 1 ELSE 0
      /\ \A j \in 1 .. Len(s) - (i + 1) + 1 :
           SubSeq(s, i + 1, Len(s))[j] = s[(i + 1) + j - 1]
  BY <1>1, SubSeqProperties
<1>3. QED
  BY <1>1, <1>2 DEF After, Texts

LEMMA AfterAll ==
  ASSUME NEW s \in Texts
  PROVE  After(s, Len(s)) = <<>>
<1>1. Len(s) \in Nat
  BY TextFacts
<1>2. Len(s) + 1 \in Int /\ Len(s) \in Int /\ Len(s) < Len(s) + 1
  BY <1>1
<1>3. QED
  BY <1>2, SubSeqEmpty DEF After

LEMMA FrontFacts ==
  ASSUME NEW s \in Texts, NEW k \in 0 .. Len(s)
  PROVE  /\ SubSeq(s, 1, k) \in Texts
         /\ Len(SubSeq(s, 1, k)) = k
         /\ \A j \in 1 .. k : SubSeq(s, 1, k)[j] = s[j]
<1>1. Len(s) \in Nat /\ 1 \in Int /\ k \in Int /\ \A j \in 1 .. k : s[j] \in Tokens
  BY TextFacts
<1>2. /\ SubSeq(s, 1, k) \in Seq(Tokens)
      /\ Len(SubSeq(s, 1, k)) = IF 1 <= k THEN k - 1 + 1 ELSE 0
      /\ \A j \in 1 .. k - 1 + 1 : SubSeq(s, 1, k)[j] = s[1 + j - 1]
  BY <1>1, SubSeqProperties
<1>3. QED
  BY <1>1, <1>2 DEF Texts

LEMMA ConcatFacts ==
  ASSUME NEW s \in Texts, NEW t \in Texts
  PROVE  /\ s \o t \in Texts
         /\ Len(s \o t) = Len(s) + Len(t)
         /\ \A i \in 1 .. Len(s) + Len(t) :
              (s \o t)[i] = IF i <= Len(s) THEN s[i] ELSE t[i - Len(s)]
BY ConcatProperties DEF Texts

LEMMA AppendedFacts ==
  ASSUME NEW s \in Texts, NEW t \in Tokens
  PROVE  /\ Append(s, t) = s \o <<t>>
         /\ s \o <<t>> \in Texts
         /\ Len(s \o <<t>>) = Len(s) + 1
         /\ \A i \in 1 .. Len(s) : (s \o <<t>>)[i] = s[i]
         /\ (s \o <<t>>)[Len(s) + 1] = t
<1>1. Append(s, t) = s \o <<t>>
  BY AppendIsConcat DEF Texts
<1>2. QED
  BY <1>1, AppendProperties DEF Texts

\* The first and the last CRLF of a text are two of its CRLFs.
LEMMA CrlfFacts ==
  ASSUME NEW s \in Texts, Crlfs(s) # {}
  PROVE  /\ FirstCrlf(s) \in 1 .. Len(s) /\ s[FirstCrlf(s)].kind = "crlf"
         /\ \A j \in 1 .. FirstCrlf(s) - 1 : s[j].kind # "crlf"
         /\ LastCrlf(s) \in 1 .. Len(s) /\ s[LastCrlf(s)].kind = "crlf"
         /\ \A j \in LastCrlf(s) + 1 .. Len(s) : s[j].kind # "crlf"
<1>1. Len(s) \in Nat /\ DOMAIN s = 1 .. Len(s)
  BY TextFacts
<1>2. Crlfs(s) \in SUBSET (1 .. Len(s)) /\ Crlfs(s) \in SUBSET Nat
  BY <1>1 DEF Crlfs
<1>3. \E i \in Crlfs(s) : \A j \in Crlfs(s) : i <= j
  BY <1>2, Least
<1>4. \E i \in Crlfs(s) : \A j \in Crlfs(s) : j <= i
  BY <1>1, <1>2, Greatest
<1>5. FirstCrlf(s) \in Crlfs(s) /\ \A j \in Crlfs(s) : FirstCrlf(s) <= j
  BY <1>3 DEF FirstCrlf
<1>6. LastCrlf(s) \in Crlfs(s) /\ \A j \in Crlfs(s) : j <= LastCrlf(s)
  BY <1>4 DEF LastCrlf
<1>7. QED
  BY <1>1, <1>2, <1>5, <1>6 DEF Crlfs

-----------------------------------------------------------------------------
(* Parsing *)

States == {"kParseRequestLine", "kParseHeadersLine", "kGotAll"}
Parsers == [state : States, line : Nat, method : Words, cseq : Nat, unread : Texts,
            ok : BOOLEAN]


\* parseRequestLine waits for a line, skips one, or takes a request line that
\* begins what is unread.
LEMMA LineParsed ==
  ASSUME NEW p \in Parsers, NEW q, q = ParseRequestLine(p)
  PROVE  /\ q \in Parsers /\ q.cseq = p.cseq
         /\ \/ q = p
            \/ /\ \E i \in 1 .. Len(p.unread) : q.unread = After(p.unread, i)
               /\ q.state = p.state /\ q.line = p.line
            \/ /\ q.state = "kParseHeadersLine"
               /\ 2 <= Len(p.unread) /\ q.unread = After(p.unread, 2)
               /\ p.unread[1].kind = "request" /\ q.line = p.unread[1].of
               /\ p.unread[2].kind = "crlf"
<1> DEFINE s == p.unread
           i == FirstCrlf(s)
           text == SubSeq(s, 1, i - 1)
           good == IsRequestLine(text)
<1>1. /\ s \in Texts
      /\ p = [state |-> p.state, line |-> p.line, method |-> p.method, cseq |-> p.cseq,
              unread |-> p.unread, ok |-> p.ok]
      /\ p.state \in States /\ p.line \in Nat /\ p.method \in Words /\ p.cseq \in Nat
      /\ p.ok \in BOOLEAN
  BY DEF Parsers
<1>2. CASE Crlfs(s) = {}
  BY <1>2 DEF ParseRequestLine
<1>3. CASE Crlfs(s) # {}
  <2>1. i \in 1 .. Len(s) /\ Len(s) \in Nat /\ s[i].kind = "crlf"
    BY <1>1, <1>3, CrlfFacts, TextFacts
  <2>2. i - 1 \in 0 .. Len(s) /\ i \in 0 .. Len(s)
    BY <2>1
  <2>3. text \in Texts /\ Len(text) = i - 1 /\ \A j \in 1 .. i - 1 : text[j] = s[j]
    BY <1>1, <2>2, FrontFacts
  <2>4. After(s, i) \in Texts
    BY <1>1, <2>2, AfterFacts
  <2>5. q = [p EXCEPT !.unread = After(s, i),
                      !.ok = ~IsThreeWords(text) \/ good,
                      !.state = IF good THEN "kParseHeadersLine" ELSE @,
                      !.line = IF good THEN text[1].of ELSE @,
                      !.method = IF IsThreeWords(text) THEN text[1].method ELSE @]
    BY <1>3 DEF ParseRequestLine
  <2>6. q = [state |-> IF good THEN "kParseHeadersLine" ELSE p.state,
             line |-> IF good THEN text[1].of ELSE p.line,
             method |-> IF IsThreeWords(text) THEN text[1].method ELSE p.method,
             cseq |-> p.cseq, unread |-> After(s, i), ok |-> ~IsThreeWords(text) \/ good]
    <3> HIDE DEF s, i, text, good
    <3>1. QED
      BY <1>1, <2>5
  <2>7. Len(text) = 1 => text[1].of \in Nat /\ text[1].method \in Words
    <3> HIDE DEF text
    <3>1. QED
      BY <2>3, TextFacts
  <2>8. good => Len(text) = 1 /\ text[1].kind = "request"
    BY DEF IsRequestLine
  <2>9. IsThreeWords(text) => Len(text) = 1
    BY DEF IsThreeWords
  <2>10. (~IsThreeWords(text) \/ good) \in BOOLEAN
    OBVIOUS
  <2>11. q \in Parsers /\ q.cseq = p.cseq /\ q.unread = After(s, i)
    <3> HIDE DEF s, i, text, good
    <3>1. (IF good THEN "kParseHeadersLine" ELSE p.state) \in States
      BY <1>1 DEF States
    <3>2. (IF good THEN text[1].of ELSE p.line) \in Nat
      BY <1>1, <2>7, <2>8
    <3>3. (IF IsThreeWords(text) THEN text[1].method ELSE p.method) \in Words
      BY <1>1, <2>7, <2>9
    <3>4. QED
      BY <1>1, <2>4, <2>6, <2>10, <3>1, <3>2, <3>3 DEF Parsers
  <2>12. CASE good
    <3> HIDE DEF s, i, text, good
    <3>1. i = 2
      BY <2>1, <2>3, <2>8, <2>12
    <3>2. q.state = "kParseHeadersLine" /\ q.line = text[1].of
      BY <2>6, <2>12
    <3>3. s[1].kind = "request" /\ q.line = s[1].of
      BY <2>3, <2>8, <2>12, <3>1, <3>2
    <3>4. 2 <= Len(s) /\ s[2].kind = "crlf"
      BY <2>1, <3>1
    <3>5. QED
      BY <2>11, <3>1, <3>2, <3>3, <3>4 DEF s
  <2>13. CASE ~good
    <3> HIDE DEF s, i, text, good
    <3>1. q.state = p.state /\ q.line = p.line
      BY <2>6, <2>13
    <3>2. QED
      BY <2>1, <2>11, <3>1 DEF s
  <2>14. QED
    BY <2>12, <2>13
<1>4. QED
  BY <1>2, <1>3

\* parseHeadersLine waits for a line or takes all the lines there are, and with
\* them the first CSeq, unless it has one.
LEMMA HeadersParsed ==
  ASSUME NEW p \in Parsers, NEW q, q = ParseHeadersLine(p)
  PROVE  /\ q \in Parsers /\ q.line = p.line
         /\ \/ q = p /\ \A j \in 1 .. Len(p.unread) : p.unread[j].kind # "crlf"
            \/ \E i \in 1 .. Len(p.unread) :
                 /\ q.unread = After(p.unread, i)
                 /\ q.state \in {p.state, "kGotAll"}
                 /\ p.cseq # 0 => q.cseq = p.cseq
                 /\ p.cseq = 0 /\ q.ok =>
                      \E j \in 1 .. i :
                        /\ p.unread[j].kind = "CSeq" /\ q.cseq = p.unread[j].of
                        /\ \A k \in 1 .. j - 1 : p.unread[k].kind # "CSeq"
<1> DEFINE s == p.unread
           i == LastCrlf(s)
           lines == SubSeq(s, 1, i)
           numbers == {j \in DOMAIN lines : lines[j].kind = "CSeq"}
           first == CHOOSE j \in numbers : \A k \in numbers : j <= k
           good == numbers # {} \/ p.cseq # 0
           found == Needed(p.method) \subseteq {lines[j].kind : j \in DOMAIN lines}
<1>1. /\ s \in Texts
      /\ p = [state |-> p.state, line |-> p.line, method |-> p.method, cseq |-> p.cseq,
              unread |-> p.unread, ok |-> p.ok]
      /\ p.state \in States /\ p.line \in Nat /\ p.method \in Words /\ p.cseq \in Nat
      /\ p.ok \in BOOLEAN
      /\ Len(s) \in Nat /\ DOMAIN s = 1 .. Len(s)
  BY TextFacts DEF Parsers
<1>2. CASE Crlfs(s) = {}
  <2>1. q = p
    BY <1>2 DEF ParseHeadersLine
  <2>2. \A j \in 1 .. Len(s) : s[j].kind # "crlf"
    BY <1>1, <1>2 DEF Crlfs
  <2>3. QED
    BY <2>1, <2>2
<1>3. CASE Crlfs(s) # {}
  <2>1. i \in 1 .. Len(s)
    BY <1>1, <1>3, CrlfFacts
  <2>2. i \in 0 .. Len(s)
    BY <1>1, <2>1
  <2>3. lines \in Texts /\ Len(lines) = i /\ \A j \in 1 .. i : lines[j] = s[j]
    BY <1>1, <2>2, FrontFacts
  <2>4. After(s, i) \in Texts
    BY <1>1, <2>2, AfterFacts
  <2>5. numbers \in SUBSET Nat /\ numbers \subseteq 1 .. i
    <3>1. DOMAIN lines = 1 .. i
      BY <2>3, TextFacts
    <3>2. QED
      BY <3>1, <2>1
  <2>6. numbers # {} => /\ first \in 1 .. i /\ lines[first].kind = "CSeq"
                        /\ \A k \in 1 .. first - 1 : lines[k].kind # "CSeq"
    <3> SUFFICES ASSUME numbers # {}
                 PROVE  /\ first \in 1 .. i /\ lines[first].kind = "CSeq"
                        /\ \A k \in 1 .. first - 1 : lines[k].kind # "CSeq"
      OBVIOUS
    <3>1. \E j \in numbers : \A k \in numbers : j <= k
      <4> HIDE DEF numbers
      <4>1. QED
        BY <2>5, Least
    <3>2. first \in numbers /\ \A k \in numbers : first <= k
      <4> HIDE DEF numbers
      <4>1. QED
        BY <3>1
    <3>3. DOMAIN lines = 1 .. i
      BY <2>3, TextFacts
    <3>4. first \in 1 .. i /\ lines[first].kind = "CSeq"
      <4> HIDE DEF first, lines, i
      <4>1. QED
        BY <3>2, <3>3
    <3>5. ASSUME NEW k \in 1 .. first - 1
          PROVE  lines[k].kind # "CSeq"
      <4> HIDE DEF first, lines, i
      <4>1. k \in 1 .. i /\ ~(first <= k)
        BY <3>4, <2>1, <1>1
      <4>2. k \notin numbers
        BY <4>1, <3>2
      <4>3. QED
        BY <4>1, <4>2, <3>3
    <3>6. QED
      BY <3>4, <3>5
  <2>7. q = [p EXCEPT !.unread = After(s, i), !.ok = good,
                      !.cseq = IF p.cseq = 0 /\ numbers # {} THEN lines[first].of ELSE @,
                      !.state = IF good /\ found THEN "kGotAll" ELSE @]
    BY <1>3 DEF ParseHeadersLine
  <2>8. q = [state |-> IF good /\ found THEN "kGotAll" ELSE p.state,
             line |-> p.line, method |-> p.method,
             cseq |-> IF p.cseq = 0 /\ numbers # {} THEN lines[first].of ELSE p.cseq,
             unread |-> After(s, i), ok |-> good]
    <3> HIDE DEF s, i, lines, numbers, first, good, found
    <3>1. QED
      BY <1>1, <2>7
  <2>9. numbers # {} => lines[first].of \in Nat
    <3> HIDE DEF numbers, first, lines, i
    <3>1. QED
      BY <2>3, <2>6, TextFacts
  <2>10. good \in BOOLEAN
    OBVIOUS
  <2>11. q \in Parsers /\ q.line = p.line /\ q.unread = After(s, i)
         /\ q.state \in {p.state, "kGotAll"}
    <3> HIDE DEF s, i, lines, numbers, first, good, found
    <3>1. (IF good /\ found THEN "kGotAll" ELSE p.state) \in States
      BY <1>1 DEF States
    <3>2. (IF p.cseq = 0 /\ numbers # {} THEN lines[first].of ELSE p.cseq) \in Nat
      BY <1>1, <2>9
    <3>3. q \in Parsers
      BY <1>1, <2>4, <2>8, <2>10, <3>1, <3>2 DEF Parsers
    <3>4. q.line = p.line /\ q.unread = After(s, i) /\ q.state \in {p.state, "kGotAll"}
      BY <2>8
    <3>5. QED
      BY <3>3, <3>4
  <2>12. p.cseq # 0 => q.cseq = p.cseq
    <3> HIDE DEF s, i, lines, numbers, first, good, found
    <3>1. q.cseq = IF p.cseq = 0 /\ numbers # {} THEN lines[first].of ELSE p.cseq
      BY <2>8
    <3>2. QED
      BY <3>1
  <2>13. p.cseq = 0 /\ q.ok => numbers # {} /\ q.cseq = lines[first].of
    <3> HIDE DEF s, i, lines, numbers, first, found
    <3>1. q.ok = good /\ q.cseq = IF p.cseq = 0 /\ numbers # {} THEN lines[first].of ELSE p.cseq
      BY <2>8
    <3>2. QED
      BY <3>1
  <2>14. p.cseq = 0 /\ q.ok =>
           \E j \in 1 .. i : /\ s[j].kind = "CSeq" /\ q.cseq = s[j].of
                             /\ \A k \in 1 .. j - 1 : s[k].kind # "CSeq"
    <3> HIDE DEF s, i, lines, numbers, first
    <3> SUFFICES ASSUME p.cseq = 0 /\ q.ok
                 PROVE  \E j \in 1 .. i : /\ s[j].kind = "CSeq" /\ q.cseq = s[j].of
                                          /\ \A k \in 1 .. j - 1 : s[k].kind # "CSeq"
      OBVIOUS
    <3>1. first \in 1 .. i /\ 1 .. first - 1 \subseteq 1 .. i
      BY <1>1, <2>1, <2>6, <2>13
    <3>2. /\ s[first].kind = "CSeq" /\ q.cseq = s[first].of
          /\ \A k \in 1 .. first - 1 : s[k].kind # "CSeq"
      BY <2>3, <2>6, <2>13, <3>1
    <3>3. QED
      BY <3>1, <3>2
  <2>15. QED
    BY <2>1, <2>11, <2>12, <2>14
<1>4. QED
  BY <1>2, <1>3

-----------------------------------------------------------------------------
(* What the stream looks like *)

\* The first CSeq after position i is n (if more than one is n they are the first
\* ones), and up to it no two tokens in a row are without CRLF.
NumberAt(s, i, k, n) ==
  /\ s[k].kind = "CSeq" /\ s[k].of = n
  /\ \A l \in i + 1 .. k - 1 : s[l].kind = "CSeq" => s[l].of = n
  /\ \A l \in i + 1 .. k : s[l].kind = "crlf" \/ s[l + 1].kind = "crlf"
HasNumber(s, i, n) == \E k \in i + 1 .. Len(s) - 1 : NumberAt(s, i, k, n)

\* Every request line is followed by its own CSeq, unless its request has none.
Numbered(s, L) ==
  \A i \in 1 .. Len(s) :
    s[i].kind = "request" => HasNumber(s, i, s[i].of) \/ <<s[i].of, "CSeq">> \in L

\* Request lines come in the order of the requests, and no CSeq behind one is of
\* an earlier request.
Ordered(s) ==
  \A i, j \in 1 .. Len(s) :
    i < j /\ s[i].kind = "request" =>
      /\ s[j].kind = "request" => s[i].of < s[j].of
      /\ s[j].kind = "CSeq" => s[i].of <= s[j].of

Bare(s) == \A i \in 1 .. Len(s) : s[i].kind # "crlf"
Above(s, n) == \A i \in 1 .. Len(s) : s[i].kind = "request" => n < s[i].of
UpTo(s, n)  == \A i \in 1 .. Len(s) : s[i].kind = "request" => s[i].of <= n
NumbersFrom(s, n) == \A i \in 1 .. Len(s) : s[i].kind = "CSeq" => n <= s[i].of

LEMMA SuffixShape ==
  ASSUME NEW s \in Texts, NEW i \in 0 .. Len(s), NEW n \in Nat, NEW L
  PROVE  /\ Numbered(s, L) => Numbered(After(s, i), L)
         /\ Ordered(s) => Ordered(After(s, i))
         /\ Above(s, n) => Above(After(s, i), n)
         /\ UpTo(s, n) => UpTo(After(s, i), n)
         /\ NumbersFrom(s, n) => NumbersFrom(After(s, i), n)
<1> DEFINE t == After(s, i)
<1>1. /\ Len(t) = Len(s) - i /\ \A j \in 1 .. Len(s) - i : t[j] = s[i + j]
      /\ Len(s) \in Nat
  BY AfterFacts, TextFacts
<1> HIDE DEF t
<1>2. Numbered(s, L) => Numbered(t, L)
  <2> SUFFICES ASSUME Numbered(s, L), NEW j \in 1 .. Len(t), t[j].kind = "request",
                      <<t[j].of, "CSeq">> \notin L
               PROVE  HasNumber(t, j, t[j].of)
    BY DEF Numbered
  <2>1. i + j \in 1 .. Len(s) /\ t[j] = s[i + j]
    BY <1>1
  <2>2. PICK k \in i + j + 1 .. Len(s) - 1 : NumberAt(s, i + j, k, t[j].of)
    BY <2>1 DEF Numbered, HasNumber
  <2>3. k - i \in j + 1 .. Len(t) - 1 /\ t[k - i] = s[k]
    BY <1>1, <2>1
  <2>4. ASSUME NEW l \in j + 1 .. (k - i) - 1, t[l].kind = "CSeq"
        PROVE  t[l].of = t[j].of
    <3>1. l + i \in i + j + 1 .. k - 1 /\ t[l] = s[l + i]
      BY <1>1, <2>1
    <3>2. s[l + i].kind = "CSeq"
      BY <2>4, <3>1
    <3>3. s[l + i].of = t[j].of
      BY <2>2, <3>1, <3>2 DEF NumberAt
    <3>4. QED
      BY <3>1, <3>3
  <2>5. ASSUME NEW l \in j + 1 .. k - i
        PROVE  t[l].kind = "crlf" \/ t[l + 1].kind = "crlf"
    <3>1. /\ i + l \in i + j + 1 .. k /\ i + (l + 1) = i + l + 1
          /\ l \in 1 .. Len(s) - i /\ l + 1 \in 1 .. Len(s) - i
      <4>1. Len(s) \in Nat /\ Len(t) = Len(s) - i
        BY <1>1
      <4>2. /\ i \in Nat /\ j \in Nat /\ k \in Nat /\ l \in Nat /\ 1 <= j
            /\ j + 1 <= l /\ l <= k - i /\ k <= Len(s) - 1
        BY <4>1
      <4>3. QED
        BY <4>1, <4>2
    <3>2. t[l] = s[i + l] /\ t[l + 1] = s[i + l + 1]
      BY <1>1, <3>1
    <3>3. QED
      BY <2>2, <3>1, <3>2 DEF NumberAt
  <2>6. NumberAt(t, j, k - i, t[j].of)
    BY <2>2, <2>3, <2>4, <2>5 DEF NumberAt
  <2>7. QED
    BY <2>3, <2>6 DEF HasNumber
<1>3. Ordered(s) => Ordered(t)
  <2> SUFFICES ASSUME Ordered(s), NEW j \in 1 .. Len(t), NEW k \in 1 .. Len(t), j < k,
                      t[j].kind = "request"
               PROVE  /\ t[k].kind = "request" => t[j].of < t[k].of
                      /\ t[k].kind = "CSeq" => t[j].of <= t[k].of
    BY DEF Ordered
  <2>1. i + j \in 1 .. Len(s) /\ i + k \in 1 .. Len(s) /\ i + j < i + k
        /\ t[j] = s[i + j] /\ t[k] = s[i + k]
    BY <1>1
  <2>2. QED
    BY <2>1 DEF Ordered
<1>4. \A j \in 1 .. Len(t) : i + j \in 1 .. Len(s) /\ t[j] = s[i + j]
  BY <1>1
<1>5. /\ Above(s, n) => Above(t, n)
      /\ UpTo(s, n) => UpTo(t, n)
      /\ NumbersFrom(s, n) => NumbersFrom(t, n)
  BY <1>4 DEF Above, UpTo, NumbersFrom
<1>6. QED
  BY <1>2, <1>3, <1>5 DEF t

\* The CSeq of the first request line, if it has one, is still to come after that
\* line, and none of an earlier request is.
LEMMA NumberOfFirst ==
  ASSUME NEW s \in Texts, NEW L, 2 <= Len(s), Numbered(s, L), Ordered(s),
         s[1].kind = "request", s[2].kind = "crlf"
  PROVE  /\ HasNumber(After(s, 2), 0, s[1].of) \/ <<s[1].of, "CSeq">> \in L
         /\ Above(After(s, 2), s[1].of) /\ NumbersFrom(After(s, 2), s[1].of)
<1> DEFINE t == After(s, 2)
<1>1. /\ Len(s) \in Nat /\ Len(t) = Len(s) - 2 /\ \A j \in 1 .. Len(s) - 2 : t[j] = s[2 + j]
  BY AfterFacts, TextFacts
<1> HIDE DEF t
<1>2. ASSUME <<s[1].of, "CSeq">> \notin L
      PROVE  HasNumber(t, 0, s[1].of)
  <2>1. PICK k \in 2 .. Len(s) - 1 : NumberAt(s, 1, k, s[1].of)
    <3>1. 1 \in 1 .. Len(s) /\ 1 + 1 = 2
      BY <1>1
    <3>2. HasNumber(s, 1, s[1].of)
      BY <1>2, <3>1 DEF Numbered
    <3>3. QED
      BY <3>1, <3>2 DEF HasNumber
  <2>2. k - 2 \in 1 .. Len(t) - 1 /\ t[k - 2] = s[k]
    <3>1. k # 2
      BY <2>1 DEF NumberAt
    <3>2. k - 2 \in 1 .. Len(t) - 1 /\ k - 2 \in 1 .. Len(s) - 2 /\ 2 + (k - 2) = k
      BY <1>1, <3>1
    <3>3. QED
      BY <1>1, <3>2
  <2>3. ASSUME NEW l \in 1 .. (k - 2) - 1, t[l].kind = "CSeq"
        PROVE  t[l].of = s[1].of
    <3>1. l + 2 \in 2 .. k - 1 /\ t[l] = s[l + 2]
      BY <1>1, <2>2
    <3>2. QED
      BY <2>1, <2>3, <3>1 DEF NumberAt
  <2>4. ASSUME NEW l \in 1 .. k - 2
        PROVE  t[l].kind = "crlf" \/ t[l + 1].kind = "crlf"
    <3>1. l + 2 \in 2 .. k /\ t[l] = s[l + 2] /\ t[l + 1] = s[(l + 2) + 1]
      BY <1>1, <2>2, SMTT(30)
    <3>2. QED
      BY <2>1, <3>1 DEF NumberAt
  <2>5. NumberAt(t, 0, k - 2, s[1].of)
    BY <2>1, <2>2, <2>3, <2>4 DEF NumberAt
  <2>6. QED
    BY <2>2, <2>5 DEF HasNumber
<1>3. \A j \in 1 .. Len(t) :
        2 + j \in 1 .. Len(s) /\ 1 \in 1 .. Len(s) /\ 1 < 2 + j /\ t[j] = s[2 + j]
  BY <1>1
<1>4. Above(t, s[1].of) /\ NumbersFrom(t, s[1].of)
  BY <1>3 DEF Above, NumbersFrom, Ordered
<1>5. QED
  BY <1>2, <1>4 DEF t

\* What a client adds to the stream is a request or one token that is not text.
Packet(r) == r \in Texts /\ Len(r) = 1 /\ r[1].kind \in {"rtcp", "end"}
WholeOf(r, n, L) ==
  /\ r \in Texts /\ 3 <= Len(r)
  /\ r[1].kind \in {"request", "badurl"}
  /\ r[1].kind = "request" => r[1].of = n /\ (HasNumber(r, 1, n) \/ <<n, "CSeq">> \in L)
  /\ \A i \in 2 .. Len(r) : r[i].kind # "request" /\ (r[i].kind = "CSeq" => r[i].of = n)

LEMMA HeaderOrderFacts ==
  ASSUME NEW m, NEW lack, NEW h \in HeaderOrders(m, lack)
  PROVE  /\ h \in Seq(Headers)
         /\ \A k \in {"CSeq"} \cup Needed(m) : k \in lack \/ \E i \in 1 .. Len(h) : h[i] = k
<1> DEFINE needed == {"CSeq"} \cup Needed(m)
<1>1. PICK S \in HeaderSets(m, lack) :
        h \in [1 .. Cardinality(S) -> S] /\ {h[i] : i \in DOMAIN h} = S
  BY DEF HeaderOrders
<1>2. PICK extra \in SUBSET {"agent"} : S = (needed \ lack) \cup extra
  BY <1>1 DEF HeaderSets
<1>3. Needed(m) \subseteq Headers
  BY DEF Needed, Headers
<1>4. S \subseteq Headers /\ needed \ lack \subseteq S
  BY <1>2, <1>3 DEF Headers
<1>5. Cardinality(S) \in Nat
  <2>1. Headers = {"CSeq"} \cup {"Accept"} \cup {"Transport"} \cup {"Session"} \cup {"agent"}
    BY DEF Headers
  <2>2. IsFiniteSet(Headers)
    BY <2>1, FS_Singleton, FS_Union
  <2>3. QED
    BY <1>4, <2>2, FS_Subset, FS_CardinalityType
<1>6. DOMAIN h = 1 .. Cardinality(S) /\ h \in Seq(S)
  BY <1>1, <1>5
<1>7. Len(h) = Cardinality(S)
  BY <1>5, <1>6
<1>8. h \in Seq(Headers)
  BY <1>4, <1>6, SeqMonotonic
<1> HIDE DEF needed
<1>9. \A k \in needed \ lack : \E i \in DOMAIN h : h[i] = k
  BY <1>1, <1>4
<1>10. QED
  BY <1>6, <1>7, <1>8, <1>9 DEF needed

\* The line and the headers of a request, each with its CRLF, and the empty one.
RequestTokens(r, n, m, lack, h) ==
  LET c == Len(h)
  IN  /\ c \in Nat /\ r \in Texts /\ Len(r) = 2 * c + 3
      /\ r[1].kind = (IF "url" \in lack THEN "badurl" ELSE "request")
      /\ r[1].of = n /\ r[1].method = m
      /\ r[2].kind = "crlf" /\ r[2 * c + 3].kind = "crlf"
      /\ \A i \in 3 .. 2 * c + 2 :
           /\ i % 2 = 1 => r[i].kind \in Headers /\ r[i].of = n
           /\ i % 2 # 1 => r[i].kind = "crlf"
      /\ \A j \in 1 .. c : r[2 * j + 1].kind = h[j]

LEMMA TokensOfRequest ==
  ASSUME NEW n \in Nat, NEW m \in Methods, NEW lack, NEW h \in HeaderOrders(m, lack)
  PROVE  RequestTokens(Request(n, m, lack, h), n, m, lack, h)
<1> DEFINE c == Len(h)
           first == IF "url" \in lack THEN "badurl" ELSE "request"
           line1 == Text(first, n, m)
           E(i) == IF i % 2 = 1 THEN Text(h[(i + 1) \div 2], n, "none") ELSE Crlf(n)
           body == [i \in 1 .. 2 * c |-> E(i)]
           r == Request(n, m, lack, h)
<1>1. h \in Seq(Headers)
  BY HeaderOrderFacts
<1>2. c \in Nat /\ \A i \in 1 .. c : h[i] \in Headers
  BY <1>1
<1>3. Crlf(n) \in Tokens /\ Crlf(n).kind = "crlf" /\ line1 \in Tokens
      /\ line1.kind = first /\ line1.of = n /\ line1.method = m
  BY DEF Crlf, Text, Tokens, TokenKinds, Words
<1>4. \A k \in Headers : /\ Text(k, n, "none") \in Tokens
                         /\ Text(k, n, "none").kind = k /\ Text(k, n, "none").of = n
                         /\ k \notin {"request", "badurl", "crlf"}
  BY DEF Text, Tokens, TokenKinds, Words, Headers
<1>5. ASSUME NEW i \in 1 .. 2 * c
      PROVE  /\ E(i) \in Tokens
             /\ i % 2 = 1 => /\ E(i) = Text(h[(i + 1) \div 2], n, "none")
                             /\ (i + 1) \div 2 \in 1 .. c
             /\ i % 2 # 1 => E(i) = Crlf(n)
  <2>1. i % 2 = 1 => (i + 1) \div 2 \in 1 .. c
    BY <1>2
  <2>2. QED
    BY <1>2, <1>3, <1>4, <2>1
<1>6. body \in Seq(Tokens) /\ Len(body) = 2 * c /\ \A i \in 1 .. 2 * c : body[i] = E(i)
  <2> HIDE DEF E
  <2>1. QED
    BY <1>2, <1>5
<1> HIDE DEF E, body, line1, first
<1>7. <<line1, Crlf(n)>> \in Seq(Tokens)
  BY <1>3
<1>8. r = (<<line1, Crlf(n)>> \o body) \o <<Crlf(n)>>
  BY DEF Request, body, E, line1, first, c
<1> HIDE DEF r, c
<1>9. /\ r \in Texts /\ Len(r) = 2 * c + 3
      /\ r[1] = line1 /\ r[2] = Crlf(n) /\ r[2 * c + 3] = Crlf(n)
      /\ \A i \in 1 .. 2 * c : r[2 + i] = E(i)
  <2> DEFINE start == <<line1, Crlf(n)>>
             front == start \o body
  <2>1. Len(start) = 2 /\ start[1] = line1 /\ start[2] = Crlf(n) /\ start \in Texts
    BY <1>7 DEF Texts
  <2>2. body \in Texts
    BY <1>6 DEF Texts
  <2> HIDE DEF start
  <2>3. /\ front \in Texts /\ Len(front) = 2 + 2 * c
        /\ \A i \in 1 .. 2 + 2 * c :
             front[i] = IF i <= 2 THEN start[i] ELSE body[i - 2]
    <3>1. /\ front \in Texts /\ Len(front) = Len(start) + Len(body)
          /\ \A i \in 1 .. Len(start) + Len(body) :
               front[i] = IF i <= Len(start) THEN start[i] ELSE body[i - Len(start)]
      BY <2>1, <2>2, ConcatFacts
    <3>2. Len(start) = 2 /\ Len(body) = 2 * c
      BY <1>6, <2>1
    <3>3. QED
      BY <3>1, <3>2
  <2>4. r = front \o <<Crlf(n)>>
    BY <1>8 DEF start
  <2> HIDE DEF front
  <2>5. /\ r \in Texts /\ Len(r) = Len(front) + 1
        /\ \A i \in 1 .. Len(front) : r[i] = front[i]
        /\ r[Len(front) + 1] = Crlf(n)
    BY <1>3, <2>3, <2>4, AppendedFacts
  <2>6. \A i \in 1 .. 2 * c : 2 + i \in 1 .. 2 + 2 * c /\ ~(2 + i <= 2) /\ 2 + i - 2 = i
    BY <1>2
  <2>7. \A i \in 1 .. 2 * c : r[2 + i] = body[i]
    BY <1>2, <2>3, <2>5, <2>6
  <2>8. 1 \in 1 .. 2 + 2 * c /\ 2 \in 1 .. 2 + 2 * c /\ 2 + 2 * c + 1 = 2 * c + 3
    BY <1>2
  <2>9. r[1] = line1 /\ r[2] = Crlf(n)
    BY <2>1, <2>3, <2>5, <2>8
  <2>10. QED
    BY <1>6, <2>3, <2>5, <2>7, <2>8, <2>9
\* Odd tokens from the third on are headers, even ones end lines.
<1>10. \A i \in 3 .. 2 * c + 2 :
         /\ i - 2 \in 1 .. 2 * c /\ r[i] = E(i - 2)
         /\ (i - 2) % 2 = i % 2
  BY <1>2, <1>9
<1>11. \A i \in 3 .. 2 * c + 2 :
         /\ i % 2 = 1 => r[i].kind \in Headers /\ r[i].of = n
         /\ i % 2 # 1 => r[i].kind = "crlf"
  <2> TAKE i \in 3 .. 2 * c + 2
  <2>1. CASE i % 2 = 1
    BY <1>2, <1>4, <1>5, <1>10, <2>1
  <2>2. CASE i % 2 # 1
    BY <1>3, <1>5, <1>10, <2>2
  <2>3. QED
    BY <2>1, <2>2
<1>12. \A j \in 1 .. c : r[2 * j + 1].kind = h[j]
  <2> TAKE j \in 1 .. c
  <2>1. /\ 2 * j - 1 \in 1 .. 2 * c /\ (2 * j - 1) % 2 = 1
        /\ (2 * j - 1 + 1) \div 2 = j /\ 2 + (2 * j - 1) = 2 * j + 1
    BY <1>2
  <2>2. r[2 + (2 * j - 1)] = E(2 * j - 1)
    BY <1>9, <2>1
  <2>3. E(2 * j - 1) = Text(h[j], n, "none")
    BY <1>5, <2>1
  <2>4. QED
    BY <1>2, <1>4, <2>1, <2>2, <2>3
<1>13. QED
  BY <1>2, <1>3, <1>9, <1>11, <1>12 DEF RequestTokens, r, c, first

LEMMA RequestShape ==
  ASSUME NEW n \in Nat, NEW m \in Methods, NEW lack, NEW h \in HeaderOrders(m, lack),
         NEW L, {n} \X lack \subseteq L
  PROVE  WholeOf(Request(n, m, lack, h), n, L)
<1> DEFINE c == Len(h)
           r == Request(n, m, lack, h)
<1>1. RequestTokens(r, n, m, lack, h)
  BY TokensOfRequest
<1> HIDE DEF r
<1>2. /\ c \in Nat /\ r \in Texts /\ Len(r) = 2 * c + 3
      /\ r[1].kind \in {"request", "badurl"} /\ r[1].of = n
      /\ r[2].kind = "crlf" /\ r[2 * c + 3].kind = "crlf"
      /\ \A i \in 3 .. 2 * c + 2 :
           /\ i % 2 = 1 => r[i].kind \in Headers /\ r[i].of = n
           /\ i % 2 # 1 => r[i].kind = "crlf"
      /\ \A j \in 1 .. c : r[2 * j + 1].kind = h[j]
  BY <1>1 DEF RequestTokens
<1>3. "CSeq" \in lack \/ \E j \in 1 .. c : h[j] = "CSeq"
  BY HeaderOrderFacts
<1> HIDE DEF c
<1>4. \A i \in 2 .. Len(r) : r[i].kind # "request" /\ (r[i].kind = "CSeq" => r[i].of = n)
  <2> TAKE i \in 2 .. Len(r)
  <2>1. i = 2 \/ i = 2 * c + 3 \/ i \in 3 .. 2 * c + 2
    BY <1>2
  <2>2. CASE i = 2 \/ i = 2 * c + 3
    BY <1>2, <2>2
  <2>3. CASE i \in 3 .. 2 * c + 2
    BY <1>2, <2>3 DEF Headers
  <2>4. QED
    BY <2>1, <2>2, <2>3
<1>5. \A i \in 1 .. Len(r) - 1 : r[i].kind = "crlf" \/ r[i + 1].kind = "crlf"
  <2> TAKE i \in 1 .. Len(r) - 1
  <2>1. CASE i % 2 # 1
    <3>1. i = 2 \/ i \in 3 .. 2 * c + 2
      BY <1>2, <2>1
    <3>2. QED
      BY <1>2, <2>1, <3>1
  <2>2. CASE i % 2 = 1
    <3>1. (i + 1) % 2 # 1
      BY <2>2
    <3>2. i + 1 = 2 \/ i + 1 \in 3 .. 2 * c + 2
      BY <1>2, <2>2
    <3>3. QED
      BY <1>2, <3>1, <3>2
  <2>3. QED
    BY <2>1, <2>2
<1>6. ASSUME "CSeq" \notin lack
      PROVE  HasNumber(r, 1, n)
  <2>1. PICK j \in 1 .. c : h[j] = "CSeq"
    BY <1>3, <1>6
  <2>2. 2 * j + 1 \in 2 .. Len(r) - 1 /\ r[2 * j + 1].kind = "CSeq"
    BY <1>2, <2>1
  <2>3. PICK q \in 2 .. Len(r) - 1 : r[q].kind = "CSeq" /\ r[q].of = n
    BY <1>2, <1>4, <2>2
  <2>4. /\ 1 + 1 = 2 /\ Len(r) \in Nat
        /\ \A l \in 2 .. q - 1 : l \in 2 .. Len(r)
        /\ \A l \in 2 .. q : l \in 1 .. Len(r) - 1
    BY <1>2
  <2>5. NumberAt(r, 1, q, n)
    BY <1>4, <1>5, <2>3, <2>4 DEF NumberAt
  <2>6. QED
    BY <2>3, <2>4, <2>5 DEF HasNumber
<1>7. "CSeq" \in lack => <<n, "CSeq">> \in L
  OBVIOUS
<1>8. QED
  BY <1>2, <1>4, <1>6, <1>7 DEF WholeOf, r

LEMMA ExtendedShape ==
  ASSUME NEW s \in Texts, NEW r, NEW n \in Nat, NEW L,
         Packet(r) \/ WholeOf(r, n + 1, L)
  PROVE  /\ Numbered(s, L) => Numbered(s \o r, L)
         /\ Ordered(s) /\ UpTo(s, n) => Ordered(s \o r)
         /\ \A m \in 0 .. n : Above(s, m) => Above(s \o r, m)
         /\ \A m \in 0 .. n : NumbersFrom(s, m) => NumbersFrom(s \o r, m)
         /\ UpTo(s, n) => IF Packet(r) THEN UpTo(s \o r, n) ELSE UpTo(s \o r, n + 1)
         /\ \A i \in 0 .. Len(s), m \in Nat : HasNumber(s, i, m) => HasNumber(s \o r, i, m)
<1> DEFINE t == s \o r
           c == Len(s)
<1>1. r \in Texts /\ 1 <= Len(r) /\ Len(r) \in Nat /\ c \in Nat
  BY TextFacts DEF Packet, WholeOf
<1>2. /\ t \in Texts /\ Len(t) = c + Len(r)
      /\ \A i \in 1 .. c : i \in 1 .. Len(t) /\ t[i] = s[i]
      /\ \A i \in 1 .. Len(r) : c + i \in 1 .. Len(t) /\ t[c + i] = r[i]
  BY <1>1, ConcatFacts
<1>3. \A i \in 1 .. Len(t) : i \in 1 .. c \/ \E j \in 1 .. Len(r) : i = c + j
  <2> TAKE i \in 1 .. Len(t)
  <2>1. i \in 1 .. c \/ (i - c \in 1 .. Len(r) /\ i = c + (i - c))
    BY <1>1, <1>2
  <2>2. QED
    BY <2>1
<1> HIDE DEF t, c
<1>4. \A i \in 1 .. Len(r) :
        /\ r[i].kind = "request" => i = 1 /\ r[i].of = n + 1 /\ WholeOf(r, n + 1, L)
        /\ r[i].kind = "CSeq" => r[i].of = n + 1
  BY <1>1 DEF Packet, WholeOf
<1>5. ASSUME NEW i \in 0 .. c, NEW m \in Nat, HasNumber(s, i, m)
      PROVE  HasNumber(t, i, m)
  <2>1. PICK q \in i + 1 .. c - 1 : NumberAt(s, i, q, m)
    BY <1>5 DEF HasNumber, c
  <2>2. /\ q \in i + 1 .. Len(t) - 1 /\ t[q] = s[q]
        /\ \A l \in i + 1 .. q : t[l] = s[l] /\ t[l + 1] = s[l + 1]
        /\ \A l \in i + 1 .. q - 1 : l \in i + 1 .. q
    <3>1. \A l \in i + 1 .. q : l \in 1 .. c /\ l + 1 \in 1 .. c
      BY <1>1
    <3>2. q \in i + 1 .. Len(t) - 1 /\ q \in i + 1 .. q
      BY <1>1, <1>2
    <3>3. QED
      BY <1>1, <1>2, <3>1, <3>2
  <2>3. NumberAt(t, i, q, m)
    BY <2>1, <2>2 DEF NumberAt
  <2>4. QED
    BY <2>2, <2>3 DEF HasNumber
<1>6. Numbered(s, L) => Numbered(t, L)
  <2> SUFFICES ASSUME Numbered(s, L), NEW i \in 1 .. Len(t), t[i].kind = "request",
                      <<t[i].of, "CSeq">> \notin L
               PROVE  HasNumber(t, i, t[i].of)
    BY DEF Numbered
  <2>1. CASE i \in 1 .. c
    <3>1. t[i] = s[i] /\ i \in 0 .. c
      BY <1>1, <1>2, <2>1
    <3>2. HasNumber(s, i, s[i].of)
      BY <2>1, <3>1 DEF Numbered, c
    <3>3. s[i].of \in Nat
      BY <2>1, TextFacts DEF c
    <3>4. QED
      BY <3>1, <3>2, <3>3, <1>5
  <2>2. CASE \E j \in 1 .. Len(r) : i = c + j
    <3>1. PICK j \in 1 .. Len(r) : i = c + j
      BY <2>2
    <3>2. t[i] = r[j] /\ j = 1 /\ r[1].of = n + 1 /\ WholeOf(r, n + 1, L) /\ r[1].kind = "request"
      BY <1>2, <1>4, <3>1
    <3>3. PICK q \in 2 .. Len(r) - 1 :
            /\ r[q].kind = "CSeq" /\ r[q].of = n + 1
            /\ \A l \in 2 .. q - 1 : r[l].kind = "CSeq" => r[l].of = n + 1
            /\ \A l \in 2 .. q : r[l].kind = "crlf" \/ r[l + 1].kind = "crlf"
      <4>1. 1 + 1 = 2
        OBVIOUS
      <4>2. HasNumber(r, 1, n + 1)
        BY <3>2 DEF WholeOf
      <4>3. QED
        BY <4>1, <4>2 DEF HasNumber, NumberAt
    <3>4. c + q \in i + 1 .. Len(t) - 1 /\ t[c + q] = r[q]
      <4>1. q \in 1 .. Len(r) /\ i = c + 1
        BY <1>1, <3>1, <3>2
      <4>2. t[c + q] = r[q]
        BY <1>2, <4>1
      <4> DEFINE k == Len(r)
                 e == Len(t)
      <4>3. /\ k \in Nat /\ c \in Nat /\ q \in 2 .. k - 1
            /\ e = c + k /\ i = c + 1
        BY <1>1, <1>2, <4>1
      <4> HIDE DEF k, e
      <4>4. c + q \in i + 1 .. e - 1
        BY <4>3, SMTT(30)
      <4>5. QED
        BY <4>2, <4>4 DEF e
    <3>5. ASSUME NEW l \in i + 1 .. c + q
          PROVE  /\ (l <= (c + q) - 1 /\ t[l].kind = "CSeq") => t[l].of = n + 1
                 /\ t[l].kind = "crlf" \/ t[l + 1].kind = "crlf"
      <4> DEFINE d == l - c
      <4>1. /\ Len(r) \in Nat /\ c \in Nat /\ q \in 2 .. Len(r) - 1 /\ l \in Int
            /\ c + 2 <= l /\ l <= c + q
        BY <1>1, <3>1, <3>2
      <4>2. /\ d \in 2 .. q /\ d \in 1 .. Len(r) /\ l = c + d
            /\ d + 1 \in 1 .. Len(r) /\ l + 1 = c + (d + 1)
            /\ l <= (c + q) - 1 => d \in 2 .. q - 1
        BY <4>1
      <4> HIDE DEF d
      <4>3. t[l] = r[d] /\ t[l + 1] = r[d + 1]
        BY <1>2, <4>2
      <4>4. QED
        BY <3>3, <4>2, <4>3
    <3>6. NumberAt(t, i, c + q, n + 1)
      <4>1. t[c + q].kind = "CSeq" /\ t[c + q].of = n + 1
        BY <3>3, <3>4
      <4>2. \A l \in i + 1 .. (c + q) - 1 : l \in i + 1 .. c + q /\ l <= c + q - 1
        BY <1>1, <3>1, <3>2
      <4>3. \A l \in i + 1 .. (c + q) - 1 : t[l].kind = "CSeq" => t[l].of = n + 1
        BY <3>5, <4>2
      <4>4. \A l \in i + 1 .. c + q : t[l].kind = "crlf" \/ t[l + 1].kind = "crlf"
        BY <3>5
      <4>5. QED
        BY <4>1, <4>3, <4>4 DEF NumberAt
    <3>7. QED
      BY <3>2, <3>4, <3>6 DEF HasNumber
  <2>3. QED
    BY <1>3, <2>1, <2>2
<1>7. \A i \in 1 .. Len(t) :
        /\ t[i].kind = "request" =>
             \/ i \in 1 .. c /\ s[i].kind = "request" /\ t[i].of = s[i].of
             \/ i = c + 1 /\ t[i].of = n + 1 /\ WholeOf(r, n + 1, L)
        /\ t[i].kind = "CSeq" =>
             \/ i \in 1 .. c /\ s[i].kind = "CSeq" /\ t[i].of = s[i].of
             \/ i \notin 1 .. c /\ t[i].of = n + 1
  <2> TAKE i \in 1 .. Len(t)
  <2>1. CASE i \in 1 .. c
    BY <1>2, <2>1
  <2>2. CASE \E j \in 1 .. Len(r) : i = c + j
    <3>1. PICK j \in 1 .. Len(r) : i = c + j
      BY <2>2
    <3>2. t[i] = r[j] /\ i \notin 1 .. c
      BY <1>1, <1>2, <3>1
    <3>3. QED
      BY <1>4, <3>1, <3>2
  <2>3. QED
    BY <1>3, <2>1, <2>2
<1>8. \A i \in 1 .. c : s[i].of \in Nat
  BY TextFacts DEF c
<1>9. ASSUME Ordered(s), UpTo(s, n)
      PROVE  Ordered(t)
  <2> SUFFICES ASSUME NEW i \in 1 .. Len(t), NEW j \in 1 .. Len(t), i < j,
                      t[i].kind = "request"
               PROVE  /\ t[j].kind = "request" => t[i].of < t[j].of
                      /\ t[j].kind = "CSeq" => t[i].of <= t[j].of
    BY DEF Ordered
  <2>1. CASE j \in 1 .. c
    <3>1. i \in 1 .. c
      BY <1>1, <2>1
    <3>2. t[i] = s[i] /\ t[j] = s[j]
      BY <1>2, <2>1, <3>1
    <3>3. QED
      BY <1>9, <2>1, <3>1, <3>2 DEF Ordered, c
  <2>2. CASE j \notin 1 .. c
    <3>1. t[j].kind \in {"request", "CSeq"} => t[j].of = n + 1
      BY <1>7, <2>2
    <3>2. t[i].of <= n \/ (i = c + 1 /\ t[i].of = n + 1)
      BY <1>7, <1>9 DEF UpTo, c
    <3>3. i = c + 1 => t[j].kind # "request"
      BY <1>1, <1>7
    <3>4. t[i].of \in Nat
      BY <1>2, TextFacts
    <3>5. QED
      BY <3>1, <3>2, <3>3, <3>4
  <2>3. QED
    BY <2>1, <2>2
<1>10. \A m \in 0 .. n : (Above(s, m) => Above(t, m)) /\ (NumbersFrom(s, m) => NumbersFrom(t, m))
  <2> TAKE m \in 0 .. n
  <2>1. m < n + 1 /\ m <= n + 1
    OBVIOUS
  <2>2. QED
    BY <1>7, <2>1 DEF Above, NumbersFrom, c
<1>11. UpTo(s, n) => UpTo(t, n + 1)
  BY <1>7, <1>8 DEF UpTo, c
<1>12. Packet(r) => ~WholeOf(r, n + 1, L)
  BY DEF Packet, WholeOf
<1>13. UpTo(s, n) /\ Packet(r) => UpTo(t, n)
  BY <1>7, <1>12 DEF UpTo, c
<1>14. QED
  BY <1>5, <1>6, <1>9, <1>10, <1>11, <1>13 DEF t, c

-----------------------------------------------------------------------------
(* The buffer *)

Types ==
  /\ wire \in Texts /\ unread \in Texts /\ reader \in Nat /\ size \in Nat
  /\ state \in States /\ line \in Nat /\ method \in Words /\ cseq \in Nat
  /\ sent \in Nat /\ rtcp \in Nat /\ reply \in [line : Nat, cseq : Nat]

BufferInv == Types /\ InBuffer

LEMMA Constants == MaxRead \in Nat /\ MaxMessage \in Nat \ {0} /\ InitialSize \in Nat
BY BufferAssumption

LEMMA ReadFacts ==
  ASSUME BufferInv, NEW k \in 1 .. Len(wire), NEW Starts, ReadFd(k, Starts)
  PROVE  /\ Received(k) \in Texts /\ Len(Received(k)) = Len(unread) + k
         /\ wire' = After(wire, k) /\ wire' \in Texts
         /\ size' \in Nat /\ reader + Len(Received(k)) <= size'
<1>1. Len(wire) \in Nat /\ Len(unread) \in Nat /\ k \in 0 .. Len(wire)
  BY TextFacts DEF BufferInv, Types
<1>2. SubSeq(wire, 1, k) \in Texts /\ Len(SubSeq(wire, 1, k)) = k
  BY <1>1, FrontFacts DEF BufferInv, Types
<1>3. Received(k) \in Texts /\ Len(Received(k)) = Len(unread) + k
  BY <1>2, ConcatFacts DEF Received, BufferInv, Types
<1>4. wire' = After(wire, k) /\ wire' \in Texts
  BY <1>1, AfterFacts DEF ReadFd, After, BufferInv, Types
<1>5. k <= MaxRead /\ size' = Grown
  BY DEF ReadFd
<1>6. size' \in Nat /\ reader + (Len(unread) + k) <= size'
  BY <1>1, <1>5, Constants DEF Grown, Crowded, Writer, InBuffer, BufferInv, Types
<1>7. QED
  BY <1>3, <1>4, <1>6

LEMMA RoomKept ==
  ASSUME BufferInv, NEW received \in Texts, NEW left \in Texts,
         Len(left) <= Len(received), size' \in Nat, reader + Len(received) <= size',
         \/ Kept(received, left)
         \/ Retrieved(left, reader)
         \/ Retrieved(<<>>, 0)
  PROVE  unread' \in Texts /\ reader' \in Nat /\ InBuffer'
<1>1. Len(left) \in Nat /\ Len(received) \in Nat /\ reader \in Nat
  BY TextFacts DEF BufferInv, Types
<1>2. <<>> \in Texts /\ Len(<<>>) = 0
  BY DEF Texts
<1>3. ASSUME NEW l \in Texts, NEW rd \in Nat, Retrieved(l, rd), rd + Len(l) <= size'
      PROVE  unread' \in Texts /\ reader' \in Nat /\ InBuffer'
  <2>1. unread' = l /\ reader' = IF l = <<>> THEN 0 ELSE rd
    BY <1>3 DEF Retrieved
  <2>2. reader' \in Nat /\ reader' + Len(l) <= size'
    BY <1>2, <1>3, <2>1
  <2>3. QED
    BY <2>1, <2>2 DEF InBuffer, Writer
<1>4. CASE Kept(received, left)
  <2> DEFINE l == IF Len(left) > MaxMessage THEN <<>> ELSE left
             rd == reader + Len(received) - Len(left)
  <2>1. l \in Texts /\ Len(l) <= Len(left) /\ Len(l) \in Nat
    BY <1>1, <1>2
  <2>2. rd \in Nat /\ rd + Len(l) <= size'
    <3> HIDE DEF l
    <3>1. QED
      BY <1>1, <2>1
  <2>3. Retrieved(l, rd)
    BY <1>4 DEF Kept
  <2> HIDE DEF l, rd
  <2>4. QED
    BY <1>3, <2>1, <2>2, <2>3
<1>5. CASE Retrieved(left, reader)
  <2>1. reader + Len(left) <= size'
    BY <1>1
  <2>2. QED
    BY <1>1, <1>3, <1>5, <2>1
<1>6. CASE Retrieved(<<>>, 0)
  <2>1. 0 + Len(<<>>) <= size' /\ 0 \in Nat
    BY <1>2
  <2>2. QED
    BY <1>2, <1>3, <1>6, <2>1
<1>7. QED
  BY <1>4, <1>5, <1>6

LEMMA Parsing ==
  ASSUME NEW p \in Parsers, NEW q, q = ParseRequest(p)
  PROVE  q \in Parsers /\ Len(q.unread) <= Len(p.unread)
<1>1. \A r \in Parsers : r.unread \in Texts /\ Len(r.unread) \in Nat
  BY TextFacts DEF Parsers
<1>2. ASSUME NEW r \in Parsers, NEW t \in Parsers,
             t.unread = r.unread \/ \E i \in 1 .. Len(r.unread) : t.unread = After(r.unread, i)
      PROVE  Len(t.unread) <= Len(r.unread)
  <2>1. CASE t.unread = r.unread
    BY <1>1, <2>1
  <2>2. CASE \E i \in 1 .. Len(r.unread) : t.unread = After(r.unread, i)
    <3>1. PICK i \in 1 .. Len(r.unread) : t.unread = After(r.unread, i)
      BY <2>2
    <3>2. i \in 0 .. Len(r.unread)
      BY <1>1
    <3>3. Len(t.unread) = Len(r.unread) - i
      BY <1>1, <3>1, <3>2, AfterFacts
    <3>4. QED
      BY <1>1, <3>3
  <2>3. QED
    BY <1>2, <2>1, <2>2
<1> DEFINE m == IF p.state = "kParseRequestLine" THEN ParseRequestLine(p) ELSE p
<1>3. q = IF m.state = "kParseHeadersLine" THEN ParseHeadersLine(m) ELSE m
  BY DEF ParseRequest
<1>4. m \in Parsers /\ Len(m.unread) <= Len(p.unread)
  <2>1. CASE p.state = "kParseRequestLine"
    <3>1. m \in Parsers
      BY <2>1, LineParsed
    <3>2. m = p \/ \E i \in 1 .. Len(p.unread) : m.unread = After(p.unread, i)
      <4>1. 2 <= Len(p.unread) => 2 \in 1 .. Len(p.unread)
        BY <1>1
      <4>2. m = ParseRequestLine(p)
        BY <2>1
      <4> HIDE DEF m
      <4>3. QED
        BY <4>1, <4>2, LineParsed
    <3> HIDE DEF m
    <3>3. QED
      BY <1>2, <3>1, <3>2
  <2>2. CASE p.state # "kParseRequestLine"
    BY <1>1, <2>2
  <2>3. QED
    BY <2>1, <2>2
<1> HIDE DEF m
<1>5. CASE m.state = "kParseHeadersLine"
  <2>1. q = ParseHeadersLine(m)
    BY <1>3, <1>5
  <2>2. /\ q \in Parsers
        /\ q = m \/ \E i \in 1 .. Len(m.unread) : q.unread = After(m.unread, i)
    BY <1>4, <2>1, HeadersParsed
  <2>3. Len(q.unread) <= Len(m.unread)
    BY <1>2, <1>4, <2>2
  <2>4. QED
    BY <1>1, <1>4, <2>2, <2>3
<1>6. CASE m.state # "kParseHeadersLine"
  BY <1>3, <1>4, <1>6
<1>7. QED
  BY <1>5, <1>6

\* What either peer writes.
LEMMA Written ==
  /\ Rtcp \in Tokens /\ End \in Tokens
  /\ \A word \in {"OK", "error"} : Response(word) \in Texts
BY DEF Rtcp, End, Response, Text, Tokens, TokenKinds, Words, Texts

LEMMA Joined ==
  ASSUME NEW s \in Texts
  PROVE  /\ \A r \in Texts : s \o r \in Texts
         /\ \A t \in Tokens : Append(s, t) \in Texts
BY ConcatFacts, AppendedFacts

LEMMA BufferInitially == Init => BufferInv
BY Constants DEF Init, RequestInit, PusherInit, BufferInit, BufferInv, Types, InBuffer, Writer,
  Texts, States, Words

LEMMA BufferReadByServer ==
  ASSUME BufferInv, HandleRead
  PROVE  BufferInv'
<1>1. PICK k \in 1 .. Len(wire) :
        /\ ReadFd(k, {"request", "badurl", "rtcp", "end"})
        /\ LET p == ParseRequest(Parser(Received(k)))
           IN  BadRequest(p) \/ PartOfRequest(p, Received(k)) \/ WholeRequest(p)
  BY DEF HandleRead
<1> DEFINE p == ParseRequest(Parser(Received(k)))
<1>2. /\ Received(k) \in Texts /\ wire' \in Texts /\ size' \in Nat
      /\ reader + Len(Received(k)) <= size'
  BY <1>1, ReadFacts
<1>3. Parser(Received(k)) \in Parsers /\ Parser(Received(k)).unread = Received(k)
  BY <1>2 DEF Parser, Parsers, BufferInv, Types
<1>4. p \in Parsers /\ Len(p.unread) <= Len(Received(k))
  BY <1>3, Parsing
<1>5. BadRequest(p) \/ PartOfRequest(p, Received(k)) \/ WholeRequest(p)
  BY <1>1
<1> HIDE DEF p
<1>6. p.unread \in Texts /\ p.state \in States /\ p.line \in Nat /\ p.method \in Words
      /\ p.cseq \in Nat
  BY <1>4 DEF Parsers
<1>7. \/ Kept(Received(k), p.unread)
      \/ Retrieved(p.unread, reader)
      \/ Retrieved(<<>>, 0)
  BY <1>5 DEF BadRequest, PartOfRequest, WholeRequest
<1>8. unread' \in Texts /\ reader' \in Nat /\ InBuffer'
  BY <1>2, <1>4, <1>6, <1>7, RoomKept
<1>9. /\ state' \in States /\ line' \in Nat /\ method' \in Words /\ cseq' \in Nat
      /\ reply' \in [line : Nat, cseq : Nat]
  BY <1>5, <1>6 DEF BadRequest, PartOfRequest, WholeRequest, Reset, States, BufferInv, Types
<1>10. sent' = sent /\ rtcp' = rtcp
  BY DEF HandleRead, clientVars
<1>11. QED
  BY <1>2, <1>8, <1>9, <1>10 DEF BufferInv, Types

LEMMA BufferReadByClient ==
  ASSUME BufferInv, HandleResponse, UNCHANGED <<parserVars, clientVars, reply>>
  PROVE  BufferInv'
<1>1. PICK k \in 1 .. Len(wire) :
        /\ ReadFd(k, {"head", "end"})
        /\ LET seen == Kinds(Received(k) \o Beyond(k))
           IN  BadResponse(k, seen) \/ WholeResponse(k, seen) \/ PartOfResponse(k, seen)
  BY DEF HandleResponse
<1>2. /\ Received(k) \in Texts /\ wire' \in Texts /\ size' \in Nat
      /\ reader + Len(Received(k)) <= size'
  BY <1>1, ReadFacts
<1>3. \/ Kept(Received(k), Received(k))
      \/ Retrieved(Received(k), reader)
      \/ Retrieved(<<>>, 0)
  BY <1>1 DEF BadResponse, WholeResponse, PartOfResponse
<1>4. Len(Received(k)) <= Len(Received(k))
  BY <1>2, TextFacts
<1>5. unread' \in Texts /\ reader' \in Nat /\ InBuffer'
  BY <1>2, <1>3, <1>4, RoomKept
<1>6. QED
  BY <1>2, <1>5 DEF BufferInv, Types, parserVars, clientVars

LEMMA BufferReadFails ==
  ASSUME BufferInv, ReadFails, UNCHANGED <<parserVars, clientVars, reply>>
  PROVE  BufferInv'
<1>1. wire' \in Texts
  <2>1. wire # <<>> => Tail(wire) \in Texts
    BY HeadTailProperties DEF BufferInv, Types, Texts
  <2>2. QED
    BY <2>1 DEF ReadFails, BufferInv, Types
<1>2. unread' = unread /\ reader' = reader /\ size' \in {size, Grown}
  BY DEF ReadFails
<1>3. size' \in Nat /\ reader + Len(unread) <= size'
  BY <1>2, Constants DEF Grown, BufferInv, Types, InBuffer, Writer
<1>4. QED
  BY <1>1, <1>2, <1>3 DEF BufferInv, Types, parserVars, clientVars, InBuffer, Writer

\* What is written changes nothing but wire, and the client's counters.
LEMMA BufferWritten ==
  ASSUME BufferInv, wire' \in Texts, sent' \in Nat, rtcp' \in Nat,
         UNCHANGED <<bufferVars, parserVars, reply>>
  PROVE  BufferInv'
BY DEF BufferInv, Types, bufferVars, parserVars, InBuffer, Writer

LEMMA BufferStep ==
  ASSUME BufferInv, [Next]_vars
  PROVE  BufferInv'
<1> USE DEF BufferInv, Types
<1>1. CASE ServerSide
  <2>1. CASE HandleRead
    BY <2>1, BufferReadByServer
  <2>2. CASE HandleReadFails
    BY <2>2, BufferReadFails DEF HandleReadFails
  <2>3. ASSUME NEW m \in Methods, SendRequest(m)
        PROVE  BufferInv'
    <3>1. PICK lack, h :
            /\ h \in HeaderOrders(m, lack)
            /\ lacks' = lacks \cup ({sent + 1} \X lack)
            /\ wire' = wire \o Request(sent + 1, m, lack, h)
      BY <2>3 DEF SendRequest
    <3>2. sent + 1 \in Nat
      OBVIOUS
    <3>3. WholeOf(Request(sent + 1, m, lack, h), sent + 1, lacks')
      BY <3>1, <3>2, RequestShape
    <3>4. Request(sent + 1, m, lack, h) \in Texts
      BY <3>3 DEF WholeOf
    <3>5. wire' \in Texts
      BY <3>1, <3>4, Joined
    <3>6. sent' \in Nat
      BY <2>3, <3>2 DEF SendRequest
    <3>7. QED
      BY <2>3, <3>5, <3>6, BufferWritten DEF SendRequest
  <2>4. CASE SendRtcp
    BY <2>4, Joined, Written, BufferWritten DEF SendRtcp
  <2>5. CASE ClientHangup
    BY <2>5, Joined, Written, BufferWritten DEF ClientHangup, Hangup, clientVars
  <2>6. QED
    BY <1>1, <2>1, <2>2, <2>3, <2>4, <2>5 DEF ServerSide, RequestNext
<1>2. CASE ClientSide
  <2>1. UNCHANGED <<parserVars, clientVars, reply>>
    BY <1>2 DEF ClientSide
  <2>2. CASE HandleResponse
    BY <2>1, <2>2, BufferReadByClient
  <2>3. CASE ResponseFails
    BY <2>1, <2>3, BufferReadFails DEF ResponseFails
  <2>4. CASE Respond
    BY <2>1, <2>4, Joined, Written, BufferWritten DEF Respond, clientVars
  <2>5. CASE ServerHangup
    BY <2>1, <2>5, Joined, Written, BufferWritten DEF ServerHangup, Hangup, clientVars
  <2>6. CASE OpenUrl \/ RemoveMediaSession \/ CloseUrl \/ NewClient \/ HandleClosing
    <3>1. UNCHANGED <<wire, bufferVars>>
      BY <2>6 DEF OpenUrl, RemoveMediaSession, CloseUrl, NewClient, HandleClosing, streamVars
    <3>2. QED
      BY <2>1, <3>1, BufferWritten DEF clientVars
  <2>7. QED
    BY <1>2, <2>2, <2>3, <2>4, <2>5, <2>6 DEF ClientSide, PusherNext, PusherStep
<1>3. CASE UNCHANGED vars
  BY <1>3, BufferWritten DEF vars, streamVars, clientVars
<1>4. QED
  BY <1>1, <1>2, <1>3 DEF Next

\* However what arrives is cut into reads, recv is never given more room than
\* the buffer has, and the indices stay inside it (xop/BufferReader.cpp:23-44).
THEOREM BufferInvariant == Spec => []BufferInv
<1>1. Init => BufferInv
  BY BufferInitially
<1>2. BufferInv /\ [Next]_vars => BufferInv'
  BY BufferStep
<1>3. QED
  BY <1>1, <1>2, PTL DEF Spec

\* What InBuffer says of both indices is a part of that: nothing is read that was
\* not received, and retrieve never goes past the end (xop/BufferReader.h:46-70).
THEOREM IndicesInBuffer == Spec => []InBuffer
<1>1. BufferInv => InBuffer
  BY DEF BufferInv
<1>2. QED
  BY <1>1, BufferInvariant, PTL

-----------------------------------------------------------------------------
(* Requests and replies *)

Stream == unread \o wire

Shape(s) == Numbered(s, lacks) /\ Ordered(s)

\* The CSeq cs is that of the request ln, or ln has none and cs is one behind it.
Fits(ln, cs) == cs = ln \/ (<<ln, "CSeq">> \in lacks /\ ln < cs)

\* A parser in state st, with a request line ln and a CSeq cs, before s: the
\* CSeq of its request line is found or is the next one.
ParserAt(st, ln, cs, s) ==
  /\ reply.line <= sent /\ Above(s, reply.line) /\ UpTo(s, sent)
  /\ st = "kParseRequestLine" => cs = 0
  /\ st # "kParseRequestLine" =>
       /\ reply.line < ln /\ ln <= sent /\ Above(s, ln)
       /\ cs = 0 \/ Fits(ln, cs)
  /\ st = "kParseHeadersLine" /\ cs = 0 =>
       /\ HasNumber(s, 0, ln) \/ <<ln, "CSeq">> \in lacks
       /\ NumbersFrom(s, ln)
  /\ st = "kGotAll" => Fits(ln, cs)

ServerInv == state # "kGotAll" /\ Shape(Stream) /\ ParserAt(state, line, cseq, Stream)

RequestInv == connMode = "RTSP_SERVER" /\ closed = "no" => ServerInv

LEMMA AfterJoined ==
  ASSUME NEW s \in Texts, NEW w \in Texts, NEW i \in 0 .. Len(s)
  PROVE  After(s, i) \o w = After(s \o w, i)
<1> DEFINE a == After(s, i) \o w
           b == After(s \o w, i)
<1>1. Len(s) \in Nat /\ Len(w) \in Nat
  BY TextFacts
<1>2. /\ After(s, i) \in Texts /\ Len(After(s, i)) = Len(s) - i
      /\ \A j \in 1 .. Len(s) - i : After(s, i)[j] = s[i + j]
  BY AfterFacts
<1>3. /\ s \o w \in Texts /\ Len(s \o w) = Len(s) + Len(w)
      /\ \A j \in 1 .. Len(s) + Len(w) :
           (s \o w)[j] = IF j <= Len(s) THEN s[j] ELSE w[j - Len(s)]
  BY ConcatFacts
<1>4. /\ a \in Texts /\ Len(a) = (Len(s) - i) + Len(w)
      /\ \A j \in 1 .. (Len(s) - i) + Len(w) :
           a[j] = IF j <= Len(s) - i THEN After(s, i)[j] ELSE w[j - (Len(s) - i)]
  <2>1. /\ a \in Texts /\ Len(a) = Len(After(s, i)) + Len(w)
        /\ \A j \in 1 .. Len(After(s, i)) + Len(w) :
             a[j] = IF j <= Len(After(s, i)) THEN After(s, i)[j]
                    ELSE w[j - Len(After(s, i))]
    BY <1>2, ConcatFacts
  <2> HIDE DEF a
  <2>2. QED
    BY <1>2, <2>1
<1>5. /\ b \in Texts /\ Len(b) = Len(s) + Len(w) - i
      /\ \A j \in 1 .. Len(s) + Len(w) - i : b[j] = (s \o w)[i + j]
  <2> DEFINE t == s \o w
  <2>1. t \in Texts /\ Len(t) = Len(s) + Len(w) /\ i \in 0 .. Len(t)
    BY <1>1, <1>3
  <2>2. b = After(t, i)
    OBVIOUS
  <2> HIDE DEF t, b
  <2>3. /\ b \in Texts /\ Len(b) = Len(t) - i
        /\ \A j \in 1 .. Len(t) - i : b[j] = t[i + j]
    BY <2>1, <2>2, AfterFacts
  <2>4. QED
    BY <2>1, <2>3 DEF t
<1> HIDE DEF a, b
<1>6. \A j \in 1 .. Len(a) : a[j] = b[j]
  <2> TAKE j \in 1 .. Len(a)
  <2>1. i + j \in 1 .. Len(s) + Len(w) /\ j \in 1 .. (Len(s) - i) + Len(w)
        /\ j \in 1 .. Len(s) + Len(w) - i /\ i + j - Len(s) = j - (Len(s) - i)
        /\ (i + j <= Len(s) <=> j <= Len(s) - i)
    BY <1>1, <1>4
  <2>2. b[j] = IF i + j <= Len(s) THEN s[i + j] ELSE w[i + j - Len(s)]
    BY <1>3, <1>5, <2>1
  <2>3. a[j] = IF j <= Len(s) - i THEN s[i + j] ELSE w[j - (Len(s) - i)]
    <3>1. j <= Len(s) - i => j \in 1 .. Len(s) - i
      BY <1>1, <2>1
    <3>2. QED
      BY <1>2, <1>4, <2>1, <3>1
  <2>4. QED
    BY <2>1, <2>2, <2>3
<1>7. Len(a) = Len(b)
  BY <1>1, <1>4, <1>5
<1>8. a = b
  BY <1>4, <1>5, <1>6, <1>7, SeqEqual DEF Texts
<1>9. QED
  BY <1>8 DEF a, b

LEMMA JoinedFront ==
  ASSUME NEW s \in Texts, NEW w \in Texts
  PROVE  s \o w \in Texts /\ Len(s) <= Len(s \o w) /\ \A i \in 1 .. Len(s) : (s \o w)[i] = s[i]
<1>1. Len(s) \in Nat /\ Len(w) \in Nat
  BY TextFacts
<1>2. \A i \in 1 .. Len(s) : i \in 1 .. Len(s) + Len(w) /\ i <= Len(s)
  BY <1>1
<1>3. QED
  BY <1>1, <1>2, ConcatFacts

\* What is received and what is left in the socket are the stream there was.
LEMMA ReadJoined ==
  ASSUME NEW s \in Texts, NEW w \in Texts, NEW k \in 1 .. Len(w)
  PROVE  (s \o SubSeq(w, 1, k)) \o After(w, k) = s \o w
<1>1. Len(w) \in Nat /\ k \in 0 .. Len(w) /\ 1 \in 1 .. Len(w) + 1 /\ k \in 1 - 1 .. Len(w)
      /\ Len(w) \in k .. Len(w)
  BY TextFacts
<1>2. SubSeq(w, 1, k) \in Texts /\ After(w, k) \in Texts
  BY <1>1, FrontFacts, AfterFacts
<1>3. SubSeq(w, 1, k) \o SubSeq(w, k + 1, Len(w)) = SubSeq(w, 1, Len(w))
  BY <1>1, ConcatAdjacentSubSeq DEF Texts
<1>4. SubSeq(w, 1, k) \o After(w, k) = w
  BY <1>3, SubSeqFull DEF Texts, After
<1>5. (s \o SubSeq(w, 1, k)) \o After(w, k) = s \o (SubSeq(w, 1, k) \o After(w, k))
  <2> DEFINE a == SubSeq(w, 1, k)
             b == After(w, k)
  <2>1. s \in Seq(Tokens) /\ a \in Seq(Tokens) /\ b \in Seq(Tokens)
    BY <1>2 DEF Texts
  <2> HIDE DEF a, b
  <2>2. (s \o a) \o b = s \o (a \o b)
    BY <2>1, SMTT(60)
  <2>3. QED
    BY <2>2 DEF a, b
<1>6. QED
  BY <1>4, <1>5

\* From the stream before the parser's step to the one after it.
LEMMA ShapeKept ==
  ASSUME NEW s \in Texts, NEW i \in 0 .. Len(s), Shape(s)
  PROVE  Shape(After(s, i))
BY SuffixShape DEF Shape

LEMMA BoundsKept ==
  ASSUME NEW s \in Texts, NEW i \in 0 .. Len(s), NEW n \in Nat
  PROVE  /\ Above(s, n) => Above(After(s, i), n)
         /\ UpTo(s, n) => UpTo(After(s, i), n)
         /\ NumbersFrom(s, n) => NumbersFrom(After(s, i), n)
BY SuffixShape

LEMMA LineStep ==
  ASSUME Types, NEW p \in Parsers, NEW w \in Texts,
         p.state = "kParseRequestLine",
         Shape(p.unread \o w), ParserAt(p.state, p.line, p.cseq, p.unread \o w),
         NEW q, q = ParseRequestLine(p)
  PROVE  /\ q \in Parsers /\ q.state # "kGotAll"
         /\ Shape(q.unread \o w) /\ ParserAt(q.state, q.line, q.cseq, q.unread \o w)
<1> DEFINE s == p.unread \o w
           t == q.unread \o w
<1>1. p.unread \in Texts /\ Len(p.unread) \in Nat /\ q \in Parsers /\ q.cseq = p.cseq
  BY TextFacts, LineParsed DEF Parsers
<1>2. s \in Texts /\ Len(p.unread) <= Len(s) /\ \A i \in 1 .. Len(p.unread) : s[i] = p.unread[i]
  BY <1>1, JoinedFront
<1>3. \A i \in 0 .. Len(p.unread) : i \in 0 .. Len(s)
  BY <1>1, <1>2, TextFacts
<1>4. reply.line \in Nat /\ sent \in Nat
  BY DEF Types
<1>5. CASE q = p
  BY <1>1, <1>5
<1>6. ASSUME NEW i \in 1 .. Len(p.unread), q.unread = After(p.unread, i),
             q.state = p.state, q.line = p.line
      PROVE  q.state # "kGotAll" /\ Shape(t) /\ ParserAt(q.state, q.line, q.cseq, t)
  <2>1. i \in 0 .. Len(p.unread) /\ i \in 0 .. Len(s)
    BY <1>1, <1>3
  <2>2. t = After(s, i)
    BY <1>1, <1>6, <2>1, AfterJoined
  <2> HIDE DEF s, t
  <2>3. Shape(s) /\ ParserAt(p.state, p.line, p.cseq, s)
    BY DEF s
  <2>4. Shape(t)
    BY <1>2, <2>1, <2>2, <2>3, ShapeKept
  <2>5. Above(t, reply.line) /\ UpTo(t, sent)
    BY <1>2, <1>4, <2>1, <2>2, <2>3, BoundsKept DEF ParserAt
  <2>6. QED
    BY <1>1, <1>6, <2>3, <2>4, <2>5 DEF ParserAt
<1>7. ASSUME q.state = "kParseHeadersLine", 2 <= Len(p.unread), q.unread = After(p.unread, 2),
             p.unread[1].kind = "request", q.line = p.unread[1].of, p.unread[2].kind = "crlf"
      PROVE  q.state # "kGotAll" /\ Shape(t) /\ ParserAt(q.state, q.line, q.cseq, t)
  <2>1. 2 \in 0 .. Len(p.unread) /\ 2 \in 0 .. Len(s) /\ 1 \in 1 .. Len(p.unread)
        /\ 2 \in 1 .. Len(p.unread) /\ 2 <= Len(s) /\ 1 \in 1 .. Len(s)
    BY <1>1, <1>2, <1>3, <1>7, TextFacts
  <2>2. t = After(s, 2)
    BY <1>1, <1>7, <2>1, AfterJoined
  <2>3. s[1].kind = "request" /\ s[1].of = q.line /\ s[2].kind = "crlf"
    BY <1>2, <1>7, <2>1
  <2> HIDE DEF s, t
  <2>4. Shape(s) /\ ParserAt(p.state, p.line, p.cseq, s)
    BY DEF s
  <2>5. Shape(t)
    BY <1>2, <2>1, <2>2, <2>4, ShapeKept
  <2>6. Above(t, reply.line) /\ UpTo(t, sent)
    BY <1>2, <1>4, <2>1, <2>2, <2>4, BoundsKept DEF ParserAt
  <2>7. /\ HasNumber(t, 0, q.line) \/ <<q.line, "CSeq">> \in lacks
        /\ Above(t, q.line) /\ NumbersFrom(t, q.line)
    BY <1>2, <2>1, <2>2, <2>3, <2>4, NumberOfFirst DEF Shape
  <2>8. reply.line < q.line /\ q.line <= sent
    BY <2>1, <2>3, <2>4 DEF ParserAt, Above, UpTo
  <2>9. q.cseq = 0
    BY <1>1, <2>4 DEF ParserAt
  <2>10. QED
    BY <1>7, <2>4, <2>5, <2>6, <2>7, <2>8, <2>9 DEF ParserAt
<1>8. \/ q = p
      \/ /\ \E i \in 1 .. Len(p.unread) : q.unread = After(p.unread, i)
         /\ q.state = p.state /\ q.line = p.line
      \/ /\ q.state = "kParseHeadersLine"
         /\ 2 <= Len(p.unread) /\ q.unread = After(p.unread, 2)
         /\ p.unread[1].kind = "request" /\ q.line = p.unread[1].of
         /\ p.unread[2].kind = "crlf"
  BY LineParsed
<1>9. QED
  BY <1>1, <1>5, <1>6, <1>7, <1>8

LEMMA HeadersStep ==
  ASSUME Types, NEW p \in Parsers, NEW w \in Texts,
         p.state = "kParseHeadersLine",
         Shape(p.unread \o w), ParserAt(p.state, p.line, p.cseq, p.unread \o w),
         NEW q, q = ParseHeadersLine(p), q.ok
  PROVE  /\ q \in Parsers
         /\ Shape(q.unread \o w) /\ ParserAt(q.state, q.line, q.cseq, q.unread \o w)
         /\ q.state = "kParseHeadersLine" /\ q.cseq = 0 => Bare(q.unread)
<1> DEFINE s == p.unread \o w
           t == q.unread \o w
<1>1. p.unread \in Texts /\ Len(p.unread) \in Nat /\ q \in Parsers /\ q.line = p.line
      /\ p.line \in Nat
  BY TextFacts, HeadersParsed DEF Parsers
<1>2. s \in Texts /\ Len(p.unread) <= Len(s) /\ \A i \in 1 .. Len(p.unread) : s[i] = p.unread[i]
  BY <1>1, JoinedFront
<1>3. \A i \in 0 .. Len(p.unread) : i \in 0 .. Len(s)
  BY <1>1, <1>2, TextFacts
<1>4. reply.line \in Nat /\ sent \in Nat
  BY DEF Types
<1>5. CASE q = p /\ \A j \in 1 .. Len(p.unread) : p.unread[j].kind # "crlf"
  BY <1>1, <1>5 DEF Bare
<1>6. ASSUME NEW i \in 1 .. Len(p.unread), q.unread = After(p.unread, i),
             q.state \in {p.state, "kGotAll"},
             p.cseq # 0 => q.cseq = p.cseq,
             p.cseq = 0 =>
               \E j \in 1 .. i : /\ p.unread[j].kind = "CSeq" /\ q.cseq = p.unread[j].of
                                 /\ \A k \in 1 .. j - 1 : p.unread[k].kind # "CSeq"
      PROVE  /\ Shape(t) /\ ParserAt(q.state, q.line, q.cseq, t)
             /\ q.cseq # 0
  <2>1. i \in 0 .. Len(p.unread) /\ i \in 0 .. Len(s)
    BY <1>1, <1>3
  <2>2. t = After(s, i)
    BY <1>1, <1>6, <2>1, AfterJoined
  <2> HIDE DEF s, t
  <2>3. Shape(s) /\ ParserAt(p.state, p.line, p.cseq, s)
    BY DEF s
  <2>4. Shape(t)
    BY <1>2, <2>1, <2>2, <2>3, ShapeKept
  <2>5. Above(t, reply.line) /\ UpTo(t, sent) /\ Above(t, p.line)
    <3>1. Above(s, reply.line) /\ UpTo(s, sent) /\ Above(s, p.line)
      BY <2>3 DEF ParserAt
    <3>2. QED
      BY <1>1, <1>2, <1>4, <2>1, <2>2, <3>1, BoundsKept
  <2>6. Fits(p.line, q.cseq)
    <3>1. CASE p.cseq # 0
      BY <1>6, <2>3, <3>1 DEF ParserAt
    <3>2. CASE p.cseq = 0
      <4>1. PICK j \in 1 .. i : /\ p.unread[j].kind = "CSeq" /\ q.cseq = p.unread[j].of
                                /\ \A k \in 1 .. j - 1 : p.unread[k].kind # "CSeq"
        BY <1>6, <3>2
      <4>2. /\ j \in 1 .. Len(p.unread) /\ \A k \in 1 .. j - 1 : k \in 1 .. Len(p.unread)
            /\ j \in 1 .. Len(s)
        BY <1>1, <1>2, TextFacts
      <4>3. s[j].kind = "CSeq" /\ q.cseq = s[j].of /\ \A k \in 1 .. j - 1 : s[k].kind # "CSeq"
        BY <1>2, <4>1, <4>2
      <4>4. CASE HasNumber(s, 0, p.line)
        <5>1. PICK k \in 1 .. Len(s) - 1 :
                /\ s[k].kind = "CSeq" /\ s[k].of = p.line
                /\ \A l \in 1 .. k - 1 : s[l].kind = "CSeq" => s[l].of = p.line
          <6>1. 0 + 1 = 1
            OBVIOUS
          <6>2. QED
            BY <4>4, <6>1 DEF HasNumber, NumberAt
        <5>2. ~(k < j)
          BY <4>3, <5>1
        <5>3. CASE k = j
          BY <4>3, <5>1, <5>3 DEF Fits
        <5>4. CASE j < k
          <6>1. j \in 1 .. k - 1
            BY <1>1, <4>2, <5>4
          <6>2. QED
            BY <4>3, <5>1, <6>1 DEF Fits
        <5>5. QED
          BY <1>1, <4>2, <5>2, <5>3, <5>4
      <4>5. CASE <<p.line, "CSeq">> \in lacks
        <5>1. p.line <= q.cseq /\ q.cseq \in Nat
          BY <1>2, <2>3, <3>2, <4>2, <4>3, <1>6, TextFacts DEF ParserAt, NumbersFrom
        <5>2. QED
          BY <1>1, <4>5, <5>1 DEF Fits
      <4>6. QED
        BY <1>6, <2>3, <3>2, <4>4, <4>5 DEF ParserAt
    <3>3. QED
      BY <3>1, <3>2
  <2>7. reply.line < p.line /\ p.line <= sent /\ reply.line <= sent
    BY <2>3 DEF ParserAt
  <2>8. q.cseq # 0
    BY <1>1, <1>4, <2>6, <2>7 DEF Fits
  <2>9. QED
    BY <1>1, <1>6, <2>4, <2>5, <2>6, <2>7, <2>8 DEF ParserAt
<1>7. \/ q = p /\ \A j \in 1 .. Len(p.unread) : p.unread[j].kind # "crlf"
      \/ \E i \in 1 .. Len(p.unread) :
           /\ q.unread = After(p.unread, i)
           /\ q.state \in {p.state, "kGotAll"}
           /\ p.cseq # 0 => q.cseq = p.cseq
           /\ p.cseq = 0 =>
                \E j \in 1 .. i :
                  /\ p.unread[j].kind = "CSeq" /\ q.cseq = p.unread[j].of
                  /\ \A k \in 1 .. j - 1 : p.unread[k].kind # "CSeq"
  BY HeadersParsed
<1>8. QED
  BY <1>1, <1>5, <1>6, <1>7

LEMMA ParseStep ==
  ASSUME Types, NEW p \in Parsers, NEW w \in Texts,
         p.state # "kGotAll",
         Shape(p.unread \o w), ParserAt(p.state, p.line, p.cseq, p.unread \o w),
         NEW q, q = ParseRequest(p), q.ok
  PROVE  /\ q \in Parsers
         /\ Shape(q.unread \o w) /\ ParserAt(q.state, q.line, q.cseq, q.unread \o w)
         /\ q.state = "kParseHeadersLine" /\ q.cseq = 0 => Bare(q.unread)
<1> DEFINE m == IF p.state = "kParseRequestLine" THEN ParseRequestLine(p) ELSE p
<1>1. q = IF m.state = "kParseHeadersLine" THEN ParseHeadersLine(m) ELSE m
  BY DEF ParseRequest
<1>2. /\ m \in Parsers /\ m.state # "kGotAll"
      /\ Shape(m.unread \o w) /\ ParserAt(m.state, m.line, m.cseq, m.unread \o w)
  <2>1. CASE p.state = "kParseRequestLine"
    <3>1. m = ParseRequestLine(p)
      BY <2>1
    <3> HIDE DEF m
    <3>2. QED
      BY <2>1, <3>1, LineStep
  <2>2. CASE p.state # "kParseRequestLine"
    BY <2>2
  <2>3. QED
    BY <2>1, <2>2
<1> HIDE DEF m
<1>3. CASE m.state = "kParseHeadersLine"
  <2>1. q = ParseHeadersLine(m)
    BY <1>1, <1>3
  <2>2. QED
    BY <1>2, <1>3, <2>1, HeadersStep
<1>4. CASE m.state # "kParseHeadersLine"
  BY <1>1, <1>2, <1>4
<1>5. QED
  BY <1>3, <1>4

\* A read that leaves the connection open keeps the parser in step with the
\* stream, and a reply is to the request whose line and CSeq it has.
LEMMA ServerReads ==
  ASSUME BufferInv, ServerInv, HandleRead
  PROVE  /\ closed' = "no" => ServerInv'
         /\ reply' # reply => reply'.line > reply.line /\ Fits(reply'.line, reply'.cseq)
<1>1. PICK k \in 1 .. Len(wire) :
        /\ ReadFd(k, {"request", "badurl", "rtcp", "end"})
        /\ LET p == ParseRequest(Parser(Received(k)))
           IN  BadRequest(p) \/ PartOfRequest(p, Received(k)) \/ WholeRequest(p)
  BY DEF HandleRead
<1> DEFINE p0 == Parser(Received(k))
           p == ParseRequest(p0)
           w == After(wire, k)
           s == p.unread \o w
<1>2. /\ Received(k) \in Texts /\ wire' = w /\ w \in Texts
  BY <1>1, ReadFacts
<1>3. /\ p0 \in Parsers /\ p0.unread = Received(k) /\ p0.state = state /\ p0.line = line
      /\ p0.cseq = cseq
  BY <1>2 DEF Parser, Parsers, BufferInv, Types
<1>4. p0.unread \o w = Stream
  BY <1>3, ReadJoined DEF Received, Stream, BufferInv, Types
<1>5. p \in Parsers
  BY <1>3, Parsing
<1>6. BadRequest(p) \/ PartOfRequest(p, Received(k)) \/ WholeRequest(p)
  BY <1>1
<1>7. ASSUME p.ok
      PROVE  /\ Shape(s) /\ ParserAt(p.state, p.line, p.cseq, s)
             /\ p.state = "kParseHeadersLine" /\ p.cseq = 0 => Bare(p.unread)
  <2>1. p0.state # "kGotAll" /\ Shape(p0.unread \o w)
        /\ ParserAt(p0.state, p0.line, p0.cseq, p0.unread \o w)
    BY <1>3, <1>4 DEF ServerInv
  <2>2. p = ParseRequest(p0) /\ Types
    BY DEF BufferInv
  <2> HIDE DEF p0, p, w
  <2>3. QED
    BY <1>2, <1>3, <1>7, <2>1, <2>2, ParseStep
<1> HIDE DEF p0, p
<1>8. p.unread \in Texts /\ p.line \in Nat /\ Len(p.unread) \in Nat /\ Len(p.unread) \in 0 .. Len(p.unread)
  BY <1>5, TextFacts DEF Parsers
<1> HIDE DEF w
<1>9. /\ s \in Texts /\ Len(p.unread) \in 0 .. Len(s)
      /\ \A i \in 1 .. Len(p.unread) : s[i] = p.unread[i]
  <2>1. /\ s \in Texts /\ Len(p.unread) <= Len(s)
        /\ \A i \in 1 .. Len(p.unread) : s[i] = p.unread[i]
    BY <1>2, <1>8, JoinedFront
  <2> HIDE DEF s
  <2>2. Len(s) \in Nat
    BY <2>1, TextFacts
  <2>3. QED
    BY <1>8, <2>1, <2>2
\* Dropping what is left, too, leaves the end of the stream.
<1>10. w = After(s, Len(p.unread)) /\ <<>> \o w = w
  <2>2. After(p.unread, Len(p.unread)) = <<>>
    BY <1>8, AfterAll
  <2>3. After(p.unread, Len(p.unread)) \o w = After(s, Len(p.unread))
    BY <1>2, <1>8, AfterJoined
  <2>4. <<>> \o w = w
    BY <1>2, ConcatEmptySeq DEF Texts
  <2>5. QED
    BY <2>2, <2>3, <2>4
<1>11. lacks' = lacks /\ sent' = sent /\ sent \in Nat /\ reply.line \in Nat
       /\ reply.cseq \in Nat
  BY DEF HandleRead, clientVars, BufferInv, Types
<1>13. CASE BadRequest(p)
  BY <1>13 DEF BadRequest, Close
<1>14. CASE PartOfRequest(p, Received(k))
  <2>1. /\ p.ok /\ p.state # "kGotAll" /\ reply' = reply
        /\ state' = p.state /\ line' = p.line /\ cseq' = p.cseq
    BY <1>14 DEF PartOfRequest
  <2>2. unread' = IF Len(p.unread) > MaxMessage THEN <<>> ELSE p.unread
    BY <1>14 DEF PartOfRequest, Kept, Retrieved
  <2>3. Stream' = IF Len(p.unread) > MaxMessage THEN w ELSE s
    BY <1>2, <1>10, <2>2 DEF Stream
  <2>4. /\ Shape(s) /\ ParserAt(p.state, p.line, p.cseq, s)
        /\ p.state = "kParseHeadersLine" /\ p.cseq = 0 => Bare(p.unread)
    BY <1>7, <2>1
  <2>5. PICK i \in 0 .. Len(s) :
          /\ Stream' = After(s, i)
          /\ i = 0 \/ Len(p.unread) > MaxMessage
    <3>1. CASE Len(p.unread) > MaxMessage
      BY <1>9, <1>10, <2>3, <3>1
    <3>2. CASE ~(Len(p.unread) > MaxMessage)
      <4>1. After(s, 0) = s /\ 0 \in 0 .. Len(s)
        <5>1. Len(s) \in Nat /\ 0 + 1 = 1
          BY <1>9, TextFacts
        <5>2. SubSeq(s, 1, Len(s)) = s
          BY <1>9, SubSeqFull DEF Texts
        <5>3. QED
          BY <5>1, <5>2 DEF After
      <4>2. QED
        BY <2>3, <3>2, <4>1
    <3>3. QED
      BY <3>1, <3>2
  \* A CSeq that is still to come has no two tokens without CRLF before it, and
  \* less than that is not dropped.
  <2>6. p.state = "kParseHeadersLine" /\ p.cseq = 0 /\ HasNumber(s, 0, p.line) =>
          ~(Len(p.unread) > MaxMessage)
    <3> SUFFICES ASSUME p.state = "kParseHeadersLine", p.cseq = 0, HasNumber(s, 0, p.line),
                        Len(p.unread) > MaxMessage
                 PROVE  FALSE
      OBVIOUS
    <3>1. 1 \in 1 .. Len(p.unread) /\ 2 \in 1 .. Len(p.unread)
      BY <1>8, Constants
    <3>2. s[1].kind # "crlf" /\ s[2].kind # "crlf"
      BY <1>9, <2>4, <3>1 DEF Bare
    <3>3. s[1].kind = "crlf" \/ s[2].kind = "crlf"
      <4> HIDE DEF s
      <4>1. PICK q \in 0 + 1 .. Len(s) - 1 : NumberAt(s, 0, q, p.line)
        BY DEF HasNumber
      <4>2. 1 \in 0 + 1 .. q /\ 1 + 1 = 2
        OBVIOUS
      <4>3. QED
        BY <4>1, <4>2 DEF NumberAt
    <3>4. QED
      BY <3>2, <3>3
  <2> HIDE DEF s
  <2>7. Shape(After(s, i))
    BY <1>9, <2>4, ShapeKept
  <2>8. Above(After(s, i), reply.line) /\ UpTo(After(s, i), sent)
    BY <1>9, <1>11, <2>4, BoundsKept DEF ParserAt
  <2>9. p.state # "kParseRequestLine" => Above(After(s, i), p.line)
    BY <1>8, <1>9, <2>4, BoundsKept DEF ParserAt
  <2>10. p.state = "kParseHeadersLine" /\ p.cseq = 0 =>
           /\ HasNumber(Stream', 0, p.line) \/ <<p.line, "CSeq">> \in lacks
           /\ NumbersFrom(Stream', p.line)
    <3> SUFFICES ASSUME p.state = "kParseHeadersLine", p.cseq = 0
                 PROVE  /\ HasNumber(Stream', 0, p.line) \/ <<p.line, "CSeq">> \in lacks
                        /\ NumbersFrom(Stream', p.line)
      OBVIOUS
    <3>1. NumbersFrom(s, p.line) /\ (HasNumber(s, 0, p.line) \/ <<p.line, "CSeq">> \in lacks)
      BY <2>4 DEF ParserAt
    <3>2. NumbersFrom(Stream', p.line)
      BY <1>8, <1>9, <2>5, <3>1, BoundsKept
    <3>3. HasNumber(s, 0, p.line) => HasNumber(Stream', 0, p.line)
      BY <2>3, <2>6
    <3>4. QED
      BY <3>1, <3>2, <3>3
  <2>11. ParserAt(state, line, cseq, Stream)'
    BY <1>11, <2>1, <2>4, <2>5, <2>8, <2>9, <2>10 DEF ParserAt, Fits
  <2>12. Shape(Stream)'
    BY <1>11, <2>5, <2>7 DEF Shape
  <2>13. QED
    BY <2>1, <2>11, <2>12 DEF ServerInv
<1>15. CASE WholeRequest(p)
  <2>1. /\ p.ok /\ p.state = "kGotAll"
        /\ reply' = [line |-> p.line, cseq |-> p.cseq]
        /\ state' = "kParseRequestLine" /\ cseq' = 0
    BY <1>15 DEF WholeRequest, Reset
  <2>2. unread' = <<>>
    BY <1>15 DEF WholeRequest, Retrieved
  <2>3. Shape(s) /\ ParserAt(p.state, p.line, p.cseq, s)
    BY <1>7, <2>1
  <2>4. Stream' = w
    BY <1>2, <1>10, <2>2 DEF Stream
  <2>5. reply'.line = p.line /\ reply'.cseq = p.cseq
    BY <2>1
  <2>6. reply.line < p.line /\ p.line <= sent /\ Fits(p.line, p.cseq) /\ Above(s, p.line)
        /\ UpTo(s, sent)
    BY <2>1, <2>3 DEF ParserAt
  <2>7. w = After(s, Len(p.unread))
    BY <1>10
  <2> HIDE DEF s
  <2>8. Above(w, p.line) /\ UpTo(w, sent)
    BY <1>8, <1>9, <1>11, <2>6, <2>7, BoundsKept
  <2>9. Shape(w)
    BY <1>9, <2>3, <2>7, ShapeKept
  <2>10. ParserAt(state, line, cseq, Stream)'
    BY <1>11, <2>1, <2>4, <2>5, <2>6, <2>8 DEF ParserAt
  <2>11. Shape(Stream)'
    BY <1>11, <2>4, <2>9 DEF Shape
  <2>12. ServerInv'
    BY <2>1, <2>10, <2>11 DEF ServerInv
  <2>13. QED
    BY <2>5, <2>6, <2>12
<1>16. QED
  BY <1>6, <1>13, <1>14, <1>15

\* What a client writes goes behind all that is still to be read.
LEMMA ServerWritten ==
  ASSUME BufferInv, ServerInv, NEW r, wire' = wire \o r,
         UNCHANGED <<unread, reply, state, line, cseq>>, lacks \subseteq lacks',
         \/ WholeOf(r, sent + 1, lacks') /\ sent' = sent + 1
         \/ Packet(r) /\ sent' = sent
  PROVE  ServerInv'
<1>1. unread \in Texts /\ wire \in Texts /\ r \in Texts /\ Stream \in Texts
      /\ sent \in Nat /\ reply.line \in Nat /\ line \in Nat
  BY Joined DEF BufferInv, Types, WholeOf, Packet, Stream
<1>2. Stream' = Stream \o r
  <2>1. unread \in Seq(Tokens) /\ wire \in Seq(Tokens) /\ r \in Seq(Tokens)
    BY <1>1 DEF Texts
  <2>2. (unread \o wire) \o r = unread \o (wire \o r)
    BY <2>1, SMTT(60)
  <2>3. QED
    BY <2>2 DEF Stream
<1> DEFINE s == Stream
           t == s \o r
<1>3. Shape(s) /\ ParserAt(state, line, cseq, s) /\ state # "kGotAll"
  BY DEF ServerInv
<1>4. s \in Texts /\ Stream' = t
  BY <1>1, <1>2
<1>5. WholeOf(r, sent + 1, lacks') \/ Packet(r)
  OBVIOUS
<1>6. WholeOf(r, sent + 1, lacks') => ~Packet(r)
  BY DEF WholeOf, Packet
<1> HIDE DEF s
<1>7. Numbered(s, lacks') /\ Ordered(s) /\ UpTo(s, sent)
  BY <1>3 DEF Shape, ParserAt, Numbered
<1>8. /\ Numbered(t, lacks') /\ Ordered(t)
      /\ \A m \in 0 .. sent : Above(s, m) => Above(t, m)
      /\ \A m \in 0 .. sent : NumbersFrom(s, m) => NumbersFrom(t, m)
      /\ IF Packet(r) THEN UpTo(t, sent) ELSE UpTo(t, sent + 1)
      /\ \A i \in 0 .. Len(s), m \in Nat : HasNumber(s, i, m) => HasNumber(t, i, m)
  BY <1>1, <1>4, <1>5, <1>7, ExtendedShape
<1> HIDE DEF t
<1>9. Shape(Stream)'
  BY <1>4, <1>8 DEF Shape
<1>10. UpTo(t, sent') /\ sent <= sent' /\ sent' \in Nat
  BY <1>1, <1>6, <1>8
<1>11. Above(t, reply.line) /\ (state # "kParseRequestLine" => Above(t, line))
  <2>1. reply.line \in 0 .. sent /\ Above(s, reply.line)
    BY <1>1, <1>3 DEF ParserAt
  <2>2. state # "kParseRequestLine" => line \in 0 .. sent /\ Above(s, line)
    BY <1>1, <1>3 DEF ParserAt
  <2>3. QED
    BY <1>8, <2>1, <2>2
<1>12. state = "kParseHeadersLine" /\ cseq = 0 =>
         /\ HasNumber(t, 0, line) \/ <<line, "CSeq">> \in lacks'
         /\ NumbersFrom(t, line)
  <2> SUFFICES ASSUME state = "kParseHeadersLine", cseq = 0
               PROVE  /\ HasNumber(t, 0, line) \/ <<line, "CSeq">> \in lacks'
                      /\ NumbersFrom(t, line)
    OBVIOUS
  <2>1. 0 \in 0 .. Len(s) /\ line \in 0 .. sent
    BY <1>1, <1>3, <1>4, TextFacts DEF ParserAt
  <2>2. NumbersFrom(s, line) /\ (HasNumber(s, 0, line) \/ <<line, "CSeq">> \in lacks)
    BY <1>3 DEF ParserAt
  <2>3. QED
    BY <1>1, <1>8, <2>1, <2>2
<1>13. ParserAt(state, line, cseq, Stream)'
  BY <1>1, <1>3, <1>4, <1>10, <1>11, <1>12 DEF ParserAt, Fits
<1>14. QED
  BY <1>3, <1>9, <1>13 DEF ServerInv

LEMMA ServerInitially == Init => RequestInv
<1> SUFFICES ASSUME Init
             PROVE  RequestInv
  OBVIOUS
<1>1. Stream = <<>> /\ <<>> \in Texts /\ Len(<<>>) = 0
  BY ConcatEmptySeq DEF Init, RequestInit, BufferInit, Stream, Texts
<1>2. sent = 0 /\ reply.line = 0 /\ cseq = 0 /\ state = "kParseRequestLine"
  BY DEF Init, RequestInit
<1>3. Shape(Stream)
  BY <1>1 DEF Shape, Numbered, Ordered
<1>4. ParserAt(state, line, cseq, Stream)
  BY <1>1, <1>2 DEF ParserAt, Above, UpTo
<1>5. QED
  BY <1>2, <1>3, <1>4 DEF RequestInv, ServerInv

LEMMA ServerStep ==
  ASSUME BufferInv, RequestInv, [Next]_vars
  PROVE  /\ RequestInv'
         /\ reply' # reply => reply'.line > reply.line /\ Fits(reply'.line, reply'.cseq)
<1>1. CASE ServerSide
  <2>1. connMode = "RTSP_SERVER" /\ connMode' = connMode /\ (closed = "no" => ServerInv)
    BY <1>1 DEF RequestInv, ServerSide
  <2>2. CASE HandleRead
    <3>1. ServerInv
      BY <2>1, <2>2 DEF HandleRead
    <3>2. QED
      BY <2>1, <2>2, <3>1, ServerReads DEF RequestInv
  <2>3. CASE HandleReadFails
    BY <2>3 DEF HandleReadFails, ReadFails, Close, RequestInv
  <2>4. ASSUME NEW m \in Methods, SendRequest(m)
        PROVE  RequestInv' /\ reply' = reply
    <3>1. PICK lack, h :
            /\ h \in HeaderOrders(m, lack)
            /\ lacks' = lacks \cup ({sent + 1} \X lack)
            /\ wire' = wire \o Request(sent + 1, m, lack, h)
      BY <2>4 DEF SendRequest
    <3>2. sent + 1 \in Nat
      BY DEF BufferInv, Types
    <3>3. WholeOf(Request(sent + 1, m, lack, h), sent + 1, lacks')
      BY <3>1, <3>2, RequestShape
    <3>4. /\ sent' = sent + 1 /\ closed = "no"
          /\ UNCHANGED <<unread, reply, state, line, cseq>>
      BY <2>4 DEF SendRequest, Connected, parserVars, bufferVars
    <3>5. ServerInv'
      BY <2>1, <3>1, <3>3, <3>4, ServerWritten
    <3>6. QED
      BY <3>4, <3>5 DEF RequestInv
  <2>5. CASE SendRtcp
    <3>1. wire' = wire \o <<Rtcp>> /\ Packet(<<Rtcp>>)
      <4>1. wire' = Append(wire, Rtcp) /\ Rtcp \in Tokens /\ Rtcp.kind = "rtcp"
        BY <2>5, Written DEF SendRtcp, Rtcp, Text
      <4>2. QED
        BY <4>1, AppendedFacts DEF Packet, BufferInv, Types, Texts
    <3>2. /\ sent' = sent /\ closed = "no" /\ lacks' = lacks
          /\ UNCHANGED <<unread, reply, state, line, cseq>>
      BY <2>5 DEF SendRtcp, Connected, parserVars, bufferVars
    <3>3. ServerInv'
      BY <2>1, <3>1, <3>2, ServerWritten
    <3>4. QED
      BY <3>2, <3>3 DEF RequestInv
  <2>6. CASE ClientHangup
    <3>1. wire' = wire \o <<End>> /\ Packet(<<End>>)
      <4>1. wire' = Append(wire, End) /\ End \in Tokens /\ End.kind = "end"
        BY <2>6, Written DEF ClientHangup, Hangup, End, Text
      <4>2. QED
        BY <4>1, AppendedFacts DEF Packet, BufferInv, Types, Texts
    <3>2. /\ sent' = sent /\ closed = "no" /\ lacks' = lacks
          /\ UNCHANGED <<unread, reply, state, line, cseq>>
      BY <2>6 DEF ClientHangup, Hangup, Connected, parserVars, bufferVars, clientVars
    <3>3. ServerInv'
      BY <2>1, <3>1, <3>2, ServerWritten
    <3>4. QED
      BY <3>2, <3>3 DEF RequestInv
  <2>7. reply' = reply \/ HandleRead
    BY <1>1, <2>4 DEF ServerSide, RequestNext, HandleReadFails, SendRtcp, ClientHangup
  <2>8. QED
    BY <1>1, <2>1, <2>2, <2>3, <2>4, <2>5, <2>6, <2>7, ServerReads
    DEF ServerSide, RequestNext, HandleRead
<1>2. CASE ClientSide
  BY <1>2 DEF ClientSide, RequestInv, clientVars
<1>3. CASE UNCHANGED vars
  <2>1. UNCHANGED <<wire, unread, closed, state, line, cseq, sent, lacks, reply, connMode>>
    BY <1>3 DEF vars, streamVars, bufferVars, parserVars, clientVars
  <2>2. Stream' = Stream
    BY <2>1 DEF Stream
  <2>3. ServerInv => ServerInv'
    BY <2>1, <2>2 DEF ServerInv, Shape, ParserAt, Fits
  <2>4. QED
    BY <2>1, <2>3 DEF RequestInv
<1>4. QED
  BY <1>1, <1>2, <1>3 DEF Next

\* However requests are cut, run together or mixed with RTCP, every reply answers
\* one of them with its CSeq, once and in order, and what handleRead drops for
\* RTCP (RtspConnection.cpp:85-88) never makes it the CSeq of another request;
\* only one without CSeq can get that of a request behind it.
THEOREM RepliesMatch == Spec => OwnReply
<1>1. Init => RequestInv
  BY ServerInitially
<1>2. BufferInv /\ RequestInv /\ [Next]_vars => RequestInv'
  BY ServerStep
<1>3. BufferInv /\ RequestInv /\ [Next]_vars =>
        [reply' # reply =>
           /\ reply'.line > reply.line
           /\ \/ reply'.cseq = reply'.line
              \/ <<reply'.line, "CSeq">> \in lacks /\ reply'.cseq > reply'.line]_requestVars
  <2> SUFFICES ASSUME BufferInv, RequestInv, [Next]_vars, reply' # reply
               PROVE  /\ reply'.line > reply.line
                      /\ \/ reply'.cseq = reply'.line
                         \/ <<reply'.line, "CSeq">> \in lacks /\ reply'.cseq > reply'.line
    OBVIOUS
  <2>1. reply'.line > reply.line /\ Fits(reply'.line, reply'.cseq)
    BY ServerStep
  <2>2. BufferInv'
    BY BufferStep
  <2>3. QED
    BY <2>1, <2>2 DEF Fits, BufferInv, Types
<1>4. QED
  BY <1>1, <1>2, <1>3, BufferInvariant, PTL DEF Spec, OwnReply

-----------------------------------------------------------------------------
(* The handshake of the pusher *)

Asked == {"OPTIONS", "ANNOUNCE", "SETUP", "RECORD"}
Requests == [method : Asked, cseq : Int]

\* How many requests have been sent when the last one was of this method.
Stage ==
  /\ setups \in Nat /\ setups <= Tracks
  /\ rmethod \in {"none", "OPTIONS", "ANNOUNCE", "SETUP", "RECORD"}
  /\ opening # "yes" => rmethod = "none"
  /\ rmethod \in {"none", "OPTIONS", "ANNOUNCE"} => setups = 0
  /\ rmethod = "none" => Len(requests) = 0
  /\ rmethod = "OPTIONS" => Len(requests) = 1
  /\ rmethod = "ANNOUNCE" => Len(requests) = 2
  /\ rmethod = "SETUP" /\ closed = "no" => Len(requests) = setups + 2
  /\ rmethod = "RECORD" => Len(requests) = Tracks + 3
PlayLast == playing => rmethod = "RECORD"

PushInv == requests \in Seq(Requests) /\ rcseq \in Int /\ Stage /\ PlayLast /\ InOrder

LEMMA HandshakeFacts ==
  /\ Tracks \in Nat /\ Len(Handshake) = Tracks + 3
  /\ Handshake[1] = "OPTIONS" /\ Handshake[2] = "ANNOUNCE" /\ Handshake[Tracks + 3] = "RECORD"
  /\ \A i \in 1 .. Tracks : Handshake[2 + i] = "SETUP"
<1> DEFINE start == <<"OPTIONS", "ANNOUNCE">>
           tracks == [i \in 1 .. Tracks |-> "SETUP"]
           front == start \o tracks
<1>1. Tracks \in Nat
  BY PusherAssumption
<1>2. start \in Seq(Asked) /\ Len(start) = 2 /\ start[1] = "OPTIONS" /\ start[2] = "ANNOUNCE"
  BY DEF Asked
<1>3. tracks \in Seq(Asked) /\ Len(tracks) = Tracks /\ \A i \in 1 .. Tracks : tracks[i] = "SETUP"
  BY <1>1 DEF Asked
<1>4. Handshake = front \o <<"RECORD">>
  BY DEF Handshake
<1> HIDE DEF start, tracks
<1>5. /\ front \in Seq(Asked) /\ Len(front) = 2 + Tracks
      /\ \A i \in 1 .. 2 + Tracks : front[i] = IF i <= 2 THEN start[i] ELSE tracks[i - 2]
  <2>1. /\ front \in Seq(Asked) /\ Len(front) = Len(start) + Len(tracks)
        /\ \A i \in 1 .. Len(start) + Len(tracks) :
             front[i] = IF i <= Len(start) THEN start[i] ELSE tracks[i - Len(start)]
    <3> DEFINE t == tracks
               u == start
    <3>1. u \in Seq(Asked) /\ t \in Seq(Asked) /\ front = u \o t
      BY <1>2, <1>3
    <3> HIDE DEF t, u, front
    <3>2. /\ front \in Seq(Asked) /\ Len(front) = Len(u) + Len(t)
          /\ \A i \in 1 .. Len(u) + Len(t) :
               front[i] = IF i <= Len(u) THEN u[i] ELSE t[i - Len(u)]
      BY <3>1, ConcatProperties
    <3>3. QED
      BY <3>2 DEF t, u
  <2> HIDE DEF front
  <2>2. Len(start) = 2 /\ Len(tracks) = Tracks
    BY <1>2, <1>3
  <2>3. QED
    BY <2>1, <2>2
<1> HIDE DEF front
<1>6. /\ Len(Handshake) = Len(front) + 1
      /\ \A i \in 1 .. Len(front) : Handshake[i] = front[i]
      /\ Handshake[Len(front) + 1] = "RECORD"
  <2>1. "RECORD" \in Asked
    BY DEF Asked
  <2>2. Handshake = Append(front, "RECORD")
    BY <1>4, <1>5, <2>1, AppendIsConcat
  <2>3. QED
    BY <1>5, <2>1, <2>2, AppendProperties
<1>7. Handshake[1] = "OPTIONS" /\ Handshake[2] = "ANNOUNCE"
  BY <1>1, <1>2, <1>5, <1>6
<1>8. Len(Handshake) = Tracks + 3 /\ Handshake[Tracks + 3] = "RECORD"
  <2>1. Len(front) + 1 = Tracks + 3
    BY <1>1, <1>5
  <2>2. QED
    BY <1>6, <2>1
<1>9. \A i \in 1 .. Tracks : Handshake[2 + i] = "SETUP"
  <2> TAKE i \in 1 .. Tracks
  <2>1. 2 + i \in 1 .. 2 + Tracks /\ ~(2 + i <= 2) /\ 2 + i - 2 = i
    BY <1>1
  <2>2. QED
    BY <1>3, <1>5, <1>6, <2>1
<1>10. QED
  BY <1>1, <1>7, <1>8, <1>9

\* The next request is the one that comes next in the handshake.
LEMMA SendNext ==
  ASSUME requests \in Seq(Requests), InOrder, rcseq' \in Int,
         NEW m \in Asked, Send(m),
         Len(requests) < Tracks + 3, Handshake[Len(requests) + 1] = m,
         playing' = playing, ~playing
  PROVE  /\ requests' \in Seq(Requests) /\ Len(requests') = Len(requests) + 1
         /\ rmethod' = m /\ InOrder'
<1> DEFINE e == [method |-> m, cseq |-> rcseq' + 1]
<1>1. requests' = Append(requests, e) /\ rmethod' = m
  BY DEF Send
<1>2. e \in Requests /\ e.method = m
  BY DEF Requests
<1> HIDE DEF e
<1>3. /\ requests' \in Seq(Requests) /\ Len(requests') = Len(requests) + 1
      /\ \A i \in 1 .. Len(requests) : requests'[i] = requests[i]
      /\ requests'[Len(requests) + 1] = e
  BY <1>1, <1>2, AppendProperties
<1>4. /\ Len(requests) \in Nat /\ DOMAIN requests = 1 .. Len(requests)
      /\ DOMAIN requests' = 1 .. Len(requests) + 1
  BY <1>3, LenProperties
<1>5. \A i \in 1 .. Len(requests) + 1 : requests'[i].method = Handshake[i]
  BY <1>2, <1>3, <1>4 DEF InOrder
<1>6. Len(requests) + 1 <= Len(Handshake)
  BY <1>4, HandshakeFacts
<1>7. Handshake' = Handshake
  BY DEF Handshake
<1>8. QED
  BY <1>1, <1>3, <1>4, <1>5, <1>6, <1>7 DEF InOrder

LEMMA PushInitially == Init => PushInv
<1> SUFFICES ASSUME Init
             PROVE  PushInv
  OBVIOUS
<1>1. /\ requests = <<>> /\ rcseq = 0 /\ setups = 0 /\ rmethod = "none" /\ opening = "no"
      /\ ~playing
  BY DEF Init, PusherInit
<1>2. requests \in Seq(Requests) /\ Len(requests) = 0 /\ DOMAIN requests = {}
  BY <1>1
<1>3. QED
  BY <1>1, <1>2, HandshakeFacts DEF PushInv, Stage, PlayLast, InOrder

\* What sends no request.
LEMMA PushIdle ==
  ASSUME PushInv, opening' # "yes" \/ opening = "yes", opening # "yes" \/ opening' = "yes",
         closed' = "no" => closed = "no", rcseq' \in Int,
         UNCHANGED <<rmethod, setups, playing, requests>>
  PROVE  PushInv'
<1>1. InOrder'
  BY DEF PushInv, InOrder, Handshake
<1>2. QED
  BY <1>1 DEF PushInv, Stage, PlayLast

LEMMA BeforeNext ==
  ASSUME Stage, closed = "no"
  PROVE  /\ setups \in Nat /\ setups <= Tracks
         /\ rmethod = "OPTIONS" => Len(requests) = 1 /\ setups = 0
         /\ rmethod \in {"ANNOUNCE", "SETUP"} => Len(requests) = setups + 2
         /\ rmethod = "RECORD" => Len(requests) = Tracks + 3
         /\ rmethod # "none" => opening = "yes"
<1>1. setups \in Nat /\ setups <= Tracks
  BY DEF Stage
<1>2. rmethod = "ANNOUNCE" => Len(requests) = setups + 2
  BY DEF Stage
<1>3. rmethod = "SETUP" => Len(requests) = setups + 2
  BY DEF Stage
<1>4. QED
  BY <1>1, <1>2, <1>3 DEF Stage

LEMMA AfterNext ==
  ASSUME setups' \in Nat, setups' <= Tracks, opening' = "yes",
         \/ rmethod' = "OPTIONS" /\ setups' = 0 /\ Len(requests') = 1
         \/ rmethod' = "ANNOUNCE" /\ setups' = 0 /\ Len(requests') = 2
         \/ rmethod' = "SETUP" /\ (closed' = "no" => Len(requests') = setups' + 2)
         \/ rmethod' = "RECORD" /\ Len(requests') = Tracks + 3
  PROVE  Stage'
BY DEF Stage

LEMMA PushNext ==
  ASSUME PushInv, closed = "no", NextRequest, rcseq' \in Int, opening' = opening
  PROVE  PushInv'
<1>1. Len(requests) \in Nat /\ requests \in Seq(Requests) /\ InOrder
  BY LenProperties DEF PushInv
<1>2. /\ setups \in Nat /\ setups <= Tracks /\ Tracks \in Nat
      /\ rmethod = "OPTIONS" => Len(requests) = 1 /\ setups = 0
      /\ rmethod \in {"ANNOUNCE", "SETUP"} => Len(requests) = setups + 2
      /\ rmethod = "RECORD" => Len(requests) = Tracks + 3
      /\ rmethod # "none" => opening = "yes"
  BY BeforeNext, HandshakeFacts DEF PushInv
<1>3. rmethod # "RECORD" => ~playing
  BY Zenon DEF PushInv, PlayLast
<1>4. CASE rmethod = "OPTIONS" /\ SendAnnounce
  <2>1. playing' = playing /\ ~playing /\ setups' = setups /\ opening' = "yes"
    BY <1>2, <1>3, <1>4, Zenon DEF SendAnnounce
  <2>2. CASE Send("ANNOUNCE")
    <3>1. Len(requests) < Tracks + 3 /\ Handshake[Len(requests) + 1] = "ANNOUNCE"
      <4>1. Len(requests) = 1
        BY <1>2, <1>4
      <4>2. Len(requests) + 1 = 2 /\ Len(requests) < Tracks + 3
        BY <1>2, <4>1
      <4>3. QED
        BY <4>2, HandshakeFacts
    <3>2. requests' \in Seq(Requests) /\ Len(requests') = Len(requests) + 1
          /\ rmethod' = "ANNOUNCE" /\ InOrder'
      BY <1>1, <2>1, <2>2, <3>1, SendNext DEF Asked
    <3>3. Stage'
      <4>1. Len(requests') = 2 /\ setups' = 0 /\ setups' \in Nat /\ setups' <= Tracks
        <5>1. Len(requests) = 1 /\ setups = 0
          BY <1>2, <1>4
        <5>2. QED
          BY <1>2, <2>1, <3>2, <5>1
      <4>2. QED
        BY <2>1, <3>2, <4>1, AfterNext
    <3>4. PlayLast'
      BY <2>1, Zenon DEF PlayLast
    <3>5. QED
      BY <3>2, <3>3, <3>4 DEF PushInv
  <2>3. CASE Close("session") /\ UNCHANGED <<rmethod, requests>>
    BY <2>1, <2>3, PushIdle DEF Close
  <2>4. QED
    BY <1>4, <2>2, <2>3 DEF SendAnnounce
<1>5. CASE rmethod \in {"ANNOUNCE", "SETUP"} /\ SendSetup
  <2>1. playing' = playing /\ ~playing /\ opening' = "yes"
    BY <1>2, <1>3, <1>5, Zenon DEF SendSetup
  <2>2. PlayLast'
    BY <2>1, Zenon DEF PlayLast
  <2>3. CASE Close("session") /\ rmethod' = "SETUP" /\ UNCHANGED <<setups, requests>>
    <3>1. InOrder'
      BY <1>1, <2>1, <2>3, Zenon DEF InOrder, Handshake
    <3>2. Stage'
      <4>1. setups' \in Nat /\ setups' <= Tracks /\ closed' # "no"
        BY <1>2, <2>3 DEF Close
      <4>2. QED
        BY <2>1, <2>3, <4>1, AfterNext
    <3>3. QED
      BY <1>1, <2>2, <2>3, <3>1, <3>2 DEF PushInv
  <2>4. CASE setups < Tracks /\ Send("SETUP") /\ setups' = setups + 1
    <3>1. Len(requests) < Tracks + 3 /\ Handshake[Len(requests) + 1] = "SETUP"
      <4>1. setups + 1 \in 1 .. Tracks /\ Len(requests) + 1 = 2 + (setups + 1)
        BY <1>2, <1>5, <2>4
      <4>2. QED
        BY <1>2, <1>5, <2>4, <4>1, HandshakeFacts
    <3>2. requests' \in Seq(Requests) /\ Len(requests') = Len(requests) + 1
          /\ rmethod' = "SETUP" /\ InOrder'
      BY <1>1, <2>1, <2>4, <3>1, SendNext DEF Asked
    <3>3. Stage'
      <4>1. Len(requests') = setups' + 2 /\ setups' \in Nat /\ setups' <= Tracks
        BY <1>2, <1>5, <2>4, <3>2
      <4>2. QED
        BY <2>1, <3>2, <4>1, AfterNext
    <3>4. QED
      BY <2>2, <3>2, <3>3 DEF PushInv
  <2>5. CASE setups = Tracks /\ Send("RECORD") /\ setups' = setups
    <3>1. Len(requests) < Tracks + 3 /\ Handshake[Len(requests) + 1] = "RECORD"
      <4>1. Len(requests) + 1 = Tracks + 3
        BY <1>2, <1>5, <2>5
      <4>2. QED
        BY <1>2, <4>1, HandshakeFacts
    <3>2. requests' \in Seq(Requests) /\ Len(requests') = Len(requests) + 1
          /\ rmethod' = "RECORD" /\ InOrder'
      BY <1>1, <2>1, <2>5, <3>1, SendNext DEF Asked
    <3>3. Stage'
      <4>1. Len(requests') = Tracks + 3 /\ setups' \in Nat /\ setups' <= Tracks
        BY <1>2, <1>5, <2>5, <3>2
      <4>2. QED
        BY <2>1, <3>2, <4>1, AfterNext
    <3>4. QED
      BY <2>2, <3>2, <3>3 DEF PushInv
  <2>6. QED
    BY <1>5, <2>3, <2>4, <2>5 DEF SendSetup
<1>6. CASE rmethod = "RECORD" /\ HandleRecord
  <2>1. UNCHANGED <<rmethod, setups, requests, closed>> /\ playing'
    BY <1>6 DEF HandleRecord
  <2>2. InOrder'
    <3>1. Len(requests) = Len(Handshake)
      BY <1>2, <1>6, HandshakeFacts
    <3>2. QED
      BY <1>1, <2>1, <3>1, Zenon DEF InOrder, Handshake
  <2>3. Stage'
    BY <1>2, <1>6, <2>1, AfterNext
  <2>4. PlayLast'
    BY <1>6, <2>1 DEF PlayLast
  <2>5. QED
    BY <1>1, <2>1, <2>2, <2>3, <2>4 DEF PushInv
<1>7. QED
  BY <1>4, <1>5, <1>6 DEF NextRequest

LEMMA PushStep ==
  ASSUME PushInv, [Next]_vars
  PROVE  PushInv'
<1>1. rcseq \in Int /\ Stage /\ PlayLast /\ requests \in Seq(Requests) /\ InOrder
  BY DEF PushInv
<1>2. CASE NewClient
  <2>1. rmethod = "none" /\ Len(requests) = 0 /\ ~playing /\ setups = 0
    BY <1>1, <1>2 DEF NewClient, Stage, PlayLast
  <2>2. Send("OPTIONS") /\ rcseq' = rcseq /\ playing' = playing /\ setups' = setups
        /\ opening' = "yes"
    BY <1>2 DEF NewClient
  <2>3. Len(requests) < Tracks + 3 /\ Handshake[Len(requests) + 1] = "OPTIONS"
    BY <2>1, HandshakeFacts
  <2>4. requests' \in Seq(Requests) /\ Len(requests') = Len(requests) + 1
        /\ rmethod' = "OPTIONS" /\ InOrder'
    BY <1>1, <2>1, <2>2, <2>3, SendNext DEF Asked
  <2>5. QED
    BY <1>1, <2>1, <2>2, <2>4 DEF PushInv, Stage, PlayLast
<1>3. CASE HandleResponse
  <2>1. PICK k \in 1 .. Len(wire) :
          LET seen == Kinds(Received(k) \o Beyond(k))
          IN  BadResponse(k, seen) \/ WholeResponse(k, seen) \/ PartOfResponse(k, seen)
    BY <1>3 DEF HandleResponse
  <2> DEFINE seen == Kinds(Received(k) \o Beyond(k))
  <2>2. BadResponse(k, seen) \/ WholeResponse(k, seen) \/ PartOfResponse(k, seen)
    BY <2>1
  <2> HIDE DEF seen
  <2>3. closed = "no" /\ opening' = opening
    BY <1>3 DEF HandleResponse, callerVars
  <2>4. CASE BadResponse(k, seen)
    BY <1>1, <2>3, <2>4, PushIdle DEF BadResponse, clientState
  <2>5. CASE WholeResponse(k, seen) \/ PartOfResponse(k, seen)
    <3>1. NextRequest /\ rcseq' \in {rcseq, rcseq + 1}
      BY <2>5 DEF WholeResponse, PartOfResponse
    <3>2. rcseq' \in Int
      BY <1>1, <3>1
    <3>3. QED
      BY <2>3, <3>1, <3>2, PushNext
  <2>6. QED
    BY <2>2, <2>4, <2>5
<1>4. CASE ServerSide
  <2>1. closed' = "no" => closed = "no"
    BY <1>4 DEF ServerSide, RequestNext, HandleRead, HandleReadFails, ReadFails, SendRequest,
      SendRtcp, ClientHangup, Hangup
  <2>2. QED
    BY <1>1, <1>4, <2>1, PushIdle DEF ServerSide, pusherVars, callerVars, clientState
<1>5. CASE OpenUrl \/ RemoveMediaSession \/ CloseUrl \/ HandleClosing \/ ResponseFails
           \/ Respond \/ ServerHangup
  <2>1. /\ closed' = "no" => closed = "no"
        /\ opening' = "yes" <=> opening = "yes"
        /\ UNCHANGED <<rcseq, rmethod, setups, playing, requests>>
    BY <1>5 DEF OpenUrl, RemoveMediaSession, CloseUrl, HandleClosing, ResponseFails, ReadFails,
      Respond, ServerHangup, Hangup, streamVars, pusherVars, callerVars, clientState
  <2>2. QED
    BY <1>1, <2>1, PushIdle
<1>6. CASE UNCHANGED vars
  BY <1>1, <1>6, PushIdle DEF vars, streamVars, pusherVars, callerVars, clientState
<1>7. QED
  BY <1>2, <1>3, <1>4, <1>5, <1>6 DEF Next, ClientSide, PusherNext, PusherStep

\* In whatever pieces responses come, and whether the server grants or refuses,
\* the requests that have been sent are a beginning of the handshake, and frames
\* are sent after all of it (RtspConnection.cpp:203-237, 530-659).
THEOREM PusherInOrder == Spec => []InOrder
<1>1. Init => PushInv
  BY PushInitially
<1>2. PushInv /\ [Next]_vars => PushInv'
  BY PushStep
<1>3. PushInv => InOrder
  BY DEF PushInv
<1>4. QED
  BY <1>1, <1>2, <1>3, PTL DEF Spec
=============================================================================
