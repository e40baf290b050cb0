-------------------------- MODULE RtspSessionProofs -------------------------
(***************************************************************************)
(* What a peer whose messages arrive whole can rely on: the session of an  *)
(* RtspConnection with a client of the server, and with the server of the  *)
(* pusher, for every size of the buffer, every set of methods, any number  *)
(* of requests and of tracks.                                              *)
(***************************************************************************)
EXTENDS RtspReadingProofs

-----------------------------------------------------------------------------
(* Requests that arrive whole *)

\* A message of the client begins, or its stream ends.
Lines == {"request", "badurl"}
Begins(t) == t.kind \in Lines \/ t = End

\* The request whose line is at i ends at e, with a CSeq and what its method
\* needs, but for what L says it lacks.
EndsAt(s, i, e, L) ==
  /\ s[i + 1].kind = "crlf" /\ s[e].kind = "crlf"
  /\ \A j \in i + 1 .. e : s[j].kind \notin Lines \cup {"end", "rtcp"}
  /\ \A h \in {"CSeq"} \cup Needed(s[i].method) :
       <<s[i].of, h>> \in L \/ \E j \in i + 2 .. e : s[j].kind = h

\* It ends before the next message, and what comes before one ends a line.
WholeAt(s, i, L) ==
  /\ s[i].kind # "rtcp"
  /\ s[i].kind = "end" => s[i] = End
  /\ s[i].kind = "CSeq" => s[i].of # 0
  /\ s[i].kind = "badurl" => <<s[i].of, "url">> \in L
  /\ s[i].kind \in Lines =>
       /\ s[i].method # "none"
       /\ \E e \in i + 2 .. Len(s) : EndsAt(s, i, e, L) /\ (e < Len(s) => Begins(s[e + 1]))
  /\ i = Len(s) \/ Begins(s[i + 1]) => s[i].kind = "crlf" \/ s[i] = End

WholeRequests(s, L) ==
  /\ Len(s) > 0 => Begins(s[1])
  /\ \A i \in 1 .. Len(s) : WholeAt(s, i, L)

\* A client that waits for its replies has one request on the way, or none.
Turn ==
  /\ \A i \in 2 .. Len(wire) : wire[i].kind \notin Lines
  /\ IF Len(wire) > 0 /\ wire[1].kind \in Lines
     THEN wire[1].of = sent /\ sent = reply.line + 1
     ELSE reply.line = sent

\* Between two reads: everything has been used up, and the parser waits for a
\* request line, or for a header that a request lacked.
Ready ==
  /\ unread = <<>> /\ reader = 0
  /\ \/ state = "kParseRequestLine"
     \/ state = "kParseHeadersLine" /\ cseq # 0 /\ ~Completable
  /\ size = InitialSize \/ size >= MaxRead
  /\ WholeRequests(wire, lacks)
  /\ ~together /\ Completable => Turn

ServerSession ==
  connMode = "RTSP_SERVER" =>
    /\ ClosedForCause
    /\ closed = "no" /\ ~split /\ rtcp = 0 => Ready

\* What more requests lack takes nothing away.
LEMMA WholeStill ==
  ASSUME NEW s, NEW L, NEW M, L \subseteq M, WholeRequests(s, L)
  PROVE  WholeRequests(s, M)
<1>1. ASSUME NEW i, NEW e, EndsAt(s, i, e, L)
      PROVE  EndsAt(s, i, e, M)
  BY <1>1 DEF EndsAt
<1>2. ASSUME NEW i, WholeAt(s, i, L)
      PROVE  WholeAt(s, i, M)
  BY <1>1, <1>2 DEF WholeAt
<1>3. QED
  BY <1>2 DEF WholeRequests

LEMMA WholeAfter ==
  ASSUME NEW s \in Texts, NEW L, WholeRequests(s, L), NEW k \in 0 .. Len(s),
         k < Len(s) => Begins(s[k + 1])
  PROVE  WholeRequests(After(s, k), L)
<1> DEFINE t == After(s, k)
<1>1. /\ Len(s) \in Nat /\ Len(t) = Len(s) - k
      /\ \A j \in 1 .. Len(t) : k + j \in 1 .. Len(s) /\ t[j] = s[k + j]
  <2>1. Len(s) \in Nat /\ Len(t) = Len(s) - k /\ \A j \in 1 .. Len(s) - k : t[j] = s[k + j]
    BY AfterFacts, TextFacts
  <2> HIDE DEF t
  <2>2. QED
    BY <2>1
<1> HIDE DEF t
<1>2. Len(t) > 0 => Begins(t[1])
  BY <1>1
<1>3. ASSUME NEW i \in 1 .. Len(t)
      PROVE  WholeAt(t, i, L)
  <2>1. k + i \in 1 .. Len(s) /\ t[i] = s[k + i] /\ WholeAt(s, k + i, L)
    BY <1>1 DEF WholeRequests
  <2>0. /\ Len(s) \in Nat /\ Len(t) = Len(s) - k
        /\ k \in Nat /\ i \in Nat /\ 1 <= i /\ i <= Len(t)
    BY <1>1
  <2>2. ASSUME t[i].kind \in Lines
        PROVE  /\ t[i].method # "none"
               /\ \E e \in i + 2 .. Len(t) : EndsAt(t, i, e, L) /\ (e < Len(t) => Begins(t[e + 1]))
    <3>1. PICK e \in k + i + 2 .. Len(s) :
            EndsAt(s, k + i, e, L) /\ (e < Len(s) => Begins(s[e + 1]))
      BY <2>1, <2>2 DEF WholeAt
    <3>2. e - k \in i + 2 .. Len(t) /\ k + (e - k) = e
      BY <2>0
    <3>3. \A j \in i + 1 .. e - k : j \in 1 .. Len(t) /\ k + j \in k + i + 1 .. e /\ t[j] = s[k + j]
      BY <1>1, <3>2
    <3>4. EndsAt(t, i, e - k, L)
      <4>1. i + 1 \in i + 1 .. e - k /\ e - k \in i + 1 .. e - k /\ k + (i + 1) = k + i + 1
        BY <1>1, <3>2
      <4>2. t[i + 1].kind = "crlf" /\ t[e - k].kind = "crlf"
        BY <3>1, <3>2, <3>3, <4>1, SMTT(30) DEF EndsAt
      <4>3. \A j \in i + 1 .. e - k : t[j].kind \notin Lines \cup {"end", "rtcp"}
        BY <3>1, <3>3 DEF EndsAt
      <4>4. ASSUME NEW h \in {"CSeq"} \cup Needed(t[i].method), <<t[i].of, h>> \notin L
            PROVE  \E j \in i + 2 .. e - k : t[j].kind = h
        <5>1. PICK j \in k + i + 2 .. e : s[j].kind = h
          BY <2>1, <3>1, <4>4 DEF EndsAt
        <5>2. j - k \in i + 2 .. e - k /\ j - k \in i + 1 .. e - k /\ k + (j - k) = j
          BY <2>0
        <5>3. t[j - k].kind = h
          BY <3>3, <5>1, <5>2
        <5>4. QED
          BY <5>2, <5>3
      <4>5. QED
        BY <4>2, <4>3, <4>4 DEF EndsAt
    <3>5. e - k < Len(t) => Begins(t[e - k + 1])
      <4> SUFFICES ASSUME e - k < Len(t)
                   PROVE  Begins(t[e - k + 1])
        OBVIOUS
      <4>1. e - k + 1 \in 1 .. Len(t) /\ k + (e - k + 1) = e + 1 /\ e < Len(s)
        BY <1>1, <3>2
      <4>2. QED
        BY <1>1, <3>1, <4>1
    <3>6. QED
      BY <2>1, <2>2, <3>2, <3>4, <3>5 DEF WholeAt
  <2>3. ASSUME i = Len(t) \/ Begins(t[i + 1])
        PROVE  t[i].kind = "crlf" \/ t[i] = End
    <3>1. k + i = Len(s) \/ Begins(s[k + i + 1])
      <4>1. CASE i = Len(t)
        BY <1>1, <4>1
      <4>2. CASE i # Len(t)
        <5>1. i + 1 \in 1 .. Len(t) /\ k + (i + 1) = k + i + 1
          BY <2>0, <4>2
        <5>2. QED
          BY <1>1, <2>3, <4>2, <5>1
      <4>3. QED
        BY <4>1, <4>2
    <3>2. QED
      BY <2>1, <3>1 DEF WholeAt
  <2>4. QED
    BY <2>1, <2>2, <2>3 DEF WholeAt
<1>4. QED
  BY <1>2, <1>3 DEF WholeRequests, t

LEMMA WholeJoined ==
  ASSUME NEW s \in Texts, NEW L, WholeRequests(s, L), NEW r \in Texts, WholeRequests(r, L)
  PROVE  WholeRequests(s \o r, L)
<1> DEFINE t == s \o r
           c == Len(s)
<1>1. c \in Nat /\ Len(r) \in Nat /\ Len(t) = c + Len(r)
  BY TextFacts, ConcatFacts
<1>2. /\ \A i \in 1 .. c : i \in 1 .. Len(t) /\ t[i] = s[i]
      /\ \A i \in 1 .. Len(r) : c + i \in 1 .. Len(t) /\ t[c + i] = r[i]
  BY <1>1, ConcatFacts
<1> HIDE DEF t, c
<1>3. Len(r) > 0 => Begins(t[c + 1])
  BY <1>1, <1>2 DEF WholeRequests
<1>4. Len(t) > 0 => Begins(t[1])
  <2>1. CASE c = 0
    BY <1>1, <1>3, <2>1
  <2>2. CASE c > 0
    <3>1. 1 \in 1 .. c
      BY <1>1, <2>2
    <3>2. QED
      BY <1>2, <2>2, <3>1 DEF WholeRequests, c
  <2>3. QED
    BY <1>1, <2>1, <2>2
<1>5. ASSUME NEW i \in 1 .. c
      PROVE  WholeAt(t, i, L)
  <2>1. WholeAt(s, i, L) /\ t[i] = s[i]
    BY <1>2 DEF WholeRequests, c
  <2>2. ASSUME s[i].kind \in Lines
        PROVE  \E e \in i + 2 .. Len(t) : EndsAt(t, i, e, L) /\ (e < Len(t) => Begins(t[e + 1]))
    <3>1. PICK e \in i + 2 .. c : EndsAt(s, i, e, L) /\ (e < c => Begins(s[e + 1]))
      BY <2>1, <2>2 DEF WholeAt, c
    <3>2. e \in i + 2 .. Len(t) /\ \A j \in i + 1 .. e : t[j] = s[j]
      BY <1>1, <1>2
    <3>3. i + 1 \in i + 1 .. e /\ e \in i + 1 .. e /\ \A j \in i + 2 .. e : j \in i + 1 .. e
      BY <1>1
    <3>4. EndsAt(t, i, e, L)
      <4>1. t[i + 1].kind = "crlf" /\ t[e].kind = "crlf"
        BY <3>1, <3>2, <3>3 DEF EndsAt
      <4>2. \A j \in i + 1 .. e : t[j].kind \notin Lines \cup {"end", "rtcp"}
        BY <3>1, <3>2 DEF EndsAt
      <4>3. ASSUME NEW h \in {"CSeq"} \cup Needed(t[i].method), <<t[i].of, h>> \notin L
            PROVE  \E j \in i + 2 .. e : t[j].kind = h
        BY <2>1, <3>1, <3>2, <3>3, <4>3 DEF EndsAt
      <4>4. QED
        BY <4>1, <4>2, <4>3 DEF EndsAt
    <3>5. e < Len(t) => Begins(t[e + 1])
      <4>1. CASE e < c
        <5>1. e + 1 \in 1 .. c
          BY <1>1, <4>1
        <5>2. QED
          BY <1>2, <3>1, <4>1, <5>1
      <4>2. CASE e = c
        BY <1>1, <1>3, <4>2
      <4>3. QED
        BY <1>1, <4>1, <4>2
    <3>6. QED
      BY <3>2, <3>4, <3>5
  <2>3. ASSUME i = Len(t) \/ Begins(t[i + 1])
        PROVE  s[i].kind = "crlf" \/ s[i] = End
    <3>1. i = c \/ Begins(s[i + 1])
      <4>1. i # c => i + 1 \in 1 .. c /\ i # Len(t)
        BY <1>1
      <4>2. QED
        BY <1>2, <2>3, <4>1
    <3>2. QED
      BY <2>1, <3>1 DEF WholeAt, c
  <2>4. QED
    BY <2>1, <2>2, <2>3 DEF WholeAt
<1>6. ASSUME NEW i \in 1 .. Len(r)
      PROVE  WholeAt(t, c + i, L)
  <2>1. WholeAt(r, i, L) /\ t[c + i] = r[i]
    BY <1>2 DEF WholeRequests
  <2>2. ASSUME r[i].kind \in Lines
        PROVE  \E e \in c + i + 2 .. Len(t) :
                 EndsAt(t, c + i, e, L) /\ (e < Len(t) => Begins(t[e + 1]))
    <3>1. PICK e \in i + 2 .. Len(r) : EndsAt(r, i, e, L) /\ (e < Len(r) => Begins(r[e + 1]))
      BY <2>1, <2>2 DEF WholeAt
    <3>2. c + e \in c + i + 2 .. Len(t)
      BY <1>1
    <3>3. \A j \in c + i + 1 .. c + e : /\ j - c \in i + 1 .. e /\ j - c \in 1 .. Len(r)
                                       /\ t[j] = r[j - c]
      <4> TAKE j \in c + i + 1 .. c + e
      <4>1. j - c \in i + 1 .. e /\ j - c \in 1 .. Len(r) /\ c + (j - c) = j
        BY <1>1
      <4>2. QED
        BY <1>2, <4>1
    <3>4. EndsAt(t, c + i, c + e, L)
      <4>1. i + 1 \in 1 .. Len(r) /\ e \in 1 .. Len(r) /\ c + (i + 1) = c + i + 1
        BY <1>1
      <4>2. t[c + i + 1].kind = "crlf" /\ t[c + e].kind = "crlf"
        <5>1. t[c + i + 1] = r[i + 1] /\ t[c + e] = r[e]
          BY <1>2, <4>1
        <5>2. QED
          BY <3>1, <5>1 DEF EndsAt
      <4>3. \A j \in c + i + 1 .. c + e : t[j].kind \notin Lines \cup {"end", "rtcp"}
        BY <3>1, <3>3 DEF EndsAt
      <4>4. ASSUME NEW h \in {"CSeq"} \cup Needed(t[c + i].method), <<t[c + i].of, h>> \notin L
            PROVE  \E j \in c + i + 2 .. c + e : t[j].kind = h
        <5>1. PICK j \in i + 2 .. e : r[j].kind = h
          BY <2>1, <3>1, <4>4 DEF EndsAt
        <5>2. c + j \in c + i + 2 .. c + e /\ j \in 1 .. Len(r)
          BY <1>1
        <5>3. t[c + j].kind = h
          BY <1>2, <5>1, <5>2
        <5>4. QED
          BY <5>2, <5>3
      <4>5. QED
        BY <4>2, <4>3, <4>4 DEF EndsAt
    <3>5. c + e < Len(t) => Begins(t[c + e + 1])
      <4> SUFFICES ASSUME c + e < Len(t)
                   PROVE  Begins(t[c + e + 1])
        OBVIOUS
      <4>1. e < Len(r) /\ e + 1 \in 1 .. Len(r) /\ c + (e + 1) = c + e + 1
        BY <1>1
      <4>2. QED
        BY <1>2, <3>1, <4>1
    <3>6. QED
      BY <3>2, <3>4, <3>5
  <2>3. ASSUME c + i = Len(t) \/ Begins(t[c + i + 1])
        PROVE  r[i].kind = "crlf" \/ r[i] = End
    <3>1. i = Len(r) \/ Begins(r[i + 1])
      <4>1. i # Len(r) =>
              i + 1 \in 1 .. Len(r) /\ c + (i + 1) = c + i + 1 /\ c + i # Len(t)
        BY <1>1
      <4>2. QED
        BY <1>2, <2>3, <4>1
    <3>2. QED
      BY <2>1, <3>1 DEF WholeAt
  <2>4. QED
    BY <2>1, <2>2, <2>3 DEF WholeAt
<1>7. \A i \in 1 .. Len(t) : i \in 1 .. c \/ (i - c \in 1 .. Len(r) /\ c + (i - c) = i)
  BY <1>1
<1>8. \A i \in 1 .. Len(t) : WholeAt(t, i, L)
  BY <1>5, <1>6, <1>7
<1>9. QED
  BY <1>4, <1>8 DEF WholeRequests, t

\* What a client writes is whole.
LEMMA WrittenWhole ==
  ASSUME NEW L
  PROVE  /\ <<End>> \in Texts /\ WholeRequests(<<End>>, L)
         /\ \A n \in Nat \ {0}, m \in Methods : \A lack : \A h \in HeaderOrders(m, lack) :
              {n} \X lack \subseteq L =>
                LET r == Request(n, m, lack, h)
                IN  /\ r \in Texts /\ WholeRequests(r, L) /\ 1 <= Len(r)
                    /\ r[1].kind \in Lines /\ r[1].of = n
                    /\ \A i \in 2 .. Len(r) : r[i].kind \notin Lines
<1>0. End.kind = "end"
  BY DEF End, Text
<1>1. <<End>> \in Texts /\ WholeRequests(<<End>>, L)
  <2>1. <<End>> \in Texts /\ Len(<<End>>) = 1 /\ <<End>>[1] = End
    BY Written DEF Texts
  <2>2. QED
    BY <1>0, <2>1 DEF WholeRequests, WholeAt, Begins, Lines
<1>2. ASSUME NEW n \in Nat \ {0}, NEW m \in Methods, NEW lack, NEW h \in HeaderOrders(m, lack),
             {n} \X lack \subseteq L, NEW r, r = Request(n, m, lack, h)
      PROVE  /\ r \in Texts /\ WholeRequests(r, L) /\ 1 <= Len(r)
             /\ r[1].kind \in Lines /\ r[1].of = n
             /\ \A i \in 2 .. Len(r) : r[i].kind \notin Lines
  <2> DEFINE c == Len(h)
  <2>1. RequestTokens(r, n, m, lack, h)
    BY <1>2, TokensOfRequest
  <2>2. /\ c \in Nat /\ r \in Texts /\ Len(r) = 2 * c + 3
        /\ r[1].kind = (IF "url" \in lack THEN "badurl" ELSE "request")
        /\ r[1].of = n /\ r[1].method = m
        /\ r[2].kind = "crlf" /\ r[2 * c + 3].kind = "crlf"
        /\ \A i \in 3 .. 2 * c + 2 :
             /\ i % 2 = 1 => r[i].kind \in Headers /\ r[i].of = n
             /\ i % 2 # 1 => r[i].kind = "crlf"
        /\ \A j \in 1 .. c : r[2 * j + 1].kind = h[j]
    BY <2>1 DEF RequestTokens
  <2>3. \A k \in {"CSeq"} \cup Needed(m) : k \in lack \/ \E j \in 1 .. c : h[j] = k
    BY HeaderOrderFacts
  <2> HIDE DEF c
  <2>4. \A i \in 2 .. Len(r) :
          r[i].kind = "crlf" \/ (r[i].kind \in Headers /\ r[i].of = n)
    <3> TAKE i \in 2 .. Len(r)
    <3>1. i = 2 \/ i = 2 * c + 3 \/ i \in 3 .. 2 * c + 2
      BY <2>2
    <3>2. CASE i = 2 \/ i = 2 * c + 3
      BY <2>2, <3>2
    <3>3. CASE i \in 3 .. 2 * c + 2
      BY <2>2, <3>3
    <3>4. QED
      BY <3>1, <3>2, <3>3
  <2>5. \A i \in 2 .. Len(r) :
          r[i].kind \notin Lines \cup {"end", "rtcp"} /\ (r[i].kind = "CSeq" => r[i].of # 0)
    BY <2>4 DEF Headers, Lines
  <2>6. Len(r) \in 1 + 2 .. Len(r) /\ 1 + 1 = 2 /\ 1 + 2 = 3 /\ Len(r) \in Nat
    BY <2>2
  <2>7. EndsAt(r, 1, Len(r), L)
    <3>1. ASSUME NEW k \in {"CSeq"} \cup Needed(m), <<n, k>> \notin L
          PROVE  \E j \in 3 .. Len(r) : r[j].kind = k
      <4>1. k \notin lack
        BY <1>2, <3>1
      <4>2. PICK j \in 1 .. c : h[j] = k
        BY <2>3, <4>1
      <4>3. 2 * j + 1 \in 3 .. Len(r)
        BY <2>2
      <4>4. QED
        BY <2>2, <4>2, <4>3
    <3>2. QED
      BY <2>2, <2>5, <2>6, <3>1 DEF EndsAt
  <2>8. m # "none"
    BY RequestAssumption
  <2>9. \A i \in 1 .. Len(r) : i = Len(r) \/ Begins(r[i + 1]) => r[i].kind = "crlf"
    <3> TAKE i \in 1 .. Len(r)
    <3>1. i # Len(r) => i + 1 \in 2 .. Len(r)
      BY <2>6
    <3>2. i # Len(r) => ~Begins(r[i + 1])
      BY <1>0, <2>5, <3>1 DEF Begins
    <3>3. r[Len(r)].kind = "crlf"
      BY <2>2
    <3>4. QED
      BY <3>2, <3>3
  <2>10. WholeAt(r, 1, L)
    <3>1. r[1].kind = "badurl" => <<n, "url">> \in L
      BY <1>2, <2>2
    <3>2. 1 \in 1 .. Len(r)
      BY <2>6
    <3>3. r[1].kind \in Lines
      BY <2>2 DEF Lines
    <3>4. QED
      BY <2>2, <2>6, <2>7, <2>8, <2>9, <3>1, <3>2, <3>3 DEF WholeAt
  <2>11. \A i \in 2 .. Len(r) : WholeAt(r, i, L)
    <3> TAKE i \in 2 .. Len(r)
    <3>1. i \in 1 .. Len(r)
      BY <2>6
    <3>2. QED
      BY <2>5, <2>9, <3>1 DEF WholeAt, Lines
  <2>12. WholeRequests(r, L)
    <3>1. \A i \in 1 .. Len(r) : i = 1 \/ i \in 2 .. Len(r)
      BY <2>6
    <3>2. Begins(r[1])
      BY <2>2 DEF Begins, Lines
    <3>3. QED
      BY <2>10, <2>11, <3>1, <3>2 DEF WholeRequests
  <2>13. QED
    BY <2>2, <2>5, <2>6, <2>12 DEF Lines
<1>3. QED
  BY <1>1, <1>2
\* A read that ends where a message does takes at least the first request, and
\* ends with a line.
LEMMA ReadWhole ==
  ASSUME NEW s \in Texts, NEW L, WholeRequests(s, L), NEW k \in 1 .. Len(s),
         \A i \in 1 .. k : s[i] # End,
         k < Len(s) => s[k + 1].kind \in {"request", "badurl", "rtcp", "end"}
  PROVE  /\ s[1].kind \in Lines /\ s[1].method # "none"
         /\ s[1].kind = "badurl" => <<s[1].of, "url">> \in L
         /\ \E e \in 3 .. k : EndsAt(s, 1, e, L)
         /\ k < Len(s) => Begins(s[k + 1])
         /\ s[k].kind = "crlf"
<1>1. Len(s) \in Nat /\ 1 \in 1 .. Len(s) /\ 1 \in 1 .. k
  BY TextFacts
<1>2. s[1].kind \in Lines /\ WholeAt(s, 1, L)
  BY <1>1 DEF WholeRequests, Begins
<1>3. PICK e \in 3 .. Len(s) : EndsAt(s, 1, e, L)
  <2>1. 1 + 2 = 3
    OBVIOUS
  <2>2. QED
    BY <1>2, <2>1 DEF WholeAt
<1>4. e <= k
  <2> SUFFICES ASSUME k < e
               PROVE  FALSE
    BY <1>1
  <2>1. k + 1 \in 1 + 1 .. e /\ k < Len(s)
    BY <1>1
  <2>2. QED
    BY <1>3, <2>1 DEF EndsAt, Lines
<1>5. k < Len(s) => Begins(s[k + 1])
  <2> SUFFICES ASSUME k < Len(s)
               PROVE  Begins(s[k + 1])
    OBVIOUS
  <2>1. k + 1 \in 1 .. Len(s)
    BY <1>1
  <2>2. WholeAt(s, k + 1, L)
    BY <2>1 DEF WholeRequests
  <2>3. QED
    BY <2>2 DEF WholeAt, Begins, Lines
<1>6. s[k].kind = "crlf"
  <2>1. k = Len(s) \/ Begins(s[k + 1])
    BY <1>1, <1>5
  <2>2. WholeAt(s, k, L) /\ s[k] # End
    BY <1>1 DEF WholeRequests
  <2>3. QED
    BY <2>1, <2>2 DEF WholeAt
<1>7. e \in 3 .. k
  BY <1>1, <1>4
<1>8. QED
  BY <1>2, <1>3, <1>5, <1>6, <1>7 DEF WholeAt

\* Of whole lines nothing is left; they are enough with a CSeq, and complete with
\* what the method needs.
LEMMA HeadersTaken ==
  ASSUME NEW p \in Parsers, NEW n \in Nat \ {0}, n = Len(p.unread), p.unread[n].kind = "crlf",
         \A j \in 1 .. n : p.unread[j].kind = "CSeq" => p.unread[j].of # 0,
         NEW q, q = ParseHeadersLine(p)
  PROVE  /\ q.unread = <<>> /\ q.line = p.line /\ q.method = p.method
         /\ p.cseq # 0 => q.ok
         /\ (\E j \in 1 .. n : p.unread[j].kind = "CSeq") => q.ok
         /\ q.ok => q.cseq # 0 /\ q.state \in {p.state, "kGotAll"}
         /\ q.ok /\ q.state # "kGotAll" =>
              \E h \in Needed(p.method) : \A j \in 1 .. n : p.unread[j].kind # h
<1> DEFINE s == p.unread
           i == LastCrlf(s)
           lines == SubSeq(s, 1, i)
           numbers == {j \in DOMAIN lines : lines[j].kind = "CSeq"}
           first == CHOOSE j \in numbers : \A k \in numbers : j <= k
           good == numbers # {} \/ p.cseq # 0
           found == Needed(p.method) \subseteq {lines[j].kind : j \in DOMAIN lines}
<1>1. /\ s \in Texts
      /\ p = [state |-> p.state, line |-> p.line, method |-> p.method, cseq |-> p.cseq,
              unread |-> p.unread, ok |-> p.ok]
      /\ Len(s) = n /\ DOMAIN s = 1 .. n /\ n \in 1 .. n
  BY TextFacts DEF Parsers
<1>2. Crlfs(s) # {}
  BY <1>1 DEF Crlfs
<1>3. i = n
  <2>1. i \in 1 .. Len(s) /\ \A j \in i + 1 .. Len(s) : s[j].kind # "crlf"
    BY <1>1, <1>2, CrlfFacts
  <2>2. s[n].kind = "crlf"
    OBVIOUS
  <2> HIDE DEF s, i
  <2>3. QED
    BY <1>1, <2>1, <2>2
<1>4. DOMAIN lines = 1 .. n /\ \A j \in 1 .. n : lines[j] = s[j]
  <2>1. n \in 0 .. Len(s)
    BY <1>1
  <2>2. SubSeq(s, 1, n) \in Texts /\ Len(SubSeq(s, 1, n)) = n
        /\ \A j \in 1 .. n : SubSeq(s, 1, n)[j] = s[j]
    BY <1>1, <2>1, FrontFacts
  <2>3. QED
    BY <1>3, <2>2, TextFacts
<1>5. After(s, i) = <<>>
  BY <1>1, <1>3, AfterAll
<1>6. numbers # {} => first \in 1 .. n /\ s[first].kind = "CSeq"
  <2> HIDE DEF lines
  <2>1. numbers \in SUBSET Nat
    BY <1>4
  <2>2. numbers # {} => first \in numbers
    <3> HIDE DEF numbers
    <3>1. QED
      BY <2>1, Least
  <2> HIDE DEF first, s
  <2>3. QED
    BY <1>4, <2>2
<1>7. numbers # {} => lines[first].of # 0
  <2> HIDE DEF lines, numbers, first
  <2>1. QED
    BY <1>4, <1>6
<1>8. numbers # {} <=> \E j \in 1 .. n : s[j].kind = "CSeq"
  <2> HIDE DEF lines, s
  <2>1. QED
    BY <1>4
<1>9. found \/ \E h \in Needed(p.method) : \A j \in 1 .. n : s[j].kind # h
  <2> HIDE DEF lines, s
  <2>1. QED
    BY <1>4
<1>10. q = [p EXCEPT !.unread = After(s, i), !.ok = good,
                     !.cseq = IF p.cseq = 0 /\ numbers # {} THEN lines[first].of ELSE @,
                     !.state = IF good /\ found THEN "kGotAll" ELSE @]
  BY <1>2, Zenon DEF ParseHeadersLine
<1>11. q = [state |-> IF good /\ found THEN "kGotAll" ELSE p.state,
            line |-> p.line, method |-> p.method,
            cseq |-> IF p.cseq = 0 /\ numbers # {} THEN lines[first].of ELSE p.cseq,
            unread |-> <<>>, ok |-> good]
  <2> HIDE DEF s, i, lines, numbers, first, good, found
  <2>1. QED
    BY <1>1, <1>5, <1>10
<1>12. good <=> numbers # {} \/ p.cseq # 0
  OBVIOUS
<1>13. QED
  <2> HIDE DEF i, lines, numbers, first, good, found
  <2>1. /\ q.state = (IF good /\ found THEN "kGotAll" ELSE p.state)
        /\ q.line = p.line /\ q.method = p.method /\ q.unread = <<>> /\ q.ok = good
        /\ q.cseq = IF p.cseq = 0 /\ numbers # {} THEN lines[first].of ELSE p.cseq
    BY <1>11
  <2>2. q.ok => q.cseq # 0
    BY <1>7, <1>12, <2>1
  <2>3. q.ok /\ q.state # "kGotAll" => ~found
    BY <2>1
  <2>4. q.ok => q.state \in {p.state, "kGotAll"}
    BY <2>1
  <2>5. QED
    BY <1>8, <1>9, <1>12, <2>1, <2>2, <2>3, <2>4

\* A whole request is read at once, but for a header that it lacks, unless the
\* server does not know its method, takes its URL or finds a CSeq.
LEMMA RequestParsed ==
  ASSUME NEW s \in Texts, NEW L, s[1].kind \in Lines, NEW e \in 3 .. Len(s), EndsAt(s, 1, e, L),
         s[Len(s)].kind = "crlf", \A j \in 1 .. Len(s) : s[j].kind = "CSeq" => s[j].of # 0,
         Types, state = "kParseRequestLine", NEW q, q = ParseRequest(Parser(s))
  PROVE  /\ q.method = s[1].method
         /\ IF s[1].kind = "request" /\ s[1].method \in Known
            THEN /\ q.ok \/ <<s[1].of, "CSeq">> \in L
                 /\ q.ok => /\ q.unread = <<>> /\ q.line = s[1].of /\ q.cseq # 0
                            /\ \/ q.state = "kGotAll"
                               \/ /\ q.state = "kParseHeadersLine"
                                  /\ \E h \in Needed(s[1].method) : <<s[1].of, h>> \in L
            ELSE ~q.ok
<1> DEFINE p == Parser(s)
           i == FirstCrlf(s)
           text == SubSeq(s, 1, i - 1)
           good == IsRequestLine(text)
           taken == s[1].kind = "request" /\ s[1].method \in Known
           t == After(s, 2)
           m == [state |-> "kParseHeadersLine", line |-> s[1].of, method |-> s[1].method,
                 cseq |-> cseq, unread |-> t, ok |-> TRUE]
<1>1. /\ Len(s) \in Nat /\ DOMAIN s = 1 .. Len(s) /\ 3 <= Len(s)
      /\ 1 \in 1 .. Len(s) /\ 2 \in 1 .. Len(s) /\ s[2].kind = "crlf" /\ s[1].kind # "crlf"
  BY TextFacts DEF EndsAt, Lines
<1>2. Crlfs(s) # {} /\ i = 2
  <2>1. 2 \in Crlfs(s)
    BY <1>1 DEF Crlfs
  <2>2. i \in 1 .. Len(s) /\ s[i].kind = "crlf" /\ \A j \in 1 .. i - 1 : s[j].kind # "crlf"
    BY <2>1, CrlfFacts
  <2>3. QED
    BY <1>1, <2>1, <2>2
<1>3. Len(text) = 1 /\ text[1] = s[1]
  <2>1. i - 1 = 1 /\ 1 \in 0 .. Len(s)
    BY <1>1, <1>2
  <2>2. QED
    BY <2>1, FrontFacts
<1>4. IsThreeWords(text) /\ (good <=> taken)
  BY <1>3 DEF IsThreeWords, IsRequestLine, Lines
<1> HIDE DEF taken
<1>5. ParseRequestLine(p) =
        [state |-> IF taken THEN "kParseHeadersLine" ELSE state,
         line |-> IF taken THEN s[1].of ELSE line,
         method |-> s[1].method, cseq |-> cseq, unread |-> t, ok |-> taken]
  <2>1. ParseRequestLine(p) =
          [p EXCEPT !.unread = After(s, i), !.ok = ~IsThreeWords(text) \/ good,
                    !.state = IF good THEN "kParseHeadersLine" ELSE @,
                    !.line = IF good THEN text[1].of ELSE @,
                    !.method = IF IsThreeWords(text) THEN text[1].method ELSE @]
    BY <1>2 DEF ParseRequestLine, Parser
  <2>2. p = [state |-> state, line |-> line, method |-> method, cseq |-> cseq,
             unread |-> s, ok |-> TRUE]
    BY DEF Parser
  <2> HIDE DEF p, text, i, good
  <2>3. ParseRequestLine(p) =
          [state |-> IF good THEN "kParseHeadersLine" ELSE state,
           line |-> IF good THEN text[1].of ELSE line,
           method |-> IF IsThreeWords(text) THEN text[1].method ELSE method,
           cseq |-> cseq, unread |-> After(s, i), ok |-> ~IsThreeWords(text) \/ good]
    BY <2>1, <2>2, ZenonT(30)
  <2>4. (~IsThreeWords(text) \/ good) = taken
    BY <1>4 DEF taken, good, IsRequestLine
  <2>5. good = taken
    BY <1>4 DEF taken, good, IsRequestLine
  <2>6. QED
    BY <1>2, <1>3, <1>4, <2>3, <2>4, <2>5
<1>6. q = LET r == ParseRequestLine(p)
          IN  IF r.state = "kParseHeadersLine" THEN ParseHeadersLine(r) ELSE r
  BY DEF ParseRequest, Parser
<1>7. CASE ~taken
  <2> HIDE DEF p, m, t
  <2>1. q = ParseRequestLine(p)
    BY <1>5, <1>6, <1>7
  <2>2. q.method = s[1].method /\ q.ok = taken
    BY <1>5, <2>1
  <2>3. QED
    BY <1>7, <2>2 DEF taken
<1>8. CASE taken
  <2>1. ParseRequestLine(p) = m
    <3> HIDE DEF p, t
    <3>1. taken = TRUE
      BY <1>8 DEF taken
    <3>2. QED
      BY <1>5, <3>1
  <2>2. q = ParseHeadersLine(m)
    <3> HIDE DEF p, t
    <3>1. QED
      BY <1>6, <2>1
  <2> DEFINE n == Len(s) - 2
  <2>3. t \in Texts /\ Len(t) = n /\ \A j \in 1 .. n : t[j] = s[2 + j]
    <3>1. 2 \in 0 .. Len(s)
      BY <1>1
    <3>2. QED
      BY <3>1, AfterFacts
  <2>4. n \in Nat \ {0} /\ \A j \in 1 .. n : 2 + j \in 3 .. Len(s) /\ 2 + j \in 1 .. Len(s)
    BY <1>1
  <2>5. 2 + n = Len(s) /\ n \in 1 .. n
    BY <1>1
  <2> HIDE DEF t, n
  <2>6. m \in Parsers
    <3>1. s[1].of \in Nat /\ s[1].method \in Words
      BY <1>1, TextFacts
    <3>2. QED
      BY <2>3, <3>1 DEF Parsers, States, Types
  <2>7. m.unread = t /\ m.method = s[1].method /\ m.line = s[1].of /\ m.state = "kParseHeadersLine"
    OBVIOUS
  <2> HIDE DEF m
  <2>8. n = Len(m.unread) /\ m.unread[n].kind = "crlf"
    BY <2>3, <2>5, <2>7
  <2>9. \A j \in 1 .. n : m.unread[j].kind = "CSeq" => m.unread[j].of # 0
    BY <2>3, <2>4, <2>7
  <2>10. /\ q.unread = <<>> /\ q.line = m.line /\ q.method = m.method
         /\ m.cseq # 0 => q.ok
         /\ (\E j \in 1 .. n : m.unread[j].kind = "CSeq") => q.ok
         /\ q.ok => q.cseq # 0 /\ q.state \in {m.state, "kGotAll"}
         /\ q.ok /\ q.state # "kGotAll" =>
              \E h \in Needed(m.method) : \A j \in 1 .. n : m.unread[j].kind # h
    <3>1. n \in Nat \ {0}
      BY <2>4
    <3> HIDE DEF p, i, text, good
    <3>2. QED
      BY <2>2, <2>6, <2>8, <2>9, <3>1, HeadersTaken, SMTT(60)
  <2>11. ASSUME NEW h \in {"CSeq"} \cup Needed(s[1].method), <<s[1].of, h>> \notin L
         PROVE  \E j \in 1 .. n : m.unread[j].kind = h
    <3>1. PICK j \in 3 .. e : s[j].kind = h
      <4>1. 1 + 2 = 3
        OBVIOUS
      <4>2. QED
        BY <2>11, <4>1 DEF EndsAt
    <3>2. j - 2 \in 1 .. n /\ 2 + (j - 2) = j
      BY <1>1, <2>5 DEF n
    <3>3. m.unread[j - 2].kind = h
      BY <2>3, <2>7, <3>1, <3>2
    <3>4. QED
      BY <3>2, <3>3
  <2>12. q.ok \/ <<s[1].of, "CSeq">> \in L
    BY <2>10, <2>11
  <2>13. q.ok /\ q.state # "kGotAll" => \E h \in Needed(s[1].method) : <<s[1].of, h>> \in L
    <3> SUFFICES ASSUME q.ok /\ q.state # "kGotAll"
                 PROVE  \E h \in Needed(s[1].method) : <<s[1].of, h>> \in L
      OBVIOUS
    <3>1. PICK h \in Needed(s[1].method) : \A j \in 1 .. n : m.unread[j].kind # h
      BY <2>7, <2>10
    <3>2. QED
      BY <2>11, <3>1
  <2>14. QED
    BY <1>8, <2>7, <2>10, <2>12, <2>13 DEF taken
<1>9. QED
  BY <1>7, <1>8

\* Whole lines behind a request that lacks a header are taken for its headers.
LEMMA MoreParsed ==
  ASSUME NEW s \in Texts, 1 <= Len(s), s[Len(s)].kind = "crlf",
         \A j \in 1 .. Len(s) : s[j].kind = "CSeq" => s[j].of # 0,
         Types, state = "kParseHeadersLine", cseq # 0, NEW q, q = ParseRequest(Parser(s))
  PROVE  q.ok /\ q.unread = <<>> /\ q.cseq # 0 /\ q.state \in {"kParseHeadersLine", "kGotAll"}
<1> DEFINE p == Parser(s)
<1>1. /\ p \in Parsers /\ p.unread = s /\ p.cseq = cseq /\ p.state = "kParseHeadersLine"
  BY DEF Parser, Parsers, Types
<1>2. q = ParseHeadersLine(p)
  BY DEF ParseRequest, Parser
<1>3. Len(s) \in Nat \ {0}
  BY TextFacts
<1> HIDE DEF p
<1>4. /\ Len(s) = Len(p.unread) /\ p.unread[Len(s)].kind = "crlf"
      /\ \A j \in 1 .. Len(s) : p.unread[j].kind = "CSeq" => p.unread[j].of # 0
  BY <1>1
<1>5. /\ q.unread = <<>> /\ (p.cseq # 0 => q.ok)
      /\ q.ok => q.cseq # 0 /\ q.state \in {p.state, "kGotAll"}
  BY <1>1, <1>2, <1>3, <1>4, HeadersTaken
<1>6. QED
  BY <1>1, <1>5

LEMMA SessionRead ==
  ASSUME BufferInv, HandleRead, Ready, ~split', rtcp = 0
  PROVE  ClosedForCause' /\ (closed' = "no" => Ready')
<1>1. PICK k \in 1 .. Len(wire) :
        /\ ReadFd(k, {"request", "badurl", "rtcp", "end"})
        /\ LET p == ParseRequest(Parser(Received(k)))
           IN  BadRequest(p) \/ PartOfRequest(p, Received(k)) \/ WholeRequest(p)
  BY DEF HandleRead
<1> DEFINE s == SubSeq(wire, 1, k)
           q == ParseRequest(Parser(s))
<1>2. /\ Types /\ wire \in Texts /\ Len(wire) \in Nat /\ k \in 0 .. Len(wire)
      /\ WholeRequests(wire, lacks) /\ unread = <<>>
  BY TextFacts DEF BufferInv, Types, Ready
<1>3. s \in Texts /\ Len(s) = k /\ \A j \in 1 .. k : s[j] = wire[j]
  BY <1>2, FrontFacts
<1>4. Received(k) = s
  BY <1>2, <1>3, ConcatEmptySeq DEF Received, Texts
<1>5. BadRequest(q) \/ PartOfRequest(q, s) \/ WholeRequest(q)
  BY <1>1, <1>4
<1>6. /\ wire' = After(wire, k) /\ size' = Grown
      /\ \A j \in 1 .. k : wire[j] # End
      /\ k < Len(wire) => wire[k + 1].kind \in {"request", "badurl", "rtcp", "end"}
  BY <1>1 DEF ReadFd, After
<1>7. /\ wire[1].kind \in Lines /\ wire[1].method # "none"
      /\ wire[1].kind = "badurl" => <<wire[1].of, "url">> \in lacks
      /\ \E e \in 3 .. k : EndsAt(wire, 1, e, lacks)
      /\ k < Len(wire) => Begins(wire[k + 1])
      /\ wire[k].kind = "crlf"
  BY <1>2, <1>6, ReadWhole
<1>8. PICK e \in 3 .. k : EndsAt(wire, 1, e, lacks)
  BY <1>7
<1> HIDE DEF s, q
<1>9. /\ 1 \in 1 .. k /\ s[1] = wire[1] /\ e \in 3 .. Len(s)
      /\ \A j \in 1 .. e : s[j] = wire[j]
  BY <1>2, <1>3
<1>10. EndsAt(s, 1, e, lacks)
  <2>1. /\ 1 + 1 \in 1 .. e /\ e \in 1 .. e /\ \A j \in 1 + 1 .. e : j \in 1 .. e
        /\ \A j \in 1 + 2 .. e : j \in 1 .. e
    BY <1>2
  <2>2. s[1 + 1] = wire[1 + 1] /\ s[e] = wire[e]
    BY <1>9, <2>1
  <2>3. \A j \in 1 + 1 .. e : s[j].kind \notin Lines \cup {"end", "rtcp"}
    BY <1>8, <1>9, <2>1 DEF EndsAt
  <2>4. ASSUME NEW h \in {"CSeq"} \cup Needed(s[1].method), <<s[1].of, h>> \notin lacks
        PROVE  \E j \in 1 + 2 .. e : s[j].kind = h
    <3>1. PICK j \in 1 + 2 .. e : wire[j].kind = h
      BY <1>8, <1>9, <2>4 DEF EndsAt
    <3>2. s[j].kind = h
      BY <1>9, <2>1, <3>1
    <3>3. QED
      BY <3>2
  <2>5. s[1 + 1].kind = "crlf" /\ s[e].kind = "crlf"
    BY <1>8, <2>2 DEF EndsAt
  <2>6. QED
    BY <2>3, <2>4, <2>5 DEF EndsAt
<1>11. /\ s[Len(s)].kind = "crlf" /\ 1 <= Len(s)
       /\ \A j \in 1 .. Len(s) : s[j].kind = "CSeq" => s[j].of # 0
  <2>1. ASSUME NEW j \in 1 .. k, s[j].kind = "CSeq"
        PROVE  s[j].of # 0
    <3>1. j \in 1 .. Len(wire) /\ s[j] = wire[j]
      BY <1>2, <1>3
    <3>2. WholeAt(wire, j, lacks)
      BY <1>2, <3>1 DEF WholeRequests
    <3>3. QED
      BY <2>1, <3>1, <3>2 DEF WholeAt
  <2>2. k \in 1 .. k
    BY <1>2
  <2>3. QED
    BY <1>3, <1>7, <2>1, <2>2
<1>12. lacks' = lacks /\ together' = together /\ sent' = sent
       /\ (Completable' <=> Completable)
  BY DEF HandleRead, clientVars, Completable
<1>13. /\ size' = InitialSize \/ size' >= MaxRead
       /\ WholeRequests(wire', lacks')
  <2>1. size' = InitialSize \/ size' >= MaxRead
    BY <1>2, <1>6, Constants DEF Ready, Grown, Types
  <2>2. WholeRequests(wire', lacks)
    BY <1>2, <1>6, <1>7, WholeAfter
  <2>3. QED
    BY <1>12, <2>1, <2>2
\* Some of a request that lacks a header, or of what is behind it.
<1>14. ASSUME q.ok, q.unread = <<>>, q.state = "kParseHeadersLine", q.cseq # 0, ~Completable
       PROVE  ClosedForCause' /\ Ready'
  <2>1. PartOfRequest(q, s)
    BY <1>5, <1>14 DEF BadRequest, WholeRequest
  <2>2. /\ state' = "kParseHeadersLine" /\ cseq' # 0 /\ closed' = closed
        /\ unread' = <<>> /\ reader' = 0
    <3>1. Kept(s, <<>>)
      BY <1>14, <2>1 DEF PartOfRequest
    <3>2. ~(Len(<<>>) > MaxMessage)
      BY Constants
    <3>3. QED
      BY <1>14, <2>1, <3>1, <3>2 DEF PartOfRequest, Kept, Retrieved
  <2>3. closed' = "no"
    BY <2>2 DEF HandleRead
  <2>4. QED
    BY <1>12, <1>13, <1>14, <2>2, <2>3 DEF Ready, ClosedForCause
<1>15. ASSUME q.ok, q.state = "kGotAll", ~together /\ Completable => q.line = wire[1].of
       PROVE  ClosedForCause' /\ (closed' = "no" => Ready')
  <2>1. WholeRequest(q)
    BY <1>5, <1>15 DEF BadRequest, PartOfRequest
  <2>2. /\ unread' = <<>> /\ reader' = 0 /\ state' = "kParseRequestLine"
        /\ reply'.line = q.line /\ closed' \in {"torn", "no"}
    BY <2>1 DEF WholeRequest, Retrieved, Reset, Close
  <2>3. ASSUME ~together', Completable'
        PROVE  Turn'
    <3>1. ~together /\ Completable
      BY <1>12, <2>3
    <3>2. /\ \A i \in 2 .. Len(wire) : wire[i].kind \notin Lines
          /\ wire[1].of = sent
      BY <1>2, <1>7, <3>1 DEF Ready, Turn
    <3>3. /\ Len(wire') = Len(wire) - k
          /\ \A j \in 1 .. Len(wire) - k : wire'[j] = wire[k + j]
      BY <1>2, <1>6, AfterFacts
    <3>4. \A j \in 1 .. Len(wire') : wire'[j].kind \notin Lines
      <4> TAKE j \in 1 .. Len(wire')
      <4>1. k + j \in 2 .. Len(wire) /\ wire'[j] = wire[k + j]
        BY <1>2, <3>3
      <4>2. QED
        BY <3>2, <4>1
    <3>5. reply'.line = sent'
      BY <1>12, <1>15, <2>2, <3>1, <3>2
    <3>6. \A i \in 2 .. Len(wire') : i \in 1 .. Len(wire')
      BY <1>2, <3>3
    <3>7. Len(wire') > 0 => 1 \in 1 .. Len(wire')
      BY <1>2, <3>3
    <3>8. Lines' = Lines
      BY DEF Lines
    <3>9. QED
      BY <3>4, <3>5, <3>6, <3>7, <3>8 DEF Turn
  <2>4. QED
    BY <1>13, <2>2, <2>3 DEF Ready, ClosedForCause
<1>16. CASE state = "kParseRequestLine"
  <2> DEFINE taken == wire[1].kind = "request" /\ wire[1].method \in Known
  <2>1. /\ q.method = wire[1].method
        /\ IF taken
           THEN /\ q.ok \/ <<wire[1].of, "CSeq">> \in lacks
                /\ q.ok => /\ q.unread = <<>> /\ q.line = wire[1].of /\ q.cseq # 0
                           /\ \/ q.state = "kGotAll"
                              \/ /\ q.state = "kParseHeadersLine"
                                 /\ \E h \in Needed(wire[1].method) : <<wire[1].of, h>> \in lacks
           ELSE ~q.ok
    <3>1. s[1].kind \in Lines
      BY <1>7, <1>9
    <3>2. /\ q.method = s[1].method
          /\ IF s[1].kind = "request" /\ s[1].method \in Known
             THEN /\ q.ok \/ <<s[1].of, "CSeq">> \in lacks
                  /\ q.ok => /\ q.unread = <<>> /\ q.line = s[1].of /\ q.cseq # 0
                             /\ \/ q.state = "kGotAll"
                                \/ /\ q.state = "kParseHeadersLine"
                                   /\ \E h \in Needed(s[1].method) : <<s[1].of, h>> \in lacks
             ELSE ~q.ok
      BY <1>2, <1>3, <1>9, <1>10, <1>11, <1>16, <3>1, RequestParsed DEF q
    <3>3. QED
      BY <1>9, <3>2
  <2>2. CASE ~q.ok
    <3>1. BadRequest(q)
      BY <1>5, <2>2 DEF PartOfRequest, WholeRequest
    <3>2. closed' = "bad" /\ method' = wire[1].method
      BY <2>1, <3>1 DEF BadRequest, Close
    <3>3. \/ wire[1].method \notin Known
          \/ \E x \in {"url", "CSeq"} : <<wire[1].of, x>> \in lacks
      BY <1>7, <2>1, <2>2 DEF Lines
    <3>4. \/ method' \notin Known \cup {"none"}
          \/ \E lack \in lacks' : lack[2] \in {"url", "CSeq"}
      BY <1>7, <1>12, <3>2, <3>3
    <3>5. Known' = Known
      BY DEF Known
    <3>6. QED
      BY <3>2, <3>4, <3>5 DEF ClosedForCause
  <2>3. CASE q.ok /\ q.state = "kGotAll"
    BY <1>15, <2>1, <2>3
  <2>4. CASE q.ok /\ q.state # "kGotAll"
    <3>1. PICK h \in Needed(wire[1].method) : <<wire[1].of, h>> \in lacks
      BY <2>1, <2>4
    <3>2. h \in {"Accept", "Transport", "Session"}
      BY DEF Needed
    <3>3. ~Completable
      BY <3>1, <3>2 DEF Completable
    <3>4. QED
      BY <1>14, <2>1, <2>4, <3>3
  <2>5. QED
    BY <2>2, <2>3, <2>4
<1>17. CASE state = "kParseHeadersLine" /\ cseq # 0 /\ ~Completable
  <2>1. q.ok /\ q.unread = <<>> /\ q.cseq # 0 /\ q.state \in {"kParseHeadersLine", "kGotAll"}
    BY <1>2, <1>3, <1>11, <1>17, MoreParsed DEF q
  <2>2. QED
    BY <1>14, <1>15, <1>17, <2>1
<1>18. QED
  BY <1>16, <1>17 DEF Ready

\* With an empty buffer there is room for a read.
LEMMA SessionReadFails ==
  ASSUME BufferInv, Ready, ReadFails
  PROVE  closed' = "end"
<1>1. Writer = 0
  BY DEF Ready, Writer
<1>2. ~Refused
  BY <1>1, BufferAssumption DEF Refused, Crowded, Ready, BufferInv, Types
<1>3. QED
  BY <1>2 DEF ReadFails, Close

\* What the client writes.
LEMMA SessionWrites ==
  ASSUME BufferInv, Ready, Connected,
         UNCHANGED <<bufferVars, state, cseq, reply>>,
         \/ \E m \in Methods : SendRequest(m)
         \/ wire' = Append(wire, End) /\ UNCHANGED <<sent, lacks, together>>
  PROVE  Ready'
<1>1. /\ wire \in Texts /\ Len(wire) \in Nat /\ sent \in Nat /\ reply.line \in Nat
      /\ WholeRequests(wire, lacks) /\ DOMAIN wire = 1 .. Len(wire)
  BY TextFacts DEF BufferInv, Types, Ready
<1>2. ASSUME WholeRequests(wire', lacks'), lacks \subseteq lacks', ~together' /\ Completable' => Turn'
      PROVE  Ready'
  <2>1. Completable' => Completable
    BY <1>2 DEF Completable
  <2>2. QED
    BY <1>2, <2>1 DEF Ready, bufferVars
<1>3. ASSUME NEW m \in Methods, SendRequest(m)
      PROVE  Ready'
  <2>1. PICK lack : /\ lacks' = lacks \cup ({sent + 1} \X lack)
                    /\ \E h \in HeaderOrders(m, lack) : wire' = wire \o Request(sent + 1, m, lack, h)
    BY <1>3 DEF SendRequest
  <2>2. PICK h \in HeaderOrders(m, lack) : wire' = wire \o Request(sent + 1, m, lack, h)
    BY <2>1
  <2> DEFINE r == Request(sent + 1, m, lack, h)
  <2>3. /\ r \in Texts /\ WholeRequests(r, lacks') /\ 1 <= Len(r)
        /\ r[1].kind \in Lines /\ r[1].of = sent + 1
        /\ \A i \in 2 .. Len(r) : r[i].kind \notin Lines
    <3>1. sent + 1 \in Nat \ {0} /\ {sent + 1} \X lack \subseteq lacks'
      BY <1>1, <2>1
    <3>2. QED
      BY <3>1, WrittenWhole
  <2> HIDE DEF r
  <2>4. wire' = wire \o r /\ lacks \subseteq lacks'
    BY <2>1, <2>2 DEF r
  <2>5. WholeRequests(wire, lacks')
    BY <1>1, <2>4, WholeStill
  <2>6. WholeRequests(wire', lacks')
    BY <1>1, <2>3, <2>4, <2>5, WholeJoined
  <2>7. Lines' = Lines
    BY DEF Lines
  <2>8. ASSUME ~together', Completable'
        PROVE  Turn'
    <3>1. ~together /\ reply.line = sent /\ sent' = sent + 1 /\ Completable
      BY <1>3, <2>4, <2>8 DEF SendRequest, Completable
    <3>2. Len(wire) = 0
      <4> SUFFICES ASSUME Len(wire) > 0
                   PROVE  FALSE
        BY <1>1
      <4>1. Begins(wire[1]) /\ 1 \in 1 .. Len(wire)
        BY <1>1 DEF WholeRequests
      <4>2. wire[1].kind \in Lines
        BY <1>1, <4>1 DEF Begins, Connected
      <4>3. sent = reply.line + 1
        BY <3>1, <4>2 DEF Ready, Turn
      <4>4. QED
        BY <1>1, <3>1, <4>3
    <3>3. wire' = r
      <4>1. wire = <<>>
        BY <1>1, <3>2, EmptySeq DEF Texts
      <4>2. QED
        BY <2>3, <2>4, <4>1, ConcatEmptySeq DEF Texts
    <3>4. wire'[1].of = sent' /\ sent' = reply'.line + 1
      BY <2>3, <3>1, <3>3
    <3>5. QED
      BY <2>3, <2>7, <3>3, <3>4, TextFacts DEF Turn
  <2>9. QED
    BY <1>2, <2>4, <2>6, <2>8
<1>4. CASE wire' = Append(wire, End) /\ UNCHANGED <<sent, lacks, together>>
  <2>1. wire' = wire \o <<End>>
    BY <1>1, <1>4, AppendedFacts, Written
  <2>2. WholeRequests(wire', lacks')
    <3>1. <<End>> \in Texts /\ WholeRequests(<<End>>, lacks)
      BY WrittenWhole
    <3>2. WholeRequests(wire', lacks)
      BY <1>1, <2>1, <3>1, WholeJoined
    <3>3. QED
      BY <1>4, <3>2
  <2>3. ASSUME ~together', Completable'
        PROVE  Turn'
    <3>1. Turn
      BY <1>4, <2>3 DEF Ready, Completable
    <3>2. /\ Len(wire') = Len(wire) + 1
          /\ \A i \in 1 .. Len(wire) : wire'[i] = wire[i]
          /\ wire'[Len(wire) + 1] = End
      BY <1>1, <2>1, AppendedFacts, Written
    <3>3. End.kind \notin Lines /\ Lines' = Lines
      BY DEF End, Text, Lines
    <3>4. \A i \in 2 .. Len(wire') : wire'[i].kind \notin Lines
      <4> TAKE i \in 2 .. Len(wire')
      <4>1. (i \in 2 .. Len(wire) /\ i \in 1 .. Len(wire)) \/ i = Len(wire) + 1
        BY <1>1, <3>2
      <4>2. QED
        BY <3>1, <3>2, <3>3, <4>1 DEF Turn
    <3>5. CASE Len(wire) = 0
      <4>1. wire'[1].kind \notin Lines
        BY <1>1, <3>2, <3>3, <3>5
      <4>2. QED
        BY <1>1, <1>4, <3>1, <3>3, <3>4, <3>5, <4>1 DEF Turn
    <3>6. CASE Len(wire) > 0
      <4>1. wire'[1] = wire[1] /\ Len(wire') > 0
        BY <1>1, <3>2, <3>6
      <4>2. QED
        BY <1>1, <1>4, <3>1, <3>3, <3>4, <3>6, <4>1 DEF Turn
    <3>7. QED
      BY <1>1, <3>5, <3>6
  <2>4. QED
    BY <1>2, <1>4, <2>2, <2>3
<1>5. QED
  BY <1>3, <1>4

LEMMA SessionInitially == Init => ServerSession
<1> SUFFICES ASSUME Init
             PROVE  ServerSession
  OBVIOUS
<1>1. /\ wire = <<>> /\ unread = <<>> /\ reader = 0 /\ size = InitialSize /\ closed = "no"
      /\ state = "kParseRequestLine" /\ sent = 0 /\ reply.line = 0
  BY DEF Init, RequestInit, BufferInit
<1>2. WholeRequests(wire, lacks)
  <2>1. Len(wire) = 0 /\ 1 .. Len(wire) = {}
    BY <1>1
  <2>2. QED
    BY <2>1 DEF WholeRequests
<1>3. Turn
  <2>1. Len(wire) = 0 /\ 2 .. Len(wire) = {}
    BY <1>1
  <2>2. QED
    BY <1>1, <2>1 DEF Turn
<1>4. Ready
  BY <1>1, <1>2, <1>3 DEF Ready
<1>5. QED
  BY <1>1, <1>4 DEF ServerSession, ClosedForCause

LEMMA SessionStep ==
  ASSUME BufferInv, ServerSession, [Next]_vars
  PROVE  ServerSession'
<1> SUFFICES ASSUME connMode' = "RTSP_SERVER"
             PROVE  /\ ClosedForCause'
                    /\ (closed = "no" /\ ~split /\ rtcp = 0 => Ready)'
  BY DEF ServerSession
<1>1. connMode = "RTSP_SERVER"
  BY DEF Next, ServerSide, ClientSide, vars
<1>2. /\ ClosedForCause
      /\ closed = "no" /\ ~split /\ rtcp = 0 => Ready
  BY <1>1 DEF ServerSession
<1>3. CASE ServerSide
  <2>1. CASE HandleRead
    <3>1. closed = "no" /\ rtcp' = rtcp /\ (split => split')
      BY <2>1 DEF HandleRead, clientVars, ReadFd
    <3>2. ~split' /\ rtcp' = 0 => ClosedForCause' /\ (closed' = "no" => Ready')
      BY <1>2, <2>1, <3>1, SessionRead
    <3>3. split' \/ rtcp' # 0 => ClosedForCause'
      BY <3>1 DEF ClosedForCause, BufferInv, Types
    <3>4. QED
      BY <3>2, <3>3
  <2>2. CASE HandleReadFails
    <3>1. ReadFails /\ closed = "no" /\ UNCHANGED <<split, rtcp, method, lacks>>
      BY <2>2 DEF HandleReadFails, ReadFails, clientVars, parserVars
    <3>2. closed' \in {"full", "end"}
      BY <3>1 DEF ReadFails, Close
    <3>3. ~split /\ rtcp = 0 => closed' = "end"
      BY <1>2, <3>1, SessionReadFails
    <3>4. QED
      BY <3>1, <3>2, <3>3 DEF ClosedForCause, BufferInv, Types
  <2>3. CASE (\E m \in Methods : SendRequest(m)) \/ ClientHangup
    <3>1. /\ Connected /\ UNCHANGED <<bufferVars, split, closed, state, cseq, reply, rtcp>>
          /\ method' = method /\ lacks \subseteq lacks'
          /\ \/ \E m \in Methods : SendRequest(m)
             \/ wire' = Append(wire, End) /\ UNCHANGED <<sent, lacks, together>>
      BY <2>3 DEF SendRequest, ClientHangup, Hangup, parserVars, clientVars
    <3>2. Ready => Ready'
      BY <3>1, SessionWrites
    <3>3. QED
      BY <1>2, <3>1, <3>2 DEF ClosedForCause
  <2>4. CASE SendRtcp
    <3>1. closed = "no" /\ closed' = "no" /\ rtcp' # 0
      BY <2>4 DEF SendRtcp, Connected, BufferInv, Types
    <3>2. QED
      BY <3>1 DEF ClosedForCause
  <2>5. QED
    BY <1>3, <2>1, <2>2, <2>3, <2>4 DEF ServerSide, RequestNext
<1>4. CASE ClientSide
  BY <1>1, <1>4 DEF ClientSide
<1>5. CASE UNCHANGED vars
  <2>1. /\ UNCHANGED <<wire, unread, reader, size, split, closed>>
        /\ UNCHANGED <<state, method, cseq, sent, rtcp, lacks, together, reply>>
    BY <1>5 DEF vars, streamVars, bufferVars, parserVars, clientVars
  <2>2. QED
    BY <1>2, <2>1 DEF ClosedForCause, Completable, Ready, Turn
<1>6. QED
  BY <1>3, <1>4, <1>5 DEF Next

LEMMA ServerSessionInvariant == Spec => []ServerSession
<1>1. Init => ServerSession
  BY SessionInitially
<1>2. BufferInv /\ ServerSession /\ [Next]_vars => ServerSession'
  BY SessionStep
<1>3. QED
  BY <1>1, <1>2, BufferInvariant, PTL DEF Spec

\* Whatever requests a client sends, how many at a time and with their headers in
\* whatever order: if they arrive whole, without RTCP and with the headers their
\* methods need, every read that does not close the connection leaves the parser
\* ready for the next one, and one that was sent by itself is answered
\* (RtspConnection.cpp:55-90, 154-201).
THEOREM ServerStaysInStep == Spec => []ServerInStep
<1>1. ServerSession => ServerInStep
  <2> SUFFICES ASSUME ServerSession, connMode = "RTSP_SERVER", closed = "no", ~split, rtcp = 0,
                      Completable
               PROVE  /\ unread = <<>> /\ state = "kParseRequestLine"
                      /\ ~together /\ wire = <<>> => reply.line = sent
    BY DEF ServerInStep, InStep
  <2>1. Ready
    BY DEF ServerSession
  <2>2. wire = <<>> => ~(Len(wire) > 0)
    OBVIOUS
  <2>3. QED
    BY <2>1, <2>2 DEF Ready, Turn
<1>2. QED
  BY <1>1, ServerSessionInvariant, PTL

\* For every client whose requests all have a CSeq and a URL the server takes, and
\* that has not used a method it does not know: the server closes its connection
\* over a request it cannot read, or a buffer that is full, only after a request
\* in pieces or RTCP on the stream (RtspMessage.cpp:15-51, 60-139,
\* xop/BufferReader.cpp:23-44).
THEOREM ServerClosesOnlyForCause == Spec => []ServerClosesForCause
<1>1. ServerSession => ServerClosesForCause
  BY DEF ServerSession, ServerClosesForCause
<1>2. QED
  BY <1>1, ServerSessionInvariant, PTL

-----------------------------------------------------------------------------
(* Responses that arrive whole *)

Responded(s) ==
  /\ Len(s) \in 4 .. 5
  /\ s[1].kind = "head" /\ s[2].kind \in {"OK", "error"} /\ s[3].kind = "fields"
  /\ s[4].kind = "blank" /\ s[4].method = s[2].kind
  /\ Len(s) = 5 => s[5] = End

\* The answer to the last request is on the way, or the pusher has it, and the
\* next request is for it to send or for the server to answer.
Waiting ==
  /\ unread = <<>> /\ stale \in Texts /\ Len(stale) <= 4
  /\ rcseq = heard /\ ~refusal
  /\ heard <= served /\ served <= Len(requests)
  /\ IF heard = served THEN wire = <<>> \/ wire = <<End>> ELSE Responded(wire)

PusherSession ==
  connMode = "RTSP_CLIENT" =>
    /\ heard \in Nat /\ served \in Nat
    /\ opening # "yes" => /\ closed = "no" /\ ~split /\ ~closing
                          /\ wire = <<>> /\ requests = <<>>
    /\ OneAtATime
    /\ closed = "no" /\ ~split => Waiting

\* A read that ends where a response does takes the one that is there.
LEMMA ResponseRead ==
  ASSUME wire \in Texts, Waiting, NEW k \in 1 .. Len(wire), ReadFd(k, {"head", "end"}), ~split'
  PROVE  /\ heard # served /\ k = 4 /\ Responded(wire)
         /\ wire' = <<>> \/ wire' = <<End>>
         /\ Received(4) \in Texts /\ Len(Received(4)) = 4
         /\ \A i \in 1 .. 4 : Received(4)[i] = wire[i]
         /\ Beyond(4) = <<>>
         /\ Ends(4) = {4}
<1>1. /\ \A i \in 1 .. k : wire[i] # End
      /\ wire' = SubSeq(wire, k + 1, Len(wire))
      /\ k < Len(wire) => wire[k + 1].kind \in {"head", "end"}
  BY DEF ReadFd
<1>2. heard # served /\ Responded(wire)
  <2> SUFFICES ASSUME wire = <<>> \/ wire = <<End>>
               PROVE  FALSE
    BY DEF Waiting
  <2>1. CASE Len(wire) = 0
    BY <2>1
  <2>2. CASE wire = <<End>>
    <3>1. Len(wire) = 1 /\ wire[1] = End
      BY <2>2
    <3>2. k = 1
      BY <3>1
    <3>3. QED
      BY <1>1, <3>1, <3>2
  <2>3. wire = <<>> => Len(wire) = 0
    OBVIOUS
  <2>4. QED
    BY <2>1, <2>2, <2>3
<1>3. /\ Len(wire) \in {4, 5} /\ wire[1].kind = "head" /\ wire[2].kind \in {"OK", "error"}
      /\ wire[3].kind = "fields" /\ wire[4].kind = "blank" /\ (Len(wire) = 5 => wire[5] = End)
  BY <1>2 DEF Responded
<1>4. k = 4
  <2>1. k \in 1 .. 5
    <3>1. CASE Len(wire) = 4
      BY <3>1
    <3>2. CASE Len(wire) = 5
      BY <3>2
    <3>3. QED
      BY <1>3, <3>1, <3>2
  <2>2. k # 1 /\ k # 2 /\ k # 3
    BY <1>1, <1>3
  <2>3. k # 5
    BY <1>1, <1>3
  <2>4. QED
    BY <2>1, <2>2, <2>3
<1>5. wire' = <<>> \/ wire' = <<End>>
  <2>1. wire' = After(wire, 4) /\ 4 \in 0 .. Len(wire)
    BY <1>1, <1>3, <1>4 DEF After
  <2>2. CASE Len(wire) = 4
    BY <2>1, <2>2, AfterAll
  <2>3. CASE Len(wire) = 5
    <3>1. wire' \in Texts /\ Len(wire') = 1 /\ wire'[1] = wire[5]
      <4>1. /\ wire' \in Texts /\ Len(wire') = Len(wire) - 4
            /\ \A j \in 1 .. Len(wire) - 4 : wire'[j] = wire[4 + j]
        BY <2>1, AfterFacts
      <4>2. QED
        BY <2>3, <4>1
    <3>2. <<End>> \in Texts /\ Len(<<End>>) = 1 /\ <<End>>[1] = End
      BY WrittenWhole
    <3>3. \A i \in 1 .. 1 : wire'[i] = <<End>>[i]
      BY <1>3, <2>3, <3>1, <3>2
    <3>4. wire' = <<End>>
      BY <3>1, <3>2, <3>3, SeqEqual DEF Texts
    <3>5. QED
      BY <3>4
  <2>4. QED
    BY <1>3, <2>2, <2>3
<1>6. /\ Received(4) \in Texts /\ Len(Received(4)) = 4
      /\ \A i \in 1 .. 4 : Received(4)[i] = wire[i]
  <2>1. 4 \in 0 .. Len(wire)
    BY <1>3
  <2>2. /\ SubSeq(wire, 1, 4) \in Texts /\ Len(SubSeq(wire, 1, 4)) = 4
        /\ \A i \in 1 .. 4 : SubSeq(wire, 1, 4)[i] = wire[i]
    BY <2>1, FrontFacts
  <2>3. Received(4) = SubSeq(wire, 1, 4)
    BY <2>2, ConcatEmptySeq DEF Received, Waiting, Texts
  <2>4. QED
    BY <2>2, <2>3
<1>7. Beyond(4) = <<>>
  <2>1. Len(stale) \in Int /\ 4 + 1 \in Int /\ Len(stale) < 4 + 1
    BY TextFacts DEF Waiting
  <2>2. QED
    BY <2>1, SubSeqEmpty DEF Beyond
<1>8. Ends(4) = {4}
  <2>1. \A i \in 1 .. 4 : wire[i].kind = "blank" <=> i = 4
    BY <1>3
  <2>2. 4 \in 1 .. 4
    OBVIOUS
  <2>3. QED
    BY <2>1, <2>2 DEF Ends
<1>9. QED
  BY <1>2, <1>4, <1>5, <1>6, <1>7, <1>8

\* What follows a response that was granted: a request with the next number, the
\* end of the connection, or the frames.
LEMMA NextSent ==
  ASSUME closed = "no", NextRequest
  PROVE  \/ /\ \E m \in Asked :
                 requests' = Append(requests, [method |-> m, cseq |-> rcseq' + 1])
            /\ playing' = playing /\ closed' = "no"
         \/ requests' = requests /\ playing' = playing /\ closed' = "session"
         \/ requests' = requests /\ playing' = TRUE /\ closed' = "no"
<1>1. CASE SendAnnounce
  <2>1. CASE Send("ANNOUNCE") /\ UNCHANGED closed
    BY <1>1, <2>1 DEF SendAnnounce, Send, Asked
  <2>2. CASE Close("session") /\ UNCHANGED <<rmethod, requests>>
    BY <1>1, <2>2 DEF SendAnnounce, Close
  <2>3. QED
    BY <1>1, <2>1, <2>2 DEF SendAnnounce
<1>2. CASE SendSetup
  <2>1. CASE \E m \in {"SETUP", "RECORD"} : Send(m) /\ UNCHANGED closed
    BY <1>2, <2>1 DEF SendSetup, Send, Asked
  <2>2. CASE Close("session") /\ UNCHANGED requests
    BY <1>2, <2>2 DEF SendSetup, Close
  <2>3. QED
    BY <1>2, <2>1, <2>2 DEF SendSetup
<1>3. CASE HandleRecord
  BY <1>3 DEF HandleRecord
<1>4. QED
  BY <1>1, <1>2, <1>3 DEF NextRequest

LEMMA PusherReads ==
  ASSUME BufferInv, PushInv, Waiting, OneAtATime, heard \in Nat, served \in Nat,
         HandleResponse, ~split, ~split'
  PROVE  /\ OneAtATime' /\ heard' \in Nat
         /\ closed' = "no" => Waiting'
<1>1. PICK k \in 1 .. Len(wire) :
        /\ ReadFd(k, {"head", "end"})
        /\ heard' = heard + Cardinality(Ends(k))
        /\ refusal' = (refusal \/ \E i \in Ends(k) : wire[i].method = "error")
        /\ LET seen == Kinds(Received(k) \o Beyond(k))
           IN  BadResponse(k, seen) \/ WholeResponse(k, seen) \/ PartOfResponse(k, seen)
  BY DEF HandleResponse
<1>2. wire \in Texts /\ requests \in Seq(Requests) /\ Len(requests) \in Nat
      /\ DOMAIN requests = 1 .. Len(requests) /\ closed = "no" /\ served' = served
  BY LenProperties DEF BufferInv, Types, PushInv, HandleResponse
<1>3. /\ heard # served /\ k = 4 /\ Responded(wire)
      /\ wire' = <<>> \/ wire' = <<End>>
      /\ Received(4) \in Texts /\ Len(Received(4)) = 4
      /\ \A i \in 1 .. 4 : Received(4)[i] = wire[i]
      /\ Beyond(4) = <<>>
      /\ Ends(4) = {4}
  BY <1>1, <1>2, ResponseRead
<1>4. /\ wire[2].kind \in {"OK", "error"} /\ wire[1].kind = "head" /\ wire[3].kind = "fields"
      /\ wire[4].kind = "blank" /\ wire[4].method = wire[2].kind
  BY <1>3 DEF Responded
<1> DEFINE seen == Kinds(Received(4) \o Beyond(4))
<1>5. Received(4) \o Beyond(4) = Received(4)
  BY <1>3, ConcatEmptySeq DEF Texts
<1>6. "blank" \in seen /\ (IsGood(seen) <=> wire[2].kind = "OK")
  <2>1. DOMAIN Received(4) = 1 .. 4
    BY <1>3, TextFacts
  <2>2. seen = {Received(4)[i].kind : i \in 1 .. 4}
    BY <1>5, <2>1 DEF Kinds
  <2>3. seen = {wire[i].kind : i \in 1 .. 4}
    BY <1>3, <2>2
  <2>4. \A x : x \in seen <=> x \in {wire[1].kind, wire[2].kind, wire[3].kind, wire[4].kind}
    BY <2>3
  <2> HIDE DEF seen
  <2>5. QED
    BY <1>4, <2>4 DEF IsGood
<1>7. heard' = heard + 1
  <2>1. Cardinality({4}) = 1
    BY FS_Singleton
  <2>2. QED
    BY <1>1, <1>3, <2>1
<1>8. refusal' <=> wire[2].kind = "error"
  <2>1. refusal' = \E i \in {4} : wire[i].method = "error"
    BY <1>1, <1>3 DEF Waiting
  <2>2. QED
    BY <1>4, <2>1
<1>9. BadResponse(4, seen) \/ WholeResponse(4, seen) \/ PartOfResponse(4, seen)
  BY <1>1, <1>3
<1> HIDE DEF seen
<1>10. /\ heard < served /\ served <= Len(requests) /\ Len(requests) = heard + 1 /\ ~playing
       /\ \A i \in DOMAIN requests : requests[i].cseq = i
       /\ rcseq = heard
  <2>1. /\ heard <= served /\ served <= Len(requests) /\ Len(requests) <= heard + 1
        /\ \A i \in DOMAIN requests : requests[i].cseq = i
        /\ rcseq = heard
    BY DEF Waiting, OneAtATime
  <2>2. heard < served /\ Len(requests) = heard + 1 /\ heard # Len(requests)
    <3>1. heard # served /\ Len(requests) \in Nat
      BY <1>2, <1>3
    <3>2. QED
      BY <2>1, <3>1
  <2>3. ~playing
    BY <2>2, Zenon DEF OneAtATime
  <2>4. QED
    BY <2>1, <2>2, <2>3
<1>11. CASE wire[2].kind = "error"
  <2>1. BadResponse(4, seen)
    BY <1>4, <1>6, <1>9, <1>11 DEF WholeResponse, PartOfResponse
  <2>2. closed' = "bad" /\ requests' = requests /\ playing' = playing
    BY <2>1 DEF BadResponse, Close, clientState
  <2>3. QED
    BY <1>2, <1>7, <1>10, <2>2 DEF OneAtATime
<1>12. CASE wire[2].kind = "OK"
  <2>1. WholeResponse(4, seen)
    BY <1>4, <1>6, <1>9, <1>12 DEF BadResponse, PartOfResponse
  <2>2. rcseq' = heard' /\ unread' = <<>> /\ stale' = Received(4) /\ NextRequest
    BY <1>5, <1>7, <1>10, <2>1 DEF WholeResponse, Retrieved
  <2>3. ~refusal'
    BY <1>8, <1>12
  <2>4. /\ OneAtATime'
        /\ Len(requests') >= served
    <3>1. CASE /\ \E m \in Asked :
                    requests' = Append(requests, [method |-> m, cseq |-> rcseq' + 1])
               /\ playing' = playing
      <4>1. PICK m \in Asked :
              requests' = Append(requests, [method |-> m, cseq |-> rcseq' + 1])
        BY <3>1
      <4> DEFINE r == [method |-> m, cseq |-> rcseq' + 1]
      <4>2. r \in Requests /\ r.cseq = heard + 1 + 1
        BY <1>7, <2>2 DEF Requests
      <4> HIDE DEF r
      <4>3. /\ requests' \in Seq(Requests) /\ Len(requests') = Len(requests) + 1
            /\ \A i \in 1 .. Len(requests) : requests'[i] = requests[i]
            /\ requests'[Len(requests) + 1] = r
        BY <1>2, <4>1, <4>2, AppendProperties DEF r
      <4>4. DOMAIN requests' = 1 .. Len(requests) + 1
        BY <4>3, LenProperties
      <4>5. \A i \in DOMAIN requests' : requests'[i].cseq = i
        BY <1>2, <1>10, <4>2, <4>3, <4>4
      <4>6. QED
        BY <1>2, <1>7, <1>10, <2>3, <3>1, <4>3, <4>5 DEF OneAtATime
    <3>2. CASE requests' = requests
      BY <1>2, <1>7, <1>10, <2>3, <3>2 DEF OneAtATime
    <3>3. QED
      BY <1>2, <2>2, <3>1, <3>2, NextSent
  <2>5. heard' <= served' /\ heard' = served'
    BY <1>2, <1>7, <1>10
  <2>6. Waiting'
    <3>1. stale' \in Texts /\ Len(stale') <= 4
      <4>1. stale' = Received(4)
        BY <2>2
      <4>2. Received(4) \in Texts /\ Len(Received(4)) = 4
        BY <1>3, Zenon
      <4>3. stale' \in Texts /\ Len(stale') = 4
        BY <4>1, <4>2, Zenon
      <4>4. QED
        BY <4>3
    <3>2. served' <= Len(requests') /\ heard' <= served'
      <4>1. served' = served /\ Len(requests') >= served
        BY <1>2, <2>4
      <4>2. QED
        BY <2>5, <4>1
    <3>3. wire' = <<>> \/ wire' = <<End>>'
      BY <1>3 DEF End, Text
    <3>4. QED
      BY <2>2, <2>3, <2>5, <3>1, <3>2, <3>3 DEF Waiting
  <2>7. QED
    BY <1>7, <2>4, <2>6
<1>13. QED
  BY <1>4, <1>11, <1>12

\* The server answers the request that waits, or hangs up.
LEMMA PusherServed ==
  ASSUME wire \in Texts, Waiting, Connected, heard \in Nat, served \in Nat, OneAtATime, ~split,
         requests \in Seq(Requests),
         UNCHANGED <<unread, stale, rcseq, refusal, heard, requests>>,
         \/ /\ served < Len(requests) /\ served' = served + 1
            /\ \E word \in {"OK", "error"} : wire' = wire \o Response(word)
         \/ served' = served /\ wire' = Append(wire, End)
  PROVE  Waiting'
<1>1. /\ Len(wire) \in Nat /\ DOMAIN wire = 1 .. Len(wire)
      /\ \A i \in 1 .. Len(wire) : wire[i] # End
      /\ Len(requests) \in Nat /\ Len(requests) <= heard + 1
  BY TextFacts, LenProperties DEF Connected, OneAtATime
<1>2. /\ unread = <<>> /\ stale \in Texts /\ Len(stale) <= 4 /\ rcseq = heard /\ ~refusal
      /\ heard <= served /\ served <= Len(requests)
      /\ IF heard = served THEN wire = <<>> \/ wire = <<End>> ELSE Responded(wire)
  BY DEF Waiting
<1>3. wire # <<End>>
  <2>1. Len(<<End>>) = 1 /\ <<End>>[1] = End
    OBVIOUS
  <2>2. QED
    BY <1>1, <2>1
<1>4. ASSUME served' \in Nat, heard <= served', served' <= Len(requests),
             IF heard = served' THEN wire' = <<>> \/ wire' = <<End>> ELSE Responded(wire')
      PROVE  Waiting'
  <2>1. <<End>>' = <<End>>
    BY DEF End, Text
  <2>2. QED
    BY <1>2, <1>4, <2>1 DEF Waiting, Responded
<1>5. CASE /\ served < Len(requests) /\ served' = served + 1
           /\ \E word \in {"OK", "error"} : wire' = wire \o Response(word)
  <2>1. PICK word \in {"OK", "error"} : wire' = wire \o Response(word)
    BY <1>5
  <2>2. heard = served
    BY <1>1, <1>2, <1>5
  <2>3. wire = <<>>
    BY <1>2, <1>3, <2>2
  <2>4. wire' = Response(word)
    BY <2>1, <2>3, Written, ConcatEmptySeq DEF Texts
  <2>5. Responded(wire')
    <3>1. /\ Len(wire') = 4
          /\ wire'[1] = Text("head", 0, "none") /\ wire'[2] = Text(word, 0, "none")
          /\ wire'[3] = Text("fields", 0, "none") /\ wire'[4] = Text("blank", 0, word)
      BY <2>4 DEF Response
    <3>2. QED
      BY <2>1, <3>1 DEF Responded, Text
  <2>6. served' \in Nat /\ heard # served' /\ heard <= served' /\ served' <= Len(requests)
    BY <1>1, <1>5, <2>2
  <2>7. QED
    BY <1>4, <2>5, <2>6
<1>6. CASE served' = served /\ wire' = Append(wire, End)
  <2>1. /\ Len(wire') = Len(wire) + 1
        /\ \A i \in 1 .. Len(wire) : wire'[i] = wire[i]
        /\ wire'[Len(wire) + 1] = End
    BY <1>6, AppendedFacts, Written
  <2>2. CASE heard = served
    <3>1. wire = <<>>
      BY <1>2, <1>3, <2>2
    <3>2. wire' = <<End>>
      BY <1>6, <3>1
    <3>3. QED
      BY <1>2, <1>4, <1>6, <2>2, <3>2
  <2>3. CASE heard # served
    <3>1. Responded(wire)
      BY <1>2, <2>3
    <3>2. Len(wire) = 4
      <4>1. Len(wire) # 5
        BY <1>1, <3>1 DEF Responded
      <4>2. QED
        BY <3>1, <4>1 DEF Responded
    <3>3. Responded(wire')
      BY <2>1, <3>1, <3>2 DEF Responded
    <3>4. QED
      BY <1>2, <1>4, <1>6, <2>3, <3>3
  <2>4. QED
    BY <2>2, <2>3
<1>7. QED
  BY <1>5, <1>6

LEMMA PusherInitially == Init => PusherSession
<1> SUFFICES ASSUME Init
             PROVE  PusherSession
  OBVIOUS
<1>1. /\ wire = <<>> /\ unread = <<>> /\ closed = "no" /\ ~split /\ stale = <<>>
      /\ requests = <<>> /\ rcseq = 0 /\ served = 0 /\ heard = 0 /\ ~refusal /\ ~playing
      /\ ~closing
  BY DEF Init, PusherInit, BufferInit
<1>2. stale \in Texts /\ Len(stale) = 0 /\ Len(requests) = 0 /\ DOMAIN requests = {}
  BY <1>1 DEF Texts
<1>3. Waiting
  BY <1>1, <1>2 DEF Waiting
<1>4. OneAtATime
  BY <1>1, <1>2 DEF OneAtATime
<1>5. QED
  BY <1>1, <1>3, <1>4 DEF PusherSession

LEMMA PusherStays ==
  ASSUME BufferInv, PushInv, PusherSession, [Next]_vars
  PROVE  PusherSession'
<1> DEFINE Rest == /\ heard \in Nat /\ served \in Nat
                   /\ opening # "yes" => /\ closed = "no" /\ ~split /\ ~closing
                                         /\ wire = <<>> /\ requests = <<>>
                   /\ OneAtATime
                   /\ closed = "no" /\ ~split => Waiting
<1> SUFFICES ASSUME connMode' = "RTSP_CLIENT"
             PROVE  Rest'
  BY DEF PusherSession
<1>1. connMode = "RTSP_CLIENT"
  BY DEF Next, ServerSide, ClientSide, vars
<1>2. Rest
  BY <1>1 DEF PusherSession
<1>3. wire \in Texts /\ requests \in Seq(Requests) /\ Len(requests) \in Nat
  BY LenProperties DEF BufferInv, Types, PushInv
<1>4. CASE HandleResponse
  <2>1. /\ closed = "no" /\ opening' = opening /\ served' = served /\ (split => split')
        /\ \E k \in 1 .. Len(wire) : heard' = heard + Cardinality(Ends(k))
    BY <1>4 DEF HandleResponse, callerVars, ReadFd
  <2>2. heard' \in Nat
    <3>1. PICK k \in 1 .. Len(wire) : heard' = heard + Cardinality(Ends(k))
      BY <2>1
    <3>2. k \in Nat /\ Ends(k) \subseteq 1 .. k
      BY <1>3, TextFacts DEF Ends
    <3>3. Cardinality(Ends(k)) \in Nat
      <4>1. IsFiniteSet(1 .. k)
        BY <3>2, FS_Interval
      <4>2. QED
        BY <3>2, <4>1, FS_Subset, FS_CardinalityType
    <3>4. QED
      BY <1>2, <3>1, <3>3
  <2>3. opening = "yes"
    <3> SUFFICES ASSUME opening # "yes"
                 PROVE  FALSE
      OBVIOUS
    <3>1. wire = <<>>
      BY <1>2
    <3>2. PICK k \in 1 .. Len(wire) : TRUE
      BY <2>1
    <3>3. QED
      BY <3>1
  <2>4. CASE split'
    BY <1>2, <2>1, <2>2, <2>3, <2>4 DEF OneAtATime
  <2>5. CASE ~split'
    <3>1. ~split /\ Waiting
      BY <1>2, <2>1, <2>5
    <3>2. OneAtATime' /\ (closed' = "no" => Waiting')
      BY <1>2, <1>4, <2>5, <3>1, PusherReads
    <3>3. QED
      BY <1>2, <2>1, <2>2, <2>3, <3>2
  <2>6. QED
    BY <2>4, <2>5
<1>5. CASE NewClient
  <2>1. /\ opening = "posted" /\ opening' = "yes" /\ rcseq' = rcseq
        /\ UNCHANGED <<wire, unread, split, closed, playing, stale, served, heard, refusal>>
        /\ requests' = Append(requests, [method |-> "OPTIONS", cseq |-> rcseq' + 1])
    BY <1>5 DEF NewClient, Send, streamVars, bufferVars
  <2>2. closed = "no" /\ ~split /\ requests = <<>> /\ Waiting
    BY <1>2, <2>1
  <2>3. Len(requests) = 0 /\ served = 0 /\ heard = 0 /\ rcseq = 0 /\ ~refusal
    <3>1. Len(requests) = 0
      BY <2>2
    <3>2. QED
      BY <1>2, <2>2, <3>1 DEF Waiting
  <2>4. ~playing
    <3>1. rmethod # "RECORD"
      BY <2>1 DEF PushInv, Stage
    <3>2. QED
      BY <3>1, Zenon DEF PushInv, PlayLast
  <2>5. Len(requests') = 1 /\ DOMAIN requests' = {1} /\ requests'[1].cseq = 1
    BY <2>1, <2>2, <2>3
  <2>6. OneAtATime'
    BY <2>1, <2>3, <2>4, <2>5 DEF OneAtATime
  <2>7. Waiting'
    <3>1. <<End>>' = <<End>>
      BY DEF End, Text
    <3>2. /\ unread = <<>> /\ stale \in Texts /\ Len(stale) <= 4
          /\ wire = <<>> \/ wire = <<End>>
      BY <2>2, <2>3 DEF Waiting
    <3>3. QED
      BY <2>1, <2>3, <2>5, <3>1, <3>2 DEF Waiting
  <2>8. QED
    BY <1>2, <2>1, <2>6, <2>7
<1>6. CASE Respond \/ ServerHangup
  <2>1. /\ Connected
        /\ UNCHANGED <<unread, split, closed, opening, playing, requests, rcseq, stale>>
        /\ UNCHANGED <<closing, heard, refusal>>
        /\ \/ /\ served < Len(requests) /\ served' = served + 1
              /\ \E word \in {"OK", "error"} : wire' = wire \o Response(word)
           \/ served' = served /\ wire' = Append(wire, End) /\ opening = "yes"
    BY <1>6 DEF Respond, ServerHangup, Hangup, bufferVars, pusherVars, callerVars, clientState
  <2>2. OneAtATime'
    BY <1>2, <2>1 DEF OneAtATime
  <2>3. closed = "no" /\ ~split => Waiting'
    BY <1>2, <1>3, <2>1, PusherServed
  <2>4. opening = "yes"
    <3>1. requests = <<>> => Len(requests) = 0
      OBVIOUS
    <3>2. QED
      BY <1>2, <2>1, <3>1
  <2>5. QED
    BY <1>2, <2>1, <2>2, <2>3, <2>4
<1>7. CASE ResponseFails \/ HandleClosing
  <2>1. /\ closed' # "no" /\ split' = split
        /\ UNCHANGED <<opening, playing, requests, heard, served, refusal>>
    BY <1>7 DEF ResponseFails, HandleClosing, ReadFails, Close, pusherVars, callerVars, clientState
  <2>2. wire # <<>> \/ closing
    BY <1>7 DEF ResponseFails, HandleClosing, ReadFails
  <2>3. opening = "yes"
    BY <1>2, <2>2
  <2>4. QED
    BY <1>2, <2>1, <2>3 DEF OneAtATime
<1>8. CASE OpenUrl \/ RemoveMediaSession \/ CloseUrl \/ UNCHANGED vars
  <2>1. /\ UNCHANGED <<wire, unread, split, closed>>
        /\ UNCHANGED <<rcseq, playing, requests, stale, served, heard, refusal>>
        /\ opening' = "yes" <=> opening = "yes"
        /\ opening # "yes" => closing' = closing
    BY <1>8 DEF OpenUrl, RemoveMediaSession, CloseUrl, vars, streamVars, bufferVars, pusherVars,
      callerVars, clientState
  <2>2. OneAtATime'
    BY <1>2, <2>1 DEF OneAtATime
  <2>3. Waiting => Waiting'
    <3>1. <<End>>' = <<End>> /\ (Responded(wire) => Responded(wire'))
      BY <2>1 DEF Responded, End, Text
    <3>2. QED
      BY <2>1, <3>1 DEF Waiting
  <2>4. QED
    BY <1>2, <2>1, <2>2, <2>3
<1>9. QED
  BY <1>1, <1>4, <1>5, <1>6, <1>7, <1>8 DEF Next, ServerSide, ClientSide, PusherNext, PusherStep

\* A server that grants or refuses, is slow, or hangs up, and an application that
\* closes or takes the session away: with responses that arrive whole every
\* request waits for the grant of the one before and has the next number, and
\* frames wait for that of RECORD (RtspConnection.cpp:203-237, 530-659).
THEOREM PusherTakesTurns == Spec => []PusherWaits
<1>1. Init => PusherSession
  BY PusherInitially
<1>2. Spec => []PushInv
  <2>1. Init => PushInv
    BY PushInitially
  <2>2. PushInv /\ [Next]_vars => PushInv'
    BY PushStep
  <2>3. QED
    BY <2>1, <2>2, PTL DEF Spec
<1>3. BufferInv /\ PushInv /\ PusherSession /\ [Next]_vars => PusherSession'
  BY PusherStays
<1>4. PusherSession => PusherWaits
  BY DEF PusherSession, PusherWaits
<1>5. QED
  BY <1>1, <1>2, <1>3, <1>4, BufferInvariant, PTL DEF Spec
=============================================================================
