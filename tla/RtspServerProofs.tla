-------------------------- MODULE RtspServerProofs --------------------------
(***************************************************************************)
(* What RtspServer keeps for any number of connections, sessions and       *)
(* descriptors.  TypeInv holds always; Lifetime, from which OwnDescriptor, *)
(* ErasedOnce and CountsOnline follow, holds with sessions removed at any  *)
(* time and tracks set up again, as long as no client describes a second   *)
(* URL; Hearing, from which NoDangling and Attended follow, needs besides  *)
(* that no session is removed and no UDP track is set up twice.            *)
(***************************************************************************)
EXTENDS RtspServer, FiniteSetTheorems, TLAPS

-----------------------------------------------------------------------------
(* Types *)

HasSocket(c) == conn[c].fd \in Fds

\* A handler in two steps has its connection, a DESCRIBE its session, the
\* heartbeat visits entries that are there, and all of them have a socket.
Handling ==
  /\ \A c \in alive : HasSocket(c)
  /\ \A f \in Fds : connections[f] # None => HasSocket(connections[f])
  /\ doing # "nothing" => actor \in Conns /\ HasSocket(actor)
  /\ doing = "describe" => hold \in Sessions
  /\ phase = "beat" => \A f \in beat : connections[f] # None

TypeInv == TypeOK /\ Handling

-----------------------------------------------------------------------------
(* Lifetime *)

\* The objects that exist and the entries of _connections name each other.
Filed ==
  /\ \A c \in alive : /\ conn[c].fd \in files /\ connections[conn[c].fd] = c
                      /\ conn[c].peer # "new"
  /\ \A f \in Fds : connections[f] # None =>
       connections[f] \in alive /\ conn[connections[f]].fd = f

\* What a connection will be made from has no past.
Fresh == \A c \in Conns : conn[c].peer = "new" =>
           ~conn[c].closed /\ conn[c].sid = None /\ conn[c].rtcpfd = None

\* The RTCP socket of a connection is open and nobody else's.
OwnRtcp ==
  \A c \in alive : conn[c].rtcpfd # None =>
    /\ conn[c].rtcpfd \in files
    /\ \A d \in alive : /\ conn[d].fd # conn[c].rtcpfd
                        /\ d # c => conn[d].rtcpfd # conn[c].rtcpfd

\* The handler the loop thread is in the middle of.
Midway ==
  /\ doing = "nothing" => hold = None
  /\ doing # "nothing" => actor \in alive /\ phase \in {"io", "beat"}
  /\ doing = "describe" =>
       /\ session[hold] # "new" /\ ~conn[actor].closed
       /\ \A s \in Sessions : session[s] = "added" /\ clients[s][conn[actor].fd] = actor
            => s = hold
  /\ doing = "close" => conn[actor].closed

\* Sessions that are served have different suffixes, and clients are filed under
\* their own descriptor.
Members ==
  /\ \A s, t \in Sessions : session[s] = "added" /\ session[t] = "added" /\ Url[s] = Url[t]
                              => s = t
  /\ \A s \in Sessions, f \in Fds : clients[s][f] # None =>
       /\ clients[s][f] \in alive /\ conn[clients[s][f]].fd = f
       /\ session[s] # "new"
  /\ \A s \in Sessions, c \in alive : conn[c].sid = s => session[s] # "new"

\* A session that is served has exactly the connections that described it last
\* and are not closed, and the one that is being closed.
Joined ==
  \A s \in Sessions, c \in alive : session[s] = "added" =>
    /\ clients[s][conn[c].fd] = c => conn[c].sid = s
    /\ clients[s][conn[c].fd] = c => ~conn[c].closed \/ (Closing(c) /\ hold = s)
    /\ conn[c].sid = s /\ ~conn[c].closed => clients[s][conn[c].fd] = c

\* A closed connection is still the client of a session only if that was removed
\* first; then a frame of the session is queued ahead of the erase.
Late ==
  \A s \in Sessions, c \in alive :
    clients[s][conn[c].fd] = c /\ conn[c].closed /\ ~Closing(c) =>
      /\ \E i \in DOMAIN queue : queue[i] = s
      /\ \A i, j \in DOMAIN queue : queue[i] = s /\ queue[j] = conn[c].fd => i < j
      /\ conn[c].fd \in timers => phase \in {"io", "triggers"}

Queued(f) == \E i \in DOMAIN queue : queue[i] = f

\* The erases under way are those of the closed connections, one for each.
Erases ==
  /\ \A f \in Fds : Queued(f) \/ f \in timers =>
       /\ connections[f] # None
       /\ conn[connections[f]].closed /\ ~Closing(connections[f])
  /\ phase # "blocked" =>
       \A c \in alive : conn[c].closed /\ ~Closing(c) =>
         Queued(conn[c].fd) \/ conn[c].fd \in timers
  /\ \A i, j \in DOMAIN queue : queue[i] \in Fds /\ queue[i] = queue[j] => i = j
  /\ \A i \in DOMAIN queue : queue[i] \notin timers

Objects == Filed /\ Fresh /\ OwnRtcp
Ledger == Midway /\ Members /\ Joined /\ Late /\ Erases
Lifetime == TypeInv /\ Objects /\ Ledger

-----------------------------------------------------------------------------
(* Hearing *)

\* The kernel watches what the scheduler has, and that is the RTSP socket of
\* every open connection, and its RTCP socket until the end of its close.
Hears(c, f) ==
  /\ c \in alive
  /\ \/ conn[c].fd = f /\ ~conn[c].closed
     \/ conn[c].rtcpfd = f /\ (~conn[c].closed \/ Closing(c))
Ears == /\ watched = channels
        /\ \A f \in Fds, c \in Conns : channels[f] = c <=> Hears(c, f)

\* A track over UDP is set up once.
OneSetup == \A c \in Conns : conn[c].rtcpfd = None \/ (conn[c].mode = "udp" /\ ~Resetup)

\* The events of a batch are handled before anything is erased.
Batch ==
  /\ batch # {} => phase = "io"
  /\ \A e \in batch : e[2] \in alive

NoneRemoved == \A s \in Sessions : session[s] # "removed"
Hearing == Ears /\ OneSetup /\ Batch /\ NoneRemoved
Heeding == Lifetime /\ Hearing

\* What Hearing needs of the clients and the application.
Settled == ~Redescribe /\ ~Removals /\ ("udp" \in Modes => ~Resetup)

-----------------------------------------------------------------------------
(* Types: one lemma for each kind of step *)

ConnType == [Conns -> Connection]
MapType == [Fds -> MaybeConn]
ClientType == [Sessions -> MapType]
MaybeSession == Sessions \cup {None}

LEMMA TypesInitially == Init => TypeInv
  BY DisjointAssumption, ServerAssumption
     DEF Init, TypeInv, TypeOK, Handling, Places, Connection, MaybeConn, NoClients

\* Shared pointers that go away take nothing out of the types.
LEMMA ReleaseTypes ==
  ASSUME TypeOK, NEW cl \in ClientType, NEW w \in MapType, Release(cl, w)
  PROVE  clients' \in ClientType /\ files' \subseteq Fds /\ watched' \in MapType
<1>1. clients' \in ClientType
  BY DEF Release, ClientType, MapType, NoClients, MaybeConn
<1>2. files' \subseteq Fds
  BY DEF Release, TypeOK
<1>3. watched' \in MapType
  BY DEF Release, MapType, MaybeConn
<1>4. QED
  BY <1>1, <1>2, <1>3

LEMMA LookTypes == \A id \in MaybeSession : LookSession(id) \in MaybeSession
  BY DEF LookSession, MaybeSession

LEMMA MapTypes ==
  ASSUME TypeOK, NEW f \in Fds \cup {None}, NEW c \in Conns,
         NEW ch \in MapType, NEW w \in MapType
  PROVE  /\ Unregistered(ch, f) \in MapType
         /\ Unwatched(w, ch, f) \in MapType
         /\ f \in Fds => Registered(f, c) \in MapType /\ Watching(f, c) \in MapType
  BY DEF TypeOK, MapType, MaybeConn, Unregistered, Unwatched, Registered, Watching

LEMMA CloseTypes ==
  ASSUME TypeOK, NEW c \in Conns, NEW cn \in ConnType, NEW ch \in MapType,
         BeginClose(c, cn, ch)
  PROVE  /\ conn' \in ConnType /\ channels' \in MapType
         /\ doing' = "close" /\ actor' = c /\ hold' \in MaybeSession
<1>1. cn[c] \in Connection
  BY DEF ConnType
<1>2. cn[c].fd \in Fds \cup {None} /\ cn[c].sid \in MaybeSession
  BY <1>1 DEF Connection, MaybeSession
<1>3. conn' \in ConnType
  BY <1>1 DEF BeginClose, ConnType, Connection
<1>4. channels' \in MapType
  BY <1>2, MapTypes DEF BeginClose
<1>5. hold' \in MaybeSession
  BY <1>2, LookTypes DEF BeginClose
<1>6. QED
  BY <1>3, <1>4, <1>5 DEF BeginClose

\* A new value for one field of one connection.
LEMMA FieldTypes ==
  ASSUME NEW cn \in ConnType, NEW c \in Conns
  PROVE  /\ \A h \in BOOLEAN : [cn EXCEPT ![c].heard = h] \in ConnType
         /\ [cn EXCEPT ![c].peer = "reset"] \in ConnType
         /\ [cn EXCEPT ![c].rtp = "playing"] \in ConnType
         /\ [cn EXCEPT ![c].rtp = "torn"] \in ConnType
         /\ \A md \in {"tcp", "multicast"} : [cn EXCEPT ![c].mode = md] \in ConnType
         /\ \A f \in Fds : [cn EXCEPT ![c].mode = "udp", ![c].rtcpfd = f] \in ConnType
         /\ \A s \in Sessions : [cn EXCEPT ![c].sid = s] \in ConnType
<1>1. cn[c] \in Connection
  BY DEF ConnType
<1>2. \A h \in BOOLEAN : [cn EXCEPT ![c].heard = h] \in ConnType
  BY <1>1 DEF ConnType, Connection
<1>3. [cn EXCEPT ![c].peer = "reset"] \in ConnType
  BY <1>1 DEF ConnType, Connection
<1>4. /\ [cn EXCEPT ![c].rtp = "playing"] \in ConnType
      /\ [cn EXCEPT ![c].rtp = "torn"] \in ConnType
  BY <1>1 DEF ConnType, Connection
<1>5. \A md \in Modes \cup {"tcp", "multicast"} : [cn EXCEPT ![c].mode = md] \in ConnType
  BY <1>1, ServerAssumption DEF ConnType, Connection
<1>6. \A f \in Fds : [cn EXCEPT ![c].mode = "udp", ![c].rtcpfd = f] \in ConnType
  BY <1>1 DEF ConnType, Connection
<1>7. \A s \in Sessions : [cn EXCEPT ![c].sid = s] \in ConnType
  BY <1>1 DEF ConnType, Connection
<1>8. QED
  BY <1>2, <1>3, <1>4, <1>5, <1>6, <1>7

Base == <<files, alive, connections, session, multicast, clients, queue, timers>>

\* A handler that closes the connection, or replies.
LEMMA HandlerTypes ==
  ASSUME TypeInv, NEW c \in Conns, NEW cn \in ConnType,
         \/ Reply(c, cn) \/ Close(c, cn),
         batch' \subseteq batch, UNCHANGED Base, UNCHANGED phase,
         phase = "beat" => beat' \subseteq beat, beat' \subseteq Fds,
         HasSocket(c), \A d \in Conns : cn[d].fd = conn[d].fd
  PROVE  TypeInv'
<1>1. Reset(c, cn) \in ConnType
  BY FieldTypes DEF Reset
<1>2. ASSUME NEW dn \in ConnType, Close(c, dn)
      PROVE  /\ conn' \in ConnType /\ channels' \in MapType /\ watched' \in MapType
             /\ doing' = "close" /\ actor' = c /\ hold' \in MaybeSession
  <2>1. dn[c].fd \in Fds \cup {None}
    BY DEF ConnType, Connection
  <2>2. channels \in MapType /\ watched \in MapType
    BY DEF TypeInv, TypeOK, MapType
  <2>3. watched' \in MapType
    BY <1>2, <2>1, <2>2, MapTypes DEF Close, TypeInv
  <2>4. QED
    BY <1>2, <2>2, <2>3, CloseTypes DEF Close, TypeInv
<1>3. /\ conn' \in ConnType /\ channels' \in MapType /\ watched' \in MapType
      /\ \/ doing' = "close" /\ actor' = c /\ hold' \in MaybeSession
         \/ UNCHANGED localVars
  <2>1. CASE Close(c, cn)
    BY <1>2, <2>1
  <2>2. CASE Close(c, Reset(c, cn))
    BY <1>1, <1>2, <2>2
  <2>3. CASE conn' = cn /\ UNCHANGED <<channels, watched, localVars>>
    BY <2>3 DEF TypeInv, TypeOK, MapType
  <2>4. QED
    BY <2>1, <2>2, <2>3 DEF Reply
<1>3a. \A d \in Conns : conn'[d].fd = conn[d].fd
  BY DEF Reply, Close, BeginClose, Reset, ConnType, Connection
<1>4. TypeOK'
  BY <1>3 DEF TypeInv, TypeOK, Base, ConnType, MapType, MaybeSession, MaybeConn, localVars
<1>5. Handling'
  BY <1>3, <1>3a DEF TypeInv, TypeOK, Handling, HasSocket, MaybeConn, Base, localVars
<1>6. QED
  BY <1>4, <1>5 DEF TypeInv

LEMMA EventTypes ==
  ASSUME TypeInv, NEW f \in Fds, NEW c \in Conns, Event(<<f, c>>)
  PROVE  TypeInv'
<1> DEFINE e == <<f, c>>
<1>1. e[1] = f /\ e[2] = c
  OBVIOUS
<1>2. TypeOK /\ conn \in ConnType /\ Heard(c) \in ConnType
  BY FieldTypes DEF TypeInv, TypeOK, ConnType, Heard
<1>3. ASSUME Take(e)
      PROVE  /\ phase = "io" /\ doing = "nothing" /\ c \in alive
             /\ batch' \subseteq batch /\ phase' = phase /\ beat' = beat
             /\ beat' \subseteq Fds
  BY <1>1, <1>2, <1>3 DEF Take, TypeOK
<1> HIDE DEF e
<1>3a. c \in alive => HasSocket(c)
  BY DEF TypeInv, Handling
<1>3b. /\ \A d \in Conns : Heard(c)[d].fd = conn[d].fd
       /\ \A d \in Conns : Reset(c, Heard(c))[d].fd = conn[d].fd
  BY <1>2 DEF Heard, Reset, ConnType, Connection
<1>4. CASE Ignored(e)
  BY <1>2, <1>3, <1>4
     DEF Ignored, Keep, TypeInv, TypeOK, Handling, HasSocket, kernelVars, localVars, sessionVars
<1>5. CASE HandleRtcp(e)
  <2>1. PICK got \in BOOLEAN : conn' = [conn EXCEPT ![c].heard = @ \/ got]
    BY <1>1, <1>5 DEF HandleRtcp
  <2>2. (conn[c].heard \/ got) \in BOOLEAN
    BY <1>2 DEF ConnType, Connection
  <2>3. conn' \in ConnType
    BY <1>2, <2>1, <2>2, FieldTypes
  <2>4. \A d \in Conns : conn'[d].fd = conn[d].fd
    BY <1>2, <2>1 DEF ConnType, Connection
  <2>5. QED
    BY <1>2, <1>3, <1>5, <2>3, <2>4
       DEF HandleRtcp, Keep, TypeInv, TypeOK, Handling, HasSocket, MaybeConn, kernelVars,
           localVars, sessionVars, ConnType
<1>6. CASE ReadFails(e)
  <2>1. Reset(c, Heard(c)) \in ConnType
    BY <1>2, FieldTypes DEF Reset
  <2>2. Take(e) /\ UNCHANGED Base
    BY <1>6 DEF ReadFails, OnRtsp, Base, sessionVars
  <2>3. PICK cn \in {Heard(c), Reset(c, Heard(c))} : Close(c, cn)
    BY <1>1, <1>6 DEF ReadFails
  <2>4. QED
    BY <1>2, <1>3, <1>3a, <1>3b, <2>1, <2>2, <2>3, HandlerTypes
<1>7. CASE OtherEvent(e)
  <2>1. Take(e) /\ UNCHANGED Base /\ Reply(c, Heard(c))
    BY <1>1, <1>7 DEF OtherEvent, OnRtsp, Base, sessionVars
  <2>2. QED
    BY <1>2, <1>3, <1>3a, <1>3b, <2>1, HandlerTypes
<1>8. CASE Describe(e)
  <2>1. /\ Take(e) /\ conn' = Heard(c) /\ doing' = "describe" /\ actor' = c
        /\ hold' \in Sessions
        /\ UNCHANGED <<kernelVars, alive, connections, channels, sessionVars, queue, timers>>
    BY <1>1, <1>8 DEF Describe, OnRtsp
  <2>2. \A d \in Conns : conn'[d].fd = conn[d].fd
    BY <1>3b, <2>1
  <2>3. TypeOK'
    BY <1>2, <1>3, <2>1 DEF TypeOK, ConnType, MaybeConn, kernelVars, sessionVars
  <2>4. Handling'
    BY <1>2, <1>3, <1>3a, <2>1, <2>2 DEF TypeInv, TypeOK, Handling, HasSocket, MaybeConn
  <2>5. QED
    BY <2>3, <2>4 DEF TypeInv
<1>9. CASE Setup(e)
  <2>1. Take(e) /\ UNCHANGED Base
    BY <1>9 DEF Setup, OnRtsp, Base, sessionVars
  <2>2. PICK md \in {"tcp", "multicast"} : Reply(c, [Heard(c) EXCEPT ![c].mode = md])
    BY <1>1, <1>9 DEF Setup
  <2>3. [Heard(c) EXCEPT ![c].mode = md] \in ConnType
    BY <1>2, FieldTypes
  <2>4. \A d \in Conns : [Heard(c) EXCEPT ![c].mode = md][d].fd = conn[d].fd
    BY <1>2, <1>3b DEF ConnType, Connection
  <2>5. QED
    BY <1>2, <1>3, <1>3a, <2>1, <2>2, <2>3, <2>4, HandlerTypes
<1>10. CASE SetupUdp(e)
  <2>1. Take(e) /\ UNCHANGED <<alive, connections, sessionVars, queue, timers>>
    BY <1>10 DEF SetupUdp, OnRtsp
  <2> DEFINE cn(g) == [Heard(c) EXCEPT ![c].mode = "udp", ![c].rtcpfd = g]
  <2>2. \A g \in Fds : cn(g) \in ConnType
    BY <1>2, FieldTypes
  <2>3. \A g \in Fds : cn(g)[c].fd = conn[c].fd /\ conn[c].fd \in Fds \cup {None}
    BY <1>2 DEF Heard, ConnType, Connection
  <2> HIDE DEF cn
  <2>4. PICK g \in Fds : 
          /\ files' = files \cup {g}
          /\ \/ /\ conn' = cn(g) /\ channels' = Registered(g, c) /\ watched' = Watching(g, c)
                /\ UNCHANGED localVars
             \/ /\ BeginClose(c, Reset(c, cn(g)), Registered(g, c))
                /\ watched' = Unwatched(Watching(g, c), Registered(g, c), conn[c].fd)
    BY <1>1, <1>10 DEF SetupUdp, cn
  <2>5. Registered(g, c) \in MapType /\ Watching(g, c) \in MapType
    BY <1>2, MapTypes DEF TypeOK, MapType
  <2>6. Unwatched(Watching(g, c), Registered(g, c), conn[c].fd) \in MapType
    BY <1>2, <2>3, <2>5, MapTypes
  <2>7. Reset(c, cn(g)) \in ConnType
    BY <2>2, FieldTypes DEF Reset
  <2>8. /\ conn' \in ConnType /\ channels' \in MapType /\ watched' \in MapType
        /\ \/ doing' = "close" /\ actor' = c /\ hold' \in MaybeSession
           \/ UNCHANGED localVars
    BY <1>2, <2>2, <2>4, <2>5, <2>6, <2>7, CloseTypes
  <2>9. TypeOK'
    BY <1>2, <1>3, <2>1, <2>4, <2>8
       DEF TypeOK, ConnType, MapType, MaybeSession, MaybeConn, localVars, sessionVars
  <2>100. \A d \in Conns : conn'[d].fd = conn[d].fd
    BY <1>2, <1>3b, <2>4 DEF cn, BeginClose, Reset, ConnType, Connection
  <2>10. Handling'
    BY <1>3, <1>3a, <2>1, <2>8, <2>100
       DEF TypeInv, TypeOK, Handling, HasSocket, MaybeConn, localVars
  <2>11. QED
    BY <2>9, <2>10 DEF TypeInv
<1>11. CASE Play(e)
  <2>1. Take(e) /\ UNCHANGED Base /\ Reply(c, [Heard(c) EXCEPT ![c].rtp = "playing"])
    BY <1>1, <1>11 DEF Play, OnRtsp, Base, sessionVars
  <2>2. \A d \in Conns : [Heard(c) EXCEPT ![c].rtp = "playing"][d].fd = conn[d].fd
    BY <1>2, <1>3b DEF ConnType, Connection
  <2>3. QED
    BY <1>2, <1>3, <1>3a, <2>1, <2>2, HandlerTypes, FieldTypes
<1>12. CASE Teardown(e)
  <2>1. Take(e) /\ UNCHANGED Base /\ Close(c, [Heard(c) EXCEPT ![c].rtp = "torn"])
    BY <1>1, <1>12 DEF Teardown, OnRtsp, Base, sessionVars
  <2>2. \A d \in Conns : [Heard(c) EXCEPT ![c].rtp = "torn"][d].fd = conn[d].fd
    BY <1>2, <1>3b DEF ConnType, Connection
  <2>3. QED
    BY <1>2, <1>3, <1>3a, <2>1, <2>2, HandlerTypes, FieldTypes
<1>13. QED
  BY <1>4, <1>5, <1>6, <1>7, <1>8, <1>9, <1>10, <1>11, <1>12 DEF Event, e

LEMMA EndCloseTypes ==
  ASSUME TypeInv, EndClose
  PROVE  TypeInv'
<1> DEFINE f == conn[actor].fd
           r == conn[actor].rtcpfd
           cl == WithoutClient(hold, f)
           w == Unwatched(watched, channels, r)
<1>1. /\ doing = "close" /\ RemoveConnection(f)
      /\ channels' = Unregistered(channels, r)
      /\ doing' = "nothing" /\ actor' = None /\ hold' = None
      /\ UNCHANGED <<conn, session, multicast, batch, beat>>
      /\ Release(cl, w)
  BY DEF EndClose
<1>2. TypeOK /\ actor \in Conns
  BY <1>1 DEF TypeInv, Handling
<1>3. conn[actor] \in Connection
  BY <1>2 DEF TypeOK
<1>4. f \in Fds \cup {None} /\ r \in Fds \cup {None}
  BY <1>3 DEF Connection
<1> HIDE DEF f, r
<1>5. cl \in ClientType
  BY <1>2 DEF WithoutClient, TypeOK, ClientType, MapType, MaybeConn
<1>6. w \in MapType /\ channels' \in MapType
  BY <1>1, <1>2, <1>4, MapTypes DEF TypeOK, MapType
<1> HIDE DEF cl, w
<1>7. clients' \in ClientType /\ files' \subseteq Fds /\ watched' \in MapType
  BY <1>1, <1>2, <1>5, <1>6, ReleaseTypes
<1>8. f \in Fds
  BY <1>1 DEF TypeInv, Handling, HasSocket, f
<1>9. TypeInv'
  <2>1. /\ queue' \in Seq(Sessions \cup Fds) /\ Len(queue') <= Capacity
        /\ timers' \subseteq Fds /\ phase' \in Places
        /\ UNCHANGED <<connections, alive>>
        /\ phase' = "beat" => phase = "beat"
    <3>1. queue \in Seq(Sessions \cup Fds) /\ Len(queue) \in Nat /\ Capacity \in Nat
      BY <1>2, ServerAssumption DEF TypeOK
    <3>2. /\ Append(queue, f) \in Seq(Sessions \cup Fds)
          /\ Len(Append(queue, f)) = Len(queue) + 1
      BY <1>8, <3>1
    <3>3. queue' \in Seq(Sessions \cup Fds) /\ Len(queue') <= Capacity
      <4>1. CASE Len(queue) < Capacity /\ queue' = Append(queue, f)
        BY <3>1, <3>2, <4>1
      <4>2. CASE queue' = queue
        BY <1>2, <3>1, <4>2 DEF TypeOK
      <4>3. QED
        BY <1>1, <4>1, <4>2 DEF RemoveConnection
    <3>4. timers' \subseteq Fds /\ phase' \in Places /\ (phase' = "beat" => phase = "beat")
      BY <1>1, <1>2, <1>8 DEF RemoveConnection, TypeOK, Places
    <3>5. QED
      BY <1>1, <3>3, <3>4 DEF RemoveConnection
  <2>2. TypeOK'
    BY <1>1, <1>2, <1>6, <1>7, <2>1 DEF TypeOK, ClientType, MapType, MaybeConn
  <2>3. Handling'
    BY <1>1, <2>1 DEF TypeInv, TypeOK, Handling, HasSocket
  <2>4. QED
    BY <2>2, <2>3 DEF TypeInv
<1>10. QED
  BY <1>9

LEMMA NewConnectionTypes ==
  ASSUME TypeInv, NEW c \in Conns, NewConnection(c)
  PROVE  TypeInv'
<1>1. PICK f \in Fds \ files :
        LET kept == IF connections[f] = None THEN {f} ELSE {} IN
        /\ conn' = [conn EXCEPT ![c].peer = "open", ![c].fd = f]
        /\ channels' = Registered(f, c)
        /\ connections' = [g \in Fds |-> IF g \in kept THEN c ELSE connections[g]]
        /\ alive' = IF f \in kept THEN alive \cup {c} ELSE alive
        /\ files' = files \cup kept
        /\ watched' = IF f \in kept THEN Watching(f, c) ELSE watched
  BY DEF NewConnection
<1>2. phase = "io" /\ doing = "nothing"
  BY DEF NewConnection
<1>3. TypeOK /\ UNCHANGED <<sessionVars, queue, timers, loopVars, localVars>>
  BY DEF NewConnection, TypeInv
<1>4. conn[c] \in Connection
  BY <1>3 DEF TypeOK
<1>5. conn' \in ConnType /\ \A d \in Conns : conn'[d].fd = IF d = c THEN f ELSE conn[d].fd
  BY <1>1, <1>3, <1>4 DEF TypeOK, ConnType, Connection
<1>6. channels' \in MapType /\ watched' \in MapType
  BY <1>1, <1>3, MapTypes DEF TypeOK, MapType
<1>7. connections' \in MapType /\ alive' \subseteq Conns /\ files' \subseteq Fds
  BY <1>1, <1>3 DEF TypeOK, MapType, MaybeConn
<1>8. TypeOK'
  BY <1>3, <1>5, <1>6, <1>7
     DEF TypeOK, ConnType, MapType, sessionVars, loopVars, localVars
<1>9. /\ \A d \in alive' : d \in alive \cup {c}
      /\ \A g \in Fds : connections'[g] \in {c, connections[g]}
  BY <1>1
<1>10. Handling'
  BY <1>2, <1>3, <1>5, <1>9, DisjointAssumption
     DEF TypeInv, TypeOK, Handling, HasSocket, MaybeConn, loopVars, localVars
<1>11. QED
  BY <1>8, <1>10 DEF TypeInv

LEMMA EndDescribeTypes ==
  ASSUME TypeInv, EndDescribe
  PROVE  TypeInv'
<1> DEFINE f == conn[actor].fd
           cn == Associated(actor, hold)
           cl == WithClient(hold, f, actor)
           w == Unwatched(watched, channels, f)
<1>1. /\ doing = "describe"
      /\ UNCHANGED <<alive, connections, session, multicast, queue, timers, loopVars>>
      /\ \/ /\ conn' = cn
            /\ doing' = "nothing" /\ actor' = None /\ hold' = None
            /\ UNCHANGED channels
            /\ Release(cl, watched)
         \/ /\ BeginClose(actor, Reset(actor, cn), channels)
            /\ Release(cl, w)
  BY DEF EndDescribe
<1>2. TypeOK /\ actor \in Conns /\ hold \in Sessions /\ f \in Fds
  BY <1>1 DEF TypeInv, Handling, HasSocket
<1>3. conn \in ConnType /\ channels \in MapType /\ watched \in MapType
  BY <1>2 DEF TypeOK, ConnType, MapType
<1>4. cl \in ClientType
  BY <1>2 DEF WithClient, TypeOK, ClientType, MapType, MaybeConn
<1>5. cn \in ConnType /\ Reset(actor, cn) \in ConnType
  BY <1>2, <1>3, FieldTypes DEF Associated, Reset
<1>6. \A d \in Conns : cn[d].fd = conn[d].fd /\ Reset(actor, cn)[d].fd = conn[d].fd
  BY <1>2, <1>3 DEF Associated, Reset, ConnType, Connection
<1>7. w \in MapType
  BY <1>2, <1>3, MapTypes
<1> HIDE DEF f, cn, cl, w
<1>8. clients' \in ClientType /\ files' \subseteq Fds /\ watched' \in MapType
  BY <1>1, <1>2, <1>3, <1>4, <1>7, ReleaseTypes
<1>9. CASE conn' = cn /\ doing' = "nothing" /\ actor' = None /\ hold' = None /\ UNCHANGED channels
  <2>1. TypeOK'
    BY <1>1, <1>2, <1>3, <1>5, <1>8, <1>9
       DEF TypeOK, ConnType, MapType, ClientType, MaybeConn, loopVars
  <2>2. Handling'
    BY <1>1, <1>6, <1>9 DEF TypeInv, TypeOK, Handling, HasSocket, MaybeConn, loopVars
  <2>3. QED
    BY <2>1, <2>2 DEF TypeInv
<1>10. CASE BeginClose(actor, Reset(actor, cn), channels)
  <2>1. /\ conn' \in ConnType /\ channels' \in MapType
        /\ doing' = "close" /\ actor' = actor /\ hold' \in MaybeSession
    BY <1>2, <1>3, <1>5, <1>10, CloseTypes
  <2>2. \A d \in Conns : conn'[d].fd = conn[d].fd
    BY <1>2, <1>5, <1>6, <1>10 DEF BeginClose, ConnType, Connection
  <2>3. TypeOK'
    BY <1>1, <1>2, <1>8, <2>1
       DEF TypeOK, ConnType, MapType, ClientType, MaybeConn, MaybeSession, loopVars
  <2>4. Handling'
    BY <1>1, <1>2, <2>1, <2>2, f \in Fds
       DEF TypeInv, TypeOK, Handling, HasSocket, MaybeConn, loopVars, f
  <2>5. QED
    BY <2>3, <2>4 DEF TypeInv
<1>11. QED
  BY <1>1, <1>9, <1>10

LEMMA EraseTypes ==
  ASSUME TypeInv, NEW f \in Fds, EraseConnection(f), phase # "beat",
         UNCHANGED <<session, multicast, loopVars, localVars>>,
         queue' \in Seq(Sessions \cup Fds), Len(queue') <= Capacity, timers' \subseteq Fds
  PROVE  TypeInv'
<1>1. clients \in ClientType /\ watched \in MapType /\ TypeOK
  BY DEF TypeInv, TypeOK, ClientType, MapType
<1>2. clients' \in ClientType /\ files' \subseteq Fds /\ watched' \in MapType
  BY <1>1, ReleaseTypes DEF EraseConnection
<1>3. /\ connections' \in MapType /\ alive' \subseteq alive
      /\ \A g \in Fds : connections'[g] \in {None, connections[g]}
      /\ UNCHANGED <<conn, channels>>
  BY <1>1 DEF EraseConnection, TypeOK, MapType, MaybeConn
<1>4. TypeOK'
  BY <1>1, <1>2, <1>3 DEF TypeOK, ClientType, MapType, loopVars, localVars
<1>5. Handling'
  BY <1>1, <1>3 DEF TypeInv, TypeOK, Handling, HasSocket, MaybeConn, loopVars, localVars
<1>6. QED
  BY <1>4, <1>5 DEF TypeInv

\* A frame may cost clients their stream, and gives a channel back to others.
LEMMA FrameEffect ==
  ASSUME TypeOK, NEW s \in Sessions, HandleFrame(s)
  PROVE  /\ channels' \in MapType
         /\ \E failed \in SUBSET Playing(s) :
              conn' = [c \in Conns |->
                        IF c \in failed THEN [conn[c] EXCEPT !.rtp = "torn"] ELSE conn[c]]
         /\ \E w \in MapType :
              /\ Release(clients, w)
              /\ \A f \in Fds : \/ channels'[f] = channels[f] /\ w[f] = watched[f]
                              \/ /\ channels[f] = None
                                 /\ \E c \in Receivers(s) \cap alive : conn[c].fd = f
<1>1. PICK failed \in SUBSET Playing(s) :
      \E sent \in SUBSET {c \in Playing(s) \ failed :
                           conn[c].mode = "tcp" /\ conn[c].peer # "reset"} :
        /\ conn' = [c \in Conns |->
                     IF c \in failed THEN [conn[c] EXCEPT !.rtp = "torn"] ELSE conn[c]]
        /\ LET here(f) == {c \in sent : conn[c].fd = f}
               updated(ch, f) == ch[f] # None \/ here(f) = {}
           IN  /\ channels' = [f \in Fds |->
                    IF updated(channels, f) THEN channels[f] ELSE CHOOSE c \in here(f) : TRUE]
               /\ Release(clients, [f \in Fds |->
                    IF updated(channels, f) THEN watched[f] ELSE CHOOSE c \in here(f) : TRUE])
  BY DEF HandleFrame
<1>2. PICK sent \in SUBSET {c \in Playing(s) \ failed :
                           conn[c].mode = "tcp" /\ conn[c].peer # "reset"} :
        LET here(f) == {c \in sent : conn[c].fd = f}
            updated(ch, f) == ch[f] # None \/ here(f) = {}
        IN  /\ channels' = [f \in Fds |->
                 IF updated(channels, f) THEN channels[f] ELSE CHOOSE c \in here(f) : TRUE]
            /\ Release(clients, [f \in Fds |->
                 IF updated(channels, f) THEN watched[f] ELSE CHOOSE c \in here(f) : TRUE])
  BY <1>1
<1> DEFINE here(f) == {c \in sent : conn[c].fd = f}
           updated(f) == channels[f] # None \/ here(f) = {}
           w == [f \in Fds |-> IF updated(f) THEN watched[f] ELSE CHOOSE c \in here(f) : TRUE]
<1>4. sent \subseteq Conns
  BY DEF Playing, TypeOK
<1>5. \A f \in Fds : here(f) # {} => (CHOOSE c \in here(f) : TRUE) \in Conns
  BY <1>4
<1>6. w \in MapType
  BY <1>5 DEF TypeOK, MapType, MaybeConn
<1>7. channels' \in MapType
  BY <1>2, <1>5 DEF TypeOK, MapType, MaybeConn
<1>8. Release(clients, w)
  BY <1>2
<1>9. \A f \in Fds : \/ channels'[f] = channels[f] /\ w[f] = watched[f]
                    \/ /\ channels[f] = None
                       /\ \E c \in Receivers(s) \cap alive : conn[c].fd = f
  <2>1. \A c \in sent : c \in Receivers(s) \cap alive
    BY DEF Playing
  <2>2. \A f \in Fds : here(f) # {} => \E c \in Receivers(s) \cap alive : conn[c].fd = f
    BY <2>1
  <2>3. \A f \in Fds : updated(f) => channels'[f] = channels[f] /\ w[f] = watched[f]
    BY <1>2
  <2>4. QED
    BY <2>2, <2>3
<1> HIDE DEF w
<1>10. QED
  BY <1>1, <1>6, <1>7, <1>8, <1>9

LEMMA FrameTypes ==
  ASSUME TypeInv, NEW s \in Sessions, HandleFrame(s), phase = "triggers",
         UNCHANGED <<session, multicast, loopVars, localVars>>,
         queue' \in Seq(Sessions \cup Fds), Len(queue') <= Capacity
  PROVE  TypeInv'
<1>1. PICK failed \in SUBSET Playing(s) :
        conn' = [c \in Conns |->
                  IF c \in failed THEN [conn[c] EXCEPT !.rtp = "torn"] ELSE conn[c]]
  BY FrameEffect DEF TypeInv
<1>2. PICK w \in MapType : Release(clients, w)
  BY FrameEffect DEF TypeInv
<1>3. TypeOK
  BY DEF TypeInv
<1>7. channels' \in MapType
  BY <1>3, FrameEffect
<1>9. clients' \in ClientType /\ files' \subseteq Fds /\ watched' \in MapType
  BY <1>2, <1>3, ReleaseTypes DEF TypeOK, ClientType, MapType
<1>10. conn' \in ConnType /\ \A c \in Conns : conn'[c].fd = conn[c].fd
  <2>1. \A c \in Conns : conn[c] \in Connection
    BY <1>3 DEF TypeOK
  <2>2. \A c \in Conns : conn'[c] \in {conn[c], [conn[c] EXCEPT !.rtp = "torn"]}
    BY <1>1
  <2>3. \A c \in Conns : [conn[c] EXCEPT !.rtp = "torn"] \in Connection
    BY <2>1 DEF Connection
  <2>4. \A c \in Conns : [conn[c] EXCEPT !.rtp = "torn"].fd = conn[c].fd
    BY <2>1 DEF Connection
  <2>5. DOMAIN conn' = Conns /\ conn' = [c \in Conns |-> conn'[c]]
    BY <1>1
  <2>6. \A c \in Conns : conn'[c] \in Connection /\ conn'[c].fd = conn[c].fd
    BY <2>1, <2>2, <2>3, <2>4
  <2>7. QED
    BY <2>5, <2>6 DEF ConnType
<1>11. TypeOK'
  BY <1>3, <1>7, <1>9, <1>10
     DEF TypeOK, HandleFrame, ConnType, ClientType, MapType, loopVars, localVars
<1>12. Handling'
  BY <1>3, <1>10 DEF TypeInv, TypeOK, Handling, HandleFrame, HasSocket, MaybeConn, loopVars, localVars
<1>13. QED
  BY <1>11, <1>12 DEF TypeInv

LEMMA TriggerTypes ==
  ASSUME TypeInv, Trigger
  PROVE  TypeInv'
<1>1. TypeOK /\ phase = "triggers" /\ queue # <<>> /\ queue' = Tail(queue)
  BY DEF Trigger, TypeInv
<1>2. queue \in Seq(Sessions \cup Fds) /\ Len(queue) <= Capacity
  BY <1>1 DEF TypeOK
<1>3. queue' \in Seq(Sessions \cup Fds) /\ Len(queue') <= Capacity
  BY <1>1, <1>2, ServerAssumption
<1>4. UNCHANGED <<session, multicast, loopVars, localVars>>
  BY DEF Trigger
<1>5. CASE Head(queue) \in Sessions /\ HandleFrame(Head(queue))
  BY <1>1, <1>3, <1>4, <1>5, FrameTypes
<1>6. CASE Head(queue) \in Fds /\ EraseConnection(Head(queue)) /\ UNCHANGED timers
  BY <1>1, <1>3, <1>4, <1>6, EraseTypes DEF TypeOK
<1>7. QED
  BY <1>5, <1>6 DEF Trigger

LEMMA BeatTypes ==
  ASSUME TypeInv, BeatOne
  PROVE  TypeInv'
<1>1. PICK f \in beat :
       LET c == connections[f] IN
       /\ beat' = beat \ {f}
       /\ \/ /\ IsAlive(c)
             /\ conn' = AliveCountReset(c)
             /\ UNCHANGED <<channels, watched, localVars>>
          \/ /\ ~IsAlive(c) /\ ~conn[c].closed
             /\ Close(c, conn)
          \/ /\ conn[c].closed
             /\ UNCHANGED <<conn, channels, watched, localVars>>
  BY DEF BeatOne
<1>2. TypeOK /\ phase = "beat"
  BY DEF TypeInv, BeatOne
<1> DEFINE c == connections[f]
<1>3. f \in Fds /\ c \in Conns /\ HasSocket(c)
  BY <1>1, <1>2 DEF TypeInv, TypeOK, Handling, MaybeConn
<1>4. /\ UNCHANGED Base /\ UNCHANGED phase /\ batch' \subseteq batch
      /\ beat' \subseteq beat /\ beat' \subseteq Fds
  BY <1>1, <1>2 DEF BeatOne, Base, sessionVars, TypeOK
<1>5. conn \in ConnType /\ AliveCountReset(c) \in ConnType
  BY <1>2, <1>3, FieldTypes DEF AliveCountReset, TypeOK, ConnType
<1>6. \A d \in Conns : AliveCountReset(c)[d].fd = conn[d].fd
  BY <1>3, <1>5 DEF AliveCountReset, ConnType, Connection
<1> HIDE DEF c
<1>7. CASE conn' = AliveCountReset(c) /\ UNCHANGED <<channels, watched, localVars>>
  BY <1>3, <1>4, <1>5, <1>6, <1>7, HandlerTypes DEF Reply
<1>8. CASE Close(c, conn)
  BY <1>3, <1>4, <1>5, <1>8, HandlerTypes
<1>9. CASE UNCHANGED <<conn, channels, watched, localVars>>
  BY <1>3, <1>4, <1>5, <1>9, HandlerTypes DEF Reply
<1>10. QED
  BY <1>1, <1>7, <1>8, <1>9 DEF c

\* Steps that change little.
LEMMA OtherTypes ==
  ASSUME TypeInv
  PROVE  /\ Poll \/ IoDone \/ TriggersDone \/ TimersDone \/ StartBeat \/ EndBeat => TypeInv'
         /\ \A c \in Conns : PeerLeaves(c) => TypeInv'
         /\ \A s \in Sessions : AddMediaSession(s) \/ RemoveMediaSession(s) \/ PushFrame(s)
                                => TypeInv'
         /\ UNCHANGED vars => TypeInv'
<1>1. TypeOK /\ Handling
  BY DEF TypeInv
<1>2. ASSUME Poll PROVE TypeInv'
  <2>1. batch' \subseteq Fds \X Conns
    <3>1. PICK ready \in SUBSET {f \in Fds : watched[f] # None} :
            batch' = {<<f, watched[f]>> : f \in ready}
      BY <1>2 DEF Poll
    <3>2. \A f \in ready : f \in Fds /\ watched[f] \in Conns
      BY <1>1 DEF TypeOK, MaybeConn
    <3>3. QED
      BY <3>1, <3>2
  <2>2. QED
    BY <1>1, <1>2, <2>1
       DEF Poll, TypeInv, TypeOK, Handling, HasSocket, Places, kernelVars, objectVars,
           sessionVars, localVars
<1>3. ASSUME IoDone \/ TriggersDone \/ TimersDone \/ EndBeat PROVE TypeInv'
  BY <1>1, <1>3
     DEF IoDone, TriggersDone, TimersDone, EndBeat, TypeInv, TypeOK, Handling, HasSocket,
         Places, kernelVars, objectVars, sessionVars, localVars
<1>4. ASSUME StartBeat PROVE TypeInv'
  BY <1>1, <1>4
     DEF StartBeat, TypeInv, TypeOK, Handling, HasSocket, Places, kernelVars, objectVars,
         sessionVars, localVars
<1>5. ASSUME NEW c \in Conns, PeerLeaves(c) PROVE TypeInv'
  <2>1. PICK p \in {"silent", "closed"} : conn' = [conn EXCEPT ![c].peer = p]
    BY <1>5 DEF PeerLeaves
  <2>2. conn[c] \in Connection
    BY <1>1 DEF TypeOK
  <2>3. conn' \in ConnType /\ \A d \in Conns : conn'[d].fd = conn[d].fd
    BY <1>1, <2>1, <2>2 DEF TypeOK, ConnType, Connection
  <2>4. QED
    BY <1>1, <1>5, <2>3
       DEF PeerLeaves, TypeInv, TypeOK, Handling, HasSocket, ConnType, MaybeConn, kernelVars,
           sessionVars, loopVars, localVars
<1>6. ASSUME NEW s \in Sessions, AddMediaSession(s) PROVE TypeInv'
  BY <1>1, <1>6
     DEF AddMediaSession, TypeInv, TypeOK, Handling, HasSocket, kernelVars, objectVars,
         loopVars, localVars
<1>7. ASSUME NEW s \in Sessions, RemoveMediaSession(s) PROVE TypeInv'
  <2>1. clients \in ClientType /\ watched \in MapType
    BY <1>1 DEF TypeOK, ClientType, MapType
  <2>2. clients' \in ClientType /\ files' \subseteq Fds /\ watched' \in MapType
    BY <1>1, <1>7, <2>1, ReleaseTypes DEF RemoveMediaSession
  <2>3. QED
    BY <1>1, <1>7, <2>2
       DEF RemoveMediaSession, TypeInv, TypeOK, Handling, HasSocket, ClientType, MapType,
           objectVars, loopVars, localVars
<1>8. ASSUME NEW s \in Sessions, PushFrame(s) PROVE TypeInv'
  <2>1. queue \in Seq(Sessions \cup Fds) /\ Len(queue) \in Nat /\ Capacity \in Nat
    BY <1>1, ServerAssumption DEF TypeOK
  <2>2. queue' \in Seq(Sessions \cup Fds) /\ Len(queue') <= Capacity
    BY <1>8, <2>1 DEF PushFrame
  <2>3. QED
    BY <1>1, <1>8, <2>2
       DEF PushFrame, TypeInv, TypeOK, Handling, HasSocket, kernelVars, objectVars,
           sessionVars, loopVars, localVars
<1>9. ASSUME UNCHANGED vars PROVE TypeInv'
  BY <1>1, <1>9
     DEF vars, TypeInv, TypeOK, Handling, HasSocket, kernelVars, objectVars, sessionVars,
         loopVars, localVars
<1>10. QED
  BY <1>2, <1>3, <1>4, <1>5, <1>6, <1>7, <1>8, <1>9

LEMMA TypesStep == TypeInv /\ [Next]_vars => TypeInv'
<1> SUFFICES ASSUME TypeInv, [Next]_vars
             PROVE  TypeInv'
  OBVIOUS
<1>1. ASSUME EraseTimer PROVE TypeInv'
  <2>1. PICK f \in timers :
          /\ timers' = timers \ {f}
          /\ UNCHANGED <<session, multicast, queue, loopVars, localVars>>
          /\ EraseConnection(f)
    BY <1>1 DEF EraseTimer
  <2>2. TypeOK /\ phase = "timers"
    BY <1>1 DEF EraseTimer, TypeInv
  <2>3. f \in Fds /\ timers' \subseteq Fds
    BY <2>1, <2>2 DEF TypeOK
  <2>4. queue' \in Seq(Sessions \cup Fds) /\ Len(queue') <= Capacity
    BY <2>1, <2>2 DEF TypeOK
  <2>5. QED
    BY <2>1, <2>2, <2>3, <2>4, EraseTypes
<1>2. CASE LoopStep
  BY <1>1, <1>2, OtherTypes, EventTypes, TriggerTypes, BeatTypes, EndDescribeTypes,
     EndCloseTypes DEF LoopStep
<1>3. CASE \E c \in Conns : NewConnection(c) \/ PeerLeaves(c)
  BY <1>3, NewConnectionTypes, OtherTypes
<1>4. CASE \E s \in Sessions : AddMediaSession(s) \/ RemoveMediaSession(s) \/ PushFrame(s)
  BY <1>4, OtherTypes
<1>5. CASE UNCHANGED vars
  BY <1>5, OtherTypes
<1>6. QED
  BY <1>2, <1>3, <1>4, <1>5 DEF Next

\* Whatever clients, encoder and application do, every variable keeps its type,
\* the trigger queue its limit (xop/EventLoop.cpp:90), the heartbeat visits only
\* entries that are there, and a handler in two steps still has its connection.
THEOREM ServerTypeCorrect == Spec => []TypeOK
<1>1. Init => TypeInv
  BY TypesInitially
<1>2. TypeInv /\ [Next]_vars => TypeInv'
  BY TypesStep
<1>3. TypeInv => TypeOK
  BY DEF TypeInv
<1>4. QED
  BY <1>1, <1>2, <1>3, PTL DEF Spec

-----------------------------------------------------------------------------
(* Lifetime *)

LEMMA LifetimeInitially == Init => Lifetime
<1> SUFFICES ASSUME Init PROVE Lifetime
  OBVIOUS
<1>1. TypeInv
  BY TypesInitially
<1>2. Objects
  BY DEF Init, Objects, Filed, Fresh, OwnRtcp
<1>3. DOMAIN queue = {}
  BY DEF Init
<1>4. Midway /\ Members
  BY DEF Init, Midway, Members, NoClients
<1>5. Joined /\ Late
  BY DEF Init, Joined, Late
<1>6. Erases
  BY <1>3 DEF Init, Erases, Queued
<1>7. QED
  BY <1>1, <1>2, <1>4, <1>5, <1>6 DEF Lifetime, Ledger

LEMMA ResetFields ==
  ASSUME NEW cn \in ConnType, NEW c \in Conns
  PROVE  /\ Reset(c, cn) \in ConnType
         /\ \A d \in Conns :
              /\ Reset(c, cn)[d].fd = cn[d].fd /\ Reset(c, cn)[d].rtcpfd = cn[d].rtcpfd
              /\ Reset(c, cn)[d].sid = cn[d].sid /\ Reset(c, cn)[d].closed = cn[d].closed
              /\ Reset(c, cn)[d].mode = cn[d].mode
              /\ Reset(c, cn)[d].peer = IF d = c THEN "reset" ELSE cn[d].peer
<1>1. \A d \in Conns : cn[d] \in Connection
  BY DEF ConnType
<1>2. \A d \in Conns : Reset(c, cn)[d] = IF d = c THEN [cn[c] EXCEPT !.peer = "reset"] ELSE cn[d]
  BY DEF Reset, ConnType
<1>3. /\ [cn[c] EXCEPT !.peer = "reset"].fd = cn[c].fd
      /\ [cn[c] EXCEPT !.peer = "reset"].rtcpfd = cn[c].rtcpfd
      /\ [cn[c] EXCEPT !.peer = "reset"].sid = cn[c].sid
      /\ [cn[c] EXCEPT !.peer = "reset"].closed = cn[c].closed
      /\ [cn[c] EXCEPT !.peer = "reset"].mode = cn[c].mode
      /\ [cn[c] EXCEPT !.peer = "reset"].peer = "reset"
  BY <1>1 DEF Connection
<1>4. Reset(c, cn) \in ConnType
  BY FieldTypes DEF Reset
<1>5. QED
  BY <1>2, <1>3, <1>4

Shut(c, cn) == [cn EXCEPT ![c].closed = TRUE]

LEMMA ShutFields ==
  ASSUME NEW cn \in ConnType, NEW c \in Conns
  PROVE  /\ Shut(c, cn)[c].closed
         /\ \A d \in Conns :
              /\ Shut(c, cn)[d].fd = cn[d].fd /\ Shut(c, cn)[d].rtcpfd = cn[d].rtcpfd
              /\ Shut(c, cn)[d].sid = cn[d].sid /\ Shut(c, cn)[d].mode = cn[d].mode
              /\ Shut(c, cn)[d].peer = cn[d].peer
              /\ d # c => Shut(c, cn)[d].closed = cn[d].closed
<1>1. \A d \in Conns : cn[d] \in Connection
  BY DEF ConnType
<1>2. \A d \in Conns : Shut(c, cn)[d] = IF d = c THEN [cn[c] EXCEPT !.closed = TRUE] ELSE cn[d]
  BY DEF Shut, ConnType
<1>3. /\ [cn[c] EXCEPT !.closed = TRUE].fd = cn[c].fd
      /\ [cn[c] EXCEPT !.closed = TRUE].rtcpfd = cn[c].rtcpfd
      /\ [cn[c] EXCEPT !.closed = TRUE].sid = cn[c].sid
      /\ [cn[c] EXCEPT !.closed = TRUE].mode = cn[c].mode
      /\ [cn[c] EXCEPT !.closed = TRUE].peer = cn[c].peer
      /\ [cn[c] EXCEPT !.closed = TRUE].closed
  BY <1>1 DEF Connection
<1>4. QED
  BY <1>2, <1>3

\* Nothing is destroyed by a step after which the same connections exist.
LEMMA NothingDies ==
  ASSUME TypeOK, Members, alive' = alive, NEW cl \in ClientType, NEW w \in MapType,
         Release(cl, w),
         \A s \in Sessions, f \in Fds : cl[s][f] # None => cl[s][f] \in alive
  PROVE  /\ files' = files /\ watched' = w
         /\ \A s \in Sessions : clients'[s] = IF Referenced(s) THEN cl[s] ELSE NoClients
<1>1. \A s \in Sessions : clients'[s] = IF Referenced(s) THEN cl[s] ELSE NoClients
  BY DEF Release
<1>2. \A s \in Sessions, f \in Fds, c \in Conns : clients[s][f] = c => c \in alive
  BY DisjointAssumption DEF Members
<1>3. \A s \in Sessions, f \in Fds, c \in Conns : clients'[s][f] = c => c \in alive
  BY <1>1, DisjointAssumption DEF NoClients
<1>4. Held(alive, clients) = alive /\ Held(alive', clients') = alive
  BY <1>2, <1>3 DEF Held, TypeOK
<1>5. alive \ alive' = {}
  OBVIOUS
<1>6. files' = files \ {} /\ watched' = [f \in Fds |-> w[f]]
  BY <1>4, <1>5 DEF Release
<1>7. QED
  BY <1>1, <1>6 DEF MapType

\* What a step leaves of the connections.
Unmoved ==
  \A c \in Conns : /\ conn'[c].fd = conn[c].fd /\ conn'[c].rtcpfd = conn[c].rtcpfd
                   /\ conn'[c].sid = conn[c].sid
                   /\ conn'[c].peer = "new" <=> conn[c].peer = "new"

LEMMA ObjectsKept ==
  ASSUME Lifetime, Unmoved, UNCHANGED <<files, alive, connections>>,
         \A c \in Conns : conn[c].peer = "new" => conn'[c].closed = conn[c].closed
  PROVE  Objects'
<1>1. alive \subseteq Conns /\ connections \in [Fds -> MaybeConn]
  BY DEF Lifetime, TypeInv, TypeOK
<1>2. Filed'
  BY <1>1 DEF Lifetime, Objects, Filed, Unmoved, MaybeConn
<1>3. Fresh'
  BY DEF Lifetime, Objects, Fresh, Unmoved
<1>4. OwnRtcp'
  BY <1>1 DEF Lifetime, Objects, OwnRtcp, Unmoved
<1>5. QED
  BY <1>2, <1>3, <1>4 DEF Objects

\* The phases after which Late asks for more than before.
PhaseKept ==
  \/ phase' = phase
  \/ /\ doing = "nothing" /\ phase # "blocked" /\ phase' # "blocked"
     /\ phase' \in {"io", "triggers"} \/ queue = <<>> \/ phase \notin {"io", "triggers"}

LEMMA LedgerKept ==
  ASSUME Lifetime, PhaseKept,
         \A c \in Conns : /\ conn'[c].fd = conn[c].fd /\ conn'[c].sid = conn[c].sid
                          /\ conn'[c].closed = conn[c].closed,
         UNCHANGED <<alive, connections, session, clients, queue, timers, localVars>>
  PROVE  Ledger'
<1>1. /\ alive \subseteq Conns /\ connections \in [Fds -> MaybeConn]
      /\ doing # "nothing" => actor \in Conns
      /\ clients \in ClientType
  BY DEF Lifetime, TypeInv, TypeOK, Handling, ClientType, MapType
<1>2. Midway'
  BY <1>1 DEF Lifetime, Ledger, Midway, PhaseKept, localVars
<1>3. Members'
  BY <1>1 DEF Lifetime, Ledger, Members
<1>4. Joined'
  BY <1>1 DEF Lifetime, Ledger, Joined, Closing, localVars
<1>5. Late'
  <2>1. queue = <<>> => DOMAIN queue = {}
    OBVIOUS
  <2>2. QED
    BY <1>1, <2>1 DEF Lifetime, Ledger, Late, Closing, localVars, PhaseKept
<1>6. Erases'
  BY <1>1 DEF Lifetime, Ledger, Erases, Queued, Closing, localVars, PhaseKept, MaybeConn
<1>7. QED
  BY <1>2, <1>3, <1>4, <1>5, <1>6 DEF Ledger

\* A handler begins to close its connection.
LEMMA LedgerClose ==
  ASSUME Lifetime, NEW c \in alive, ~conn[c].closed, doing = "nothing",
         phase \in {"io", "beat"},
         \A d \in Conns : /\ conn'[d].fd = conn[d].fd /\ conn'[d].sid = conn[d].sid
                          /\ d # c => conn'[d].closed = conn[d].closed,
         conn'[c].closed, doing' = "close", actor' = c, hold' = LookSession(conn[c].sid),
         UNCHANGED <<alive, connections, session, clients, queue, timers, phase>>
  PROVE  Ledger'
<1>1. /\ alive \subseteq Conns /\ connections \in [Fds -> MaybeConn]
  BY DEF Lifetime, TypeInv, TypeOK
<1>2. Midway'
  BY DEF Midway
<1>3. Members'
  BY <1>1 DEF Lifetime, Ledger, Members
<1>4. Joined'
  <2>1. \A s \in Sessions : session[s] = "added" /\ conn[c].sid = s => hold' = s
    BY DEF LookSession
  <2>2. \A d \in alive : ~Closing(d)
    BY DEF Closing
  <2>3. QED
    BY <1>1, <2>1, <2>2 DEF Lifetime, Ledger, Joined, Closing
<1>5. Late'
  BY <1>1 DEF Lifetime, Ledger, Late, Closing
<1>6. Erases'
  BY <1>1 DEF Lifetime, Ledger, Erases, Queued, Closing, MaybeConn
<1>7. QED
  BY <1>2, <1>3, <1>4, <1>5, <1>6 DEF Ledger

\* The events of a client's sockets, but for DESCRIBE and SETUP over UDP.
LEMMA HandlerStep ==
  ASSUME Lifetime, NEW c \in alive, NEW cn \in ConnType,
         \/ Reply(c, cn) \/ Close(c, cn),
         doing = "nothing", ~conn[c].closed, phase \in {"io", "beat"},
         UNCHANGED Base, UNCHANGED phase,
         \A d \in Conns : /\ cn[d].fd = conn[d].fd /\ cn[d].rtcpfd = conn[d].rtcpfd
                          /\ cn[d].sid = conn[d].sid /\ cn[d].closed = conn[d].closed
                          /\ cn[d].peer = "new" <=> conn[d].peer = "new"
  PROVE  Objects' /\ Ledger'
<1>1. /\ alive \subseteq Conns
      /\ conn[c].peer # "new"
  BY DEF Lifetime, TypeInv, TypeOK, Objects, Filed
<1>2. CASE conn' = cn /\ UNCHANGED localVars
  BY <1>2, ObjectsKept, LedgerKept DEF Unmoved, PhaseKept, Base
<1>3. ASSUME NEW dn \in {cn, Reset(c, cn)}, Close(c, dn)
      PROVE  Objects' /\ Ledger'
  <2>1. /\ dn \in ConnType
        /\ \A d \in Conns : /\ dn[d].fd = conn[d].fd /\ dn[d].rtcpfd = conn[d].rtcpfd
                            /\ dn[d].sid = conn[d].sid /\ dn[d].closed = conn[d].closed
                            /\ dn[d].peer = "new" <=> conn[d].peer = "new"
    <3>1. CASE dn = cn
      BY <3>1
    <3>2. CASE dn = Reset(c, cn)
      BY <1>1, <3>2, ResetFields
    <3>3. QED
      BY <3>1, <3>2
  <2>2. /\ conn' = Shut(c, dn)
        /\ doing' = "close" /\ actor' = c /\ hold' = LookSession(conn[c].sid)
    BY <1>1, <1>3, <2>1 DEF Close, BeginClose, Shut
  <2>3. conn'[c].closed /\ \A d \in Conns :
          /\ conn'[d].fd = conn[d].fd /\ conn'[d].rtcpfd = conn[d].rtcpfd
          /\ conn'[d].sid = conn[d].sid
          /\ d # c => conn'[d].closed = conn[d].closed
          /\ conn'[d].peer = "new" <=> conn[d].peer = "new"
    <3>1. c \in Conns
      BY <1>1
    <3>2. QED
      BY <2>1, <2>2, <3>1, ShutFields
  <2>4. conn'[c].closed
    BY <2>3
  <2>5. Objects'
    BY <1>1, <2>3, ObjectsKept DEF Unmoved, Base
  <2>6. Ledger'
    BY <2>2, <2>3, <2>4, LedgerClose DEF Base
  <2>7. QED
    BY <2>5, <2>6
<1>4. QED
  BY <1>2, <1>3 DEF Reply

LEMMA EventStep ==
  ASSUME Lifetime, NEW f \in Fds, NEW c \in Conns, NEW e, e = <<f, c>>,
         Ignored(e) \/ HandleRtcp(e) \/ ReadFails(e) \/ OtherEvent(e)
           \/ Setup(e) \/ Play(e) \/ Teardown(e)
  PROVE  Objects' /\ Ledger'
<1>1. e[1] = f /\ e[2] = c
  OBVIOUS
<1>2. conn \in ConnType /\ Heard(c) \in ConnType
  BY FieldTypes DEF Lifetime, TypeInv, TypeOK, ConnType, Heard
<1>3. ASSUME Take(e)
      PROVE  phase = "io" /\ doing = "nothing" /\ c \in alive /\ phase' = phase
  BY <1>1, <1>3 DEF Take
<1> DEFINE Same(cn) ==
      \A d \in Conns : /\ cn[d].fd = conn[d].fd /\ cn[d].rtcpfd = conn[d].rtcpfd
                       /\ cn[d].sid = conn[d].sid /\ cn[d].closed = conn[d].closed
                       /\ cn[d].peer = "new" <=> conn[d].peer = "new"
<1>4. Same(Heard(c))
  BY <1>2 DEF Heard, ConnType, Connection
<1>5. c \in alive => conn[c].peer # "new"
  BY DEF Lifetime, Objects, Filed
<1>6. CASE Ignored(e)
  <2>1. Take(e) /\ UNCHANGED <<conn, alive, connections, sessionVars, queue, timers, files, localVars>>
    BY <1>6 DEF Ignored, Keep, kernelVars
  <2>2. QED
    BY <1>3, <2>1, ObjectsKept, LedgerKept DEF Unmoved, PhaseKept, sessionVars
<1>7. CASE HandleRtcp(e)
  <2>1. Take(e) /\ UNCHANGED <<alive, connections, sessionVars, queue, timers, files, localVars>>
    BY <1>7 DEF HandleRtcp, Keep, kernelVars
  <2>2. PICK got \in BOOLEAN : conn' = [conn EXCEPT ![c].heard = @ \/ got]
    BY <1>1, <1>7 DEF HandleRtcp
  <2>3. Same(conn')
    BY <1>2, <2>2 DEF ConnType, Connection
  <2>4. QED
    BY <1>3, <2>1, <2>3, ObjectsKept, LedgerKept DEF Unmoved, PhaseKept, sessionVars
<1>8. ASSUME NEW cn \in ConnType, Same(cn), OnRtsp(e), Reply(c, cn) \/ Close(c, cn),
             UNCHANGED <<files, alive, connections, sessionVars, queue, timers>>
      PROVE  Objects' /\ Ledger'
  <2>1. UNCHANGED Base
    BY <1>8 DEF Base, sessionVars
  <2>2. Take(e) /\ ~conn[c].closed
    BY <1>1, <1>8 DEF OnRtsp
  <2>3. QED
    BY <1>3, <1>8, <2>1, <2>2, HandlerStep
<1>9. CASE ReadFails(e)
  <2>1. PICK cn \in {Heard(c), Reset(c, Heard(c))} : Close(c, cn)
    BY <1>1, <1>9 DEF ReadFails
  <2>2. Take(e)
    BY <1>9 DEF ReadFails, OnRtsp
  <2>3. Reset(c, Heard(c)) \in ConnType /\ Same(Reset(c, Heard(c)))
    <3>1. c \in Conns /\ conn[c].peer # "new"
      BY <1>3, <1>5, <2>2
    <3>2. QED
      BY SMTT(20), <1>2, <1>4, <3>1, ResetFields
  <2>4. QED
    BY <1>2, <1>4, <1>8, <1>9, <2>1, <2>3 DEF ReadFails
<1>10. CASE OtherEvent(e)
  BY <1>1, <1>2, <1>4, <1>8, <1>10 DEF OtherEvent
<1>11. CASE Setup(e)
  <2>1. PICK md \in {"tcp", "multicast"} : Reply(c, [Heard(c) EXCEPT ![c].mode = md])
    BY <1>1, <1>11 DEF Setup
  <2> DEFINE cn == [Heard(c) EXCEPT ![c].mode = md]
  <2>2. cn \in ConnType
    BY <1>2, FieldTypes
  <2>3. Same(cn)
    BY <1>2, <1>4 DEF ConnType, Connection
  <2> HIDE DEF cn
  <2>4. QED
    BY <1>8, <1>11, <2>1, <2>2, <2>3 DEF Setup, cn
<1>12. CASE Play(e)
  <2> DEFINE cn == [Heard(c) EXCEPT ![c].rtp = "playing"]
  <2>1. cn \in ConnType
    BY <1>2, FieldTypes
  <2>2. Same(cn)
    BY <1>2, <1>4 DEF ConnType, Connection
  <2>3. Reply(c, cn)
    BY <1>1, <1>12 DEF Play
  <2> HIDE DEF cn
  <2>4. QED
    BY <1>8, <1>12, <2>1, <2>2, <2>3 DEF Play
<1>13. CASE Teardown(e)
  <2> DEFINE cn == [Heard(c) EXCEPT ![c].rtp = "torn"]
  <2>1. cn \in ConnType
    BY <1>2, FieldTypes
  <2>2. Same(cn)
    BY <1>2, <1>4 DEF ConnType, Connection
  <2>3. Close(c, cn)
    BY <1>1, <1>13 DEF Teardown
  <2> HIDE DEF cn
  <2>4. QED
    BY <1>8, <1>13, <2>1, <2>2, <2>3 DEF Teardown
<1>14. QED
  BY <1>6, <1>7, <1>9, <1>10, <1>11, <1>12, <1>13

\* DESCRIBE finds its session.
LEMMA DescribeStep ==
  ASSUME Lifetime, ~Redescribe, NEW f \in Fds, NEW c \in Conns, NEW e, e = <<f, c>>,
         Describe(e)
  PROVE  Objects' /\ Ledger'
<1>1. e[2] = c
  OBVIOUS
<1>2. PICK s \in Sessions :
        /\ session[s] = "added" /\ hold' = s
        /\ conn[c].sid \in {None} \cup {t \in Sessions : Url[t] = Url[s]}
  BY <1>1 DEF Describe
<1>3. /\ phase = "io" /\ doing = "nothing" /\ c \in alive /\ phase' = phase
      /\ ~conn[c].closed /\ doing' = "describe" /\ actor' = c /\ conn' = Heard(c)
      /\ UNCHANGED <<files, alive, connections, session, clients, queue, timers>>
  BY <1>1 DEF Describe, OnRtsp, Take, kernelVars, sessionVars
<1>4. conn \in ConnType /\ alive \subseteq Conns /\ connections \in [Fds -> MaybeConn]
  BY DEF Lifetime, TypeInv, TypeOK, ConnType
<1>5. \A d \in Conns : /\ conn'[d].fd = conn[d].fd /\ conn'[d].rtcpfd = conn[d].rtcpfd
                       /\ conn'[d].sid = conn[d].sid /\ conn'[d].closed = conn[d].closed
                       /\ conn'[d].peer = "new" <=> conn[d].peer = "new"
  BY <1>3, <1>4 DEF Heard, ConnType, Connection
<1>6. \A d \in alive : ~Closing(d) /\ ~Closing(d)'
  BY <1>3 DEF Closing
<1>7. Objects'
  BY <1>3, <1>5, ObjectsKept DEF Unmoved
<1>8. Midway'
  <2>1. ASSUME NEW t \in Sessions, session[t] = "added", clients[t][conn[c].fd] = c
        PROVE  t = s
    <3>1. conn[c].sid = t
      BY <1>3, <2>1 DEF Lifetime, Ledger, Joined
    <3>2. Url[t] = Url[s]
      BY <1>2, <3>1, DisjointAssumption
    <3>3. QED
      BY <1>2, <2>1, <3>2 DEF Lifetime, Ledger, Members
  <2>2. QED
    BY <1>2, <1>3, <1>4, <1>5, <2>1 DEF Midway
<1>9. Members'
  BY <1>3, <1>4, <1>5 DEF Lifetime, Ledger, Members
<1>10. Joined'
  BY <1>3, <1>4, <1>5, <1>6 DEF Lifetime, Ledger, Joined
<1>11. Late'
  BY <1>3, <1>4, <1>5, <1>6 DEF Lifetime, Ledger, Late
<1>12. Erases'
  <2>1. \A g \in Fds : connections[g] # None => connections[g] \in alive
    BY DEF Lifetime, Objects, Filed
  <2>2. QED
    BY <1>3, <1>4, <1>5, <1>6, <2>1 DEF Lifetime, Ledger, Erases, Queued
<1>13. QED
  BY <1>7, <1>8, <1>9, <1>10, <1>11, <1>12 DEF Ledger

\* SETUP over UDP opens the RTCP socket.
LEMMA SetupUdpStep ==
  ASSUME Lifetime, NEW f \in Fds, NEW c \in Conns, NEW e, e = <<f, c>>, SetupUdp(e)
  PROVE  Objects' /\ Ledger'
<1>1. e[2] = c
  OBVIOUS
<1> DEFINE cn(g) == [Heard(c) EXCEPT ![c].mode = "udp", ![c].rtcpfd = g]
<1>2. /\ phase = "io" /\ doing = "nothing" /\ c \in alive /\ phase' = phase
      /\ ~conn[c].closed
      /\ UNCHANGED <<alive, connections, session, clients, queue, timers>>
  BY <1>1 DEF SetupUdp, OnRtsp, Take, sessionVars
<1>3. PICK g \in Fds \ files :
        /\ files' = files \cup {g}
        /\ \/ conn' = cn(g) /\ UNCHANGED localVars
           \/ BeginClose(c, Reset(c, cn(g)), Registered(g, c))
  BY <1>1 DEF SetupUdp
<1>4. /\ conn \in ConnType /\ alive \subseteq Conns /\ connections \in [Fds -> MaybeConn]
      /\ files \subseteq Fds /\ conn[c].peer # "new"
  BY <1>2 DEF Lifetime, TypeInv, TypeOK, ConnType, Objects, Filed
<1>5. cn(g) \in ConnType
  BY <1>4, FieldTypes DEF Heard
<1>6. \A d \in Conns :
        /\ cn(g)[d].fd = conn[d].fd /\ cn(g)[d].closed = conn[d].closed
        /\ cn(g)[d].rtcpfd = IF d = c THEN g ELSE conn[d].rtcpfd
        /\ cn(g)[d].sid = conn[d].sid /\ (cn(g)[d].peer = "new" <=> conn[d].peer = "new")
  BY <1>4 DEF Heard, ConnType, Connection
<1> HIDE DEF cn
<1>7. Reset(c, cn(g)) \in ConnType
  BY <1>5, ResetFields
<1>8. \A d \in Conns :
        /\ Reset(c, cn(g))[d].fd = conn[d].fd /\ Reset(c, cn(g))[d].closed = conn[d].closed
        /\ Reset(c, cn(g))[d].rtcpfd = IF d = c THEN g ELSE conn[d].rtcpfd
        /\ Reset(c, cn(g))[d].sid = conn[d].sid
        /\ Reset(c, cn(g))[d].peer = "new" <=> conn[d].peer = "new"
  BY SMTT(20), <1>4, <1>5, <1>6, ResetFields
<1>9. ASSUME conn' = cn(g), UNCHANGED localVars
      PROVE  Ledger'
  BY <1>2, <1>6, <1>9, LedgerKept DEF PhaseKept
<1>10. ASSUME BeginClose(c, Reset(c, cn(g)), Registered(g, c))
       PROVE  Ledger'
  <2>1. /\ conn' = Shut(c, Reset(c, cn(g)))
        /\ doing' = "close" /\ actor' = c /\ hold' = LookSession(conn[c].sid)
    BY <1>8, <1>10 DEF BeginClose, Shut
  <2>2. /\ conn'[c].closed
        /\ \A d \in Conns : /\ conn'[d].fd = conn[d].fd /\ conn'[d].sid = conn[d].sid
                            /\ d # c => conn'[d].closed = conn[d].closed
    BY <1>7, <1>8, <2>1, ShutFields
  <2>3. QED
    BY <1>2, <2>1, <2>2, LedgerClose
<1>11. \A d \in Conns :
        /\ conn'[d].fd = conn[d].fd /\ conn'[d].sid = conn[d].sid
        /\ conn'[d].rtcpfd = IF d = c THEN g ELSE conn[d].rtcpfd
        /\ d # c => conn'[d].closed = conn[d].closed
        /\ conn'[d].peer = "new" <=> conn[d].peer = "new"
  <2>1. CASE conn' = cn(g)
    BY <1>6, <2>1
  <2>2. CASE conn' = Shut(c, Reset(c, cn(g)))
    BY <1>7, <1>8, <2>2, ShutFields
  <2>3. QED
    BY <1>3, <2>1, <2>2 DEF BeginClose, Shut
<1>12. Filed'
  BY <1>2, <1>3, <1>4, <1>11 DEF Lifetime, Objects, Filed, MaybeConn
<1>13. Fresh'
  BY <1>4, <1>11 DEF Lifetime, Objects, Fresh
<1>14. OwnRtcp'
  <2>1. \A d \in alive : conn[d].fd # g /\ conn[d].rtcpfd # g
    BY <1>3, <1>4, DisjointAssumption DEF Lifetime, Objects, Filed, OwnRtcp
  <2>2. QED
    BY <1>2, <1>3, <1>4, <1>11, <2>1 DEF Lifetime, Objects, OwnRtcp
<1>15. QED
  BY <1>3, <1>9, <1>10, <1>12, <1>13, <1>14 DEF Objects

LEMMA SidFields ==
  ASSUME conn \in ConnType, NEW c \in Conns, NEW s \in Sessions
  PROVE  /\ Associated(c, s) \in ConnType
         /\ \A d \in Conns :
              /\ Associated(c, s)[d].fd = conn[d].fd /\ Associated(c, s)[d].rtcpfd = conn[d].rtcpfd
              /\ Associated(c, s)[d].sid = IF d = c THEN s ELSE conn[d].sid
              /\ Associated(c, s)[d].closed = conn[d].closed
              /\ Associated(c, s)[d].mode = conn[d].mode
              /\ Associated(c, s)[d].peer = conn[d].peer
<1>1. \A d \in Conns : conn[d] \in Connection
  BY DEF ConnType
<1>2. \A d \in Conns : Associated(c, s)[d] = IF d = c THEN [conn[c] EXCEPT !.sid = s] ELSE conn[d]
  BY DEF Associated, ConnType
<1>3. /\ [conn[c] EXCEPT !.sid = s].fd = conn[c].fd
      /\ [conn[c] EXCEPT !.sid = s].rtcpfd = conn[c].rtcpfd
      /\ [conn[c] EXCEPT !.sid = s].sid = s
      /\ [conn[c] EXCEPT !.sid = s].closed = conn[c].closed
      /\ [conn[c] EXCEPT !.sid = s].mode = conn[c].mode
      /\ [conn[c] EXCEPT !.sid = s].peer = conn[c].peer
  BY <1>1 DEF Connection
<1>4. Associated(c, s) \in ConnType
  BY FieldTypes DEF Associated
<1>5. QED
  BY <1>2, <1>3, <1>4

\* The rest of DESCRIBE; the reply may fail.
LEMMA EndDescribeStep ==
  ASSUME Lifetime, EndDescribe
  PROVE  Objects' /\ Ledger'
<1>0. PICK c \in Conns, s \in Sessions, f \in Fds : c = actor /\ s = hold /\ f = conn[actor].fd
  BY DEF EndDescribe, Lifetime, TypeInv, Handling, HasSocket
<1> DEFINE cl == WithClient(s, f, c)
<1>1. /\ doing = "describe"
      /\ UNCHANGED <<alive, connections, session, multicast, queue, timers, loopVars>>
      /\ \/ /\ conn' = Associated(c, s)
            /\ doing' = "nothing" /\ actor' = None /\ hold' = None
            /\ Release(cl, watched)
         \/ /\ BeginClose(c, Reset(c, Associated(c, s)), channels)
            /\ Release(cl, Unwatched(watched, channels, f))
  BY <1>0 DEF EndDescribe
<1>2. TypeOK /\ Members /\ Midway
  BY DEF Lifetime, TypeInv, Ledger
<1>3. /\ c \in alive /\ s \in Sessions /\ session[s] # "new" /\ ~conn[c].closed
      /\ phase \in {"io", "beat"}
      /\ \A t \in Sessions : session[t] = "added" /\ clients[t][f] = c => t = s
  BY <1>0, <1>1, <1>2 DEF Midway
<1>4. /\ alive \subseteq Conns /\ c \in Conns /\ f \in files /\ f \in Fds
      /\ connections[f] = c /\ connections \in [Fds -> MaybeConn]
      /\ conn[c].peer # "new" /\ conn[c].fd = f
  BY <1>0, <1>2, <1>3 DEF Lifetime, Objects, Filed, TypeOK
<1>5. conn \in ConnType /\ clients \in ClientType /\ channels \in MapType /\ watched \in MapType
  BY <1>2 DEF TypeOK, ConnType, ClientType, MapType
<1>6. /\ cl \in ClientType
      /\ \A t \in Sessions, g \in Fds :
           cl[t][g] = IF t = s /\ g = f /\ clients[t][g] = None THEN c ELSE clients[t][g]
  BY <1>3, <1>4, <1>5 DEF WithClient, ClientType, MapType, MaybeConn
<1>7. Unwatched(watched, channels, f) \in MapType
  BY <1>2, <1>4, <1>5, MapTypes
<1>8. \A t \in Sessions, g \in Fds : cl[t][g] # None => cl[t][g] \in alive
  BY <1>2, <1>3, <1>6 DEF Members
<1> DEFINE an == Associated(c, s)
<1>9. /\ an \in ConnType /\ Reset(c, an) \in ConnType
      /\ \A d \in Conns : /\ an[d].fd = conn[d].fd /\ an[d].rtcpfd = conn[d].rtcpfd
                          /\ an[d].sid = IF d = c THEN s ELSE conn[d].sid
                          /\ an[d].closed = conn[d].closed /\ an[d].peer = conn[d].peer
  BY <1>3, <1>4, <1>5, SidFields, ResetFields
<1> HIDE DEF cl, an
<1>10. \/ /\ \A d \in Conns : conn'[d].closed = conn[d].closed /\ conn'[d].peer = conn[d].peer
          /\ doing' = "nothing" /\ actor' = None /\ hold' = None
       \/ /\ \A d \in Conns : /\ d # c => conn'[d].closed = conn[d].closed
                              /\ conn'[d].peer = "new" <=> conn[d].peer = "new"
          /\ conn'[c].closed
          /\ doing' = "close" /\ actor' = c /\ hold' = LookSession(s)
  <2>1. CASE BeginClose(c, Reset(c, an), channels)
    <3>1. conn' = Shut(c, Reset(c, an)) /\ doing' = "close" /\ actor' = c
      BY <2>1 DEF BeginClose, Shut
    <3>2. hold' = LookSession(s)
      BY <1>4, <1>9, <2>1, ResetFields DEF BeginClose
    <3>3. \A d \in Conns : /\ Reset(c, an)[d].closed = conn[d].closed
                           /\ Reset(c, an)[d].peer = "new" <=> conn[d].peer = "new"
      BY <1>4, <1>9, ResetFields
    <3>4. QED
      BY <1>4, <1>9, <3>1, <3>2, <3>3, ShutFields
  <2>2. QED
    BY <1>1, <1>9, <2>1 DEF an
<1>11. \A d \in Conns : /\ conn'[d].fd = conn[d].fd /\ conn'[d].rtcpfd = conn[d].rtcpfd
                        /\ conn'[d].sid = IF d = c THEN s ELSE conn[d].sid
  <2>1. CASE conn' = an
    BY <1>9, <2>1
  <2>2. CASE conn' = Shut(c, Reset(c, an))
    <3>1. \A d \in Conns : /\ Reset(c, an)[d].fd = conn[d].fd
                           /\ Reset(c, an)[d].rtcpfd = conn[d].rtcpfd
                           /\ Reset(c, an)[d].sid = IF d = c THEN s ELSE conn[d].sid
      BY <1>4, <1>9, ResetFields
    <3>2. QED
      BY <1>4, <1>9, <2>2, <3>1, ShutFields
  <2>3. QED
    BY <1>1, <2>1, <2>2 DEF an, BeginClose, Shut
<1>12. /\ files' = files
       /\ \A t \in Sessions : clients'[t] = IF Referenced(t) THEN cl[t] ELSE NoClients
  <2>1. PICK w \in MapType : Release(cl, w)
    BY <1>1, <1>5, <1>7 DEF cl
  <2>2. QED
    BY <1>1, <1>2, <1>6, <1>8, <2>1, NothingDies
<1>13. \A t \in Sessions, g \in Fds :
         /\ clients'[t][g] # None => clients'[t][g] = cl[t][g]
         /\ clients'[t][g] # None => Referenced(t)
         /\ session[t] = "added" => clients'[t] = cl[t]
  BY <1>1, <1>12 DEF NoClients, Referenced
<1>14. UNCHANGED <<alive, connections, session, queue, timers, phase>>
  BY <1>1 DEF loopVars
<1>15. Filed'
  BY <1>4, <1>10, <1>11, <1>12, <1>14 DEF Lifetime, Objects, Filed, MaybeConn
<1>16. Fresh'
  BY <1>4, <1>10, <1>11 DEF Lifetime, Objects, Fresh
<1>17. OwnRtcp'
  BY <1>4, <1>11, <1>12, <1>14 DEF Lifetime, Objects, OwnRtcp
<1>18. Midway'
  BY <1>3, <1>10, <1>14 DEF Midway
<1>19. Members'
  <2>1. \A t \in Sessions, g \in Fds : clients'[t][g] # None =>
          \/ t = s /\ g = f /\ clients'[t][g] = c
          \/ clients'[t][g] = clients[t][g]
    BY <1>6, <1>13
  <2>2. QED
    BY <1>2, <1>3, <1>4, <1>11, <1>14, <2>1 DEF Members
<1>20. \A d \in alive : ~Closing(d)
  BY <1>1 DEF Closing
<1>21. Joined'
  <2> SUFFICES ASSUME NEW t \in Sessions, NEW d \in alive, session[t] = "added"
               PROVE  /\ clients'[t][conn[d].fd] = d => conn'[d].sid = t
                      /\ clients'[t][conn[d].fd] = d =>
                           ~conn'[d].closed \/ (Closing(d)' /\ hold' = t)
                      /\ conn'[d].sid = t /\ ~conn'[d].closed => clients'[t][conn[d].fd] = d
    BY <1>4, <1>11, <1>14 DEF Joined
  <2>1. /\ clients[t][conn[d].fd] = d => conn[d].sid = t /\ ~conn[d].closed
        /\ conn[d].sid = t /\ ~conn[d].closed => clients[t][conn[d].fd] = d
    BY <1>20 DEF Lifetime, Ledger, Joined
  <2>2. clients'[t] = cl[t] /\ conn[d].fd \in Fds
    BY <1>2, <1>4, <1>13 DEF Lifetime, Objects, Filed, TypeOK
  <2>3. CASE d = c
    <3>1. conn[d].fd = f
      BY <1>4, <2>3
    <3>2. clients[t][f] \in {None, c}
      <4>1. ASSUME clients[t][f] # None PROVE clients[t][f] = c
        <5>1. /\ clients[t][f] \in alive /\ conn[clients[t][f]].fd = f
          BY <1>2, <1>4, <4>1 DEF Members
        <5>2. connections[f] = clients[t][f]
          BY <5>1 DEF Lifetime, Objects, Filed
        <5>3. QED
          BY <1>4, <5>2
      <4>2. QED
        BY <4>1
    <3>3. clients'[t][f] = c <=> t = s
      BY <1>3, <1>4, <1>6, <2>2, <3>2, DisjointAssumption
    <3>4. conn'[c].sid = s
      BY <1>4, <1>11
    <3>5. t = s /\ conn'[c].closed => Closing(c)' /\ hold' = t
      BY <1>3, <1>4, <1>10 DEF Closing, LookSession
    <3>6. QED
      BY <2>3, <3>1, <3>3, <3>4, <3>5
  <2>4. CASE d # c
    <3>1. conn[d].fd # f
      BY <1>4, <2>4 DEF Lifetime, Objects, Filed
    <3>2. clients'[t][conn[d].fd] = clients[t][conn[d].fd]
      BY <1>6, <2>2, <3>1
    <3>3. conn'[d].sid = conn[d].sid /\ conn'[d].closed = conn[d].closed
      BY <1>4, <1>10, <1>11, <2>4
    <3>4. QED
      BY <2>1, <3>2, <3>3
  <2>5. QED
    BY <2>3, <2>4
<1>22. Late'
  <2> SUFFICES ASSUME NEW t \in Sessions, NEW d \in alive, clients'[t][conn[d].fd] = d,
                      conn'[d].closed, ~Closing(d)'
               PROVE  /\ \E i \in DOMAIN queue : queue[i] = t
                      /\ \A i, j \in DOMAIN queue : queue[i] = t /\ queue[j] = conn[d].fd => i < j
                      /\ conn[d].fd \in timers => phase \in {"io", "triggers"}
    BY <1>4, <1>11, <1>14 DEF Late
  <2>1. d # c
    BY <1>3, <1>4, <1>10 DEF Closing
  <2>2. conn[d].closed /\ conn[d].fd # f /\ conn[d].fd \in Fds
    BY <1>2, <1>4, <1>10, <2>1 DEF Lifetime, Objects, Filed, TypeOK
  <2>3. clients[t][conn[d].fd] = d
    BY <1>4, <1>6, <1>13, <2>2, DisjointAssumption
  <2>4. QED
    BY <1>20, <2>2, <2>3 DEF Lifetime, Ledger, Late
<1>23. Erases'
  <2>1. \A g \in Fds : connections[g] # None => connections[g] \in alive
    BY DEF Lifetime, Objects, Filed
  <2>2. \A d \in alive : conn[d].closed => conn'[d].closed /\ ~Closing(d)'
    BY <1>3, <1>4, <1>10, DisjointAssumption DEF Closing
  <2>3. \A d \in alive : conn'[d].closed /\ ~Closing(d)' => conn[d].closed
    BY <1>3, <1>4, <1>10 DEF Closing
  <2>4. QED
    BY <1>4, <1>11, <1>14, <1>20, <2>1, <2>2, <2>3 DEF Lifetime, Ledger, Erases, Queued
<1>24. QED
  BY <1>15, <1>16, <1>17, <1>18, <1>19, <1>21, <1>22, <1>23 DEF Objects, Ledger

\* The end of a close: the client leaves its session and the erase is queued.
LEMMA EndCloseStep ==
  ASSUME Lifetime, EndClose
  PROVE  Objects' /\ Ledger'
<1>0. PICK c \in Conns, f \in Fds, r \in Fds \cup {None} :
        c = actor /\ f = conn[actor].fd /\ r = conn[actor].rtcpfd
  <2>1. actor \in Conns /\ conn[actor].fd \in Fds
    BY DEF EndClose, Lifetime, TypeInv, Handling, HasSocket
  <2>2. conn[actor].rtcpfd \in Fds \cup {None}
    BY <2>1 DEF Lifetime, TypeInv, TypeOK, Connection
  <2>3. QED
    BY <2>1, <2>2
<1> DEFINE cl == WithoutClient(hold, f)
           w == Unwatched(watched, channels, r)
<1>1. /\ doing = "close" /\ RemoveConnection(f)
      /\ doing' = "nothing" /\ actor' = None /\ hold' = None
      /\ UNCHANGED <<conn, session, alive, connections>>
      /\ Release(cl, w)
  BY <1>0 DEF EndClose, RemoveConnection
<1>2. TypeOK /\ Members /\ Midway
  BY DEF Lifetime, TypeInv, Ledger
<1>3. /\ c \in alive /\ conn[c].closed /\ conn[c].fd = f /\ connections[f] = c
      /\ phase \in {"io", "beat"} /\ hold \in MaybeSession
  BY <1>0, <1>1, <1>2 DEF Midway, Lifetime, Objects, Filed, TypeOK, MaybeSession
<1>4. /\ alive \subseteq Conns /\ clients \in ClientType
      /\ connections \in [Fds -> MaybeConn]
      /\ channels \in MapType /\ watched \in MapType
  BY <1>2 DEF TypeOK, ClientType, MapType
<1>5. /\ cl \in ClientType
      /\ \A s \in Sessions, g \in Fds :
           cl[s][g] = IF s = hold /\ g = f THEN None ELSE clients[s][g]
  BY <1>3, <1>4, DisjointAssumption DEF WithoutClient, ClientType, MapType, MaybeConn, MaybeSession
<1>6. w \in MapType
  BY <1>0, <1>2, <1>4, MapTypes
<1> HIDE DEF cl, w
<1>7. \A s \in Sessions, g \in Fds : cl[s][g] # None => cl[s][g] \in alive
  BY <1>2, <1>5 DEF Members
<1>8. /\ files' = files
      /\ \A s \in Sessions : clients'[s] = IF Referenced(s) THEN cl[s] ELSE NoClients
  BY <1>1, <1>2, <1>5, <1>6, <1>7, NothingDies
<1>9. \A s \in Sessions, g \in Fds :
        /\ clients'[s][g] # None =>
             /\ clients'[s][g] = clients[s][g] /\ ~(s = hold /\ g = f)
             /\ session[s] = "added" \/ Queued(s)'
        /\ session[s] = "added" /\ ~(s = hold /\ g = f) => clients'[s][g] = clients[s][g]
  <2>1. \A s \in Sessions : Referenced(s) <=> session[s] = "added" \/ Queued(s)'
    BY <1>1, DisjointAssumption DEF Referenced, Range, Queued
  <2>2. QED
    BY <1>5, <1>8, <2>1 DEF NoClients
<1>10. \A d \in alive : ~Closing(d)' /\ (Closing(d) <=> d = c)
  BY <1>0, <1>1 DEF Closing
\* The erase of f is new.
<1>11. ~Queued(f) /\ f \notin timers
  BY <1>3, <1>10 DEF Lifetime, Ledger, Erases
<1>12. \/ /\ queue' = Append(queue, f) /\ UNCHANGED <<timers, phase>>
       \/ /\ queue' = queue /\ timers' = timers \cup {f} /\ phase' = phase /\ phase = "io"
       \/ /\ queue' = queue /\ timers' = timers /\ phase' = "blocked" /\ phase = "beat"
  BY <1>1, <1>3 DEF RemoveConnection
<1> DEFINE n == Len(queue) + 1
<1>13. \/ /\ n \in Nat /\ DOMAIN queue' = DOMAIN queue \cup {n} /\ queue'[n] = f
          /\ \A i \in DOMAIN queue : i \in Nat /\ i < n /\ queue'[i] = queue[i]
          /\ UNCHANGED <<timers, phase>>
       \/ /\ queue' = queue /\ timers' = timers \cup {f} /\ phase' = phase /\ phase = "io"
       \/ /\ queue' = queue /\ timers' = timers /\ phase' = "blocked" /\ phase = "beat"
  <2>1. queue \in Seq(Sessions \cup Fds)
    BY <1>2 DEF TypeOK
  <2>2. CASE queue' = Append(queue, f)
    <3>1. /\ n \in Nat /\ DOMAIN queue' = DOMAIN queue \cup {n} /\ queue'[n] = f
          /\ \A i \in DOMAIN queue : i \in Nat /\ i < n /\ queue'[i] = queue[i]
      BY <2>1, <2>2
    <3>2. QED
      BY <1>12, <2>2, <3>1
  <2>3. QED
    BY <1>12, <2>2
<1> HIDE DEF n
<1>14. Objects'
  BY <1>1, <1>8 DEF Lifetime, Objects, Filed, Fresh, OwnRtcp
<1>15. Midway'
  BY <1>1 DEF Midway
<1>16. Members'
  BY <1>1, <1>2, <1>9 DEF Members
<1>17. Joined'
  <2> SUFFICES ASSUME NEW s \in Sessions, NEW d \in alive, session[s] = "added"
               PROVE  /\ clients'[s][conn[d].fd] = d => conn[d].sid = s /\ ~conn[d].closed
                      /\ conn[d].sid = s /\ ~conn[d].closed => clients'[s][conn[d].fd] = d
    BY <1>1 DEF Joined
  <2>1. /\ clients[s][conn[d].fd] = d => conn[d].sid = s
        /\ clients[s][conn[d].fd] = d => ~conn[d].closed \/ (d = c /\ hold = s)
        /\ conn[d].sid = s /\ ~conn[d].closed => clients[s][conn[d].fd] = d
    BY <1>10 DEF Lifetime, Ledger, Joined
  <2>2. conn[d].fd \in Fds /\ (conn[d].fd = f => d = c) /\ d # None
    BY <1>2, <1>3, <1>4, DisjointAssumption DEF Lifetime, Objects, Filed, TypeOK
  <2>3. QED
    BY <1>3, <1>9, <2>1, <2>2
<1>18. Late'
  <2> SUFFICES ASSUME NEW s \in Sessions, NEW d \in alive, clients'[s][conn[d].fd] = d,
                      conn[d].closed
               PROVE  /\ \E i \in DOMAIN queue' : queue'[i] = s
                      /\ \A i, j \in DOMAIN queue' : queue'[i] = s /\ queue'[j] = conn[d].fd => i < j
                      /\ conn[d].fd \in timers' => phase' \in {"io", "triggers"}
    BY <1>1 DEF Late
  <2>1. conn[d].fd \in Fds /\ (conn[d].fd = f => d = c) /\ d # None /\ s \notin Fds
    BY <1>2, <1>3, <1>4, DisjointAssumption DEF Lifetime, Objects, Filed, TypeOK
  <2>2. clients[s][conn[d].fd] = d /\ ~(s = hold /\ conn[d].fd = f)
    BY <1>9, <2>1
  <2>3. session[s] # "added"
    BY <1>3, <1>10, <2>1, <2>2 DEF Lifetime, Ledger, Joined
  <2>4. Queued(s)'
    BY <1>9, <2>1, <2>3
  <2>5. CASE d = c
    <3>1. \A i \in DOMAIN queue : queue[i] # f
      BY <1>11 DEF Queued
    <3>2. \A i, j \in DOMAIN queue' : queue'[i] = s /\ queue'[j] = f => i < j
      BY <1>13, <2>1, <3>1
    <3>3. f \in timers' => phase' \in {"io", "triggers"}
      BY <1>11, <1>13
    <3>4. QED
      BY <1>3, <2>4, <2>5, <3>2, <3>3 DEF Queued
  <2>6. CASE d # c
    <3>1. /\ \A i, j \in DOMAIN queue : queue[i] = s /\ queue[j] = conn[d].fd => i < j
          /\ conn[d].fd \in timers => phase \in {"io", "triggers"}
      BY <1>10, <2>2, <2>6 DEF Lifetime, Ledger, Late
    <3>2. conn[d].fd # f
      BY <2>1, <2>6
    <3>3. \A i, j \in DOMAIN queue' : queue'[i] = s /\ queue'[j] = conn[d].fd => i < j
      BY <1>13, <2>1, <3>1, <3>2
    <3>4. conn[d].fd \in timers' => phase' \in {"io", "triggers"}
      BY <1>13, <3>1, <3>2
    <3>5. QED
      BY <2>4, <3>3, <3>4 DEF Queued
  <2>7. QED
    BY <2>5, <2>6
<1>19. Erases'
  <2>1. \A g \in Fds : (Queued(g)' <=> Queued(g) \/ (g = f /\ queue' # queue))
    BY <1>11, <1>13 DEF Queued
  <2>2. \A g \in Fds : g \in timers' => g \in timers \cup {f}
    BY <1>13
  <2>3. \A g \in Fds : Queued(g)' \/ g \in timers' =>
          connections[g] # None /\ conn[connections[g]].closed
    BY <1>3, <1>4, <2>1, <2>2, DisjointAssumption DEF Lifetime, Ledger, Erases
  <2>4. \A d : ~Closing(d)'
    BY <1>1 DEF Closing
  <2>5. phase' # "blocked" => \A d \in alive : conn[d].closed =>
          Queued(conn[d].fd)' \/ conn[d].fd \in timers'
    <3>1. SUFFICES ASSUME phase' # "blocked", NEW d \in alive, conn[d].closed
                   PROVE  Queued(conn[d].fd)' \/ conn[d].fd \in timers'
      OBVIOUS
    <3>2. CASE d = c
      BY <1>1, <1>3, <1>13, <3>1, <3>2 DEF Queued
    <3>3. CASE d # c
      <4>1. Queued(conn[d].fd) \/ conn[d].fd \in timers
        BY <1>3, <1>10, <3>1, <3>3 DEF Lifetime, Ledger, Erases
      <4>2. conn[d].fd \in Fds
        BY <1>2 DEF Lifetime, Objects, Filed, TypeOK
      <4>3. QED
        BY <1>1, <1>13, <2>1, <4>1, <4>2 DEF Queued
    <3>4. QED
      BY <3>2, <3>3
  <2>6. \A i, j \in DOMAIN queue' : queue'[i] \in Fds /\ queue'[i] = queue'[j] => i = j
    BY <1>11, <1>13 DEF Lifetime, Ledger, Erases, Queued
  <2>7. \A i \in DOMAIN queue' : queue'[i] \notin timers'
    BY <1>11, <1>13 DEF Lifetime, Ledger, Erases, Queued
  <2>8. QED
    BY <1>1, <2>3, <2>4, <2>5, <2>6, <2>7 DEF Erases
<1>20. QED
  BY <1>14, <1>15, <1>16, <1>17, <1>18, <1>19 DEF Ledger

LEMMA NewConnectionStep ==
  ASSUME Lifetime, NEW c \in Conns, NewConnection(c)
  PROVE  Objects' /\ Ledger'
<1>1. TypeOK /\ Filed /\ Members /\ doing = "nothing" /\ conn[c].peer = "new"
  BY DEF Lifetime, TypeInv, Objects, Ledger, NewConnection
<1>2. PICK f \in Fds \ files :
       LET kept == IF connections[f] = None THEN {f} ELSE {} IN
       /\ conn' = [conn EXCEPT ![c].peer = "open", ![c].fd = f]
       /\ connections' = [g \in Fds |-> IF g \in kept THEN c ELSE connections[g]]
       /\ alive' = IF f \in kept THEN alive \cup {c} ELSE alive
       /\ files' = files \cup kept
  BY DEF NewConnection
<1>3. connections[f] = None /\ c \notin alive
  BY <1>1, <1>2 DEF Filed
<1>4. /\ connections' = [connections EXCEPT ![f] = c]
      /\ alive' = alive \cup {c} /\ files' = files \cup {f}
  BY <1>1, <1>2, <1>3 DEF TypeOK
<1>5. UNCHANGED <<session, clients, queue, timers, phase, localVars>>
  BY DEF NewConnection, sessionVars, loopVars
<1>6. conn \in ConnType /\ alive \subseteq Conns /\ connections \in [Fds -> MaybeConn] /\ files \subseteq Fds
  BY <1>1 DEF TypeOK, ConnType
<1>7. \A d \in Conns :
        /\ conn'[d].fd = IF d = c THEN f ELSE conn[d].fd
        /\ conn'[d].rtcpfd = conn[d].rtcpfd
        /\ conn'[d].sid = conn[d].sid /\ conn'[d].closed = conn[d].closed
        /\ conn'[d].peer = "new" <=> d # c /\ conn[d].peer = "new"
  BY <1>2, <1>6 DEF ConnType, Connection
<1>8. ~conn[c].closed /\ conn[c].sid = None /\ conn[c].rtcpfd = None
  BY <1>1 DEF Lifetime, Objects, Fresh
<1>9. \A d \in alive : d # c /\ conn[d].fd # f
  BY <1>2, <1>3, <1>1 DEF Filed
<1>10. \A g \in Fds : connections'[g] = IF g = f THEN c ELSE connections[g]
  BY <1>4, <1>6
<1>11. Filed'
  BY <1>1, <1>4, <1>6, <1>7, <1>9, <1>10 DEF Filed
<1>12. Fresh'
  BY <1>7 DEF Lifetime, Objects, Fresh
<1>13. OwnRtcp'
  <2>1. ASSUME NEW d \in alive', conn'[d].rtcpfd # None
        PROVE  /\ d \in alive /\ conn[d].rtcpfd = conn'[d].rtcpfd
               /\ conn[d].rtcpfd \in files
    BY <1>4, <1>6, <1>7, <1>8, <2>1 DEF Lifetime, Objects, OwnRtcp
  <2>2. ASSUME NEW d \in alive', conn'[d].rtcpfd # None, NEW x \in alive'
        PROVE  conn'[x].fd # conn'[d].rtcpfd /\ (x # d => conn'[x].rtcpfd # conn'[d].rtcpfd)
    <3>1. CASE x = c
      <4>1. conn'[c].fd = f /\ conn'[c].rtcpfd = None /\ f \notin files
        BY <1>7, <1>8
      <4>2. QED
        BY <2>1, <2>2, <3>1, <4>1
    <3>2. CASE x # c
      BY <1>4, <1>6, <1>7, <2>1, <2>2, <3>2 DEF Lifetime, Objects, OwnRtcp
    <3>3. QED
      BY <3>1, <3>2
  <2>3. QED
    BY <1>4, <2>1, <2>2 DEF OwnRtcp
<1>14. \A d \in Conns : ~Closing(d) /\ ~Closing(d)'
  BY <1>1, <1>5 DEF Closing, localVars
<1>15. Midway'
  BY <1>1, <1>5 DEF Lifetime, Ledger, Midway, localVars
<1>16. Members'
  BY <1>1, <1>4, <1>5, <1>6, <1>7, <1>8, <1>9, DisjointAssumption DEF Members
<1>17. \A s \in Sessions : clients[s][f] # c
  BY <1>1, <1>3, <1>2, <1>6, DisjointAssumption DEF Members
<1>18. Joined'
  BY <1>4, <1>5, <1>6, <1>7, <1>8, <1>9, <1>14, <1>17, DisjointAssumption DEF Lifetime, Ledger, Joined
<1>19. Late'
  BY <1>4, <1>5, <1>6, <1>7, <1>8, <1>9, <1>14 DEF Lifetime, Ledger, Late
<1>20. Erases'
  <2>1. \A g \in Fds : Queued(g) \/ g \in timers => g # f /\ connections[g] \in alive
    BY <1>1, <1>3 DEF Lifetime, Ledger, Erases, Filed
  <2>2. QED
    BY <1>4, <1>5, <1>6, <1>7, <1>8, <1>9, <1>10, <1>14, <2>1 DEF Lifetime, Ledger, Erases, Queued
<1>21. QED
  BY <1>11, <1>12, <1>13, <1>15, <1>16, <1>18, <1>19, <1>20 DEF Objects, Ledger

\* A queue that has lost its first k entries.
Shifted(k) ==
  /\ k \in {0, 1}
  /\ \A i \in DOMAIN queue : i \in Nat /\ i > 0
  /\ \A i \in DOMAIN queue' : /\ i \in Nat /\ i > 0
                              /\ i + k \in DOMAIN queue /\ queue'[i] = queue[i + k]
  /\ \A j \in DOMAIN queue : j > k => j - k \in DOMAIN queue' /\ queue'[j - k] = queue[j]

LEMMA TailShifts ==
  ASSUME queue \in Seq(Sessions \cup Fds)
  PROVE  /\ queue' = queue => Shifted(0)
         /\ queue # <<>> /\ queue' = Tail(queue) =>
              Shifted(1) /\ 1 \in DOMAIN queue /\ queue[1] = Head(queue)
<1>1. DOMAIN queue = 1 .. Len(queue) /\ Len(queue) \in Nat
  OBVIOUS
<1>2. ASSUME queue' = queue PROVE Shifted(0)
  BY <1>1, <1>2 DEF Shifted
<1>3. ASSUME queue # <<>>, queue' = Tail(queue)
      PROVE  Shifted(1) /\ 1 \in DOMAIN queue /\ queue[1] = Head(queue)
  <2>1. Len(queue) # 0 /\ Len(queue') = Len(queue) - 1 /\ queue' \in Seq(Sessions \cup Fds)
    BY <1>3
  <2>2. DOMAIN queue' = 1 .. Len(queue) - 1
    BY <2>1
  <2>3. \A i \in 1 .. Len(queue) - 1 : queue'[i] = queue[i + 1]
    BY <1>1, <1>3, <2>1
  <2>4. Shifted(1)
    BY <1>1, <2>1, <2>2, <2>3 DEF Shifted
  <2>5. QED
    BY <1>1, <2>1, <2>4
<1>4. QED
  BY <1>2, <1>3

\* The loop thread handles a frame.
LEMMA FrameStep ==
  ASSUME Lifetime, NEW s \in Sessions, HandleFrame(s), phase = "triggers",
         queue # <<>>, Head(queue) = s, queue' = Tail(queue),
         UNCHANGED <<session, multicast, loopVars, localVars>>
  PROVE  Objects' /\ Ledger'
<1>1. /\ TypeOK /\ Members /\ doing = "nothing" /\ hold = None
      /\ UNCHANGED <<alive, connections, timers, session, phase, doing, actor, hold>>
  BY DEF Lifetime, TypeInv, Ledger, Midway, HandleFrame, loopVars, localVars
<1>2. /\ \E failed \in SUBSET Playing(s) :
           conn' = [c \in Conns |->
                     IF c \in failed THEN [conn[c] EXCEPT !.rtp = "torn"] ELSE conn[c]]
      /\ \E w \in MapType : Release(clients, w)
  BY <1>1, FrameEffect
<1>3. Unmoved /\ \A c \in Conns : conn'[c].closed = conn[c].closed
  <2>1. \A c \in Conns : conn[c] \in Connection
    BY <1>1 DEF TypeOK
  <2>2. \A c \in Conns : conn'[c] \in {conn[c], [conn[c] EXCEPT !.rtp = "torn"]}
    BY <1>2
  <2>3. \A c \in Conns :
          /\ [conn[c] EXCEPT !.rtp = "torn"].fd = conn[c].fd
          /\ [conn[c] EXCEPT !.rtp = "torn"].rtcpfd = conn[c].rtcpfd
          /\ [conn[c] EXCEPT !.rtp = "torn"].sid = conn[c].sid
          /\ [conn[c] EXCEPT !.rtp = "torn"].closed = conn[c].closed
          /\ [conn[c] EXCEPT !.rtp = "torn"].peer = conn[c].peer
    BY <2>1 DEF Connection
  <2>4. QED
    BY <2>2, <2>3 DEF Unmoved
<1>4. clients \in ClientType
  BY <1>1 DEF TypeOK, ClientType, MapType
<1>5. /\ files' = files
      /\ \A t \in Sessions : clients'[t] = IF Referenced(t) THEN clients[t] ELSE NoClients
  BY <1>1, <1>2, <1>4, NothingDies DEF Members
<1>6. \A t \in Sessions, g \in Fds :
        /\ clients'[t][g] # None => /\ clients'[t][g] = clients[t][g]
                                    /\ session[t] = "added" \/ Queued(t)'
        /\ session[t] = "added" => clients'[t] = clients[t]
  <2>1. \A t \in Sessions : Referenced(t) <=> session[t] = "added" \/ Queued(t)'
    BY <1>1, DisjointAssumption DEF Referenced, Range, Queued
  <2>2. QED
    BY <1>5, <2>1 DEF NoClients
<1>7. Shifted(1) /\ 1 \in DOMAIN queue /\ queue[1] = s /\ s \notin Fds
  BY <1>1, TailShifts, DisjointAssumption DEF TypeOK
<1>8. Objects'
  BY <1>1, <1>3, <1>5, ObjectsKept
<1>9. /\ alive \subseteq Conns /\ connections \in [Fds -> MaybeConn]
      /\ \A d \in alive : conn[d].fd \in Fds /\ d # None
      /\ \A g \in Fds : connections[g] # None => connections[g] \in alive
  BY <1>1, DisjointAssumption DEF Lifetime, Objects, Filed, TypeOK
<1>10. \A d : ~Closing(d) /\ ~Closing(d)'
  BY <1>1 DEF Closing
<1>11. Midway'
  BY <1>1 DEF Midway
<1>12. Members'
  BY <1>1, <1>3, <1>6, <1>9 DEF Members, Unmoved
<1>13. Joined'
  BY <1>1, <1>3, <1>6, <1>9, <1>10 DEF Lifetime, Ledger, Joined, Unmoved
<1>14. Late'
  <2> SUFFICES ASSUME NEW t \in Sessions, NEW d \in alive, clients'[t][conn[d].fd] = d,
                      conn[d].closed
               PROVE  /\ \E i \in DOMAIN queue' : queue'[i] = t
                      /\ \A i, j \in DOMAIN queue' : queue'[i] = t /\ queue'[j] = conn[d].fd => i < j
                      /\ conn[d].fd \in timers => phase \in {"io", "triggers"}
    BY <1>1, <1>3, <1>9 DEF Late, Unmoved
  <2>1. clients[t][conn[d].fd] = d
    BY <1>6, <1>9
  <2>2. session[t] # "added"
    BY <1>10, <2>1 DEF Lifetime, Ledger, Joined
  <2>3. Queued(t)'
    BY <1>6, <1>9, <2>2
  <2>4. \A i, j \in DOMAIN queue : queue[i] = t /\ queue[j] = conn[d].fd => i < j
    BY <1>10, <2>1 DEF Lifetime, Ledger, Late
  <2>5. \A i, j \in DOMAIN queue' : queue'[i] = t /\ queue'[j] = conn[d].fd => i < j
    BY <1>7, <2>4 DEF Shifted
  <2>6. QED
    BY <1>1, <2>3, <2>5 DEF Queued
<1>15. Erases'
  <2>1. \A g \in Fds : Queued(g)' <=> Queued(g)
    <3>1. \A j \in DOMAIN queue : queue[j] \in Fds => j > 1
      BY <1>7 DEF Shifted
    <3>2. QED
      BY <1>7, <3>1 DEF Shifted, Queued
  <2>2. \A i, j \in DOMAIN queue' : queue'[i] \in Fds /\ queue'[i] = queue'[j] => i = j
    BY <1>7 DEF Shifted, Lifetime, Ledger, Erases
  <2>3. \A i \in DOMAIN queue' : queue'[i] \notin timers
    BY <1>7 DEF Shifted, Lifetime, Ledger, Erases
  <2>4. \A g \in Fds : Queued(g)' \/ g \in timers =>
          /\ connections[g] # None /\ conn'[connections[g]].closed
    BY <1>3, <1>9, <2>1 DEF Lifetime, Ledger, Erases
  <2>5. \A d \in alive : conn'[d].closed /\ phase # "blocked" =>
          Queued(conn[d].fd) \/ conn[d].fd \in timers
    BY <1>3, <1>9, <1>10 DEF Lifetime, Ledger, Erases
  <2>6. \A d \in alive : conn'[d].fd = conn[d].fd
    BY <1>3, <1>9 DEF Unmoved
  <2>7. \A d \in alive : conn'[d].closed /\ phase # "blocked" =>
          (\E i \in DOMAIN queue' : queue'[i] = conn[d].fd) \/ conn[d].fd \in timers
    BY <1>9, <2>1, <2>5 DEF Queued
  <2>8. QED
    BY <1>1, <1>10, <2>2, <2>3, <2>4, <2>6, <2>7 DEF Erases, Queued
<1>16. QED
  BY <1>8, <1>11, <1>12, <1>13, <1>14, <1>15 DEF Ledger

\* What the erase of a closed connection destroys: no session still holds it.
LEMMA EraseShuts ==
  ASSUME Lifetime, NEW f \in Fds, EraseConnection(f), NEW k \in {0, 1}, Shifted(k),
         UNCHANGED <<session, multicast, loopVars, localVars>>,
         \/ k = 1 /\ 1 \in DOMAIN queue /\ queue[1] = f /\ timers' = timers /\ phase = "triggers"
         \/ k = 0 /\ f \in timers /\ timers' = timers \ {f} /\ phase = "timers"
  PROVE  \E c \in alive :
           /\ c = connections[f] /\ conn[c].fd = f /\ conn[c].closed
           /\ alive' = alive \ {c}
           /\ \A g \in Fds : connections'[g] = IF g = f THEN None ELSE connections[g]
           /\ \A s \in Sessions, g \in Fds : clients[s][g] # c
           /\ files' = files \ ({f} \cup RtpFds(c))
           /\ \A g \in Fds : watched'[g] = IF g \in {f} \cup RtpFds(c) THEN None ELSE watched[g]
<1>1. /\ TypeOK /\ Members /\ Filed /\ OwnRtcp /\ doing = "nothing" /\ hold = None
      /\ UNCHANGED <<conn, session, phase, doing, actor, hold>>
  BY DEF Lifetime, TypeInv, Objects, Ledger, Midway, EraseConnection, loopVars, localVars
<1>2. Queued(f) \/ f \in timers
  BY DEF Queued
<1>3. PICK c \in alive : c = connections[f] /\ conn[c].fd = f /\ conn[c].closed
  BY <1>1, <1>2 DEF Lifetime, Ledger, Erases, Filed
<1>4. /\ alive \subseteq Conns /\ clients \in ClientType /\ watched \in MapType
      /\ connections \in [Fds -> MaybeConn]
      /\ \A d \in alive : conn[d].fd \in Fds /\ d # None
  BY <1>1, DisjointAssumption DEF TypeOK, ClientType, MapType, Filed
<1>5. alive' = alive \ {c} /\ \A g \in Fds : connections'[g] = IF g = f THEN None ELSE connections[g]
  BY <1>3, <1>4 DEF EraseConnection
<1>6. \A d : ~Closing(d) /\ ~Closing(d)'
  BY <1>1 DEF Closing
\* A session still holding it would have a frame ahead of the erase.
<1>7. \A s \in Sessions, g \in Fds : clients[s][g] # c
  <2> SUFFICES ASSUME NEW s \in Sessions, NEW g \in Fds, clients[s][g] = c
               PROVE  FALSE
    OBVIOUS
  <2>1. g = f
    BY <1>1, <1>3, <1>4 DEF Members
  <2>2. /\ \E i \in DOMAIN queue : queue[i] = s
        /\ \A i, j \in DOMAIN queue : queue[i] = s /\ queue[j] = f => i < j
        /\ f \in timers => phase \in {"io", "triggers"}
    BY <1>3, <1>6, <2>1 DEF Lifetime, Ledger, Late
  <2>3. \A i \in DOMAIN queue : i \in Nat /\ i > 0
    BY DEF Shifted
  <2>4. QED
    BY <2>2, <2>3
<1>8. Held(alive, clients) = alive /\ Held(alive', clients') = alive'
  <2>1. \A s \in Sessions, g \in Fds, d \in Conns : clients[s][g] = d => d \in alive
    BY <1>1, DisjointAssumption DEF Members
  <2>2. \A s \in Sessions, g \in Fds, d \in Conns : clients'[s][g] = d => clients[s][g] = d
    BY DisjointAssumption DEF EraseConnection, Release, NoClients
  <2>3. \A s \in Sessions, g \in Fds, d \in Conns : clients'[s][g] = d => d \in alive'
    BY <1>5, <1>7, <2>1, <2>2
  <2>4. QED
    BY <1>4, <1>5, <2>1, <2>3 DEF Held
<1>9. /\ files' = files \ ({f} \cup RtpFds(c))
      /\ \A g \in Fds : watched'[g] = IF g \in {f} \cup RtpFds(c) THEN None ELSE watched[g]
  <2> DEFINE shut == {conn[d].fd : d \in alive \ alive'}
                       \cup UNION {RtpFds(d) : d \in Held(alive, clients) \ Held(alive', clients')}
  <2>1. alive \ alive' = {c}
    BY <1>3, <1>5
  <2>2. files' = files \ shut /\ \A g \in Fds : watched'[g] = IF g \in shut THEN None ELSE watched[g]
    BY DEF EraseConnection, Release
  <2>3. shut = {conn[d].fd : d \in {c}} \cup UNION {RtpFds(d) : d \in {c}}
    BY <1>8, <2>1
  <2>4. {conn[d].fd : d \in {c}} = {f} /\ UNION {RtpFds(d) : d \in {c}} = RtpFds(c)
    BY <1>3
  <2>5. QED
    BY <2>2, <2>3, <2>4
<1>10. QED
  BY <1>3, <1>5, <1>7, <1>9

LEMMA EraseStep ==
  ASSUME Lifetime, NEW f \in Fds, EraseConnection(f), NEW k \in {0, 1}, Shifted(k),
         UNCHANGED <<session, multicast, loopVars, localVars>>,
         \/ k = 1 /\ 1 \in DOMAIN queue /\ queue[1] = f /\ timers' = timers /\ phase = "triggers"
         \/ k = 0 /\ f \in timers /\ timers' = timers \ {f} /\ phase = "timers"
  PROVE  Objects' /\ Ledger'
<1>1. /\ TypeOK /\ Members /\ Filed /\ OwnRtcp /\ doing = "nothing" /\ hold = None
      /\ UNCHANGED <<conn, session, phase, doing, actor, hold>>
  BY DEF Lifetime, TypeInv, Objects, Ledger, Midway, EraseConnection, loopVars, localVars
<1>2. PICK c \in alive :
        /\ c = connections[f] /\ conn[c].fd = f /\ conn[c].closed
        /\ alive' = alive \ {c}
        /\ \A g \in Fds : connections'[g] = IF g = f THEN None ELSE connections[g]
        /\ \A s \in Sessions, g \in Fds : clients[s][g] # c
        /\ files' = files \ ({f} \cup RtpFds(c))
  BY EraseShuts
<1>3. c = connections[f] /\ conn[c].fd = f /\ conn[c].closed
  BY <1>2
<1>4. /\ alive \subseteq Conns /\ clients \in ClientType /\ watched \in MapType
      /\ connections \in [Fds -> MaybeConn]
      /\ \A d \in alive : conn[d].fd \in Fds /\ d # None
  BY <1>1, DisjointAssumption DEF TypeOK, ClientType, MapType, Filed
<1>5. alive' = alive \ {c} /\ \A g \in Fds : connections'[g] = IF g = f THEN None ELSE connections[g]
  BY <1>2
<1>6. \A d : ~Closing(d) /\ ~Closing(d)'
  BY <1>1 DEF Closing
<1>7. \A s \in Sessions, g \in Fds : clients[s][g] # c
  BY <1>2
<1>9. files' = files \ ({f} \cup RtpFds(c))
  BY <1>2
<1>10. RtpFds(c) \subseteq {f, conn[c].rtcpfd}
  BY <1>3 DEF RtpFds
<1>11. \A t \in Sessions, g \in Fds :
        /\ clients'[t][g] # None => /\ clients'[t][g] = clients[t][g]
                                    /\ session[t] = "added" \/ Queued(t)'
        /\ session[t] = "added" => clients'[t] = clients[t]
  <2>1. \A t \in Sessions : Referenced(t) <=> session[t] = "added" \/ Queued(t)'
    BY <1>1, DisjointAssumption DEF Referenced, Range, Queued
  <2>2. QED
    BY <2>1 DEF EraseConnection, Release, NoClients
<1>12. Filed'
  <2>1. \A d \in alive' : d \in alive /\ conn[d].fd # f
    BY <1>1, <1>3, <1>5 DEF Filed
  <2>2. \A d \in alive' : conn[d].fd \in files'
    BY <1>1, <1>3, <1>4, <1>9, <1>10, <2>1, DisjointAssumption DEF Filed, OwnRtcp
  <2>3. QED
    BY <1>1, <1>3, <1>4, <1>5, <2>1, <2>2 DEF Filed
<1>13. Fresh'
  BY <1>1 DEF Lifetime, Objects, Fresh
<1>14. OwnRtcp'
  <2>1. \A d \in alive' : d \in alive /\ d # c
    BY <1>5
  <2>2. \A d \in alive' : conn[d].rtcpfd # None => conn[d].rtcpfd \in files'
    BY <1>1, <1>3, <1>9, <1>10, <2>1 DEF OwnRtcp
  <2>3. QED
    BY <1>1, <2>1, <2>2 DEF OwnRtcp
<1>15. Midway'
  BY <1>1 DEF Midway
<1>16. Members'
  BY <1>1, <1>5, <1>7, <1>11 DEF Members
<1>17. Joined'
  BY <1>1, <1>4, <1>5, <1>6, <1>11 DEF Lifetime, Ledger, Joined
<1>18. Late'
  <2> SUFFICES ASSUME NEW t \in Sessions, NEW d \in alive, d # c, clients'[t][conn[d].fd] = d,
                      conn[d].closed
               PROVE  /\ \E i \in DOMAIN queue' : queue'[i] = t
                      /\ \A i, j \in DOMAIN queue' : queue'[i] = t /\ queue'[j] = conn[d].fd => i < j
                      /\ conn[d].fd \in timers' => phase \in {"io", "triggers"}
    BY <1>1, <1>5 DEF Late
  <2>1. clients[t][conn[d].fd] = d
    BY <1>4, <1>11
  <2>2. session[t] # "added"
    BY <1>6, <2>1 DEF Lifetime, Ledger, Joined
  <2>3. Queued(t)'
    BY <1>4, <1>11, <2>2
  <2>4. /\ \A i, j \in DOMAIN queue : queue[i] = t /\ queue[j] = conn[d].fd => i < j
        /\ conn[d].fd \in timers => phase \in {"io", "triggers"}
    BY <1>6, <2>1 DEF Lifetime, Ledger, Late
  <2>5. \A i, j \in DOMAIN queue' : queue'[i] = t /\ queue'[j] = conn[d].fd => i < j
    BY <2>4 DEF Shifted
  <2>6. QED
    BY <1>1, <2>3, <2>4, <2>5 DEF Queued
<1>19. Erases'
  <2>1. /\ \A i, j \in DOMAIN queue : queue[i] \in Fds /\ queue[i] = queue[j] => i = j
        /\ \A i \in DOMAIN queue : queue[i] \notin timers
    BY DEF Lifetime, Ledger, Erases
  <2>2. \A i \in DOMAIN queue' : queue'[i] # f
    <3>1. CASE k = 0
      BY <2>1, <3>1 DEF Shifted
    <3>2. CASE k = 1
      <4>1. 1 \in DOMAIN queue /\ queue[1] = f
        BY <3>2
      <4>2. \A i \in DOMAIN queue' : i \in Nat /\ i > 0 /\ i + 1 \in DOMAIN queue /\ queue'[i] = queue[i + 1]
        BY <3>2, <2>1 DEF Shifted
      <4>3. \A i \in DOMAIN queue' : i + 1 # 1
        BY <4>2
      <4>4. QED
        BY <2>1, <4>1, <4>2, <4>3
    <3>3. QED
      BY <3>1, <3>2
  <2>3. \A g \in Fds \ {f} : Queued(g)' <=> Queued(g)
    <3>1. \A j \in DOMAIN queue : queue[j] # f => j > k
      BY DEF Shifted
    <3>2. QED
      BY <3>1 DEF Shifted, Queued
  <2>4. f \notin timers' /\ \A g \in Fds \ {f} : g \in timers' <=> g \in timers
    BY <2>1
  <2>5. \A i, j \in DOMAIN queue' : queue'[i] \in Fds /\ queue'[i] = queue'[j] => i = j
    BY <2>1 DEF Shifted
  <2>6. \A i \in DOMAIN queue' : queue'[i] \notin timers'
    BY <2>1 DEF Shifted
  <2>7. \A g \in Fds : Queued(g)' \/ g \in timers' => g # f /\ (Queued(g) \/ g \in timers)
    BY <2>2, <2>3, <2>4 DEF Queued
  <2>8. \A g \in Fds : Queued(g)' \/ g \in timers' =>
          /\ connections'[g] # None /\ conn[connections'[g]].closed
    BY <1>5, <2>7 DEF Lifetime, Ledger, Erases
  <2>9. \A d \in alive' : d \in alive /\ conn[d].fd \in Fds \ {f}
    BY <1>1, <1>3, <1>4, <1>5 DEF Filed
  <2>10. \A d \in alive' : conn[d].closed /\ phase # "blocked" =>
          (\E i \in DOMAIN queue' : queue'[i] = conn[d].fd) \/ conn[d].fd \in timers'
    <3>1. \A d \in alive' : conn[d].closed /\ phase # "blocked" =>
            Queued(conn[d].fd) \/ conn[d].fd \in timers
      BY <1>6, <2>9 DEF Lifetime, Ledger, Erases
    <3>2. QED
      BY <2>3, <2>4, <2>9, <3>1 DEF Queued
  <2>11. QED
    BY <1>1, <1>6, <2>5, <2>6, <2>8, <2>10 DEF Erases, Queued
<1>20. QED
  BY <1>12, <1>13, <1>14, <1>15, <1>16, <1>17, <1>18, <1>19 DEF Objects, Ledger

\* Sessions are added and removed, and frames pushed, by other threads.
LEMMA SessionStep ==
  ASSUME Lifetime, NEW s \in Sessions,
         AddMediaSession(s) \/ RemoveMediaSession(s) \/ PushFrame(s)
  PROVE  Objects' /\ Ledger'
<1>1. /\ TypeOK /\ Members /\ Midway
      /\ UNCHANGED <<conn, alive, connections, timers, phase, doing, actor, hold>>
  BY DEF Lifetime, TypeInv, Ledger, AddMediaSession, RemoveMediaSession, PushFrame,
         objectVars, loopVars, localVars
<1>2. /\ alive \subseteq Conns /\ clients \in ClientType /\ watched \in MapType
      /\ connections \in [Fds -> MaybeConn]
      /\ session \in [Sessions -> {"new", "added", "removed"}]
      /\ \A d \in alive : conn[d].fd \in Fds /\ d # None
  BY <1>1, DisjointAssumption DEF TypeOK, ClientType, MapType, Lifetime, Objects, Filed
<1>3. \A d : Closing(d)' <=> Closing(d)
  BY <1>1 DEF Closing
<1>4. ASSUME files' = files PROVE Objects'
  BY <1>1, <1>4, ObjectsKept DEF Unmoved
<1>5. ASSUME NEW t \in Sessions, NEW d \in alive, clients[t][conn[d].fd] = d,
             conn[d].closed, ~Closing(d)
      PROVE  /\ \E i \in DOMAIN queue : queue[i] = t
             /\ \A i, j \in DOMAIN queue : queue[i] = t /\ queue[j] = conn[d].fd => i < j
             /\ conn[d].fd \in timers => phase \in {"io", "triggers"}
             /\ session[t] # "added"
  BY <1>5 DEF Lifetime, Ledger, Late, Joined
<1>6. CASE AddMediaSession(s)
  <2>1. /\ UNCHANGED <<files, clients, queue>> /\ session[s] = "new"
        /\ session' = [session EXCEPT ![s] = "added"]
        /\ \A t \in Sessions : session[t] = "added" => Url[t] # Url[s]
    BY <1>6 DEF AddMediaSession, kernelVars
  <2>2. \A t \in Sessions : session'[t] = IF t = s THEN "added" ELSE session[t]
    BY <1>2, <2>1
  <2>3. \A d \in alive : clients[s][conn[d].fd] # d /\ conn[d].sid # s
    BY <1>1, <1>2, <2>1 DEF Members
  <2>4. Midway'
    BY <1>1, <1>2, <2>1, <2>2, <2>3 DEF Midway, Lifetime, TypeInv, Handling
  <2>5. Members'
    BY <1>1, <2>1, <2>2 DEF Members
  <2>6. Joined'
    BY <1>1, <1>3, <2>1, <2>2, <2>3 DEF Lifetime, Ledger, Joined
  <2>7. Late'
    BY <1>1, <1>3, <2>1 DEF Lifetime, Ledger, Late
  <2>8. Erases'
    BY <1>1, <1>3, <2>1 DEF Lifetime, Ledger, Erases, Queued
  <2>9. QED
    BY <1>4, <2>1, <2>4, <2>5, <2>6, <2>7, <2>8 DEF Ledger
<1>7. CASE RemoveMediaSession(s)
  <2>1. /\ session' = [session EXCEPT ![s] = "removed"] /\ session[s] = "added"
        /\ queue' = queue /\ Release(clients, watched)
    BY <1>7 DEF RemoveMediaSession
  <2>2. \A t \in Sessions : session'[t] = IF t = s THEN "removed" ELSE session[t]
    BY <1>2, <2>1
  <2>3. /\ files' = files
        /\ \A t \in Sessions : clients'[t] = IF Referenced(t) THEN clients[t] ELSE NoClients
    BY <1>1, <1>2, <2>1, NothingDies DEF Members
  <2>4. \A t \in Sessions, g \in Fds :
          /\ clients'[t][g] # None => clients'[t][g] = clients[t][g]
          /\ session'[t] = "added" => clients'[t] = clients[t]
    BY <2>3 DEF Referenced, NoClients
  <2>5. Midway'
    BY <1>1, <1>2, <2>2, <2>4 DEF Midway, Lifetime, TypeInv, Handling
  <2>6. Members'
    BY <1>1, <2>2, <2>4 DEF Members
  <2>7. Joined'
    BY <1>1, <1>2, <1>3, <2>2, <2>4 DEF Lifetime, Ledger, Joined
  <2>8. Late'
    BY <1>1, <1>2, <1>3, <2>1, <2>4 DEF Lifetime, Ledger, Late
  <2>9. Erases'
    BY <1>1, <1>3, <2>1 DEF Lifetime, Ledger, Erases, Queued
  <2>10. QED
    BY <1>4, <2>3, <2>5, <2>6, <2>7, <2>8, <2>9 DEF Ledger
<1>8. CASE PushFrame(s)
  <2>1. /\ UNCHANGED <<files, session, clients>> /\ session[s] = "added"
        /\ queue' = Append(queue, s)
    BY <1>8 DEF PushFrame, kernelVars, sessionVars
  <2> DEFINE n == Len(queue) + 1
  <2>2. /\ DOMAIN queue' = DOMAIN queue \cup {n} /\ queue'[n] = s
        /\ \A i \in DOMAIN queue : i # n /\ queue'[i] = queue[i]
    <3>1. queue \in Seq(Sessions \cup Fds)
      BY <1>1 DEF TypeOK
    <3>2. QED
      BY <2>1, <3>1
  <2> HIDE DEF n
  <2>3. s \notin Fds /\ s \notin timers
    BY <1>1, DisjointAssumption DEF TypeOK
  <2>4. Midway'
    BY <1>1, <2>1 DEF Midway
  <2>5. Members' /\ Joined'
    BY <1>1, <1>3, <2>1 DEF Lifetime, Ledger, Members, Joined
  <2>6. Late'
    <3> SUFFICES ASSUME NEW t \in Sessions, NEW d \in alive, clients[t][conn[d].fd] = d,
                        conn[d].closed, ~Closing(d)
                 PROVE  /\ \E i \in DOMAIN queue' : queue'[i] = t
                        /\ \A i, j \in DOMAIN queue' : queue'[i] = t /\ queue'[j] = conn[d].fd => i < j
                        /\ conn[d].fd \in timers => phase \in {"io", "triggers"}
      BY <1>1, <1>3, <2>1 DEF Late
    <3>1. t # s /\ conn[d].fd # s
      BY <1>2, <1>5, <2>1, <2>3
    <3>2. QED
      BY <1>5, <2>2, <3>1
  <2>7. Erases'
    <3>1. \A g \in Fds : Queued(g)' <=> Queued(g)
      BY <2>2, <2>3 DEF Queued
    <3>2. \A i, j \in DOMAIN queue' : queue'[i] \in Fds /\ queue'[i] = queue'[j] => i = j
      BY <2>2, <2>3 DEF Lifetime, Ledger, Erases
    <3>3. \A i \in DOMAIN queue' : queue'[i] \notin timers
      BY <2>2, <2>3 DEF Lifetime, Ledger, Erases
    <3>4. \A d \in alive : phase # "blocked" /\ conn[d].closed /\ ~Closing(d) =>
            (\E i \in DOMAIN queue' : queue'[i] = conn[d].fd) \/ conn[d].fd \in timers
      BY <1>2, <3>1 DEF Lifetime, Ledger, Erases, Queued
    <3>5. \A g \in Fds : Queued(g)' \/ g \in timers =>
            /\ connections[g] # None
            /\ conn[connections[g]].closed /\ ~Closing(connections[g])
      BY <3>1 DEF Lifetime, Ledger, Erases
    <3>6. QED
      BY <1>1, <1>3, <3>2, <3>3, <3>4, <3>5 DEF Erases, Queued
  <2>8. QED
    BY <1>4, <2>1, <2>4, <2>5, <2>6, <2>7 DEF Ledger
<1>9. QED
  BY <1>6, <1>7, <1>8

\* Steps of the loop that touch no connection, and the heartbeat.
LEMMA LoopMovesStep ==
  ASSUME Lifetime
  PROVE  /\ Poll \/ IoDone \/ TriggersDone \/ TimersDone \/ StartBeat \/ EndBeat
              => Objects' /\ Ledger'
         /\ \A c \in Conns : PeerLeaves(c) => Objects' /\ Ledger'
         /\ BeatOne => Objects' /\ Ledger'
         /\ UNCHANGED vars => Objects' /\ Ledger'
<1>1. TypeOK /\ Filed /\ Midway
  BY DEF Lifetime, TypeInv, Objects, Ledger
<1>2. ASSUME UNCHANGED <<conn, files, alive, connections, session, clients, queue, timers, localVars>>,
             PhaseKept
      PROVE  Objects' /\ Ledger'
  BY <1>2, ObjectsKept, LedgerKept DEF Unmoved
<1>3. ASSUME Poll \/ IoDone \/ TriggersDone \/ TimersDone \/ StartBeat \/ EndBeat
      PROVE  Objects' /\ Ledger'
  <2>1. UNCHANGED <<conn, files, alive, connections, session, clients, queue, timers, localVars>>
    BY <1>3 DEF Poll, IoDone, TriggersDone, TimersDone, StartBeat, EndBeat, kernelVars,
                objectVars, sessionVars
  <2>2. PhaseKept
    BY <1>1, <1>3 DEF Poll, IoDone, TriggersDone, TimersDone, StartBeat, EndBeat, PhaseKept, Midway
  <2>3. QED
    BY <1>2, <2>1, <2>2
<1>4. ASSUME NEW c \in Conns, PeerLeaves(c) PROVE Objects' /\ Ledger'
  <2>1. PICK p \in {"silent", "closed"} : conn' = [conn EXCEPT ![c].peer = p]
    BY <1>4 DEF PeerLeaves
  <2>2. \A d \in Conns : conn[d] \in Connection /\ conn \in ConnType
    BY <1>1 DEF TypeOK, ConnType
  <2>3. Unmoved /\ \A d \in Conns : conn'[d].closed = conn[d].closed
    <3>1. conn[c].peer # "new"
      BY <1>1, <1>4 DEF PeerLeaves, Filed
    <3>2. QED
      BY <2>1, <2>2, <3>1 DEF Unmoved, ConnType, Connection
  <2>4. /\ UNCHANGED <<files, alive, connections, session, clients, queue, timers, localVars>>
        /\ PhaseKept
    BY <1>4 DEF PeerLeaves, PhaseKept, kernelVars, sessionVars, loopVars
  <2>5. QED
    BY <2>3, <2>4, ObjectsKept, LedgerKept DEF Unmoved
<1>5. ASSUME BeatOne PROVE Objects' /\ Ledger'
  <2>1. PICK f \in beat :
          \/ conn' = AliveCountReset(connections[f]) /\ UNCHANGED localVars
          \/ ~conn[connections[f]].closed /\ Close(connections[f], conn)
          \/ UNCHANGED <<conn, localVars>>
    BY <1>5 DEF BeatOne
  <2>2. phase = "beat" /\ doing = "nothing" /\ UNCHANGED Base /\ UNCHANGED phase
    BY <1>5 DEF BeatOne, Base, sessionVars
  <2>3. PICK c \in alive : c = connections[f]
    BY <1>1, <2>2 DEF Lifetime, TypeInv, Handling, TypeOK, Filed
  <2>4. conn \in ConnType /\ c \in Conns
    BY <1>1 DEF TypeOK, ConnType
  <2>5. ASSUME UNCHANGED <<localVars>>,
               \A d \in Conns : /\ conn'[d].fd = conn[d].fd /\ conn'[d].rtcpfd = conn[d].rtcpfd
                                /\ conn'[d].sid = conn[d].sid /\ conn'[d].closed = conn[d].closed
                                /\ conn'[d].peer = "new" <=> conn[d].peer = "new"
        PROVE  Objects' /\ Ledger'
    BY <2>2, <2>5, ObjectsKept, LedgerKept DEF Unmoved, PhaseKept, Base
  <2>6. CASE conn' = AliveCountReset(c) /\ UNCHANGED localVars
    <3>1. \A d \in Conns : /\ conn'[d].fd = conn[d].fd /\ conn'[d].rtcpfd = conn[d].rtcpfd
                           /\ conn'[d].sid = conn[d].sid /\ conn'[d].closed = conn[d].closed
                           /\ conn'[d].peer = "new" <=> conn[d].peer = "new"
      BY <2>4, <2>6 DEF AliveCountReset, ConnType, Connection
    <3>2. QED
      BY <2>5, <2>6, <3>1
  <2>7. CASE ~conn[c].closed /\ Close(c, conn)
    BY <2>2, <2>4, <2>7, HandlerStep
  <2>8. CASE UNCHANGED <<conn, localVars>>
    BY <2>5, <2>8
  <2>9. QED
    BY <2>1, <2>3, <2>6, <2>7, <2>8
<1>6. ASSUME UNCHANGED vars PROVE Objects' /\ Ledger'
  BY <1>2, <1>6 DEF vars, PhaseKept, kernelVars, objectVars, sessionVars, loopVars
<1>7. QED
  BY <1>3, <1>4, <1>5, <1>6

LEMMA EraseTimerStep ==
  ASSUME Lifetime, EraseTimer
  PROVE  Objects' /\ Ledger'
<1>1. PICK f \in timers :
        /\ timers' = timers \ {f}
        /\ UNCHANGED <<session, multicast, queue, loopVars, localVars>>
        /\ EraseConnection(f)
  BY DEF EraseTimer
<1>2. f \in Fds /\ phase = "timers" /\ queue \in Seq(Sessions \cup Fds)
  BY DEF EraseTimer, Lifetime, TypeInv, TypeOK
<1>3. Shifted(0)
  BY <1>1, <1>2, TailShifts
<1>4. QED
  BY <1>1, <1>2, <1>3, EraseStep

LEMMA TriggerStep ==
  ASSUME Lifetime, Trigger
  PROVE  Objects' /\ Ledger'
<1>1. /\ phase = "triggers" /\ queue # <<>> /\ queue' = Tail(queue)
      /\ UNCHANGED <<session, multicast, loopVars, localVars>>
      /\ queue \in Seq(Sessions \cup Fds)
  BY DEF Trigger, Lifetime, TypeInv, TypeOK
<1>2. Shifted(1) /\ 1 \in DOMAIN queue /\ queue[1] = Head(queue)
  BY <1>1, TailShifts
<1>3. CASE Head(queue) \in Sessions /\ HandleFrame(Head(queue))
  <2>1. PICK s \in Sessions : s = Head(queue) /\ HandleFrame(s)
    BY <1>3
  <2>2. QED
    BY <1>1, <2>1, FrameStep
<1>4. CASE Head(queue) \in Fds /\ EraseConnection(Head(queue)) /\ UNCHANGED timers
  <2>1. PICK f \in Fds : f = Head(queue) /\ EraseConnection(f)
    BY <1>4
  <2>2. QED
    BY <1>1, <1>2, <1>4, <2>1, EraseStep
<1>5. QED
  BY <1>3, <1>4 DEF Trigger

LEMMA LifetimeStep ==
  ASSUME ~Redescribe
  PROVE  Lifetime /\ [Next]_vars => Lifetime'
<1> SUFFICES ASSUME Lifetime, [Next]_vars
             PROVE  Objects' /\ Ledger'
  BY TypesStep DEF Lifetime
<1>1. ASSUME NEW f \in Fds, NEW c \in Conns, Event(<<f, c>>)
      PROVE  Objects' /\ Ledger'
  <2>1. PICK e : e = <<f, c>>
    OBVIOUS
  <2>2. Event(e)
    BY <1>1, <2>1
  <2>3. QED
    BY <2>1, <2>2, EventStep, DescribeStep, SetupUdpStep DEF Event
<1>2. CASE LoopStep
  BY <1>1, <1>2, LoopMovesStep, EndDescribeStep, EndCloseStep, TriggerStep, EraseTimerStep
     DEF LoopStep
<1>3. CASE \E c \in Conns : NewConnection(c) \/ PeerLeaves(c)
  BY <1>3, NewConnectionStep, LoopMovesStep
<1>4. CASE \E s \in Sessions : AddMediaSession(s) \/ RemoveMediaSession(s) \/ PushFrame(s)
  BY <1>4, SessionStep
<1>5. CASE UNCHANGED vars
  BY <1>5, LoopMovesStep
<1>6. QED
  BY <1>2, <1>3, <1>4, <1>5 DEF Next

LEMMA LifetimeAlways ==
  ASSUME ~Redescribe
  PROVE  Spec => []Lifetime
<1>1. Init => Lifetime
  BY LifetimeInitially
<1>2. Lifetime /\ [Next]_vars => Lifetime'
  BY LifetimeStep
<1>3. QED
  BY <1>1, <1>2, PTL DEF Spec

\* A descriptor stays with its connection until that is destroyed, however often
\* the numbers are reused, sessions removed and tracks set up again: the erase
\* that names a number (RtspServer.cpp:123) and the second close of the socket in
\* ~RtpConnection (RtpConnection.cpp:41) never hit another client.
THEOREM DescriptorsOwned ==
  ASSUME ~Redescribe
  PROVE  Spec => []OwnDescriptor
<1>1. Lifetime => OwnDescriptor
  BY DEF Lifetime, Objects, Filed, OwnDescriptor
<1>2. QED
  BY <1>1, LifetimeAlways, PTL

\* A connection that was closed has one erase on its way, in the queue or with
\* the timer that takes over when the queue is full, and an open one has none
\* (RtspServer.cpp:121-127).
THEOREM ErasesMatch ==
  ASSUME ~Redescribe
  PROVE  Spec => []ErasedOnce
<1>1. ASSUME Lifetime, phase # "blocked", NEW f \in Fds
      PROVE  Pending(f) = IF \E c \in alive : connections[f] = c /\ conn[c].closed /\ ~Closing(c)
                          THEN 1 ELSE 0
  <2> DEFINE places == {i \in DOMAIN queue : queue[i] = f}
             due == \E c \in alive : connections[f] = c /\ conn[c].closed /\ ~Closing(c)
  <2>1. Queued(f) \/ f \in timers => due
    BY <1>1 DEF Lifetime, Ledger, Erases, Objects, Filed
  <2>2. due => Queued(f) \/ f \in timers
    <3>1. SUFFICES ASSUME NEW c \in alive, connections[f] = c, conn[c].closed, ~Closing(c)
                   PROVE  Queued(f) \/ f \in timers
      OBVIOUS
    <3>2. conn[c].fd = f
      BY <1>1, <3>1, DisjointAssumption DEF Lifetime, TypeInv, TypeOK, Objects, Filed
    <3>3. QED
      BY <1>1, <3>1, <3>2 DEF Lifetime, Ledger, Erases
  <2>3. CASE Queued(f)
    <3>1. PICK i \in DOMAIN queue : queue[i] = f
      BY <2>3 DEF Queued
    <3>2. places = {i} /\ f \notin timers
      BY <1>1, <3>1 DEF Lifetime, Ledger, Erases
    <3>3. Cardinality(places) = 1
      BY <3>2, FS_Singleton
    <3> HIDE DEF places, due
    <3>4. QED
      BY <2>1, <2>3, <3>2, <3>3 DEF Pending, places, due
  <2>4. CASE ~Queued(f)
    <3>1. places = {}
      BY <2>4 DEF Queued
    <3>2. Cardinality(places) = 0
      BY <3>1, FS_EmptySet
    <3>3. due <=> f \in timers
      BY <2>1, <2>2, <2>4
    <3>4. QED
      BY <3>2, <3>3 DEF Pending
  <2>5. QED
    BY <2>3, <2>4
<1>2. Lifetime => ErasedOnce
  BY <1>1 DEF ErasedOnce
<1>3. QED
  BY <1>2, LifetimeAlways, PTL

\* A session that is served counts the connections that described it and are not
\* closed, in spite of replies that fail in the middle of a handler
\* (RtspConnection.cpp:304-345) and of sessions removed between the lookup of a
\* handler and what it does with the result (RtspConnection.cpp:127-130).
THEOREM CountsExact ==
  ASSUME ~Redescribe
  PROVE  Spec => []CountsOnline
<1>1. ASSUME Lifetime, NEW s \in Sessions, session[s] = "added", NEW f \in Fds
      PROVE  /\ clients[s][f] # None =>
                  /\ clients[s][f] \in alive
                  /\ ~conn[clients[s][f]].closed \/ Closing(clients[s][f])
             /\ \A c \in alive :
                  conn[c].fd = f /\ conn[c].sid = s /\ ~conn[c].closed => clients[s][f] = c
  BY <1>1 DEF Lifetime, Ledger, Members, Joined
<1>2. Lifetime => CountsOnline
  BY <1>1 DEF CountsOnline
<1>3. QED
  BY <1>2, LifetimeAlways, PTL

-----------------------------------------------------------------------------
(* Hearing *)

LEMMA HearingInitially == Init => Hearing
<1> SUFFICES ASSUME Init PROVE Hearing
  OBVIOUS
<1>1. Ears
  BY DisjointAssumption DEF Init, Ears, Hears
<1>2. OneSetup /\ Batch /\ NoneRemoved
  BY DEF Init, OneSetup, Batch, NoneRemoved
<1>3. QED
  BY <1>1, <1>2 DEF Hearing

\* Registration and removal, as long as the kernel watches what the scheduler has.
LEMMA MapEffect ==
  ASSUME NEW ch \in MapType, NEW f \in Fds \cup {None}, NEW g \in Fds
  PROVE  /\ Unwatched(ch, ch, f) = Unregistered(ch, f)
         /\ Unregistered(ch, f)[g] = IF g = f THEN None ELSE ch[g]
<1>1. CASE f = None
  BY <1>1, DisjointAssumption DEF Unwatched, Unregistered
<1>2. CASE f \in Fds
  <2>1. ch[f] = None => [ch EXCEPT ![f] = None] = ch
    BY <1>2 DEF MapType
  <2>2. f # None
    BY <1>2, DisjointAssumption
  <2>3. QED
    BY <1>2, <2>1, <2>2 DEF Unwatched, Unregistered, MapType
<1>3. QED
  BY <1>1, <1>2

LEMMA EarsKept ==
  ASSUME Heeding, UNCHANGED <<alive, channels, watched>>,
         \A c \in Conns : /\ conn'[c].fd = conn[c].fd /\ conn'[c].rtcpfd = conn[c].rtcpfd
                          /\ conn'[c].closed = conn[c].closed
                          /\ Closing(c)' <=> Closing(c)
  PROVE  Ears'
<1>1. \A f \in Fds, c \in Conns : Hears(c, f)' <=> Hears(c, f)
  BY DEF Hears
<1>2. QED
  BY <1>1 DEF Heeding, Hearing, Ears

\* A handler begins to close its connection: only the RTSP socket goes.
LEMMA EarsClose ==
  ASSUME Heeding, NEW c \in alive, ~conn[c].closed, doing # "close",
         \A d \in Conns : /\ conn'[d].fd = conn[d].fd /\ conn'[d].rtcpfd = conn[d].rtcpfd
                          /\ d # c => conn'[d].closed = conn[d].closed,
         conn'[c].closed, doing' = "close", actor' = c, alive' = alive,
         channels' = Unregistered(channels, conn[c].fd),
         watched' = Unwatched(watched, channels, conn[c].fd)
  PROVE  Ears'
<1>0. TypeOK /\ Filed /\ OwnRtcp /\ Ears
  BY DEF Heeding, Hearing, Lifetime, TypeInv, Objects
<1>1. /\ channels \in MapType /\ watched = channels /\ alive \subseteq Conns
      /\ conn[c].fd \in Fds /\ None \notin Conns
      /\ \A f \in Fds, d \in Conns : channels[f] = d <=> Hears(d, f)
      /\ \A d \in alive : conn[d].fd = conn[c].fd => d = c
      /\ \A d \in alive : conn[d].rtcpfd # conn[c].fd
  <2>1. channels \in MapType /\ alive \subseteq Conns /\ files \subseteq Fds
    BY <1>0 DEF TypeOK, MapType
  <2>2. conn[c].fd \in Fds /\ \A d \in alive : conn[d].fd = conn[c].fd => d = c
    BY <1>0, <2>1 DEF Filed
  <2>3. \A d \in alive : conn[d].rtcpfd # conn[c].fd
    BY <1>0, <2>2, DisjointAssumption DEF OwnRtcp
  <2>4. QED
    BY <1>0, <2>1, <2>2, <2>3, DisjointAssumption DEF Ears
<1>2. /\ watched' = channels'
      /\ \A f \in Fds : channels'[f] = IF f = conn[c].fd THEN None ELSE channels[f]
  BY <1>1, MapEffect
<1>3. \A d \in Conns : ~Closing(d) /\ (Closing(d)' <=> d = c)
  BY DEF Closing
<1>4. \A f \in Fds, d \in Conns : Hears(d, f)' <=> Hears(d, f) /\ f # conn[c].fd
  <2> SUFFICES ASSUME NEW f \in Fds, NEW d \in Conns
               PROVE  Hears(d, f)' <=> Hears(d, f) /\ f # conn[c].fd
    OBVIOUS
  <2>1. CASE d = c
    BY <1>1, <1>3, <2>1 DEF Hears
  <2>2. CASE d # c
    BY <1>1, <1>3, <2>2 DEF Hears
  <2>3. QED
    BY <2>1, <2>2
<1>5. QED
  BY <1>1, <1>2, <1>4 DEF Ears

LEMMA HandlerHearing ==
  ASSUME Heeding, NEW c \in alive, NEW cn \in ConnType,
         \/ Reply(c, cn) \/ Close(c, cn),
         doing = "nothing", ~conn[c].closed, alive' = alive,
         \A d \in Conns : /\ cn[d].fd = conn[d].fd /\ cn[d].rtcpfd = conn[d].rtcpfd
                          /\ cn[d].closed = conn[d].closed
                          /\ conn[d].rtcpfd = None \/ (cn[d].mode = "udp" /\ ~Resetup)
  PROVE  Ears' /\ OneSetup'
<1>1. c \in Conns
  BY DEF Heeding, Lifetime, TypeInv, TypeOK
<1>2. ASSUME conn' = cn, UNCHANGED <<channels, watched, localVars>>
      PROVE  Ears' /\ OneSetup'
  <2>1. \A d \in Conns : Closing(d)' <=> Closing(d)
    BY <1>2 DEF Closing, localVars
  <2>2. QED
    BY <1>2, <2>1, EarsKept DEF OneSetup
<1>3. ASSUME NEW dn \in {cn, Reset(c, cn)}, Close(c, dn)
      PROVE  Ears' /\ OneSetup'
  <2>1. dn \in ConnType /\ \A d \in Conns :
          /\ dn[d].fd = conn[d].fd /\ dn[d].rtcpfd = conn[d].rtcpfd
          /\ dn[d].closed = conn[d].closed /\ dn[d].mode = cn[d].mode
    BY <1>1, ResetFields
  <2>2. /\ conn' = Shut(c, dn) /\ doing' = "close" /\ actor' = c
        /\ channels' = Unregistered(channels, conn[c].fd)
        /\ watched' = Unwatched(watched, channels, conn[c].fd)
    BY <1>1, <1>3, <2>1 DEF Close, BeginClose, Shut
  <2>3. conn'[c].closed /\ \A d \in Conns :
          /\ conn'[d].fd = conn[d].fd /\ conn'[d].rtcpfd = conn[d].rtcpfd
          /\ conn'[d].mode = cn[d].mode /\ (d # c => conn'[d].closed = conn[d].closed)
    BY <1>1, <2>1, <2>2, ShutFields
  <2>4. Ears'
    BY <2>2, <2>3, EarsClose
  <2>5. OneSetup'
    BY <2>3 DEF OneSetup
  <2>6. QED
    BY <2>4, <2>5
<1>4. QED
  BY <1>2, <1>3 DEF Reply

\* Batch and NoneRemoved over the steps that destroy nothing.
LEMMA BatchKept ==
  ASSUME Heeding, alive \subseteq alive', batch' \subseteq batch, phase' = phase \/ batch = {}
  PROVE  Batch'
  BY DEF Heeding, Hearing, Batch

LEMMA EventHearing ==
  ASSUME Heeding, Settled, NEW f \in Fds, NEW c \in Conns, NEW e, e = <<f, c>>,
         Ignored(e) \/ HandleRtcp(e) \/ ReadFails(e) \/ OtherEvent(e) \/ Describe(e)
           \/ Setup(e) \/ Play(e) \/ Teardown(e)
  PROVE  Ears' /\ OneSetup'
<1>1. e[1] = f /\ e[2] = c
  OBVIOUS
<1>2. conn \in ConnType /\ Heard(c) \in ConnType
  BY FieldTypes DEF Heeding, Lifetime, TypeInv, TypeOK, ConnType, Heard
<1>3. ASSUME Take(e) PROVE doing = "nothing" /\ c \in alive
  BY <1>1, <1>3 DEF Take
<1> DEFINE Same(cn) ==
      \A d \in Conns : /\ cn[d].fd = conn[d].fd /\ cn[d].rtcpfd = conn[d].rtcpfd
                       /\ cn[d].closed = conn[d].closed
                       /\ conn[d].rtcpfd = None \/ (cn[d].mode = "udp" /\ ~Resetup)
<1>4. Same(conn) /\ Same(Heard(c))
  BY <1>2 DEF Heard, ConnType, Connection, Heeding, Hearing, OneSetup
<1>5. ASSUME Same(conn'), \A d \in Conns : ~Closing(d) /\ ~Closing(d)',
             UNCHANGED <<alive, channels, watched>>
      PROVE  Ears' /\ OneSetup'
  BY <1>5, EarsKept DEF OneSetup
<1>6. CASE Ignored(e)
  BY <1>3, <1>4, <1>5, <1>6 DEF Ignored, Keep, kernelVars, localVars, Closing, Take
<1>7. CASE HandleRtcp(e)
  <2>1. PICK got \in BOOLEAN : conn' = [conn EXCEPT ![c].heard = @ \/ got]
    BY <1>1, <1>7 DEF HandleRtcp
  <2>2. Same(conn')
    BY <1>2, <1>4, <2>1 DEF ConnType, Connection
  <2>3. UNCHANGED <<alive, channels, watched, localVars>> /\ doing = "nothing"
    BY <1>3, <1>7 DEF HandleRtcp, Keep, kernelVars
  <2>4. QED
    BY <1>5, <2>2, <2>3 DEF Closing, localVars
<1>8. CASE Describe(e)
  <2>1. /\ conn' = Heard(c) /\ doing = "nothing" /\ doing' = "describe"
        /\ UNCHANGED <<alive, channels, watched>>
    BY <1>1, <1>3, <1>8 DEF Describe, OnRtsp, kernelVars
  <2>2. QED
    BY <1>4, <1>5, <2>1 DEF Closing
<1>9. ASSUME NEW cn \in ConnType, Same(cn), OnRtsp(e), Reply(c, cn) \/ Close(c, cn),
             alive' = alive
      PROVE  Ears' /\ OneSetup'
  <2>1. Take(e) /\ ~conn[c].closed
    BY <1>1, <1>9 DEF OnRtsp
  <2>2. QED
    BY <1>3, <1>9, <2>1, HandlerHearing
<1>10. CASE ReadFails(e)
  <2>1. PICK cn \in {Heard(c), Reset(c, Heard(c))} : Close(c, cn)
    BY <1>1, <1>10 DEF ReadFails
  <2>2. Reset(c, Heard(c)) \in ConnType /\ Same(Reset(c, Heard(c)))
    BY SMTT(60), <1>2, <1>4, ResetFields
  <2>3. QED
    BY <1>2, <1>4, <1>9, <1>10, <2>1, <2>2 DEF ReadFails
<1>11. CASE OtherEvent(e)
  BY <1>1, <1>2, <1>4, <1>9, <1>11 DEF OtherEvent
<1>12. CASE Setup(e)
  <2>1. PICK md \in {"tcp", "multicast"} :
          Reply(c, [Heard(c) EXCEPT ![c].mode = md]) /\ (conn[c].mode = "none" \/ Resetup)
    BY <1>1, <1>12 DEF Setup, CanSetup
  <2> DEFINE cn == [Heard(c) EXCEPT ![c].mode = md]
  <2>2. cn \in ConnType
    BY <1>2, FieldTypes
  <2>3. \A d \in Conns :
          /\ cn[d].fd = conn[d].fd /\ cn[d].rtcpfd = conn[d].rtcpfd /\ cn[d].closed = conn[d].closed
          /\ d # c => cn[d].mode = conn[d].mode
    BY <1>2, <1>4 DEF Heard, ConnType, Connection
  <2>4. conn[c].rtcpfd = None
    BY <1>4, <2>1
  <2>5. Same(cn)
    BY <1>4, <2>3, <2>4
  <2> HIDE DEF cn
  <2>6. QED
    BY <1>9, <1>12, <2>1, <2>2, <2>5 DEF Setup, cn
<1>13. CASE Play(e)
  <2> DEFINE cn == [Heard(c) EXCEPT ![c].rtp = "playing"]
  <2>1. cn \in ConnType
    BY <1>2, FieldTypes
  <2>2. Same(cn)
    BY <1>2, <1>4 DEF Heard, ConnType, Connection
  <2>3. Reply(c, cn)
    BY <1>1, <1>13 DEF Play
  <2> HIDE DEF cn
  <2>4. QED
    BY <1>9, <1>13, <2>1, <2>2, <2>3 DEF Play
<1>14. CASE Teardown(e)
  <2> DEFINE cn == [Heard(c) EXCEPT ![c].rtp = "torn"]
  <2>1. cn \in ConnType
    BY <1>2, FieldTypes
  <2>2. Same(cn)
    BY <1>2, <1>4 DEF Heard, ConnType, Connection
  <2>3. Close(c, cn)
    BY <1>1, <1>14 DEF Teardown
  <2> HIDE DEF cn
  <2>4. QED
    BY <1>9, <1>14, <2>1, <2>2, <2>3 DEF Teardown
<1>15. QED
  BY <1>6, <1>7, <1>8, <1>10, <1>11, <1>12, <1>13, <1>14

\* A descriptor that is not open has no channel.
LEMMA NoEars ==
  ASSUME Heeding, NEW f \in Fds \ files
  PROVE  channels[f] = None /\ watched[f] = None
<1>1. TypeOK /\ Filed /\ OwnRtcp /\ Ears
  BY DEF Heeding, Hearing, Lifetime, TypeInv, Objects
<1>2. channels[f] \in MaybeConn
  BY <1>1 DEF TypeOK
<1>3. \A c \in Conns : ~Hears(c, f)
  BY <1>1, DisjointAssumption DEF Filed, OwnRtcp, Hears
<1>4. QED
  BY <1>1, <1>2, <1>3 DEF Ears, MaybeConn

LEMMA RegisterEffect ==
  ASSUME Heeding, NEW f \in Fds, channels[f] = None, NEW c \in Conns
  PROVE  /\ Registered(f, c) \in MapType /\ Watching(f, c) = Registered(f, c)
         /\ \A g \in Fds : Registered(f, c)[g] = IF g = f THEN c ELSE channels[g]
<1>1. channels \in MapType /\ watched = channels
  BY DEF Heeding, Hearing, Ears, Lifetime, TypeInv, TypeOK, MapType
<1>2. QED
  BY <1>1 DEF Registered, Watching, MapType, MaybeConn

LEMMA SetupUdpHearing ==
  ASSUME Heeding, Settled, NEW f \in Fds, NEW c \in Conns, NEW e, e = <<f, c>>, SetupUdp(e)
  PROVE  Ears' /\ OneSetup'
<1>1. e[2] = c
  OBVIOUS
<1> DEFINE cn(g) == [Heard(c) EXCEPT ![c].mode = "udp", ![c].rtcpfd = g]
<1>2. doing = "nothing" /\ c \in alive /\ ~conn[c].closed /\ alive' = alive
  BY <1>1 DEF SetupUdp, OnRtsp, Take
<1>3. "udp" \in Modes /\ (conn[c].mode = "none" \/ Resetup)
  BY <1>1 DEF SetupUdp, CanSetup
<1>4. TypeOK /\ Filed /\ OwnRtcp /\ Ears /\ OneSetup
  BY DEF Heeding, Hearing, Lifetime, TypeInv, Objects
<1>5. conn[c].rtcpfd = None /\ ~Resetup
  BY <1>3, <1>4 DEF Settled, OneSetup
<1>6. PICK g \in Fds \ files :
        \/ /\ conn' = cn(g) /\ channels' = Registered(g, c) /\ watched' = Watching(g, c)
           /\ UNCHANGED localVars
        \/ /\ BeginClose(c, Reset(c, cn(g)), Registered(g, c))
           /\ watched' = Unwatched(Watching(g, c), Registered(g, c), conn[c].fd)
  BY <1>1 DEF SetupUdp
<1>7. conn \in ConnType
  BY <1>4 DEF TypeOK, ConnType
<1>8. cn(g) \in ConnType
  BY <1>7, FieldTypes DEF Heard
<1>9. \A d \in Conns :
        /\ cn(g)[d].fd = conn[d].fd /\ cn(g)[d].closed = conn[d].closed
        /\ cn(g)[d].rtcpfd = IF d = c THEN g ELSE conn[d].rtcpfd
        /\ cn(g)[d].mode = IF d = c THEN "udp" ELSE conn[d].mode
  BY <1>7 DEF Heard, ConnType, Connection
<1> HIDE DEF cn
<1>10. /\ channels[g] = None
       /\ Registered(g, c) \in MapType /\ Watching(g, c) = Registered(g, c)
       /\ \A x \in Fds : Registered(g, c)[x] = IF x = g THEN c ELSE channels[x]
  BY NoEars, RegisterEffect
<1>11. /\ \A x \in Fds, d \in Conns : channels[x] = d <=> Hears(d, x)
       /\ conn[c].fd \in Fds /\ conn[c].fd # g /\ c # None
       /\ \A d \in alive : conn[d].fd # g /\ conn[d].rtcpfd # g
       /\ \A d \in alive : d # c => conn[d].fd # conn[c].fd
       /\ \A d \in alive : conn[d].rtcpfd # conn[c].fd
       /\ None \notin Conns /\ None \notin Fds
  <2>1. conn[c].fd \in Fds /\ files \subseteq Fds
    BY <1>2, <1>4 DEF TypeOK, Filed
  <2>2. \A d \in alive : conn[d].fd # g /\ conn[d].rtcpfd # g
    BY <1>4, DisjointAssumption DEF Filed, OwnRtcp
  <2>3. \A d \in alive : d # c => conn[d].fd # conn[c].fd
    BY <1>2, <1>4 DEF Filed
  <2>4. \A d \in alive : conn[d].rtcpfd # conn[c].fd
    BY <1>2, <1>4, <2>1, DisjointAssumption DEF OwnRtcp
  <2>5. QED
    BY <1>2, <1>4, <2>1, <2>2, <2>3, <2>4, DisjointAssumption DEF Ears
<1>12. ASSUME conn' = cn(g), channels' = Registered(g, c), watched' = Watching(g, c),
              UNCHANGED localVars
       PROVE  Ears' /\ OneSetup'
  <2>1. \A d : ~Closing(d) /\ ~Closing(d)'
    BY <1>2, <1>12 DEF Closing, localVars
  <2>2. \A x \in Fds, d \in Conns : Hears(d, x)' <=> Hears(d, x) \/ (d = c /\ x = g)
    <3> SUFFICES ASSUME NEW x \in Fds, NEW d \in Conns
                 PROVE  Hears(d, x)' <=> Hears(d, x) \/ (d = c /\ x = g)
      OBVIOUS
    <3>1. CASE d = c
      BY <1>2, <1>5, <1>9, <1>11, <1>12, <2>1, <3>1 DEF Hears
    <3>2. CASE d # c
      BY <1>2, <1>9, <1>12, <2>1, <3>2 DEF Hears
    <3>3. QED
      BY <3>1, <3>2
  <2>3. \A x \in Fds, d \in Conns : channels'[x] = d <=> Hears(d, x)'
    BY <1>10, <1>11, <1>12, <2>2
  <2>4. OneSetup'
    BY <1>4, <1>5, <1>9, <1>12 DEF OneSetup
  <2>5. QED
    BY <1>10, <1>12, <2>3, <2>4 DEF Ears
<1>13. ASSUME BeginClose(c, Reset(c, cn(g)), Registered(g, c)),
              watched' = Unwatched(Watching(g, c), Registered(g, c), conn[c].fd)
       PROVE  Ears' /\ OneSetup'
  <2> DEFINE dn == Reset(c, cn(g))
  <2>1. dn \in ConnType /\ \A d \in Conns :
          /\ dn[d].fd = conn[d].fd /\ dn[d].closed = conn[d].closed
          /\ dn[d].rtcpfd = IF d = c THEN g ELSE conn[d].rtcpfd
          /\ dn[d].mode = IF d = c THEN "udp" ELSE conn[d].mode
    BY <1>8, <1>9, ResetFields
  <2> HIDE DEF dn
  <2>2. /\ conn' = Shut(c, dn) /\ doing' = "close" /\ actor' = c
        /\ channels' = Unregistered(Registered(g, c), conn[c].fd)
    BY <1>13, <2>1 DEF BeginClose, Shut, dn
  <2>3. conn'[c].closed /\ \A d \in Conns :
          /\ conn'[d].fd = conn[d].fd /\ (d # c => conn'[d].closed = conn[d].closed)
          /\ conn'[d].rtcpfd = IF d = c THEN g ELSE conn[d].rtcpfd
          /\ conn'[d].mode = IF d = c THEN "udp" ELSE conn[d].mode
    BY <2>1, <2>2, ShutFields
  <2>4. /\ watched' = channels'
        /\ \A x \in Fds : channels'[x] = IF x = conn[c].fd THEN None
                                         ELSE IF x = g THEN c ELSE channels[x]
    BY <1>10, <1>11, <1>13, <2>2, MapEffect
  <2>5. \A d \in Conns : ~Closing(d) /\ (Closing(d)' <=> d = c)
    BY <1>2, <2>2 DEF Closing
  <2>6. \A x \in Fds, d \in Conns :
          Hears(d, x)' <=> (Hears(d, x) /\ x # conn[c].fd) \/ (d = c /\ x = g)
    <3> SUFFICES ASSUME NEW x \in Fds, NEW d \in Conns
                 PROVE  Hears(d, x)' <=> (Hears(d, x) /\ x # conn[c].fd) \/ (d = c /\ x = g)
      OBVIOUS
    <3>1. CASE d = c
      BY <1>2, <1>5, <1>11, <2>3, <2>5, <3>1 DEF Hears
    <3>2. CASE d # c
      BY <1>2, <1>11, <2>3, <2>5, <3>2 DEF Hears
    <3>3. QED
      BY <3>1, <3>2
  <2>7. \A x \in Fds, d \in Conns : channels'[x] = d <=> Hears(d, x)'
    <3> SUFFICES ASSUME NEW x \in Fds, NEW d \in Conns
                 PROVE  channels'[x] = d <=> Hears(d, x)'
      OBVIOUS
    <3>1. CASE x = conn[c].fd
      BY <1>11, <2>4, <2>6, <3>1
    <3>2. CASE x = g
      BY <1>10, <1>11, <2>4, <2>6, <3>2
    <3>3. CASE x # conn[c].fd /\ x # g
      BY <1>11, <2>4, <2>6, <3>3
    <3>4. QED
      BY <3>1, <3>2, <3>3
  <2>8. OneSetup'
    BY <1>4, <1>5, <2>3 DEF OneSetup
  <2>9. QED
    BY <2>4, <2>7, <2>8 DEF Ears
<1>14. QED
  BY <1>6, <1>12, <1>13

\* The rest of DESCRIBE.
LEMMA EndDescribeHearing ==
  ASSUME Heeding, EndDescribe
  PROVE  Ears' /\ OneSetup'
<1>0. PICK c \in Conns, s \in Sessions, f \in Fds : c = actor /\ s = hold /\ f = conn[actor].fd
  BY DEF EndDescribe, Heeding, Lifetime, TypeInv, Handling, HasSocket
<1> DEFINE cl == WithClient(s, f, c)
           an == Associated(c, s)
<1>1. /\ doing = "describe" /\ alive' = alive
      /\ \/ /\ conn' = an /\ doing' = "nothing" /\ channels' = channels
            /\ Release(cl, watched)
         \/ /\ BeginClose(c, Reset(c, an), channels)
            /\ Release(cl, Unwatched(watched, channels, f))
  BY <1>0 DEF EndDescribe
<1>2. TypeOK /\ Members /\ Midway /\ OneSetup
  BY DEF Heeding, Hearing, Lifetime, TypeInv, Ledger
<1>3. c \in alive /\ ~conn[c].closed
  BY <1>0, <1>1, <1>2 DEF Midway
<1>4. /\ alive \subseteq Conns /\ clients \in ClientType /\ conn \in ConnType
      /\ channels \in MapType /\ watched \in MapType
  BY <1>2 DEF TypeOK, ClientType, MapType, ConnType
<1>5. /\ cl \in ClientType
      /\ \A t \in Sessions, g \in Fds : cl[t][g] \in {c, clients[t][g]}
  BY <1>4 DEF WithClient, ClientType, MapType, MaybeConn
<1>6. Unwatched(watched, channels, f) \in MapType
  BY <1>2, <1>4, MapTypes
<1>7. \A t \in Sessions, g \in Fds : cl[t][g] # None => cl[t][g] \in alive
  BY <1>2, <1>3, <1>5 DEF Members
<1>8. /\ an \in ConnType /\ Reset(c, an) \in ConnType
      /\ \A d \in Conns : /\ an[d].fd = conn[d].fd /\ an[d].rtcpfd = conn[d].rtcpfd
                          /\ an[d].closed = conn[d].closed /\ an[d].mode = conn[d].mode
  BY <1>4, SidFields, ResetFields
<1>9. \A d \in Conns : ~Closing(d)
  BY <1>1 DEF Closing
<1> HIDE DEF cl, an
<1>10. CASE conn' = an /\ doing' = "nothing" /\ channels' = channels /\ Release(cl, watched)
  <2>1. watched' = watched
    BY <1>1, <1>2, <1>4, <1>5, <1>7, <1>10, NothingDies
  <2>2. Ears'
    BY <1>1, <1>8, <1>9, <1>10, <2>1, EarsKept DEF Closing
  <2>3. OneSetup'
    BY <1>2, <1>8, <1>10 DEF OneSetup
  <2>4. QED
    BY <2>2, <2>3
<1>11. CASE /\ BeginClose(c, Reset(c, an), channels)
            /\ Release(cl, Unwatched(watched, channels, f))
  <2>1. watched' = Unwatched(watched, channels, f)
    BY <1>1, <1>2, <1>5, <1>6, <1>7, <1>11, NothingDies
  <2> DEFINE dn == Reset(c, an)
  <2>2. \A d \in Conns :
          /\ dn[d].fd = conn[d].fd /\ dn[d].rtcpfd = conn[d].rtcpfd
          /\ dn[d].closed = conn[d].closed /\ dn[d].mode = conn[d].mode
    BY <1>8, ResetFields
  <2>3. dn \in ConnType
    BY <1>8
  <2>4. BeginClose(c, dn, channels)
    BY <1>11
  <2> HIDE DEF dn
  <2>5. /\ conn' = Shut(c, dn) /\ doing' = "close" /\ actor' = c
        /\ channels' = Unregistered(channels, conn[c].fd)
    BY <2>2, <2>4 DEF BeginClose, Shut
  <2>6. conn'[c].closed /\ \A d \in Conns :
          /\ conn'[d].fd = conn[d].fd /\ conn'[d].rtcpfd = conn[d].rtcpfd
          /\ conn'[d].mode = conn[d].mode /\ (d # c => conn'[d].closed = conn[d].closed)
    BY <2>2, <2>3, <2>5, ShutFields
  <2>7. Ears'
    BY <1>0, <1>1, <1>3, <2>1, <2>5, <2>6, EarsClose
  <2>8. OneSetup'
    BY <1>2, <2>6 DEF OneSetup
  <2>9. QED
    BY <2>7, <2>8
<1>12. QED
  BY <1>1, <1>10, <1>11

\* The end of a close takes the RTCP socket, and the connection hears no more.
LEMMA EndCloseHearing ==
  ASSUME Heeding, EndClose
  PROVE  Ears' /\ OneSetup'
<1>0. PICK c \in Conns, f \in Fds, r \in Fds \cup {None} :
        c = actor /\ f = conn[actor].fd /\ r = conn[actor].rtcpfd
  <2>1. actor \in Conns /\ conn[actor].fd \in Fds
    BY DEF EndClose, Heeding, Lifetime, TypeInv, Handling, HasSocket
  <2>2. conn[actor].rtcpfd \in Fds \cup {None}
    BY <2>1 DEF Heeding, Lifetime, TypeInv, TypeOK, Connection
  <2>3. QED
    BY <2>1, <2>2
<1> DEFINE cl == WithoutClient(hold, f)
           w == Unwatched(watched, channels, r)
<1>1. /\ doing = "close" /\ doing' = "nothing"
      /\ channels' = Unregistered(channels, r)
      /\ UNCHANGED <<conn, alive>>
      /\ Release(cl, w)
  BY <1>0 DEF EndClose, RemoveConnection
<1>2. TypeOK /\ Members /\ Midway /\ OwnRtcp /\ Filed /\ Ears /\ OneSetup
  BY DEF Heeding, Hearing, Lifetime, TypeInv, Objects, Ledger
<1>3. c \in alive /\ conn[c].closed /\ hold \in MaybeSession
  BY <1>0, <1>1, <1>2 DEF Midway, TypeOK, MaybeSession
<1>4. /\ alive \subseteq Conns /\ clients \in ClientType
      /\ channels \in MapType /\ watched = channels
  BY <1>2 DEF TypeOK, ClientType, MapType, Ears
<1>5. /\ cl \in ClientType
      /\ \A s \in Sessions, g \in Fds : cl[s][g] \in {None, clients[s][g]}
  BY <1>3, <1>4 DEF WithoutClient, ClientType, MapType, MaybeConn, MaybeSession
<1>6. w \in MapType
  BY <1>0, <1>2, <1>4, MapTypes
<1> HIDE DEF cl
<1>7. \A s \in Sessions, g \in Fds : cl[s][g] # None => cl[s][g] \in alive
  BY <1>2, <1>5 DEF Members
<1>8. watched' = w
  BY <1>1, <1>2, <1>5, <1>6, <1>7, NothingDies
<1>9. /\ watched' = channels'
      /\ \A g \in Fds : channels'[g] = IF g = r THEN None ELSE channels[g]
  BY <1>0, <1>1, <1>4, <1>8, MapEffect
<1>10. \A d \in Conns : ~Closing(d)' /\ (Closing(d) <=> d = c)
  BY <1>0, <1>1 DEF Closing
<1>11. \A g \in Fds, d \in Conns : Hears(d, g)' <=> Hears(d, g) /\ g # r
  <2> SUFFICES ASSUME NEW g \in Fds, NEW d \in Conns
               PROVE  Hears(d, g)' <=> Hears(d, g) /\ g # r
    OBVIOUS
  <2>1. g # None /\ (d \in alive /\ r # None => conn[d].fd # r)
    BY <1>0, <1>2, <1>3, DisjointAssumption DEF OwnRtcp
  <2>2. CASE d = c
    BY <1>0, <1>1, <1>3, <1>10, <2>1, <2>2 DEF Hears
  <2>3. CASE d # c
    <3>1. d \in alive /\ r # None => conn[d].rtcpfd # r
      BY <1>0, <1>2, <1>3, <2>3 DEF OwnRtcp
    <3>2. QED
      BY <1>0, <1>1, <1>10, <2>1, <2>3, <3>1 DEF Hears
  <2>4. QED
    BY <2>2, <2>3
<1>12. Ears'
  <2>1. \A g \in Fds, d \in Conns : channels'[g] = d <=> Hears(d, g) /\ g # r
    BY <1>2, <1>9, DisjointAssumption DEF Ears
  <2>2. QED
    BY <1>9, <1>11, <2>1 DEF Ears
<1>13. OneSetup'
  BY <1>1, <1>2 DEF OneSetup
<1>14. QED
  BY <1>12, <1>13

LEMMA NewConnectionHearing ==
  ASSUME Heeding, NEW c \in Conns, NewConnection(c)
  PROVE  Ears' /\ OneSetup'
<1>1. PICK f \in Fds \ files :
       LET kept == IF connections[f] = None THEN {f} ELSE {} IN
       /\ conn' = [conn EXCEPT ![c].peer = "open", ![c].fd = f]
       /\ channels' = Registered(f, c)
       /\ alive' = IF f \in kept THEN alive \cup {c} ELSE alive
       /\ watched' = IF f \in kept THEN Watching(f, c) ELSE watched
  BY DEF NewConnection
<1>2. /\ TypeOK /\ Filed /\ OwnRtcp /\ Ears /\ OneSetup
      /\ doing = "nothing" /\ conn[c].peer = "new" /\ UNCHANGED localVars
  BY DEF Heeding, Hearing, Lifetime, TypeInv, Objects, NewConnection
<1>3. connections[f] = None /\ c \notin alive
  BY <1>1, <1>2 DEF Filed
<1>4. alive' = alive \cup {c} /\ channels' = Registered(f, c) /\ watched' = Watching(f, c)
  BY <1>1, <1>3
<1>5. conn \in ConnType /\ alive \subseteq Conns
  BY <1>2 DEF TypeOK, ConnType
<1>6. \A d \in Conns :
        /\ conn'[d].fd = IF d = c THEN f ELSE conn[d].fd
        /\ conn'[d].rtcpfd = conn[d].rtcpfd /\ conn'[d].mode = conn[d].mode
        /\ conn'[d].closed = conn[d].closed
  BY <1>1, <1>5 DEF ConnType, Connection
<1>7. ~conn[c].closed /\ conn[c].rtcpfd = None
  BY <1>2 DEF Heeding, Lifetime, Objects, Fresh
<1>8. /\ watched' = channels' /\ channels[f] = None
      /\ \A g \in Fds : channels'[g] = IF g = f THEN c ELSE channels[g]
  BY <1>4, NoEars, RegisterEffect
<1>9. \A d : ~Closing(d) /\ ~Closing(d)'
  BY <1>2 DEF Closing, localVars
<1>10. \A g \in Fds, d \in Conns : Hears(d, g)' <=> Hears(d, g) \/ (d = c /\ g = f)
  <2> SUFFICES ASSUME NEW g \in Fds, NEW d \in Conns
               PROVE  Hears(d, g)' <=> Hears(d, g) \/ (d = c /\ g = f)
    OBVIOUS
  <2>1. CASE d = c
    BY <1>3, <1>4, <1>6, <1>7, <1>9, <2>1, DisjointAssumption DEF Hears
  <2>2. CASE d # c
    BY <1>4, <1>6, <1>9, <2>2 DEF Hears
  <2>3. QED
    BY <2>1, <2>2
<1>11. Ears'
  <2>1. \A g \in Fds, d \in Conns : channels[g] = d <=> Hears(d, g)
    BY <1>2 DEF Ears
  <2>2. \A d \in Conns : ~Hears(d, f)
    BY <1>8, <2>1, DisjointAssumption
  <2>3. \A g \in Fds, d \in Conns : channels'[g] = d <=> Hears(d, g)'
    <3> SUFFICES ASSUME NEW g \in Fds, NEW d \in Conns
                 PROVE  channels'[g] = d <=> Hears(d, g)'
      OBVIOUS
    <3>1. CASE g = f
      BY <1>8, <1>10, <2>2, <3>1
    <3>2. CASE g # f
      BY <1>8, <1>10, <2>1, <3>2
    <3>3. QED
      BY <3>1, <3>2
  <2>4. QED
    BY <1>8, <2>3 DEF Ears
<1>12. OneSetup'
  BY <1>2, <1>6 DEF OneSetup
<1>13. QED
  BY <1>11, <1>12

\* A frame finds the channels of all its receivers, as they are all open.
LEMMA FrameHearing ==
  ASSUME Heeding, NEW s \in Sessions, HandleFrame(s), phase = "triggers", UNCHANGED localVars
  PROVE  Ears' /\ OneSetup'
<1>1. TypeOK /\ Members /\ Midway /\ Joined /\ Ears /\ OneSetup /\ NoneRemoved
  BY DEF Heeding, Hearing, Lifetime, TypeInv, Ledger
<1>2. alive' = alive
  BY DEF HandleFrame
<1>3. PICK failed \in SUBSET Playing(s) :
        conn' = [c \in Conns |-> IF c \in failed THEN [conn[c] EXCEPT !.rtp = "torn"] ELSE conn[c]]
  BY <1>1, FrameEffect
<1>4. PICK w \in MapType :
        /\ Release(clients, w)
        /\ \A f \in Fds : \/ channels'[f] = channels[f] /\ w[f] = watched[f]
                        \/ /\ channels[f] = None
                           /\ \E c \in Receivers(s) \cap alive : conn[c].fd = f
  BY <1>1, FrameEffect
<1>5. doing = "nothing"
  BY <1>1 DEF Midway
<1>6. clients \in ClientType /\ channels \in MapType /\ alive \subseteq Conns /\ channels' \in MapType
  BY <1>1, FrameEffect DEF TypeOK, ClientType, MapType
<1>7. \A t \in Sessions, f \in Fds : clients[t][f] # None => clients[t][f] \in alive
  BY <1>1 DEF Members
<1>8. watched' = w
  BY <1>1, <1>2, <1>4, <1>6, <1>7, NothingDies
<1>9. \A f \in Fds : ~(channels[f] = None /\ \E c \in Receivers(s) \cap alive : conn[c].fd = f)
  <2> SUFFICES ASSUME NEW f \in Fds, NEW c \in Receivers(s) \cap alive, conn[c].fd = f
               PROVE  channels[f] # None
    OBVIOUS
  <2>1. PICK g \in Fds : clients[s][g] = c /\ c # None
    BY DEF Receivers
  <2>2. conn[c].fd = g /\ session[s] # "new"
    BY <1>1, <2>1 DEF Members
  <2>3. session[s] = "added"
    BY <1>1, <2>2 DEF NoneRemoved, TypeOK
  <2>4. ~conn[c].closed
    BY <1>1, <1>5, <2>1, <2>2, <2>3 DEF Joined, Closing
  <2>5. channels[f] = c
    BY <1>1, <1>6, <2>4 DEF Ears, Hears
  <2>6. QED
    BY <2>1, <2>5
<1>10. channels' = channels /\ watched' = watched
  <2>1. \A f \in Fds : channels'[f] = channels[f] /\ w[f] = watched[f]
    BY <1>4, <1>9
  <2>2. watched = channels
    BY <1>1 DEF Ears
  <2>3. QED
    BY <1>6, <1>8, <2>1, <2>2 DEF MapType
<1>11. \A c \in Conns : /\ conn'[c].fd = conn[c].fd /\ conn'[c].rtcpfd = conn[c].rtcpfd
                        /\ conn'[c].closed = conn[c].closed /\ conn'[c].mode = conn[c].mode
  <2>1. \A c \in Conns : conn[c] \in Connection
    BY <1>1 DEF TypeOK
  <2>2. \A c \in Conns : conn'[c] \in {conn[c], [conn[c] EXCEPT !.rtp = "torn"]}
    BY <1>3
  <2>3. QED
    BY <2>1, <2>2 DEF Connection
<1>12. Ears'
  BY <1>2, <1>10, <1>11, EarsKept DEF Closing, localVars
<1>13. OneSetup'
  BY <1>1, <1>11 DEF OneSetup
<1>14. QED
  BY <1>12, <1>13

\* An erase closes sockets that nobody listened to any more.
LEMMA EraseHearing ==
  ASSUME Heeding, Settled, NEW f \in Fds, EraseConnection(f), NEW k \in {0, 1}, Shifted(k),
         UNCHANGED <<session, multicast, loopVars, localVars>>,
         \/ k = 1 /\ 1 \in DOMAIN queue /\ queue[1] = f /\ timers' = timers /\ phase = "triggers"
         \/ k = 0 /\ f \in timers /\ timers' = timers \ {f} /\ phase = "timers"
  PROVE  Hearing'
<1>1. /\ TypeOK /\ Filed /\ OwnRtcp /\ Midway /\ Ears /\ OneSetup /\ Batch /\ NoneRemoved
      /\ UNCHANGED <<conn, channels, session, phase, batch, doing, actor>>
  BY DEF Heeding, Hearing, Lifetime, TypeInv, Objects, Ledger, EraseConnection, loopVars, localVars
<1>2. PICK c \in alive :
        /\ conn[c].fd = f /\ conn[c].closed /\ alive' = alive \ {c}
        /\ \A g \in Fds : watched'[g] = IF g \in {f} \cup RtpFds(c) THEN None ELSE watched[g]
  BY EraseShuts DEF Heeding
<1>3. /\ channels \in MapType /\ watched = channels /\ alive \subseteq Conns
      /\ watched' \in [Fds -> MaybeConn]
      /\ \A g \in Fds, d \in Conns : channels[g] = d <=> Hears(d, g)
  <2>1. watched' = [g \in Fds |-> watched'[g]]
    BY DEF EraseConnection, Release
  <2>2. \A g \in Fds : watched'[g] \in MaybeConn
    BY <1>1, <1>2 DEF TypeOK, MaybeConn
  <2>3. QED
    BY <1>1, <2>1, <2>2 DEF TypeOK, MapType, Ears
<1>4. doing = "nothing"
  BY <1>1 DEF Midway
<1>5. \A g \in Fds : ~Hears(c, g)
  BY <1>2, <1>4 DEF Hears, Closing
<1>6. \A g \in Fds : g \in {f} \cup RtpFds(c) => channels[g] = None
  <2> SUFFICES ASSUME NEW g \in Fds, g \in {f} \cup RtpFds(c), channels[g] # None
               PROVE  FALSE
    OBVIOUS
  <2>1. PICK d \in Conns : channels[g] = d
    BY <1>3 DEF MapType, MaybeConn
  <2>2. Hears(d, g) /\ d # c
    BY <1>3, <1>5, <2>1
  <2>3. g = f \/ (g = conn[c].rtcpfd /\ conn[c].rtcpfd # None)
    BY <1>2, DisjointAssumption DEF RtpFds
  <2>4. d \in alive /\ (conn[d].fd = g \/ (conn[d].rtcpfd = g /\ conn[d].rtcpfd # None))
    BY <2>2, DisjointAssumption DEF Hears
  <2>5. CASE g = f
    BY <1>1, <1>2, <2>2, <2>4, <2>5 DEF Filed, OwnRtcp
  <2>6. CASE g = conn[c].rtcpfd /\ conn[c].rtcpfd # None
    BY <1>1, <1>2, <2>2, <2>4, <2>6 DEF OwnRtcp
  <2>7. QED
    BY <2>3, <2>5, <2>6
<1>7. watched' = watched
  <2>1. \A g \in Fds : watched'[g] = watched[g]
    BY <1>2, <1>3, <1>6
  <2>2. QED
    BY <1>3, <2>1 DEF MapType
<1>8. Ears'
  <2>1. \A g \in Fds, d \in Conns : Hears(d, g)' <=> Hears(d, g)
    <3> SUFFICES ASSUME NEW g \in Fds, NEW d \in Conns
                 PROVE  Hears(d, g)' <=> Hears(d, g)
      OBVIOUS
    <3>1. CASE d = c
      BY <1>2, <1>5, <3>1 DEF Hears
    <3>2. CASE d # c
      BY <1>1, <1>2, <3>2 DEF Hears, Closing
    <3>3. QED
      BY <3>1, <3>2
  <2>2. QED
    BY <1>1, <1>3, <1>7, <2>1 DEF Ears
<1>9. OneSetup' /\ NoneRemoved'
  BY <1>1 DEF OneSetup, NoneRemoved
<1>10. Batch'
  <2>1. batch = {}
    BY <1>1 DEF Batch
  <2>2. QED
    BY <1>1, <2>1 DEF Batch
<1>11. QED
  BY <1>8, <1>9, <1>10 DEF Hearing

\* The events epoll_wait reports are for connections that exist.
LEMMA PollHearing ==
  ASSUME Heeding, Poll
  PROVE  Hearing'
<1>1. /\ Ears /\ OneSetup /\ NoneRemoved /\ TypeOK
      /\ phase' = "io"
      /\ UNCHANGED <<conn, alive, channels, watched, session, localVars>>
  BY DEF Heeding, Hearing, Lifetime, TypeInv, Poll, kernelVars, objectVars, sessionVars
<1>2. PICK ready \in SUBSET {f \in Fds : watched[f] # None} :
        batch' = {<<f, watched[f]>> : f \in ready}
  BY DEF Poll
<1>3. \A e \in batch' : e[2] \in alive
  <2> SUFFICES ASSUME NEW f \in Fds, watched[f] # None
               PROVE  watched[f] \in alive
    BY <1>2
  <2>1. watched[f] \in Conns /\ channels[f] = watched[f]
    BY <1>1 DEF TypeOK, MaybeConn, Ears
  <2>2. QED
    BY <1>1, <2>1 DEF Ears, Hears
<1>4. Batch'
  BY <1>1, <1>3 DEF Batch
<1>5. Ears'
  BY <1>1, EarsKept DEF Closing, localVars
<1>6. OneSetup' /\ NoneRemoved'
  BY <1>1 DEF OneSetup, NoneRemoved
<1>7. QED
  BY <1>4, <1>5, <1>6 DEF Hearing

\* The heartbeat, and the peers.
LEMMA QuietHearing ==
  ASSUME Heeding, Settled
  PROVE  /\ BeatOne => Ears' /\ OneSetup'
         /\ \A c \in Conns : PeerLeaves(c) => Ears' /\ OneSetup'
<1>1. TypeOK /\ Filed /\ OneSetup /\ conn \in ConnType
  BY DEF Heeding, Hearing, Lifetime, TypeInv, Objects, TypeOK, ConnType
<1>2. ASSUME \A d \in Conns : /\ conn'[d].fd = conn[d].fd /\ conn'[d].rtcpfd = conn[d].rtcpfd
                              /\ conn'[d].closed = conn[d].closed /\ conn'[d].mode = conn[d].mode,
             UNCHANGED <<alive, channels, watched, localVars>>
      PROVE  Ears' /\ OneSetup'
  <2>1. Ears'
    BY <1>2, EarsKept DEF Closing, localVars
  <2>2. OneSetup'
    BY <1>1, <1>2 DEF OneSetup
  <2>3. QED
    BY <2>1, <2>2
<1>3. ASSUME BeatOne PROVE Ears' /\ OneSetup'
  <2>1. PICK f \in beat :
          \/ conn' = AliveCountReset(connections[f]) /\ UNCHANGED <<channels, watched, localVars>>
          \/ ~conn[connections[f]].closed /\ Close(connections[f], conn)
          \/ UNCHANGED <<conn, channels, watched, localVars>>
    BY <1>3 DEF BeatOne
  <2>2. phase = "beat" /\ doing = "nothing" /\ UNCHANGED alive
    BY <1>3 DEF BeatOne
  <2>3. PICK c \in alive : c = connections[f]
    BY <1>1, <2>2 DEF Heeding, Lifetime, TypeInv, Handling, TypeOK, Filed
  <2>4. c \in Conns
    BY <1>1 DEF TypeOK
  <2>5. CASE conn' = AliveCountReset(c) /\ UNCHANGED <<channels, watched, localVars>>
    <3>1. \A d \in Conns : /\ conn'[d].fd = conn[d].fd /\ conn'[d].rtcpfd = conn[d].rtcpfd
                           /\ conn'[d].closed = conn[d].closed /\ conn'[d].mode = conn[d].mode
      BY <1>1, <2>4, <2>5 DEF AliveCountReset, ConnType, Connection
    <3>2. QED
      BY <1>2, <2>2, <2>5, <3>1
  <2>6. CASE ~conn[c].closed /\ Close(c, conn)
    <3>1. \A d \in Conns : conn[d].rtcpfd = None \/ (conn[d].mode = "udp" /\ ~Resetup)
      BY <1>1 DEF OneSetup
    <3>2. QED
      BY <1>1, <2>2, <2>6, <3>1, HandlerHearing
  <2>7. CASE UNCHANGED <<conn, channels, watched, localVars>>
    BY <1>2, <2>2, <2>7
  <2>8. QED
    BY <2>1, <2>3, <2>5, <2>6, <2>7
<1>4. ASSUME NEW c \in Conns, PeerLeaves(c) PROVE Ears' /\ OneSetup'
  <2>1. PICK p \in {"silent", "closed"} : conn' = [conn EXCEPT ![c].peer = p]
    BY <1>4 DEF PeerLeaves
  <2>2. \A d \in Conns : /\ conn'[d].fd = conn[d].fd /\ conn'[d].rtcpfd = conn[d].rtcpfd
                         /\ conn'[d].closed = conn[d].closed /\ conn'[d].mode = conn[d].mode
    BY <1>1, <2>1 DEF ConnType, Connection
  <2>3. UNCHANGED <<alive, channels, watched, localVars>>
    BY <1>4 DEF PeerLeaves, kernelVars
  <2>4. QED
    BY <1>2, <2>2, <2>3
<1>5. QED
  BY <1>3, <1>4

\* Steps that leave the connections, their channels and their handlers alone.
LEMMA StillHearing ==
  ASSUME Heeding, UNCHANGED <<conn, alive, channels, watched, localVars>>,
         batch' \subseteq batch, phase' = phase \/ batch = {}, NoneRemoved'
  PROVE  Hearing'
<1>1. Ears'
  BY EarsKept DEF Closing, localVars
<1>2. Batch'
  BY BatchKept
<1>3. OneSetup'
  BY DEF Heeding, Hearing, OneSetup
<1>4. QED
  BY <1>1, <1>2, <1>3 DEF Hearing

LEMMA HearingStep ==
  ASSUME Settled
  PROVE  Heeding /\ [Next]_vars => Hearing'
<1> SUFFICES ASSUME Heeding, [Next]_vars
             PROVE  Hearing'
  OBVIOUS
<1>1. /\ TypeOK /\ Batch /\ NoneRemoved /\ ~Removals
      /\ (phase \in {"triggers", "timers", "beat"} => batch = {})
  BY DEF Heeding, Hearing, Lifetime, TypeInv, Settled, Batch
<1>2. ASSUME Ears' /\ OneSetup', alive \subseteq alive', batch' \subseteq batch,
             phase' = phase \/ batch = {}, session' = session
      PROVE  Hearing'
  BY <1>1, <1>2, BatchKept DEF Hearing, NoneRemoved
<1>3. ASSUME NEW f \in Fds, NEW c \in Conns, Event(<<f, c>>)
      PROVE  Hearing'
  <2>1. PICK e : e = <<f, c>>
    OBVIOUS
  <2>2. Event(e)
    BY <1>3, <2>1
  <2>3. Ears' /\ OneSetup'
    BY <2>1, <2>2, EventHearing, SetupUdpHearing DEF Event
  <2>4. /\ Take(e) /\ alive' = alive /\ session' = session
    BY <2>2 DEF Event, Ignored, HandleRtcp, ReadFails, OtherEvent, Describe, Setup, SetupUdp,
                Play, Teardown, OnRtsp, sessionVars
  <2>5. batch' \subseteq batch /\ phase' = phase
    BY <2>4 DEF Take
  <2>6. QED
    BY <1>2, <2>3, <2>4, <2>5
<1>4. CASE EndDescribe
  <2>1. alive' = alive /\ session' = session /\ batch' = batch /\ phase' = phase
    BY <1>4 DEF EndDescribe, loopVars
  <2>2. QED
    BY <1>2, <1>4, <2>1, EndDescribeHearing
<1>5. CASE EndClose
  <2>1. /\ alive' = alive /\ session' = session /\ batch' = batch
        /\ phase' = phase \/ phase = "beat"
    BY <1>5 DEF EndClose, RemoveConnection
  <2>2. QED
    BY <1>1, <1>2, <1>5, <2>1, EndCloseHearing
<1>6. CASE Trigger
  <2>1. /\ phase = "triggers" /\ queue # <<>> /\ queue' = Tail(queue)
        /\ UNCHANGED <<session, multicast, loopVars, localVars>>
        /\ queue \in Seq(Sessions \cup Fds)
    BY <1>1, <1>6 DEF Trigger, TypeOK
  <2>2. Shifted(1) /\ 1 \in DOMAIN queue /\ queue[1] = Head(queue)
    BY <2>1, TailShifts
  <2>3. ASSUME NEW s \in Sessions, HandleFrame(s) PROVE Hearing'
    <3>1. Ears' /\ OneSetup' /\ alive' = alive
      BY <2>1, <2>3, FrameHearing DEF HandleFrame
    <3>2. QED
      BY <1>2, <2>1, <3>1 DEF loopVars
  <2>4. ASSUME NEW f \in Fds, f = Head(queue), EraseConnection(f), timers' = timers
        PROVE  Hearing'
    BY <2>1, <2>2, <2>4, EraseHearing
  <2>5. QED
    BY <1>6, <2>3, <2>4 DEF Trigger
<1>7. CASE EraseTimer
  <2>1. PICK f \in timers :
          /\ timers' = timers \ {f}
          /\ UNCHANGED <<session, multicast, queue, loopVars, localVars>>
          /\ EraseConnection(f)
    BY <1>7 DEF EraseTimer
  <2>2. f \in Fds /\ phase = "timers" /\ queue \in Seq(Sessions \cup Fds)
    BY <1>1, <1>7 DEF EraseTimer, TypeOK
  <2>3. Shifted(0)
    BY <2>1, <2>2, TailShifts
  <2>4. QED
    BY <2>1, <2>2, <2>3, EraseHearing
<1>8. CASE BeatOne
  <2>1. alive' = alive /\ session' = session /\ batch' = batch /\ phase' = phase
    BY <1>8 DEF BeatOne, sessionVars
  <2>2. QED
    BY <1>2, <1>8, <2>1, QuietHearing
<1>9. CASE IoDone \/ TriggersDone \/ TimersDone \/ StartBeat \/ EndBeat
  <2>1. /\ UNCHANGED <<conn, alive, channels, watched, session, batch, localVars>>
        /\ batch = {}
    BY <1>1, <1>9 DEF IoDone, TriggersDone, TimersDone, StartBeat, EndBeat, kernelVars,
                      objectVars, sessionVars
  <2>2. QED
    BY <1>1, <2>1, StillHearing DEF NoneRemoved
<1>10. CASE LoopStep
  BY <1>3, <1>4, <1>5, <1>6, <1>7, <1>8, <1>9, <1>10, PollHearing DEF LoopStep
<1>11. ASSUME NEW c \in Conns, NewConnection(c) PROVE Hearing'
  <2>1. alive \subseteq alive' /\ session' = session /\ batch' = batch /\ phase' = phase
    BY <1>11 DEF NewConnection, sessionVars, loopVars
  <2>2. QED
    BY <1>2, <1>11, <2>1, NewConnectionHearing
<1>12. ASSUME NEW c \in Conns, PeerLeaves(c) PROVE Hearing'
  <2>1. alive' = alive /\ session' = session /\ batch' = batch /\ phase' = phase
    BY <1>12 DEF PeerLeaves, sessionVars, loopVars
  <2>2. QED
    BY <1>2, <1>12, <2>1, QuietHearing
<1>13. ASSUME NEW s \in Sessions, AddMediaSession(s) \/ RemoveMediaSession(s) \/ PushFrame(s)
       PROVE  Hearing'
  <2>1. UNCHANGED <<conn, alive, channels, watched, batch, phase, localVars>>
    BY <1>1, <1>13 DEF AddMediaSession, RemoveMediaSession, PushFrame, kernelVars, objectVars,
                       loopVars
  <2>2. session' = session \/ session' = [session EXCEPT ![s] = "added"]
    BY <1>1, <1>13 DEF AddMediaSession, RemoveMediaSession, PushFrame, sessionVars
  <2>3. NoneRemoved'
    BY <1>1, <2>2 DEF NoneRemoved, TypeOK
  <2>4. QED
    BY <2>1, <2>3, StillHearing
<1>14. CASE UNCHANGED vars
  <2>1. UNCHANGED <<conn, alive, channels, watched, session, batch, phase, localVars>>
    BY <1>14 DEF vars, kernelVars, objectVars, sessionVars, loopVars
  <2>2. QED
    BY <1>1, <2>1, StillHearing DEF NoneRemoved
<1>15. QED
  BY <1>10, <1>11, <1>12, <1>13, <1>14 DEF Next

LEMMA HeedingAlways ==
  ASSUME Settled
  PROVE  Spec => []Heeding
<1>1. Init => Heeding
  BY LifetimeInitially, HearingInitially DEF Heeding
<1>2. Heeding /\ [Next]_vars => Heeding'
  BY LifetimeStep, HearingStep DEF Heeding, Settled
<1>3. QED
  BY <1>1, <1>2, PTL DEF Spec

\* As long as no session is removed and no track set up twice over UDP, whatever
\* the loop can call back exists: the raw pointers of the channels' callbacks
\* (RtspConnection.cpp:29-32, 423) are taken out before handleClose queues the erase,
\* and no erase runs in the middle of a batch of epoll events
\* (EpollTaskScheduler.cpp:100-106).
THEOREM NothingDangles ==
  ASSUME Settled
  PROVE  Spec => []NoDangling
<1>1. Heeding => NoDangling
  <2> SUFFICES ASSUME Heeding
               PROVE  NoDangling
    OBVIOUS
  <2>1. TypeOK /\ Members /\ Ears /\ Batch
    BY DEF Heeding, Hearing, Lifetime, TypeInv, Ledger
  <2>2. \A f \in Fds : channels[f] \in alive \cup {None} /\ watched[f] = channels[f]
    BY <2>1 DEF TypeOK, MaybeConn, Ears, Hears
  <2>3. \A s \in Sessions, f \in Fds : clients[s][f] \in alive \cup {None}
    BY <2>1 DEF Members
  <2>4. QED
    BY <2>1, <2>2, <2>3 DEF Batch, NoDangling
<1>2. QED
  BY <1>1, HeedingAlways, PTL

\* Under the same conditions the server hears every connection it has not closed,
\* although descriptors are closed by other objects than those that registered
\* them (~RtpConnection, RtpConnection.cpp:41-46).
THEOREM EveryoneAttended ==
  ASSUME Settled
  PROVE  Spec => []Attended
<1>1. Heeding => Attended
  <2> SUFFICES ASSUME Heeding, NEW c \in alive, ~conn[c].closed
               PROVE  watched[conn[c].fd] = c
    BY DEF Attended
  <2>1. TypeOK /\ Handling /\ Ears
    BY DEF Heeding, Hearing, Lifetime, TypeInv
  <2>2. c \in Conns /\ conn[c].fd \in Fds
    BY <2>1 DEF TypeOK, Handling, HasSocket
  <2>3. QED
    BY <2>1, <2>2 DEF Ears, Hears
<1>2. QED
  BY <1>1, HeedingAlways, PTL
=============================================================================
