----------------------------- MODULE RtspServer -----------------------------
(***************************************************************************)
(* The lifetime of a client of xop::RtspServer: the sockets the kernel     *)
(* hands out, the RtspConnection and RtpConnection objects built around    *)
(* them, the channels registered with the scheduler and with epoll, the    *)
(* media sessions that count and feed the clients, the heartbeat, and the  *)
(* trigger queue through which frames arrive and closed connections are    *)
(* erased.  One thread runs the loop, one calls pushFrame and one calls    *)
(* addMeidaSession and removeMeidaSession; the trigger queue is the        *)
(* bounded first-in first-out queue that EventLoop implements.             *)
(*                                                                         *)
(* A session has one track (the server of the examples adds channel_0      *)
(* only), and the pair of UDP sockets of a track is represented by its     *)
(* RTCP socket, the one that is also registered with the scheduler.        *)
(***************************************************************************)
EXTENDS Integers, Sequences, FiniteSets, Functions

CONSTANTS Conns,       \* connections that clients open, each once
          Sessions,    \* MediaSession objects
          Url,         \* the suffix each session is served under
          Multicast,   \* the sessions for which startMulticast may be called
          Fds,         \* file descriptors the kernel can hand out
          Capacity,    \* kMaxTriggetEvents
          Modes,       \* transports the clients ask for
          None,        \* no connection, no session, no descriptor
          Redescribe,  \* a client may DESCRIBE a second URL
          Resetup,     \* a client may SETUP its track again
          Removals     \* removeMeidaSession is called

ASSUME DisjointAssumption ==
  /\ None \notin Conns \cup Sessions \cup Fds
  /\ Sessions \cap Fds = {}
ASSUME ServerAssumption ==
  /\ Multicast \subseteq Sessions
  /\ Capacity \in Nat \ {0}
  /\ Modes \subseteq {"tcp", "udp", "multicast"}
  /\ {Redescribe, Resetup, Removals} \subseteq BOOLEAN
  /\ DOMAIN Url = Sessions

VARIABLES files,        \* open descriptors
          conn,         \* each RtspConnection, its RtpConnection and its peer
          alive,        \* RtspConnection objects that exist
          connections,  \* RtspServer::_connections, by descriptor
          channels,     \* EpollTaskScheduler::_channels: whose channel
          watched,      \* the kernel's epoll set: whose channel
          session,      \* whether each session is new, added or removed
          multicast,    \* the sessions for which startMulticast was called
          clients,      \* MediaSession::_clients, by descriptor
          queue,        \* trigger events: a session (a frame) or a descriptor (an erase)
          timers,       \* descriptors whose erase is left to a one-shot timer
          phase,        \* where the loop thread is
          batch,        \* events of the last epoll_wait not handled yet
          beat,         \* connections the running heartbeat has yet to visit
          doing,        \* the handler the loop thread is in the middle of
          actor,        \* and its connection
          hold          \* and the MediaSessionPtr it holds

kernelVars  == <<files, watched>>
objectVars  == <<conn, alive, connections, channels>>
sessionVars == <<session, multicast, clients>>
loopVars    == <<phase, batch, beat>>
localVars   == <<doing, actor, hold>>
vars == <<kernelVars, objectVars, sessionVars, queue, timers, loopVars, localVars>>

MaybeConn == Conns \cup {None}
NoClients == [f \in Fds |-> None]

Init ==
  /\ files = {} /\ alive = {}
  /\ conn = [c \in Conns |->
       [peer |-> "new", fd |-> None, rtcpfd |-> None, mode |-> "none",
        rtp |-> "idle", closed |-> FALSE, heard |-> FALSE, sid |-> None]]
  /\ connections = [f \in Fds |-> None]
  /\ channels = [f \in Fds |-> None] /\ watched = [f \in Fds |-> None]
  /\ session = [s \in Sessions |-> "new"] /\ multicast = {}
  /\ clients = [s \in Sessions |-> NoClients]
  /\ queue = <<>> /\ timers = {}
  /\ phase = "triggers" /\ batch = {} /\ beat = {}
  /\ doing = "nothing" /\ actor = None /\ hold = None

-----------------------------------------------------------------------------
(* Objects, descriptors and registrations *)

\* What ~RtpConnection closes: the RTSP socket again for RTP over TCP, the
\* track's own socket for UDP, nothing for multicast or without a SETUP.
RtpFds(c) == CASE conn[c].mode = "tcp" -> {conn[c].fd}
               [] conn[c].mode = "udp" -> {conn[c].rtcpfd}
               [] OTHER -> {}

\* An RtpConnection is held by its RtspConnection and by sessions' _clients.
Held(al, cl) == al \cup {c \in Conns : \E s \in Sessions, f \in Fds : cl[s][f] = c}

\* A MediaSession is held by the server, by queued frames and by a handler.
Referenced(s) == session'[s] = "added" \/ s \in Range(queue') \/ hold' = s

\* The shared pointers dropped by a step: sessions nobody holds release their
\* clients, and the destructors of the connections that go close descriptors,
\* which takes these out of the epoll set too.
Release(cl, w) ==
  /\ clients' = [s \in Sessions |-> IF Referenced(s) THEN cl[s] ELSE NoClients]
  /\ LET shut == {conn[c].fd : c \in alive \ alive'}
                   \cup UNION {RtpFds(c) : c \in Held(alive, clients) \ Held(alive', clients')}
     IN  /\ files' = files \ shut
         /\ watched' = [f \in Fds |-> IF f \in shut THEN None ELSE w[f]]

\* updateChannel: a descriptor found in _channels is modified, which the kernel
\* refuses if it does not watch it; another one is added.
Registered(f, c) == [channels EXCEPT ![f] = IF @ = None THEN c ELSE @]
Watching(f, c) ==
  [watched EXCEPT ![f] = IF channels[f] # None /\ @ = None THEN None ELSE c]

\* Mutation: removeChannel leaves the entry in _channels.
Unregistered_Leak(ch, f) == ch

\* removeChannel, for a descriptor that has a channel.
Unregistered(ch, f) == IF f = None THEN ch ELSE [ch EXCEPT ![f] = None]
Unwatched(w, ch, f) == IF f = None \/ ch[f] = None THEN w ELSE [w EXCEPT ![f] = None]

-----------------------------------------------------------------------------
(* RtspConnection::handleClose, in two steps: up to lookMediaSession, which *)
(* takes the server's mutex, and from removeClient on.                      *)

\* lookMediaSession by id
LookSession(id) == IF \E s \in Sessions : s = id /\ session[s] = "added" THEN id ELSE None

\* Mutation: _isClosed is never set.
BeginClose_NoFlag(c, cn, ch) ==
  /\ conn' = cn
  /\ channels' = Unregistered(ch, cn[c].fd)
  /\ doing' = "close" /\ actor' = c
  /\ hold' = LookSession(cn[c].sid)

BeginClose(c, cn, ch) ==
  /\ conn' = [cn EXCEPT ![c].closed = TRUE]
  /\ channels' = Unregistered(ch, cn[c].fd)
  /\ doing' = "close" /\ actor' = c
  /\ hold' = LookSession(cn[c].sid)

\* Mutation: an erase that finds the queue full is given up.
RemoveConnection_GiveUp(f) ==
  /\ queue' = IF Len(queue) < Capacity THEN Append(queue, f) ELSE queue
  /\ UNCHANGED <<connections, alive, timers, phase>>

\* Mutation: the limit of the queue is tested with <=.
RemoveConnection_OffByOne(f) ==
  /\ UNCHANGED <<connections, alive, timers, phase>>
  /\ Len(queue) <= Capacity
  /\ queue' = Append(queue, f)

\* Mutation: the connection is erased on the spot.
RemoveConnection_Now(f) ==
  /\ connections' = [connections EXCEPT ![f] = None]
  /\ alive' = alive \ {connections[f]}
  /\ UNCHANGED <<queue, timers, phase>>

\* removeConnection: the erase is queued, or left to a timer of 1 ms when the
\* queue is full; from the heartbeat that addTimer locks the mutex which
\* handleTimerEvent holds, and the loop thread stops there.
RemoveConnection(f) ==
  /\ UNCHANGED <<connections, alive>>
  /\ \/ /\ Len(queue) < Capacity
        /\ queue' = Append(queue, f)
        /\ UNCHANGED <<timers, phase>>
     \/ /\ Len(queue) = Capacity /\ phase # "beat"
        /\ timers' = timers \cup {f}
        /\ UNCHANGED <<queue, phase>>
     \/ /\ Len(queue) = Capacity /\ phase = "beat"
        /\ phase' = "blocked"
        /\ UNCHANGED <<queue, timers>>

\* Mutation: the session forgets to drop the client.
WithoutClient_Kept(s, f) == clients

\* removeClient, for the session handleClose found.
WithoutClient(s, f) == IF s = None THEN clients ELSE [clients EXCEPT ![s][f] = None]

\* Mutation: the socket is closed here and not by the destructor.
EndClose_ClosesSocket ==
  LET f == conn[actor].fd
      r == conn[actor].rtcpfd
      w == Unwatched(watched, channels, r)
  IN  /\ doing = "close"
      /\ RemoveConnection(f)
      /\ channels' = Unregistered(channels, r)
      /\ doing' = "nothing" /\ actor' = None /\ hold' = None
      /\ clients' = WithoutClient(hold, f)
      /\ files' = files \ {f}
      /\ watched' = [w EXCEPT ![f] = None]
      /\ UNCHANGED <<conn, session, multicast, batch, beat>>

EndClose ==
  /\ doing = "close"
  /\ RemoveConnection(conn[actor].fd)
  /\ channels' = Unregistered(channels, conn[actor].rtcpfd)
  /\ doing' = "nothing" /\ actor' = None /\ hold' = None
  /\ UNCHANGED <<conn, session, multicast, batch, beat>>
  /\ Release(WithoutClient(hold, conn[actor].fd),
             Unwatched(watched, channels, conn[actor].rtcpfd))

-----------------------------------------------------------------------------
(* The kernel and the peers *)

\* epoll_wait reports every socket whose peer has hung up, and some of those
\* whose peer is talking; a silent peer gives no event.
Poll ==
  /\ phase = "poll"
  /\ \E ready \in SUBSET {f \in Fds : watched[f] # None} :
       /\ \A f \in Fds : watched[f] # None =>
            LET c == watched[f] IN
            /\ conn[c].peer \in {"closed", "reset"} /\ f = conn[c].fd => f \in ready
            /\ f \in ready => conn[c].peer # "silent"
       /\ batch' = {<<f, watched[f]>> : f \in ready}
  /\ phase' = "io"
  /\ UNCHANGED <<kernelVars, objectVars, sessionVars, queue, timers, beat, localVars>>

IoDone ==
  /\ phase = "io" /\ batch = {} /\ doing = "nothing"
  /\ phase' = "triggers"
  /\ UNCHANGED <<kernelVars, objectVars, sessionVars, queue, timers, batch, beat, localVars>>

\* The peer sends nothing more, or closes its end.
PeerLeaves(c) ==
  /\ c \in alive /\ conn[c].peer \in {"open", "silent"}
  /\ \E p \in {"silent", "closed"} \ {conn[c].peer} : conn' = [conn EXCEPT ![c].peer = p]
  /\ UNCHANGED <<kernelVars, alive, connections, channels, sessionVars, queue,
                 timers, loopVars, localVars>>

\* handleAccept and newConnection; emplace keeps an entry that is there, and the
\* new connection is then destroyed at once.
NewConnection(c) ==
  /\ phase = "io" /\ doing = "nothing" /\ conn[c].peer = "new"
  /\ \E f \in Fds \ files :
       LET kept == IF connections[f] = None THEN {f} ELSE {} IN
       /\ conn' = [conn EXCEPT ![c].peer = "open", ![c].fd = f]
       /\ channels' = Registered(f, c)
       /\ connections' = [g \in Fds |-> IF g \in kept THEN c ELSE connections[g]]
       /\ alive' = IF f \in kept THEN alive \cup {c} ELSE alive
       /\ files' = files \cup kept
       /\ watched' = IF f \in kept THEN Watching(f, c) ELSE watched
  /\ UNCHANGED <<sessionVars, queue, timers, loopVars, localVars>>

-----------------------------------------------------------------------------
(* Events of a client's sockets *)

\* The event e is the one being handled; a connection that was closed by an
\* earlier event of the batch ignores it.
Take(e) ==
  /\ phase = "io" /\ doing = "nothing"
  /\ e \in batch /\ e[2] \in alive
  /\ batch' = batch \ {e}
  /\ UNCHANGED <<phase, beat>>

Keep == UNCHANGED <<kernelVars, channels, localVars>>

Ignored(e) ==
  /\ Take(e) /\ conn[e[2]].closed /\ e[1] = conn[e[2]].fd
  /\ Keep
  /\ UNCHANGED <<conn, alive, connections, sessionVars, queue, timers>>

\* The event is for the RTSP socket of an open connection.
OnRtsp(e) == Take(e) /\ ~conn[e[2]].closed /\ e[1] = conn[e[2]].fd

\* handleRtcp; recv may give nothing.
HandleRtcp(e) ==
  /\ Take(e) /\ e[1] # conn[e[2]].fd
  /\ \E got \in BOOLEAN : conn' = [conn EXCEPT ![e[2]].heard = @ \/ got]
  /\ Keep
  /\ UNCHANGED <<alive, connections, sessionVars, queue, timers>>

\* The handler ends with sendMessage: a reply that cannot be sent, because the
\* peer has reset the connection, closes it.
Close(c, cn) ==
  /\ BeginClose(c, cn, channels)
  /\ watched' = Unwatched(watched, channels, cn[c].fd)

Reset(c, cn) == [cn EXCEPT ![c].peer = "reset"]
Reply(c, cn) ==
  \/ conn' = cn /\ UNCHANGED <<channels, watched, localVars>>
  \/ Close(c, Reset(c, cn))

Heard(c) == [conn EXCEPT ![c].heard = TRUE]

\* handleRead of end of file or of what cannot be parsed, handleWrite that
\* fails, EPOLLHUP: all end in handleClose.
ReadFails(e) ==
  /\ OnRtsp(e)
  /\ \E cn \in {Heard(e[2]), Reset(e[2], Heard(e[2]))} : Close(e[2], cn)
  /\ UNCHANGED <<files, alive, connections, sessionVars, queue, timers>>

\* Part of a request, OPTIONS, GET_PARAMETER, a DESCRIBE or SETUP that is
\* refused, room to write: nothing changes but the heartbeat's count.
OtherEvent(e) ==
  /\ OnRtsp(e) /\ conn[e[2]].peer = "open"
  /\ Reply(e[2], Heard(e[2]))
  /\ UNCHANGED <<files, alive, connections, sessionVars, queue, timers>>

\* handleCmdDescribe of a URL that is served, up to lookMediaSession.
Describe(e) ==
  /\ OnRtsp(e) /\ conn[e[2]].peer = "open"
  /\ \E s \in Sessions :
       /\ session[s] = "added"
       /\ Redescribe \/ conn[e[2]].sid \in {None} \cup {t \in Sessions : Url[t] = Url[s]}
       /\ hold' = s
  /\ doing' = "describe" /\ actor' = e[2]
  /\ conn' = Heard(e[2])
  /\ UNCHANGED <<kernelVars, alive, connections, channels, sessionVars, queue, timers>>

\* addClient keeps the entry a descriptor already has.
WithClient(s, f, c) == [clients EXCEPT ![s][f] = IF @ = None THEN c ELSE @]

\* The connection is associated with the session it asked for.
Associated(c, s) == [conn EXCEPT ![c].sid = s]

\* The rest of handleCmdDescribe; the session may have been removed meanwhile.
EndDescribe ==
  /\ doing = "describe"
  /\ UNCHANGED <<alive, connections, session, multicast, queue, timers, loopVars>>
  /\ LET f == conn[actor].fd
         cn == Associated(actor, hold)
         cl == WithClient(hold, f, actor)
     IN  \/ /\ conn' = cn
            /\ doing' = "nothing" /\ actor' = None /\ hold' = None
            /\ UNCHANGED channels
            /\ Release(cl, watched)
         \/ /\ BeginClose(actor, Reset(actor, cn), channels)
            /\ Release(cl, Unwatched(watched, channels, f))

\* The session a SETUP is for is still there and streams over that transport.
CanSetup(c, md) ==
  /\ md \in Modes
  /\ conn[c].mode = "none" \/ Resetup
  /\ \E s \in Sessions : /\ s = conn[c].sid /\ session[s] = "added"
                         /\ s \in multicast <=> md = "multicast"

\* handleCmdSetup for RTP over TCP or multicast.
Setup(e) ==
  /\ OnRtsp(e) /\ conn[e[2]].peer = "open"
  /\ \E md \in {"tcp", "multicast"} :
       /\ CanSetup(e[2], md)
       /\ Reply(e[2], [Heard(e[2]) EXCEPT ![e[2]].mode = md])
  /\ UNCHANGED <<files, alive, connections, sessionVars, queue, timers>>

\* handleCmdSetup for UDP opens a socket and registers a channel for RTCP; the
\* socket of an earlier SETUP is left as it is.
SetupUdp(e) ==
  /\ OnRtsp(e) /\ conn[e[2]].peer = "open"
  /\ CanSetup(e[2], "udp")
  /\ \E f \in Fds \ files :
       LET c  == e[2]
           cn == [Heard(c) EXCEPT ![c].mode = "udp", ![c].rtcpfd = f]
           ch == Registered(f, c)
           w  == Watching(f, c)
       IN  /\ files' = files \cup {f}
           /\ \/ conn' = cn /\ channels' = ch /\ watched' = w /\ UNCHANGED localVars
              \/ /\ BeginClose(c, Reset(c, cn), ch)
                 /\ watched' = Unwatched(w, ch, conn[c].fd)
  /\ UNCHANGED <<alive, connections, sessionVars, queue, timers>>

\* handleCmdPlay: RtpConnection::play needs a SETUP, and is without effect on
\* what was torn down.
Play(e) ==
  /\ OnRtsp(e) /\ conn[e[2]].peer = "open"
  /\ conn[e[2]].mode # "none" /\ conn[e[2]].rtp = "idle"
  /\ Reply(e[2], [Heard(e[2]) EXCEPT ![e[2]].rtp = "playing"])
  /\ UNCHANGED <<files, alive, connections, sessionVars, queue, timers>>

\* handleCmdTeardown
Teardown(e) ==
  /\ OnRtsp(e) /\ conn[e[2]].peer = "open"
  /\ Close(e[2], [Heard(e[2]) EXCEPT ![e[2]].rtp = "torn"])
  /\ UNCHANGED <<files, alive, connections, sessionVars, queue, timers>>

Event(e) == \/ Ignored(e) \/ HandleRtcp(e) \/ ReadFails(e) \/ OtherEvent(e)
            \/ Describe(e) \/ Setup(e) \/ SetupUdp(e) \/ Play(e) \/ Teardown(e)

-----------------------------------------------------------------------------
(* Trigger events *)

\* The connections a frame of session s is sent to; a multicast session stops
\* after the first client.
Receivers(s) == {clients[s][f] : f \in Fds} \ {None}
Playing(s) == {c \in Receivers(s) \cap alive : conn[c].rtp = "playing"}

\* MediaSession::handleFrame.  Each client may still wait for an I frame, keep
\* the packet buffered, fail and be torn down, or have sent everything: RTP over
\* TCP then updates the client's channel.
HandleFrame(s) ==
  /\ UNCHANGED <<alive, connections, timers>>
  /\ \E failed \in SUBSET Playing(s) :
     \E sent \in SUBSET {c \in Playing(s) \ failed :
                         conn[c].mode = "tcp" /\ conn[c].peer # "reset"} :
       /\ s \in multicast => Cardinality(failed) <= 1
       /\ conn' = [c \in Conns |->
                    IF c \in failed THEN [conn[c] EXCEPT !.rtp = "torn"] ELSE conn[c]]
       /\ LET here(f) == {c \in sent : conn[c].fd = f}
              updated(ch, f) == ch[f] # None \/ here(f) = {}
          IN  /\ channels' = [f \in Fds |->
                   IF updated(channels, f) THEN channels[f] ELSE CHOOSE c \in here(f) : TRUE]
              /\ Release(clients, [f \in Fds |->
                   IF updated(channels, f) THEN watched[f] ELSE CHOOSE c \in here(f) : TRUE])

\* _connections.erase; the last pointer to the connection goes.
EraseConnection(f) ==
  /\ connections' = [connections EXCEPT ![f] = None]
  /\ alive' = alive \ {connections[f]}
  /\ UNCHANGED <<conn, channels>>
  /\ Release(clients, watched)

\* handleTriggerEvent takes the events in order until there is none.
Trigger ==
  /\ phase = "triggers" /\ queue # <<>>
  /\ queue' = Tail(queue)
  /\ UNCHANGED <<session, multicast, loopVars, localVars>>
  /\ \/ Head(queue) \in Sessions /\ HandleFrame(Head(queue))
     \/ Head(queue) \in Fds /\ EraseConnection(Head(queue)) /\ UNCHANGED timers

TriggersDone ==
  /\ phase = "triggers" /\ queue = <<>>
  /\ phase' = "timers"
  /\ UNCHANGED <<kernelVars, objectVars, sessionVars, queue, timers, batch, beat, localVars>>

-----------------------------------------------------------------------------
(* Timers *)

TimersDone ==
  /\ phase = "timers"
  /\ phase' = "poll"
  /\ UNCHANGED <<kernelVars, objectVars, sessionVars, queue, timers, batch, beat, localVars>>

EraseTimer ==
  /\ phase = "timers"
  /\ \E f \in timers :
       /\ timers' = timers \ {f}
       /\ UNCHANGED <<session, multicast, queue, loopVars, localVars>>
       /\ EraseConnection(f)

\* The heartbeat visits every entry of _connections.
StartBeat ==
  /\ phase = "timers"
  /\ phase' = "beat"
  /\ beat' = {f \in Fds : connections[f] # None}
  /\ UNCHANGED <<kernelVars, objectVars, sessionVars, queue, timers, batch, localVars>>

IsAlive(c) == ~conn[c].closed /\ (conn[c].mode = "multicast" \/ conn[c].heard)

\* Mutation: the count is not reset.
AliveCountReset_Not(c) == conn

\* resetAliveCount
AliveCountReset(c) == [conn EXCEPT ![c].heard = FALSE]

BeatOne ==
  /\ phase = "beat" /\ doing = "nothing"
  /\ \E f \in beat :
       LET c == connections[f] IN
       /\ beat' = beat \ {f}
       /\ \/ /\ IsAlive(c)
             /\ conn' = AliveCountReset(c)
             /\ UNCHANGED <<channels, watched, localVars>>
          \/ /\ ~IsAlive(c) /\ ~conn[c].closed
             /\ Close(c, conn)
          \/ /\ conn[c].closed
             /\ UNCHANGED <<conn, channels, watched, localVars>>
  /\ UNCHANGED <<files, alive, connections, sessionVars, queue, timers, phase, batch>>

EndBeat ==
  /\ phase = "beat" /\ beat = {} /\ doing = "nothing"
  /\ phase' = "timers"
  /\ UNCHANGED <<kernelVars, objectVars, sessionVars, queue, timers, batch, beat, localVars>>

-----------------------------------------------------------------------------
(* Calls of other threads, each under the server's mutex *)

\* addMeidaSession, after startMulticast or not; a suffix in use is refused.
AddMediaSession(s) ==
  /\ session[s] = "new"
  /\ \A t \in Sessions : session[t] = "added" => Url[t] # Url[s]
  /\ session' = [session EXCEPT ![s] = "added"]
  /\ multicast' \in {multicast, multicast \cup ({s} \cap Multicast)}
  /\ UNCHANGED <<kernelVars, objectVars, clients, queue, timers, loopVars, localVars>>

\* removeMeidaSession
RemoveMediaSession(s) ==
  /\ Removals
  /\ session[s] = "added"
  /\ session' = [session EXCEPT ![s] = "removed"]
  /\ UNCHANGED <<objectVars, multicast, queue, timers, loopVars, localVars>>
  /\ Release(clients, watched)

\* pushFrame queues a frame of a session that has clients, if there is room.
PushFrame(s) ==
  /\ session[s] = "added" /\ Receivers(s) # {}
  /\ Len(queue) < Capacity
  /\ queue' = Append(queue, s)
  /\ UNCHANGED <<kernelVars, objectVars, sessionVars, timers, loopVars, localVars>>

-----------------------------------------------------------------------------
LoopStep ==
  \/ Poll \/ IoDone \/ EndDescribe \/ EndClose
  \/ \E f \in Fds, c \in Conns : Event(<<f, c>>)
  \/ Trigger \/ TriggersDone
  \/ TimersDone \/ EraseTimer \/ StartBeat \/ BeatOne \/ EndBeat

Next ==
  \/ LoopStep
  \/ \E c \in Conns : NewConnection(c) \/ PeerLeaves(c)
  \/ \E s \in Sessions : AddMediaSession(s) \/ RemoveMediaSession(s) \/ PushFrame(s)

Spec == Init /\ [][Next]_vars

\* The loop thread keeps running.  Passes over the queue and over the timers
\* end: the thread that pushes frames sleeps between them (Timer::sleep in
\* snedFrame), and a pass runs no timer twice (PassEnds of TimerQueueProofs).
\* Timers that are due run (DueRuns of TimerQueue).
Fairness ==
  /\ WF_vars(LoopStep) /\ SF_vars(TriggersDone) /\ SF_vars(TimersDone)
  /\ SF_vars(EraseTimer) /\ SF_vars(StartBeat)

FairSpec == Spec /\ Fairness

-----------------------------------------------------------------------------
(* Safety *)

Places == {"triggers", "timers", "beat", "poll", "io", "blocked"}
Connection ==
  [peer : {"new", "open", "silent", "closed", "reset"}, fd : Fds \cup {None},
   rtcpfd : Fds \cup {None}, mode : {"none", "tcp", "udp", "multicast"},
   rtp : {"idle", "playing", "torn"}, closed : BOOLEAN, heard : BOOLEAN,
   sid : Sessions \cup {None}]

\* Every variable has its type, and the trigger queue respects its limit.
TypeOK ==
  /\ files \subseteq Fds /\ timers \subseteq Fds /\ beat \subseteq Fds
  /\ alive \subseteq Conns
  /\ conn \in [Conns -> Connection]
  /\ connections \in [Fds -> MaybeConn]
  /\ channels \in [Fds -> MaybeConn] /\ watched \in [Fds -> MaybeConn]
  /\ session \in [Sessions -> {"new", "added", "removed"}]
  /\ multicast \subseteq Multicast
  /\ clients \in [Sessions -> [Fds -> MaybeConn]]
  /\ queue \in Seq(Sessions \cup Fds) /\ Len(queue) <= Capacity
  /\ batch \subseteq Fds \X Conns
  /\ phase \in Places /\ doing \in {"nothing", "describe", "close"}
  /\ actor \in MaybeConn /\ hold \in Sessions \cup {None}

\* Whatever the loop can call back exists: the connections behind the
\* registered channels, behind the events of the batch in hand and behind the
\* clients of the sessions (closed connections are erased by a later trigger,
\* never in the middle of a batch).
NoDangling ==
  /\ \A f \in Fds : {channels[f], watched[f]} \subseteq alive \cup {None}
  /\ \A e \in batch : e[2] \in alive
  /\ \A s \in Sessions, f \in Fds : clients[s][f] \in alive \cup {None}

\* A connection keeps the descriptor it was given until it is destroyed: nobody
\* closes it early, and no other connection is filed under it.
OwnDescriptor ==
  \A c \in alive : conn[c].fd \in files /\ connections[conn[c].fd] = c

\* The server hears every connection it has not closed: its socket is watched,
\* and the event leads to it.
Attended == \A c \in alive : conn[c].closed \/ watched[conn[c].fd] = c

\* The erases waiting for a descriptor, in the queue and among the timers.
Pending(f) == Cardinality({i \in DOMAIN queue : queue[i] = f})
              + (IF f \in timers THEN 1 ELSE 0)
Closing(c) == doing = "close" /\ actor = c

\* A closed connection has exactly one erase on its way, and an open one none:
\* the erase names a descriptor only, so a second one would hit the next client
\* that is given it.
ErasedOnce ==
  phase # "blocked" =>
    \A f \in Fds : Pending(f) =
      IF \E c \in alive : connections[f] = c /\ conn[c].closed /\ ~Closing(c)
      THEN 1 ELSE 0

\* The clients of a session, whose number the application is notified of, are
\* the connections that described it and are not closed.
CountsOnline ==
  \A s \in Sessions : session[s] = "added" =>
    \A f \in Fds :
      /\ clients[s][f] # None =>
           /\ clients[s][f] \in alive
           /\ ~conn[clients[s][f]].closed \/ Closing(clients[s][f])
      /\ \A c \in alive :
           conn[c].fd = f /\ conn[c].sid = s /\ ~conn[c].closed => clients[s][f] = c

-----------------------------------------------------------------------------
(* Liveness *)

Gone(c) == c \notin alive
Stopped == phase = "blocked"

\* A connection whose peer has hung up is destroyed, and its descriptor with it,
\* unless the heartbeat has run into the timers' mutex.
Reaped ==
  \A c \in Conns :
    c \in alive /\ conn[c].peer \in {"closed", "reset"} ~> Gone(c) \/ Stopped

\* A peer that has fallen silent without hanging up is closed by the heartbeat,
\* except a receiver of multicast.
IdleClosed ==
  \A c \in Conns :
    c \in alive /\ conn[c].peer = "silent" ~>
      Gone(c) \/ conn[c].closed \/ conn[c].mode = "multicast" \/ Stopped
=============================================================================
