# Verification of the V5 package feed: the xop RTSP library and the V5 link

The repository is a package feed for the V5 camera board. Most of its 6400
files are a vendor SDK (`vecoo/`) and third-party firmware (`media_server/`).
The feed's own logic is the RTSP library in `rtsp/` (7000 lines of C++, name
space `xop`) and about ten small streaming programs. This project models the
RTSP library: the event loop, its timers, the lifetime of a client from accept to
erase, how requests and responses are read, how frames are cut into packets and
what a client is sent; and of the programs the video link over TCP with both its
ends. Every definition names its lines of source in `PROJECT.json` ("map"); this file says how the parts fit together, what the
runs and the proofs show, and what is left.

## 1. Inventory

### The RTSP library (`rtsp/src/src`)

| component | state | operations | hard behaviour |
|---|---|---|---|
| `EventLoop`, `RingBuffer`, `Pipe` | ring of callbacks, `_putPos`, `_getPos`, atomic `_numDatas`, wake-up pipe, `_shutdown` | `addTriggerEvent` and `quit` from any thread, `loop`, `wake`, `handleTriggerEvent` | posters under a mutex against a consumer without one; lost wake-ups; the limit tested before the mutex |
| `TimerQueue` | `_timers` by (time-out, id), `_repeatTimers`, `_lastTimerId` | `addTimer`, `removeTimer`, `handleTimerEvent`, `getTimeRemaining` | callbacks under a mutex that is not recursive; removal racing expiry; delay 0; the clock moving between steps |
| `EpollTaskScheduler`, `Channel` | `_channels` by descriptor, the kernel's epoll set, the batch of one `epoll_wait` | `updateChannel`, `removeChannel`, `handleEvent` | raw pointers in the batch; add or modify chosen by a map that may be stale |
| `RtspServer`, `Acceptor` | `_connections`, `_mediaSessions`, suffix map, heartbeat timer | `newConnection`, `removeConnection`, `addMeidaSession`, `removeMeidaSession`, `pushFrame` | erase deferred through a bounded queue, then through a timer; descriptors reused |
| `RtspConnection` | `_isClosed`, `_sessionId`, `_aliveCount`, channels, read and write buffers | one handler per request, `handleRead/Write/Close`, `sendMessage` | a reply that fails closes the connection inside the handler that sends it |
| `MediaSession` | `_clients` (weak count, notification), sources | `addClient`, `removeClient`, `handleFrame` | changed by the loop thread, counted by others |
| `RtpConnection`, `BufferWriter` | sockets per track, `isPlay`, I frame gate, queue of packets | `setupRtpOver*`, `play`, `sendRtpPacket`, `append`, `send` | partial sends; replies and packets on one socket; interest in EPOLLOUT |
| `RtspRequest`, `BufferReader` | parser state, headers found so far, unread bytes | `parseRequest` and its helpers, `readFd`, `retrieve*` | requests in pieces, or several in one piece |
| `RtspPusher`, client half of `RtspConnection` | one session, connections, `RtspResponse` | `openUrl`, `pushFrame`, responses in `RtspConnection` | responses in pieces; connections created in the loop thread, counted in another |
| media sources (`H264Source`, `H265Source`, `AACSource`, `G711ASource`), `H264Parser` | none (a frame at a time) | `handleFrame` | fragments: first, last and off by one |
| `TcpServer`, `TcpConnection` | connections, buffers | `send`, `handleRead/Write/Close` | nothing instantiates them; `send` repeats what it sent |
| `MemoryManager`, `SelectTaskScheduler`, `TaskQueue` | pools; sets for `select`; a blocking queue | | not used by the Linux build, or calls commented out |
| sockets, logging, clocks | | system calls | |

How they interact. One thread runs `EventLoop::loop`: callbacks of the trigger
queue, then timers, then the channels that `epoll_wait` reports. All of
`RtspConnection` runs in that thread. The encoder thread (`snedFrame` in
`example/rtsp_server.cpp`) calls `pushFrame`, which posts a callback; an
application thread may call `addMeidaSession` and `removeMeidaSession`, which
share the server's mutex with the lookups of the loop thread. A closed
connection posts its own erase, and when the queue is full adds a timer of 1 ms
for it. The heartbeat is a repeating timer that visits every connection. RTP
over TCP and RTSP replies go through the same `BufferWriter` to the same socket.

What makes them correct: every accepted callback runs once, in order, and the
loop never sleeps on one; a due timer runs, a removed one never; what the loop
calls back exists; a descriptor has one owner; a closed connection is erased
once; a session counts exactly its clients that are online; a client's stream
is a sequence of whole messages; what is queued is sent; a reply goes to the
request it is for, however requests are cut; a pusher goes through the handshake
in order; a frame cut into packets can be put together again.

### The other programs

| component | what it is | hard behaviour |
|---|---|---|
| V5 link over TCP (`tcp_server`, `tcp_client`) | encoder thread and accept loop share `clientPid`; the client reassembles 1300-byte records; a script restarts the server | partial send, SIGPIPE, client replaced in the middle of a frame, reassembly state kept across reconnects |
| its forerunners (`tcp_server_local`, `v5_server_local`, `v5_client_local`) | the same with records of 1500 bytes and a checksum | as above |
| V5 link over UDP (`udp_client`, `udp_server`) | the same records in datagrams | loss and reordering |
| `remote_control` | `select` loop between a UART and one TCP client | end of file never seen, client replaced within one turn |
| V5 RTSP programs, loop-back sample, `i2c-gpio-custom`, build files, `media_server`, `vecoo` | glue around vendor binaries, a kernel module's parameters, recipes, third-party code | not modelled (section 7) |

## 2. Plan

Most important first; 1 to 9 are done.

1. `EventLoop`, with `Mailbox` as its abstract specification: everything else
   relies on it.
2. `TimerQueue`, with `AlarmClock` as its abstract specification: the loop's second
   phase, and the source of the heartbeat.
3. `RtspServer`: the lifetime of a client over scheduler, kernel, sessions and
   trigger queue. It composes the promises of 1 and 2: it takes the trigger queue
   as the bounded FIFO that `MailboxSpec` shows it to be and the timers as
   `AlarmSpec`, `DueRuns` and `OncePerPass` describe them.
4. `RtpSender`: the stream one client is sent.
5. `RequestReader` over `BufferReader`: requests in pieces.
6. `V5Link`: encoder thread, accept loop, records and reassembly.
7. `RtspPusher`: the client role of `RtspConnection` with a server that answers
   in pieces; `RtspReading` composes it with 5 through `_connMode`.
8. `MediaSources`: the packets as a function of the frame, against the definition
   that the receiver gets the frame back.
9. Proofs about all of them: every safety property that a run checks is a theorem.
10. Left: abstract specifications of 3, 5 and 6 as modules of their own;
    `remote_control`, then `TcpConnection`, `SelectTaskScheduler`,
    `MemoryManager` and the UDP link.

Where the properties of 5 to 7 say what a peer gets, the abstract specification is
in the property itself: the sequence of requests and replies for 5 (`OwnReply`),
the handshake for 7 (`InOrder`), whole frames for 6.

## 3. Modules

`EventLoop.tla` has one action per access to shared memory. `Call`, `Lock`,
`PushTest`, `Store`, `Commit`, `Wake` are `addTriggerEvent` with
`RingBuffer::pushData`; `Quit`, `QuitWake` are `quit`; `PopTest`, `TakeSlot`,
`Release`, `Return`, `Again` are `handleTriggerEvent` with `RingBuffer::pop`;
`PollWake`, `PollOther`, `WakeStart`, `Drain`, `IoDone` are the epoll phase and
`wake`. The mutex is not a variable: it is held at the values `Critical` of `pc`.
The loop thread posts too, from any callback. Bound: a second `quit` waits until
the loop has seen the first.

`Mailbox.tla` is a FIFO queue of `Capacity` callbacks and one that runs.
`EventLoop` implements it with `queue <- MailQueue` (the slots from `_getPos`
that are counted and not yet moved out) and `running <- current`.

`TimerQueue.tla` keeps the two maps, the id counter and each timer's fields, and
the loop thread's place. The clock ticks between any two steps. `_mutex` is held
in the places `Locked`; `removeTimer` from other threads waits for it.
`CallbackAddsTimer` is a timer callback that asks for the mutex its own thread
holds: the place `"stuck"` has no way out, as in the code. Bounds: `MaxTimers`
calls of `addTimer`, a clock up to `MaxTime`. `TimeOut` needs no tick of its own,
so the bounded clock does not hide a sleeping loop.

`AlarmClock.tla` is what the users of `addTimer` and `removeTimer` see: a function from
the alarms that are set to their times, and the one that rings. The earliest rings
first, when its time has come; it is then gone or set to a later time; one that was
taken off never rings. `TimerQueue` implements it with `due <- DueTimes` (the timers
that were added, not removed, and not run for the last time, each under the key
`removeTimer` would look for) and `ringing <- cur[2]`. The mapping does not look at
`_timers`: that the map holds exactly these is what has to be shown.

`RtspServer.tla` has the kernel (`files`, `watched`), the objects (`conn`,
`alive`), the maps of the server, of the scheduler and of the sessions, the
trigger queue, and the loop's place. Each request is one action with its reply:
`Reply` either succeeds or closes the connection, as `sendMessage` does.
`handleClose` and `handleCmdDescribe` are two steps each, cut where they take the
server's mutex, so that `removeMeidaSession` can come in between. `Release`
computes what the shared pointers dropped by a step destroy: sessions, RTP
connections, connections, and with them descriptors. `updateChannel` is modelled
with its bug-prone part: a descriptor found in `_channels` is modified, which the
kernel refuses when it does not watch it. Left out: bytes of requests and
replies, statistics, RTP over UDP beyond the one RTCP socket per track, a failed
`bind` in `setupRtpOverUdp`, more than one track.

`RtpSender.tla` follows one write queue. A message is `Parts` parts and the
socket takes whole parts, so a send can stop inside a message. `Request` and
`Play` are replies, `SendFrame` is a frame for all clients of the session,
`HandleWrite` is EPOLLOUT. A frame has one of the types of `media.h`, the default 0
("untyped") among them, which opens the gate as an I frame does. The interest in EPOLLOUT (`out`) is kept exactly as
the code does, including the inverted test of `sendRtpOverTcp`. Message numbers
go round modulo `MaxQueue + 2`: enough to tell a lost, repeated or displaced
message, because no more than `MaxQueue` wait in the queue and each part is
compared with its neighbour.

`BufferReader.tla` is `BufferReader` with the socket in front of it. What a peer
writes is a sequence of tokens: the text of a line, its CRLF, a packet of RTCP, the
end of the stream. A read takes any number of them that `readFd` has room for, so
a message arrives cut anywhere or together with the next. Lengths and limits
count tokens. The variables `split` and `closed` also record why: they let a
property tell a client that did nothing wrong from one whose request was cut.

`RequestReader.tla` is `handleRead`, `handleRtspRequest` and the parser of
`RtspRequest`, with the whole of a read in one action: one request line skipped or
taken, headers up to the last CRLF, the reply, `reset` and `retrieveAll`. The headers
of a request come in any order, and one may be missing: the CSeq, the header its method
needs, or a URL the server takes (`lacks` records which). `RtspPusher.tla` is `openUrl` with its callback, the
client's requests, `RtspResponse` and the bytes that earlier responses left behind
`_writerIndex`, which `strstr` may run into. `RtspReading.tla` composes both: the
same buffer, and `_connMode` decides whether the request or the response parser gets
what was read. Left out: `pushFrame` and `removeConnection` of the pusher, which are
those of the server without sessions, and the text of the SDP.

`MediaSources.tla` has no state: the loop that cuts a frame is a recursive function,
a packet is its own bytes and the range of the frame it carries, and the receiver's
side is the definition that the RFCs give. `MCRtpSender` asks for the frame back
(`FramesWhole`) where `RtpSender` sends one; a frame is one message there, however many
packets it is.

`V5Link.tla` has the encoder thread (`GetFrame`, `SendToClient`, `SendToNobody`,
`CloseClient`, `ForgetClient`), the accept loop (`Select`, `Accept`, `Assign`) and the
client. The threads of the server share `clientPid` and the descriptor table without
a lock, and `accept` takes the lowest free number. A record is two halves on the
wire, so that a send or a `recv` can take part of one; the receive buffer, the frame
box and `trycount` survive a reconnection where the code does not reset them.
`Killed` is SIGPIPE, which nobody ignores, and `Start` the loop of `resetIP.sh` that
starts the server again. `send` compares its result, not `errno`, with EINTR and
EAGAIN, so every failure closes the connection. `accept` never fails for want of
descriptors: `Fds` has more than the server can lose.

`MC*.tla` give the constants small values; `*Proofs.tla` hold the theorems.

## 4. Runs

| run | instance | what it shows |
|---|---|---|
| `event_loop` | 2 posting threads and a posting callback, 1 quitter, ring of 2, pipe of 3 bytes, reads of 2 | `SlotsDisjoint`, `NoLostWakeup`, the refinement `MailboxSpec`, and under fairness `Served` and `QuitStops` |
| `event_loop_race` | 1 posting thread and a callback | violation of `AcceptedIsQueued` (finding 1) |
| `timer_queue` | 3 timers, delays 1 and 2, clock to 4, callbacks that add | `NeverAgain`, `NoTaskNoTimeout`, and the refinement `AlarmSpec` |
| `timer_queue_live` | 2 timers, delays 0 and 2 | `OncePerPass`, `DueRuns` |
| `timer_queue_stuck` | 1 timer whose callback adds one | violation of `DueRuns` (finding 2) |
| `rtsp_server` | 2 connections, 3 descriptors, TCP and UDP, queue of 1 | `NoDangling`, `OwnDescriptor`, `Attended`, `ErasedOnce`, `CountsOnline` |
| `rtsp_server_live` | 2 connections, 1 descriptor, TCP and multicast, repeated SETUP, removals, queue of 1 | `OwnDescriptor`, `ErasedOnce`, `CountsOnline` with `removeMeidaSession` anywhere, and under fairness `Reaped`, `IdleClosed` |
| `rtsp_server_deaf` | a queued frame and removals | violation of `Attended` (finding 3) |
| `rtsp_server_count` | 2 sessions, a client that describes both | violation of `CountsOnline` (finding 4) |
| `rtp_sender` | queue of 2 messages, socket of 3 parts, messages of 2 parts; frames of 1 to 4260 bytes around the sizes where the number of packets changes, all NAL headers | `WholeMessages`, `ReplyHasInterest`, `FirstFrameOpens`, under fairness `Flushed`; `FramesWhole` |
| `rtsp_reading` | 2 requests of 5 kinds, one of which may lack a header or a good URL, 1 RTCP packet, pipelining; a handshake with 1 track; reads and buffers of 10 tokens, at most 4 unread in front of a line | `InBuffer`, `ServerInStep`, `ServerClosesForCause`, `InOrder`, `PusherWaits`, `OwnReply`, and under fairness `Recording` |
| `v5_link` | 2 descriptors, 3 halves in the sockets, frames of 2 records, every second one an I frame, 1 fault, 1 meeting of the threads | `BeginsWithI`, `OneClient`, `WholeFrames`, and under fairness `Watched` |

Each property is broken by a mutant of a mapped definition, kept next to it in the
module under the same name with a suffix (`Wake_NoByte`, `IntervalOf_NoClamp`).

Why the bounds are enough. A ring of two with three posters reaches full, empty,
wrapped, and two posters at one free place; a pipe of three bytes with reads of
two reaches the full pipe and a drain of several reads. Two delays and three
timers put timers before, at and after the time of a pass, and two at the same
time. One or two descriptors for two connections force reuse; a third leaves
room for a UDP socket beside them. A queue of one is full as soon as one frame
or erase waits, which is what makes the fallback timer run. A socket of one
message and a half always leaves a message half sent. The connections are
symmetric: they are told apart only by their state. Ten tokens hold one request with
its headers and a part of the next, so the reading side meets the full buffer, the
request cut at every place and two requests in one read. Four tokens for
`MaxMessage` are fewer than a request with its headers, so that `handleRead` throws
unread requests away as if they were RTCP (`RtspConnection.cpp:87`). The third request
line would only find what the second does, and the theorem has no bound on either. A frame of
one, two and three packets reaches every branch of the cutting. In the link two
records have a first and a last, three halves let a send stop inside a record, and
one fault spoils reassembly in every place it can.

Restrictions of the runs, each a switch of the module:
- `Redescribe` is on in `rtsp_server_count` only: a client that describes a
  second URL violates `CountsOnline`, which is that run's point.
- `Resetup` is off where UDP is allowed. With it TLC reaches a channel of a
  destroyed connection that is still registered (`RtspConnection.cpp:422`); no
  document of the repository says what a second SETUP does, so it is listed
  among the hazards and not among the findings.
- `Removals` is on in `rtsp_server_live` and `rtsp_server_deaf`. With it
  `Attended` and `NoDangling` do not hold, and the former run does not ask for them.
- `timer_queue` has no delay of 0: with one, `removeTimer` misses a repeating
  timer until its first expiry (`Timer.cpp:35`), and `NeverAgain`, `NoTaskNoTimeout`
  and `AlarmSpec` fail.
  The server's own delays are 1 ms and 60 s.
- `FirstFrameOpens` is about a client for whom the gate is still closed when it plays.
  The comment at `RtpConnection.cpp:249` says that the first frame sent is an I frame;
  that is not true of a client that plays after an earlier frame of the session has
  opened its gate, nor for frames whose type was left at the default 0
  (`media.h:35`, `example/rtsp_server.cpp:255`), and the property claims neither.
- `ServerInStep` excepts a client whose requests were cut or lack the header their
  method needs, or that sends RTCP: for these a whole request may stay unread in the
  buffer until more arrives.
- `ServerClosesForCause` names the causes: a method the server does not know, a URL it
  does not take, no CSeq, a request in pieces or behind RTCP.
- `OwnReply` lets a reply to a request without CSeq carry the CSeq of a later one,
  which is what the code does when both arrive in one read.
- `PusherWaits` is about responses that arrive whole. With half a response, or with
  the stale bytes behind one, the pusher goes on before the grant; only the order
  of its requests (`InOrder`) and the end of the handshake (`Recording`) are claimed then.
- `MaxMeets` of `v5_link` bounds how often a send has just failed while the accept
  loop is between `select` and the assignment. Without the bound the encoder thread
  can close every connection just accepted, for ever (`clientPid` is still the old
  number, which `accept` has just handed out again), and `Watched` fails.
- `WholeFrames` excepts a send that was cut by its time-out and a client that timed
  out in the middle of a frame: the time-out resets none of its buffers.

`CHECK_DEADLOCK FALSE` where the system may stop: after `quit`; with the clock at
its bound; with every peer gone or the loop blocked in the timers' mutex; with
all requests made or the connection closed; with the link at its bound of meetings.
`RtpSender` never stops, and its run checks for deadlock.

### Fairness

- `EventLoop`: threads run and a thread that keeps asking gets the mutex;
  callbacks make finitely many calls, hence strong fairness of the loop's steps.
  No timeout, other channel or call is assumed to happen. `QuitStops` assumes
  that the posters pause: the do-while of `handleTriggerEvent` is left only when
  the queue is seen empty.
- `TimerQueue`: the loop thread runs and the clock moves. Channels may never
  report anything.
- `RtspServer`: the loop thread runs, passes over queue and timers end (the
  encoder thread sleeps between frames; `PassEnds` is proved), due timers run
  (`DueRuns`). Nothing is assumed of peers or application threads.
- `RtpSender`: the encoder goes on producing frames, of whatever type, epoll's reports are
  handled, a peer reads or is closed in the end, a reset is noticed. The first
  is essential: because of the inverted test at `RtpConnection.cpp:291`, RTP
  packets left in the queue wait for the next frame, not for EPOLLOUT.
- `RtspReading`: the loop handles what was posted and what arrives, and the server a
  pusher talks to answers. Nothing is assumed of a client of the server.
- `V5Link`: the threads of the server, the script and the client run; a lost server
  is noticed by `recv` or by the client's five seconds. Strong fairness only for bad
  packages: bytes out of step are not taken for a good header for ever.

## 5. Proofs

All theorems hold for every value of the constants that satisfies the named
assumptions: sizes are positive, `NoEvent` is no event, bounds are naturals, and
- `InitialSize <= MaxBuffer`: a buffer does not start above the size at which
  `readFd` refuses to grow it (2048 and 10240, `xop/BufferReader.h:18` and `:98`);
- `"none"` is no method of `Methods`: it stands for a parser without a request;
- `MaxPayload - 4 < 8192`: the length of an access unit has 13 bits, and the code's
  1420 (`rtp.h:11`) is far below that.

`EventLoopProofs`. The inductive invariant `IInv` is `TypeOK` and
- `Mutex`: one thread at most is between lock and unlock;
- `Room`: a poster that passed the ring's own test still has room, because only
  posters fill it and the mutex admits one; the loop still has its callback,
  because only the loop takes;
- `Args`, `Called`: what is posted and what runs are callbacks;
- `Shape`: `_putPos` is `_getPos` plus the callbacks written, modulo the size, and
  exactly those slots are not empty. Neither `TypeOK` nor `SlotsDisjoint` is
  inductive without it.

From it: `TypeCorrect`, `RingSafe` (`SlotsDisjoint`), `ImplementsMailbox`
(`MailboxSpec`: `Commit` is `Post`, `TakeSlot` is `Take`, `Return` is `Finish`, every
other step stutters). `NeverSleepsOnWork` has its own invariant `WakeInv`: once the
queue was seen empty a new callback brings a byte, once `_shutdown` was read
`quit` does, and only the drain, which comes before both tests, takes bytes away.
`OneCallerIsSafe` is the other half of finding 1: with a single posting thread
`addTriggerEvent` never promises what it drops.

`TimerQueueProofs`. `PassInv` says that a timer has one place in the map and an
interval of at least 1, that the running timer is still its first entry, and
that what ran in this pass is due after it. `PassEnds` (`OncePerPass`, delay 0
included) and `TimerTypeCorrect` follow. `Filed` says that the map holds exactly
the registered timers, each under the key `removeTimer` will compute; it is
inductive only when no delay is 0, and gives `RemovedNeverRuns` (`NeverAgain`) and
`NoTaskNoTimeoutHolds`. With two small invariants more, that the loop has a timer at
hand only in a callback (`Idle`) and that the time of a pass has come (`InTime`), it also
gives `ImplementsAlarmClock` (`AlarmSpec`): `AddTimer` is `Set`, `RemoveTimer` is `Cancel` or,
for a timer that has run, a stutter, `Fire` is `Ring`, because the first of the map is
the earliest of the timers somebody expects, and `CallbackReturns` is `Stop`; the steps
of the mutex and of a pass stutter.

`RtpSenderProofs`. `SendInv` says that the last part read, the parts in the
kernel and the parts in the queue form one chain that ends with a whole message
whose successor is the next number. Sending moves the cut and leaves the chain,
reading drops a prefix, appending adds a message at the end. `StreamOfMessages`
(`WholeMessages`) follows; `SenderTypeCorrect` adds the count of queued packets,
`RepliesAreFlushed` (`ReplyHasInterest`) goes by client and by the parts that are
left. `StartsAtTheGate` (`FirstFrameOpens`): what a client that waits for its first frame
gets first is a frame that opens the gate (type 0 or I), because no other frame passes
it and nothing is queued before.

`RtspReadingProofs`. `IndicesInBuffer` (`InBuffer`) rests on a lemma about the growth
of the buffer. `RepliesMatch` (`OwnReply`) has no condition on what a client sends, and
holds with the drop of `RtspConnection.cpp:87` in the model. Its invariant says that
every request line in the buffer or on the wire is followed first by its own CSeq, unless
its request has none (`Numbered`), that lines come in the order of their requests with
no CSeq of an earlier one behind them (`Ordered`), and that between a line and its CSeq
the parser finds that CSeq next, or one of a later request if there is none
(`ParserAt`). While a line has been taken and its CSeq is still to come,
what is left unread is at most the start of one line, which is shorter than the limit, so
the drop never takes the number the parser waits for; anywhere else it takes requests
whole or from their front. Only a request without CSeq is answered with
a later number. `PusherInOrder` (`InOrder`) ties
the requests sent to the method of the last.

`RtspSessionProofs` has the other half of the reading side: what a peer that
behaves can rely on. `ServerSession` says that, as long as nothing was cut and no RTCP
sent, what is on the wire is a sequence of whole requests (`WholeRequests`: each
with its CSeq and what its method needs, unless `lacks` says otherwise, and its end
before the next message), that the buffer is empty and the parser between two requests
whenever the loop is, or waiting for a header that a request lacked (`Ready`),
and that a client that waits has one request on the way or the reply to all it has
sent (`Turn`). A read that ends where a request does then takes all of one, so
`ServerStaysInStep` (`ServerInStep`) follows, and so does `ServerClosesOnlyForCause`
(`ServerClosesForCause`): a whole request can only be refused for its method, its URL or
a missing CSeq, and a buffer that is empty before each read never fills up for a request. `PusherSession`
is the mirror image: at most one whole response is on the way, to the last request
sent (`Responded`), and the next step is the server's, the pusher's, or nobody's
(`Waiting`). It gives `PusherTakesTurns` (`PusherWaits`).

`V5LinkProofs`. `ConnectionBeginsWithI` (`BeginsWithI`): while a connection accepted in
a gap has been sent nothing, `isFirst` is set or the next part is a header.
`OneClientAtATime` (`OneClient`) rests on `Reused`: no descriptor below `clientPid` is
free, so that `accept` returns the number that was just closed; and on `OneConnection`:
the client's connection is the last one waiting or the one in `clientPid`.
`DecoderGetsWholeFrames` (`WholeFrames`) has the invariant `FramesInv`, which speaks of
a link that is not `spoilt`: the halves that the client has saved and those on the wire
are pairs of whole records (`Pairs`); these, with the record the encoder is sending
on this connection, form a chain in which each record is followed by the next of its
frame or by the first of another (`Promised`); and the client can go on with the first
of them from what is in its box (`Takes`). Two points make it inductive. A connection may
begin in the middle of a frame, because `accept` returns the number the encoder still
has: then the client is at rest (`Rested`), with nothing saved and a box that is full
or given up, and the rest of a frame behind a full box either completes data that began
on the connection before, or never gives the length that was announced (`Garbled`).
And a client that leaves between two frames may keep a full box, which the next first
record clears.

`MediaSourcesProofs`. `FragmentsFrom` is a recursive function, and what a recursive
function computes is beyond the library's induction theorems here; the argument
goes by a least counterexample instead. `LoopEnds` shows that some function satisfies
the equation of the while loop (the least number of remaining bytes for which none
does cannot exist), so the one that CHOOSE picks does (`LoopRuns`). `LoopCuts` shows
in the same way that from wherever the loop starts its packets are a `Cut`: not empty,
no longer than a step, joined end to end, the last one ending the frame. From `Cut`
follow the order and the marker (`Covers`); the start and end bits and the header come
from the arithmetic of `FuHeader` and `Indicator` (`FragmentReads`). `VideoFramesWhole`
and `AudioFramesWhole` are about the packets alone, `SourcesKeepFrames` (`FramesWhole`)
about the steps of the server that send them.

`RtspServerProofs`. Three invariants, one above the other.
- `TypeInv` gives `ServerTypeCorrect`.
- `Lifetime` says who holds what: the connections filed by the server (`Filed`), those
  not accepted yet (`Fresh`), the RTCP sockets (`OwnRtcp`), a connection in the middle of
  `handleClose` or DESCRIBE (`Midway`), the clients of a session (`Members`, `Joined`) and
  the erases on their way (`Erases`). The part that is easy to miss is `Late`: a closed
  connection is still a client of a session only if that session was removed first,
  and then a frame for it can be queued, but only ahead of the erase, because the
  queue is FIFO. From it follow `DescriptorsOwned`, `ErasesMatch` and `CountsExact`, with
  removals at any time, under `~Redescribe`; `rtsp_server_count` shows that the
  condition is needed.
- `Hearing` says that the kernel watches, and the scheduler has a channel for, exactly
  the sockets of the open connections. From it `NothingDangles` and `EveryoneAttended`
  follow under `Settled`: no session is removed and no UDP track is set up twice.
  `rtsp_server_deaf` shows what happens otherwise.

Every invariant and every action property of a passing run is proved, and so are the
two refinements. Only model-checked: all liveness (`Served`, `QuitStops`, `DueRuns`,
`Reaped`, `IdleClosed`, `Flushed`, `Recording`, `Watched`), which needs fairness and
ENABLED and is out of the prover's reach, and the violations. What is proved of the
liveness arguments is the safety part they stand on: a callback in the queue keeps the
loop awake (`NeverSleepsOnWork`), a pass over the timers visits each once
(`PassEnds`), a reply that waits has its interest in EPOLLOUT (`RepliesAreFlushed`),
and a closed connection has its erase on the way (`ErasesMatch`).

## 6. Findings

1. `EventLoop.cpp:90`: the limit is tested before the mutex is taken and the
   result of `push` is ignored, so `addTriggerEvent` can return true for a callback
   that is dropped (`event_loop_race`). `removeConnection` relies on that result.
2. `Timer.cpp:74`: a timer callback that adds a timer blocks on the mutex its own
   thread holds. The heartbeat does so when it closes a connection while the
   trigger queue is full (`timer_queue_stuck`; `"blocked"` in `RtspServer`).
3. `RtpConnection.cpp:294`: a frame queued before `removeMeidaSession` registers the
   channel of a connection closed after it again; the next client with that
   descriptor is never heard (`rtsp_server_deaf`).
4. `RtspConnection.cpp:127`: a client that described two URLs leaves only the second
   session (`rtsp_server_count`).

Met on the way and listed as hazards, because the repository states nothing they
contradict: the second UDP SETUP (above); closed descriptors kept after a failed
bind (`RtpConnection.cpp:86`); the RTP header written into a packet that another
client still has queued (`MediaSession.cpp:55`); the timer of delay 0 (above); the
I frame gate, which earlier frames or a frame of type 0 may have opened
(`RtpConnection.cpp:227`); a request cut
before its CSeq, which closes the connection (`RtspMessage.cpp:137`), unread requests
thrown away as RTCP (`RtspConnection.cpp:87`), and a second
request in one read that is never answered (`RtspConnection.cpp:192`); half a response
that counts as one (`RtspConnection.cpp:209`); the forgotten descriptor and SIGPIPE of the
link.

## 7. Not modelled

- `remote_control`: a bridge between a UART and one TCP client, next in the plan; its
  hazards are listed in `PROJECT.json`.
- `TcpServer` and `TcpConnection`: nothing in the repository instantiates them.
  `SelectTaskScheduler`: the Linux build uses epoll. `MemoryManager`: the calls are
  commented out. `TaskQueue`, `H264Parser`: nobody uses them.
- The link over UDP: lost and reordered datagrams are not in `V5Link`. The local
  programs of the TCP link: its forerunners, with the same threads.
- The vendor SDK and the third-party firmware (`vecoo`, `media_server`), which are by
  far the largest part of the tree and not the feed's own code; the V5 RTSP programs and
  the loop-back sample, which set up vendor libraries that are there as binaries only;
  `i2c-gpio-custom`, which does its work once at load time; the build files.
- Of requests: a CSeq that is no number, and a line longer than
  `MAX_RTSP_MESSAGE_SIZE` bytes.
- Of the modelled parts: `Timer::start`, `stop` and `sleep`, the event masks of
  channels, the texts of SDP and replies, the clocks of time stamps, RTP statistics,
  UDP packets, and data races inside `std::map` (`RtspServer.cpp:105`, `RtspPusher.cpp:79`),
  for which the models take the value before or after the change.
