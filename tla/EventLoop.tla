----------------------------- MODULE EventLoop -----------------------------
(***************************************************************************)
(* xop::EventLoop with its RingBuffer<TriggerEvent> and its wake-up Pipe:  *)
(* threads post callbacks with addTriggerEvent, stop the loop with quit,   *)
(* and one thread runs loop().  The steps are the accesses to shared       *)
(* memory: the atomic _numDatas, the ring's slots, the mutex, the pipe and *)
(* the atomic _shutdown; _putPos is touched under the mutex only and       *)
(* _getPos by the loop thread only, so each moves with its slot.           *)
(***************************************************************************)
EXTENDS Integers

CONSTANTS Callers,    \* threads that call addTriggerEvent (Loop: from a callback)
          Quitters,   \* threads that call quit
          Loop,       \* the thread inside loop()
          Events,     \* the callbacks
          NoEvent,    \* an empty std::function
          Capacity,   \* kMaxTriggetEvents
          PipeSize,   \* bytes the wake-up pipe holds before write fails
          ReadSize    \* bytes wake() asks for in one read

ASSUME NoEventAssumption == NoEvent \notin Events
ASSUME SizesAssumption ==
  /\ Capacity \in Nat \ {0}
  /\ PipeSize \in Nat \ {0}
  /\ ReadSize \in Nat \ {0}

Threads == Callers \cup Quitters \cup {Loop}

VARIABLES buffer,     \* RingBuffer::_buffer
          putPos,     \* RingBuffer::_putPos
          getPos,     \* RingBuffer::_getPos
          numDatas,   \* RingBuffer::_numDatas, atomic
          pipe,       \* bytes in the wake-up pipe
          shutdown,   \* _shutdown, atomic
          pc,         \* where each thread is in addTriggerEvent or quit
          arg,        \* the callback each thread is posting
          stored,     \* what the ring's push returned to addTriggerEvent
          loopPc,     \* where the loop thread is in loop()
          current,    \* the local `callback` of handleTriggerEvent
          ready       \* epoll_wait reported the wake-up channel

ringVars == <<buffer, putPos, getPos, numDatas>>
callVars == <<pc, arg, stored>>
loopVars == <<loopPc, current, ready>>
vars == <<ringVars, pipe, shutdown, callVars, loopVars>>

\* The places of addTriggerEvent at which _mutex is held.
Critical == {"push", "store", "commit", "wake"}
CallPcs  == Critical \cup {"idle", "lock", "quitWake"}
LoopPcs  == {"start", "while", "pop", "take", "release", "run", "again",
             "timers", "poll", "io", "drain", "stopped"}

Init ==
  /\ buffer = [i \in 0 .. Capacity-1 |-> NoEvent]
  /\ putPos = 0 /\ getPos = 0 /\ numDatas = 0
  /\ pipe = 0 /\ shutdown = FALSE
  /\ pc = [p \in Threads |-> "idle"]
  /\ arg = [p \in Threads |-> NoEvent]
  /\ stored = [p \in Threads |-> FALSE]
  /\ loopPc = "start" /\ current = NoEvent /\ ready = FALSE

-----------------------------------------------------------------------------
\* Mutation: the ring position never wraps.
Advance_NoWrap(pos) == pos + 1

\* RingBuffer::add
Advance(pos) == IF pos + 1 = Capacity THEN 0 ELSE pos + 1

\* A write of one byte to the non-blocking pipe; a full pipe refuses it and
\* nobody looks at the result.
WritePipe == pipe' = IF pipe < PipeSize THEN pipe + 1 ELSE pipe

\* A thread can enter addTriggerEvent or quit.  The loop thread is in user
\* code inside a callback of the queue, of a timer or of a channel.
CanCall(p) ==
  /\ pc[p] = "idle"
  /\ p = Loop => loopPc \in {"run", "timers", "io"}

-----------------------------------------------------------------------------
(* addTriggerEvent *)

\* size() is read without the mutex; at the limit the call returns false and
\* changes nothing.
Call(p) ==
  /\ CanCall(p)
  /\ numDatas < Capacity
  /\ \E e \in Events : arg' = [arg EXCEPT ![p] = e]
  /\ pc' = [pc EXCEPT ![p] = "lock"]
  /\ UNCHANGED <<ringVars, pipe, shutdown, stored, loopVars>>

\* Mutation: the push is not protected by the mutex.
Lock_NoMutex(p) ==
  /\ pc[p] = "lock"
  /\ pc' = [pc EXCEPT ![p] = "push"]
  /\ UNCHANGED <<ringVars, pipe, shutdown, arg, stored, loopVars>>

\* std::lock_guard
Lock(p) ==
  /\ pc[p] = "lock"
  /\ \A q \in Threads : pc[q] \notin Critical
  /\ pc' = [pc EXCEPT ![p] = "push"]
  /\ UNCHANGED <<ringVars, pipe, shutdown, arg, stored, loopVars>>

\* Mutation: the full test inside the ring is off by one.
PushTest_OffByOne(p) ==
  /\ pc[p] = "push"
  /\ stored' = [stored EXCEPT ![p] = numDatas <= Capacity]
  /\ pc' = [pc EXCEPT ![p] = IF numDatas <= Capacity THEN "store" ELSE "wake"]
  /\ UNCHANGED <<ringVars, pipe, shutdown, arg, loopVars>>

\* pushData compares _numDatas with the capacity; a false result goes nowhere.
PushTest(p) ==
  /\ pc[p] = "push"
  /\ stored' = [stored EXCEPT ![p] = numDatas < Capacity]
  /\ pc' = [pc EXCEPT ![p] = IF numDatas < Capacity THEN "store" ELSE "wake"]
  /\ UNCHANGED <<ringVars, pipe, shutdown, arg, loopVars>>

\* _buffer[_putPos] = data; add(_putPos)
Store(p) ==
  /\ pc[p] = "store"
  /\ buffer' = [buffer EXCEPT ![putPos] = arg[p]]
  /\ putPos' = Advance(putPos)
  /\ pc' = [pc EXCEPT ![p] = "commit"]
  /\ UNCHANGED <<getPos, numDatas, pipe, shutdown, arg, stored, loopVars>>

\* _numDatas++
Commit(p) ==
  /\ pc[p] = "commit"
  /\ numDatas' = numDatas + 1
  /\ pc' = [pc EXCEPT ![p] = "wake"]
  /\ UNCHANGED <<buffer, putPos, getPos, pipe, shutdown, arg, stored, loopVars>>

\* Mutation: the loop is not woken for a new callback.
Wake_NoByte(p) ==
  /\ pc[p] = "wake"
  /\ pc' = [pc EXCEPT ![p] = "idle"]
  /\ arg' = [arg EXCEPT ![p] = NoEvent]
  /\ stored' = [stored EXCEPT ![p] = FALSE]
  /\ UNCHANGED <<ringVars, pipe, shutdown, loopVars>>

\* The byte for the loop thread, then unlock and return true.
Wake(p) ==
  /\ pc[p] = "wake"
  /\ WritePipe
  /\ pc' = [pc EXCEPT ![p] = "idle"]
  /\ arg' = [arg EXCEPT ![p] = NoEvent]
  /\ stored' = [stored EXCEPT ![p] = FALSE]
  /\ UNCHANGED <<ringVars, shutdown, loopVars>>

(* quit *)

\* Bound: nobody calls quit again while the loop has not seen the first one (an
\* endless series of quits would keep the drain loop of wake() busy).
Quit(p) ==
  /\ CanCall(p)
  /\ ~shutdown
  /\ shutdown' = TRUE
  /\ pc' = [pc EXCEPT ![p] = "quitWake"]
  /\ UNCHANGED <<ringVars, pipe, arg, stored, loopVars>>

\* Mutation: quit sets the flag and does not wake the loop.
QuitWake_NoByte(p) ==
  /\ pc[p] = "quitWake"
  /\ pc' = [pc EXCEPT ![p] = "idle"]
  /\ UNCHANGED <<ringVars, pipe, shutdown, arg, stored, loopVars>>

QuitWake(p) ==
  /\ pc[p] = "quitWake"
  /\ WritePipe
  /\ pc' = [pc EXCEPT ![p] = "idle"]
  /\ UNCHANGED <<ringVars, shutdown, arg, stored, loopVars>>

-----------------------------------------------------------------------------
(* loop, handleTriggerEvent, EpollTaskScheduler::handleEvent, wake *)

\* loop() clears _shutdown: a quit that came earlier is forgotten.
Start ==
  /\ loopPc = "start"
  /\ shutdown' = FALSE
  /\ loopPc' = "while"
  /\ UNCHANGED <<ringVars, pipe, callVars, current, ready>>

TestShutdown ==
  /\ loopPc = "while"
  /\ loopPc' = IF shutdown THEN "stopped" ELSE "pop"
  /\ UNCHANGED <<ringVars, pipe, shutdown, callVars, current, ready>>

\* RingBuffer::pop looks at _numDatas ...
PopTest ==
  /\ loopPc = "pop"
  /\ loopPc' = IF numDatas > 0 THEN "take" ELSE "again"
  /\ UNCHANGED <<ringVars, pipe, shutdown, callVars, current, ready>>

\* ... moves the slot out and advances _getPos ...
TakeSlot ==
  /\ loopPc = "take"
  /\ current' = buffer[getPos]
  /\ buffer' = [buffer EXCEPT ![getPos] = NoEvent]
  /\ getPos' = Advance(getPos)
  /\ loopPc' = "release"
  /\ UNCHANGED <<putPos, numDatas, pipe, shutdown, callVars, ready>>

\* ... and gives the place back: _numDatas--
Release ==
  /\ loopPc = "release"
  /\ numDatas' = numDatas - 1
  /\ loopPc' = "run"
  /\ UNCHANGED <<buffer, putPos, getPos, pipe, shutdown, callVars, current, ready>>

\* callback() returns.
Return ==
  /\ loopPc = "run"
  /\ pc[Loop] = "idle"
  /\ current' = NoEvent
  /\ loopPc' = "again"
  /\ UNCHANGED <<ringVars, pipe, shutdown, callVars, ready>>

\* Mutation: one callback per turn of the loop.
Again_Once ==
  /\ loopPc = "again"
  /\ loopPc' = "timers"
  /\ UNCHANGED <<ringVars, pipe, shutdown, callVars, current, ready>>

\* while(_triggerEvents->size() > 0)
Again ==
  /\ loopPc = "again"
  /\ loopPc' = IF numDatas > 0 THEN "pop" ELSE "timers"
  /\ UNCHANGED <<ringVars, pipe, shutdown, callVars, current, ready>>

\* handleTimerEvent and getTimeRemaining return.
TimersDone ==
  /\ loopPc = "timers"
  /\ pc[Loop] = "idle"
  /\ loopPc' = "poll"
  /\ UNCHANGED <<ringVars, pipe, shutdown, callVars, current, ready>>

\* epoll_wait returns because the wake-up pipe is readable.
PollWake ==
  /\ loopPc = "poll"
  /\ pipe > 0
  /\ ready' = TRUE
  /\ loopPc' = "io"
  /\ UNCHANGED <<ringVars, pipe, shutdown, callVars, current>>

\* epoll_wait returns for a timeout, a signal or another channel.
PollOther ==
  /\ loopPc = "poll"
  /\ pipe = 0
  /\ loopPc' = "io"
  /\ UNCHANGED <<ringVars, pipe, shutdown, callVars, current, ready>>

\* The wake-up channel's turn among the reported ones: wake() starts.
WakeStart ==
  /\ loopPc = "io"
  /\ ready
  /\ pc[Loop] = "idle"
  /\ ready' = FALSE
  /\ loopPc' = "drain"
  /\ UNCHANGED <<ringVars, pipe, shutdown, callVars, current>>

\* while(read(event, 10) > 0)
Drain ==
  /\ loopPc = "drain"
  /\ pipe' = IF pipe > ReadSize THEN pipe - ReadSize ELSE 0
  /\ loopPc' = IF pipe > 0 THEN "drain" ELSE "io"
  /\ UNCHANGED <<ringVars, shutdown, callVars, current, ready>>

\* All reported channels are handled.
IoDone ==
  /\ loopPc = "io"
  /\ ~ready
  /\ pc[Loop] = "idle"
  /\ loopPc' = "while"
  /\ UNCHANGED <<ringVars, pipe, shutdown, callVars, current, ready>>

-----------------------------------------------------------------------------
Finish(p) == PushTest(p) \/ Store(p) \/ Commit(p) \/ Wake(p) \/ QuitWake(p)

LoopStep == \/ Start \/ TestShutdown \/ PopTest \/ TakeSlot \/ Release
            \/ Return \/ Again \/ TimersDone \/ PollWake \/ WakeStart
            \/ Drain \/ IoDone

Next == \/ \E p \in Callers : Call(p)
        \/ \E p \in Quitters : Quit(p)
        \/ \E p \in Threads : Lock(p) \/ Finish(p)
        \/ LoopStep
        \/ PollOther

Spec == Init /\ [][Next]_vars

\* The scheduler runs every thread that can run and hands the mutex to every
\* thread that keeps asking.  LoopStep is strong because callbacks return: one
\* that calls addTriggerEvent or quit makes finitely many calls.  Nothing makes
\* a timeout or another channel happen, nor a thread call.
Fairness == /\ SF_vars(LoopStep)
            /\ \A p \in Threads : WF_vars(Finish(p)) /\ SF_vars(Lock(p))

FairSpec == Spec /\ Fairness

-----------------------------------------------------------------------------
(* Properties *)

TypeOK ==
  /\ buffer \in [0 .. Capacity-1 -> Events \cup {NoEvent}]
  /\ putPos \in 0 .. Capacity-1
  /\ getPos \in 0 .. Capacity-1
  /\ numDatas \in 0 .. Capacity
  /\ pipe \in 0 .. PipeSize
  /\ shutdown \in BOOLEAN
  /\ pc \in [Threads -> CallPcs]
  /\ arg \in [Threads -> Events \cup {NoEvent}]
  /\ stored \in [Threads -> BOOLEAN]
  /\ loopPc \in LoopPcs
  /\ current \in Events \cup {NoEvent}
  /\ ready \in BOOLEAN

\* The lock-free half of the ring is safe: the slot a poster is about to write
\* was emptied by the loop, and the slot the loop is about to move out holds a
\* callback that was completely written (RingBuffer::pushData against pop).
SlotsDisjoint ==
  /\ \A p \in Threads : pc[p] = "store" => buffer[putPos] = NoEvent
  /\ loopPc = "take" => buffer[getPos] # NoEvent

\* The loop never sleeps on work: while it is in epoll_wait (or about to be)
\* and the queue holds a callback or quit was called, a byte is in the pipe or
\* the thread that owes it is still inside its call.
NoLostWakeup ==
  loopPc \in {"timers", "poll"} /\ (numDatas > 0 \/ shutdown) =>
    pipe > 0 \/ \E p \in Threads : pc[p] \in {"wake", "quitWake"}

\* addTriggerEvent returns true only for a callback that is in the queue.
AcceptedIsQueued == \A p \in Threads : pc[p] = "wake" => stored[p]

\* Every callback that reaches the ring is eventually executed, unless quit stops
\* the loop first.
Served ==
  \A e \in Events :
    (\E p \in Threads : pc[p] = "commit" /\ arg[p] = e)
      ~> (current = e \/ loopPc = "stopped")

\* quit stops a loop that has started, once the other threads stop posting (a
\* poster that keeps the queue non-empty keeps handleTriggerEvent's do-while
\* going and quit is not seen).
QuitStops ==
  <>[](\A p \in Threads : pc[p] = "idle") =>
    ((shutdown /\ loopPc # "start") ~> (loopPc = "stopped"))

-----------------------------------------------------------------------------
(* Refinement: the callbacks that are committed and not yet moved out. *)

\* The i-th slot from _getPos on.
SlotAt(i) == IF getPos + i < Capacity THEN getPos + i ELSE getPos + i - Capacity

Count == IF loopPc = "release" THEN numDatas - 1 ELSE numDatas

MailQueue == [i \in 1 .. Count |-> buffer[SlotAt(i - 1)]]

Mail == INSTANCE Mailbox WITH queue <- MailQueue, running <- current

\* Each callback the ring accepts is executed at most once, in the order in
\* which the posts took effect, and never two at a time.
MailboxSpec == Mail!Spec
=============================================================================
