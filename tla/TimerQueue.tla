----------------------------- MODULE TimerQueue -----------------------------
(***************************************************************************)
(* xop::TimerQueue and the part of EventLoop::loop that drives it.  Timers *)
(* are added before loop() runs and by callbacks of the loop thread, and   *)
(* removed by any thread.  handleTimerEvent holds _mutex, which is not     *)
(* recursive, for a whole pass and runs the timer callbacks under it.      *)
(***************************************************************************)
EXTENDS Integers, FiniteSets

CONSTANTS Delays,        \* the ms given to addTimer
          MaxTimers,     \* bound: calls of addTimer
          MaxTime,       \* bound: the clock
          CallbackAdds   \* a timer callback may call addTimer

ASSUME DelaysAssumption == Delays \subseteq Nat
ASSUME BoundsAssumption == MaxTimers \in Nat /\ MaxTime \in Nat
ASSUME CallbackAddsAssumption == CallbackAdds \in BOOLEAN

Ids == 1 .. MaxTimers
NoTimer == <<0, 0>>

VARIABLES now,           \* steady_clock, in ms
          timers,        \* the keys <<timeout, id>> of _timers
          repeatTimers,  \* the keys of _repeatTimers
          lastTimerId,   \* _lastTimerId
          handle,        \* first component of the TimerId returned for each id
          interval,      \* Timer::_interval
          repeating,     \* Timer::_isRepeat
          nextTimeout,   \* Timer::_nextTimeout
          loopPc,        \* where the loop thread is
          timePoint,     \* the time read by handleTimerEvent
          cur,           \* _timers.begin() while its callback runs
          wakeAt,        \* when epoll_wait times out, -1 for never
          spent,         \* history: ids removed, and one-shots that ran
          ran            \* history: ids run in this pass

timerVars == <<timers, repeatTimers, lastTimerId, handle, interval,
               repeating, nextTimeout>>
loopVars  == <<loopPc, timePoint, cur, wakeAt>>
vars == <<now, timerVars, loopVars, spent, ran>>

\* The places at which the loop thread holds _mutex.
Locked  == {"pass", "callback", "stuck"}
LoopPcs == Locked \cup {"before", "callbacks", "test", "lock", "remaining", "wait"}

Init ==
  /\ now = 0
  /\ timers = {} /\ repeatTimers = {} /\ lastTimerId = 0
  /\ handle = [i \in Ids |-> 0]
  /\ interval = [i \in Ids |-> 0]
  /\ repeating = [i \in Ids |-> FALSE]
  /\ nextTimeout = [i \in Ids |-> 0]
  /\ loopPc = "before" /\ timePoint = 0 /\ cur = NoTimer /\ wakeAt = -1
  /\ spent = {} /\ ran = {}

-----------------------------------------------------------------------------
\* Mutation: the map is ordered by the numbers of the timers.
Before_IdFirst(s, t) == s[2] <= t[2]

\* The order of std::map<TimerId, ...>.
Before(s, t) == s[1] < t[1] \/ (s[1] = t[1] /\ s[2] <= t[2])

\* t is _timers.begin().
IsBegin(t) == t \in timers /\ \A u \in timers : Before(t, u)

\* Mutation: the interval is taken as it is given.
IntervalOf_NoClamp(ms) == ms

\* Timer::Timer: an interval of 0 becomes 1.
IntervalOf(ms) == IF ms = 0 THEN 1 ELSE ms

-----------------------------------------------------------------------------
(* addTimer and removeTimer *)

\* Mutation: the counter is incremented after it is read.
AddTimer_PostIncrement(ms, repeat) ==
  /\ loopPc \in {"before", "callbacks"}
  /\ lastTimerId < MaxTimers
  /\ LET id == lastTimerId IN
       /\ lastTimerId' = id + 1
       /\ handle' = [handle EXCEPT ![id] = now + ms]
       /\ interval' = [interval EXCEPT ![id] = IntervalOf(ms)]
       /\ repeating' = [repeating EXCEPT ![id] = repeat]
       /\ nextTimeout' = [nextTimeout EXCEPT ![id] = now + IntervalOf(ms)]
       /\ repeatTimers' = IF repeat THEN repeatTimers \cup {id} ELSE repeatTimers
       /\ timers' = timers \cup {<<now + ms, id>>}
  /\ UNCHANGED <<now, loopVars, spent, ran>>

\* Before loop(), or in a callback of the trigger queue or of a channel.
AddTimer(ms, repeat) ==
  /\ loopPc \in {"before", "callbacks"}
  /\ lastTimerId < MaxTimers
  /\ LET id == lastTimerId + 1 IN
       /\ lastTimerId' = id
       /\ handle' = [handle EXCEPT ![id] = now + ms]
       /\ interval' = [interval EXCEPT ![id] = IntervalOf(ms)]
       /\ repeating' = [repeating EXCEPT ![id] = repeat]
       /\ nextTimeout' = [nextTimeout EXCEPT ![id] = now + IntervalOf(ms)]
       /\ repeatTimers' = IF repeat THEN repeatTimers \cup {id} ELSE repeatTimers
       /\ timers' = timers \cup {<<now + ms, id>>}
  /\ UNCHANGED <<now, loopVars, spent, ran>>

\* Mutation: a repeating timer is looked up under the TimerId that addTimer
\* returned.
RemoveTimer_ByHandle(id) ==
  /\ id <= lastTimerId
  /\ loopPc \notin Locked
  /\ repeatTimers' = repeatTimers \ {id}
  /\ timers' = timers \ {<<handle[id], id>>}
  /\ spent' = spent \cup {id}
  /\ UNCHANGED <<now, lastTimerId, handle, interval, repeating, nextTimeout,
                 loopVars, ran>>

\* Any thread, once it gets the mutex.
RemoveTimer(id) ==
  /\ id <= lastTimerId
  /\ loopPc \notin Locked
  /\ repeatTimers' = repeatTimers \ {id}
  /\ timers' = timers \ {<<IF id \in repeatTimers THEN nextTimeout[id]
                                                  ELSE handle[id], id>>}
  /\ spent' = spent \cup {id}
  /\ UNCHANGED <<now, lastTimerId, handle, interval, repeating, nextTimeout,
                 loopVars, ran>>

-----------------------------------------------------------------------------
(* The loop thread *)

\* loop() is entered, or the callbacks of one turn are done.
EnterTimers ==
  /\ loopPc \in {"before", "callbacks"}
  /\ loopPc' = "test"
  /\ UNCHANGED <<now, timerVars, timePoint, cur, wakeAt, spent, ran>>

\* handleTimerEvent looks at both maps before it takes the mutex.
TestEmpty ==
  /\ loopPc = "test"
  /\ loopPc' = IF timers # {} \/ repeatTimers # {} THEN "lock" ELSE "remaining"
  /\ UNCHANGED <<now, timerVars, timePoint, cur, wakeAt, spent, ran>>

\* The mutex, then the time of this pass.
BeginPass ==
  /\ loopPc = "lock"
  /\ timePoint' = now
  /\ ran' = {}
  /\ loopPc' = "pass"
  /\ UNCHANGED <<now, timerVars, cur, wakeAt, spent>>

\* The first timer is due: its callback is entered.
Fire ==
  /\ loopPc = "pass"
  /\ \E t \in timers : IsBegin(t) /\ t[1] <= timePoint /\ cur' = t
  /\ loopPc' = "callback"
  /\ UNCHANGED <<now, timerVars, timePoint, wakeAt, spent, ran>>

\* Nothing (more) is due: unlock.
EndPass ==
  /\ loopPc = "pass"
  /\ \A t \in timers : t[1] > timePoint
  /\ loopPc' = "remaining"
  /\ UNCHANGED <<now, timerVars, timePoint, cur, wakeAt, spent, ran>>

\* A repeating timer is moved to its next timeout, counted from the time of the
\* pass ...
Reschedule ==
  LET id == cur[2]  next == timePoint + interval[cur[2]] IN
    /\ repeating[id]
    /\ nextTimeout' = [nextTimeout EXCEPT ![id] = next]
    /\ timers' = (timers \ {cur}) \cup {<<next, id>>}
    /\ UNCHANGED spent

\* Mutation: a one-shot timer stays in the map.
Erase_Forgotten ==
  /\ ~repeating[cur[2]]
  /\ spent' = spent \cup {cur[2]}
  /\ UNCHANGED <<timers, nextTimeout>>

\* ... any other is erased.
Erase ==
  /\ ~repeating[cur[2]]
  /\ timers' = timers \ {cur}
  /\ spent' = spent \cup {cur[2]}
  /\ UNCHANGED nextTimeout

CallbackReturns ==
  /\ loopPc = "callback"
  /\ Reschedule \/ Erase
  /\ ran' = ran \cup {cur[2]}
  /\ cur' = NoTimer
  /\ loopPc' = "pass"
  /\ UNCHANGED <<now, repeatTimers, lastTimerId, handle, interval, repeating,
                 timePoint, wakeAt>>

\* A timer callback calls addTimer: the thread asks for the mutex it holds.
\* (RtspServer's heartbeat does, through handleClose and removeConnection, when
\* the trigger queue is full.)
CallbackAddsTimer ==
  /\ loopPc = "callback"
  /\ CallbackAdds
  /\ loopPc' = "stuck"
  /\ UNCHANGED <<now, timerVars, timePoint, cur, wakeAt, spent, ran>>

\* Mutation: the remaining time is not looked at.
StartWait_Forever ==
  /\ loopPc = "remaining"
  /\ wakeAt' = -1
  /\ loopPc' = "wait"
  /\ UNCHANGED <<now, timerVars, timePoint, cur, spent, ran>>

\* epoll_wait is entered with getTimeRemaining() as its timeout: -1 without
\* timers, 0 when the first one is overdue.
StartWait ==
  /\ loopPc = "remaining"
  /\ \/ timers = {} /\ wakeAt' = -1
     \/ \E t \in timers : IsBegin(t) /\ wakeAt' = IF t[1] > now THEN t[1] ELSE now
  /\ loopPc' = "wait"
  /\ UNCHANGED <<now, timerVars, timePoint, cur, spent, ran>>

\* epoll_wait times out.
TimeOut ==
  /\ loopPc = "wait"
  /\ wakeAt # -1 /\ now >= wakeAt
  /\ loopPc' = "callbacks"
  /\ UNCHANGED <<now, timerVars, timePoint, cur, wakeAt, spent, ran>>

\* epoll_wait returns for a channel.
ChannelEvent ==
  /\ loopPc = "wait"
  /\ loopPc' = "callbacks"
  /\ UNCHANGED <<now, timerVars, timePoint, cur, wakeAt, spent, ran>>

\* Time passes, wherever the threads are.
Tick ==
  /\ now < MaxTime
  /\ now' = now + 1
  /\ UNCHANGED <<timerVars, loopVars, spent, ran>>

-----------------------------------------------------------------------------
LoopStep == \/ EnterTimers \/ TestEmpty \/ BeginPass \/ Fire \/ EndPass
            \/ CallbackReturns \/ StartWait \/ TimeOut

Next == \/ \E ms \in Delays, repeat \in BOOLEAN : AddTimer(ms, repeat)
        \/ \E id \in Ids : RemoveTimer(id)
        \/ LoopStep
        \/ CallbackAddsTimer
        \/ ChannelEvent
        \/ Tick

Spec == Init /\ [][Next]_vars

\* The loop thread runs and the clock moves; channels, and calls of addTimer or
\* removeTimer, may never come.
FairSpec == Spec /\ WF_vars(LoopStep) /\ WF_vars(Tick)

-----------------------------------------------------------------------------
(* Properties *)

TypeOK ==
  /\ now \in 0 .. MaxTime
  /\ timers \subseteq Int \X Ids
  /\ repeatTimers \subseteq Ids
  /\ lastTimerId \in 0 .. MaxTimers
  /\ handle \in [Ids -> Int]
  /\ interval \in [Ids -> Nat]
  /\ repeating \in [Ids -> BOOLEAN]
  /\ nextTimeout \in [Ids -> Int]
  /\ loopPc \in LoopPcs
  /\ timePoint \in 0 .. MaxTime
  /\ cur \in (Int \X Ids) \cup {NoTimer}
  /\ wakeAt \in Int
  /\ spent \subseteq Ids
  /\ ran \subseteq Ids

\* A callback never runs after removeTimer returned for it, and a one-shot never
\* runs twice (removeTimer's choice of the key, handleTimerEvent's erase).
NeverAgain == loopPc = "callback" => cur[2] \notin spent

\* A pass over the timers ends: no timer runs twice in it, however short its
\* interval and however late the loop is (setNextTimeout, the interval of 0).
OncePerPass == loopPc = "callback" => cur[2] \notin ran

\* The timers somebody still expects to run.
Registered == (1 .. lastTimerId) \ spent

\* Timer.h on getTimeRemaining: "returns the time of the nearest timeout, -1 when
\* there is no timer task".
NoTaskNoTimeout ==
  loopPc \notin Locked => (timers = {} <=> Registered = {})

\* A timer whose time has come runs, or is removed: the loop does not sleep past
\* it (getTimeRemaining against handleTimerEvent).
DueRuns ==
  \A id \in Ids :
    (\E t \in timers : t[2] = id /\ t[1] <= now)
      ~> ((loopPc = "callback" /\ cur[2] = id) \/ id \in spent)

-----------------------------------------------------------------------------
(* What the timer queue implements *)

\* The time under which removeTimer looks for a timer.
Key(id) == IF repeating[id] THEN nextTimeout[id] ELSE handle[id]

DueTimes == [id \in Registered |-> Key(id)]

Alarm == INSTANCE AlarmClock WITH
  time <- now, last <- lastTimerId, due <- DueTimes, ringing <- cur[2], None <- 0

\* The timers somebody expects ring in the order of their times, each not before
\* it is due, one at a time, never after removeTimer, and again only if they
\* repeat and then later (addTimer, removeTimer, handleTimerEvent).
AlarmSpec == Alarm!Spec
=============================================================================
