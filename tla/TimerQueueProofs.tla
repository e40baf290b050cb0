-------------------------- MODULE TimerQueueProofs --------------------------
(***************************************************************************)
(* Safety of TimerQueue for every set of delays, every number of timers    *)
(* and every length of time.                                               *)
(***************************************************************************)
EXTENDS TimerQueue, TLAPS

\* Every timer has one place in _timers, and an interval of at least 1.
OnePlace ==
  /\ \A s, t \in timers : s[2] = t[2] => s = t
  /\ \A t \in timers : t[2] <= lastTimerId
  /\ \A id \in Ids : id <= lastTimerId => interval[id] >= 1

\* The timer whose callback runs is still the first of the map.
Running == loopPc \in {"callback", "stuck"} => cur \in timers /\ cur[1] <= timePoint

\* What ran in this pass is not due in it again.
RanLater ==
  loopPc \in {"pass", "callback", "stuck"} =>
    \A t \in timers : t[2] \in ran => t[1] > timePoint

PassInv == TypeOK /\ OnePlace /\ Running /\ RanLater

\* Every step keeps the types.
LEMMA TypeStep == TypeOK /\ Running /\ [Next]_vars => TypeOK'
<1> SUFFICES ASSUME TypeOK, Running, [Next]_vars
             PROVE  TypeOK'
  OBVIOUS
<1> USE DEF TypeOK, LoopPcs, Locked, timerVars, loopVars, Ids, NoTimer
<1>1. ASSUME NEW ms \in Delays, NEW repeat \in BOOLEAN, AddTimer(ms, repeat)
      PROVE  TypeOK'
  <2>1. PICK new \in Ids : new = lastTimerId + 1
    BY <1>1, BoundsAssumption DEF AddTimer
  <2>2. /\ now + ms \in Int /\ IntervalOf(ms) \in Nat \ {0}
        /\ now + IntervalOf(ms) \in Int
    BY <1>1, BoundsAssumption, DelaysAssumption DEF AddTimer, IntervalOf
  <2>3. /\ lastTimerId' = new
        /\ handle' = [handle EXCEPT ![new] = now + ms]
        /\ interval' = [interval EXCEPT ![new] = IntervalOf(ms)]
        /\ repeating' = [repeating EXCEPT ![new] = repeat]
        /\ nextTimeout' = [nextTimeout EXCEPT ![new] = now + IntervalOf(ms)]
        /\ repeatTimers' = IF repeat THEN repeatTimers \cup {new} ELSE repeatTimers
        /\ timers' = timers \cup {<<now + ms, new>>}
        /\ UNCHANGED <<now, loopPc, timePoint, cur, wakeAt, spent, ran>>
    BY <1>1, <2>1 DEF AddTimer
  <2>4. <<now + ms, new>> \in Int \X Ids
    BY <2>2
  <2>5. /\ timers' \subseteq Int \X Ids /\ repeatTimers' \subseteq Ids
        /\ lastTimerId' \in 0 .. MaxTimers
    <3>1. timers' \subseteq Int \X Ids
      <4>1. timers \subseteq Int \X Ids /\ timers' = timers \cup {<<now + ms, new>>}
        BY <2>3
      <4>2. QED
        BY <2>4, <4>1, Zenon
    <3>2. repeatTimers' \subseteq Ids
      BY <2>1, <2>3
    <3>3. lastTimerId' \in 0 .. MaxTimers
      BY <2>1, <2>3, BoundsAssumption
    <3>4. QED
      BY <3>1, <3>2, <3>3
  <2>6. /\ handle' \in [Ids -> Int] /\ interval' \in [Ids -> Nat]
        /\ repeating' \in [Ids -> BOOLEAN] /\ nextTimeout' \in [Ids -> Int]
    BY <2>2, <2>3
  <2>7. QED
    BY <2>3, <2>5, <2>6
<1>2. ASSUME NEW id \in Ids, RemoveTimer(id)
      PROVE  TypeOK'
  BY <1>2, BoundsAssumption, DelaysAssumption DEF RemoveTimer
<1>3. ASSUME CallbackReturns, Reschedule
      PROVE  TypeOK'
  <2>1. /\ cur \in Int \X Ids
        /\ timePoint + interval[cur[2]] \in Int
        /\ cur[2] \in Ids
    BY <1>3, BoundsAssumption DEF CallbackReturns, Running
  <2>2. <<timePoint + interval[cur[2]], cur[2]>> \in Int \X Ids
    BY <2>1
  <2>3. timers' \subseteq Int \X Ids /\ nextTimeout' \in [Ids -> Int]
    BY <1>3, <2>1, <2>2 DEF Reschedule
  <2>4. QED
    BY <1>3, <2>1, <2>3 DEF CallbackReturns, Reschedule
<1>4. ASSUME CallbackReturns, Erase
      PROVE  TypeOK'
  BY <1>4 DEF CallbackReturns, Erase, Running
<1>5. CASE EnterTimers
  BY <1>5, BoundsAssumption DEF EnterTimers
<1>6. CASE TestEmpty
  BY <1>6, BoundsAssumption DEF TestEmpty
<1>7. CASE BeginPass
  BY <1>7, BoundsAssumption DEF BeginPass
<1>8. CASE Fire
  BY <1>8, BoundsAssumption DEF Fire
<1>9. CASE EndPass
  BY <1>9, BoundsAssumption DEF EndPass
<1>10. CASE StartWait
  <2>1. wakeAt' \in Int
    BY <1>10, BoundsAssumption DEF StartWait, IsBegin
  <2>2. QED
    BY <1>10, <2>1 DEF StartWait
<1>11. CASE TimeOut
  BY <1>11, BoundsAssumption DEF TimeOut
<1>12. CASE CallbackAddsTimer
  BY <1>12, BoundsAssumption DEF CallbackAddsTimer
<1>13. CASE ChannelEvent
  BY <1>13, BoundsAssumption DEF ChannelEvent
<1>14. CASE Tick
  <2>1. now' \in 0 .. MaxTime
    BY <1>14, BoundsAssumption DEF Tick
  <2>2. QED
    BY <1>14, <2>1 DEF Tick
<1>15. CASE UNCHANGED vars
  BY <1>15 DEF vars, timerVars, loopVars
<1>16. QED
  BY <1>1, <1>2, <1>3, <1>4, <1>5, <1>6, <1>7, <1>8, <1>9, <1>10, <1>11,
     <1>12, <1>13, <1>14, <1>15
     DEF Next, LoopStep, CallbackReturns

\* A new timer gets a new id, a repeating one gives up its place for the next.
LEMMA OnePlaceStep == TypeOK /\ Running /\ OnePlace /\ [Next]_vars => OnePlace'
<1> SUFFICES ASSUME TypeOK, Running, OnePlace, [Next]_vars
             PROVE  OnePlace'
  OBVIOUS
<1> USE DEF TypeOK, LoopPcs, Locked, timerVars, loopVars, Ids, NoTimer, OnePlace
<1>1. ASSUME NEW ms \in Delays, NEW repeat \in BOOLEAN, AddTimer(ms, repeat)
      PROVE  OnePlace'
  <2>1. PICK new \in Ids : new = lastTimerId + 1
    BY <1>1, BoundsAssumption DEF AddTimer
  <2>2. /\ now + ms \in Int /\ IntervalOf(ms) \in Nat \ {0}
        /\ now + IntervalOf(ms) \in Int
    BY <1>1, BoundsAssumption, DelaysAssumption DEF AddTimer, IntervalOf
  <2>3. /\ lastTimerId' = new
        /\ handle' = [handle EXCEPT ![new] = now + ms]
        /\ interval' = [interval EXCEPT ![new] = IntervalOf(ms)]
        /\ repeating' = [repeating EXCEPT ![new] = repeat]
        /\ nextTimeout' = [nextTimeout EXCEPT ![new] = now + IntervalOf(ms)]
        /\ repeatTimers' = IF repeat THEN repeatTimers \cup {new} ELSE repeatTimers
        /\ timers' = timers \cup {<<now + ms, new>>}
        /\ UNCHANGED <<now, loopPc, timePoint, cur, wakeAt, spent, ran>>
    BY <1>1, <2>1 DEF AddTimer
  <2>4. \A t \in timers : t[2] < new /\ t[2] # new
    BY <2>1, SMTT(30)
  <2>5. \A s, t \in timers' : s[2] = t[2] => s = t
    BY <2>3, <2>4
  <2>6. \A t \in timers' : t[2] <= lastTimerId'
    BY <2>1, <2>3, <2>4
  <2>7. \A id \in Ids : id <= lastTimerId' => interval'[id] >= 1
    <3> TAKE id \in Ids
    <3>1. CASE id = new
      BY <2>2, <2>3, <3>1
    <3>2. CASE id # new
      BY <2>1, <2>3, <3>2
    <3>3. QED
      BY <3>1, <3>2
  <2>8. QED
    BY <2>5, <2>6, <2>7
<1>2. ASSUME NEW id \in Ids, RemoveTimer(id)
      PROVE  OnePlace'
  BY <1>2 DEF RemoveTimer
<1>3. ASSUME CallbackReturns, Reschedule
      PROVE  OnePlace'
  BY <1>3, SMTT(30) DEF CallbackReturns, Reschedule, Running
<1>4. ASSUME CallbackReturns, Erase
      PROVE  OnePlace'
  BY <1>4 DEF CallbackReturns, Erase
<1>5. CASE EnterTimers
  BY <1>5 DEF EnterTimers
<1>6. CASE TestEmpty
  BY <1>6 DEF TestEmpty
<1>7. CASE BeginPass
  BY <1>7 DEF BeginPass
<1>8. CASE Fire
  BY <1>8 DEF Fire
<1>9. CASE EndPass
  BY <1>9 DEF EndPass
<1>10. CASE StartWait
  BY <1>10 DEF StartWait
<1>11. CASE TimeOut
  BY <1>11 DEF TimeOut
<1>12. CASE CallbackAddsTimer
  BY <1>12 DEF CallbackAddsTimer
<1>13. CASE ChannelEvent
  BY <1>13 DEF ChannelEvent
<1>14. CASE Tick
  BY <1>14 DEF Tick
<1>15. CASE UNCHANGED vars
  BY <1>15 DEF vars, timerVars, loopVars
<1>16. QED
  BY <1>1, <1>2, <1>3, <1>4, <1>5, <1>6, <1>7, <1>8, <1>9, <1>10, <1>11,
     <1>12, <1>13, <1>14, <1>15
     DEF Next, LoopStep, CallbackReturns

\* Under the mutex nobody moves the first timer.
LEMMA RunningStep == TypeOK /\ Running /\ [Next]_vars => Running'
<1> SUFFICES ASSUME TypeOK, Running, [Next]_vars
             PROVE  Running'
  OBVIOUS
<1> USE DEF TypeOK, LoopPcs, Locked, timerVars, loopVars, Ids, NoTimer, Running
<1>1. ASSUME NEW ms \in Delays, NEW repeat \in BOOLEAN, AddTimer(ms, repeat)
      PROVE  Running'
  BY <1>1 DEF AddTimer
<1>2. ASSUME NEW id \in Ids, RemoveTimer(id)
      PROVE  Running'
  BY <1>2 DEF RemoveTimer
<1>3. ASSUME CallbackReturns, Reschedule
      PROVE  Running'
  BY <1>3 DEF CallbackReturns
<1>4. ASSUME CallbackReturns, Erase
      PROVE  Running'
  BY <1>4 DEF CallbackReturns
<1>5. CASE EnterTimers
  BY <1>5 DEF EnterTimers
<1>6. CASE TestEmpty
  BY <1>6 DEF TestEmpty
<1>7. CASE BeginPass
  BY <1>7 DEF BeginPass
<1>8. CASE Fire
  BY <1>8 DEF Fire
<1>9. CASE EndPass
  BY <1>9 DEF EndPass
<1>10. CASE StartWait
  BY <1>10 DEF StartWait
<1>11. CASE TimeOut
  BY <1>11 DEF TimeOut
<1>12. CASE CallbackAddsTimer
  BY <1>12 DEF CallbackAddsTimer
<1>13. CASE ChannelEvent
  BY <1>13 DEF ChannelEvent
<1>14. CASE Tick
  BY <1>14 DEF Tick
<1>15. CASE UNCHANGED vars
  BY <1>15 DEF vars, timerVars, loopVars
<1>16. QED
  BY <1>1, <1>2, <1>3, <1>4, <1>5, <1>6, <1>7, <1>8, <1>9, <1>10, <1>11,
     <1>12, <1>13, <1>14, <1>15
     DEF Next, LoopStep, CallbackReturns

\* The next timeout is counted from the time of the pass, and is later.
LEMMA RanLaterStep == TypeOK /\ Running /\ OnePlace /\ RanLater /\ [Next]_vars => RanLater'
<1> SUFFICES ASSUME TypeOK, Running, OnePlace, RanLater, [Next]_vars
             PROVE  RanLater'
  OBVIOUS
<1> USE DEF TypeOK, LoopPcs, Locked, timerVars, loopVars, Ids, NoTimer, RanLater
<1>1. ASSUME NEW ms \in Delays, NEW repeat \in BOOLEAN, AddTimer(ms, repeat)
      PROVE  RanLater'
  BY <1>1 DEF AddTimer
<1>2. ASSUME NEW id \in Ids, RemoveTimer(id)
      PROVE  RanLater'
  BY <1>2 DEF RemoveTimer
<1>3. ASSUME CallbackReturns, Reschedule
      PROVE  RanLater'
  BY <1>3 DEF CallbackReturns, Reschedule, Running, OnePlace
<1>4. ASSUME CallbackReturns, Erase
      PROVE  RanLater'
  BY <1>4 DEF CallbackReturns, Erase, Running, OnePlace
<1>5. CASE EnterTimers
  BY <1>5 DEF EnterTimers
<1>6. CASE TestEmpty
  BY <1>6 DEF TestEmpty
<1>7. CASE BeginPass
  BY <1>7 DEF BeginPass
<1>8. CASE Fire
  BY <1>8 DEF Fire
<1>9. CASE EndPass
  BY <1>9 DEF EndPass
<1>10. CASE StartWait
  BY <1>10 DEF StartWait
<1>11. CASE TimeOut
  BY <1>11 DEF TimeOut
<1>12. CASE CallbackAddsTimer
  BY <1>12 DEF CallbackAddsTimer
<1>13. CASE ChannelEvent
  BY <1>13 DEF ChannelEvent
<1>14. CASE Tick
  BY <1>14 DEF Tick
<1>15. CASE UNCHANGED vars
  BY <1>15 DEF vars, timerVars, loopVars
<1>16. QED
  BY <1>1, <1>2, <1>3, <1>4, <1>5, <1>6, <1>7, <1>8, <1>9, <1>10, <1>11,
     <1>12, <1>13, <1>14, <1>15
     DEF Next, LoopStep, CallbackReturns

LEMMA InitPassInv == Init => PassInv
  BY BoundsAssumption
     DEF Init, PassInv, TypeOK, OnePlace, Running, RanLater, Ids, LoopPcs, Locked, NoTimer

LEMMA NextPassInv == PassInv /\ [Next]_vars => PassInv'
  BY TypeStep, OnePlaceStep, RunningStep, RanLaterStep DEF PassInv

THEOREM PassInvariance == Spec => []PassInv
  BY InitPassInv, NextPassInv, PTL DEF Spec

\* Every variable of the timer queue keeps its type.
THEOREM TimerTypeCorrect == Spec => []TypeOK
<1>1. PassInv => TypeOK
  BY DEF PassInv
<1>2. QED
  BY <1>1, PassInvariance, PTL

\* handleTimerEvent's loop ends: whatever the delays, 0 included, and however
\* late the pass is, no timer runs twice in it.
THEOREM PassEnds == Spec => []OncePerPass
<1>1. PassInv => OncePerPass
  BY DEF PassInv, TypeOK, Running, RanLater, OncePerPass, Ids, NoTimer
<1>2. QED
  BY <1>1, PassInvariance, PTL

-----------------------------------------------------------------------------
(* Removal, when no delay is 0. *)

\* _timers holds exactly the registered timers, each under its key, and
\* _repeatTimers the repeating ones among them.
Filed ==
  /\ spent \subseteq 1 .. lastTimerId
  /\ \A t \in timers : t[2] \notin spent /\ t[1] = Key(t[2])
  /\ \A id \in Registered : <<Key(id), id>> \in timers
  /\ repeatTimers = {id \in Registered : repeating[id]}

\* Every step keeps the map and the registered timers in agreement.
LEMMA FiledStep ==
  ASSUME 0 \notin Delays
  PROVE  PassInv /\ Filed /\ [Next]_vars => Filed'
<1> SUFFICES ASSUME PassInv, Filed, [Next]_vars
             PROVE  Filed'
  OBVIOUS
<1> USE DEF TypeOK, LoopPcs, Locked, timerVars, loopVars, Ids, NoTimer, Filed, Registered, Key, PassInv, OnePlace
<1>1. ASSUME NEW ms \in Delays, NEW repeat \in BOOLEAN, AddTimer(ms, repeat)
      PROVE  Filed'
  <2>1. PICK new \in Ids : new = lastTimerId + 1
    BY <1>1, BoundsAssumption DEF AddTimer
  <2>2. /\ now + ms \in Int /\ IntervalOf(ms) \in Nat \ {0}
        /\ now + IntervalOf(ms) \in Int
    BY <1>1, BoundsAssumption, DelaysAssumption DEF AddTimer, IntervalOf
  <2>3. /\ lastTimerId' = new
        /\ handle' = [handle EXCEPT ![new] = now + ms]
        /\ interval' = [interval EXCEPT ![new] = IntervalOf(ms)]
        /\ repeating' = [repeating EXCEPT ![new] = repeat]
        /\ nextTimeout' = [nextTimeout EXCEPT ![new] = now + IntervalOf(ms)]
        /\ repeatTimers' = IF repeat THEN repeatTimers \cup {new} ELSE repeatTimers
        /\ timers' = timers \cup {<<now + ms, new>>}
        /\ UNCHANGED <<now, loopPc, timePoint, cur, wakeAt, spent, ran>>
    BY <1>1, <2>1 DEF AddTimer
  <2>4. IntervalOf(ms) = ms
    BY DEF IntervalOf
  <2>5. new \notin spent /\ 1 .. new = (1 .. lastTimerId) \cup {new}
    BY <2>1, SMTT(30)
  <2>6. Registered' = Registered \cup {new} /\ new \notin Registered
    BY <2>1, <2>3, <2>5
  <2>7. \A t \in timers : t[2] \in Ids /\ t[2] # new
    BY <2>1
  <2>8. \A id \in Ids : id # new => Key(id)' = Key(id)
    BY <2>1, <2>3
  <2>9. Key(new)' = now + ms
    BY <2>1, <2>3, <2>4
  <2>10. Registered \subseteq Ids
    BY BoundsAssumption
  <2> HIDE DEF Key, Registered
  <2>11. spent' \subseteq 1 .. lastTimerId'
    BY <2>1, <2>3
  <2>12. \A t \in timers' : t[2] \notin spent' /\ t[1] = Key(t[2])'
    <3> TAKE t \in timers'
    <3>1. CASE t \in timers
      BY <3>1, <2>3, <2>7, <2>8
    <3>2. CASE t = <<now + ms, new>>
      BY <3>2, <2>3, <2>5, <2>9
    <3>3. QED
      BY <3>1, <3>2, <2>3
  <2>13. \A id \in Registered' : <<Key(id)', id>> \in timers'
    <3>1. <<Key(new)', new>> \in timers'
      BY <2>3, <2>9
    <3>2. \A id \in Registered : <<Key(id)', id>> \in timers'
      BY <2>3, <2>8, <2>6, <2>10
    <3>3. ASSUME NEW id \in Registered'
          PROVE  <<Key(id)', id>> \in timers'
      <4>1. id \in Registered \/ id = new
        BY <2>6
      <4>2. QED
        BY <3>1, <3>2, <4>1, Zenon
    <3>4. QED
      BY <3>3, Zenon
  <2>14. repeatTimers' = {id \in Registered' : repeating'[id]}
    BY <2>1, <2>3, <2>6, <2>10
  <2>15. QED
    BY <2>11, <2>12, <2>13, <2>14
<1>2. ASSUME NEW id \in Ids, RemoveTimer(id)
      PROVE  Filed'
  <2>1. Registered' = Registered \ {id} /\ id \in 1 .. lastTimerId
    BY <1>2, BoundsAssumption DEF RemoveTimer
  <2>2. \A i : Key(i)' = Key(i)
    BY <1>2 DEF RemoveTimer
  <2>3. \A t \in timers : t[2] = id => t = <<Key(id), id>>
    OBVIOUS
  <2>4. id \in Registered => Key(id) = IF id \in repeatTimers THEN nextTimeout[id] ELSE handle[id]
    OBVIOUS
  <2>5. \A t \in timers : t[2] = id => id \in Registered
    BY <2>1
  <2>6. \A t \in timers : t \in timers' <=> t[2] # id
    BY <1>2, <2>3, <2>4, <2>5, SMTT(30) DEF RemoveTimer
  <2>7. timers' \subseteq timers /\ spent' = spent \cup {id}
        /\ repeatTimers' = repeatTimers \ {id}
        /\ UNCHANGED <<lastTimerId, repeating>>
    BY <1>2 DEF RemoveTimer
  <2> HIDE DEF Key, Registered
  <2>8. QED
    BY <2>1, <2>2, <2>6, <2>7
<1>3. ASSUME CallbackReturns, Reschedule
      PROVE  Filed'
  BY <1>3, SMTT(30) DEF CallbackReturns, Reschedule, Running
<1>4. ASSUME CallbackReturns, Erase
      PROVE  Filed'
  <2>1. cur \in timers /\ cur[2] \in Ids
    BY <1>4 DEF CallbackReturns, Running
  <2>2. /\ timers' = timers \ {cur} /\ spent' = spent \cup {cur[2]}
        /\ ~repeating[cur[2]]
        /\ UNCHANGED <<lastTimerId, repeating, handle, nextTimeout, repeatTimers>>
    BY <1>4 DEF CallbackReturns, Erase
  <2>3. Registered' = Registered \ {cur[2]} /\ cur[2] \in 1 .. lastTimerId
    BY <2>1, <2>2, BoundsAssumption, SMTT(30)
  <2>4. \A i : Key(i)' = Key(i)
    BY <2>2
  <2>5. \A t \in timers' : t[2] # cur[2]
    BY <2>1, <2>2
  <2>6. cur[2] \notin repeatTimers
    BY <2>2
  <2> HIDE DEF Key, Registered
  <2>7. spent' \subseteq 1 .. lastTimerId'
    BY <2>2, <2>3
  <2>8. \A t \in timers' : t[2] \notin spent' /\ t[1] = Key(t[2])'
    BY <2>2, <2>4, <2>5
  <2>9. \A id \in Registered' : <<Key(id)', id>> \in timers'
    BY <2>1, <2>2, <2>3, <2>4
  <2>10. repeatTimers' = {id \in Registered' : repeating'[id]}
    BY <2>2, <2>3, <2>6
  <2>11. QED
    BY <2>7, <2>8, <2>9, <2>10
<1>5. CASE EnterTimers
  BY <1>5 DEF EnterTimers
<1>6. CASE TestEmpty
  BY <1>6 DEF TestEmpty
<1>7. CASE BeginPass
  BY <1>7 DEF BeginPass
<1>8. CASE Fire
  BY <1>8 DEF Fire
<1>9. CASE EndPass
  BY <1>9 DEF EndPass
<1>10. CASE StartWait
  BY <1>10 DEF StartWait
<1>11. CASE TimeOut
  BY <1>11 DEF TimeOut
<1>12. CASE CallbackAddsTimer
  BY <1>12 DEF CallbackAddsTimer
<1>13. CASE ChannelEvent
  BY <1>13 DEF ChannelEvent
<1>14. CASE Tick
  BY <1>14 DEF Tick
<1>15. CASE UNCHANGED vars
  BY <1>15 DEF vars, timerVars, loopVars
<1>16. QED
  BY <1>1, <1>2, <1>3, <1>4, <1>5, <1>6, <1>7, <1>8, <1>9, <1>10, <1>11,
     <1>12, <1>13, <1>14, <1>15
     DEF Next, LoopStep, CallbackReturns

LEMMA InitFiled == Init => Filed
  BY BoundsAssumption DEF Init, Filed, Registered, Key

\* Without a delay of 0, a callback never runs after removeTimer returned for it,
\* and a one-shot runs at most once.
THEOREM RemovedNeverRuns ==
  ASSUME 0 \notin Delays
  PROVE  Spec => []NeverAgain
<1>1. PassInv /\ Filed /\ [Next]_vars => Filed'
  BY FiledStep
<1>2. Spec => []Filed
  BY <1>1, InitFiled, PassInvariance, PTL DEF Spec
<1>3. PassInv /\ Filed => NeverAgain
  BY DEF PassInv, Running, Filed, NeverAgain
<1>4. QED
  BY <1>2, <1>3, PassInvariance, PTL

\* Without a delay of 0, getTimeRemaining returns -1 exactly when nobody waits
\* for a timer; with one, removeTimer misses the timer that addTimer has just
\* filed, and the map is not empty although nobody waits.
THEOREM NoTaskNoTimeoutHolds ==
  ASSUME 0 \notin Delays
  PROVE  Spec => []NoTaskNoTimeout
<1>1. PassInv /\ Filed /\ [Next]_vars => Filed'
  BY FiledStep
<1>2. Spec => []Filed
  BY <1>1, InitFiled, PassInvariance, PTL DEF Spec
<1>3. PassInv /\ Filed => NoTaskNoTimeout
  <2> SUFFICES ASSUME PassInv, Filed
               PROVE  timers = {} <=> Registered = {}
    BY DEF NoTaskNoTimeout
  <2>1. \A t \in timers : t[2] \in Registered
    BY BoundsAssumption DEF PassInv, TypeOK, OnePlace, Filed, Registered, Ids
  <2>2. \A id \in Registered : timers # {}
    BY DEF Filed
  <2>3. QED
    BY <2>1, <2>2
<1>4. QED
  BY <1>2, <1>3, PassInvariance, PTL

-----------------------------------------------------------------------------
(* The refinement of AlarmClock, when no delay is 0. *)

\* Only in a callback has the loop a timer at hand, and a pass uses a time that
\* has come.
Idle == loopPc \notin {"callback", "stuck"} => cur = NoTimer
InTime == timePoint <= now
ClockInv == PassInv /\ Filed /\ Idle /\ InTime

LEMMA IdleStep == TypeOK /\ Idle /\ [Next]_vars => Idle'
  BY DEF TypeOK, LoopPcs, Locked, Idle, Next, LoopStep, vars, timerVars, loopVars, AddTimer,
         RemoveTimer, EnterTimers, TestEmpty, BeginPass, Fire, EndPass, CallbackReturns,
         StartWait, TimeOut, CallbackAddsTimer, ChannelEvent, Tick

LEMMA InTimeStep == TypeOK /\ InTime /\ [Next]_vars => InTime'
<1> SUFFICES ASSUME TypeOK, InTime, [Next]_vars
             PROVE  InTime'
  OBVIOUS
<1>1. now \in Int /\ timePoint \in Int
  BY BoundsAssumption DEF TypeOK
<1>2. \/ now' = now /\ timePoint' = timePoint
      \/ now' = now /\ timePoint' = now
      \/ now' = now + 1 /\ timePoint' = timePoint
  BY DEF Next, LoopStep, vars, timerVars, loopVars, AddTimer, RemoveTimer, EnterTimers,
         TestEmpty, BeginPass, Fire, EndPass, CallbackReturns, StartWait, TimeOut,
         CallbackAddsTimer, ChannelEvent, Tick
<1>3. QED
  BY <1>1, <1>2 DEF InTime

LEMMA ClockInvariance ==
  ASSUME 0 \notin Delays
  PROVE  Spec => []ClockInv
<1>1. Init => Idle /\ InTime
  BY DEF Init, Idle, InTime
<1>2. PassInv /\ Filed /\ [Next]_vars => Filed'
  BY FiledStep
<1>3. PassInv => TypeOK
  BY DEF PassInv
<1>4. QED
  BY <1>1, <1>2, <1>3, InitFiled, PassInvariance, IdleStep, InTimeStep, PTL DEF Spec, ClockInv

\* The alarms that are set, and their times.
DueOK ==
  /\ DOMAIN DueTimes = Registered /\ Registered \subseteq Ids
  /\ \A id \in Registered : DueTimes[id] = Key(id) /\ Key(id) \in Int
  /\ DueTimes \in [Registered -> Int]

LEMMA DueFacts == TypeOK => DueOK
  BY BoundsAssumption DEF TypeOK, DueTimes, Registered, Key, Ids, DueOK

LEMMA DueFactsNext == TypeOK' => DueOK'
  BY DueFacts, PTL

\* A step that leaves the timers alone.
LEMMA Stutters ==
  ASSUME UNCHANGED <<now, lastTimerId, spent, repeating, nextTimeout, handle, cur>>
  PROVE  UNCHANGED Alarm!vars
<1>1. DueTimes' = DueTimes
  BY DEF DueTimes, Registered, Key
<1>2. QED
  BY <1>1 DEF Alarm!vars

LEMMA AddIsSet ==
  ASSUME 0 \notin Delays, ClockInv, TypeOK',
         NEW ms \in Delays, NEW repeat \in BOOLEAN, AddTimer(ms, repeat)
  PROVE  Alarm!Set
<1> USE DEF ClockInv, PassInv
<1>1. PICK new \in Ids : new = lastTimerId + 1
  BY BoundsAssumption DEF AddTimer, Ids, TypeOK
<1>2. ms \in Nat /\ IntervalOf(ms) = ms /\ now \in Int
  BY DelaysAssumption, BoundsAssumption DEF IntervalOf, TypeOK
<1>3. /\ lastTimerId' = new /\ UNCHANGED <<now, cur, spent>>
      /\ handle' = [handle EXCEPT ![new] = now + ms]
      /\ repeating' = [repeating EXCEPT ![new] = repeat]
      /\ nextTimeout' = [nextTimeout EXCEPT ![new] = now + ms]
  BY <1>1, <1>2 DEF AddTimer, loopVars
<1>4. new \notin Registered /\ Registered' = Registered \cup {new}
  BY <1>1, <1>3, BoundsAssumption DEF Registered, Filed, TypeOK
<1>5. \A id \in Registered : Key(id)' = Key(id)
  BY <1>3, <1>4, DueFacts DEF Key, TypeOK, DueOK
<1>6. Key(new)' = now + ms
  BY <1>1, <1>3 DEF Key, TypeOK
<1>7. cur[2] = 0
  BY DEF AddTimer, Idle, NoTimer
<1>8. /\ DOMAIN DueTimes = Registered /\ DueTimes' \in [Registered' -> Int]
      /\ \A id \in Registered : DueTimes[id] = Key(id)
      /\ \A id \in Registered' : DueTimes'[id] = Key(id)'
  BY DueFacts, DueFactsNext DEF DueOK
<1>9. DueTimes'[new] >= now
  BY <1>2, <1>4, <1>6, <1>8
<1>10. Alarm!Keeps(Registered)
  BY <1>4, <1>5, <1>8 DEF Alarm!Keeps
<1>11. QED
  BY <1>1, <1>3, <1>4, <1>7, <1>8, <1>9, <1>10 DEF Alarm!Set

LEMMA RemoveIsCancel ==
  ASSUME ClockInv, TypeOK', NEW id \in Ids, RemoveTimer(id)
  PROVE  Alarm!Cancel \/ UNCHANGED Alarm!vars
<1> USE DEF ClockInv, PassInv
<1>1. /\ UNCHANGED <<now, lastTimerId, cur, handle, repeating, nextTimeout>>
      /\ spent' = spent \cup {id}
  BY DEF RemoveTimer, loopVars
<1>2. Registered' = Registered \ {id} /\ \A i : Key(i)' = Key(i)
  BY <1>1 DEF Registered, Key
<1>3. CASE id \in Registered
  <2>1. cur[2] = 0
    BY DEF RemoveTimer, Idle, NoTimer, Locked
  <2>2. /\ DOMAIN DueTimes = Registered /\ DueTimes' \in [Registered' -> Int]
        /\ DOMAIN DueTimes' = Registered'
        /\ \A i \in Registered : DueTimes[i] = Key(i)
        /\ \A i \in Registered' : DueTimes'[i] = Key(i)'
    BY DueFacts, DueFactsNext DEF DueOK
  <2>3. Alarm!Keeps(Registered')
    BY <1>2, <2>2 DEF Alarm!Keeps
  <2>4. QED
    BY <1>1, <1>2, <1>3, <2>1, <2>2, <2>3 DEF Alarm!Cancel
<1>4. CASE id \notin Registered
  <2>1. DueTimes' = DueTimes
    BY <1>2, <1>4 DEF DueTimes
  <2>2. QED
    BY <1>1, <2>1 DEF Alarm!vars
<1>5. QED
  BY <1>3, <1>4

LEMMA FireIsRing == ClockInv /\ Fire => Alarm!Ring
<1> SUFFICES ASSUME ClockInv, Fire
             PROVE  Alarm!Ring
  OBVIOUS
<1> USE DEF ClockInv, PassInv
<1>1. PICK t \in timers : IsBegin(t) /\ t[1] <= timePoint /\ cur' = t
  BY DEF Fire
<1>2. PICK id \in Ids, at \in Int : t = <<at, id>>
  BY DEF TypeOK
<1>3. id \in Registered /\ at = Key(id)
  BY <1>1, <1>2, BoundsAssumption DEF Filed, Registered, OnePlace, TypeOK, Ids
<1>4. Key(id) <= now
  BY <1>1, <1>2, <1>3, BoundsAssumption DEF InTime, TypeOK
<1>5. ASSUME NEW i \in Registered
      PROVE  Key(id) < Key(i) \/ (Key(id) = Key(i) /\ id <= i)
  <2>1. <<Key(i), i>> \in timers
    BY DEF Filed
  <2>2. Before(<<at, id>>, <<Key(i), i>>)
    BY <1>1, <1>2, <2>1 DEF IsBegin
  <2>3. QED
    BY <1>3, <2>2 DEF Before
<1>6. /\ DOMAIN DueTimes = Registered
      /\ \A i \in Registered : DueTimes[i] = Key(i)
  BY DueFacts DEF DueOK
<1>7. cur[2] = 0 /\ cur'[2] = id
  BY <1>1, <1>2 DEF Fire, Idle, NoTimer
<1>8. UNCHANGED <<now, lastTimerId, DueTimes>>
  BY DEF Fire, timerVars, DueTimes, Registered, Key
<1>9. QED
  BY <1>3, <1>4, <1>5, <1>6, <1>7, <1>8 DEF Alarm!Ring

LEMMA ReturnIsStop ==
  ASSUME ClockInv, TypeOK', Filed', CallbackReturns
  PROVE  Alarm!Stop
<1> USE DEF ClockInv, PassInv
<1>1. PICK id \in Ids, at \in Int : cur = <<at, id>> /\ cur \in timers /\ at <= timePoint
  BY DEF CallbackReturns, Running, TypeOK
<1>2. id \in Registered /\ at = Key(id) /\ id # 0
  BY <1>1, BoundsAssumption, SMTT(30) DEF Filed, Registered, OnePlace, TypeOK, Ids
<1>3. cur'[2] = 0 /\ cur[2] = id /\ UNCHANGED <<now, lastTimerId, handle, repeating, interval>>
  BY <1>1 DEF CallbackReturns, NoTimer
<1>4. /\ DOMAIN DueTimes = Registered /\ DueTimes' \in [Registered' -> Int]
      /\ DOMAIN DueTimes' = Registered'
      /\ \A i \in Registered : DueTimes[i] = Key(i)
      /\ \A i \in Registered' : DueTimes'[i] = Key(i)'
  BY DueFacts, DueFactsNext DEF DueOK
<1>5. CASE Erase
  <2>1. Registered' = Registered \ {id} /\ \A i : Key(i)' = Key(i)
    BY <1>3, <1>5 DEF Erase, Registered, Key
  <2>2. Alarm!Keeps(Registered')
    BY <1>4, <2>1 DEF Alarm!Keeps
  <2>3. Alarm!Done
    BY <1>3, <1>4, <2>1, <2>2 DEF Alarm!Done
  <2>4. QED
    BY <1>2, <1>3, <2>3 DEF Alarm!Stop
<1>6. CASE Reschedule
  <2>1. Registered' = Registered
    BY <1>3, <1>6 DEF Reschedule, Registered
  <2>2. repeating[id] /\ nextTimeout' = [nextTimeout EXCEPT ![id] = timePoint + interval[id]]
    BY <1>3, <1>6 DEF Reschedule
  <2>3. \A i \in Registered \ {id} : Key(i)' = Key(i)
    BY <1>3, <2>2, DueFacts DEF Key, TypeOK, DueOK
  <2>4. Key(id)' = timePoint + interval[id]
    BY <1>3, <2>2 DEF Key, TypeOK
  <2>5. interval[id] >= 1 /\ interval[id] \in Int /\ timePoint \in Int
    BY <1>2, BoundsAssumption DEF OnePlace, Registered, TypeOK
  <2>6. DueTimes'[id] > DueTimes[id]
    BY <1>1, <1>2, <1>4, <2>1, <2>4, <2>5
  <2>7. Alarm!Keeps(Registered \ {id})
    BY <1>4, <2>1, <2>3 DEF Alarm!Keeps
  <2>8. Alarm!Again
    BY <1>3, <1>4, <2>1, <2>6, <2>7 DEF Alarm!Again
  <2>9. QED
    BY <1>2, <1>3, <2>8 DEF Alarm!Stop
<1>7. QED
  BY <1>5, <1>6 DEF CallbackReturns

LEMMA StepRefines ==
  ASSUME 0 \notin Delays, ClockInv, ClockInv', [Next]_vars
  PROVE  [Alarm!Next]_(Alarm!vars)
<1> USE DEF timerVars, loopVars
<1>0. TypeOK' /\ Filed'
  BY DEF ClockInv, PassInv
<1>1. ASSUME NEW ms \in Delays, NEW repeat \in BOOLEAN, AddTimer(ms, repeat)
      PROVE  Alarm!Next
  BY <1>0, <1>1, AddIsSet DEF Alarm!Next
<1>2. ASSUME NEW id \in Ids, RemoveTimer(id)
      PROVE  [Alarm!Next]_(Alarm!vars)
  BY <1>0, <1>2, RemoveIsCancel DEF Alarm!Next
<1>3. CASE CallbackReturns
  BY <1>0, <1>3, ReturnIsStop DEF Alarm!Next
<1>4. CASE Fire
  BY <1>4, FireIsRing DEF Alarm!Next
<1>5. CASE EnterTimers
  BY <1>5, Stutters DEF EnterTimers
<1>6. CASE TestEmpty
  BY <1>6, Stutters DEF TestEmpty
<1>7. CASE BeginPass
  BY <1>7, Stutters DEF BeginPass
<1>8. CASE EndPass
  <2>1. cur' = cur
    BY <1>8 DEF EndPass
  <2>2. QED
    BY <1>8, <2>1, Stutters DEF EndPass
<1>9. CASE StartWait
  BY <1>9, Stutters DEF StartWait
<1>10. CASE TimeOut
  BY <1>10, Stutters DEF TimeOut
<1>11. CASE CallbackAddsTimer
  BY <1>11, Stutters DEF CallbackAddsTimer
<1>12. CASE ChannelEvent
  BY <1>12, Stutters DEF ChannelEvent
<1>13. CASE Tick
  <2>1. now' > now
    BY <1>13, BoundsAssumption DEF Tick, ClockInv, PassInv, TypeOK
  <2>2. UNCHANGED <<lastTimerId, DueTimes, cur>>
    BY <1>13 DEF Tick, DueTimes, Registered, Key
  <2>3. QED
    BY <2>1, <2>2 DEF Alarm!Next, Alarm!Tick
<1>14. CASE UNCHANGED vars
  BY <1>14, Stutters DEF vars
<1>15. QED
  BY <1>1, <1>2, <1>3, <1>4, <1>5, <1>6, <1>7, <1>8, <1>9, <1>10, <1>11, <1>12, <1>13, <1>14
     DEF Next, LoopStep

LEMMA InitRefines == Init => Alarm!Init
<1> SUFFICES ASSUME Init
             PROVE  Alarm!Init
  OBVIOUS
<1>1. Registered = {}
  BY DEF Init, Registered
<1>2. DueTimes = [i \in {} |-> 0]
  BY <1>1 DEF DueTimes
<1>3. QED
  BY <1>2 DEF Init, NoTimer, Alarm!Init

\* Without a delay of 0 the timer queue is an alarm clock, for any number of timers
\* and any delays: what rings is the first timer that somebody still expects, when
\* its time has come, and every step of the maps, of the mutex and of a pass in
\* between is invisible (Timer.cpp).
THEOREM ImplementsAlarmClock ==
  ASSUME 0 \notin Delays
  PROVE  Spec => AlarmSpec
<1>1. ClockInv /\ ClockInv' /\ [Next]_vars => [Alarm!Next]_(Alarm!vars)
  BY StepRefines
<1>2. Spec => []ClockInv
  BY ClockInvariance
<1>3. QED
  BY <1>1, <1>2, InitRefines, PTL DEF Spec, AlarmSpec, Alarm!Spec
=============================================================================
