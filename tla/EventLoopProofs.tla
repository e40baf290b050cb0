-------------------------- MODULE EventLoopProofs --------------------------
(***************************************************************************)
(* Safety of EventLoop for every number of threads, every capacity of the  *)
(* ring and every size of the pipe.                                        *)
(***************************************************************************)
EXTENDS EventLoop, SequenceTheorems, TLAPS

\* The fields that a step of the trigger queue touches stay in their types.
LEMMA AdvanceInRange ==
  ASSUME NEW pos \in 0 .. Capacity-1
  PROVE  Advance(pos) \in 0 .. Capacity-1
  BY SizesAssumption DEF Advance

-----------------------------------------------------------------------------
(* The inductive invariant. *)

\* At most one thread is between lock and unlock in addTriggerEvent.
Mutex == \A p, q \in Threads : pc[p] \in Critical /\ pc[q] \in Critical => p = q

\* The poster that is writing a slot, or has written it and not counted it.
Writing(p) == pc[p] \in {"store", "commit"}

\* _putPos is ahead of _getPos by the counted callbacks, and by one more while
\* a poster sits between its write and its increment.
Committing == \E p \in Threads : pc[p] = "commit"

Written == IF Committing THEN Count + 1 ELSE Count

Positions == putPos = SlotAt(Written)

\* Room for the callback being posted; something to take or to give back.
Room ==
  /\ \A p \in Threads : Writing(p) => numDatas < Capacity
  /\ loopPc \in {"take", "release"} => numDatas > 0

\* The slots from _getPos on hold callbacks, the others are empty.
Contents ==
  /\ \A i \in 0 .. Capacity-1 :
       (buffer[SlotAt(i)] # NoEvent) <=> (i < Written)

\* A poster posts a callback.
Args == \A p \in Threads : pc[p] \in Critical \cup {"lock"} => arg[p] \in Events

Shape == Positions /\ Contents

\* The local callback is empty except while it is moved out and called.
Called == current # NoEvent <=> loopPc \in {"release", "run"}

IInv == TypeOK /\ Mutex /\ Room /\ Args /\ Shape /\ Called
-----------------------------------------------------------------------------
\* The fields of every step stay in their types.
LEMMA TypeStep == TypeOK /\ Room /\ [Next]_vars => TypeOK'
<1> SUFFICES ASSUME TypeOK, Room, [Next]_vars
             PROVE  TypeOK'
  OBVIOUS
<1> USE SizesAssumption DEF TypeOK, ringVars, callVars, loopVars, CallPcs, Critical, LoopPcs
<1>1. ASSUME NEW p \in Callers, Call(p) PROVE TypeOK'
  BY <1>1 DEF Call, Threads
<1>2. ASSUME NEW p \in Quitters, Quit(p) PROVE TypeOK'
  BY <1>2 DEF Quit, Threads
<1>3. ASSUME NEW p \in Threads, Lock(p) PROVE TypeOK'
  BY <1>3 DEF Lock, Threads
<1>4. ASSUME NEW p \in Threads, PushTest(p) PROVE TypeOK'
  BY <1>4 DEF PushTest, Threads
<1>5. ASSUME NEW p \in Threads, Store(p) PROVE TypeOK'
  BY <1>5 DEF Store, Threads, Advance
<1>6. ASSUME NEW p \in Threads, Commit(p) PROVE TypeOK'
  BY <1>6 DEF Commit, Threads, Room, Writing
<1>7. ASSUME NEW p \in Threads, Wake(p) PROVE TypeOK'
  BY <1>7 DEF Wake, Threads, WritePipe
<1>8. ASSUME NEW p \in Threads, QuitWake(p) PROVE TypeOK'
  BY <1>8 DEF QuitWake, Threads, WritePipe
<1>9. CASE Start
  BY <1>9 DEF Start
<1>10. CASE TestShutdown
  BY <1>10 DEF TestShutdown
<1>11. CASE PopTest
  BY <1>11 DEF PopTest
<1>12. CASE TakeSlot
  BY <1>12 DEF TakeSlot, Advance
<1>13. CASE Release
  BY <1>13 DEF Release, Room
<1>14. CASE Return
  BY <1>14 DEF Return
<1>15. CASE Again
  BY <1>15 DEF Again
<1>16. CASE TimersDone
  BY <1>16 DEF TimersDone
<1>17. CASE PollWake
  BY <1>17 DEF PollWake
<1>18. CASE WakeStart
  BY <1>18 DEF WakeStart
<1>19. CASE Drain
  BY <1>19 DEF Drain
<1>20. CASE IoDone
  BY <1>20 DEF IoDone
<1>21. CASE PollOther
  BY <1>21 DEF PollOther
<1>22. CASE UNCHANGED vars
  BY <1>22 DEF vars
<1>23. QED
  BY <1>1, <1>2, <1>3, <1>4, <1>5, <1>6, <1>7, <1>8, <1>9, <1>10, <1>11, <1>12, <1>13, <1>14, <1>15, <1>16, <1>17, <1>18, <1>19, <1>20, <1>21, <1>22 DEF Next, Finish, LoopStep

\* The mutex keeps every other thread out of the push.
LEMMA MutexStep == TypeOK /\ Mutex /\ [Next]_vars => Mutex'
<1> SUFFICES ASSUME TypeOK, Mutex, [Next]_vars
             PROVE  Mutex'
  OBVIOUS
<1> USE DEF TypeOK, Mutex, Critical, CallPcs, ringVars, callVars, loopVars
<1>1. ASSUME NEW p \in Callers, Call(p) PROVE Mutex'
  BY <1>1 DEF Call, Threads
<1>2. ASSUME NEW p \in Quitters, Quit(p) PROVE Mutex'
  BY <1>2 DEF Quit, Threads
<1>3. ASSUME NEW p \in Threads, Lock(p) PROVE Mutex'
  BY <1>3 DEF Lock, Threads
<1>4. ASSUME NEW p \in Threads, PushTest(p) PROVE Mutex'
  BY <1>4 DEF PushTest, Threads
<1>5. ASSUME NEW p \in Threads, Store(p) PROVE Mutex'
  BY <1>5 DEF Store, Threads
<1>6. ASSUME NEW p \in Threads, Commit(p) PROVE Mutex'
  BY <1>6 DEF Commit, Threads
<1>7. ASSUME NEW p \in Threads, Wake(p) PROVE Mutex'
  BY <1>7 DEF Wake, Threads
<1>8. ASSUME NEW p \in Threads, QuitWake(p) PROVE Mutex'
  BY <1>8 DEF QuitWake, Threads
<1>9. CASE Start
  BY <1>9 DEF Start
<1>10. CASE TestShutdown
  BY <1>10 DEF TestShutdown
<1>11. CASE PopTest
  BY <1>11 DEF PopTest
<1>12. CASE TakeSlot
  BY <1>12 DEF TakeSlot
<1>13. CASE Release
  BY <1>13 DEF Release
<1>14. CASE Return
  BY <1>14 DEF Return
<1>15. CASE Again
  BY <1>15 DEF Again
<1>16. CASE TimersDone
  BY <1>16 DEF TimersDone
<1>17. CASE PollWake
  BY <1>17 DEF PollWake
<1>18. CASE WakeStart
  BY <1>18 DEF WakeStart
<1>19. CASE Drain
  BY <1>19 DEF Drain
<1>20. CASE IoDone
  BY <1>20 DEF IoDone
<1>21. CASE PollOther
  BY <1>21 DEF PollOther
<1>22. CASE UNCHANGED vars
  BY <1>22 DEF vars
<1>23. QED
  BY <1>1, <1>2, <1>3, <1>4, <1>5, <1>6, <1>7, <1>8, <1>9, <1>10, <1>11,
     <1>12, <1>13, <1>14, <1>15, <1>16, <1>17, <1>18, <1>19, <1>20, <1>21,
     <1>22
     DEF Next, Finish, LoopStep

\* The room found by pushData is still there when the slot is written: only the
\* loop changes _numDatas meanwhile, and it makes more room.
LEMMA RoomStep == TypeOK /\ Mutex /\ Room /\ [Next]_vars => Room'
<1> SUFFICES ASSUME TypeOK, Mutex, Room, [Next]_vars
             PROVE  Room'
  OBVIOUS
<1> USE DEF TypeOK, Mutex, Room, Writing, Critical, CallPcs, ringVars, callVars, loopVars
<1>1. ASSUME NEW p \in Callers, Call(p) PROVE Room'
  BY <1>1 DEF Call, Threads
<1>2. ASSUME NEW p \in Quitters, Quit(p) PROVE Room'
  BY <1>2 DEF Quit, Threads
<1>3. ASSUME NEW p \in Threads, Lock(p) PROVE Room'
  BY <1>3 DEF Lock, Threads
<1>4. ASSUME NEW p \in Threads, PushTest(p) PROVE Room'
  BY <1>4 DEF PushTest, Threads
<1>5. ASSUME NEW p \in Threads, Store(p) PROVE Room'
  BY <1>5 DEF Store, Threads
<1>6. ASSUME NEW p \in Threads, Commit(p) PROVE Room'
  BY <1>6 DEF Commit, Threads
<1>7. ASSUME NEW p \in Threads, Wake(p) PROVE Room'
  BY <1>7 DEF Wake, Threads
<1>8. ASSUME NEW p \in Threads, QuitWake(p) PROVE Room'
  BY <1>8 DEF QuitWake, Threads
<1>9. CASE Start
  BY <1>9 DEF Start
<1>10. CASE TestShutdown
  BY <1>10 DEF TestShutdown
<1>11. CASE PopTest
  BY <1>11 DEF PopTest
<1>12. CASE TakeSlot
  BY <1>12 DEF TakeSlot
<1>13. CASE Release
  BY <1>13, SizesAssumption DEF Release
<1>14. CASE Return
  BY <1>14 DEF Return
<1>15. CASE Again
  BY <1>15 DEF Again
<1>16. CASE TimersDone
  BY <1>16 DEF TimersDone
<1>17. CASE PollWake
  BY <1>17 DEF PollWake
<1>18. CASE WakeStart
  BY <1>18 DEF WakeStart
<1>19. CASE Drain
  BY <1>19 DEF Drain
<1>20. CASE IoDone
  BY <1>20 DEF IoDone
<1>21. CASE PollOther
  BY <1>21 DEF PollOther
<1>22. CASE UNCHANGED vars
  BY <1>22 DEF vars
<1>23. QED
  BY <1>1, <1>2, <1>3, <1>4, <1>5, <1>6, <1>7, <1>8, <1>9, <1>10, <1>11,
     <1>12, <1>13, <1>14, <1>15, <1>16, <1>17, <1>18, <1>19, <1>20, <1>21,
     <1>22
     DEF Next, Finish, LoopStep

\* A thread in addTriggerEvent keeps its callback until it returns.
LEMMA ArgsStep == TypeOK /\ Args /\ [Next]_vars => Args'
<1> SUFFICES ASSUME TypeOK, Args, [Next]_vars
             PROVE  Args'
  OBVIOUS
<1> USE DEF TypeOK, Args, Critical, CallPcs, ringVars, callVars, loopVars
<1>1. ASSUME NEW p \in Callers, Call(p) PROVE Args'
  BY <1>1 DEF Call, Threads
<1>2. ASSUME NEW p \in Quitters, Quit(p) PROVE Args'
  BY <1>2 DEF Quit, Threads
<1>3. ASSUME NEW p \in Threads, Lock(p) PROVE Args'
  BY <1>3 DEF Lock, Threads
<1>4. ASSUME NEW p \in Threads, PushTest(p) PROVE Args'
  BY <1>4 DEF PushTest, Threads
<1>5. ASSUME NEW p \in Threads, Store(p) PROVE Args'
  BY <1>5 DEF Store, Threads
<1>6. ASSUME NEW p \in Threads, Commit(p) PROVE Args'
  BY <1>6 DEF Commit, Threads
<1>7. ASSUME NEW p \in Threads, Wake(p) PROVE Args'
  BY <1>7 DEF Wake, Threads
<1>8. ASSUME NEW p \in Threads, QuitWake(p) PROVE Args'
  BY <1>8 DEF QuitWake, Threads
<1>9. CASE Start
  BY <1>9 DEF Start
<1>10. CASE TestShutdown
  BY <1>10 DEF TestShutdown
<1>11. CASE PopTest
  BY <1>11 DEF PopTest
<1>12. CASE TakeSlot
  BY <1>12 DEF TakeSlot
<1>13. CASE Release
  BY <1>13 DEF Release
<1>14. CASE Return
  BY <1>14 DEF Return
<1>15. CASE Again
  BY <1>15 DEF Again
<1>16. CASE TimersDone
  BY <1>16 DEF TimersDone
<1>17. CASE PollWake
  BY <1>17 DEF PollWake
<1>18. CASE WakeStart
  BY <1>18 DEF WakeStart
<1>19. CASE Drain
  BY <1>19 DEF Drain
<1>20. CASE IoDone
  BY <1>20 DEF IoDone
<1>21. CASE PollOther
  BY <1>21 DEF PollOther
<1>22. CASE UNCHANGED vars
  BY <1>22 DEF vars
<1>23. QED
  BY <1>1, <1>2, <1>3, <1>4, <1>5, <1>6, <1>7, <1>8, <1>9, <1>10, <1>11,
     <1>12, <1>13, <1>14, <1>15, <1>16, <1>17, <1>18, <1>19, <1>20, <1>21,
     <1>22
     DEF Next, Finish, LoopStep

\* The slots met in one turn around the ring are different, and the slot after
\* the i-th is the next one.
LEMMA SlotGeometry ==
  ASSUME TypeOK
  PROVE  /\ \A i \in 0 .. Capacity : SlotAt(i) \in 0 .. Capacity-1
         /\ \A i, j \in 0 .. Capacity-1 : SlotAt(i) = SlotAt(j) => i = j
         /\ \A i \in 0 .. Capacity-1 : Advance(SlotAt(i)) = SlotAt(i + 1)
  BY SizesAssumption DEF SlotAt, Advance, TypeOK


\* Between _getPos and _putPos lie exactly the callbacks written and not yet
\* moved out, whatever the order of the posters' and the loop's steps.
LEMMA ShapeStep == TypeOK /\ Mutex /\ Room /\ Args /\ Shape /\ [Next]_vars => Shape'
<1> SUFFICES ASSUME TypeOK, Mutex, Room, Args, Shape, [Next]_vars
             PROVE  Shape'
  OBVIOUS
<1>1. ASSUME NEW p \in Callers, Call(p) PROVE Shape'
  <2>1. Committing' = Committing
    BY <1>1 DEF Call, CanCall, Committing, CallPcs, TypeOK, Threads
  <2>2. QED
    BY <1>1, <2>1 DEF Call, Shape, Positions, Contents, SlotAt, Written,
       Count, ringVars, loopVars
<1>2. ASSUME NEW p \in Quitters, Quit(p) PROVE Shape'
  <2>1. Committing' = Committing
    BY <1>2 DEF Quit, CanCall, Committing, CallPcs, TypeOK, Threads
  <2>2. QED
    BY <1>2, <2>1 DEF Quit, Shape, Positions, Contents, SlotAt, Written,
       Count, ringVars, loopVars
<1>3. ASSUME NEW p \in Threads, Lock(p) PROVE Shape'
  <2>1. Committing' = Committing
    BY <1>3 DEF Lock, Committing, CallPcs, TypeOK, Threads
  <2>2. QED
    BY <1>3, <2>1 DEF Lock, Shape, Positions, Contents, SlotAt, Written,
       Count, ringVars, loopVars
<1>4. ASSUME NEW p \in Threads, PushTest(p) PROVE Shape'
  <2>1. Committing' = Committing
    BY <1>4 DEF PushTest, Committing, CallPcs, TypeOK, Threads
  <2>2. QED
    BY <1>4, <2>1 DEF PushTest, Shape, Positions, Contents, SlotAt, Written,
       Count, ringVars, loopVars
<1>5. ASSUME NEW p \in Threads, Store(p) PROVE Shape'
  <2>1. ~Committing /\ Committing'
    BY <1>5 DEF Store, Mutex, Committing, Critical, TypeOK, Threads
  <2>2. Count \in 0 .. Capacity-1 /\ Count' = Count
    BY <1>5, SizesAssumption DEF Store, Count, Room, Writing, TypeOK, ringVars, loopVars
  <2>3. Written = Count /\ Written' = Count + 1
    BY <2>1, <2>2 DEF Written
  <2>4. \A i : SlotAt(i)' = SlotAt(i)
    BY <1>5 DEF Store, SlotAt
  <2>5. Positions'
    BY <1>5, <2>2, <2>3, <2>4, SlotGeometry DEF Store, Shape, Positions
  <2>6. arg[p] # NoEvent
    BY <1>5, NoEventAssumption DEF Store, Args, Critical
  <2>7. ASSUME NEW i \in 0 .. Capacity-1
        PROVE  (buffer'[SlotAt(i)] # NoEvent) <=> i < Count + 1
    <3>1. CASE i = Count
      BY <1>5, <2>2, <2>3, <2>6, <3>1, SlotGeometry DEF Store, Shape, Positions, TypeOK
    <3>2. CASE i # Count
      <4>1. buffer'[SlotAt(i)] = buffer[SlotAt(i)]
        BY <1>5, <2>2, <2>3, <3>2, SlotGeometry DEF Store, Shape, Positions, TypeOK
      <4>2. QED
        BY <4>1, <2>2, <2>3, <3>2 DEF Shape, Contents
    <3>3. QED
      BY <3>1, <3>2
  <2>8. QED
    BY <2>3, <2>4, <2>5, <2>7 DEF Shape, Contents
<1>6. ASSUME NEW p \in Threads, Commit(p) PROVE Shape'
  <2>1. Committing /\ ~Committing'
    BY <1>6 DEF Commit, Mutex, Committing, Critical, TypeOK, Threads
  <2>2. Count \in Int /\ Count' = Count + 1
    BY <1>6 DEF Commit, Count, TypeOK, loopVars
  <2>3. Written' = Written
    BY <2>1, <2>2 DEF Written
  <2>4. QED
    BY <1>6, <2>3 DEF Commit, Shape, Positions, Contents, SlotAt
<1>7. ASSUME NEW p \in Threads, Wake(p) PROVE Shape'
  <2>1. Committing' = Committing
    BY <1>7 DEF Wake, Committing, CallPcs, TypeOK, Threads
  <2>2. QED
    BY <1>7, <2>1 DEF Wake, Shape, Positions, Contents, SlotAt, Written,
       Count, ringVars, loopVars
<1>8. ASSUME NEW p \in Threads, QuitWake(p) PROVE Shape'
  <2>1. Committing' = Committing
    BY <1>8 DEF QuitWake, Committing, CallPcs, TypeOK, Threads
  <2>2. QED
    BY <1>8, <2>1 DEF QuitWake, Shape, Positions, Contents, SlotAt, Written,
       Count, ringVars, loopVars
<1>9. CASE Start
  BY <1>9 DEF Start, Shape, Positions, Contents, SlotAt, Written, Committing,
     Count, ringVars, callVars
<1>10. CASE TestShutdown
  BY <1>10 DEF TestShutdown, Shape, Positions, Contents, SlotAt, Written, Committing,
     Count, ringVars, callVars
<1>11. CASE PopTest
  BY <1>11 DEF PopTest, Shape, Positions, Contents, SlotAt, Written, Committing,
     Count, ringVars, callVars
<1>12. CASE TakeSlot
  <2>1. Committing' = Committing
    BY <1>12 DEF TakeSlot, Committing, callVars
  <2>2. Count \in 1 .. Capacity /\ Count' = Count - 1
    BY <1>12 DEF TakeSlot, Count, Room, TypeOK
  <2>3. Written \in 1 .. Capacity /\ Written' = Written - 1
    BY <1>12, <2>1, <2>2, SizesAssumption
       DEF TakeSlot, Written, Committing, Count, Room, Writing, TypeOK
  <2>4. \A i \in 0 .. Capacity-1 : SlotAt(i)' = SlotAt(i + 1)
    BY <1>12, SizesAssumption DEF TakeSlot, SlotAt, Advance, TypeOK
  <2>5. SlotAt(0) = getPos /\ SlotAt(Capacity) = getPos
    BY SizesAssumption DEF SlotAt, TypeOK
  <2>6. Positions'
    BY <1>12, <2>3, <2>4, SizesAssumption DEF TakeSlot, Shape, Positions, TypeOK
  <2>7. ASSUME NEW i \in 0 .. Capacity-1
        PROVE  (buffer'[SlotAt(i + 1)] # NoEvent) <=> i < Written - 1
    <3>1. CASE i = Capacity-1
      BY <1>12, <2>3, <2>5, <3>1, SizesAssumption DEF TakeSlot, TypeOK
    <3>2. CASE i # Capacity-1
      <4>1. i + 1 \in 0 .. Capacity-1 /\ 0 \in 0 .. Capacity-1 /\ i + 1 # 0
        BY <3>2, SizesAssumption
      <4>2. SlotAt(i + 1) # getPos
        BY <4>1, <2>5, SlotGeometry
      <4>3. buffer'[SlotAt(i + 1)] = buffer[SlotAt(i + 1)]
        BY <1>12, <4>1, <4>2, SlotGeometry DEF TakeSlot, TypeOK
      <4>4. QED
        BY <4>1, <4>3, <2>3 DEF Shape, Contents
    <3>3. QED
      BY <3>1, <3>2
  <2>8. QED
    BY <2>3, <2>4, <2>6, <2>7 DEF Shape, Contents
<1>13. CASE Release
  BY <1>13 DEF Release, Shape, Positions, Contents, SlotAt, Written, Committing,
     Count, ringVars, callVars, TypeOK
<1>14. CASE Return
  BY <1>14 DEF Return, Shape, Positions, Contents, SlotAt, Written, Committing,
     Count, ringVars, callVars
<1>15. CASE Again
  BY <1>15 DEF Again, Shape, Positions, Contents, SlotAt, Written, Committing,
     Count, ringVars, callVars
<1>16. CASE TimersDone
  BY <1>16 DEF TimersDone, Shape, Positions, Contents, SlotAt, Written, Committing,
     Count, ringVars, callVars
<1>17. CASE PollWake
  BY <1>17 DEF PollWake, Shape, Positions, Contents, SlotAt, Written, Committing,
     Count, ringVars, callVars
<1>18. CASE WakeStart
  BY <1>18 DEF WakeStart, Shape, Positions, Contents, SlotAt, Written, Committing,
     Count, ringVars, callVars
<1>19. CASE Drain
  BY <1>19 DEF Drain, Shape, Positions, Contents, SlotAt, Written, Committing,
     Count, ringVars, callVars
<1>20. CASE IoDone
  BY <1>20 DEF IoDone, Shape, Positions, Contents, SlotAt, Written, Committing,
     Count, ringVars, callVars
<1>21. CASE PollOther
  BY <1>21 DEF PollOther, Shape, Positions, Contents, SlotAt, Written, Committing,
     Count, ringVars, callVars
<1>22. CASE UNCHANGED vars
  BY <1>22 DEF vars, Shape, Positions, Contents, SlotAt, Written,
     Committing, Count, ringVars, callVars, loopVars
<1>23. QED
  BY <1>1, <1>2, <1>3, <1>4, <1>5, <1>6, <1>7, <1>8, <1>9, <1>10, <1>11,
     <1>12, <1>13, <1>14, <1>15, <1>16, <1>17, <1>18, <1>19, <1>20, <1>21,
     <1>22
     DEF Next, Finish, LoopStep

\* What is moved out of the ring is a callback, and one at a time.
LEMMA CalledStep == TypeOK /\ Room /\ Shape /\ Called /\ [Next]_vars => Called'
<1> SUFFICES ASSUME TypeOK, Room, Shape, Called, [Next]_vars
             PROVE  Called'
  OBVIOUS
<1>1. ASSUME NEW p \in Callers, Call(p) PROVE Called'
  BY <1>1 DEF Call, Called, loopVars
<1>2. ASSUME NEW p \in Quitters, Quit(p) PROVE Called'
  BY <1>2 DEF Quit, Called, loopVars
<1>3. ASSUME NEW p \in Threads, Lock(p) PROVE Called'
  BY <1>3 DEF Lock, Called, loopVars
<1>4. ASSUME NEW p \in Threads, PushTest(p) PROVE Called'
  BY <1>4 DEF PushTest, Called, loopVars
<1>5. ASSUME NEW p \in Threads, Store(p) PROVE Called'
  BY <1>5 DEF Store, Called, loopVars
<1>6. ASSUME NEW p \in Threads, Commit(p) PROVE Called'
  BY <1>6 DEF Commit, Called, loopVars
<1>7. ASSUME NEW p \in Threads, Wake(p) PROVE Called'
  BY <1>7 DEF Wake, Called, loopVars
<1>8. ASSUME NEW p \in Threads, QuitWake(p) PROVE Called'
  BY <1>8 DEF QuitWake, Called, loopVars
<1>9. CASE Start
  BY <1>9 DEF Start, Called
<1>10. CASE TestShutdown
  BY <1>10 DEF TestShutdown, Called
<1>11. CASE PopTest
  BY <1>11 DEF PopTest, Called
<1>12. CASE TakeSlot
  <2>1. Count \in 1 .. Capacity
    BY <1>12 DEF TakeSlot, Count, Room, TypeOK
  <2>2. 0 < Written /\ SlotAt(0) = getPos
    BY <2>1, SizesAssumption DEF Written, SlotAt, TypeOK
  <2>3. buffer[getPos] # NoEvent
    BY <2>2, SizesAssumption DEF Shape, Contents
  <2>4. QED
    BY <1>12, <2>3 DEF TakeSlot, Called
<1>13. CASE Release
  BY <1>13 DEF Release, Called
<1>14. CASE Return
  BY <1>14 DEF Return, Called
<1>15. CASE Again
  BY <1>15 DEF Again, Called
<1>16. CASE TimersDone
  BY <1>16 DEF TimersDone, Called
<1>17. CASE PollWake
  BY <1>17 DEF PollWake, Called
<1>18. CASE WakeStart
  BY <1>18 DEF WakeStart, Called
<1>19. CASE Drain
  BY <1>19 DEF Drain, Called
<1>20. CASE IoDone
  BY <1>20 DEF IoDone, Called
<1>21. CASE PollOther
  BY <1>21 DEF PollOther, Called
<1>22. CASE UNCHANGED vars
  BY <1>22 DEF vars, Called, loopVars
<1>23. QED
  BY <1>1, <1>2, <1>3, <1>4, <1>5, <1>6, <1>7, <1>8, <1>9, <1>10, <1>11,
     <1>12, <1>13, <1>14, <1>15, <1>16, <1>17, <1>18, <1>19, <1>20, <1>21,
     <1>22
     DEF Next, Finish, LoopStep

-----------------------------------------------------------------------------
LEMMA InitIInv == Init => IInv
<1> SUFFICES ASSUME Init
             PROVE  IInv
  OBVIOUS
<1> USE SizesAssumption DEF Init
<1>1. TypeOK
  <2>1. /\ putPos \in 0 .. Capacity-1 /\ getPos \in 0 .. Capacity-1
        /\ numDatas \in 0 .. Capacity /\ pipe \in 0 .. PipeSize
    OBVIOUS
  <2>2. buffer \in [0 .. Capacity-1 -> Events \cup {NoEvent}]
    OBVIOUS
  <2>3. /\ pc \in [Threads -> CallPcs]
        /\ arg \in [Threads -> Events \cup {NoEvent}]
        /\ stored \in [Threads -> BOOLEAN]
    BY DEF CallPcs
  <2>4. /\ shutdown \in BOOLEAN /\ loopPc \in LoopPcs
        /\ current \in Events \cup {NoEvent} /\ ready \in BOOLEAN
    BY DEF LoopPcs
  <2>5. QED
    BY <2>1, <2>2, <2>3, <2>4 DEF TypeOK
<1>2. Mutex /\ Room /\ Args
  BY DEF Mutex, Room, Writing, Args, Critical
<1>3. Written = 0
  BY DEF Written, Committing, Count
<1>4. Shape
  BY <1>3 DEF Shape, Positions, Contents, SlotAt
<1>5. Called
  BY DEF Called
<1>6. QED
  BY <1>1, <1>2, <1>4, <1>5 DEF IInv

LEMMA NextIInv == IInv /\ [Next]_vars => IInv'
  BY TypeStep, MutexStep, RoomStep, ArgsStep, ShapeStep, CalledStep DEF IInv

THEOREM Invariance == Spec => []IInv
  BY InitIInv, NextIInv, PTL DEF Spec

\* Every variable of the event loop keeps its type: in particular _numDatas
\* never leaves 0 .. kMaxTriggetEvents and both positions stay in the ring.
THEOREM TypeCorrect == Spec => []TypeOK
<1>1. IInv => TypeOK
  BY DEF IInv
<1>2. QED
  BY <1>1, Invariance, PTL

\* No callback is overwritten before it ran and no empty slot is executed, for
\* any number of posting threads (RingBuffer's pushData against its pop).
THEOREM RingSafe == Spec => []SlotsDisjoint
<1>1. IInv => SlotsDisjoint
  <2> SUFFICES ASSUME IInv
               PROVE  SlotsDisjoint
    OBVIOUS
  <2> USE SizesAssumption DEF IInv
  <2>1. ASSUME NEW p \in Threads, pc[p] = "store"
        PROVE  buffer[putPos] = NoEvent
    <3>1. ~Committing
      BY <2>1 DEF Mutex, Committing, Critical
    <3>2. Written = Count /\ Count \in 0 .. Capacity-1
      BY <2>1, <3>1 DEF Written, Count, Room, Writing, TypeOK
    <3>3. QED
      BY <3>2 DEF Shape, Positions, Contents
  <2>2. ASSUME loopPc = "take"
        PROVE  buffer[getPos] # NoEvent
    <3>1. 0 < Written /\ SlotAt(0) = getPos
      BY <2>2 DEF Written, Count, SlotAt, Room, TypeOK
    <3>2. QED
      BY <3>1 DEF Shape, Contents
  <2>3. QED
    BY <2>1, <2>2 DEF SlotsDisjoint
<1>2. QED
  BY <1>1, Invariance, PTL

-----------------------------------------------------------------------------
(* The loop never sleeps on work. *)

\* A byte for the loop is in the pipe, or owed by a thread at one of the places.
Awake(places) == pipe > 0 \/ \E p \in Threads : pc[p] \in places

\* After the queue was seen empty, a new callback brings a byte; after _shutdown
\* was read, quit does.  Only the drain, which comes before both tests, takes
\* bytes away.
WakeInv ==
  /\ loopPc \in {"timers", "poll"} /\ numDatas > 0 => Awake({"wake"})
  /\ loopPc \in {"pop", "take", "release", "run", "again", "timers", "poll"}
       /\ shutdown => Awake({"quitWake"})

\* Every step keeps the byte that the loop needs.
LEMMA WakeStep == TypeOK /\ WakeInv /\ [Next]_vars => WakeInv'
<1> SUFFICES ASSUME TypeOK, WakeInv, [Next]_vars
             PROVE  WakeInv'
  OBVIOUS
<1> USE DEF TypeOK, WakeInv, Awake, CallPcs, Critical
<1>1. ASSUME NEW p \in Callers, Call(p) PROVE WakeInv'
  BY <1>1, SizesAssumption DEF Call, CanCall, Threads, ringVars, loopVars
<1>2. ASSUME NEW p \in Quitters, Quit(p) PROVE WakeInv'
  BY <1>2, SizesAssumption DEF Quit, CanCall, Threads, ringVars, loopVars
<1>3. ASSUME NEW p \in Threads, Lock(p) PROVE WakeInv'
  BY <1>3, SizesAssumption DEF Lock, CanCall, Threads, ringVars, loopVars
<1>4. ASSUME NEW p \in Threads, PushTest(p) PROVE WakeInv'
  BY <1>4, SizesAssumption DEF PushTest, CanCall, Threads, ringVars, loopVars
<1>5. ASSUME NEW p \in Threads, Store(p) PROVE WakeInv'
  BY <1>5, SizesAssumption DEF Store, CanCall, Threads, ringVars, loopVars
<1>6. ASSUME NEW p \in Threads, Commit(p) PROVE WakeInv'
  BY <1>6, SizesAssumption DEF Commit, CanCall, Threads, ringVars, loopVars
<1>7. ASSUME NEW p \in Threads, Wake(p) PROVE WakeInv'
  <2>1. pipe' > 0
    BY <1>7, SizesAssumption DEF Wake, WritePipe
  <2>2. QED
    BY <1>7, <2>1 DEF Wake
<1>8. ASSUME NEW p \in Threads, QuitWake(p) PROVE WakeInv'
  <2>1. pipe' > 0
    BY <1>8, SizesAssumption DEF QuitWake, WritePipe
  <2>2. QED
    BY <1>8, <2>1 DEF QuitWake
<1>9. CASE Start
  BY <1>9 DEF Start, ringVars, callVars
<1>10. CASE TestShutdown
  BY <1>10 DEF TestShutdown, ringVars, callVars
<1>11. CASE PopTest
  BY <1>11 DEF PopTest, ringVars, callVars
<1>12. CASE TakeSlot
  BY <1>12 DEF TakeSlot, ringVars, callVars
<1>13. CASE Release
  BY <1>13 DEF Release, ringVars, callVars
<1>14. CASE Return
  BY <1>14 DEF Return, ringVars, callVars
<1>15. CASE Again
  BY <1>15 DEF Again, ringVars, callVars
<1>16. CASE TimersDone
  BY <1>16 DEF TimersDone, ringVars, callVars
<1>17. CASE PollWake
  BY <1>17 DEF PollWake, ringVars, callVars
<1>18. CASE WakeStart
  BY <1>18 DEF WakeStart, ringVars, callVars
<1>19. CASE Drain
  BY <1>19 DEF Drain, ringVars, callVars
<1>20. CASE IoDone
  BY <1>20 DEF IoDone, ringVars, callVars
<1>21. CASE PollOther
  BY <1>21 DEF PollOther, ringVars, callVars
<1>22. CASE UNCHANGED vars
  BY <1>22 DEF vars, ringVars, callVars, loopVars
<1>23. QED
  BY <1>1, <1>2, <1>3, <1>4, <1>5, <1>6, <1>7, <1>8, <1>9, <1>10, <1>11,
     <1>12, <1>13, <1>14, <1>15, <1>16, <1>17, <1>18, <1>19, <1>20, <1>21,
     <1>22
     DEF Next, Finish, LoopStep

\* While the loop is in epoll_wait and a callback is queued or quit was called,
\* a byte is in the pipe or on its way (addTriggerEvent, quit, wake): nothing
\* that is posted waits for the next timer or for the next client.
THEOREM NeverSleepsOnWork == Spec => []NoLostWakeup
<1>1. Init => WakeInv
  BY DEF Init, WakeInv
<1>2. IInv => TypeOK
  BY DEF IInv
<1>3. WakeInv => NoLostWakeup
  BY DEF WakeInv, Awake, NoLostWakeup
<1>4. Spec => []WakeInv
  BY <1>1, <1>2, WakeStep, Invariance, PTL DEF Spec
<1>5. QED
  BY <1>3, <1>4, PTL

-----------------------------------------------------------------------------
(* One posting thread. *)

\* With a single caller c the place found by the unlocked test is still free when
\* pushData looks again.
OneCallerInv(c) ==
  /\ \A p \in Threads : p # c => pc[p] \in {"idle", "quitWake"}
  /\ pc[c] \in {"lock", "push"} => numDatas < Capacity
  /\ pc[c] \in {"store", "commit", "wake"} => stored[c]

\* Every step keeps the promise made to the only caller.
LEMMA OneCallerStep ==
  ASSUME NEW c, Callers = {c}, TypeOK, OneCallerInv(c), [Next]_vars
  PROVE  OneCallerInv(c)'
<1> USE DEF TypeOK, OneCallerInv, Critical, CallPcs, ringVars, callVars, loopVars
<1>1. ASSUME NEW p \in Callers, Call(p) PROVE OneCallerInv(c)'
  BY <1>1 DEF Call, Threads, CanCall
<1>2. ASSUME NEW p \in Quitters, Quit(p) PROVE OneCallerInv(c)'
  BY <1>2 DEF Quit, Threads, CanCall
<1>3. ASSUME NEW p \in Threads, Lock(p) PROVE OneCallerInv(c)'
  BY <1>3 DEF Lock, Threads
<1>4. ASSUME NEW p \in Threads, PushTest(p) PROVE OneCallerInv(c)'
  BY <1>4 DEF PushTest, Threads
<1>5. ASSUME NEW p \in Threads, Store(p) PROVE OneCallerInv(c)'
  BY <1>5 DEF Store, Threads
<1>6. ASSUME NEW p \in Threads, Commit(p) PROVE OneCallerInv(c)'
  BY <1>6 DEF Commit, Threads
<1>7. ASSUME NEW p \in Threads, Wake(p) PROVE OneCallerInv(c)'
  BY <1>7 DEF Wake, Threads
<1>8. ASSUME NEW p \in Threads, QuitWake(p) PROVE OneCallerInv(c)'
  BY <1>8 DEF QuitWake, Threads
<1>9. CASE Start
  BY <1>9 DEF Start
<1>10. CASE TestShutdown
  BY <1>10 DEF TestShutdown
<1>11. CASE PopTest
  BY <1>11 DEF PopTest
<1>12. CASE TakeSlot
  BY <1>12 DEF TakeSlot
<1>13. CASE Release
  BY <1>13, SizesAssumption DEF Release
<1>14. CASE Return
  BY <1>14 DEF Return
<1>15. CASE Again
  BY <1>15 DEF Again
<1>16. CASE TimersDone
  BY <1>16 DEF TimersDone
<1>17. CASE PollWake
  BY <1>17 DEF PollWake
<1>18. CASE WakeStart
  BY <1>18 DEF WakeStart
<1>19. CASE Drain
  BY <1>19 DEF Drain
<1>20. CASE IoDone
  BY <1>20 DEF IoDone
<1>21. CASE PollOther
  BY <1>21 DEF PollOther
<1>22. CASE UNCHANGED vars
  BY <1>22 DEF vars
<1>23. QED
  BY <1>1, <1>2, <1>3, <1>4, <1>5, <1>6, <1>7, <1>8, <1>9, <1>10, <1>11,
     <1>12, <1>13, <1>14, <1>15, <1>16, <1>17, <1>18, <1>19, <1>20, <1>21,
     <1>22
     DEF Next, Finish, LoopStep

\* If one thread posts, addTriggerEvent returns true only for a queued callback;
\* with two the run event_loop_race refutes it.
THEOREM OneCallerIsSafe ==
  ASSUME NEW CONSTANT c, Callers = {c}
  PROVE  Spec => []AcceptedIsQueued
<1>1. Init => OneCallerInv(c)
  BY DEF Init, OneCallerInv, Threads
<1>2. IInv => TypeOK
  BY DEF IInv
<1>3. TypeOK /\ OneCallerInv(c) /\ [Next]_vars => OneCallerInv(c)'
  BY OneCallerStep
<1>4. OneCallerInv(c) => AcceptedIsQueued
  BY DEF OneCallerInv, AcceptedIsQueued
<1>5. Spec => []OneCallerInv(c)
  BY <1>1, <1>2, <1>3, Invariance, PTL DEF Spec
<1>6. QED
  BY <1>4, <1>5, PTL

-----------------------------------------------------------------------------
(* EventLoop implements Mailbox. *)

\* What the queue holds is a sequence of callbacks, read from the ring.
QueueShape ==
  /\ Count \in 0 .. Capacity
  /\ MailQueue \in Seq(Events)
  /\ Len(MailQueue) = Count
  /\ \A i \in 1 .. Count : MailQueue[i] = buffer[SlotAt(i - 1)]

LEMMA QueueIsSeq == IInv => QueueShape
<1> SUFFICES ASSUME IInv
             PROVE  QueueShape
  OBVIOUS
<1>1. Count \in 0 .. Capacity /\ Count <= Written
  BY SizesAssumption DEF IInv, TypeOK, Room, Count, Written
<1>2. \A i \in 1 .. Count : buffer[SlotAt(i - 1)] \in Events
  <2> TAKE i \in 1 .. Count
  <2>1. i - 1 \in 0 .. Capacity-1 /\ i - 1 < Written
    BY <1>1, SizesAssumption DEF IInv, TypeOK, Room, Count, Written
  <2>2. buffer[SlotAt(i - 1)] # NoEvent
    BY <2>1 DEF IInv, Shape, Contents
  <2>3. SlotAt(i - 1) \in 0 .. Capacity-1
    BY <2>1, SlotGeometry, SizesAssumption DEF IInv
  <2>4. QED
    BY <2>2, <2>3 DEF IInv, TypeOK
<1>3. MailQueue \in [1 .. Count -> Events]
  BY <1>2 DEF MailQueue
<1>4. QED
  BY <1>1, <1>3, SeqDef DEF MailQueue, QueueShape

\* Nothing the mailbox sees changes.
LEMMA QueueUnchanged ==
  ASSUME IInv, Count' = Count, getPos' = getPos, current' = current,
         \A i \in 1 .. Count : buffer'[SlotAt(i - 1)] = buffer[SlotAt(i - 1)]
  PROVE  UNCHANGED Mail!vars
<1>1. \A i : SlotAt(i)' = SlotAt(i)
  BY DEF SlotAt
<1>2. MailQueue' = MailQueue
  BY <1>1 DEF MailQueue
<1>3. QED
  BY <1>2 DEF Mail!vars

\* Counting a written callback is the mailbox's Post.
LEMMA CommitIsPost ==
  ASSUME IInv, IInv', NEW p \in Threads, Commit(p)
  PROVE  Mail!Post
<1>1. Count' = Count + 1 /\ getPos' = getPos /\ buffer' = buffer
  BY DEF Commit, Count, IInv, TypeOK, loopVars
<1>2. \A i : SlotAt(i)' = SlotAt(i)
  BY <1>1 DEF SlotAt
<1> DEFINE e == buffer[SlotAt(Count)]
<1>3. Count \in Nat /\ Count < Capacity
  BY SizesAssumption DEF Commit, Count, IInv, TypeOK, Room, Writing
<1>4. /\ MailQueue \in Seq(Events) /\ Len(MailQueue) = Count
      /\ \A i \in 1 .. Count : MailQueue[i] = buffer[SlotAt(i - 1)]
  BY QueueIsSeq DEF QueueShape
<1>5. /\ MailQueue' \in Seq(Events) /\ Len(MailQueue') = Count + 1
      /\ \A i \in 1 .. Count + 1 : MailQueue'[i] = buffer[SlotAt(i - 1)]
  <2>1. QueueShape'
    BY QueueIsSeq, PTL
  <2>2. QED
    BY <2>1, <1>1, <1>2 DEF QueueShape
<1>6. e \in Events
  <2>1. Count + 1 \in 1 .. Count + 1 /\ (Count + 1) - 1 = Count
    BY <1>3
  <2>2. MailQueue'[Count + 1] = e
    BY <1>5, <2>1
  <2>3. QED
    BY <1>5, <2>1, <2>2, ElementOfSeq
<1>7. /\ Append(MailQueue, e) \in Seq(Events)
      /\ Len(Append(MailQueue, e)) = Count + 1
      /\ \A i \in 1 .. Count + 1 : Append(MailQueue, e)[i] = buffer[SlotAt(i - 1)]
  BY <1>3, <1>4, <1>6, AppendProperties
<1>8. MailQueue' = Append(MailQueue, e)
  BY <1>5, <1>7, SeqEqual
<1>9. current' = current
  BY DEF Commit, loopVars
<1>10. QED
  BY <1>3, <1>4, <1>6, <1>8, <1>9 DEF Mail!Post

\* Moving a slot out is the mailbox's Take.
LEMMA TakeSlotIsTake ==
  ASSUME IInv, IInv', TakeSlot
  PROVE  Mail!Take
<1>1. Count \in 1 .. Capacity /\ Count' = Count - 1
  BY DEF TakeSlot, Count, IInv, TypeOK, Room
<1>2. \A i \in 0 .. Capacity-1 : SlotAt(i)' = SlotAt(i + 1)
  <2>1. TypeOK
    BY DEF IInv
  <2>2. QED
    BY <2>1, SizesAssumption DEF TakeSlot, SlotAt, Advance, TypeOK
<1>3. SlotAt(0) = getPos /\ 0 \in 0 .. Capacity-1
  BY SizesAssumption DEF SlotAt, IInv, TypeOK
<1>4. /\ MailQueue \in Seq(Events) /\ Len(MailQueue) = Count
      /\ \A i \in 1 .. Count : MailQueue[i] = buffer[SlotAt(i - 1)]
  BY QueueIsSeq DEF QueueShape
<1>5. /\ MailQueue' \in Seq(Events) /\ Len(MailQueue') = Count - 1
      /\ \A i \in 1 .. Count - 1 : MailQueue'[i] = buffer[SlotAt(i)]
  <2>1. QueueShape'
    BY QueueIsSeq, PTL
  <2>2. ASSUME NEW i \in 1 .. Count - 1
        PROVE  SlotAt(i - 1)' = SlotAt(i) /\ buffer'[SlotAt(i)] = buffer[SlotAt(i)]
    <3>1. i - 1 \in 0 .. Capacity-1 /\ i \in 0 .. Capacity-1 /\ i # 0 /\ (i - 1) + 1 = i
      BY <1>1, SizesAssumption
    <3>2. SlotAt(i - 1)' = SlotAt(i)
      BY <3>1, <1>2
    <3>3. SlotAt(i) # getPos /\ SlotAt(i) \in 0 .. Capacity-1
      BY <3>1, <1>3, SlotGeometry, SizesAssumption DEF IInv
    <3>4. QED
      BY <3>2, <3>3 DEF TakeSlot, IInv, TypeOK
  <2>3. QED
    BY <2>1, <2>2, <1>1 DEF QueueShape
<1>6. MailQueue # <<>> /\ Head(MailQueue) = buffer[getPos]
  <2>1. MailQueue # <<>>
    BY <1>1, <1>4, EmptySeq
  <2>2. MailQueue[1] = buffer[getPos]
    BY <1>1, <1>3, <1>4
  <2>3. QED
    BY <2>1, <2>2
<1>7. MailQueue' = Tail(MailQueue)
  <2>1. /\ Tail(MailQueue) \in Seq(Events) /\ Len(Tail(MailQueue)) = Count - 1
        /\ \A i \in 1 .. Count - 1 : Tail(MailQueue)[i] = MailQueue[i + 1]
    BY <1>4, <1>6, HeadTailProperties
  <2>2. \A i \in 1 .. Count - 1 : MailQueue[i + 1] = buffer[SlotAt(i)]
    <3> TAKE i \in 1 .. Count - 1
    <3>1. i + 1 \in 1 .. Count /\ (i + 1) - 1 = i
      BY <1>1
    <3>2. QED
      BY <1>4, <3>1
  <2>3. QED
    BY <2>1, <2>2, <1>5, SeqEqual
<1>8. current = NoEvent /\ current' = buffer[getPos]
  BY DEF TakeSlot, IInv, Called
<1>9. QED
  BY <1>6, <1>7, <1>8 DEF Mail!Take

\* Every step of the event loop is a step of the mailbox or leaves it alone.
LEMMA StepRefines ==
  ASSUME IInv, IInv', [Next]_vars
  PROVE  [Mail!Next]_(Mail!vars)
<1>1. ASSUME NEW p \in Callers, Call(p) PROVE [Mail!Next]_(Mail!vars)
  BY <1>1, QueueUnchanged DEF Call, Count, ringVars, loopVars
<1>2. ASSUME NEW p \in Quitters, Quit(p) PROVE [Mail!Next]_(Mail!vars)
  BY <1>2, QueueUnchanged DEF Quit, Count, ringVars, loopVars
<1>3. ASSUME NEW p \in Threads, Lock(p) PROVE [Mail!Next]_(Mail!vars)
  BY <1>3, QueueUnchanged DEF Lock, Count, ringVars, loopVars
<1>4. ASSUME NEW p \in Threads, PushTest(p) PROVE [Mail!Next]_(Mail!vars)
  BY <1>4, QueueUnchanged DEF PushTest, Count, ringVars, loopVars
<1>5. ASSUME NEW p \in Threads, Store(p) PROVE [Mail!Next]_(Mail!vars)
  <2>1. Count' = Count /\ getPos' = getPos /\ current' = current
    BY <1>5 DEF Store, Count, loopVars
  <2>2. ~Committing
    BY <1>5 DEF Store, IInv, Mutex, Committing, Critical, Threads
  <2>3. Written = Count /\ Count \in 0 .. Capacity-1 /\ putPos = SlotAt(Count)
    BY <1>5, <2>2, SizesAssumption
       DEF Store, Written, Count, IInv, TypeOK, Room, Writing, Shape, Positions
  <2>4. ASSUME NEW i \in 1 .. Count
        PROVE  buffer'[SlotAt(i - 1)] = buffer[SlotAt(i - 1)]
    <3>1. i - 1 \in 0 .. Capacity-1 /\ Count \in 0 .. Capacity-1 /\ i - 1 # Count
      BY <2>3, SizesAssumption
    <3>2. SlotAt(i - 1) # putPos
      BY <3>1, <2>3, SlotGeometry DEF IInv
    <3>3. SlotAt(i - 1) \in 0 .. Capacity-1
      BY <3>1, SlotGeometry, SizesAssumption DEF IInv
    <3>4. QED
      BY <1>5, <3>2, <3>3 DEF Store, IInv, TypeOK
  <2>5. QED
    BY <2>1, <2>4, QueueUnchanged
<1>6. ASSUME NEW p \in Threads, Commit(p) PROVE [Mail!Next]_(Mail!vars)
  BY <1>6, CommitIsPost DEF Mail!Next
<1>7. ASSUME NEW p \in Threads, Wake(p) PROVE [Mail!Next]_(Mail!vars)
  BY <1>7, QueueUnchanged DEF Wake, Count, ringVars, loopVars
<1>8. ASSUME NEW p \in Threads, QuitWake(p) PROVE [Mail!Next]_(Mail!vars)
  BY <1>8, QueueUnchanged DEF QuitWake, Count, ringVars, loopVars
<1>9. CASE Start
  BY <1>9, QueueUnchanged DEF Start, Count, ringVars
<1>10. CASE TestShutdown
  BY <1>10, QueueUnchanged DEF TestShutdown, Count, ringVars
<1>11. CASE PopTest
  BY <1>11, QueueUnchanged DEF PopTest, Count, ringVars
<1>12. CASE TakeSlot
  BY <1>12, TakeSlotIsTake DEF Mail!Next
<1>13. CASE Release
  <2>1. Count' = Count
    BY <1>13 DEF Release, Count
  <2>2. QED
    BY <1>13, <2>1, QueueUnchanged DEF Release
<1>14. CASE Return
  <2>1. MailQueue' = MailQueue
    BY <1>14 DEF Return, MailQueue, Count, SlotAt, ringVars
  <2>2. QED
    BY <1>14, <2>1 DEF Return, IInv, Called, Mail!Next, Mail!Finish
<1>15. CASE Again
  BY <1>15, QueueUnchanged DEF Again, Count, ringVars
<1>16. CASE TimersDone
  BY <1>16, QueueUnchanged DEF TimersDone, Count, ringVars
<1>17. CASE PollWake
  BY <1>17, QueueUnchanged DEF PollWake, Count, ringVars
<1>18. CASE WakeStart
  BY <1>18, QueueUnchanged DEF WakeStart, Count, ringVars
<1>19. CASE Drain
  BY <1>19, QueueUnchanged DEF Drain, Count, ringVars
<1>20. CASE IoDone
  BY <1>20, QueueUnchanged DEF IoDone, Count, ringVars
<1>21. CASE PollOther
  BY <1>21, QueueUnchanged DEF PollOther, Count, ringVars
<1>22. CASE UNCHANGED vars
  BY <1>22, QueueUnchanged DEF vars, Count, ringVars, loopVars
<1>23. QED
  BY <1>1, <1>2, <1>3, <1>4, <1>5, <1>6, <1>7, <1>8, <1>9, <1>10, <1>11,
     <1>12, <1>13, <1>14, <1>15, <1>16, <1>17, <1>18, <1>19, <1>20, <1>21,
     <1>22
     DEF Next, Finish, LoopStep

\* The initial ring is the empty mailbox.
LEMMA InitRefines == Init => Mail!Init
<1> SUFFICES ASSUME Init
             PROVE  Mail!Init
  OBVIOUS
<1>1. Count = 0 /\ current = NoEvent
  BY DEF Init, Count
<1>2. MailQueue \in Seq(Events) /\ Len(MailQueue) = 0
  BY <1>1, InitIInv, QueueIsSeq DEF QueueShape
<1>3. MailQueue = <<>>
  BY <1>2, EmptySeq
<1>4. QED
  BY <1>1, <1>3 DEF Mail!Init

\* The ring buffer, the counter and the pipe implement the mailbox: each callback
\* that is counted in runs at most once, callbacks run in the order of entry and
\* one at a time (RingBuffer, addTriggerEvent, handleTriggerEvent).
THEOREM ImplementsMailbox == Spec => MailboxSpec
<1>1. IInv /\ IInv' /\ [Next]_vars => [Mail!Next]_(Mail!vars)
  BY StepRefines
<1>2. QED
  BY <1>1, InitRefines, Invariance, PTL DEF Spec, MailboxSpec, Mail!Spec

=============================================================================
