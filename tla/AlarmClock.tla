----------------------------- MODULE AlarmClock -----------------------------
(***************************************************************************)
(* What addTimer and removeTimer promise to the rest of the RTSP server:   *)
(* an alarm clock.  Each alarm has its own number and rings when its time  *)
(* has come, the earliest first, one at a time; when it has rung it is     *)
(* gone or set to a later time; one that was taken off never rings.        *)
(* TimerQueue implements this with two maps and the passes of the loop.    *)
(***************************************************************************)
EXTENDS Integers

CONSTANT None      \* "no alarm"

VARIABLES time,
          last,     \* the number of the last alarm that was set
          due,      \* the alarms that are set, and their times
          ringing   \* the alarm whose callback runs, or None

vars == <<time, last, due, ringing>>

Init == time = 0 /\ last = 0 /\ due = [i \in {} |-> 0] /\ ringing = None

\* The other alarms keep their times.
Keeps(alarms) == \A i \in alarms : due'[i] = due[i]

\* A new alarm gets the next number, and any time to come.
Set == /\ ringing = None
       /\ last' = last + 1
       /\ due' \in [DOMAIN due \cup {last'} -> Int]
       /\ Keeps(DOMAIN due) /\ due'[last'] >= time
       /\ UNCHANGED <<time, ringing>>

\* An alarm is taken off.
Cancel == /\ ringing = None
          /\ \E id \in DOMAIN due : due' \in [DOMAIN due \ {id} -> Int]
          /\ Keeps(DOMAIN due')
          /\ UNCHANGED <<time, last, ringing>>

\* The first alarm rings, by time and then by number.
Ring == /\ ringing = None
        /\ \E id \in DOMAIN due :
             /\ due[id] <= time
             /\ \A i \in DOMAIN due : due[id] < due[i] \/ (due[id] = due[i] /\ id <= i)
             /\ ringing' = id
        /\ UNCHANGED <<time, last, due>>

\* It has rung, for the last time ...
Done == /\ due' \in [DOMAIN due \ {ringing} -> Int]
        /\ Keeps(DOMAIN due')

\* ... or not.
Again == /\ due' \in [DOMAIN due -> Int]
         /\ Keeps(DOMAIN due \ {ringing}) /\ due'[ringing] > due[ringing]

Stop == /\ ringing # None /\ ringing' = None
        /\ Done \/ Again
        /\ UNCHANGED <<time, last>>

Tick == /\ time' > time
        /\ UNCHANGED <<last, due, ringing>>

Next == Set \/ Cancel \/ Ring \/ Stop \/ Tick

Spec == Init /\ [][Next]_vars
=============================================================================
