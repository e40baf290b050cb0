------------------------------ MODULE Mailbox ------------------------------
(***************************************************************************)
(* What addTriggerEvent promises to the rest of the RTSP server: a bounded *)
(* mailbox in front of one thread.  A callback that entered the mailbox    *)
(* leaves it once, in the order of entry, and callbacks run one at a time. *)
(* EventLoop implements this with a ring buffer, an atomic counter and a   *)
(* wake-up pipe.                                                           *)
(***************************************************************************)
EXTENDS Naturals, Sequences

CONSTANTS Events,    \* the callbacks
          NoEvent,   \* "no callback"
          Capacity   \* kMaxTriggetEvents

VARIABLES queue,     \* callbacks accepted and not yet started, oldest first
          running    \* the callback being executed, or NoEvent

vars == <<queue, running>>

Init == queue = <<>> /\ running = NoEvent

\* Any thread adds a callback to a mailbox that has room.
Post == /\ Len(queue) < Capacity
        /\ \E e \in Events : queue' = Append(queue, e)
        /\ UNCHANGED running

\* The loop thread takes the oldest callback; it is idle when it does.
Take == /\ queue # <<>>
        /\ running = NoEvent
        /\ running' = Head(queue)
        /\ queue' = Tail(queue)

\* The callback returns.
Finish == /\ running # NoEvent
          /\ running' = NoEvent
          /\ UNCHANGED queue

Next == Post \/ Take \/ Finish

Spec == Init /\ [][Next]_vars
=============================================================================
