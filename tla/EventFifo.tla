----------------------------- MODULE EventFifo ------------------------------
(***************************************************************************)
(* What the event queue promises its users: a bounded first-in first-out   *)
(* queue whose events carry consecutive numbers.                           *)
(***************************************************************************)
EXTENDS Naturals, Sequences

CONSTANTS Data,       \* contents of an event
          Capacity    \* MAX_NUM_EVENTS

VARIABLES fifo,       \* the queued events, oldest first
          next        \* the number of the next event

vars == <<fifo, next>>

Init == fifo = <<>> /\ next = 0

Push(d) ==
    /\ Len(fifo) < Capacity
    /\ fifo' = Append(fifo, [seq_num |-> next, data |-> d])
    /\ next' = next + 1

Pop ==
    /\ fifo # <<>>
    /\ fifo' = Tail(fifo)
    /\ UNCHANGED next

\* Take back the newest events, and their numbers.
Revert(n) ==
    /\ n <= Len(fifo)
    /\ fifo' = SubSeq(fifo, 1, n)
    /\ next' = next - (Len(fifo) - n)

Next == \/ \E d \in Data : Push(d)
        \/ Pop
        \/ \E n \in 0 .. Capacity : Revert(n)

Spec == Init /\ [][Next]_vars
=============================================================================
