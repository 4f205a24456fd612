----------------------------- MODULE EventQueue -----------------------------
(***************************************************************************)
(* The event queue of a perp market: a ring buffer in a fixed array.       *)
(***************************************************************************)
EXTENDS Integers, Sequences

CONSTANTS Data,       \* contents of an event
          BufLen,     \* MAX_NUM_EVENTS, the length of buf
          ZeroEvent,  \* what a freshly allocated account holds in buf
          MaxSeqNum   \* bound on the event counter

ASSUME BufLenAssumption == BufLen \in Nat \ {0}
ASSUME MaxSeqNumAssumption == MaxSeqNum \in Nat
ASSUME ZeroEventAssumption == ZeroEvent \in [seq_num : Nat, data : Data]

VARIABLES buf, head, count, seq_num

vars == <<buf, head, count, seq_num>>

Indices == 0 .. BufLen - 1
AnyEvents == [seq_num : Nat, data : Data]

Full == count = BufLen
IsEmpty == count = 0

\* The array index of the i-th queued event, counted from 0.
SlotAt(i) == (head + i) % BufLen

\* Mutant: the newest event is overwritten.
PushBackOverNewest(d) ==
    /\ seq_num < MaxSeqNum
    /\ ~Full
    /\ buf' = [buf EXCEPT ![SlotAt(count - 1)] = [seq_num |-> seq_num, data |-> d]]
    /\ count' = count + 1
    /\ seq_num' = seq_num + 1
    /\ UNCHANGED head

\* Events are stamped with the header's counter by whoever builds them.
PushBack(d) ==
    /\ seq_num < MaxSeqNum
    /\ ~Full
    /\ buf' = [buf EXCEPT ![SlotAt(count)] = [seq_num |-> seq_num, data |-> d]]
    /\ count' = count + 1
    /\ seq_num' = seq_num + 1
    /\ UNCHANGED head

PopFront ==
    /\ ~IsEmpty
    /\ count' = count - 1
    /\ head' = SlotAt(1)
    /\ UNCHANGED <<buf, seq_num>>

RevertPushes(desired_len) ==
    /\ desired_len <= count
    /\ count' = desired_len
    /\ seq_num' = seq_num - (count - desired_len)
    /\ UNCHANGED <<buf, head>>

Init ==
    /\ buf = [i \in Indices |-> ZeroEvent]
    /\ head = 0 /\ count = 0 /\ seq_num = 0

Next == \/ \E d \in Data : PushBack(d)
        \/ PopFront
        \/ \E n \in 0 .. BufLen : RevertPushes(n)

Spec == Init /\ [][Next]_vars

-----------------------------------------------------------------------------
\* Head and count stay within the array, and the counter never falls below zero,
\* through wrap-around and revert_pushes.
TypeOK ==
    /\ buf \in [Indices -> AnyEvents]
    /\ head \in Indices
    /\ count \in 0 .. BufLen
    /\ seq_num \in Nat

\* The events iter() yields.
Contents == [i \in 1 .. count |-> buf[SlotAt(i - 1)]]

\* The queued events are numbered consecutively up to the header's counter, so
\* a reader who knows one number can place every event; a wrong wrap-around of
\* push_back, or a revert_pushes that forgets the counter, breaks this.
NumbersAreConsecutive ==
    \A i \in 1 .. count : Contents[i].seq_num = seq_num - count + i - 1

\* The ring buffer is a queue: push_back appends to what iter() yields,
\* pop_front removes the oldest, revert_pushes the newest, and nothing else
\* in the array shows.
Fifo == INSTANCE EventFifo WITH Capacity <- BufLen, fifo <- Contents,
                                next <- seq_num

\* Read from head on, the ring buffer is a bounded first-in first-out queue.
ImplementsFifo == Fifo!Spec
=============================================================================
