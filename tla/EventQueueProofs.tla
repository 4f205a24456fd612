-------------------------- MODULE EventQueueProofs --------------------------
(***************************************************************************)
(* The ring buffer of the event queue implements a first-in first-out      *)
(* queue, for an array of any length.                                      *)
(***************************************************************************)
EXTENDS EventQueue, SequenceTheorems, TLAPS

\* An index and an offset that are both within the array wrap at most once.
LEMMA WrapsOnce ==
    ASSUME NEW h \in Indices, NEW i \in 0 .. BufLen
    PROVE  (h + i) % BufLen = IF h + i < BufLen THEN h + i ELSE h + i - BufLen
  BY BufLenAssumption DEF Indices

\* The header invariant of the proofs: the counter covers the queued events,
\* which is what revert_pushes subtracts from.
CounterCoversQueue == count <= seq_num

Inv == TypeOK /\ CounterCoversQueue

\* The header invariant is inductive: push_back, pop_front and revert_pushes
\* preserve it.
LEMMA HeaderInvariant == Spec => []Inv
  <1>1. Init => Inv
    BY BufLenAssumption, ZeroEventAssumption
    DEF Init, Inv, TypeOK, CounterCoversQueue, Indices, AnyEvents
  <1>2. Inv /\ [Next]_vars => Inv'
    <2> SUFFICES ASSUME Inv, [Next]_vars PROVE Inv'
      OBVIOUS
    <2> USE BufLenAssumption DEF Inv, TypeOK, CounterCoversQueue, Indices, AnyEvents
    <2>1. ASSUME NEW d \in Data, PushBack(d) PROVE Inv'
      <3>1. SlotAt(count) \in Indices
        BY WrapsOnce, count \in 0 .. BufLen DEF SlotAt
      <3>2. QED  BY <2>1, <3>1 DEF PushBack, Full
    <2>2. CASE PopFront
      <3>1. SlotAt(1) \in Indices
        BY WrapsOnce, 1 \in 0 .. BufLen DEF SlotAt
      <3>2. QED  BY <2>2, <3>1 DEF PopFront, IsEmpty
    <2>3. ASSUME NEW n \in 0 .. BufLen, RevertPushes(n) PROVE Inv'
      BY <2>3 DEF RevertPushes
    <2>4. CASE UNCHANGED vars
      BY <2>4 DEF vars
    <2>5. QED  BY <2>1, <2>2, <2>3, <2>4 DEF Next
  <1>3. QED  BY <1>1, <1>2, PTL DEF Spec

\* The header stays within the array and its counter a natural number, whatever
\* is pushed, popped and reverted.
THEOREM TypeCorrect == Spec => []TypeOK
  <1>1. Inv => TypeOK
    BY DEF Inv
  <1>2. QED  BY <1>1, HeaderInvariant, PTL

-----------------------------------------------------------------------------
\* What iter() yields is a sequence of as many events as the header counts.
LEMMA ContentsIsSeq ==
    ASSUME TypeOK
    PROVE  /\ Contents \in Seq(AnyEvents)
           /\ Len(Contents) = count
           /\ \A i \in 1 .. count : SlotAt(i - 1) \in Indices
  <1>1. ASSUME NEW i \in 1 .. count PROVE SlotAt(i - 1) \in Indices
    <2>1. i - 1 \in 0 .. BufLen
      BY BufLenAssumption DEF TypeOK
    <2>2. QED  BY <2>1, WrapsOnce, BufLenAssumption DEF TypeOK, Indices, SlotAt
  <1>2. QED  BY <1>1 DEF TypeOK, Contents

\* A sequence is the function of its elements.
LEMMA SeqIsFunction ==
    ASSUME NEW S, NEW s \in Seq(S)
    PROVE  s = [i \in 1 .. Len(s) |-> s[i]]
  BY LenProperties

\* push_back writes behind the newest event and disturbs no other.
LEMMA PushAppends ==
    ASSUME TypeOK, TypeOK', NEW d \in Data, PushBack(d)
    PROVE  Contents' = Append(Contents, [seq_num |-> seq_num, data |-> d])
  <1> DEFINE e == [seq_num |-> seq_num, data |-> d]
  <1> USE BufLenAssumption
  <1>1. count \in 0 .. BufLen - 1 /\ count' = count + 1 /\ head' = head
    BY DEF PushBack, Full, TypeOK
  <1>2. SlotAt(count) \in Indices
    BY <1>1, WrapsOnce DEF SlotAt, TypeOK, Indices
  <1>3. ASSUME NEW i \in 1 .. count
        PROVE  /\ SlotAt(i - 1)' = SlotAt(i - 1)
               /\ SlotAt(i - 1) \in Indices
               /\ SlotAt(i - 1) # SlotAt(count)
    <2>1. i - 1 \in 0 .. BufLen /\ count \in 0 .. BufLen /\ i - 1 < count
      BY <1>1
    <2>2. SlotAt(i - 1) = IF head + (i - 1) < BufLen THEN head + (i - 1)
                          ELSE head + (i - 1) - BufLen
      BY <2>1, WrapsOnce DEF SlotAt, TypeOK
    <2>3. SlotAt(count) = IF head + count < BufLen THEN head + count
                          ELSE head + count - BufLen
      BY <2>1, WrapsOnce DEF SlotAt, TypeOK
    <2>4. QED  BY <1>1, <2>1, <2>2, <2>3 DEF SlotAt, TypeOK, Indices
  <1>4. ASSUME NEW i \in 1 .. count PROVE Contents'[i] = Contents[i]
    BY <1>1, <1>2, <1>3 DEF Contents, PushBack, TypeOK
  <1>5. Contents'[count + 1] = e
    BY <1>1, <1>2 DEF Contents, PushBack, TypeOK, SlotAt
  <1>6. Contents \in Seq(AnyEvents) /\ Len(Contents) = count
    BY ContentsIsSeq
  <1>7. Contents' = [i \in 1 .. count + 1 |-> Contents'[i]]
    BY <1>1 DEF Contents
  <1>8. Append(Contents, e) = [i \in 1 .. count + 1 |-> Append(Contents, e)[i]]
    BY <1>1, <1>6
  <1>9. ASSUME NEW i \in 1 .. count + 1 PROVE Contents'[i] = Append(Contents, e)[i]
    <2>1. CASE i \in 1 .. count
      BY <1>1, <1>4, <1>6, <2>1
    <2>2. CASE i = count + 1
      BY <1>1, <1>5, <1>6, <2>2
    <2>3. i \in 1 .. count \/ i = count + 1
      BY <1>1
    <2>4. QED  BY <2>1, <2>2, <2>3
  <1>10. QED  BY <1>7, <1>8, <1>9

\* pop_front steps over the oldest event and disturbs no other.
LEMMA PopRemovesFirst ==
    ASSUME TypeOK, TypeOK', PopFront
    PROVE  Contents # <<>> /\ Contents' = Tail(Contents)
  <1> USE BufLenAssumption
  <1>1. /\ count \in 1 .. BufLen /\ count' = count - 1
        /\ head' = SlotAt(1) /\ buf' = buf
    BY DEF PopFront, IsEmpty, TypeOK
  <1>2. Contents \in Seq(AnyEvents) /\ Len(Contents) = count
    BY ContentsIsSeq
  <1>3. ASSUME NEW i \in 1 .. count - 1 PROVE SlotAt(i - 1)' = SlotAt(i)
    <2>1. i \in 0 .. BufLen /\ i - 1 \in 0 .. BufLen /\ 1 \in 0 .. BufLen /\ i < BufLen
      BY <1>1
    <2>2. SlotAt(i) = IF head + i < BufLen THEN head + i ELSE head + i - BufLen
      BY <2>1, WrapsOnce DEF SlotAt, TypeOK
    <2>3. head' = IF head + 1 < BufLen THEN head + 1 ELSE head + 1 - BufLen
      BY <1>1, <2>1, WrapsOnce DEF SlotAt, TypeOK
    <2>4. SlotAt(i - 1)' = IF head' + (i - 1) < BufLen THEN head' + (i - 1)
                           ELSE head' + (i - 1) - BufLen
      BY <2>1, WrapsOnce DEF SlotAt, TypeOK
    <2>5. QED  BY <2>1, <2>2, <2>3, <2>4 DEF TypeOK, Indices
  <1>4. ASSUME NEW i \in 1 .. count - 1 PROVE Contents'[i] = Contents[i + 1]
    <2>1. Contents'[i] = buf[SlotAt(i - 1)'] /\ Contents[i + 1] = buf[SlotAt(i + 1 - 1)]
      BY <1>1 DEF Contents
    <2>2. QED  BY <1>3, <2>1
  <1>5. Contents' = [i \in 1 .. count - 1 |-> Contents'[i]]
    BY <1>1 DEF Contents
  <1>6. Tail(Contents) = [i \in 1 .. count - 1 |-> Contents[i + 1]]
    <2>1. Contents # <<>>
      BY <1>1, <1>2
    <2>2. /\ Tail(Contents) \in Seq(AnyEvents) /\ Len(Tail(Contents)) = count - 1
          /\ \A i \in 1 .. count - 1 : Tail(Contents)[i] = Contents[i + 1]
      BY <1>2, <2>1, HeadTailProperties
    <2>3. Tail(Contents) = [i \in 1 .. count - 1 |-> Tail(Contents)[i]]
      BY <2>2, SeqIsFunction
    <2>4. QED  BY <2>2, <2>3
  <1>7. QED  BY <1>1, <1>2, <1>4, <1>5, <1>6

\* revert_pushes keeps the oldest events.
LEMMA RevertKeepsOldest ==
    ASSUME TypeOK, NEW n \in 0 .. BufLen, RevertPushes(n)
    PROVE  Contents' = SubSeq(Contents, 1, n)
  <1>1. n <= count /\ count' = n /\ head' = head /\ buf' = buf
    BY DEF RevertPushes
  <1>2. Contents \in Seq(AnyEvents) /\ Len(Contents) = count
    BY ContentsIsSeq
  <1>3. Contents' = [i \in 1 .. n |-> Contents[i]]
    BY <1>1, BufLenAssumption DEF Contents, SlotAt, TypeOK
  <1>4. SubSeq(Contents, 1, n) = [i \in 1 .. n |-> Contents[i]]
    BY <1>1, <1>2, BufLenAssumption DEF TypeOK
  <1>5. QED  BY <1>3, <1>4

\* The ring buffer with its head, count and counter implements the bounded
\* first-in first-out queue that matching and consuming rely on.
THEOREM ImplementsFifoTheorem == Spec => ImplementsFifo
  <1>1. Init => Fifo!Init
    BY DEF Init, Fifo!Init, Contents
  <1>2. Inv /\ Inv' /\ [Next]_vars => [Fifo!Next]_Fifo!vars
    <2> SUFFICES ASSUME Inv, Inv', [Next]_vars PROVE [Fifo!Next]_Fifo!vars
      OBVIOUS
    <2>0. TypeOK /\ TypeOK' /\ Len(Contents) = count /\ count \in 0 .. BufLen
      BY ContentsIsSeq DEF Inv, TypeOK
    <2>1. ASSUME NEW d \in Data, PushBack(d) PROVE Fifo!Push(d)
      <3>1. Contents' = Append(Contents, [seq_num |-> seq_num, data |-> d])
        BY <2>0, <2>1, PushAppends
      <3>2. count < BufLen /\ seq_num' = seq_num + 1
        BY <2>0, <2>1, BufLenAssumption DEF PushBack, Full
      <3>3. QED  BY <2>0, <3>1, <3>2 DEF Fifo!Push
    <2>2. ASSUME PopFront PROVE Fifo!Pop
      <3>1. Contents # <<>> /\ Contents' = Tail(Contents)
        BY <2>0, <2>2, PopRemovesFirst
      <3>2. QED  BY <2>2, <3>1 DEF Fifo!Pop, PopFront
    <2>3. ASSUME NEW n \in 0 .. BufLen, RevertPushes(n) PROVE Fifo!Revert(n)
      <3>1. Contents' = SubSeq(Contents, 1, n)
        BY <2>0, <2>3, RevertKeepsOldest
      <3>2. QED  BY <2>0, <2>3, <3>1 DEF Fifo!Revert, RevertPushes
    <2>4. CASE UNCHANGED vars
      BY <2>4 DEF vars, Fifo!vars, Contents, SlotAt
    <2>5. QED  BY <2>1, <2>2, <2>3, <2>4 DEF Next, Fifo!Next
  <1>3. QED  BY <1>1, <1>2, HeaderInvariant, PTL DEF Spec, ImplementsFifo, Fifo!Spec

\* Events on the queue are numbered consecutively up to the header's counter,
\* however often the array wraps around and pushes are reverted.
THEOREM NumbersAreConsecutiveTheorem == Spec => []NumbersAreConsecutive
  <1>1. Init => NumbersAreConsecutive
    BY DEF Init, NumbersAreConsecutive
  <1>2. Inv /\ Inv' /\ NumbersAreConsecutive /\ [Next]_vars => NumbersAreConsecutive'
    <2> SUFFICES ASSUME Inv, Inv', NumbersAreConsecutive, [Next]_vars
                 PROVE  NumbersAreConsecutive'
      OBVIOUS
    <2>0. /\ TypeOK /\ TypeOK' /\ count \in 0 .. BufLen /\ seq_num \in Nat
          /\ Contents \in Seq(AnyEvents) /\ Len(Contents) = count
          /\ \A i \in 1 .. count : Contents[i].seq_num = seq_num - count + i - 1
      BY ContentsIsSeq DEF Inv, TypeOK, NumbersAreConsecutive
    <2> USE BufLenAssumption
    <2>1. ASSUME NEW d \in Data, PushBack(d) PROVE NumbersAreConsecutive'
      <3> DEFINE e == [seq_num |-> seq_num, data |-> d]
      <3>1. Contents' = Append(Contents, e) /\ e.seq_num = seq_num
        BY <2>0, <2>1, PushAppends
      <3>2. count' = count + 1 /\ seq_num' = seq_num + 1
        BY <2>1 DEF PushBack
      <3>3. ASSUME NEW i \in 1 .. count + 1
            PROVE  Append(Contents, e)[i].seq_num = seq_num - count + i - 1
        <4>1. CASE i \in 1 .. count
          BY <2>0, <4>1
        <4>2. CASE i = count + 1
          BY <2>0, <3>1, <4>2
        <4>3. i \in 1 .. count \/ i = count + 1
          BY <2>0
        <4>4. QED  BY <4>1, <4>2, <4>3
      <3>4. \A i \in 1 .. count + 1 : seq_num - count + i - 1 = seq_num' - count' + i - 1
        BY <2>0, <3>2
      <3>5. \A i \in 1 .. count' : Contents'[i].seq_num = seq_num' - count' + i - 1
        <4> HIDE DEF e
        <4>1. QED  BY <3>1, <3>2, <3>3, <3>4
      <3>6. QED  BY <3>5 DEF NumbersAreConsecutive
    <2>2. ASSUME PopFront PROVE NumbersAreConsecutive'
      <3>1. Contents # <<>> /\ Contents' = Tail(Contents)
        BY <2>0, <2>2, PopRemovesFirst
      <3>2. count' = count - 1 /\ seq_num' = seq_num /\ count \in 1 .. BufLen
        BY <2>0, <2>2 DEF PopFront, IsEmpty
      <3>3. \A i \in 1 .. count - 1 : Tail(Contents)[i] = Contents[i + 1]
        BY <2>0, <3>1, HeadTailProperties
      <3>4. ASSUME NEW i \in 1 .. count - 1
            PROVE  Contents'[i].seq_num = seq_num - (count - 1) + i - 1
        <4>1. i + 1 \in 1 .. count /\ Contents'[i] = Contents[i + 1]
          BY <2>0, <3>1, <3>2, <3>3
        <4>2. Contents[i + 1].seq_num = seq_num - count + (i + 1) - 1
          BY <2>0, <4>1
        <4>3. QED  BY <2>0, <4>1, <4>2
      <3>5. QED  BY <3>2, <3>4 DEF NumbersAreConsecutive
    <2>3. ASSUME NEW n \in 0 .. BufLen, RevertPushes(n) PROVE NumbersAreConsecutive'
      <3>1. Contents' = SubSeq(Contents, 1, n)
        BY <2>0, <2>3, RevertKeepsOldest
      <3>2. n <= count /\ count' = n /\ seq_num' = seq_num - (count - n)
        BY <2>3 DEF RevertPushes
      <3>3. \A i \in 1 .. n : SubSeq(Contents, 1, n)[i] = Contents[i]
        BY <2>0, <3>2
      <3>4. \A i \in 1 .. n : /\ i \in 1 .. count
                              /\ seq_num - count + i - 1 = seq_num' - count' + i - 1
        BY <2>0, <3>2
      <3>5. \A i \in 1 .. count' : Contents'[i].seq_num = seq_num' - count' + i - 1
        BY <2>0, <3>1, <3>2, <3>3, <3>4
      <3>6. QED  BY <3>5 DEF NumbersAreConsecutive
    <2>4. CASE UNCHANGED vars
      BY <2>4 DEF vars, NumbersAreConsecutive, Contents, SlotAt
    <2>5. QED  BY <2>1, <2>2, <2>3, <2>4 DEF Next
  <1>3. QED  BY <1>1, <1>2, HeaderInvariant, PTL DEF Spec
=============================================================================
