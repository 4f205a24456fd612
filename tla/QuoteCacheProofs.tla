------------------------- MODULE QuoteCacheProofs --------------------------
(***************************************************************************)
(* Proofs about the quote cache that the conditional-swap tasks share      *)
(* (QuoteCache).                                                           *)
(*                                                                         *)
(* A task on its second leg carries a price that was quoted for its first  *)
(* one; one that queries without the lock found a price in the entry, and  *)
(* prices never leave it; one that queries for the first time holds the    *)
(* lock.                                                                   *)
(***************************************************************************)
EXTENDS QuoteCache, FiniteSetTheorems, SequenceTheorems, TLAPS

TaskIsSound(t) ==
  LET task == qcTasks[t] IN
  /\ task.pc = "look" => QcRequests[t].kind = "collateral"
  /\ task.pc # "done" /\ task.leg = 1 => task.price = 1
  /\ task.pc # "done" /\ task.leg = 2 /\ (task.pc = "look" => task.known)
       => task.price \in qcQuoted[QcRequests[t].pairs[1]]
  /\ task.pc \in {"query", "store"} => qcCache[Pair(t)] # MaxPrice
  /\ task.pc = "first" => qcLock[Pair(t)] = t
  /\ task.answer = "bad price" => task.pc = "done"

\* The refusal of one task.
RefusalIsFounded(t) ==
  qcTasks[t].answer = "bad price" =>
    /\ qcTasks[t].price > QcRequests[t].max
    /\ LET pairs == QcRequests[t].pairs IN
       IF Len(pairs) = 1 THEN qcTasks[t].price \in qcQuoted[pairs[1]]
       ELSE \E x \in qcQuoted[pairs[1]], y \in qcQuoted[pairs[2]] : qcTasks[t].price = x * y

QcInvariant ==
  /\ QcTypeOK
  /\ \A t \in Tasks : TaskIsSound(t) /\ RefusalIsFounded(t)
  /\ LocksAreHeldForQueries
  /\ CacheIsTheLowest

TaskStates ==
  [pc : {"look", "ask", "first", "query", "store", "done"}, leg : {1, 2}, known : BOOLEAN,
   price : Nat, quoted : Nat, answer : {"none", "bad price", "error", "quote"}]

\* The pairs of a request, and what its legs are.
LEMMA Requests ==
  ASSUME QcTypeOK, NEW t \in Tasks
  PROVE  /\ qcTasks[t] \in TaskStates /\ Pair(t) \in QcPairs /\ QcRequests[t].max \in Nat
         /\ QcRequests[t].pairs[1] \in QcPairs
         /\ QcRequests[t].kind \in {"quote", "collateral"}
         /\ Len(QcRequests[t].pairs) = 1 \/ Len(QcRequests[t].pairs) = 2
         /\ QcRequests[t].kind = "quote" => Len(QcRequests[t].pairs) = 1
         /\ Len(QcRequests[t].pairs) = 1 => qcTasks[t].leg = 1
         /\ Len(QcRequests[t].pairs) = 2 => QcRequests[t].pairs[2] \in QcPairs
<1>1. qcTasks[t] \in TaskStates /\ qcTasks[t].leg <= Len(QcRequests[t].pairs)
  BY DEF QcTypeOK, TaskStates
<1>2. /\ QcRequests[t].kind \in {"quote", "collateral"} /\ QcRequests[t].max \in Nat
      /\ Len(QcRequests[t].pairs) = 1 \/ Len(QcRequests[t].pairs) = 2
      /\ QcRequests[t].kind = "quote" => Len(QcRequests[t].pairs) = 1
      /\ QcRequests[t].pairs \in Seq(QcPairs)
  BY QuoteCacheAssumption
<1>3. \A i \in 1 .. Len(QcRequests[t].pairs) : QcRequests[t].pairs[i] \in QcPairs
  BY <1>2, ElementOfSeq
<1>4. /\ qcTasks[t].leg \in 1 .. Len(QcRequests[t].pairs)
      /\ Len(QcRequests[t].pairs) = 1 => qcTasks[t].leg = 1
  <2>1. qcTasks[t].leg = 1 \/ qcTasks[t].leg = 2
    BY <1>1 DEF TaskStates
  <2>2. \A l, n : (l = 1 \/ l = 2) /\ (n = 1 \/ n = 2) /\ l <= n => l \in 1 .. n /\ (n = 1 => l = 1)
    OBVIOUS
  <2> QED BY <1>1, <1>2, <2>1, <2>2, Zenon
<1>5. /\ QcRequests[t].pairs[1] \in QcPairs
      /\ Len(QcRequests[t].pairs) = 2 => QcRequests[t].pairs[2] \in QcPairs
  <2>1. \A n : (n = 1 \/ n = 2 => 1 \in 1 .. n) /\ (n = 2 => 2 \in 1 .. n)
    OBVIOUS
  <2> QED BY <1>2, <1>3, <2>1, Zenon
<1> QED BY <1>1, <1>2, <1>3, <1>4, <1>5 DEF Pair

\* What a step of one task leaves of the others: prices stay quoted, entries that
\* have a price keep one, and no lock is taken from its holder.
Spares(t) ==
  /\ \A p \in QcPairs : /\ qcQuoted[p] \subseteq qcQuoted'[p]
                        /\ qcCache[p] # MaxPrice => qcCache'[p] # MaxPrice
                        /\ qcLock[p] \notin {t, Nobody} => qcLock'[p] = qcLock[p]
  /\ \A u \in Tasks \ {t} : qcTasks'[u] = qcTasks[u]

\* The other tasks stay sound.
LEMMA OthersStaySound ==
  ASSUME QcInvariant, NEW t \in Tasks, Spares(t), NEW u \in Tasks \ {t}
  PROVE  TaskIsSound(u)' /\ RefusalIsFounded(u)'
<1>1. TaskIsSound(u) /\ RefusalIsFounded(u) /\ QcTypeOK /\ qcTasks'[u] = qcTasks[u]
  BY DEF QcInvariant, Spares
<1>2. Pair(u) \in QcPairs /\ QcRequests[u].pairs[1] \in QcPairs
  BY <1>1, Requests
<1>3. Pair(u)' = Pair(u)
  BY <1>1 DEF Pair
<1>4. TaskIsSound(u)'
  <2>1. /\ qcQuoted[QcRequests[u].pairs[1]] \subseteq qcQuoted'[QcRequests[u].pairs[1]]
        /\ qcCache[Pair(u)] # MaxPrice => qcCache'[Pair(u)] # MaxPrice
        /\ qcLock[Pair(u)] = u => qcLock'[Pair(u)] = u
    BY <1>2, QuoteCacheAssumption DEF Spares
  <2> QED BY <1>1, <1>3, <2>1 DEF TaskIsSound
<1>5. RefusalIsFounded(u)'
  <2>1. \A p \in QcPairs : qcQuoted[p] \subseteq qcQuoted'[p]
    BY DEF Spares
  <2>2. /\ Len(QcRequests[u].pairs) = 2 => QcRequests[u].pairs[2] \in QcPairs
        /\ Len(QcRequests[u].pairs) = 1 \/ Len(QcRequests[u].pairs) = 2
    BY <1>1, Requests
  <2> QED BY <1>1, <1>2, <2>1, <2>2 DEF RefusalIsFounded
<1> QED BY <1>4, <1>5

\* A step of task t into state `new` that leaves the entries alone.
LEMMA TaskMoves ==
  ASSUME QcInvariant, NEW t \in Tasks, NEW new \in TaskStates,
         qcTasks' = [qcTasks EXCEPT ![t] = new], new.leg <= Len(QcRequests[t].pairs),
         UNCHANGED <<qcCache, qcLock, qcQuoted>>, qcTasks[t].pc # "first",
         TaskIsSound(t)', RefusalIsFounded(t)'
  PROVE  QcInvariant'
<1>1. qcTasks \in [Tasks -> TaskStates]
  BY DEF QcInvariant, QcTypeOK, TaskStates
<1>2. qcTasks'[t] = new /\ \A u \in Tasks \ {t} : qcTasks'[u] = qcTasks[u]
  BY <1>1
<1>3. QcTypeOK'
  <2>1. qcTasks' \in [Tasks -> TaskStates]
    BY <1>1
  <2>2. \A u \in Tasks : qcTasks'[u].leg <= Len(QcRequests[u].pairs)
    BY <1>2 DEF QcInvariant, QcTypeOK
  <2> QED BY <2>1, <2>2 DEF QcInvariant, QcTypeOK, TaskStates
<1>4. \A u \in Tasks : TaskIsSound(u)' /\ RefusalIsFounded(u)'
  BY <1>2, OthersStaySound DEF Spares
<1>5. LocksAreHeldForQueries'
  <2> SUFFICES ASSUME NEW p \in QcPairs, qcLock[p] # Nobody
               PROVE  qcTasks'[qcLock[p]].pc = "first" /\ Pair(qcLock[p])' = p
    BY DEF LocksAreHeldForQueries
  <2>1. qcLock[p] \in Tasks /\ qcTasks[qcLock[p]].pc = "first" /\ Pair(qcLock[p]) = p
    BY DEF QcInvariant, QcTypeOK, LocksAreHeldForQueries
  <2>2. qcTasks'[qcLock[p]] = qcTasks[qcLock[p]]
    BY <1>2, <2>1
  <2> QED BY <2>1, <2>2 DEF Pair
<1>6. CacheIsTheLowest'
  BY DEF QcInvariant, CacheIsTheLowest
<1> QED BY <1>3, <1>4, <1>5, <1>6 DEF QcInvariant

\* quote_collateral_swap looks at the entries of its legs.
LEMMA CachedPriceLookedStep ==
  ASSUME QcInvariant, NEW t \in Tasks, CachedPriceLooked(t)
  PROVE  QcInvariant'
<1> DEFINE task == qcTasks[t]
           cached == qcCache[Pair(t)]
           max == QcRequests[t].max
           legs == Len(QcRequests[t].pairs)
           new == Looked(t)
<1>1. /\ task \in TaskStates /\ task.pc = "look" /\ Pair(t) \in QcPairs
      /\ QcRequests[t].kind = "collateral" /\ (legs = 1 \/ legs = 2)
      /\ legs = 1 => task.leg = 1
  BY Requests DEF CachedPriceLooked, QcInvariant, TaskIsSound
<1>11. 1 <= legs /\ legs <= legs /\ (legs = 2 => 2 <= legs)
  <2>1. \A n : n = 1 \/ n = 2 => 1 <= n /\ n <= n /\ (n = 2 => 2 <= n)
    OBVIOUS
  <2> QED BY <1>1, <2>1, Zenon
<1>0. TaskIsSound(t) /\ task.answer # "bad price"
  BY <1>1 DEF QcInvariant, TaskIsSound
<1>2. task.price \in Nat /\ (task.leg = 1 \/ task.leg = 2)
  BY <1>1 DEF TaskStates
<1>3. cached \in Nat /\ (cached # MaxPrice => cached \in qcQuoted[Pair(t)])
  BY <1>1, QuoteCacheAssumption DEF QcInvariant, QcTypeOK, CacheIsTheLowest
<1>4. PICK known \in BOOLEAN : known <=> task.known /\ cached # MaxPrice
  OBVIOUS
<1>5. PICK product \in Nat : product = IF known THEN task.price * cached ELSE 0
  BY <1>2, <1>3
<1>6. new = IF task.leg = legs /\ known /\ product > max THEN Bad(t, product)
            ELSE IF task.leg = legs
                 THEN [task EXCEPT !.pc = "ask", !.leg = 1, !.known = TRUE, !.price = 1]
                 ELSE [task EXCEPT !.leg = @ + 1, !.known = known, !.price = product]
  <2>1. known = (task.known /\ cached # MaxPrice)
    BY <1>4
  <2> QED BY <1>5, <2>1, Zenon DEF Looked
<1>7. /\ qcTasks' = [qcTasks EXCEPT ![t] = new] /\ UNCHANGED <<qcCache, qcLock, qcQuoted>>
      /\ qcTasks'[t] = new
  BY DEF CachedPriceLooked, QcInvariant, QcTypeOK
<1> HIDE DEF new
<1>8. CASE task.leg = legs /\ known /\ product > max
  <2>1. new = [task EXCEPT !.pc = "done", !.answer = "bad price", !.price = product]
    BY <1>6, <1>8 DEF Bad, Finished
  <2>2. /\ new \in TaskStates /\ new.leg = legs /\ new.pc = "done" /\ new.price = product
        /\ new.answer = "bad price"
    BY <1>1, <1>8, <2>1 DEF TaskStates
  <2>3. TaskIsSound(t)'
    BY <1>7, <2>2 DEF TaskIsSound
  <2>4. product = task.price * cached /\ cached \in qcQuoted[Pair(t)]
    BY <1>3, <1>4, <1>5, <1>8
  <2>5. ASSUME legs = 1 PROVE RefusalIsFounded(t)'
    <3>1. task.price = 1 /\ Pair(t) = QcRequests[t].pairs[1]
      BY <1>0, <1>1, <2>5 DEF TaskIsSound, Pair
    <3>2. product \in qcQuoted[QcRequests[t].pairs[1]]
      BY <1>3, <2>4, <3>1
    <3> QED BY <1>7, <1>8, <2>2, <2>5, <3>2 DEF RefusalIsFounded
  <2>6. ASSUME legs = 2 PROVE RefusalIsFounded(t)'
    <3>1. task.price \in qcQuoted[QcRequests[t].pairs[1]] /\ Pair(t) = QcRequests[t].pairs[2]
      BY <1>0, <1>1, <1>4, <1>8, <2>6 DEF TaskIsSound, Pair
    <3>2. \E x \in qcQuoted[QcRequests[t].pairs[1]], y \in qcQuoted[QcRequests[t].pairs[2]] :
             product = x * y
      BY <2>4, <3>1, Zenon
    <3>3. legs # 1
      BY <2>6
    <3> QED BY <1>7, <1>8, <2>2, <3>2, <3>3 DEF RefusalIsFounded
  <2>7. new.leg <= Len(QcRequests[t].pairs) /\ RefusalIsFounded(t)'
    BY <1>1, <1>11, <2>2, <2>5, <2>6
  <2> QED BY <1>1, <1>7, <2>2, <2>3, <2>7, TaskMoves
<1>9. CASE task.leg = legs /\ ~(known /\ product > max)
  <2>1. new = [task EXCEPT !.pc = "ask", !.leg = 1, !.known = TRUE, !.price = 1]
    BY <1>6, <1>9
  <2>2. /\ new \in TaskStates /\ new.leg = 1 /\ new.pc = "ask" /\ new.price = 1
        /\ new.answer = task.answer
    BY <1>1, <2>1 DEF TaskStates
  <2>3. TaskIsSound(t)'
    <3>1. qcTasks'[t].pc = "ask" /\ qcTasks'[t].leg = 1 /\ qcTasks'[t].price = 1
      BY <1>7, <2>2
    <3>2. qcTasks'[t].answer # "bad price"
      BY <1>0, <1>7, <2>2
    <3>3. qcTasks'[t].leg # 2
      BY <3>1
    <3> QED BY <3>1, <3>2, <3>3, Zenon DEF TaskIsSound
  <2>5. RefusalIsFounded(t)'
    BY <1>0, <1>7, <2>2 DEF RefusalIsFounded
  <2>4. new.leg <= Len(QcRequests[t].pairs)
    BY <1>11, <2>2
  <2> QED BY <1>1, <1>7, <2>2, <2>3, <2>4, <2>5, TaskMoves
<1>10. CASE task.leg = 1 /\ legs = 2
  <2>1. new = [task EXCEPT !.leg = 2, !.known = known, !.price = product]
    BY <1>6, <1>10
  <2>2. /\ new \in TaskStates /\ new.leg = 2 /\ new.pc = "look" /\ new.price = product
        /\ new.answer = task.answer
    BY <1>1, <2>1 DEF TaskStates
  <2>7. new.known = known
    BY <1>1, <2>1 DEF TaskStates
  <2>3. known => product \in qcQuoted[QcRequests[t].pairs[1]]
    <3>1. task.price = 1 /\ Pair(t) = QcRequests[t].pairs[1]
      BY <1>0, <1>1, <1>10 DEF TaskIsSound, Pair
    <3> QED BY <1>3, <1>4, <1>5, <3>1
  <2>4. TaskIsSound(t)'
    <3>0. 1 # 2
      OBVIOUS
    <3>1. qcTasks'[t].pc = "look" /\ qcTasks'[t].answer # "bad price" /\ qcTasks'[t].leg # 1
      BY <1>0, <1>7, <2>2, <3>0, Zenon
    <3>2. qcTasks'[t].known => qcTasks'[t].price \in qcQuoted'[QcRequests[t].pairs[1]]
      BY <1>7, <2>2, <2>3, <2>7, Zenon
    <3> QED BY <1>1, <3>1, <3>2, Zenon DEF TaskIsSound
  <2>6. RefusalIsFounded(t)'
    BY <1>0, <1>7, <2>2 DEF RefusalIsFounded
  <2>5. new.leg <= Len(QcRequests[t].pairs)
    BY <1>10, <1>11, <2>2
  <2> QED BY <1>1, <1>7, <2>2, <2>4, <2>5, <2>6, TaskMoves
<1> QED BY <1>1, <1>2, <1>8, <1>9, <1>10

\* quote: the entry has no price yet, and the task takes the lock.
LEMMA FirstAskStep ==
  ASSUME QcInvariant, NEW t \in Tasks, Ask(t), qcCache[Pair(t)] = MaxPrice
  PROVE  QcInvariant'
<1> DEFINE task == qcTasks[t]
           new == [task EXCEPT !.pc = "first"]
           mine == Pair(t)
<1>1. task \in TaskStates /\ task.pc = "ask" /\ mine \in QcPairs /\ qcLock[mine] = Nobody
  BY Requests DEF Ask, QcInvariant
<1>2. TaskIsSound(t) /\ task.answer # "bad price"
  BY <1>1 DEF QcInvariant, TaskIsSound
<1>3. /\ qcTasks' = [qcTasks EXCEPT ![t] = new] /\ qcLock' = [qcLock EXCEPT ![mine] = t]
      /\ UNCHANGED <<qcCache, qcQuoted>>
  BY DEF Ask
<1>4. /\ qcTasks \in [Tasks -> TaskStates] /\ qcLock \in [QcPairs -> Tasks \cup {Nobody}]
      /\ \A u \in Tasks : qcTasks[u].leg <= Len(QcRequests[u].pairs)
  BY DEF QcInvariant, QcTypeOK, TaskStates
<1>5. /\ new \in TaskStates /\ new.pc = "first" /\ new.leg = task.leg /\ new.price = task.price
      /\ new.answer = task.answer
  BY <1>1 DEF TaskStates
<1>6. qcTasks'[t] = new /\ qcLock'[mine] = t /\ Pair(t)' = mine
  BY <1>1, <1>3, <1>4, <1>5 DEF Pair
<1>7. Spares(t)
  BY <1>1, <1>3, <1>4 DEF Spares
<1> HIDE DEF new, mine
<1>8. QcTypeOK'
  <2>1. qcTasks' \in [Tasks -> TaskStates] /\ qcLock' \in [QcPairs -> Tasks \cup {Nobody}]
    BY <1>1, <1>3, <1>4, <1>5
  <2>2. \A u \in Tasks : qcTasks'[u].leg <= Len(QcRequests[u].pairs)
    BY <1>3, <1>4, <1>5
  <2> QED BY <1>3, <2>1, <2>2 DEF QcInvariant, QcTypeOK, TaskStates
<1>9. TaskIsSound(t)'
  <2>1. /\ qcTasks'[t].pc = "first" /\ qcTasks'[t].answer # "bad price"
        /\ qcTasks'[t].leg = task.leg /\ qcTasks'[t].price = task.price
    BY <1>2, <1>5, <1>6
  <2>2. qcQuoted' = qcQuoted /\ qcLock'[Pair(t)'] = t
    BY <1>3, <1>6
  <2> QED BY <1>1, <1>2, <2>1, <2>2, Zenon DEF TaskIsSound
<1>10. RefusalIsFounded(t)'
  BY <1>2, <1>5, <1>6 DEF RefusalIsFounded
<1>11. LocksAreHeldForQueries'
  <2> SUFFICES ASSUME NEW p \in QcPairs, qcLock'[p] # Nobody
               PROVE  /\ qcTasks'[qcLock'[p]].pc = "first"
                      /\ QcRequests[qcLock'[p]].pairs[qcTasks'[qcLock'[p]].leg] = p
    BY DEF LocksAreHeldForQueries, Pair
  <2>1. CASE p = mine
    BY <1>5, <1>6, <2>1 DEF Pair
  <2>2. CASE p # mine
    <3>1. qcLock'[p] = qcLock[p] /\ qcLock[p] \in Tasks
      BY <1>3, <1>4, <2>2
    <3>2. qcTasks[qcLock[p]].pc = "first" /\ Pair(qcLock[p]) = p
      BY <3>1 DEF QcInvariant, LocksAreHeldForQueries
    <3>3. qcTasks'[qcLock[p]] = qcTasks[qcLock[p]]
      BY <1>1, <1>3, <1>4, <3>1, <3>2
    <3> QED BY <3>1, <3>2, <3>3 DEF Pair
  <2> QED BY <2>1, <2>2
<1>12. CacheIsTheLowest'
  BY <1>3 DEF QcInvariant, CacheIsTheLowest
<1> QED BY <1>7, <1>8, <1>9, <1>10, <1>11, <1>12, OthersStaySound DEF QcInvariant

\* quote: the entry has a price, which is too high or sends the task to the service.
LEMMA LaterAskStep ==
  ASSUME QcInvariant, NEW t \in Tasks, Ask(t), qcCache[Pair(t)] # MaxPrice
  PROVE  QcInvariant'
<1> DEFINE task == qcTasks[t]
           cached == qcCache[Pair(t)]
           new == IF cached > Limit(t) THEN Bad(t, cached) ELSE [task EXCEPT !.pc = "query"]
<1>1. /\ task \in TaskStates /\ task.pc = "ask" /\ Pair(t) \in QcPairs
      /\ QcRequests[t].kind \in {"quote", "collateral"}
      /\ QcRequests[t].kind = "quote" => task.leg = 1 /\ Len(QcRequests[t].pairs) = 1
  BY Requests DEF Ask, QcInvariant
<1>2. TaskIsSound(t) /\ task.answer # "bad price" /\ task.leg <= Len(QcRequests[t].pairs)
  BY <1>1 DEF QcInvariant, TaskIsSound, QcTypeOK
<1>3. cached \in 0 .. MaxPrice /\ cached \in qcQuoted[Pair(t)]
  BY <1>1 DEF QcInvariant, QcTypeOK, CacheIsTheLowest
<1>4. qcTasks' = [qcTasks EXCEPT ![t] = new] /\ UNCHANGED <<qcCache, qcLock, qcQuoted>>
  BY DEF Ask
<1>5. qcTasks'[t] = new
  BY <1>4 DEF QcInvariant, QcTypeOK
<1>6. CASE cached > Limit(t)
  <2>1. QcRequests[t].kind = "quote" /\ cached > QcRequests[t].max
    BY <1>1, <1>3, <1>6, QuoteCacheAssumption DEF Limit
  <2>2. /\ new \in TaskStates /\ new.pc = "done" /\ new.price = cached
        /\ new.answer = "bad price" /\ new.leg = task.leg
    <3>1. new = [task EXCEPT !.pc = "done", !.answer = "bad price", !.price = cached]
      BY <1>6 DEF Bad, Finished
    <3>2. cached \in Nat
      BY <1>3, QuoteCacheAssumption
    <3> HIDE DEF new, cached
    <3> QED BY <1>1, <3>1, <3>2 DEF TaskStates
  <2> HIDE DEF new
  <2>3. TaskIsSound(t)'
    BY <1>5, <2>2 DEF TaskIsSound
  <2>4. Pair(t) = QcRequests[t].pairs[1]
    BY <1>1, <2>1 DEF Pair
  <2>5. RefusalIsFounded(t)'
    BY <1>1, <1>3, <1>4, <1>5, <2>1, <2>2, <2>4 DEF RefusalIsFounded
  <2> QED BY <1>1, <1>2, <1>4, <2>2, <2>3, <2>5, TaskMoves
<1>7. CASE ~(cached > Limit(t))
  <2>1. /\ new \in TaskStates /\ new.pc = "query" /\ new.price = task.price
        /\ new.answer = task.answer /\ new.leg = task.leg
    BY <1>1, <1>7 DEF TaskStates
  <2> HIDE DEF new
  <2>2. /\ qcTasks'[t].pc = "query" /\ qcTasks'[t].answer # "bad price"
        /\ qcTasks'[t].leg = task.leg /\ qcTasks'[t].price = task.price
    BY <1>2, <1>5, <2>1
  <2>3. qcQuoted' = qcQuoted /\ qcCache'[Pair(t)'] # MaxPrice
    BY <1>4, <2>2 DEF Pair
  <2>4. TaskIsSound(t)'
    BY <1>1, <1>2, <2>2, <2>3, Zenon DEF TaskIsSound
  <2>5. RefusalIsFounded(t)'
    BY <2>2 DEF RefusalIsFounded
  <2> QED BY <1>1, <1>2, <1>4, <2>1, <2>4, <2>5, TaskMoves
<1> QED BY <1>6, <1>7

\* A query without the lock returns.
LEMMA QueryReturnsStep ==
  ASSUME QcInvariant, NEW t \in Tasks, QueryReturns(t)
  PROVE  QcInvariant'
<1> DEFINE task == qcTasks[t]
<1>1. PICK price \in QcPrices :
        qcTasks' = [qcTasks EXCEPT ![t].pc = "store", ![t].quoted = price]
  BY DEF QueryReturns
<1> DEFINE new == [task EXCEPT !.pc = "store", !.quoted = price]
<1>2. task \in TaskStates /\ task.pc = "query" /\ Pair(t) \in QcPairs
  BY Requests DEF QueryReturns, QcInvariant
<1>3. TaskIsSound(t) /\ task.answer # "bad price" /\ task.leg <= Len(QcRequests[t].pairs)
  BY <1>2 DEF QcInvariant, TaskIsSound, QcTypeOK
<1>4. /\ new \in TaskStates /\ new.pc = "store" /\ new.price = task.price
      /\ new.answer = task.answer /\ new.leg = task.leg
  BY <1>2, QuoteCacheAssumption DEF TaskStates
<1>5. /\ qcTasks' = [qcTasks EXCEPT ![t] = new] /\ UNCHANGED <<qcCache, qcLock, qcQuoted>>
      /\ qcTasks'[t] = new
  BY <1>1 DEF QcInvariant, QcTypeOK, QueryReturns
<1> HIDE DEF new
<1>6. /\ qcTasks'[t].pc = "store" /\ qcTasks'[t].answer # "bad price"
      /\ qcTasks'[t].leg = task.leg /\ qcTasks'[t].price = task.price
  BY <1>3, <1>4, <1>5
<1>7. qcQuoted' = qcQuoted /\ qcCache'[Pair(t)'] = qcCache[Pair(t)]
  BY <1>5, <1>6 DEF Pair
<1>8. TaskIsSound(t)'
  BY <1>2, <1>3, <1>6, <1>7, Zenon DEF TaskIsSound
<1>9. RefusalIsFounded(t)'
  BY <1>6 DEF RefusalIsFounded
<1> QED BY <1>2, <1>3, <1>4, <1>5, <1>8, <1>9, TaskMoves

\* A step of task t that gives its lock back, if it has it, and may lower the price
\* of an entry.
LEMMA TaskReturns ==
  ASSUME QcInvariant, NEW t \in Tasks, NEW new \in TaskStates,
         qcTasks' = [qcTasks EXCEPT ![t] = new], new.leg <= Len(QcRequests[t].pairs),
         qcLock' \in [QcPairs -> Tasks \cup {Nobody}],
         \A p \in QcPairs : \/ qcLock[p] = t /\ qcLock'[p] = Nobody
                            \/ qcLock[p] # t /\ qcLock'[p] = qcLock[p],
         qcCache' \in [QcPairs -> 0 .. MaxPrice], qcQuoted' \in [QcPairs -> SUBSET Nat],
         \A p \in QcPairs : /\ qcQuoted[p] \subseteq qcQuoted'[p]
                            /\ qcCache[p] # MaxPrice => qcCache'[p] # MaxPrice,
         CacheIsTheLowest', TaskIsSound(t)', RefusalIsFounded(t)'
  PROVE  QcInvariant'
<1>1. qcTasks \in [Tasks -> TaskStates]
  BY DEF QcInvariant, QcTypeOK, TaskStates
<1>2. qcTasks'[t] = new /\ \A u \in Tasks \ {t} : qcTasks'[u] = qcTasks[u]
  BY <1>1
<1>3. QcTypeOK'
  <2>1. qcTasks' \in [Tasks -> TaskStates]
    BY <1>1
  <2>2. \A u \in Tasks : qcTasks'[u].leg <= Len(QcRequests[u].pairs)
    BY <1>2 DEF QcInvariant, QcTypeOK
  <2> QED BY <2>1, <2>2 DEF QcTypeOK, TaskStates
<1>4. \A u \in Tasks : TaskIsSound(u)' /\ RefusalIsFounded(u)'
  <2>1. Spares(t)
    BY <1>2 DEF Spares
  <2> QED BY <2>1, OthersStaySound
<1>5. LocksAreHeldForQueries'
  <2> SUFFICES ASSUME NEW p \in QcPairs, qcLock'[p] # Nobody
               PROVE  /\ qcTasks'[qcLock'[p]].pc = "first"
                      /\ QcRequests[qcLock'[p]].pairs[qcTasks'[qcLock'[p]].leg] = p
    BY DEF LocksAreHeldForQueries, Pair
  <2>1. qcLock'[p] = qcLock[p] /\ qcLock[p] # t /\ qcLock[p] \in Tasks
    BY DEF QcInvariant, QcTypeOK
  <2>2. qcTasks[qcLock[p]].pc = "first" /\ Pair(qcLock[p]) = p
    BY <2>1 DEF QcInvariant, LocksAreHeldForQueries
  <2>3. qcTasks'[qcLock[p]] = qcTasks[qcLock[p]]
    BY <1>2, <2>1
  <2> QED BY <2>1, <2>2, <2>3 DEF Pair
<1> QED BY <1>3, <1>4, <1>5 DEF QcInvariant

\* A task that is done has no more to be asked of it.
LEMMA DoneIsSound ==
  ASSUME NEW t, qcTasks'[t].pc = "done"
  PROVE  TaskIsSound(t)'
BY DEF TaskIsSound

\* A task holds no lock but that of its pair.
LEMMA OnlyItsLock ==
  ASSUME QcInvariant, NEW t \in Tasks, NEW p \in QcPairs, qcLock[p] = t
  PROVE  p = Pair(t) /\ qcTasks[t].pc = "first"
BY QuoteCacheAssumption DEF QcInvariant, LocksAreHeldForQueries

\* A query fails.
LEMMA QueryFailsStep ==
  ASSUME QcInvariant, NEW t \in Tasks, QueryFails(t)
  PROVE  QcInvariant'
<1> DEFINE task == qcTasks[t]
           new == Failed(t)
           mine == Pair(t)
<1>1. task \in TaskStates /\ mine \in QcPairs /\ task.leg <= Len(QcRequests[t].pairs)
  BY Requests DEF QcInvariant, QcTypeOK
<1>2. new \in TaskStates /\ new.pc = "done" /\ new.answer = "error" /\ new.leg = task.leg
  BY <1>1 DEF Failed, Finished, TaskStates
<1>3. /\ qcTasks' = [qcTasks EXCEPT ![t] = new] /\ UNCHANGED <<qcCache, qcQuoted>>
      /\ qcLock' = [qcLock EXCEPT ![mine] = IF @ = t THEN Nobody ELSE @]
  BY DEF QueryFails
<1>4. /\ qcLock \in [QcPairs -> Tasks \cup {Nobody}] /\ qcTasks'[t] = new
      /\ qcCache \in [QcPairs -> 0 .. MaxPrice] /\ qcQuoted \in [QcPairs -> SUBSET Nat]
  BY <1>3 DEF QcInvariant, QcTypeOK
<1>5. \A p \in QcPairs : qcLock[p] = t => p = mine
  BY OnlyItsLock
<1> HIDE DEF new, mine
<1>6. qcLock' \in [QcPairs -> Tasks \cup {Nobody}]
  BY <1>1, <1>3, <1>4
<1>7. \A p \in QcPairs : \/ qcLock[p] = t /\ qcLock'[p] = Nobody
                         \/ qcLock[p] # t /\ qcLock'[p] = qcLock[p]
  BY <1>1, <1>3, <1>4, <1>5
<1>8. CacheIsTheLowest'
  BY <1>3 DEF QcInvariant, CacheIsTheLowest
<1>9. TaskIsSound(t)' /\ RefusalIsFounded(t)'
  BY <1>2, <1>4, DoneIsSound DEF RefusalIsFounded
<1> QED BY <1>1, <1>2, <1>3, <1>4, <1>6, <1>7, <1>8, <1>9, TaskReturns

\* What a task does with a price that is now recorded.
LEMMA PricedIsSound ==
  ASSUME QcInvariant, NEW t \in Tasks, NEW price \in Nat, qcTasks[t].pc \in {"first", "store"},
         qcTasks'[t] = Priced(t, price), price \in qcQuoted'[Pair(t)],
         \A p \in QcPairs : qcQuoted[p] \subseteq qcQuoted'[p]
  PROVE  /\ Priced(t, price) \in TaskStates
         /\ Priced(t, price).leg <= Len(QcRequests[t].pairs)
         /\ TaskIsSound(t)' /\ RefusalIsFounded(t)'
<1> DEFINE task == qcTasks[t]
           pairs == QcRequests[t].pairs
           max == QcRequests[t].max
           new == Priced(t, price)
<1>1. /\ task \in TaskStates /\ pairs[1] \in QcPairs /\ max \in Nat
      /\ QcRequests[t].kind \in {"quote", "collateral"}
      /\ QcRequests[t].kind = "quote" => task.leg = 1 /\ Len(pairs) = 1
      /\ Len(pairs) = 1 \/ Len(pairs) = 2
      /\ Len(pairs) = 1 => task.leg = 1
  BY Requests DEF QcInvariant
<1>2. /\ task.price \in Nat /\ (task.leg = 1 \/ task.leg = 2) /\ task.leg <= Len(pairs)
      /\ task.pc # "done" /\ task.pc # "look"
  BY <1>1 DEF TaskStates, QcInvariant, QcTypeOK
<1>3. /\ task.leg = 1 => task.price = 1
      /\ task.leg = 2 => task.price \in qcQuoted'[pairs[1]]
  <2>1. TaskIsSound(t)
    BY DEF QcInvariant
  <2>2. task.leg = 2 => task.price \in qcQuoted[pairs[1]]
    BY <1>2, <2>1, Zenon DEF TaskIsSound
  <2> QED BY <1>1, <1>2, <2>1, <2>2 DEF TaskIsSound
<1>4. PICK product \in Nat : product = task.price * price
  BY <1>2
<1>5. task.answer # "bad price"
  BY <1>2 DEF QcInvariant, TaskIsSound
<1>6. task.leg = 1 => product = price /\ Pair(t) = pairs[1]
  <2>1. \A x : x = 1 => x * price = price
    OBVIOUS
  <2> QED BY <1>3, <1>4, <2>1 DEF Pair
<1>7. CASE price > Limit(t) /\ QcRequests[t].kind = "quote"
  <2>1. new = [task EXCEPT !.pc = "done", !.answer = "bad price", !.price = price]
    <3>1. new = Bad(t, price)
      BY <1>7, Zenon DEF Priced
    <3> QED BY <3>1 DEF Bad, Finished
  <2>2. /\ new \in TaskStates /\ new.pc = "done" /\ new.price = price /\ new.leg = task.leg
        /\ new.answer = "bad price"
    BY <1>1, <2>1 DEF TaskStates
  <2> HIDE DEF new
  <2>3. price > max /\ Len(pairs) = 1 /\ price \in qcQuoted'[pairs[1]]
    BY <1>1, <1>6, <1>7 DEF Limit
  <2>4. RefusalIsFounded(t)'
    BY <2>2, <2>3 DEF RefusalIsFounded, new
  <2> QED BY <1>2, <2>2, <2>4, DoneIsSound DEF new
<1>8. CASE price > Limit(t) /\ QcRequests[t].kind # "quote"
  <2>1. new = [task EXCEPT !.pc = "done", !.answer = "error", !.price = 0]
    <3>1. new = Failed(t)
      BY <1>8, Zenon DEF Priced
    <3> QED BY <3>1 DEF Failed, Finished
  <2> HIDE DEF new
  <2>2. new \in TaskStates /\ new.pc = "done" /\ new.leg = task.leg /\ new.answer = "error"
    <3>1. new \in TaskStates
      BY <1>1, <2>1 DEF TaskStates
    <3>2. new.pc = "done" /\ new.leg = task.leg /\ new.answer = "error"
      BY <1>1, <2>1 DEF TaskStates
    <3> QED BY <3>1, <3>2
  <2>3. RefusalIsFounded(t)'
    BY <2>2 DEF RefusalIsFounded, new
  <2> QED BY <1>2, <2>2, <2>3, DoneIsSound DEF new
<1>9. CASE ~(price > Limit(t)) /\ task.leg # Len(pairs)
  <2>1. Len(pairs) = 2 /\ task.leg = 1
    BY <1>1, <1>2, <1>9
  <2>2. new = [task EXCEPT !.pc = "ask", !.leg = 2, !.price = product]
    BY <1>4, <1>9, <2>1 DEF Priced
  <2>3. /\ new \in TaskStates /\ new.pc = "ask" /\ new.price = product /\ new.leg = 2
        /\ new.answer = task.answer
    BY <1>1, <2>2 DEF TaskStates
  <2> HIDE DEF new
  <2>4. /\ qcTasks'[t].pc = "ask" /\ qcTasks'[t].answer # "bad price" /\ qcTasks'[t].leg = 2
        /\ qcTasks'[t].price \in qcQuoted'[pairs[1]]
    BY <1>5, <1>6, <2>1, <2>3 DEF new
  <2>5. 1 # 2
    OBVIOUS
  <2>6. TaskIsSound(t)'
    BY <2>4, <2>5, Zenon DEF TaskIsSound
  <2>7. RefusalIsFounded(t)'
    BY <2>4, Zenon DEF RefusalIsFounded
  <2> QED BY <1>1, <2>1, <2>3, <2>6, <2>7 DEF new
<1>10. CASE ~(price > Limit(t)) /\ task.leg = Len(pairs) /\ product > max
  <2>1. new = [task EXCEPT !.pc = "done", !.answer = "bad price", !.price = product]
    BY <1>4, <1>10 DEF Priced, Bad, Finished
  <2>2. /\ new \in TaskStates /\ new.pc = "done" /\ new.price = product /\ new.leg = task.leg
        /\ new.answer = "bad price"
    BY <1>1, <2>1 DEF TaskStates
  <2> HIDE DEF new
  <2>3. ASSUME Len(pairs) = 1 PROVE RefusalIsFounded(t)'
    <3>1. product \in qcQuoted'[pairs[1]]
      BY <1>1, <1>6, <2>3
    <3> QED BY <1>10, <2>2, <2>3, <3>1 DEF RefusalIsFounded, new
  <2>4. ASSUME Len(pairs) = 2 PROVE RefusalIsFounded(t)'
    <3>1. task.leg = 2 /\ Pair(t) = pairs[2]
      BY <1>10, <2>4 DEF Pair
    <3>2. \E x \in qcQuoted'[pairs[1]], y \in qcQuoted'[pairs[2]] : product = x * y
      BY <1>3, <1>4, <3>1, Zenon
    <3>3. Len(pairs) # 1
      BY <2>4
    <3> QED BY <1>10, <2>2, <3>2, <3>3 DEF RefusalIsFounded, new
  <2>7. RefusalIsFounded(t)'
    BY <1>1, <2>3, <2>4
  <2> QED BY <1>2, <2>2, <2>7, DoneIsSound DEF new
<1>11. CASE ~(price > Limit(t)) /\ task.leg = Len(pairs) /\ ~(product > max)
  <2>1. new = [task EXCEPT !.pc = "done", !.answer = "quote", !.price = product]
    BY <1>4, <1>11 DEF Priced, Finished
  <2>2. new \in TaskStates /\ new.pc = "done" /\ new.leg = task.leg /\ new.answer = "quote"
    BY <1>1, <2>1 DEF TaskStates
  <2> HIDE DEF new
  <2>3. RefusalIsFounded(t)'
    BY <2>2 DEF RefusalIsFounded, new
  <2> QED BY <1>2, <2>2, <2>3, DoneIsSound DEF new
<1> QED BY <1>7, <1>8, <1>9, <1>10, <1>11

\* A price is recorded, and the lock of the pair is free afterwards.
LEMMA RecordedStep ==
  ASSUME QcInvariant, NEW t \in Tasks, NEW price \in Nat, qcTasks[t].pc \in {"first", "store"},
         qcLock[Pair(t)] \in {t, Nobody}, QcRecorded(t, price),
         qcLock' = [qcLock EXCEPT ![Pair(t)] = Nobody]
  PROVE  QcInvariant'
<1> DEFINE mine == Pair(t)
           new == Priced(t, price)
<1>1. mine \in QcPairs
  BY Requests DEF QcInvariant
<1>2. /\ qcLock \in [QcPairs -> Tasks \cup {Nobody}] /\ qcCache \in [QcPairs -> 0 .. MaxPrice]
      /\ qcQuoted \in [QcPairs -> SUBSET Nat] /\ qcTasks \in [Tasks -> TaskStates]
  BY DEF QcInvariant, QcTypeOK, TaskStates
<1>3. /\ qcTasks' = [qcTasks EXCEPT ![t] = new]
      /\ qcCache' = [qcCache EXCEPT ![mine] = Lower(@, price)]
      /\ qcQuoted' = [qcQuoted EXCEPT ![mine] = @ \cup {price}]
      /\ qcLock' = [qcLock EXCEPT ![mine] = Nobody]
  BY DEF QcRecorded
<1>4. \A p \in QcPairs : qcLock[p] = t => p = mine
  BY OnlyItsLock
<1>5. qcLock[mine] = t \/ qcLock[mine] = Nobody
  OBVIOUS
<1> HIDE DEF mine, new
<1>6. /\ qcLock' \in [QcPairs -> Tasks \cup {Nobody}]
      /\ \A p \in QcPairs : \/ qcLock[p] = t /\ qcLock'[p] = Nobody
                            \/ qcLock[p] # t /\ qcLock'[p] = qcLock[p]
  BY <1>1, <1>2, <1>3, <1>4, <1>5, QuoteCacheAssumption
<1>7. Lower(qcCache[mine], price) \in 0 .. MaxPrice
  BY <1>1, <1>2, QuoteCacheAssumption DEF Lower
<1>8. /\ qcCache' \in [QcPairs -> 0 .. MaxPrice]
      /\ \A p \in QcPairs : qcCache'[p] = IF p = mine THEN Lower(qcCache[p], price) ELSE qcCache[p]
  BY <1>1, <1>2, <1>3, <1>7
<1>9. /\ qcQuoted' \in [QcPairs -> SUBSET Nat]
      /\ \A p \in QcPairs : qcQuoted'[p] = IF p = mine THEN qcQuoted[p] \cup {price} ELSE qcQuoted[p]
  BY <1>1, <1>2, <1>3
<1>10. \A p \in QcPairs : /\ qcQuoted[p] \subseteq qcQuoted'[p]
                          /\ qcCache[p] # MaxPrice => qcCache'[p] # MaxPrice
  <2> SUFFICES ASSUME NEW p \in QcPairs
               PROVE  /\ qcQuoted[p] \subseteq qcQuoted'[p]
                      /\ qcCache[p] # MaxPrice => qcCache'[p] # MaxPrice
    OBVIOUS
  <2>1. qcCache[p] \in 0 .. MaxPrice
    BY <1>2
  <2> QED BY <1>8, <1>9, <2>1, QuoteCacheAssumption DEF Lower
<1>11. CacheIsTheLowest'
  <2> SUFFICES ASSUME NEW p \in QcPairs
               PROVE  /\ \A q \in qcQuoted'[p] : qcCache'[p] <= q
                      /\ qcCache'[p] = MaxPrice \/ qcCache'[p] \in qcQuoted'[p]
    BY DEF CacheIsTheLowest
  <2>1. /\ \A q \in qcQuoted[p] : qcCache[p] <= q
        /\ qcCache[p] = MaxPrice \/ qcCache[p] \in qcQuoted[p]
    BY DEF QcInvariant, CacheIsTheLowest
  <2>2. qcCache[p] \in Nat /\ qcQuoted[p] \subseteq Nat
    BY <1>2, QuoteCacheAssumption
  <2> QED BY <1>8, <1>9, <2>1, <2>2 DEF Lower
<1>12. qcTasks'[t] = new /\ price \in qcQuoted'[mine]
  BY <1>1, <1>2, <1>3
<1>13. /\ new \in TaskStates /\ new.leg <= Len(QcRequests[t].pairs)
       /\ TaskIsSound(t)' /\ RefusalIsFounded(t)'
  BY <1>10, <1>12, PricedIsSound DEF new, mine
<1> QED BY <1>3, <1>6, <1>8, <1>9, <1>10, <1>11, <1>13, TaskReturns

\* Every step of every task keeps the cache sound.
LEMMA QcStep == QcInvariant /\ [QcNext]_qcVars => QcInvariant'
<1> SUFFICES ASSUME QcInvariant, [QcNext]_qcVars PROVE QcInvariant'
  OBVIOUS
<1>1. ASSUME NEW t \in Tasks, FirstQueryReturns(t) PROVE QcInvariant'
  <2>1. PICK price \in QcPrices : QcRecorded(t, price)
    BY <1>1 DEF FirstQueryReturns
  <2>2. price \in Nat /\ qcTasks[t].pc = "first" /\ qcLock[Pair(t)] = t
    BY <1>1, QuoteCacheAssumption DEF FirstQueryReturns, QcInvariant, TaskIsSound
  <2> QED BY <1>1, <2>1, <2>2, RecordedStep DEF FirstQueryReturns
<1>2. ASSUME NEW t \in Tasks, Store(t) PROVE QcInvariant'
  <2>1. qcTasks[t] \in TaskStates /\ Pair(t) \in QcPairs
    BY Requests DEF QcInvariant
  <2>2. qcTasks[t].quoted \in Nat
    BY <2>1 DEF TaskStates
  <2>3. qcLock' = [qcLock EXCEPT ![Pair(t)] = Nobody]
    BY <1>2, <2>1 DEF Store, QcInvariant, QcTypeOK
  <2> QED BY <1>2, <2>2, <2>3, RecordedStep DEF Store
<1>3. ASSUME NEW t \in Tasks,
             CachedPriceLooked(t) \/ Ask(t) \/ QueryReturns(t) \/ QueryFails(t)
      PROVE  QcInvariant'
  BY <1>3, CachedPriceLookedStep, FirstAskStep, LaterAskStep, QueryReturnsStep, QueryFailsStep
<1>4. CASE UNCHANGED qcVars
  <2>1. /\ qcTasks' = qcTasks /\ qcCache' = qcCache /\ qcLock' = qcLock /\ qcQuoted' = qcQuoted
    BY <1>4 DEF qcVars
  <2>2. \A t \in Tasks : TaskIsSound(t)' /\ RefusalIsFounded(t)'
    BY <2>1, Zenon DEF QcInvariant, TaskIsSound, RefusalIsFounded, Pair
  <2>3. QcTypeOK'
    BY <2>1, Zenon DEF QcInvariant, QcTypeOK
  <2>4. LocksAreHeldForQueries' /\ CacheIsTheLowest'
    BY <2>1, Zenon DEF QcInvariant, LocksAreHeldForQueries, CacheIsTheLowest, Pair
  <2> QED BY <2>2, <2>3, <2>4 DEF QcInvariant
<1> QED BY <1>1, <1>2, <1>3, <1>4 DEF QcNext

\* The tasks start at their first leg, with nothing cached.
LEMMA QcInitially == QcInit => QcInvariant
<1> SUFFICES ASSUME QcInit PROVE QcInvariant
  OBVIOUS
<1>1. ASSUME NEW t \in Tasks
      PROVE  /\ qcTasks[t] \in TaskStates /\ qcTasks[t].leg = 1 /\ qcTasks[t].price = 1
             /\ qcTasks[t].answer = "none" /\ qcTasks[t].pc \in {"ask", "look"}
             /\ qcTasks[t].pc = "look" => QcRequests[t].kind = "collateral"
  <2>1. QcRequests[t].kind \in {"quote", "collateral"}
    BY QuoteCacheAssumption
  <2> QED BY <2>1 DEF QcInit, TaskStates
<1>2. QcTypeOK
  <2>1. qcTasks \in [Tasks -> TaskStates]
    BY <1>1 DEF QcInit
  <2>2. \A t \in Tasks : qcTasks[t].leg <= Len(QcRequests[t].pairs)
    <3>1. \A n : n = 1 \/ n = 2 => 1 <= n
      OBVIOUS
    <3>2. \A t \in Tasks : Len(QcRequests[t].pairs) = 1 \/ Len(QcRequests[t].pairs) = 2
      BY QuoteCacheAssumption
    <3> QED BY <1>1, <3>1, <3>2, Zenon
  <2> QED BY <2>1, <2>2, QuoteCacheAssumption DEF QcInit, QcTypeOK, TaskStates
<1>3. ASSUME NEW t \in Tasks PROVE TaskIsSound(t) /\ RefusalIsFounded(t)
  <2>1. 1 # 2
    OBVIOUS
  <2>2. qcTasks[t].pc = "ask" \/ qcTasks[t].pc = "look"
    BY <1>1
  <2>3. qcTasks[t].leg # 2 /\ qcTasks[t].answer # "bad price"
    BY <1>1, <2>1, Zenon
  <2>5. qcTasks[t].pc # "first" /\ qcTasks[t].pc \notin {"query", "store"}
    BY <2>2
  <2>4. RefusalIsFounded(t)
    BY <2>3 DEF RefusalIsFounded
  <2> QED BY <1>1, <2>3, <2>4, <2>5, Zenon DEF TaskIsSound
<1>4. LocksAreHeldForQueries /\ CacheIsTheLowest
  BY DEF QcInit, LocksAreHeldForQueries, CacheIsTheLowest
<1> QED BY <1>2, <1>3, <1>4 DEF QcInvariant

\* However the tasks that share the cache interleave and whatever the swap service
\* answers: at most one first query of a pair is under way, a lock is held only
\* during such a query, the cached price is the lowest one received, and a swap is
\* refused only on prices that were received (JupiterQuoteCache).
THEOREM QuotesAreSoundTheorem == QcSpec => []QuotesAreSound
<1>1. ASSUME QcInvariant PROVE OneFirstQuery
  <2> SUFFICES ASSUME NEW p \in QcPairs, qcCache[p] = MaxPrice
               PROVE  Cardinality({t \in Tasks : qcTasks[t].pc \in {"first", "query"}
                                                 /\ Pair(t) = p}) <= 1
    BY DEF OneFirstQuery
  <2> DEFINE S == {t \in Tasks : qcTasks[t].pc \in {"first", "query"} /\ Pair(t) = p}
  <2>1. \A t \in S : t = qcLock[p]
    BY <1>1 DEF QcInvariant, TaskIsSound
  <2>2. S = {} \/ S = {qcLock[p]}
    BY <2>1
  <2> HIDE DEF S
  <2>3. Cardinality(S) <= 1
    <3>1. Cardinality({}) = 0 /\ Cardinality({qcLock[p]}) = 1
      BY FS_EmptySet, FS_Singleton
    <3> QED BY <2>2, <3>1
  <2> QED BY <2>3 DEF S
<1>2. QcInvariant => QuotesAreSound
  BY <1>1 DEF QcInvariant, QuotesAreSound, RefusalsAreFounded, RefusalIsFounded
<1> QED BY QcInitially, QcStep, <1>2, PTL DEF QcSpec

=============================================================================
