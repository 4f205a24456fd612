---------------------------- MODULE QuoteCache ----------------------------
(***************************************************************************)
(* The liquidator's cache of swap prices (JupiterQuoteCache): concurrent   *)
(* preparations of conditional swaps ask for quotes of the same pairs, and *)
(* each pair's entry, behind an async mutex, keeps the lowest price seen   *)
(* so that hopeless requests are not sent.                                 *)
(*                                                                         *)
(* A task of kind "quote" asks for one pair with a price limit; one of     *)
(* kind "collateral" looks at the cached prices of its pairs, then quotes  *)
(* them without a limit and compares the product with its own.  A leg from *)
(* a mint to itself is priced 1 without a look or a quote: it is left out, *)
(* and the task has one pair.  (A swap has two mints, so one leg at most   *)
(* is such.)  `qcTasks` holds the place each task has reached, `qcCache`   *)
(* the price of each pair and `qcLock` the holder of its mutex.            *)
(* `qcQuoted` (history) is the set of prices recorded, per pair.           *)
(*                                                                         *)
(* Prices are small integers; `MaxPrice` stands for f64::MAX (no price     *)
(* yet) and a price above it for the infinite price of a quote that gives  *)
(* nothing.                                                                *)
(***************************************************************************)
EXTENDS Integers, Sequences, FiniteSets

CONSTANTS
    QcRequests,   \* by task: [kind, pairs, max]
    QcPrices,     \* prices the swap service may quote
    MaxPrice

Tasks == DOMAIN QcRequests
QcPairs == UNION {{QcRequests[t].pairs[i] : i \in DOMAIN QcRequests[t].pairs} : t \in Tasks}
Nobody == "nobody"

ASSUME QuoteCacheAssumption ==
    /\ MaxPrice \in Nat /\ QcPrices \subseteq Nat
    /\ Nobody \notin Tasks
    /\ \A t \in Tasks : /\ QcRequests[t].kind \in {"quote", "collateral"}
                        /\ QcRequests[t].max \in Nat
                        /\ QcRequests[t].pairs \in Seq(QcPairs)
                        /\ Len(QcRequests[t].pairs) \in {1, 2}
                        /\ QcRequests[t].kind = "quote" => Len(QcRequests[t].pairs) = 1

VARIABLES qcTasks, qcCache, qcLock, qcQuoted

qcVars == <<qcTasks, qcCache, qcLock, qcQuoted>>

Pair(t) == QcRequests[t].pairs[qcTasks[t].leg]
\* The limit a quote runs under; the legs of a collateral swap have none.
Limit(t) == IF QcRequests[t].kind = "quote" THEN QcRequests[t].max ELSE MaxPrice

Finished(task, answer, price) == [task EXCEPT !.pc = "done", !.answer = answer, !.price = price]

Bad(t, price) == Finished(qcTasks[t], "bad price", price)
Failed(t) == Finished(qcTasks[t], "error", 0)

-----------------------------------------------------------------------------
(* quote_collateral_swap: the cached prices of the legs come first.         *)

\* The cached price of a leg: all legs cached and too expensive together mean
\* that no request is sent.
Looked(t) ==
    LET known == qcTasks[t].known /\ qcCache[Pair(t)] # MaxPrice
        product == IF known THEN qcTasks[t].price * qcCache[Pair(t)] ELSE 0
        last == qcTasks[t].leg = Len(QcRequests[t].pairs) IN
    IF last /\ known /\ product > QcRequests[t].max THEN Bad(t, product)
    ELSE IF last THEN [qcTasks[t] EXCEPT !.pc = "ask", !.leg = 1, !.known = TRUE, !.price = 1]
    ELSE [qcTasks[t] EXCEPT !.leg = @ + 1, !.known = known, !.price = product]

CachedPriceLooked(t) ==
    /\ qcTasks[t].pc = "look" /\ qcLock[Pair(t)] = Nobody
    /\ qcTasks' = [qcTasks EXCEPT ![t] = Looked(t)]
    /\ UNCHANGED <<qcCache, qcLock, qcQuoted>>

-----------------------------------------------------------------------------
(* quote.                                                                  *)

AskUnlocked(t) ==
    /\ qcTasks[t].pc = "ask" /\ qcLock[Pair(t)] = Nobody
    /\ qcTasks' = [qcTasks EXCEPT ![t] =
         IF qcCache[Pair(t)] > Limit(t) /\ qcCache[Pair(t)] # MaxPrice
         THEN Bad(t, qcCache[Pair(t)]) ELSE [@ EXCEPT !.pc = "query"]]
    /\ UNCHANGED <<qcLock, qcCache, qcQuoted>>

\* The first to ask keeps the lock while it queries; later ones compare the
\* cached price and query without it.
Ask(t) ==
    /\ qcTasks[t].pc = "ask" /\ qcLock[Pair(t)] = Nobody
    /\ IF qcCache[Pair(t)] = MaxPrice
       THEN /\ qcLock' = [qcLock EXCEPT ![Pair(t)] = t]
            /\ qcTasks' = [qcTasks EXCEPT ![t].pc = "first"]
       ELSE /\ qcTasks' = [qcTasks EXCEPT ![t] =
                  IF qcCache[Pair(t)] > Limit(t) THEN Bad(t, qcCache[Pair(t)])
                  ELSE [@ EXCEPT !.pc = "query"]]
            /\ UNCHANGED qcLock
    /\ UNCHANGED <<qcCache, qcQuoted>>

\* The entry keeps the lowest price.
Lower(old, new) == IF new < old THEN new ELSE old

\* What a task does with the price of its leg.
Priced(t, price) ==
    LET product == qcTasks[t].price * price
        last == qcTasks[t].leg = Len(QcRequests[t].pairs) IN
    CASE price > Limit(t) /\ QcRequests[t].kind = "quote" -> Bad(t, price)
      [] price > Limit(t) /\ QcRequests[t].kind # "quote" -> Failed(t)
      [] OTHER -> IF ~last THEN [qcTasks[t] EXCEPT !.pc = "ask", !.leg = @ + 1, !.price = product]
                  ELSE IF product > QcRequests[t].max THEN Bad(t, product)
                  ELSE Finished(qcTasks[t], "quote", product)

QcRecorded(t, price) ==
    /\ qcCache' = [qcCache EXCEPT ![Pair(t)] = Lower(@, price)]
    /\ qcQuoted' = [qcQuoted EXCEPT ![Pair(t)] = @ \cup {price}]
    /\ qcTasks' = [qcTasks EXCEPT ![t] = Priced(t, price)]

\* The first query returns: the price is recorded and the lock released.
FirstQueryReturns(t) ==
    /\ qcTasks[t].pc = "first"
    /\ qcLock' = [qcLock EXCEPT ![Pair(t)] = Nobody]
    /\ \E price \in QcPrices : QcRecorded(t, price)

\* A query without the lock returns, and has to wait for the lock.
QueryReturns(t) ==
    /\ qcTasks[t].pc = "query"
    /\ \E price \in QcPrices : qcTasks' = [qcTasks EXCEPT ![t].pc = "store", ![t].quoted = price]
    /\ UNCHANGED <<qcCache, qcLock, qcQuoted>>

Store(t) ==
    /\ qcTasks[t].pc = "store" /\ qcLock[Pair(t)] = Nobody
    /\ QcRecorded(t, qcTasks[t].quoted)
    /\ UNCHANGED qcLock

\* A query fails: the guard, if the task holds it, is dropped.
QueryFails(t) ==
    /\ qcTasks[t].pc \in {"first", "query"}
    /\ qcTasks' = [qcTasks EXCEPT ![t] = Failed(t)]
    /\ qcLock' = [qcLock EXCEPT ![Pair(t)] = IF @ = t THEN Nobody ELSE @]
    /\ UNCHANGED <<qcCache, qcQuoted>>

-----------------------------------------------------------------------------

QcInit ==
    /\ qcTasks = [t \in Tasks |->
          [pc |-> IF QcRequests[t].kind = "quote" THEN "ask" ELSE "look", leg |-> 1,
           known |-> TRUE, price |-> 1, quoted |-> 0, answer |-> "none"]]
    /\ qcCache = [p \in QcPairs |-> MaxPrice]
    /\ qcLock = [p \in QcPairs |-> Nobody]
    /\ qcQuoted = [p \in QcPairs |-> {}]

QcNext == \E t \in Tasks : \/ CachedPriceLooked(t) \/ Ask(t) \/ FirstQueryReturns(t)
                           \/ QueryReturns(t) \/ Store(t) \/ QueryFails(t)

QcSpec == QcInit /\ [][QcNext]_qcVars

-----------------------------------------------------------------------------
(* Properties.                                                             *)

\* The types of the state.
QcTypeOK ==
    /\ qcTasks \in [Tasks -> [pc : {"look", "ask", "first", "query", "store", "done"}, leg : {1, 2},
                             known : BOOLEAN, price : Nat, quoted : Nat,
                             answer : {"none", "bad price", "error", "quote"}]]
    /\ \A t \in Tasks : qcTasks[t].leg <= Len(QcRequests[t].pairs)
    /\ qcCache \in [QcPairs -> 0 .. MaxPrice]
    /\ qcLock \in [QcPairs -> Tasks \cup {Nobody}]
    /\ qcQuoted \in [QcPairs -> SUBSET Nat]

\* Until a price is known for a pair, at most one request for it is under
\* way: the others wait for its answer, and if it fails the next one takes
\* its place ("we don't want multiple parallel requests to go out that will
\* all potentially tell us about the same poor price").
OneFirstQuery ==
    \A p \in QcPairs : qcCache[p] = MaxPrice =>
      Cardinality({t \in Tasks : qcTasks[t].pc \in {"first", "query"} /\ Pair(t) = p}) <= 1

\* A pair's mutex is held only by a task whose request is under way, so that
\* whoever waits for it waits for the swap service and for nobody else.
LocksAreHeldForQueries ==
    \A p \in QcPairs : qcLock[p] # Nobody =>
      qcTasks[qcLock[p]].pc = "first" /\ Pair(qcLock[p]) = p

\* The cached price is the lowest of all quotes received, in whatever order
\* parallel requests return.
CacheIsTheLowest ==
    \A p \in QcPairs : /\ \A q \in qcQuoted[p] : qcCache[p] <= q
                       /\ qcCache[p] = MaxPrice \/ qcCache[p] \in qcQuoted[p]

\* A task is told of a bad price only if quotes that were received add up to
\* that price, and it is above the task's limit.
RefusalsAreFounded ==
    \A t \in Tasks : qcTasks[t].answer = "bad price" =>
      /\ qcTasks[t].price > QcRequests[t].max
      /\ LET pairs == QcRequests[t].pairs IN
         IF Len(pairs) = 1 THEN qcTasks[t].price \in qcQuoted[pairs[1]]
         ELSE \E x \in qcQuoted[pairs[1]], y \in qcQuoted[pairs[2]] : qcTasks[t].price = x * y

\* Tasks that share the quote cache query a pair for the first time one by
\* one, hold no lock without a query, and refuse a swap only on a price that
\* was seen.
QuotesAreSound ==
  /\ QcTypeOK
  /\ OneFirstQuery
  /\ LocksAreHeldForQueries
  /\ CacheIsTheLowest
  /\ RefusalsAreFounded

=============================================================================
