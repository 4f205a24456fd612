------------------------- MODULE PerpMatchingProofs -------------------------
(***************************************************************************)
(* Placing an order, and every iteration of its matching loop, keep the    *)
(* invariant of the perp market.                                           *)
(***************************************************************************)
EXTENDS PerpInvariant, SequenceTheorems, TLAPS

(* Lemmas about the operators. *)

\* Key order is a strict total order on orders with different ids.
LEMMA RanksBeforeIsOrder ==
    ASSUME NEW side \in Sides, NEW p \in Int, NEW q \in Int,
           NEW l \in Leaves, NEW m \in Leaves
    PROVE  /\ RanksBefore(side, p, l, q, m) => ~RanksBefore(side, q, m, p, l)
           /\ l.id # m.id => \/ RanksBefore(side, p, l, q, m)
                             \/ RanksBefore(side, q, m, p, l)
  BY DEF RanksBefore, IsPriceBetter, Leaves, Sides

\* A peek returns one of the leaves, and only one.
LEMMA PeekIsFirst ==
    ASSUME NEW side \in Sides, NEW leaves \in SUBSET Leaves
    PROVE  /\ Peek(side, leaves) \subseteq leaves
           /\ \A l, m \in Peek(side, leaves) : l = m
  <1>1. Peek(side, leaves) \subseteq leaves
    BY DEF Peek
  <1>2. ASSUME NEW l \in Peek(side, leaves), NEW m \in Peek(side, leaves), l # m
        PROVE  FALSE
    <2>1. l \in Leaves /\ m \in Leaves /\ l.price \in Int /\ m.price \in Int
      BY <1>1, <1>2 DEF Leaves
    <2>2. /\ RanksBefore(side, l.price, l, m.price, m)
          /\ RanksBefore(side, m.price, m, l.price, l)
      BY <1>1, <1>2 DEF Peek
    <2>3. QED  BY <2>1, <2>2, RanksBeforeIsOrder
  <1>3. QED  BY <1>1, <1>2

\* The price of an order is a whole number of lots, at least one.
LEMMA PriceOfType ==
    ASSUME NEW leaf \in Leaves, oracle \in Int
    PROVE  /\ PriceOf(leaf) \in Int
           /\ (leaf.tree = "Fixed" => leaf.price >= 1) => PriceOf(leaf) >= 1
  BY DEF PriceOf, Greatest, Leaves, Trees

\* At most one order is the worst of its side.
LEMMA WorstOfIsOne ==
    ASSUME NEW side \in Sides, NEW leaves \in SUBSET Leaves, oracle \in Int
    PROVE  /\ WorstOf(side, leaves) \subseteq leaves
           /\ \A l, m \in WorstOf(side, leaves) : l = m
  <1>1. WorstOf(side, leaves) \subseteq leaves
    BY DEF WorstOf, Last, InTree
  <1>2. ASSUME NEW l \in WorstOf(side, leaves), NEW m \in WorstOf(side, leaves), l # m
        PROVE  FALSE
    <2>1. l \in Leaves /\ m \in Leaves
      BY <1>1, <1>2
    <2>2. PriceOf(l) \in Int /\ PriceOf(m) \in Int
      BY <2>1, PriceOfType
    <2>3. /\ RanksBefore(side, PriceOf(m), m, PriceOf(l), l)
          /\ RanksBefore(side, PriceOf(l), l, PriceOf(m), m)
      BY <1>2 DEF WorstOf
    <2>4. QED  BY <2>1, <2>2, <2>3, RanksBeforeIsOrder
  <1>3. QED  BY <1>1, <1>2

\* What matches at most a / b units of price b costs at most a.
LEMMA AffordableQuote ==
    ASSUME NEW a \in Nat, NEW b \in Nat \ {0}, NEW q \in Nat, q <= a \div b
    PROVE  q * b \in Nat /\ q * b <= a
  <1>1. PICK d \in Nat, r \in 0 .. b - 1 : a = d * b + r /\ a \div b = d
    OBVIOUS
  <1>2. q * b <= d * b
    BY <1>1
  <1>3. QED  BY <1>1, <1>2

\* u has the elements of s followed by those of t.
Joins(u, s, t) ==
    /\ Len(u) = Len(s) + Len(t)
    /\ \A i \in 1 .. Len(s) : u[i] = s[i]
    /\ \A j \in 1 .. Len(t) : u[Len(s) + j] = t[j]
    /\ \A i \in 1 .. Len(u) : i \in 1 .. Len(s) \/ \E j \in 1 .. Len(t) : i = Len(s) + j

\* The elements of a concatenation.
LEMMA ConcatElements ==
    ASSUME NEW S, NEW s \in Seq(S), NEW t \in Seq(S)
    PROVE  s \o t \in Seq(S) /\ Joins(s \o t, s, t)
  <1>1. Len(s) \in Nat /\ Len(t) \in Nat
    OBVIOUS
  <1>2. /\ s \o t \in Seq(S)
        /\ Len(s \o t) = Len(s) + Len(t)
        /\ \A i \in 1 .. Len(s) + Len(t) :
             (s \o t)[i] = IF i <= Len(s) THEN s[i] ELSE t[i - Len(s)]
    BY ConcatProperties
  <1>3. ASSUME NEW j \in 1 .. Len(t)
        PROVE  (s \o t)[Len(s) + j] = t[j]
    <2>1. /\ Len(s) + j \in 1 .. Len(s) + Len(t) /\ ~(Len(s) + j <= Len(s))
          /\ Len(s) + j - Len(s) = j
      BY <1>1
    <2>2. QED  BY <1>2, <2>1
  <1>4. ASSUME NEW i \in 1 .. Len(s \o t), i \notin 1 .. Len(s)
        PROVE  \E j \in 1 .. Len(t) : i = Len(s) + j
    <2>1. i - Len(s) \in 1 .. Len(t) /\ i = Len(s) + (i - Len(s))
      BY <1>1, <1>2, <1>4
    <2>2. QED  BY <2>1, Zenon
  <1>5. \A i \in 1 .. Len(s) : (s \o t)[i] = s[i]
    BY <1>1, <1>2
  <1>6. \A i \in 1 .. Len(s \o t) :
          i \in 1 .. Len(s) \/ \E j \in 1 .. Len(t) : i = Len(s) + j
    BY <1>4
  <1>7. QED  BY <1>2, <1>3, <1>5, <1>6, Zenon DEF Joins

-----------------------------------------------------------------------------
(* The iterator. *)

\* The loop matches against the other side of the book.
LEMMA OppositeSide ==
    ASSUME TypeOK
    PROVE  /\ tx.order.side \in Sides
           /\ Opposite \in Sides
           /\ Opposite # tx.order.side
  BY Zenon DEF TypeOK, Transactions, Orders, Opposite, Invert, Sides

\* The two tree iterators only ever lose leaves.
LEMMA IteratorsShrink ==
    ASSUME NEW side, NEW fixed, NEW pegged, NEW leaf
    PROVE  /\ FixedAfter(side, fixed, leaf) \subseteq fixed
           /\ PeggedAfter(side, pegged, leaf) \subseteq pegged
  <1>1. FixedAfter(side, fixed, leaf) \subseteq fixed
    BY DEF FixedAfter
  <1>2. PeggedRest(side, pegged) \subseteq pegged
    BY DEF PeggedRest
  <1>3. QED  BY <1>1, <1>2 DEF PeggedAfter

\* The item the iterator returns is one of the orders yet to visit.
LEMMA IterItemIsNew ==
    ASSUME TypeOK
    PROVE  BestOpposing \subseteq Rest
  BY DEF BestOpposing, IterItem, Peek, PeggedPeek, Rest

\* Returning an order moves the iterator past it.
LEMMA AdvancePasses ==
    ASSUME TypeOK, IdsInv, MatchInv, NEW leaf \in BestOpposing
    PROVE  /\ leaf \notin FixedAfter(Opposite, tx.fixed, leaf)
           /\ leaf \notin PeggedAfter(Opposite, tx.pegged, leaf)
  <1> DEFINE side == Opposite
             before(l, m) == RanksBefore(side, l.price, l, m.price, m)
             peek == PeggedPeek(side, tx.pegged)
             rest == PeggedRest(side, tx.pegged)
  <1>1. side \in Sides
    BY OppositeSide
  <1>2. /\ tx.fixed \in SUBSET Leaves /\ tx.pegged \in SUBSET Leaves
        /\ Rest \subseteq book
    BY DEF TypeOK, Transactions, MatchInv, OnSide
  <1>3. leaf \in Leaves /\ leaf \in Peek(side, tx.fixed) \cup peek
    BY <1>2, IterItemIsNew DEF BestOpposing, IterItem, Rest
  <1>4. peek \subseteq tx.pegged /\ \A l, m \in peek : l = m
    <2>1. {l \in tx.pegged : ~IsSkipped(l)} \in SUBSET Leaves
      BY <1>2
    <2>2. QED  BY <1>1, <2>1, PeekIsFirst, Zenon DEF PeggedPeek
  <1>5. CASE leaf.tree = "Fixed"
    <2>1. leaf \notin tx.pegged
      BY <1>5 DEF MatchInv
    <2>2. leaf \in Peek(side, tx.fixed)
      BY <1>3, <1>4, <2>1
    <2>3. QED  BY <1>5, <2>1, <2>2, IteratorsShrink DEF FixedAfter
  <1>6. CASE leaf.tree # "Fixed"
    <2>1. leaf \notin tx.fixed
      BY <1>6 DEF MatchInv
    <2>2. leaf \in peek /\ leaf \in tx.pegged /\ leaf.tree = "OraclePegged"
      BY <1>1, <1>2, <1>3, <1>4, <2>1, PeekIsFirst DEF MatchInv
    <2>3. ASSUME NEW m \in tx.pegged, m # leaf
          PROVE  /\ m \in Leaves
                 /\ before(leaf, m) \/ before(m, leaf)
                 /\ ~(before(leaf, m) /\ before(m, leaf))
      <3>1. m \in book /\ leaf \in book /\ m \in Leaves
        BY <1>2, <2>2, <2>3 DEF Rest
      <3>2. m.id # leaf.id
        BY <2>3, <3>1 DEF IdsInv
      <3>3. m.price \in Int /\ leaf.price \in Int
        BY <1>3, <3>1 DEF Leaves
      <3>4. QED  BY <1>1, <1>3, <3>1, <3>2, <3>3, RanksBeforeIsOrder
    <2>4. ~before(leaf, leaf)
      BY <1>3 DEF RanksBefore, IsPriceBetter, Leaves
    <2>5. CASE \E l \in tx.pegged : IsSkipped(l) /\ \A m \in peek : before(l, m)
      <3>1. rest = {l \in tx.pegged : \E m \in peek : before(m, l)}
        BY <2>5 DEF PeggedRest
      <3>2. leaf \notin rest
        BY <1>4, <2>2, <2>4, <3>1
      <3>3. QED  BY <2>1, <2>2, <3>2, IteratorsShrink DEF PeggedAfter
    <2>6. CASE ~\E l \in tx.pegged : IsSkipped(l) /\ \A m \in peek : before(l, m)
      <3>1. rest = tx.pegged
        BY <2>6 DEF PeggedRest
      <3>2. ASSUME NEW m \in tx.pegged, m # leaf
            PROVE  before(leaf, m)
        <4>1. CASE IsSkipped(m)
          <5>1. ~before(m, leaf)
            BY <1>4, <2>2, <2>6, <4>1
          <5>2. QED  BY <2>3, <3>2, <5>1
        <4>2. CASE ~IsSkipped(m)
          BY <2>2, <3>2, <4>2 DEF PeggedPeek, Peek
        <4>3. QED  BY <4>1, <4>2
      <3>3. leaf \in Peek(side, rest)
        BY <2>2, <3>1, <3>2 DEF Peek
      <3>4. QED  BY <2>1, <2>2, <3>3, IteratorsShrink DEF PeggedAfter
    <2>7. QED  BY <2>5, <2>6
  <1>7. QED  BY <1>5, <1>6

-----------------------------------------------------------------------------
(* One visit of the matching loop. *)

\* Noting one event about the order the iterator returns, a finishing one when
\* the order is to be deleted, keeps the notes consistent.
LEMMA VisitKeepsMatchInv ==
    ASSUME TypeOK, IdsInv, MatchInv,
           NEW leaf \in BestOpposing, NEW e \in Events, SameOrder(e, leaf),
           book' = book, tx'.order = tx.order,
           tx'.fixed = FixedAfter(Opposite, tx.fixed, leaf),
           tx'.pegged = PeggedAfter(Opposite, tx.pegged, leaf),
           tx'.events = Append(tx.events, e),
           \/ /\ Finishes(e)
              /\ tx'.deletes = tx.deletes \cup {leaf} /\ tx'.changes = tx.changes
           \/ /\ ~Finishes(e) /\ tx'.deletes = tx.deletes
              /\ \E q : tx'.changes = tx.changes \cup {[leaf |-> leaf, quantity |-> q]}
    PROVE  MatchInv'
  <1> DEFINE n == Len(tx.events)
  <1>1. /\ leaf \in Rest /\ leaf \notin Touched
        /\ leaf \in OnSide(book, Opposite) /\ leaf \in book
    BY IterItemIsNew DEF MatchInv, OnSide
  <1>2. Opposite' = Opposite
    BY DEF Opposite
  <1>3. /\ tx'.fixed \subseteq tx.fixed /\ tx'.pegged \subseteq tx.pegged
        /\ Rest' \subseteq Rest /\ leaf \notin Rest'
    BY IteratorsShrink, AdvancePasses DEF Rest
  <1>4. /\ Touched' = Touched \cup {leaf}
        /\ tx'.deletes \cap Changed' = {}
        /\ tx'.deletes = IF Finishes(e) THEN tx.deletes \cup {leaf} ELSE tx.deletes
    <2>1. CASE Finishes(e)
      <3>1. Changed' = Changed
        BY <2>1 DEF Changed
      <3>2. QED  BY <1>1, <2>1, <3>1 DEF Touched, MatchInv
    <2>2. CASE ~Finishes(e)
      <3>1. PICK q : tx'.changes = tx.changes \cup {[leaf |-> leaf, quantity |-> q]}
        BY <2>2, Zenon
      <3>2. Changed' = Changed \cup {leaf}
        <4>1. \A c \in tx'.changes : c \in tx.changes \/ c.leaf = leaf
          BY <3>1
        <4>2. /\ \A c \in tx.changes : c \in tx'.changes
              /\ \E c \in tx'.changes : c.leaf = leaf
          <5>1. [leaf |-> leaf, quantity |-> q] \in tx'.changes
            BY ONLY <3>1, Zenon
          <5>2. [leaf |-> leaf, quantity |-> q].leaf = leaf
            OBVIOUS
          <5>3. \A c \in tx.changes : c \in tx'.changes
            BY ONLY <3>1, Zenon
          <5>4. QED  BY ONLY <5>1, <5>2, <5>3, Zenon
        <4>3. \A x : x \in Changed' <=> x \in Changed \/ x = leaf
          BY ONLY <4>1, <4>2, Zenon DEF Changed
        <4>4. QED  BY ONLY <4>3, Zenon
      <3>3. QED  BY <1>1, <2>2, <3>2 DEF Touched, MatchInv
    <2>3. QED  BY <2>1, <2>2
  <1>5. \A c, d \in tx'.changes : c.leaf = d.leaf => c = d
    <2>1. \A c \in tx.changes : c.leaf # leaf
      BY <1>1 DEF Touched, Changed
    <2>2. QED  BY <2>1 DEF MatchInv
  <1>6. /\ n \in Nat /\ Len(tx'.events) = n + 1
        /\ \A i \in 1 .. n : tx'.events[i] = tx.events[i]
        /\ tx'.events[n + 1] = e
    BY SMTT(20) DEF TypeOK, Transactions
  <1>7. \A i \in 1 .. n + 1 : i \in 1 .. n \/ i = n + 1
    BY <1>6
  <1>8. ASSUME NEW i \in 1 .. n
        PROVE  \E l \in Touched : /\ SameOrder(tx.events[i], l)
                                  /\ Finishes(tx.events[i]) <=> l \in tx.deletes
    BY DEF MatchInv
  <1>9. ASSUME NEW i \in 1 .. n + 1
        PROVE  \E l \in Touched' : /\ SameOrder(tx'.events[i], l)
                                   /\ Finishes(tx'.events[i]) <=> l \in tx'.deletes
    <2>1. CASE i = n + 1
      BY <1>1, <1>4, <1>6, <2>1 DEF Touched
    <2>2. CASE i \in 1 .. n
      <3>1. PICK l \in Touched : /\ SameOrder(tx.events[i], l)
                                 /\ Finishes(tx.events[i]) <=> l \in tx.deletes
        BY <1>8, <2>2
      <3>2. l # leaf
        BY <1>1
      <3>3. QED  BY <1>4, <1>6, <2>2, <3>1, <3>2
    <2>3. QED  BY <1>7, <2>1, <2>2
  <1>10. ASSUME NEW l \in tx'.deletes
         PROVE  \E i \in 1 .. n + 1 :
                  SameOrder(tx'.events[i], l) /\ Finishes(tx'.events[i])
    <2>1. CASE l \in tx.deletes
      <3>1. PICK i \in 1 .. n : SameOrder(tx.events[i], l) /\ Finishes(tx.events[i])
        BY <2>1 DEF MatchInv
      <3>2. i \in 1 .. n + 1
        BY <1>6
      <3>3. QED  BY <1>6, <3>1, <3>2
    <2>2. CASE l \notin tx.deletes
      <3>1. l = leaf /\ Finishes(e) /\ n + 1 \in 1 .. n + 1
        BY <1>4, <1>6, <2>2
      <3>2. QED  BY <1>6, <3>1
    <2>3. QED  BY <2>1, <2>2, SMTT(20)
  <1>11. ASSUME NEW i \in 1 .. n
         PROVE  tx.events[i].order_id # leaf.id
    <2>1. PICK l \in Touched : SameOrder(tx.events[i], l)
      BY <1>8
    <2>2. l \in book /\ l # leaf
      BY <1>1 DEF MatchInv, OnSide
    <2>3. QED  BY <1>1, <2>1, <2>2 DEF IdsInv, SameOrder
  <1>12. ASSUME NEW i \in 1 .. n + 1, NEW j \in 1 .. n + 1,
                tx'.events[i].order_id = tx'.events[j].order_id
         PROVE  i = j
    <2>1. e.order_id = leaf.id
      BY DEF SameOrder
    <2>2. CASE i \in 1 .. n /\ j \in 1 .. n
      BY <1>6, <1>12, <2>2 DEF MatchInv
    <2>3. QED  BY <1>6, <1>7, <1>11, <1>12, <2>1, <2>2
  <1>13. Touched' \subseteq OnSide(book, Opposite) /\ Rest' \cap Touched' = {}
    BY <1>1, <1>3, <1>4 DEF MatchInv
  <1>14. (OnSide(book, Opposite))' = OnSide(book, Opposite)
    BY <1>2 DEF OnSide
  <1>15. Rest' \subseteq OnSide(book, Opposite)
    BY <1>3 DEF MatchInv
  <1>16. /\ \A l \in tx'.fixed : l.tree = "Fixed"
         /\ \A l \in tx'.pegged : l.tree = "OraclePegged"
    BY <1>3 DEF MatchInv
  <1>17. QED
    BY <1>4, <1>5, <1>6, <1>9, <1>10, <1>12, <1>13, <1>14, <1>15, <1>16, Zenon DEF MatchInv

\* Visiting fewer orders keeps the notes consistent.
LEMMA FewerVisitsKeepMatchInv ==
    ASSUME MatchInv, book' = book, tx'.order = tx.order,
           tx'.fixed \subseteq tx.fixed, tx'.pegged \subseteq tx.pegged,
           tx'.deletes = tx.deletes, tx'.changes = tx.changes, tx'.events = tx.events
    PROVE  MatchInv'
  <1>1. Opposite' = Opposite
    BY DEF Opposite
  <1>2. /\ Rest' \subseteq Rest /\ Changed' = Changed /\ Touched' = Touched
        /\ (OnSide(book, Opposite))' = OnSide(book, Opposite)
    BY <1>1 DEF Rest, Changed, Touched, OnSide
  <1>3. /\ \A l \in tx'.fixed : l.tree = "Fixed"
        /\ \A l \in tx'.pegged : l.tree = "OraclePegged"
    BY DEF MatchInv
  <1>4. /\ Rest' \subseteq OnSide(book, Opposite)
        /\ Rest' \cap Touched = {}
    BY <1>2 DEF MatchInv
  <1>5. QED  BY <1>2, <1>3, <1>4, Zenon DEF MatchInv

-----------------------------------------------------------------------------
(* Steps that only change the running instruction. *)

\* Slots stay consistent with a book and a queue that do not change.
LEMMA QuietKeepsSlots ==
    ASSUME SlotsInv, book' = book, queue' = queue, open_orders' = open_orders
    PROVE  SlotsInv'
  BY DEF SlotsInv, BookOrdersHaveSlots, TakenSlotsAreFreed, FinishedOrdersAreGone,
         SlotHolds

\* So do the ids and prices on the book.
LEMMA QuietKeepsIds ==
    ASSUME IdsInv, PricesInv, book' = book, queue' = queue,
           market'.seq_num = market.seq_num
    PROVE  IdsInv' /\ PricesInv'
  BY DEF IdsInv, PricesInv

\* Only the running instruction has to be looked at in such a step.
LEMMA QuietStep ==
    ASSUME IInv, tx' \in Transactions, TxInv',
           UNCHANGED <<book, queue, position, open_orders, market, now_ts, oracle>>
    PROVE  IInv'
  <1>1. TypeOK'
    BY DEF IInv, TypeOK
  <1>2. SlotsInv'
    BY QuietKeepsSlots DEF IInv
  <1>3. IdsInv' /\ PricesInv'
    BY QuietKeepsIds DEF IInv
  <1>4. QED  BY <1>1, <1>2, <1>3 DEF IInv

\* The value of tx between instructions is well typed.
LEMMA IdleType == Idle \in Transactions
  <1>1. NoOrder \in Orders
    BY DEF NoOrder, Orders, Sides, PegNone
  <1>2. <<>> \in Seq(Events) /\ 0 \in Slots
    BY PerpOoCountAssumption DEF Slots
  <1>3. QED  BY <1>1, <1>2 DEF Idle, Transactions

\* An instruction that has ended has nothing noted.
LEMMA IdleInv == ASSUME tx' = Idle PROVE TxInv'
  BY DEF Idle, TxInv, LoopInv

\* The lots an order may do, reduced or not, are a natural number.
LEMMA MaxBaseLotsType ==
    ASSUME TypeOK, NEW a \in Accounts, NEW order \in Orders
    PROVE  MaxBaseLots(position[a], order) \in Nat
  <1>1. /\ position[a].base \in Int /\ position[a].taker_base_lots \in Int
        /\ position[a].bids_base_lots \in Int /\ position[a].asks_base_lots \in Int
        /\ order.max_base_lots \in Nat
    BY Zenon DEF TypeOK, PerpPositions, Orders
  <1>2. ReduceOnlyMaxBaseLots(position[a], order) \in Nat
    BY <1>1, SMTT(20) DEF ReduceOnlyMaxBaseLots, EffectiveBase, Least, Greatest, Abs
  <1>3. QED  BY <1>1, <1>2 DEF MaxBaseLots

\* Starting an order.
LEMMA PlaceOrderKeepsIInv ==
    ASSUME IInv, NEW a \in Accounts, NEW order \in OrderInputs, PerpPlaceOrder(a, order)
    PROVE  IInv'
  <1> DEFINE max_base_lots == MaxBaseLots(position[a], order)
             opposing == OnSide(book, Invert(order.side))
             placed == [order EXCEPT !.max_base_lots = max_base_lots]
  <1>1. order \in Orders /\ max_base_lots \in Nat
    BY OrderInputsAssumption, MaxBaseLotsType DEF IInv
  <1>2. /\ placed \in Orders /\ placed.side = order.side /\ placed.kind = order.kind
    BY <1>1 DEF Orders
  <1>3. LimitPrice(order) \in Int
    BY <1>1, OracleAssumption DEF LimitPrice, MaxPrice, Orders, IInv, TypeOK
  <1>4. /\ tx'.phase = (IF IsSlide(order) THEN "price" ELSE "match")
        /\ tx'.account = a /\ tx'.order = placed /\ tx'.price = LimitPrice(order)
        /\ tx'.fixed = InTree(opposing, "Fixed")
        /\ tx'.pegged = InTree(opposing, "OraclePegged")
        /\ tx'.base = max_base_lots /\ tx'.quote = order.max_quote_lots
        /\ tx'.limit = order.limit /\ tx'.post = IsPostable(order)
        /\ tx'.deletes = {} /\ tx'.changes = {} /\ tx'.events = <<>>
    BY DEF PerpPlaceOrder, Idle
  <1>5. tx' \in Transactions
    <2>1. /\ InTree(opposing, "Fixed") \in SUBSET Leaves
          /\ InTree(opposing, "OraclePegged") \in SUBSET Leaves
      BY DEF IInv, TypeOK, OnSide, InTree
    <2>2. order.max_quote_lots \in Nat /\ order.limit \in Nat
      BY <1>1 DEF Orders
    <2>3. IsPostable(order) \in BOOLEAN
      BY DEF IsPostable
    <2> DEFINE phase == IF IsSlide(order) THEN "price" ELSE "match"
               price == LimitPrice(order)
               fixed == InTree(opposing, "Fixed")
               pegged == InTree(opposing, "OraclePegged")
               post == IsPostable(order)
    <2>4. tx' = [ Idle EXCEPT !.phase = phase, !.account = a, !.order = placed,
                    !.price = price, !.fixed = fixed, !.pegged = pegged,
                    !.base = max_base_lots, !.quote = order.max_quote_lots,
                    !.limit = order.limit, !.post = post ]
      BY DEF PerpPlaceOrder
    <2>5. phase \in {"price", "match"} /\ price \in Int
      BY <1>3
    <2> HIDE DEF phase, price, fixed, pegged, post
    <2>6. /\ fixed \in SUBSET Leaves /\ pegged \in SUBSET Leaves
          /\ post \in BOOLEAN
      BY <2>1, <2>3 DEF fixed, pegged, post
    <2> HIDE DEF placed, max_base_lots
    <2>7. QED  BY <1>1, <1>2, <2>2, <2>4, <2>5, <2>6, IdleType DEF Transactions
  <1>6. LoopInv'
    <2>1. tx'.phase = "match" => LimitPrice(order) >= 1
      BY <1>4 DEF PerpPlaceOrder
    <2>2. tx'.post => IsPostable(tx'.order)
      BY <1>2, <1>4, Zenon DEF IsPostable
    <2>3. QED  BY <1>4, <2>1, <2>2 DEF LoopInv
  <1>7. MatchInv'
    <2>1. Opposite' = Invert(order.side)
      BY <1>2, <1>4 DEF Opposite
    <2>2. book' = book
      BY DEF PerpPlaceOrder
    <2>3. QED
      BY <1>4, <2>1, <2>2
      DEF MatchInv, Rest, Touched, Changed, InTree, OnSide
  <1>8. QED
    BY <1>5, <1>6, <1>7, QuietStep DEF PerpPlaceOrder, TxInv

\* Moving the iterator on changes nothing else of the instruction.
LEMMA AdvanceFields ==
    ASSUME TypeOK, NEW leaf
    PROVE  /\ Advance(leaf) \in Transactions
           /\ Advance(leaf).fixed = FixedAfter(Opposite, tx.fixed, leaf)
           /\ Advance(leaf).pegged = PeggedAfter(Opposite, tx.pegged, leaf)
           /\ \A f \in {"phase", "account", "order", "price", "base", "quote",
                        "decremented", "dropped", "limit", "post", "deletes",
                        "changes", "events"} : Advance(leaf)[f] = tx[f]
  <1>1. tx \in Transactions
    BY DEF TypeOK
  <1>2. /\ FixedAfter(Opposite, tx.fixed, leaf) \in SUBSET Leaves
        /\ PeggedAfter(Opposite, tx.pegged, leaf) \in SUBSET Leaves
    BY <1>1, IteratorsShrink, Zenon DEF Transactions
  <1>3. QED  BY <1>1, <1>2, Zenon DEF Advance, Transactions

\* Starting the loop at a price of at least one lot.
LEMMA StartMatchingKeepsTx ==
    ASSUME IInv, tx.phase = "price", NEW price \in Int, StartMatching(price), book' = book
    PROVE  tx' \in Transactions /\ TxInv'
  <1> DEFINE opposing == OnSide(book, Opposite)
  <1>1. /\ InTree(opposing, "Fixed") \in SUBSET Leaves
        /\ InTree(opposing, "OraclePegged") \in SUBSET Leaves
    BY DEF IInv, TypeOK, OnSide, InTree
  <1>2. tx \in Transactions
    BY DEF IInv, TypeOK
  <1>3. /\ tx' \in Transactions
        /\ tx'.phase = "match" /\ tx'.price = price /\ price >= 1
        /\ tx'.fixed = InTree(opposing, "Fixed")
        /\ tx'.pegged = InTree(opposing, "OraclePegged")
        /\ tx'.account = tx.account /\ tx'.order = tx.order /\ tx'.post = tx.post
        /\ tx'.deletes = tx.deletes /\ tx'.changes = tx.changes
        /\ tx'.events = tx.events
    BY <1>1, <1>2, Zenon DEF StartMatching, Transactions
  <1>4. /\ tx.deletes = {} /\ tx.changes = {} /\ tx.events = <<>>
        /\ tx.account \in Accounts /\ (tx.post => IsPostable(tx.order))
    BY DEF IInv, TxInv, LoopInv
  <1>5. LoopInv'
    BY <1>3, <1>4 DEF LoopInv
  <1>6. MatchInv'
    <2>1. Opposite' = Opposite
      BY <1>3 DEF Opposite
    <2>2. QED
      BY <1>3, <1>4, <2>1 DEF MatchInv, Rest, Touched, Changed, InTree, OnSide
  <1>7. QED  BY <1>3, <1>5, <1>6 DEF TxInv

\* An order the iterator returns is a leaf of the book.
LEMMA BestOpposingIsLeaf ==
    ASSUME TypeOK, NEW leaf \in BestOpposing
    PROVE  leaf \in Leaves
  BY IterItemIsNew, Zenon DEF TypeOK, Transactions, Rest

\* Looking for the price a sliding post-only order is posted at.
LEMMA SlidePriceKeepsIInv ==
    ASSUME IInv, SlidePrice PROVE IInv'
  <1>1. /\ tx.phase = "price" /\ TypeOK
        /\ UNCHANGED <<book, queue, position, open_orders, market, now_ts, oracle>>
    BY DEF SlidePrice, IInv
  <1>2. tx.price \in Int /\ tx.order.side \in Sides /\ oracle \in Int
    BY <1>1, OracleAssumption DEF TypeOK, Transactions, Orders
  <1>3. tx' \in Transactions /\ TxInv'
    <2>1. CASE StartMatching(tx.price)
      BY <1>1, <1>2, <2>1, StartMatchingKeepsTx
    <2>2. ASSUME NEW leaf \in BestOpposing,
                 StartMatching(PostOnlySlideLimit(tx.order.side, PriceOf(leaf), tx.price))
          PROVE  tx' \in Transactions /\ TxInv'
      <3>1. leaf \in Leaves
        BY <1>1, BestOpposingIsLeaf
      <3>2. PriceOf(leaf) \in Int
        BY <1>2, <3>1, PriceOfType
      <3>3. PostOnlySlideLimit(tx.order.side, PriceOf(leaf), tx.price) \in Int
        BY <1>2, <3>2 DEF PostOnlySlideLimit, Least, Greatest
      <3>4. QED  BY <1>1, <2>2, <3>3, StartMatchingKeepsTx
    <2>3. ASSUME NEW leaf \in BestOpposing, tx' = Advance(leaf)
          PROVE  tx' \in Transactions /\ TxInv'
      <3>1. /\ tx' \in Transactions /\ tx'.phase = "price"
            /\ tx'.account = tx.account /\ tx'.order = tx.order /\ tx'.post = tx.post
            /\ tx'.deletes = tx.deletes /\ tx'.changes = tx.changes
            /\ tx'.events = tx.events
        BY <1>1, <2>3, AdvanceFields
      <3>2. QED  BY <1>1, <3>1 DEF IInv, TxInv, LoopInv
    <2>4. QED  BY <2>1, <2>2, <2>3 DEF SlidePrice
  <1>4. QED  BY <1>1, <1>3, QuietStep

\* Leaving the matching loop.
LEMMA MatchEndsKeepsIInv ==
    ASSUME IInv, MatchEnds PROVE IInv'
  <1>1. /\ tx.phase = "match" /\ tx \in Transactions /\ MatchInv /\ LoopInv
        /\ UNCHANGED <<book, queue, position, open_orders, market, now_ts, oracle>>
    BY DEF MatchEnds, IInv, TypeOK, TxInv
  <1>2. PICK post \in BOOLEAN : EndMatching(post)
    BY Zenon DEF MatchEnds
  <1>3. /\ tx' \in Transactions /\ tx'.phase = "post"
        /\ tx'.fixed = {} /\ tx'.pegged = {} /\ (tx'.post => tx.post)
        /\ tx'.account = tx.account /\ tx'.order = tx.order /\ tx'.price = tx.price
        /\ tx'.deletes = tx.deletes /\ tx'.changes = tx.changes
        /\ tx'.events = tx.events
    BY <1>1, <1>2, Zenon DEF EndMatching, Transactions
  <1>4. LoopInv'
    BY <1>1, <1>3 DEF LoopInv
  <1>5. MatchInv'
    BY <1>1, <1>3, FewerVisitsKeepMatchInv
  <1>6. QED  BY <1>1, <1>3, <1>4, <1>5, QuietStep DEF TxInv

\* A visit that only moves the iterator on keeps the notes as they are.
LEMMA PassOverKeepsIInv ==
    ASSUME IInv, tx.phase = "match", NEW leaf, tx' = Advance(leaf),
           UNCHANGED <<book, queue, position, open_orders, market, now_ts, oracle>>
    PROVE  IInv'
  <1>1. TypeOK /\ MatchInv /\ LoopInv
    BY DEF IInv, TxInv
  <1>2. /\ tx' \in Transactions /\ tx'.phase = "match"
        /\ tx'.account = tx.account /\ tx'.order = tx.order /\ tx'.post = tx.post
        /\ tx'.price = tx.price
        /\ tx'.deletes = tx.deletes /\ tx'.changes = tx.changes
        /\ tx'.events = tx.events
        /\ tx'.fixed = FixedAfter(Opposite, tx.fixed, leaf)
        /\ tx'.pegged = PeggedAfter(Opposite, tx.pegged, leaf)
    BY <1>1, AdvanceFields
  <1>3. tx'.fixed \subseteq tx.fixed /\ tx'.pegged \subseteq tx.pegged
    BY <1>2, IteratorsShrink
  <1>4. LoopInv'
    BY <1>1, <1>2 DEF LoopInv
  <1>5. MatchInv'
    BY <1>1, <1>2, <1>3, FewerVisitsKeepMatchInv
  <1>6. QED  BY <1>2, <1>4, <1>5, QuietStep DEF TxInv

\* A visit that notes an event, with the loop's other variables changed within
\* their types.
LEMMA VisitKeepsIInv ==
    ASSUME IInv, tx.phase = "match", NEW leaf \in BestOpposing, NEW e \in Events,
           SameOrder(e, leaf), tx' \in Transactions,
           tx'.phase = tx.phase, tx'.account = tx.account, tx'.order = tx.order,
           tx'.price = tx.price, tx'.post = tx.post,
           tx'.fixed = FixedAfter(Opposite, tx.fixed, leaf),
           tx'.pegged = PeggedAfter(Opposite, tx.pegged, leaf),
           tx'.events = Append(tx.events, e),
           \/ /\ Finishes(e)
              /\ tx'.deletes = tx.deletes \cup {leaf} /\ tx'.changes = tx.changes
           \/ /\ ~Finishes(e) /\ tx'.deletes = tx.deletes
              /\ \E q : tx'.changes = tx.changes \cup {[leaf |-> leaf, quantity |-> q]},
           UNCHANGED <<book, queue, position, open_orders, market, now_ts, oracle>>
    PROVE  IInv'
  <1>1. TypeOK /\ IdsInv /\ MatchInv /\ LoopInv
    BY Zenon DEF IInv, TxInv
  <1>2. MatchInv'
    BY <1>1, VisitKeepsMatchInv, Zenon
  <1>3. LoopInv'
    BY <1>1, Zenon DEF LoopInv
  <1>4. QED  BY <1>2, <1>3, QuietStep DEF TxInv

\* The out event of an order names that order and finishes it.
LEMMA OutEventType ==
    ASSUME NEW leaf \in Leaves
    PROVE  /\ OutEvent(leaf) \in Events
           /\ SameOrder(OutEvent(leaf), leaf) /\ Finishes(OutEvent(leaf))
  BY DEF OutEvent, Events, OutEvents, Leaves, SameOrder, Finishes

\* Taking an order off the book notes its out event and its deletion.
LEMMA TakeOffFields ==
    ASSUME TypeOK, NEW leaf \in Leaves
    PROVE  /\ TakeOff(leaf) \in Transactions
           /\ TakeOff(leaf).fixed = FixedAfter(Opposite, tx.fixed, leaf)
           /\ TakeOff(leaf).pegged = PeggedAfter(Opposite, tx.pegged, leaf)
           /\ TakeOff(leaf).events = Append(tx.events, OutEvent(leaf))
           /\ TakeOff(leaf).deletes = tx.deletes \cup {leaf}
           /\ \A f \in {"phase", "account", "order", "price", "dropped", "post",
                        "changes"} : TakeOff(leaf)[f] = tx[f]
  <1> DEFINE moved == Advance(leaf)
  <1>1. /\ moved \in Transactions
        /\ moved.fixed = FixedAfter(Opposite, tx.fixed, leaf)
        /\ moved.pegged = PeggedAfter(Opposite, tx.pegged, leaf)
        /\ moved.events = tx.events /\ moved.deletes = tx.deletes
        /\ moved.phase = tx.phase /\ moved.account = tx.account
        /\ moved.order = tx.order /\ moved.price = tx.price
        /\ moved.dropped = tx.dropped /\ moved.post = tx.post
        /\ moved.changes = tx.changes
    BY AdvanceFields, Zenon
  <1>2. OutEvent(leaf) \in Events
    BY OutEventType
  <1>3. TakeOff(leaf) = [moved EXCEPT !.events = Append(@, OutEvent(leaf)),
                                      !.deletes = @ \cup {leaf}]
    BY DEF TakeOff
  <1> HIDE DEF moved
  <1>4. /\ Append(moved.events, OutEvent(leaf)) \in Seq(Events)
        /\ moved.deletes \cup {leaf} \in SUBSET Leaves
    <2>1. moved.events \in Seq(Events) /\ moved.deletes \in SUBSET Leaves
      BY <1>1 DEF Transactions
    <2>2. QED  BY <1>2, <2>1
  <1>5. TakeOff(leaf) \in Transactions
    BY <1>1, <1>3, <1>4, ZenonT(30) DEF Transactions
  <1>6. QED  BY <1>1, <1>3, <1>5, SMTT(20) DEF Transactions

\* Dropping, or passing over, an expired or peg-limited order.
LEMMA DropInvalidKeepsIInv ==
    ASSUME IInv, NEW leaf, DropInvalid(leaf) PROVE IInv'
  <1>1. /\ TypeOK /\ leaf \in BestOpposing /\ tx.phase = "match" /\ tx \in Transactions
        /\ UNCHANGED <<book, queue, position, open_orders, market, now_ts, oracle>>
    BY DEF DropInvalid, IInv, TypeOK
  <1>2. leaf \in Leaves
    BY <1>1, BestOpposingIsLeaf
  <1>3. CASE tx' = Advance(leaf)
    BY <1>1, <1>3, PassOverKeepsIInv
  <1>4. CASE tx' = [TakeOff(leaf) EXCEPT !.dropped = @ + 1]
    <2> DEFINE taken == TakeOff(leaf)
    <2>1. taken \in Transactions
      BY <1>1, <1>2, TakeOffFields
    <2>2. tx' = [taken EXCEPT !.dropped = @ + 1]
      BY <1>4
    <2> HIDE DEF taken
    <2>3. taken.dropped + 1 \in Nat
      BY <2>1 DEF Transactions
    <2>4. /\ tx' \in Transactions
          /\ tx'.phase = taken.phase /\ tx'.account = taken.account
          /\ tx'.order = taken.order /\ tx'.price = taken.price
          /\ tx'.post = taken.post /\ tx'.changes = taken.changes
          /\ tx'.fixed = taken.fixed /\ tx'.pegged = taken.pegged
          /\ tx'.events = taken.events /\ tx'.deletes = taken.deletes
      BY <2>1, <2>2, <2>3, Zenon DEF Transactions
    <2>5. /\ tx'.phase = tx.phase /\ tx'.account = tx.account /\ tx'.order = tx.order
          /\ tx'.price = tx.price /\ tx'.post = tx.post /\ tx'.changes = tx.changes
          /\ tx'.fixed = FixedAfter(Opposite, tx.fixed, leaf)
          /\ tx'.pegged = PeggedAfter(Opposite, tx.pegged, leaf)
          /\ tx'.events = Append(tx.events, OutEvent(leaf))
          /\ tx'.deletes = tx.deletes \cup {leaf}
      BY <1>1, <1>2, <2>4, TakeOffFields, Zenon DEF taken
    <2>6. QED  BY <1>1, <1>2, <2>4, <2>5, OutEventType, VisitKeepsIInv, Zenon
  <1>5. QED  BY <1>3, <1>4 DEF DropInvalid

\* Cancelling the taker's own order instead of trading with it.
LEMMA CancelProvideKeepsIInv ==
    ASSUME IInv, NEW leaf, CancelProvide(leaf) PROVE IInv'
  <1>1. /\ TypeOK /\ leaf \in BestOpposing /\ tx.phase = "match"
        /\ tx' = TakeOff(leaf)
        /\ UNCHANGED <<book, queue, position, open_orders, market, now_ts, oracle>>
    BY Zenon DEF CancelProvide, IInv
  <1>2. leaf \in Leaves
    BY <1>1, BestOpposingIsLeaf
  <1>3. /\ tx' \in Transactions
        /\ tx'.phase = tx.phase /\ tx'.account = tx.account /\ tx'.order = tx.order
        /\ tx'.price = tx.price /\ tx'.post = tx.post /\ tx'.changes = tx.changes
        /\ tx'.fixed = FixedAfter(Opposite, tx.fixed, leaf)
        /\ tx'.pegged = PeggedAfter(Opposite, tx.pegged, leaf)
        /\ tx'.events = Append(tx.events, OutEvent(leaf))
        /\ tx'.deletes = tx.deletes \cup {leaf}
    BY <1>1, <1>2, TakeOffFields
  <1>4. QED  BY <1>1, <1>2, <1>3, OutEventType, VisitKeepsIInv, Zenon

\* What a match takes: at least one lot, no more than either order has left,
\* and no more quote than the taker offers.
LEMMA MatchTypes ==
    ASSUME IInv, tx.phase = "match", Unfinished, NEW leaf \in BestOpposing, Matchable(leaf)
    PROVE  /\ PriceOf(leaf) \in Nat \ {0}
           /\ MatchBaseLots(leaf) \in Nat \ {0}
           /\ MatchBaseLots(leaf) <= tx.base
           /\ MatchBaseLots(leaf) <= leaf.quantity
           /\ MatchBaseLots(leaf) * PriceOf(leaf) \in Nat
           /\ MatchBaseLots(leaf) * PriceOf(leaf) <= tx.quote
  <1>1. leaf \in Leaves /\ leaf \in book /\ oracle \in Int
    <2>1. TypeOK /\ MatchInv /\ leaf \in Rest
      BY IterItemIsNew DEF IInv, TxInv
    <2>2. leaf \in Leaves
      BY <2>1, BestOpposingIsLeaf
    <2>3. leaf \in book
      BY <2>1 DEF MatchInv, OnSide
    <2>4. oracle \in Int
      BY <2>1, OracleAssumption DEF TypeOK
    <2>5. QED  BY <2>2, <2>3, <2>4
  <1>2. PriceOf(leaf) \in Nat \ {0}
    <2>1. leaf.tree = "Fixed" => leaf.price >= 1
      BY <1>1 DEF IInv, PricesInv
    <2>2. PriceOf(leaf) \in Int /\ PriceOf(leaf) >= 1
      BY <1>1, <2>1, PriceOfType
    <2>3. QED  BY <2>2
  <1>3. /\ tx.base \in Nat \ {0} /\ tx.quote \in Nat /\ leaf.quantity \in Nat \ {0}
    BY <1>1 DEF IInv, TypeOK, Transactions, Leaves, Unfinished
  <1>4. MaxMatchByQuote(leaf) \in Nat \ {0}
    <2>1. tx.quote \div PriceOf(leaf) \in Int
      BY <1>2, <1>3
    <2>2. tx.quote \div PriceOf(leaf) > 0
      BY DEF Matchable, MaxMatchByQuote
    <2>3. QED  BY <2>1, <2>2 DEF MaxMatchByQuote
  <1>5. /\ MatchBaseLots(leaf) \in Nat \ {0}
        /\ MatchBaseLots(leaf) <= tx.base /\ MatchBaseLots(leaf) <= leaf.quantity
        /\ MatchBaseLots(leaf) <= MaxMatchByQuote(leaf)
    BY <1>3, <1>4 DEF MatchBaseLots, Least
  <1>6. MatchBaseLots(leaf) <= tx.quote \div PriceOf(leaf)
    BY <1>5 DEF MaxMatchByQuote
  <1>7. QED  BY <1>2, <1>3, <1>5, <1>6, AffordableQuote

\* The fill event of a match names the maker's order, and finishes it exactly
\* when nothing of it is left.
LEMMA FillEventType ==
    ASSUME TypeOK, tx.account \in Accounts, NEW leaf \in Leaves,
           NEW quantity \in Nat \ {0}, PriceOf(leaf) \in Nat \ {0}
    PROVE  /\ FillEvent(leaf, quantity) \in Events
           /\ SameOrder(FillEvent(leaf, quantity), leaf)
           /\ Finishes(FillEvent(leaf, quantity)) <=> quantity = leaf.quantity
  <1>1. /\ leaf.owner \in Accounts /\ leaf.owner_slot \in Slots /\ leaf.id \in Nat
    BY DEF Leaves
  <1>2. MakerFeeFor(leaf) \in Int
    BY FeeAssumption DEF MakerFeeFor
  <1>3. tx.order.side \in Sides /\ (quantity = leaf.quantity) \in BOOLEAN
    BY OppositeSide
  <1>4. FillEvent(leaf, quantity) \in FillEvents
    BY <1>1, <1>2, <1>3 DEF FillEvent, FillEvents
  <1>5. QED  BY <1>4, Zenon DEF FillEvent, Events, SameOrder, Finishes

\* Matching one opposing order.
LEMMA FillKeepsIInv ==
    ASSUME IInv, NEW leaf, Fill(leaf) PROVE IInv'
  <1> DEFINE quantity == MatchBaseLots(leaf)
             quote == quantity * PriceOf(leaf)
             out == quantity = leaf.quantity
             moved == Advance(leaf)
             e == FillEvent(leaf, quantity)
             change == [leaf |-> leaf, quantity |-> leaf.quantity - quantity]
             decremented == IF WouldSelfTrade(leaf) THEN moved.decremented + quote
                                                    ELSE moved.decremented
             deletes == IF out THEN moved.deletes \cup {leaf} ELSE moved.deletes
             changes == IF out THEN moved.changes ELSE moved.changes \cup {change}
  <1>1. /\ TypeOK /\ tx.phase = "match" /\ Unfinished /\ leaf \in BestOpposing
        /\ Matchable(leaf) /\ tx.limit > 0 /\ tx \in Transactions
        /\ UNCHANGED <<book, queue, position, open_orders, market, now_ts, oracle>>
    BY DEF Fill, IInv, TypeOK, Matchable
  <1>2. tx' = [moved EXCEPT !.base = @ - quantity, !.quote = @ - quote,
                            !.decremented = decremented, !.limit = @ - 1,
                            !.deletes = deletes, !.changes = changes,
                            !.events = Append(@, e)]
    BY DEF Fill
  <1>3. leaf \in Leaves /\ tx.account \in Accounts
    BY <1>1, BestOpposingIsLeaf, Zenon DEF IInv, TxInv, LoopInv
  <1>4. /\ PriceOf(leaf) \in Nat \ {0} /\ quantity \in Nat \ {0}
        /\ quantity <= tx.base /\ quantity <= leaf.quantity
        /\ quote \in Nat /\ quote <= tx.quote
    BY <1>1, MatchTypes
  <1>5. e \in Events /\ SameOrder(e, leaf) /\ (Finishes(e) <=> out)
    BY <1>1, <1>3, <1>4, FillEventType
  <1>6. /\ moved \in Transactions
        /\ moved.fixed = FixedAfter(Opposite, tx.fixed, leaf)
        /\ moved.pegged = PeggedAfter(Opposite, tx.pegged, leaf)
        /\ moved.phase = tx.phase /\ moved.account = tx.account
        /\ moved.order = tx.order /\ moved.price = tx.price
        /\ moved.base = tx.base /\ moved.quote = tx.quote
        /\ moved.decremented = tx.decremented /\ moved.limit = tx.limit
        /\ moved.post = tx.post /\ moved.deletes = tx.deletes
        /\ moved.changes = tx.changes /\ moved.events = tx.events
    BY <1>1, AdvanceFields
  <1>7. /\ tx.base \in Nat /\ tx.quote \in Nat /\ tx.limit \in Nat
        /\ tx.decremented \in Nat /\ tx.deletes \in SUBSET Leaves
        /\ tx.changes \in SUBSET [leaf : Leaves, quantity : Nat \ {0}]
        /\ tx.events \in Seq(Events) /\ leaf.quantity \in Nat \ {0}
    BY <1>1, <1>3, Zenon DEF Transactions, Leaves
  <1> HIDE DEF quantity, quote, moved, e
  <1>8. /\ tx.base - quantity \in Nat /\ tx.quote - quote \in Nat
        /\ tx.limit - 1 \in Nat /\ decremented \in Nat
    <2>1. tx.base - quantity \in Nat /\ tx.quote - quote \in Nat
      BY <1>4, <1>7, SMTT(20)
    <2>2. tx.limit - 1 \in Nat
      BY <1>1, <1>7
    <2>3. decremented \in Nat
      BY <1>4, <1>6, <1>7
    <2>4. QED  BY <2>1, <2>2, <2>3
  <1>9. ~out => change \in [leaf : Leaves, quantity : Nat \ {0}]
    BY <1>3, <1>4, <1>7, SMTT(20)
  <1>10. /\ deletes \in SUBSET Leaves
         /\ changes \in SUBSET [leaf : Leaves, quantity : Nat \ {0}]
         /\ Append(tx.events, e) \in Seq(Events)
    BY <1>3, <1>5, <1>6, <1>7, <1>9
  <1>11. /\ out => deletes = tx.deletes \cup {leaf} /\ changes = tx.changes
         /\ ~out => /\ deletes = tx.deletes
                    /\ \E q : changes = tx.changes \cup {[leaf |-> leaf, quantity |-> q]}
    BY <1>6, Zenon
  <1> HIDE DEF out, change, decremented, deletes, changes
  <1>12. tx' \in Transactions
    <2>1. /\ moved.base - quantity \in Nat /\ moved.quote - quote \in Nat
          /\ moved.limit - 1 \in Nat /\ Append(moved.events, e) \in Seq(Events)
      BY <1>6, <1>8, <1>10, Zenon
    <2>2. QED  BY <1>2, <1>6, <1>8, <1>10, <2>1, Zenon DEF Transactions
  <1>13. /\ tx'.phase = tx.phase /\ tx'.account = tx.account /\ tx'.order = tx.order
         /\ tx'.price = tx.price /\ tx'.post = tx.post
         /\ tx'.fixed = FixedAfter(Opposite, tx.fixed, leaf)
         /\ tx'.pegged = PeggedAfter(Opposite, tx.pegged, leaf)
         /\ tx'.events = Append(tx.events, e)
         /\ tx'.deletes = deletes /\ tx'.changes = changes
    BY <1>2, <1>6 DEF Transactions
  <1>14. QED  BY <1>1, <1>3, <1>5, <1>11, <1>12, <1>13, VisitKeepsIInv, Zenon

\* A failing order leaves no trace.
LEMMA OrderFailsKeepsIInv ==
    ASSUME IInv, OrderFails PROVE IInv'
  BY IdleType, IdleInv, QuietStep, Zenon DEF OrderFails

\* Starting to cancel all orders of an account.
LEMMA CancelAllKeepsIInv ==
    ASSUME IInv, NEW a \in Accounts, NEW limit \in CancelLimits,
           NEW sides \in {Sides, {"Bid"}, {"Ask"}}, PerpCancelAllOrders(a, limit, sides)
    PROVE  IInv'
  <1>1. limit \in Nat /\ limit >= 1 /\ sides \in SUBSET Sides
    BY LimitsAssumption DEF Sides
  <1>2. /\ tx' = [Idle EXCEPT !.phase = "cancel", !.account = a,
                              !.limit = limit, !.sides = sides]
        /\ UNCHANGED <<book, queue, position, open_orders, market, now_ts, oracle>>
    BY DEF PerpCancelAllOrders
  <1>3. tx' \in Transactions
    BY <1>1, <1>2, IdleType, Zenon DEF Transactions
  <1>4. /\ tx'.phase = "cancel" /\ tx'.account = a /\ tx'.limit = limit
        /\ tx'.post = FALSE /\ tx'.deletes = {} /\ tx'.changes = {}
        /\ tx'.events = <<>>
    BY <1>2 DEF Idle
  <1>5. TxInv'
    BY <1>1, <1>4, Zenon DEF TxInv, LoopInv
  <1>6. QED  BY <1>2, <1>3, <1>5, QuietStep
=============================================================================
