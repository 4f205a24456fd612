------------------------- MODULE PerpPostingProofs --------------------------
(***************************************************************************)
(* Completing an order keeps the invariant of the perp market: what matching *)
(* noted is applied to the book and the queue, and the rest is posted.     *)
(***************************************************************************)
EXTENDS PerpMatchingProofs

\* The same order, whatever is left of it.
SameLeaf(m, l) ==
    /\ m.id = l.id /\ m.side = l.side /\ m.tree = l.tree /\ m.price = l.price
    /\ m.owner = l.owner /\ m.owner_slot = l.owner_slot

\* The events are about orders of the book, one each, and finish exactly the
\* ones that are gone.
Notes(events, gone) ==
    /\ \A i \in 1 .. Len(events) : \E l \in book :
         SameOrder(events[i], l) /\ (Finishes(events[i]) => l \in gone)
    /\ \A l \in gone : \E i \in 1 .. Len(events) :
         SameOrder(events[i], l) /\ Finishes(events[i])
    /\ \A i, j \in 1 .. Len(events) : events[i].order_id = events[j].order_id => i = j

\* Queueing such events while taking the finished orders off the book, and
\* adding at most an order with the next id and a slot that was free, keeps
\* ids, slots and queue consistent.
LEMMA BatchKeepsSlots ==
    ASSUME TypeOK, IdsInv, SlotsInv,
           NEW new \in Seq(Events), NEW gone, gone \subseteq book, Notes(new, gone),
           queue' = queue \o new, market'.seq_num = market.seq_num + 1,
           \A l \in book \ gone : \E m \in book' : SameLeaf(m, l),
           \A m \in book' :
             \/ \E l \in book \ gone : SameLeaf(m, l)
             \/ /\ m.id = market.seq_num + 1
                /\ open_orders'[m.owner][m.owner_slot].market = "this"
                /\ open_orders'[m.owner][m.owner_slot].id = m.id
                /\ open_orders'[m.owner][m.owner_slot].side = m.side
                /\ open_orders'[m.owner][m.owner_slot].tree = m.tree,
           \A l, m \in book' : l.id = m.id => l = m,
           \A a \in Accounts, k \in Slots :
             \/ open_orders'[a][k] = open_orders[a][k]
             \/ /\ open_orders[a][k].market = "free"
                /\ \E m \in book' : /\ m.id = open_orders'[a][k].id
                                    /\ m.owner = a /\ m.owner_slot = k
    PROVE  IdsInv' /\ SlotsInv'
  <1> DEFINE n == Len(queue)
  <1>1. queue \in Seq(Events) /\ market.seq_num \in Nat /\ n \in Nat
        /\ \A l \in book : /\ l.id \in Nat /\ l.owner \in Accounts
                           /\ l.owner_slot \in Slots
    BY SMTT(20) DEF TypeOK, Leaves
  <1>2. /\ Len(queue') = n + Len(new)
        /\ \A i \in 1 .. n : queue'[i] = queue[i]
        /\ \A j \in 1 .. Len(new) : queue'[n + j] = new[j]
        /\ \A i \in 1 .. Len(queue') :
             i \in 1 .. n \/ \E j \in 1 .. Len(new) : i = n + j
    <2>1. Joins(queue', queue, new)
      BY <1>1, ConcatElements
    <2>2. QED  BY ONLY <2>1 DEF Joins
  <1>3. Len(new) \in Nat
    OBVIOUS
  <1>4. \A i \in 1 .. n : i \in 1 .. Len(queue')
    BY <1>1, <1>2, <1>3
  <1>5. \A j \in 1 .. Len(new) : n + j \in 1 .. Len(queue')
    BY <1>1, <1>2, <1>3
  <1>6. ASSUME NEW j \in 1 .. Len(new)
        PROVE  \E l \in book : SameOrder(new[j], l) /\ (Finishes(new[j]) => l \in gone)
    BY DEF Notes
  <1>7. ASSUME NEW m \in book'
        PROVE  \/ \E l \in book \ gone : SameLeaf(m, l)
               \/ m.id = market.seq_num + 1
    OBVIOUS
  <1>8. IdsInv'
    <2>1. ASSUME NEW m \in book' PROVE m.id <= market'.seq_num
      <3>1. ASSUME NEW l \in book, SameLeaf(m, l) PROVE m.id <= market'.seq_num
        <4>1. l.id <= market.seq_num /\ l.id \in Nat /\ m.id = l.id
          BY <1>1, <3>1 DEF IdsInv, SameLeaf
        <4>2. QED  BY <1>1, <4>1
      <3>2. CASE m.id = market.seq_num + 1
        BY <1>1, <3>2
      <3>3. QED  BY <1>7, <3>1, <3>2
    <2>2. ASSUME NEW i \in 1 .. Len(queue')
          PROVE  queue'[i].order_id \in 1 .. market'.seq_num
      <3>1. CASE i \in 1 .. n
        BY <1>1, <1>2, <3>1 DEF IdsInv
      <3>2. ASSUME NEW j \in 1 .. Len(new), i = n + j
            PROVE  queue'[i].order_id \in 1 .. market'.seq_num
        <4>1. PICK l \in book : SameOrder(new[j], l)
          BY <1>6
        <4>2. l.id \in Nat /\ l.id # 0 /\ l.id <= market.seq_num
          BY DEF TypeOK, Leaves, IdsInv
        <4>3. QED  BY <1>1, <1>2, <3>2, <4>1, <4>2, SMTT(20) DEF SameOrder
      <3>3. QED  BY <1>2, <3>1, <3>2
    <2>3. QED  BY <2>1, <2>2 DEF IdsInv
  <1>9. BookOrdersHaveSlots'
    <2>1. ASSUME NEW m \in book'
          PROVE  /\ open_orders'[m.owner][m.owner_slot].market = "this"
                 /\ open_orders'[m.owner][m.owner_slot].id = m.id
                 /\ open_orders'[m.owner][m.owner_slot].side = m.side
                 /\ open_orders'[m.owner][m.owner_slot].tree = m.tree
      <3>1. ASSUME NEW l \in book, SameLeaf(m, l)
            PROVE  /\ open_orders'[m.owner][m.owner_slot].market = "this"
                   /\ open_orders'[m.owner][m.owner_slot].id = m.id
                   /\ open_orders'[m.owner][m.owner_slot].side = m.side
                   /\ open_orders'[m.owner][m.owner_slot].tree = m.tree
        <4>1. /\ open_orders[l.owner][l.owner_slot].market = "this"
              /\ open_orders[l.owner][l.owner_slot].id = l.id
              /\ open_orders[l.owner][l.owner_slot].side = l.side
              /\ open_orders[l.owner][l.owner_slot].tree = l.tree
          BY DEF SlotsInv, BookOrdersHaveSlots, SlotHolds
        <4>2. open_orders'[l.owner][l.owner_slot] = open_orders[l.owner][l.owner_slot]
          BY <1>1, <4>1, Zenon
        <4>3. QED  BY <3>1, <4>1, <4>2, SMTT(20) DEF SameLeaf
      <3>2. QED  BY <3>1, SMTT(20)
    <2>2. QED  BY <2>1 DEF BookOrdersHaveSlots, SlotHolds
  <1>10. TakenSlotsAreFreed'
    <2>1. ASSUME NEW a \in Accounts, NEW k \in Slots,
                 open_orders'[a][k].market = "this"
          PROVE  \/ \E m \in book' : /\ m.id = open_orders'[a][k].id
                                     /\ m.owner = a /\ m.owner_slot = k
                 \/ \E i \in 1 .. Len(queue') :
                      /\ Finishes(queue'[i])
                      /\ queue'[i].order_id = open_orders'[a][k].id
                      /\ queue'[i].owner = a /\ queue'[i].owner_slot = k
      <3>1. CASE open_orders'[a][k] # open_orders[a][k]
        BY <3>1
      <3>2. CASE open_orders'[a][k] = open_orders[a][k]
        <4> DEFINE id == open_orders[a][k].id
        <4>1. \/ \E l \in book : l.id = id /\ l.owner = a /\ l.owner_slot = k
              \/ \E i \in 1 .. n :
                   /\ Finishes(queue[i]) /\ queue[i].order_id = id
                   /\ queue[i].owner = a /\ queue[i].owner_slot = k
          BY <2>1, <3>2 DEF SlotsInv, TakenSlotsAreFreed
        <4>2. ASSUME NEW l \in book, l.id = id, l.owner = a, l.owner_slot = k, l \notin gone
              PROVE  \E m \in book' : m.id = id /\ m.owner = a /\ m.owner_slot = k
          BY <4>2 DEF SameLeaf
        <4>3. ASSUME NEW l \in gone, l.id = id, l.owner = a, l.owner_slot = k
              PROVE  \E i \in 1 .. Len(queue') :
                       /\ Finishes(queue'[i]) /\ queue'[i].order_id = id
                       /\ queue'[i].owner = a /\ queue'[i].owner_slot = k
          <5>1. PICK j \in 1 .. Len(new) : SameOrder(new[j], l) /\ Finishes(new[j])
            BY DEF Notes
          <5>2. n + j \in 1 .. Len(queue') /\ queue'[n + j] = new[j]
            BY <1>2, <1>5
          <5>3. /\ Finishes(new[j]) /\ new[j].order_id = id
                /\ new[j].owner = a /\ new[j].owner_slot = k
            BY <4>3, <5>1, SMTT(20) DEF SameOrder
          <5>4. QED  BY <5>2, <5>3, SMTT(20)
        <4>4. ASSUME NEW i \in 1 .. n,
                     Finishes(queue[i]), queue[i].order_id = id,
                     queue[i].owner = a, queue[i].owner_slot = k
              PROVE  \E j \in 1 .. Len(queue') :
                       /\ Finishes(queue'[j]) /\ queue'[j].order_id = id
                       /\ queue'[j].owner = a /\ queue'[j].owner_slot = k
          BY <1>2, <1>4, <4>4, SMTT(20)
        <4>5. id = open_orders'[a][k].id
          BY <3>2
        <4> HIDE DEF id
        <4>6. QED  BY <4>1, <4>2, <4>3, <4>4, <4>5, Zenon
      <3>3. QED  BY <3>1, <3>2, Zenon
    <2>2. QED  BY <2>1, SMTT(20) DEF TakenSlotsAreFreed, Finishes
  <1>11. FinishedOrdersAreGone'
    <2>1. ASSUME NEW i \in 1 .. n, Finishes(queue[i])
          PROVE  /\ queue[i].order_id <= market.seq_num /\ queue[i].order_id \in Nat
                 /\ \A l \in book : l.id # queue[i].order_id
                 /\ \A j \in i + 1 .. n : queue[j].order_id # queue[i].order_id
      BY <1>1, <2>1, SMTT(20) DEF IdsInv, SlotsInv, FinishedOrdersAreGone
    <2>2. ASSUME NEW i \in 1 .. n, Finishes(queue[i]), NEW m \in book'
          PROVE  m.id # queue[i].order_id
      BY <1>1, <1>7, <2>1, <2>2 DEF SameLeaf
    <2>3. ASSUME NEW i \in 1 .. n, Finishes(queue[i]), NEW j \in 1 .. Len(new)
          PROVE  new[j].order_id # queue[i].order_id
      <3>1. PICK l \in book : SameOrder(new[j], l)
        BY <1>6, Zenon
      <3>2. QED  BY <2>1, <2>3, <3>1, SMTT(20) DEF SameOrder
    <2>4. ASSUME NEW j \in 1 .. Len(new), Finishes(new[j]), NEW m \in book'
          PROVE  m.id # new[j].order_id
      <3>1. PICK l \in gone : SameOrder(new[j], l)
        BY <1>6, <2>4
      <3>2. l.id = new[j].order_id /\ l \in book /\ l.id <= market.seq_num
        BY <3>1 DEF SameOrder, IdsInv
      <3>3. m.id = market.seq_num + 1 => m.id # l.id
        BY <1>1, <3>2
      <3>4. \A k \in book \ gone : k.id # l.id
        BY <3>2 DEF IdsInv
      <3>5. QED  BY <1>7, <3>2, <3>3, <3>4 DEF SameLeaf
    <2>5. ASSUME NEW i \in 1 .. Len(queue'), Finishes(queue'[i]), NEW m \in book'
          PROVE  m.id # queue'[i].order_id
      BY <1>2, <2>2, <2>4, <2>5, SMTT(20)
    <2>6. ASSUME NEW i \in 1 .. Len(queue'), Finishes(queue'[i]),
                 NEW j \in i + 1 .. Len(queue')
          PROVE  queue'[j].order_id # queue'[i].order_id
      <3>1. j \in 1 .. Len(queue')
        BY <1>1, <1>2, <1>3
      <3>2. CASE i \in 1 .. n /\ j \in 1 .. n
        <4>1. j \in i + 1 .. n
          BY <1>1, <3>2
        <4>2. QED  BY <1>2, <2>1, <2>6, <3>2, <4>1, SMTT(20)
      <3>3. ASSUME i \in 1 .. n, NEW jj \in 1 .. Len(new), j = n + jj
            PROVE  queue'[j].order_id # queue'[i].order_id
        BY <1>2, <2>3, <2>6, <3>3
      <3>4. ASSUME NEW ii \in 1 .. Len(new), i = n + ii, j \in 1 .. n PROVE FALSE
        BY <1>1, <1>3, <3>4
      <3>5. ASSUME NEW ii \in 1 .. Len(new), i = n + ii,
                   NEW jj \in 1 .. Len(new), j = n + jj
            PROVE  queue'[j].order_id # queue'[i].order_id
        <4>1. ii # jj
          BY <1>1, <1>3, <3>5
        <4>2. new[jj].order_id # new[ii].order_id
          BY <4>1, SMTT(20) DEF Notes
        <4>3. QED  BY <1>2, <3>5, <4>2
      <3>6. QED  BY <1>2, <3>1, <3>2, <3>3, <3>4, <3>5
    <2>7. QED  BY <2>5, <2>6 DEF FinishedOrdersAreGone
  <1>12. QED  BY <1>8, <1>9, <1>10, <1>11 DEF SlotsInv

\* The book once the loop's notes are applied: the deleted orders are gone, the
\* others are there with what is left of them, and the taker's own side is as
\* it was.
LEMMA BookAfterMatchingIsBook ==
    ASSUME IInv, tx.phase = "post"
    PROVE  /\ BookAfterMatching \in SUBSET Leaves
           /\ \A m \in BookAfterMatching : \E l \in book \ tx.deletes : SameLeaf(m, l)
           /\ \A l \in book \ tx.deletes : \E m \in BookAfterMatching : SameLeaf(m, l)
           /\ \A l, m \in BookAfterMatching : l.id = m.id => l = m
           /\ \A m \in BookAfterMatching : m.side = tx.order.side => m \in book
           /\ \A l \in book : l.side = tx.order.side => l \in BookAfterMatching
           /\ tx.deletes \subseteq book
           /\ \A l \in tx.deletes : l.side # tx.order.side
           /\ Notes(tx.events, tx.deletes)
  <1> DEFINE rest(c) == [c.leaf EXCEPT !.quantity = c.quantity]
             after == BookAfterMatching
  <1>1. TypeOK /\ IdsInv /\ MatchInv
    BY DEF IInv, TxInv
  <1>2. book \in SUBSET Leaves /\ \A l, m \in book : l.id = m.id => l = m
    BY <1>1 DEF TypeOK, IdsInv
  <1>3. /\ \A l \in tx.deletes : l \in book /\ l.side = Opposite
        /\ \A c \in tx.changes : c.leaf \in book /\ c.leaf.side = Opposite
                                 /\ c.leaf \notin tx.deletes
    BY <1>1 DEF MatchInv, Touched, Changed, OnSide
  <1>4. Opposite # tx.order.side
    BY <1>1, OppositeSide
  <1>5. ASSUME NEW c \in tx.changes
        PROVE  rest(c) \in Leaves /\ SameLeaf(rest(c), c.leaf)
    <2>1. c.leaf \in Leaves /\ c.quantity \in Nat \ {0}
      BY <1>1 DEF TypeOK, Transactions
    <2>2. QED  BY <2>1 DEF Leaves, SameLeaf
  <1>6. \A m \in after : \/ m \in book /\ m \notin tx.deletes /\ m \notin Changed
                         \/ \E c \in tx.changes : m = rest(c)
    BY DEF BookAfterMatching, Changed
  <1>7. /\ \A l \in book : l \notin tx.deletes /\ l \notin Changed => l \in after
        /\ \A c \in tx.changes : rest(c) \in after
    BY Zenon DEF BookAfterMatching, Changed
  <1>8. \A l : SameLeaf(l, l)
    BY DEF SameLeaf
  <1> HIDE DEF after, rest
  <1>9. after \in SUBSET Leaves
    BY <1>2, <1>5, <1>6
  <1>10. ASSUME NEW m \in after PROVE \E l \in book \ tx.deletes : SameLeaf(m, l)
    BY <1>3, <1>5, <1>6, <1>8
  <1>11. ASSUME NEW l \in book \ tx.deletes PROVE \E m \in after : SameLeaf(m, l)
    <2>1. CASE l \in Changed
      <3>1. PICK c \in tx.changes : c.leaf = l
        BY <2>1 DEF Changed
      <3>2. QED  BY <1>5, <1>7, <3>1
    <2>2. CASE l \notin Changed
      BY <1>7, <1>8, <2>2
    <2>3. QED  BY <2>1, <2>2
  <1>12. ASSUME NEW l \in after, NEW m \in after, l.id = m.id PROVE l = m
    <2>1. ASSUME NEW c \in tx.changes, l = rest(c), m \in book, m \notin Changed
          PROVE  FALSE
      <3>1. c.leaf.id = m.id /\ c.leaf \in book /\ c.leaf \in Changed
        BY <1>3, <1>5, <1>12, <2>1 DEF SameLeaf, Changed
      <3>2. QED  BY <1>2, <2>1, <3>1
    <2>2. ASSUME NEW c \in tx.changes, m = rest(c), l \in book, l \notin Changed
          PROVE  FALSE
      <3>1. c.leaf.id = l.id /\ c.leaf \in book /\ c.leaf \in Changed
        BY <1>3, <1>5, <1>12, <2>2 DEF SameLeaf, Changed
      <3>2. QED  BY <1>2, <2>2, <3>1
    <2>3. ASSUME NEW c \in tx.changes, NEW d \in tx.changes, l = rest(c), m = rest(d)
          PROVE  l = m
      <3>1. c.leaf.id = d.leaf.id
        BY <1>5, <1>12, <2>3 DEF SameLeaf
      <3>2. c.leaf = d.leaf
        BY <1>2, <1>3, <3>1
      <3>3. QED  BY <1>1, <2>3, <3>2 DEF MatchInv
    <2>4. QED  BY <1>2, <1>6, <1>12, <2>1, <2>2, <2>3
  <1>13. ASSUME NEW m \in after, m.side = tx.order.side PROVE m \in book
    BY <1>3, <1>4, <1>5, <1>6, <1>13 DEF SameLeaf
  <1>14. ASSUME NEW l \in book, l.side = tx.order.side PROVE l \in after
    BY <1>3, <1>4, <1>7, <1>14 DEF Changed
  <1>15. Notes(tx.events, tx.deletes)
    <2>1. Touched \subseteq book
      BY <1>3 DEF Touched, Changed
    <2>2. ASSUME NEW i \in 1 .. Len(tx.events)
          PROVE  \E l \in book : /\ SameOrder(tx.events[i], l)
                                 /\ Finishes(tx.events[i]) => l \in tx.deletes
      BY <1>1, <2>1 DEF MatchInv
    <2>3. QED  BY <1>1, <2>2 DEF MatchInv, Notes
  <1>16. QED
    BY <1>3, <1>4, <1>9, <1>10, <1>11, <1>12, <1>13, <1>14, <1>15 DEF after

\* What a completed order does to the taker's position and to the market.
LEMMA TakerPositionType ==
    ASSUME TypeOK, NEW pp \in PerpPositions
    PROVE  /\ TakerPosition(pp) \in PerpPositions
           /\ MarketAfterOrder \in [ seq_num : Nat, open_interest : Int,
                fees_accrued : Int, reduce_only : BOOLEAN, force_close : BOOLEAN ]
           /\ MarketAfterOrder.seq_num = market.seq_num + 1
  <1>1. /\ tx.order.max_base_lots \in Nat /\ tx.order.max_quote_lots \in Nat
        /\ tx.base \in Nat /\ tx.quote \in Nat /\ tx.decremented \in Nat
    BY Zenon DEF TypeOK, Transactions, Orders
  <1>2. TakenBase \in Int /\ TakenQuote \in Int /\ FeeQuote \in Int /\ Penalty \in Int
    BY <1>1, FeeAssumption DEF TakenBase, TakenQuote, FeeQuote, Penalty
  <1>3. FeeQuote * TakerFee \in Int /\ FeeQuote * (TakerFee + MakerFee) \in Int
    BY <1>2, FeeAssumption
  <1>4. /\ Signed(tx.order.side, TakenBase) \in Int
        /\ Signed(tx.order.side, TakenQuote) \in Int
    BY <1>2 DEF Signed
  <1>5. TakerPosition(pp) \in PerpPositions
    <2> DEFINE fee == FeeQuote * TakerFee
    <2>1. TakerPosition(pp) =
            [pp EXCEPT !.active = TRUE,
                       !.taker_base_lots = @ + Signed(tx.order.side, TakenBase),
                       !.taker_quote_lots = @ - Signed(tx.order.side, TakenQuote),
                       !.quote = @ - Penalty - fee]
      BY DEF TakerPosition
    <2>2. fee \in Int
      BY <1>3
    <2> HIDE DEF fee
    <2>3. /\ pp.taker_base_lots + Signed(tx.order.side, TakenBase) \in Int
          /\ pp.taker_quote_lots - Signed(tx.order.side, TakenQuote) \in Int
          /\ pp.quote - Penalty - fee \in Int
      BY <1>2, <1>4, <2>2 DEF PerpPositions
    <2>4. QED  BY <2>1, <2>3, Zenon DEF PerpPositions
  <1>6. market \in [ seq_num : Nat, open_interest : Int, fees_accrued : Int,
                     reduce_only : BOOLEAN, force_close : BOOLEAN ]
    BY DEF TypeOK
  <1>7. /\ MarketAfterOrder \in [ seq_num : Nat, open_interest : Int,
             fees_accrued : Int, reduce_only : BOOLEAN, force_close : BOOLEAN ]
        /\ MarketAfterOrder.seq_num = market.seq_num + 1
    <2> DEFINE fees == FeeQuote * (TakerFee + MakerFee)
    <2>1. MarketAfterOrder = [market EXCEPT !.seq_num = @ + 1,
                                            !.fees_accrued = @ + Penalty + fees]
      BY DEF MarketAfterOrder
    <2>2. fees \in Int
      BY <1>3
    <2> HIDE DEF fees
    <2>3. market.seq_num + 1 \in Nat /\ market.fees_accrued + Penalty + fees \in Int
      BY <1>2, <1>6, <2>2
    <2>4. QED  BY <1>6, <2>1, <2>3, Zenon
  <1>8. QED  BY <1>5, <1>7

\* Completing an order that posts nothing.
LEMMA CompleteOrderKeepsIInv ==
    ASSUME IInv, CompleteOrder PROVE IInv'
  <1>1. /\ tx.phase = "post" /\ book' = BookAfterMatching
        /\ queue' = queue \o tx.events
        /\ position' = [position EXCEPT ![tx.account] = TakerPosition(@)]
        /\ market' = MarketAfterOrder /\ tx' = Idle
        /\ UNCHANGED <<open_orders, now_ts, oracle>>
    BY DEF CompleteOrder
  <1>2. /\ TypeOK /\ IdsInv /\ SlotsInv /\ PricesInv /\ tx.account \in Accounts
        /\ tx.events \in Seq(Events) /\ queue \in Seq(Events)
        /\ position \in [Accounts -> PerpPositions]
    BY <1>1, Zenon DEF IInv, TypeOK, Transactions, TxInv, LoopInv
  <1>3. /\ book' \in SUBSET Leaves
        /\ \A m \in book' : \E l \in book \ tx.deletes : SameLeaf(m, l)
        /\ \A l \in book \ tx.deletes : \E m \in book' : SameLeaf(m, l)
        /\ \A l, m \in book' : l.id = m.id => l = m
        /\ tx.deletes \subseteq book /\ Notes(tx.events, tx.deletes)
    BY <1>1, BookAfterMatchingIsBook
  <1>4. /\ position' \in [Accounts -> PerpPositions]
        /\ market' \in [ seq_num : Nat, open_interest : Int, fees_accrued : Int,
                         reduce_only : BOOLEAN, force_close : BOOLEAN ]
        /\ market'.seq_num = market.seq_num + 1
    BY <1>1, <1>2, TakerPositionType
  <1>5. TypeOK'
    BY <1>1, <1>2, <1>3, <1>4, IdleType, ConcatElements, Zenon DEF TypeOK
  <1>6. IdsInv' /\ SlotsInv'
    BY <1>1, <1>2, <1>3, <1>4, BatchKeepsSlots, Zenon
  <1>7. PricesInv'
    BY <1>2, <1>3 DEF PricesInv, SameLeaf
  <1>8. QED  BY <1>1, <1>5, <1>6, <1>7, IdleInv DEF IInv

\* Every event is about one of these orders.
About(events, leaves) ==
    \A i \in 1 .. Len(events) : \E l \in leaves : SameOrder(events[i], l)

\* Two batches of events about different orders make one batch.
LEMMA NotesConcat ==
    ASSUME IdsInv, NEW s \in Seq(Events), NEW t \in Seq(Events),
           NEW S \in SUBSET book, NEW T \in SUBSET book, S \cap T = {},
           About(s, S), About(t, T), NEW g, NEW h, Notes(s, g), Notes(t, h)
    PROVE  s \o t \in Seq(Events) /\ Notes(s \o t, g \cup h) /\ About(s \o t, S \cup T)
  <1> DEFINE u == s \o t
             n == Len(s)
  <1>1. /\ u \in Seq(Events) /\ Len(u) = n + Len(t)
        /\ \A i \in 1 .. n : u[i] = s[i]
        /\ \A j \in 1 .. Len(t) : u[n + j] = t[j]
        /\ \A i \in 1 .. Len(u) : i \in 1 .. n \/ \E j \in 1 .. Len(t) : i = n + j
    <2>1. u \in Seq(Events) /\ Joins(u, s, t)
      BY ConcatElements, Zenon
    <2>2. QED  BY <2>1, Zenon DEF Joins
  <1>2. n \in Nat /\ Len(t) \in Nat
    OBVIOUS
  <1>3. /\ \A i \in 1 .. n : i \in 1 .. Len(u)
        /\ \A j \in 1 .. Len(t) : n + j \in 1 .. Len(u)
    BY <1>1, <1>2
  <1> HIDE DEF u, n
  <1>4. About(u, S \cup T)
    <2>1. ASSUME NEW i \in 1 .. Len(u) PROVE \E l \in S \cup T : SameOrder(u[i], l)
      <3>1. CASE i \in 1 .. n
        BY <1>1, <3>1 DEF About, n
      <3>2. ASSUME NEW j \in 1 .. Len(t), i = n + j
            PROVE  \E l \in S \cup T : SameOrder(u[i], l)
        BY <1>1, <3>2 DEF About
      <3>3. QED  BY <1>1, <3>1, <3>2
    <2>2. QED  BY <2>1 DEF About
  <1>5. ASSUME NEW i \in 1 .. Len(u)
        PROVE  \E l \in book :
                 SameOrder(u[i], l) /\ (Finishes(u[i]) => l \in g \cup h)
    <2>1. CASE i \in 1 .. n
      <3>1. PICK l \in book : SameOrder(s[i], l) /\ (Finishes(s[i]) => l \in g)
        BY <2>1 DEF Notes, n
      <3>2. QED  BY <1>1, <2>1, <3>1
    <2>2. ASSUME NEW j \in 1 .. Len(t), i = n + j
          PROVE  \E l \in book :
                   SameOrder(u[i], l) /\ (Finishes(u[i]) => l \in g \cup h)
      <3>1. PICK l \in book : SameOrder(t[j], l) /\ (Finishes(t[j]) => l \in h)
        BY DEF Notes
      <3>2. u[i] = t[j]
        BY <1>1, <2>2
      <3>3. QED  BY <3>1, <3>2
    <2>3. QED  BY <1>1, <2>1, <2>2
  <1>6. ASSUME NEW l \in g \cup h
        PROVE  \E i \in 1 .. Len(u) : SameOrder(u[i], l) /\ Finishes(u[i])
    <2>1. CASE l \in g
      <3>1. PICK i \in 1 .. n : SameOrder(s[i], l) /\ Finishes(s[i])
        BY <2>1 DEF Notes, n
      <3>2. i \in 1 .. Len(u) /\ u[i] = s[i]
        BY <1>1, <1>3
      <3>3. QED  BY <3>1, <3>2
    <2>2. CASE l \in h
      <3>1. PICK j \in 1 .. Len(t) : SameOrder(t[j], l) /\ Finishes(t[j])
        BY <2>2 DEF Notes
      <3>2. n + j \in 1 .. Len(u) /\ u[n + j] = t[j]
        BY <1>1, <1>3
      <3>3. QED  BY <3>1, <3>2
    <2>3. QED  BY <2>1, <2>2
  <1>7. ASSUME NEW i \in 1 .. n, NEW j \in 1 .. Len(t)
        PROVE  s[i].order_id # t[j].order_id
    <2>1. PICK l \in S : SameOrder(s[i], l)
      BY DEF About, n
    <2>2. PICK m \in T : SameOrder(t[j], m)
      BY DEF About
    <2>3. l \in book /\ m \in book /\ l # m
      OBVIOUS
    <2>4. QED  BY <2>1, <2>2, <2>3 DEF IdsInv, SameOrder
  <1>8. ASSUME NEW i \in 1 .. Len(u), NEW j \in 1 .. Len(u),
               u[i].order_id = u[j].order_id
        PROVE  i = j
    <2>1. CASE i \in 1 .. n /\ j \in 1 .. n
      BY <1>1, <1>8, <2>1, Zenon DEF Notes, n
    <2>2. ASSUME i \in 1 .. n, NEW jj \in 1 .. Len(t), j = n + jj PROVE FALSE
      BY <1>1, <1>7, <1>8, <2>2
    <2>3. ASSUME j \in 1 .. n, NEW ii \in 1 .. Len(t), i = n + ii PROVE FALSE
      BY <1>1, <1>7, <1>8, <2>3, Zenon
    <2>4. ASSUME NEW ii \in 1 .. Len(t), i = n + ii, NEW jj \in 1 .. Len(t), j = n + jj
          PROVE  i = j
      <3>1. t[ii].order_id = t[jj].order_id
        BY <1>1, <1>8, <2>4
      <3>2. QED  BY <2>4, <3>1 DEF Notes
    <2>5. QED  BY <1>1, <2>1, <2>2, <2>3, <2>4
  <1>9. Notes(u, g \cup h)
    BY <1>5, <1>6, <1>8, Zenon DEF Notes
  <1>10. QED  BY <1>1, <1>4, <1>9 DEF u

\* The out event of at most one order.
LEMMA OutEvents1IsNote ==
    ASSUME NEW leaves \in SUBSET book, book \in SUBSET Leaves,
           \A l, m \in leaves : l = m
    PROVE  /\ OutEvents1(leaves) \in Seq(Events)
           /\ Notes(OutEvents1(leaves), leaves) /\ About(OutEvents1(leaves), leaves)
  <1>1. CASE leaves = {}
    <2>1. OutEvents1(leaves) = <<>>
      BY <1>1 DEF OutEvents1
    <2> DEFINE none == OutEvents1(leaves)
    <2>2. none \in Seq(Events) /\ Len(none) = 0
      BY <2>1
    <2>3. \A i \in 1 .. Len(none) : FALSE
      BY <2>2
    <2> HIDE DEF none
    <2>4. Notes(none, leaves) /\ About(none, leaves)
      BY <1>1, <2>3 DEF Notes, About
    <2>5. QED  BY <2>2, <2>4 DEF none
  <1>2. CASE leaves # {}
    <2>1. PICK l : leaves = {l} /\ l \in Leaves /\ l \in book
      BY <1>2
    <2>2. (CHOOSE m \in leaves : TRUE) = l
      BY <2>1
    <2>3. OutEvents1(leaves) = <<OutEvent(l)>>
      BY <1>2, <2>2 DEF OutEvents1
    <2>4. /\ OutEvent(l) \in Events
          /\ SameOrder(OutEvent(l), l) /\ Finishes(OutEvent(l))
      BY <2>1, OutEventType
    <2> DEFINE one == <<OutEvent(l)>>
    <2>5. one \in Seq(Events) /\ Len(one) = 1 /\ one[1] = OutEvent(l)
      BY <2>4
    <2>6. \A i \in 1 .. Len(one) : i = 1
      BY <2>5
    <2>7. 1 \in 1 .. Len(one)
      BY <2>5
    <2> HIDE DEF one
    <2>8. Notes(one, leaves) /\ About(one, leaves)
      BY <2>1, <2>4, <2>5, <2>6, <2>7 DEF Notes, About
    <2>9. QED  BY <2>3, <2>5, <2>8 DEF one
  <1>3. QED  BY <1>1, <1>2

\* A posted order is a leaf with the next id, at a price that can be divided by.
LEMMA NewLeafType ==
    ASSUME IInv, tx.phase = "post", WillPost, NEW slot \in Slots
    PROVE  /\ NewLeaf(slot) \in Leaves
           /\ NewLeaf(slot).id = market.seq_num + 1
           /\ NewLeaf(slot).side = tx.order.side
           /\ NewLeaf(slot).owner = tx.account /\ NewLeaf(slot).owner_slot = slot
           /\ NewLeaf(slot).tree = "Fixed" => NewLeaf(slot).price >= 1
           /\ BookBaseQuantity \in Nat
           /\ OpenOrderOf(NewLeaf(slot)) \in PerpOpenOrders
  <1>1. /\ tx.account \in Accounts /\ tx.price >= 1 /\ tx.order.kind \in Trees
        /\ tx.order \in Orders /\ tx \in Transactions /\ market.seq_num \in Nat
        /\ now_ts \in Nat /\ oracle \in Int
    BY OracleAssumption
    DEF IInv, TypeOK, Transactions, TxInv, LoopInv, WillPost, IsPostable, Trees
  <1>2. /\ tx.price \in Nat \ {0} /\ tx.base \in Nat /\ tx.quote \in Nat
        /\ tx.order.side \in Sides /\ tx.order.time_in_force \in Nat
        /\ tx.order.peg_limit \in Int
    <2>1. tx.price \in Int /\ tx.base \in Nat /\ tx.quote \in Nat
      BY <1>1 DEF Transactions
    <2>2. QED  BY <1>1, <2>1 DEF Orders
  <1>3. BookBaseQuantity \in Nat \ {0}
    <2>1. tx.quote \div tx.price \in Int
      BY <1>2
    <2>2. BookBaseQuantity \in Int
      BY <1>2, <2>1 DEF BookBaseQuantity, Least
    <2>3. BookBaseQuantity > 0
      BY DEF WillPost
    <2>4. QED  BY <2>2, <2>3
  <1> DEFINE price == IF tx.order.kind = "Fixed" THEN tx.price ELSE tx.price - oracle
             expiry == IF tx.order.time_in_force = 0 THEN 0
                       ELSE now_ts + tx.order.time_in_force
             peg_limit == IF tx.order.kind = "Fixed" THEN PegNone
                          ELSE tx.order.peg_limit
  <1>4. /\ price \in Int /\ expiry \in Nat /\ peg_limit \in Int
        /\ market.seq_num + 1 \in Nat \ {0}
        /\ tx.order.kind = "Fixed" => price >= 1
    BY <1>1, <1>2 DEF PegNone
  <1>5. NewLeaf(slot) =
          [ id |-> market.seq_num + 1, side |-> tx.order.side,
            tree |-> tx.order.kind, price |-> price, owner |-> tx.account,
            owner_slot |-> slot, quantity |-> BookBaseQuantity,
            expiry |-> expiry, peg_limit |-> peg_limit ]
    BY DEF NewLeaf
  <1> HIDE DEF price, expiry, peg_limit
  <1>6. NewLeaf(slot) \in Leaves
    BY <1>1, <1>2, <1>3, <1>4, <1>5 DEF Leaves
  <1>7. /\ NewLeaf(slot).id = market.seq_num + 1
        /\ NewLeaf(slot).side = tx.order.side
        /\ NewLeaf(slot).owner = tx.account /\ NewLeaf(slot).owner_slot = slot
        /\ NewLeaf(slot).tree = "Fixed" => NewLeaf(slot).price >= 1
    BY <1>4, <1>5
  <1>8. OpenOrderOf(NewLeaf(slot)) \in PerpOpenOrders
    BY <1>6 DEF OpenOrderOf, PerpOpenOrders, Leaves
  <1>9. QED  BY <1>3, <1>6, <1>7, <1>8

\* Resting lots of a position.
LEMMA AdjustMakerLotsType ==
    ASSUME NEW pp \in PerpPositions, NEW side, NEW n \in Int
    PROVE  AdjustMakerLots(pp, side, n) \in PerpPositions
  BY DEF AdjustMakerLots, PerpPositions

\* An order that is dropped for being expired is one of those looked at.
LEMMA ExpiredToDropIsOne ==
    ASSUME NEW leaves, NEW tree
    PROVE  ExpiredToDrop(leaves, tree) \subseteq leaves
  BY DEF ExpiredToDrop, EarliestExpired, InTree

\* Completing an order that posts, with the orders it dropped to make room.
LEMMA PostKeepsIInv ==
    ASSUME IInv, tx.phase = "post", WillPost,
           NEW expired, NEW worst, NEW slot \in NextOrderSlot(tx.account),
           expired \subseteq OnSide(BookAfterMatching, tx.order.side),
           worst \subseteq OnSide(BookAfterMatching, tx.order.side),
           expired \cap worst = {},
           \A l, m \in expired : l = m, \A l, m \in worst : l = m,
           book' = (BookAfterMatching \ (expired \cup worst)) \cup {NewLeaf(slot)},
           queue' = queue \o tx.events \o (OutEvents1(expired) \o OutEvents1(worst)),
           position' = [position EXCEPT ![tx.account] =
             AdjustMakerLots(TakerPosition(@), tx.order.side, BookBaseQuantity)],
           open_orders' = [open_orders EXCEPT
             ![tx.account][slot] = OpenOrderOf(NewLeaf(slot))],
           market' = MarketAfterOrder, tx' = Idle, UNCHANGED <<now_ts, oracle>>
    PROVE  IInv'
  <1> DEFINE after == BookAfterMatching
             dropped == expired \cup worst
             outs == OutEvents1(expired) \o OutEvents1(worst)
             new == tx.events \o outs
             gone == tx.deletes \cup dropped
             leaf == NewLeaf(slot)
  <1>1. /\ TypeOK /\ IdsInv /\ SlotsInv /\ PricesInv /\ MatchInv
        /\ tx.account \in Accounts
        /\ tx.events \in Seq(Events) /\ queue \in Seq(Events)
        /\ book \in SUBSET Leaves /\ market.seq_num \in Nat
        /\ position \in [Accounts -> PerpPositions]
        /\ open_orders \in [Accounts -> [Slots -> PerpOpenOrders]]
    BY Zenon DEF IInv, TypeOK, Transactions, TxInv, LoopInv
  <1>2. slot \in Slots /\ open_orders[tx.account][slot].market = "free"
    BY DEF NextOrderSlot
  <1>3. /\ leaf \in Leaves /\ leaf.id = market.seq_num + 1
        /\ leaf.owner = tx.account /\ leaf.owner_slot = slot
        /\ leaf.tree = "Fixed" => leaf.price >= 1
        /\ BookBaseQuantity \in Int /\ OpenOrderOf(leaf) \in PerpOpenOrders
    BY <1>2, NewLeafType
  <1>4. /\ after \in SUBSET Leaves
        /\ \A m \in after : \E l \in book \ tx.deletes : SameLeaf(m, l)
        /\ \A l \in book \ tx.deletes : \E m \in after : SameLeaf(m, l)
        /\ \A l, m \in after : l.id = m.id => l = m
        /\ \A m \in after : m.side = tx.order.side => m \in book
        /\ tx.deletes \subseteq book /\ Notes(tx.events, tx.deletes)
    BY BookAfterMatchingIsBook
  <1>5. /\ dropped \subseteq after /\ dropped \subseteq book
        /\ \A l \in dropped : l.side = tx.order.side
    BY <1>4 DEF OnSide
  <1>6. /\ outs \in Seq(Events) /\ Notes(outs, dropped) /\ About(outs, dropped)
    <2>1. expired \in SUBSET book /\ worst \in SUBSET book
      BY <1>5
    <2>2. /\ OutEvents1(expired) \in Seq(Events)
          /\ Notes(OutEvents1(expired), expired) /\ About(OutEvents1(expired), expired)
      BY <1>1, <2>1, OutEvents1IsNote, Zenon
    <2>3. /\ OutEvents1(worst) \in Seq(Events)
          /\ Notes(OutEvents1(worst), worst) /\ About(OutEvents1(worst), worst)
      BY <1>1, <2>1, OutEvents1IsNote, Zenon
    <2>4. QED  BY <1>1, <2>1, <2>2, <2>3, NotesConcat, Zenon
  <1> HIDE DEF outs
  <1>7. new \in Seq(Events) /\ Notes(new, gone)
    <2> DEFINE theirs == OnSide(book, Opposite)
    <2>1. Opposite # tx.order.side
      BY <1>1, OppositeSide
    <2>2. theirs \in SUBSET book /\ dropped \in SUBSET book /\ theirs \cap dropped = {}
      BY <1>5, <2>1 DEF OnSide
    <2>3. About(tx.events, theirs)
      BY <1>1, Zenon DEF About, MatchInv
    <2> HIDE DEF theirs, dropped
    <2>4. QED  BY <1>1, <1>4, <1>6, <2>2, <2>3, NotesConcat, Zenon
  <1>8. queue' = queue \o new
    <2>1. queue' = (queue \o tx.events) \o outs
      BY DEF outs
    <2>2. queue \in Seq(Events) /\ tx.events \in Seq(Events) /\ outs \in Seq(Events)
      BY <1>1, <1>6
    <2>3. (queue \o tx.events) \o outs = queue \o (tx.events \o outs)
      <3>1. ASSUME NEW s \in Seq(Events), NEW t \in Seq(Events), NEW u \in Seq(Events)
            PROVE  (s \o t) \o u = s \o (t \o u)
        BY ConcatAssociative
      <3>2. QED  BY ONLY <2>2, <3>1, Zenon
    <2>4. QED  BY <2>1, <2>3
  <1>9. /\ \A m \in book' : (m \in after /\ m \notin dropped) \/ m = leaf
        /\ \A m \in after : m \notin dropped => m \in book'
        /\ leaf \in book' /\ gone \subseteq book
    BY <1>4, <1>5
  <1>10. \A m \in after : m.id \in Nat /\ m.id <= market.seq_num
    BY <1>1, <1>4, Zenon DEF SameLeaf, IdsInv, Leaves
  <1>11. /\ open_orders' \in [Accounts -> [Slots -> PerpOpenOrders]]
         /\ open_orders'[tx.account][slot] = OpenOrderOf(leaf)
         /\ \A a \in Accounts, k \in Slots : a # tx.account \/ k # slot =>
              open_orders'[a][k] = open_orders[a][k]
    BY <1>1, <1>2, <1>3, Zenon
  <1>12. /\ open_orders'[tx.account][slot].market = "this"
         /\ open_orders'[tx.account][slot].id = leaf.id
         /\ open_orders'[tx.account][slot].side = leaf.side
         /\ open_orders'[tx.account][slot].tree = leaf.tree
    BY <1>11 DEF OpenOrderOf
  <1>13. /\ position' \in [Accounts -> PerpPositions]
         /\ market' \in [ seq_num : Nat, open_interest : Int, fees_accrued : Int,
                          reduce_only : BOOLEAN, force_close : BOOLEAN ]
         /\ market'.seq_num = market.seq_num + 1
    BY <1>1, <1>3, TakerPositionType, AdjustMakerLotsType, Zenon
  <1> HIDE DEF after, new, leaf
  <1>14. ASSUME NEW l \in book \ gone PROVE \E m \in book' : SameLeaf(m, l)
    <2>1. PICK m \in after : SameLeaf(m, l)
      BY <1>4
    <2>2. m \notin dropped
      BY <1>1, <1>5, <2>1, Zenon DEF IdsInv, SameLeaf
    <2>3. QED  BY <1>9, <2>1, <2>2
  <1>15. ASSUME NEW m \in after, m \notin dropped
         PROVE  \E l \in book \ gone : SameLeaf(m, l)
    <2>1. PICK l \in book \ tx.deletes : SameLeaf(m, l)
      BY <1>4
    <2>2. l \notin dropped
      BY <1>4, <1>5, <1>15, <2>1 DEF SameLeaf
    <2>3. QED  BY <2>1, <2>2
  <1>16. ASSUME NEW l \in book', NEW m \in book', l.id = m.id PROVE l = m
    BY <1>1, <1>3, <1>4, <1>9, <1>10, <1>16, SMTT(20)
  <1>17. ASSUME NEW m \in book'
         PROVE  \/ \E l \in book \ gone : SameLeaf(m, l)
                \/ /\ m.id = market.seq_num + 1
                   /\ open_orders'[m.owner][m.owner_slot].market = "this"
                   /\ open_orders'[m.owner][m.owner_slot].id = m.id
                   /\ open_orders'[m.owner][m.owner_slot].side = m.side
                   /\ open_orders'[m.owner][m.owner_slot].tree = m.tree
    BY <1>3, <1>9, <1>12, <1>15, Zenon
  <1>18. ASSUME NEW a \in Accounts, NEW k \in Slots
         PROVE  \/ open_orders'[a][k] = open_orders[a][k]
                \/ /\ open_orders[a][k].market = "free"
                   /\ \E m \in book' : /\ m.id = open_orders'[a][k].id
                                       /\ m.owner = a /\ m.owner_slot = k
    BY <1>2, <1>3, <1>9, <1>11, <1>12, Zenon
  <1> HIDE DEF gone
  <1>19. IdsInv' /\ SlotsInv'
    <2>1. TypeOK /\ IdsInv /\ SlotsInv
      BY <1>1
    <2>2. gone \subseteq book /\ market'.seq_num = market.seq_num + 1
      BY <1>9, <1>13
    <2>3. \A l, m \in book' : l.id = m.id => l = m
      BY <1>16
    <2>4. QED
      BY ONLY <1>7, <1>8, <1>14, <1>17, <1>18, <2>1, <2>2, <2>3, BatchKeepsSlots, Zenon
  <1>20. PricesInv'
    <2>1. ASSUME NEW m \in after, m.tree = "Fixed" PROVE m.price >= 1
      BY <1>1, <1>4, <2>1 DEF PricesInv, SameLeaf
    <2>2. QED  BY <1>3, <1>9, <2>1 DEF PricesInv
  <1>21. TypeOK'
    <2>1. book' \in SUBSET Leaves
      BY <1>3, <1>4, <1>9
    <2>2. queue' \in Seq(Events)
      <3>1. new \in Seq(Events) /\ queue' = queue \o new
        BY <1>7, <1>8
      <3>2. QED  BY ONLY <1>1, <3>1, ConcatElements, Zenon
    <2>3. QED  BY <1>1, <1>11, <1>13, <2>1, <2>2, IdleType, Zenon DEF TypeOK
  <1>22. QED  BY <1>19, <1>20, <1>21, IdleInv DEF IInv

\* The step that drops these orders and posts in this slot.
Posts(expired, worst, slot) ==
    /\ tx.phase = "post" /\ WillPost /\ slot \in NextOrderSlot(tx.account)
    /\ expired \subseteq OnSide(BookAfterMatching, tx.order.side)
    /\ worst \subseteq OnSide(BookAfterMatching, tx.order.side)
    /\ expired \cap worst = {}
    /\ \A l, m \in expired : l = m
    /\ \A l, m \in worst : l = m
    /\ book' = (BookAfterMatching \ (expired \cup worst)) \cup {NewLeaf(slot)}
    /\ queue' = queue \o tx.events \o (OutEvents1(expired) \o OutEvents1(worst))
    /\ position' = [position EXCEPT ![tx.account] =
         AdjustMakerLots(TakerPosition(@), tx.order.side, BookBaseQuantity)]
    /\ open_orders' = [open_orders EXCEPT
         ![tx.account][slot] = OpenOrderOf(NewLeaf(slot))]
    /\ market' = MarketAfterOrder /\ tx' = Idle /\ UNCHANGED <<now_ts, oracle>>

\* Completing an order that posts drops at most one expired and one worst order.
LEMMA CompleteAndPostPosts ==
    ASSUME IInv, CompleteAndPost
    PROVE  \E expired, worst, slot : Posts(expired, worst, slot)
  <1> DEFINE side == tx.order.side
             own == OnSide(BookAfterMatching, side)
             droppable == ExpiredToDrop(own, tx.order.kind)
             worstOf(expired) == IF IsFull(own \ expired)
                                 THEN WorstOf(side, own \ expired) ELSE {}
  <1>1. /\ tx.phase = "post" /\ WillPost /\ market' = MarketAfterOrder /\ tx' = Idle
        /\ UNCHANGED <<now_ts, oracle>>
    BY DEF CompleteAndPost
  <1>2. PICK expired \in IF droppable = {} THEN {{}} ELSE {{l} : l \in droppable},
             slot \in NextOrderSlot(tx.account) :
          /\ book' = (BookAfterMatching \ (expired \cup worstOf(expired)))
                       \cup {NewLeaf(slot)}
          /\ queue' = queue \o tx.events
                        \o (OutEvents1(expired) \o OutEvents1(worstOf(expired)))
          /\ position' = [position EXCEPT ![tx.account] =
               AdjustMakerLots(TakerPosition(@), side, BookBaseQuantity)]
          /\ open_orders' = [open_orders EXCEPT
               ![tx.account][slot] = OpenOrderOf(NewLeaf(slot))]
    BY Zenon DEF CompleteAndPost
  <1>3. side \in Sides /\ oracle \in Int
    BY OppositeSide, OracleAssumption DEF IInv, TypeOK
  <1>4. own \in SUBSET Leaves
    BY <1>1, BookAfterMatchingIsBook, Zenon DEF OnSide
  <1>5. expired \subseteq own /\ \A l, m \in expired : l = m
    <2>1. droppable \subseteq own
      BY ExpiredToDropIsOne
    <2> HIDE DEF droppable, own
    <2>2. QED  BY <1>2, <2>1
  <1>6. /\ worstOf(expired) \subseteq own \ expired
        /\ \A l, m \in worstOf(expired) : l = m
    <2>1. own \ expired \in SUBSET Leaves
      BY <1>4
    <2>2. /\ WorstOf(side, own \ expired) \subseteq own \ expired
          /\ \A l, m \in WorstOf(side, own \ expired) : l = m
      BY <1>3, <2>1, WorstOfIsOne
    <2>3. QED  BY <2>2
  <1>7. expired \cap worstOf(expired) = {} /\ worstOf(expired) \subseteq own
    BY <1>6
  <1> HIDE DEF worstOf
  <1>8. Posts(expired, worstOf(expired), slot)
    BY <1>1, <1>2, <1>5, <1>6, <1>7, Zenon DEF Posts
  <1>9. QED  BY <1>8, Zenon

\* Completing an order that posts.
LEMMA CompleteAndPostKeepsIInv ==
    ASSUME IInv, CompleteAndPost PROVE IInv'
  <1>1. PICK expired, worst, slot : Posts(expired, worst, slot)
    BY CompleteAndPostPosts
  <1>2. QED  BY <1>1, PostKeepsIInv, Zenon DEF Posts
=============================================================================
