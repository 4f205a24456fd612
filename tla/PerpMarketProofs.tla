-------------------------- MODULE PerpMarketProofs --------------------------
(***************************************************************************)
(* Slots, book and event queue of a perp market agree, for every number of *)
(* accounts, slots, orders and events: cancelling and consuming, the       *)
(* remaining instructions, and the theorems.                               *)
(***************************************************************************)
EXTENDS PerpPostingProofs

(* Cancelling. *)

\* Cancelling a slot's order frees the slot, and takes off the book exactly the
\* order that the slot records.
LEMMA CancelKeepsSlots ==
    ASSUME TypeOK, IdsInv, PricesInv, SlotsInv, NEW a \in Accounts, NEW k \in Slots,
           CancelOrderBySlot(a, k), queue' = queue, market' = market
    PROVE  /\ book' \in SUBSET Leaves
           /\ position' \in [Accounts -> PerpPositions]
           /\ open_orders' \in [Accounts -> [Slots -> PerpOpenOrders]]
           /\ IdsInv' /\ PricesInv' /\ SlotsInv'
  <1> DEFINE oo == open_orders[a][k]
  <1>1. /\ \A l \in LeafOf(oo) : l.owner = a /\ l.owner_slot = k
        /\ book' = book \ LeafOf(oo)
        /\ position' = [position EXCEPT
             ![a] = AdjustMakerLots(@, oo.side, -OnBookQuantity(oo))]
        /\ open_orders' = [open_orders EXCEPT ![a][k] = FreeSlot]
    BY DEF CancelOrderBySlot
  <1>2. /\ book \in SUBSET Leaves /\ position \in [Accounts -> PerpPositions]
        /\ open_orders \in [Accounts -> [Slots -> PerpOpenOrders]]
        /\ \A l \in book : l.owner \in Accounts /\ l.owner_slot \in Slots
    BY DEF TypeOK, Leaves
  <1>3. book' \in SUBSET Leaves /\ book' \subseteq book
    BY <1>1, <1>2
  <1>4. position' \in [Accounts -> PerpPositions]
    <2>1. OnBookQuantity(oo) \in Int
      <3>1. CASE LeafOf(oo) = {}
        BY <3>1 DEF OnBookQuantity
      <3>2. CASE LeafOf(oo) # {}
        <4>1. (CHOOSE l \in LeafOf(oo) : TRUE) \in LeafOf(oo)
          BY <3>2
        <4>2. (CHOOSE l \in LeafOf(oo) : TRUE) \in Leaves
          BY <1>2, <4>1 DEF LeafOf
        <4>3. QED  BY <3>2, <4>2 DEF OnBookQuantity, Leaves
      <3>3. QED  BY <3>1, <3>2
    <2>2. AdjustMakerLots(position[a], oo.side, -OnBookQuantity(oo)) \in PerpPositions
      BY <1>2, <2>1, AdjustMakerLotsType
    <2>3. QED  BY <1>1, <1>2, <2>2
  <1>5. FreeSlot \in PerpOpenOrders
    BY DEF FreeSlot, PerpOpenOrders, Sides, Trees
  <1>6. /\ open_orders' \in [Accounts -> [Slots -> PerpOpenOrders]]
        /\ open_orders'[a][k] = FreeSlot
        /\ \A b \in Accounts, j \in Slots :
             b # a \/ j # k => open_orders'[b][j] = open_orders[b][j]
    BY <1>1, <1>2, <1>5
  <1>7. IdsInv' /\ PricesInv'
    BY <1>3 DEF IdsInv, PricesInv
  <1>8. BookOrdersHaveSlots'
    <2>1. ASSUME NEW l \in book'
          PROVE  /\ open_orders'[l.owner][l.owner_slot].market = "this"
                 /\ open_orders'[l.owner][l.owner_slot].id = l.id
                 /\ open_orders'[l.owner][l.owner_slot].side = l.side
                 /\ open_orders'[l.owner][l.owner_slot].tree = l.tree
      <3>1. /\ l \in book /\ l \notin LeafOf(oo)
            /\ open_orders[l.owner][l.owner_slot].market = "this"
            /\ open_orders[l.owner][l.owner_slot].id = l.id
            /\ open_orders[l.owner][l.owner_slot].side = l.side
            /\ open_orders[l.owner][l.owner_slot].tree = l.tree
        BY <1>1 DEF SlotsInv, BookOrdersHaveSlots, SlotHolds
      <3>2. l.owner # a \/ l.owner_slot # k
        BY <3>1 DEF LeafOf
      <3>3. QED  BY <1>2, <1>6, <3>1, <3>2
    <2>2. QED  BY <2>1 DEF BookOrdersHaveSlots, SlotHolds
  <1>9. TakenSlotsAreFreed'
    <2>1. ASSUME NEW b \in Accounts, NEW j \in Slots, open_orders'[b][j].market = "this"
          PROVE  \/ \E l \in book' : /\ l.id = open_orders'[b][j].id
                                     /\ l.owner = b /\ l.owner_slot = j
                 \/ \E i \in 1 .. Len(queue') :
                      /\ Finishes(queue'[i])
                      /\ queue'[i].order_id = open_orders'[b][j].id
                      /\ queue'[i].owner = b /\ queue'[i].owner_slot = j
      <3>1. b # a \/ j # k
        BY <1>6, <2>1 DEF FreeSlot
      <3>2. open_orders'[b][j] = open_orders[b][j]
        BY <1>6, <3>1
      <3>3. \A l \in book : l.owner = b /\ l.owner_slot = j => l \in book'
        BY <1>1, <3>1
      <3>4. \/ \E l \in book : /\ l.id = open_orders[b][j].id
                               /\ l.owner = b /\ l.owner_slot = j
            \/ \E i \in 1 .. Len(queue) :
                 /\ Finishes(queue[i]) /\ queue[i].order_id = open_orders[b][j].id
                 /\ queue[i].owner = b /\ queue[i].owner_slot = j
        BY <2>1, <3>2, SMTT(20) DEF SlotsInv, TakenSlotsAreFreed
      <3>5. QED  BY <3>2, <3>3, <3>4
    <2>2. QED  BY <2>1, SMTT(20) DEF TakenSlotsAreFreed, Finishes
  <1>10. FinishedOrdersAreGone'
    BY <1>3, SMTT(20) DEF SlotsInv, FinishedOrdersAreGone, Finishes
  <1>11. QED  BY <1>3, <1>4, <1>6, <1>7, <1>8, <1>9, <1>10 DEF SlotsInv

\* A step outside a loop that leaves the instruction idle.
LEMMA IdleStays ==
    ASSUME TxInv, tx.phase = "idle", tx' = tx PROVE TxInv'
  <1>1. LoopInv'
    BY DEF TxInv, LoopInv
  <1>2. QED  BY <1>1 DEF TxInv

\* Cancelling one order.
LEMMA CancelOrderKeepsIInv ==
    ASSUME IInv, NEW a \in Accounts, NEW k \in Slots, PerpCancelOrder(a, k)
    PROVE  IInv'
  <1>1. /\ tx.phase = "idle" /\ CancelOrderBySlot(a, k)
        /\ UNCHANGED <<queue, market, now_ts, oracle, tx>>
    BY DEF PerpCancelOrder
  <1>2. /\ book' \in SUBSET Leaves
        /\ position' \in [Accounts -> PerpPositions]
        /\ open_orders' \in [Accounts -> [Slots -> PerpOpenOrders]]
        /\ IdsInv' /\ PricesInv' /\ SlotsInv'
    BY <1>1, CancelKeepsSlots DEF IInv
  <1>3. TypeOK'
    BY <1>1, <1>2 DEF IInv, TypeOK
  <1>4. TxInv'
    BY <1>1, IdleStays DEF IInv
  <1>5. QED  BY <1>2, <1>3, <1>4 DEF IInv

\* The loop over the slots stays within them and stops at its limit.
LEMMA NextSlotKeepsTx ==
    ASSUME IInv, tx.phase = "cancel", NEW limit \in Nat, NextSlot(limit)
    PROVE  tx' \in Transactions /\ TxInv'
  <1>1. CASE tx' = Idle
    BY <1>1, IdleType, IdleInv
  <1>2. CASE tx' # Idle
    <2>1. /\ tx' = [tx EXCEPT !.slot = @ + 1, !.limit = limit]
          /\ limit # 0 /\ tx.slot + 1 # PerpOoCount
      BY <1>2 DEF NextSlot
    <2>2. tx \in Transactions /\ tx.slot \in Slots
      BY Zenon DEF IInv, TypeOK, Transactions
    <2>3. tx.slot + 1 \in Slots
      BY <2>1, <2>2, PerpOoCountAssumption DEF Slots
    <2>4. tx' \in Transactions
      BY <2>1, <2>2, <2>3, Zenon DEF Transactions
    <2>5. /\ tx'.phase = tx.phase /\ tx'.account = tx.account /\ tx'.order = tx.order
          /\ tx'.limit = limit /\ tx'.post = tx.post /\ tx'.deletes = tx.deletes
          /\ tx'.changes = tx.changes /\ tx'.events = tx.events
      BY <2>1, <2>2 DEF Transactions
    <2>6. LoopInv'
      BY <2>1, <2>5 DEF IInv, TxInv, LoopInv
    <2>7. QED  BY <2>4, <2>5, <2>6 DEF TxInv
  <1>3. QED  BY <1>1, <1>2

\* One iteration of cancelling all orders.
LEMMA CancelNextKeepsIInv ==
    ASSUME IInv, CancelNext PROVE IInv'
  <1>1. tx.phase = "cancel" /\ UNCHANGED <<queue, market, now_ts, oracle>>
    BY DEF CancelNext
  <1>2. /\ tx.account \in Accounts /\ tx.slot \in Slots /\ tx.limit \in Nat
        /\ tx.limit - 1 \in Nat
    <2>1. tx.limit \in Nat /\ tx.slot \in Slots
      BY DEF IInv, TypeOK, Transactions
    <2>2. tx.account \in Accounts /\ tx.limit >= 1
      BY <1>1 DEF IInv, TxInv, LoopInv
    <2>3. QED  BY <2>1, <2>2
  <1>3. tx' \in Transactions /\ TxInv'
    <2>1. NextSlot(tx.limit) \/ NextSlot(tx.limit - 1)
      BY DEF CancelNext
    <2>2. QED  BY <1>1, <1>2, <2>1, NextSlotKeepsTx
  <1>4. CASE CancelOrderBySlot(tx.account, tx.slot)
    <2>1. /\ book' \in SUBSET Leaves
          /\ position' \in [Accounts -> PerpPositions]
          /\ open_orders' \in [Accounts -> [Slots -> PerpOpenOrders]]
          /\ IdsInv' /\ PricesInv' /\ SlotsInv'
      BY <1>1, <1>2, <1>4, CancelKeepsSlots DEF IInv
    <2>2. TypeOK'
      BY <1>1, <1>3, <2>1 DEF IInv, TypeOK
    <2>3. QED  BY <1>3, <2>1, <2>2 DEF IInv
  <1>5. CASE UNCHANGED <<book, position, open_orders>>
    BY <1>1, <1>3, <1>5, QuietStep
  <1>6. QED  BY <1>4, <1>5 DEF CancelNext

-----------------------------------------------------------------------------
(* Consuming events. *)

\* Trades keep positions well typed.
LEMMA TradeTypes ==
    ASSUME NEW pp \in PerpPositions, NEW fill \in FillEvents
    PROVE  /\ ExecutePerpMaker(pp, fill) \in PerpPositions
           /\ ExecutePerpTaker(pp, fill) \in PerpPositions
  <1>1. /\ fill.quantity \in Nat /\ fill.price \in Nat /\ fill.maker_fee \in Int
    BY DEF FillEvents
  <1>2. fill.price * fill.quantity \in Int
    BY <1>1
  <1>3. ASSUME NEW side
        PROVE  BaseChange(fill, side) \in Int /\ QuoteChange(fill, side) \in Int
    BY <1>1, <1>2 DEF BaseChange, QuoteChange, Signed
  <1>4. ASSUME NEW p \in PerpPositions, NEW base \in Int, NEW quote \in Int
        PROVE  RecordTrade(p, base, quote) \in PerpPositions
    <2>1. p.base + base \in Int /\ p.quote + quote \in Int
      BY DEF PerpPositions
    <2>2. QED  BY <2>1, Zenon DEF RecordTrade, PerpPositions
  <1>5. ExecutePerpMaker(pp, fill) \in PerpPositions
    <2> DEFINE side == MakerSide(fill)
               base == BaseChange(fill, side)
               quote == QuoteChange(fill, side)
               paid == quote - Abs(quote) * fill.maker_fee
    <2>1. base \in Int /\ quote \in Int
      BY <1>3
    <2>2. paid \in Int
      <3>1. Abs(quote) \in Int
        BY <2>1 DEF Abs
      <3> HIDE DEF quote
      <3>2. QED  BY <1>1, <2>1, <3>1
    <2> HIDE DEF base, quote, paid
    <2>3. RecordTrade(pp, base, paid) \in PerpPositions
      BY <1>4, <2>1, <2>2
    <2>4. -fill.quantity \in Int
      BY <1>1
    <2>5. AdjustMakerLots(RecordTrade(pp, base, paid), side, -fill.quantity)
            \in PerpPositions
      BY <2>3, <2>4, AdjustMakerLotsType
    <2>6. QED  BY <2>5 DEF ExecutePerpMaker, base, quote, paid
  <1>6. ExecutePerpTaker(pp, fill) \in PerpPositions
    <2> DEFINE base == BaseChange(fill, fill.taker_side)
               quote == QuoteChange(fill, fill.taker_side)
               freed == [pp EXCEPT !.taker_base_lots = @ - base,
                                   !.taker_quote_lots = @ - quote]
    <2>1. base \in Int /\ quote \in Int
      BY <1>3
    <2> HIDE DEF base, quote
    <2>2. freed \in PerpPositions
      <3>1. pp.taker_base_lots - base \in Int /\ pp.taker_quote_lots - quote \in Int
        BY <2>1 DEF PerpPositions
      <3>2. QED  BY <3>1, Zenon DEF PerpPositions
    <2> HIDE DEF freed
    <2>3. RecordTrade(freed, base, quote) \in PerpPositions
      BY <1>4, <2>1, <2>2
    <2>4. QED  BY <2>3 DEF ExecutePerpTaker, base, quote, freed
  <1>7. QED  BY <1>5, <1>6

\* The change of open interest is a number.
LEMMA OpenInterestType ==
    ASSUME NEW p \in PerpPositions, NEW q \in PerpPositions
    PROVE  OpenInterestChange(p, q) \in Int
  BY DEF OpenInterestChange, Abs, PerpPositions

\* The type of the market's fields.
Markets == [ seq_num : Nat, open_interest : Int, fees_accrued : Int,
             reduce_only : BOOLEAN, force_close : BOOLEAN ]

\* An event is applied to the positions of the accounts it names.
LEMMA ConsumeTypes ==
    ASSUME TypeOK, NEW event \in Events,
           IF event.event_type = "Fill" THEN ConsumeFill(event) ELSE ConsumeOut(event)
    PROVE  /\ position' \in [Accounts -> PerpPositions]
           /\ market' \in Markets /\ market'.seq_num = market.seq_num
  <1>1. position \in [Accounts -> PerpPositions] /\ market \in Markets
    BY DEF TypeOK, Markets
  <1>2. CASE event.event_type = "Fill"
    <2> DEFINE maker == event.owner
               taker == event.taker
               made == [position EXCEPT ![maker] = ExecutePerpMaker(@, event)]
               taken == [made EXCEPT ![taker] = ExecutePerpTaker(@, event)]
               change == OpenInterestChange(position[maker], made[maker])
                           + OpenInterestChange(made[taker], taken[taker])
    <2>1. event \in FillEvents
      BY <1>2 DEF Events, OutEvents
    <2>2. maker \in Accounts /\ taker \in Accounts
      BY <2>1 DEF FillEvents
    <2>3. /\ position' = taken
          /\ market' = [market EXCEPT !.open_interest =
               @ + OpenInterestChange(position[maker], made[maker])
                 + OpenInterestChange(made[taker], taken[taker])]
      BY <1>2 DEF ConsumeFill
    <2>4. made \in [Accounts -> PerpPositions]
      <3>1. ExecutePerpMaker(position[maker], event) \in PerpPositions
        BY <1>1, <2>1, <2>2, TradeTypes
      <3>2. QED  BY <1>1, <2>2, <3>1
    <2> HIDE DEF made
    <2>5. taken \in [Accounts -> PerpPositions]
      <3>1. ExecutePerpTaker(made[taker], event) \in PerpPositions
        BY <2>1, <2>2, <2>4, TradeTypes
      <3>2. QED  BY <2>2, <2>4, <3>1
    <2> HIDE DEF taken
    <2>6. /\ OpenInterestChange(position[maker], made[maker]) \in Int
          /\ OpenInterestChange(made[taker], taken[taker]) \in Int
      BY <1>1, <2>2, <2>4, <2>5, OpenInterestType
    <2>7. QED  BY <1>1, <2>3, <2>5, <2>6 DEF Markets
  <1>3. CASE event.event_type # "Fill"
    <2>1. event \in OutEvents
      BY <1>3 DEF Events, FillEvents
    <2>2. event.owner \in Accounts /\ -event.quantity \in Int
      BY <2>1 DEF OutEvents
    <2>3. /\ position' = [position EXCEPT ![event.owner] =
                            AdjustMakerLots(@, event.side, -event.quantity)]
          /\ market' = market
      BY <1>3 DEF ConsumeOut
    <2>4. AdjustMakerLots(position[event.owner], event.side, -event.quantity)
            \in PerpPositions
      BY <1>1, <2>2, AdjustMakerLotsType
    <2>5. QED  BY <1>1, <2>2, <2>3, <2>4
  <1>4. QED  BY <1>2, <1>3

\* What an event does to the slot it names: free it, or take lots off the order
\* it is for.
LEMMA SlotAfterFields ==
    ASSUME NEW event \in Events, NEW oo \in PerpOpenOrders
    PROVE  /\ SlotAfter(event, oo) \in PerpOpenOrders
           /\ \/ SlotAfter(event, oo) = oo
              \/ EventIsFor(event, oo) /\ Finishes(event) /\ SlotAfter(event, oo) = FreeSlot
              \/ /\ EventIsFor(event, oo) /\ ~Finishes(event)
                 /\ SlotAfter(event, oo).market = oo.market
                 /\ SlotAfter(event, oo).id = oo.id
                 /\ SlotAfter(event, oo).side = oo.side
                 /\ SlotAfter(event, oo).tree = oo.tree
           /\ EventIsFor(event, oo) /\ Finishes(event) => SlotAfter(event, oo) = FreeSlot
  <1>1. event.quantity \in Nat
    BY DEF Events, FillEvents, OutEvents
  <1>2. Greatest(oo.quantity - event.quantity, 0) \in Nat
    BY <1>1 DEF Greatest, PerpOpenOrders
  <1>3. FreeSlot \in PerpOpenOrders
    BY DEF FreeSlot, PerpOpenOrders, Sides, Trees
  <1>4. CASE ~EventIsFor(event, oo)
    BY <1>4 DEF SlotAfter
  <1>5. CASE EventIsFor(event, oo) /\ Finishes(event)
    BY <1>3, <1>5 DEF SlotAfter, Finishes
  <1>6. CASE EventIsFor(event, oo) /\ ~Finishes(event)
    <2>1. SlotAfter(event, oo) =
            [oo EXCEPT !.quantity = Greatest(oo.quantity - event.quantity, 0)]
      BY <1>6 DEF SlotAfter, Finishes
    <2>2. QED  BY <1>2, <1>6, <2>1 DEF PerpOpenOrders
  <1>7. QED  BY <1>4, <1>5, <1>6

\* Consuming the oldest event.
LEMMA ConsumeKeepsIInv ==
    ASSUME IInv, PerpConsumeEvents PROVE IInv'
  <1> DEFINE e == Head(queue)
             n == Len(queue)
             slot(a, k) == open_orders[a][k]
  <1>1. /\ tx.phase = "idle" /\ queue # <<>> /\ queue' = Tail(queue)
        /\ IF e.event_type = "Fill" THEN ConsumeFill(e) ELSE ConsumeOut(e)
        /\ open_orders' = [open_orders EXCEPT
             ![e.owner][e.owner_slot] = SlotAfter(e, @)]
        /\ UNCHANGED <<book, now_ts, oracle, tx>>
    BY DEF PerpConsumeEvents
  <1>2. /\ TypeOK /\ IdsInv /\ PricesInv /\ TxInv /\ SlotsInv
        /\ queue \in Seq(Events) /\ n \in Nat /\ book \in SUBSET Leaves
        /\ open_orders \in [Accounts -> [Slots -> PerpOpenOrders]]
        /\ \A l \in book : l.owner \in Accounts /\ l.owner_slot \in Slots
    BY DEF IInv, TypeOK, Leaves
  <1>3. /\ e \in Events /\ e = queue[1] /\ n >= 1
        /\ queue' \in Seq(Events) /\ Len(queue') = n - 1
        /\ \A i \in 1 .. Len(queue') : queue'[i] = queue[i + 1]
    BY <1>1, <1>2, HeadTailProperties
  <1>4. /\ \A i \in 1 .. Len(queue') : i + 1 \in 1 .. n
        /\ 1 \in 1 .. n
        /\ \A i \in 1 .. n : i # 1 => i - 1 \in 1 .. Len(queue') /\ (i - 1) + 1 = i
    BY <1>2, <1>3
  <1> HIDE DEF e
  <1>5. /\ e.owner \in Accounts /\ e.owner_slot \in Slots
        /\ e.order_id \in Nat /\ e.order_id # 0
    <2>1. e.owner \in Accounts /\ e.owner_slot \in Slots
      BY <1>3 DEF Events, FillEvents, OutEvents
    <2>2. e.order_id \in 1 .. market.seq_num
      BY <1>2, <1>3, <1>4 DEF IdsInv
    <2>3. QED  BY <2>1, <2>2
  <1>6. /\ position' \in [Accounts -> PerpPositions]
        /\ market' \in Markets /\ market'.seq_num = market.seq_num
    BY <1>1, <1>2, <1>3, ConsumeTypes
  <1>7. slot(e.owner, e.owner_slot) \in PerpOpenOrders
    BY <1>2, <1>5
  <1> DEFINE oo == open_orders[e.owner][e.owner_slot]
             left == SlotAfter(e, oo)
  <1>8. /\ left \in PerpOpenOrders
        /\ \/ left = oo
           \/ EventIsFor(e, oo) /\ Finishes(e) /\ left = FreeSlot
           \/ /\ EventIsFor(e, oo) /\ ~Finishes(e)
              /\ left.market = oo.market /\ left.id = oo.id
              /\ left.side = oo.side /\ left.tree = oo.tree
        /\ EventIsFor(e, oo) /\ Finishes(e) => left = FreeSlot
    BY <1>3, <1>7, SlotAfterFields, Zenon
  <1>9. EventIsFor(e, oo) <=> oo.market = "this" /\ oo.id = e.order_id
    BY <1>5 DEF EventIsFor
  <1>10. /\ open_orders' \in [Accounts -> [Slots -> PerpOpenOrders]]
         /\ open_orders'[e.owner][e.owner_slot] = left
         /\ \A a \in Accounts, k \in Slots : a # e.owner \/ k # e.owner_slot =>
              open_orders'[a][k] = open_orders[a][k]
    BY <1>1, <1>2, <1>5, <1>8, Zenon
  <1>11. FreeSlot.market = "free"
    BY DEF FreeSlot
  <1> HIDE DEF left
  <1>12. IdsInv' /\ PricesInv'
    BY <1>1, <1>2, <1>3, <1>4, <1>6 DEF IdsInv, PricesInv
  <1>13. BookOrdersHaveSlots'
    <2>1. ASSUME NEW l \in book
          PROVE  /\ open_orders'[l.owner][l.owner_slot].market = "this"
                 /\ open_orders'[l.owner][l.owner_slot].id = l.id
                 /\ open_orders'[l.owner][l.owner_slot].side = l.side
                 /\ open_orders'[l.owner][l.owner_slot].tree = l.tree
      <3>1. /\ open_orders[l.owner][l.owner_slot].market = "this"
            /\ open_orders[l.owner][l.owner_slot].id = l.id
            /\ open_orders[l.owner][l.owner_slot].side = l.side
            /\ open_orders[l.owner][l.owner_slot].tree = l.tree
        BY <1>2, Zenon DEF SlotsInv, BookOrdersHaveSlots, SlotHolds
      <3>2. CASE l.owner # e.owner \/ l.owner_slot # e.owner_slot
        BY <1>2, <1>10, <3>1, <3>2, Zenon
      <3>3. CASE l.owner = e.owner /\ l.owner_slot = e.owner_slot
        <4>1. ~(EventIsFor(e, oo) /\ Finishes(e))
          <5>1. Finishes(e) => l.id # e.order_id
            BY <1>2, <1>3, <1>4, Zenon DEF SlotsInv, FinishedOrdersAreGone
          <5>2. QED  BY <1>9, <3>1, <3>3, <5>1, Zenon
        <4>2. QED  BY <1>8, <1>10, <3>1, <3>3, <4>1, Zenon
      <3>4. QED  BY <3>2, <3>3, Zenon
    <2>2. QED  BY <1>1, <2>1, Zenon DEF BookOrdersHaveSlots, SlotHolds
  <1>14. TakenSlotsAreFreed'
    <2>1. ASSUME NEW a \in Accounts, NEW k \in Slots, open_orders'[a][k].market = "this"
          PROVE  \/ \E l \in book : /\ l.id = open_orders'[a][k].id
                                    /\ l.owner = a /\ l.owner_slot = k
                 \/ \E i \in 1 .. Len(queue') :
                      /\ Finishes(queue'[i])
                      /\ queue'[i].order_id = open_orders'[a][k].id
                      /\ queue'[i].owner = a /\ queue'[i].owner_slot = k
      <3>1. /\ open_orders'[a][k].id = open_orders[a][k].id
            /\ open_orders[a][k].market = "this"
        BY <1>8, <1>10, <1>11, <2>1, Zenon
      <3>2. \/ \E l \in book : /\ l.id = open_orders[a][k].id
                               /\ l.owner = a /\ l.owner_slot = k
            \/ \E i \in 1 .. n :
                 /\ Finishes(queue[i]) /\ queue[i].order_id = open_orders[a][k].id
                 /\ queue[i].owner = a /\ queue[i].owner_slot = k
        BY <1>2, <3>1 DEF SlotsInv, TakenSlotsAreFreed
      <3>3. ASSUME NEW i \in 1 .. n, Finishes(queue[i]),
                   queue[i].order_id = open_orders[a][k].id,
                   queue[i].owner = a, queue[i].owner_slot = k
            PROVE  \E j \in 1 .. Len(queue') :
                      /\ Finishes(queue'[j])
                      /\ queue'[j].order_id = open_orders'[a][k].id
                      /\ queue'[j].owner = a /\ queue'[j].owner_slot = k
        <4>1. i # 1
          <5>1. ASSUME i = 1 PROVE FALSE
            <6>1. /\ a = e.owner /\ k = e.owner_slot /\ Finishes(e)
                  /\ oo.market = "this" /\ oo.id = e.order_id
              BY <1>3, <3>1, <3>3, <5>1, Zenon
            <6>2. open_orders'[a][k] = FreeSlot
              BY <1>8, <1>9, <1>10, <6>1, Zenon
            <6>3. QED  BY <1>11, <2>1, <6>2
          <5>2. QED  BY <5>1
        <4>2. i - 1 \in 1 .. Len(queue') /\ queue'[i - 1] = queue[i]
          BY <1>3, <1>4, <4>1
        <4>3. QED  BY <3>1, <3>3, <4>2
      <3>4. QED  BY <3>1, <3>2, <3>3, Zenon
    <2>2. QED  BY <1>1, <2>1, SMTT(20) DEF TakenSlotsAreFreed, Finishes
  <1>15. FinishedOrdersAreGone'
    <2>1. ASSUME NEW i \in 1 .. Len(queue'), Finishes(queue'[i])
          PROVE  /\ \A l \in book : l.id # queue'[i].order_id
                 /\ \A j \in i + 1 .. Len(queue') :
                      queue'[j].order_id # queue'[i].order_id
      <3>1. i + 1 \in 1 .. n /\ Finishes(queue[i + 1]) /\ queue'[i] = queue[i + 1]
        BY <1>3, <1>4, <2>1
      <3>2. /\ \A l \in book : l.id # queue[i + 1].order_id
            /\ \A j \in (i + 1) + 1 .. n : queue[j].order_id # queue[i + 1].order_id
        BY <1>2, <3>1 DEF SlotsInv, FinishedOrdersAreGone
      <3>3. ASSUME NEW j \in i + 1 .. Len(queue')
            PROVE  queue'[j].order_id # queue'[i].order_id
        <4>1. j \in 1 .. Len(queue') /\ j + 1 \in (i + 1) + 1 .. n
          BY <1>2, <1>3
        <4>2. QED  BY <1>3, <3>1, <3>2, <4>1, Zenon
      <3>4. QED  BY <3>1, <3>2, <3>3
    <2>2. QED  BY <1>1, <2>1 DEF FinishedOrdersAreGone, Finishes
  <1>16. TypeOK'
    BY <1>1, <1>2, <1>3, <1>6, <1>10, Zenon DEF TypeOK, Markets
  <1>17. TxInv'
    BY <1>1, <1>2, IdleStays
  <1>18. QED  BY <1>12, <1>13, <1>14, <1>15, <1>16, <1>17 DEF IInv, SlotsInv

-----------------------------------------------------------------------------

(* The remaining instructions and the surroundings. *)

\* A step between instructions that leaves book, queue and slots alone.
LEMMA OutsideKeepsIInv ==
    ASSUME IInv, tx.phase = "idle", UNCHANGED <<book, queue, open_orders, tx>>,
           position' \in [Accounts -> PerpPositions], market' \in Markets,
           market'.seq_num = market.seq_num, now_ts' \in Nat, oracle' \in OraclePrices
    PROVE  IInv'
  <1>1. TypeOK'
    BY DEF IInv, TypeOK, Markets
  <1>2. SlotsInv'
    BY QuietKeepsSlots DEF IInv
  <1>3. IdsInv' /\ PricesInv'
    BY QuietKeepsIds DEF IInv
  <1>4. TxInv'
    BY IdleStays DEF IInv
  <1>5. QED  BY <1>1, <1>2, <1>3, <1>4 DEF IInv

\* What TypeOK says of the variables these steps change.
LEMMA OutsideTypes ==
    ASSUME TypeOK
    PROVE  /\ position \in [Accounts -> PerpPositions] /\ market \in Markets
           /\ now_ts \in Nat /\ oracle \in OraclePrices /\ oracle \in Int
  BY OracleAssumption DEF TypeOK, Markets

\* Deactivating an empty position.
LEMMA DeactivateKeepsIInv ==
    ASSUME IInv, NEW a \in Accounts, PerpDeactivatePosition(a) PROVE IInv'
  <1>1. NoPosition \in PerpPositions
    BY DEF NoPosition, PerpPositions
  <1>2. /\ tx.phase = "idle" /\ position' = [position EXCEPT ![a] = NoPosition]
        /\ UNCHANGED <<book, queue, open_orders, market, now_ts, oracle, tx>>
    BY DEF PerpDeactivatePosition
  <1>3. position' \in [Accounts -> PerpPositions]
    BY <1>1, <1>2, OutsideTypes DEF IInv
  <1>4. QED  BY <1>2, <1>3, OutsideTypes, OutsideKeepsIInv DEF IInv

\* Force closing exchanges lots and quote, and leaves both positions with the
\* rest of their lots on the side they were on.
LEMMA ForceCloseFields ==
    ASSUME IInv, NEW a \in Accounts, NEW b \in Accounts, PerpForceClosePosition(a, b)
    PROVE  /\ position' \in [Accounts -> PerpPositions]
           /\ a # b
           /\ 0 <= position'[a].base /\ position'[a].base < position[a].base
           /\ 0 >= position'[b].base /\ position'[b].base > position[b].base
           /\ \A c \in Accounts \ {a, b} : position'[c] = position[c]
           /\ market' \in Markets /\ market'.seq_num = market.seq_num
  <1> DEFINE base == LotsToClose(a, b)
             quote == base * oracle
             after == [position EXCEPT ![a] = RecordTrade(@, -base, quote),
                                       ![b] = RecordTrade(@, base, -quote)]
  <1>1. /\ position[a].base > 0 /\ position[b].base < 0 /\ position' = after
        /\ market' = [market EXCEPT !.open_interest =
             @ + OpenInterestChange(position[a], after[a])
               + OpenInterestChange(position[b], after[b])]
    BY DEF PerpForceClosePosition
  <1>2. /\ position \in [Accounts -> PerpPositions] /\ market \in Markets
        /\ oracle \in Int
    BY OutsideTypes DEF IInv
  <1>3. /\ position[a].base \in Int /\ position[b].base \in Int
        /\ position[a].quote \in Int /\ position[b].quote \in Int
    BY <1>2 DEF PerpPositions
  <1>4. /\ base \in Int /\ base > 0
        /\ base <= position[a].base /\ base <= -position[b].base
    BY <1>1, <1>3 DEF LotsToClose, Least
  <1>5. a # b
    BY <1>1, <1>3
  <1>6. quote \in Int
    <2> HIDE DEF base
    <2>1. QED  BY <1>2, <1>4
  <1> HIDE DEF base, quote
  <1>7. ASSUME NEW c \in Accounts, NEW m \in Int, NEW n \in Int
        PROVE  /\ RecordTrade(position[c], m, n) \in PerpPositions
               /\ RecordTrade(position[c], m, n).base = position[c].base + m
    <2>1. position[c].base + m \in Int /\ position[c].quote + n \in Int
      BY <1>2 DEF PerpPositions
    <2>2. position[c] \in PerpPositions
      BY <1>2
    <2>3. QED  BY <2>1, <2>2, Zenon DEF RecordTrade, PerpPositions
  <1>8. -base \in Int /\ -quote \in Int
    BY <1>4, <1>6
  <1>9. /\ after \in [Accounts -> PerpPositions]
        /\ after[a].base = position[a].base + -base
        /\ after[b].base = position[b].base + base
        /\ \A c \in Accounts \ {a, b} : after[c] = position[c]
    <2>1. /\ RecordTrade(position[a], -base, quote) \in PerpPositions
          /\ RecordTrade(position[a], -base, quote).base = position[a].base + -base
      BY <1>6, <1>7, <1>8
    <2>2. /\ RecordTrade(position[b], base, -quote) \in PerpPositions
          /\ RecordTrade(position[b], base, -quote).base = position[b].base + base
      BY <1>4, <1>7, <1>8
    <2>3. QED  BY <1>2, <1>5, <2>1, <2>2
  <1> HIDE DEF after
  <1>10. /\ OpenInterestChange(position[a], after[a]) \in Int
         /\ OpenInterestChange(position[b], after[b]) \in Int
    BY <1>2, <1>9, OpenInterestType
  <1>11. market' \in Markets /\ market'.seq_num = market.seq_num
    BY <1>1, <1>2, <1>10 DEF Markets
  <1>12. /\ 0 <= after[a].base /\ after[a].base < position[a].base
         /\ 0 >= after[b].base /\ after[b].base > position[b].base
    BY <1>3, <1>4, <1>9
  <1>13. QED  BY <1>1, <1>5, <1>9, <1>11, <1>12

\* Force closing.
LEMMA ForceCloseKeepsIInv ==
    ASSUME IInv, NEW a \in Accounts, NEW b \in Accounts, PerpForceClosePosition(a, b)
    PROVE  IInv'
  <1>1. tx.phase = "idle" /\ UNCHANGED <<book, queue, open_orders, now_ts, oracle, tx>>
    BY DEF PerpForceClosePosition
  <1>2. /\ position' \in [Accounts -> PerpPositions]
        /\ market' \in Markets /\ market'.seq_num = market.seq_num
    BY ForceCloseFields
  <1>3. QED  BY <1>1, <1>2, OutsideTypes, OutsideKeepsIInv DEF IInv

\* Changing the market's modes.
LEMMA EditMarketKeepsIInv ==
    ASSUME IInv, NEW reduce_only \in BOOLEAN, NEW force_close \in BOOLEAN,
           PerpEditMarket(reduce_only, force_close)
    PROVE  IInv'
  <1>1. /\ tx.phase = "idle"
        /\ market' = [market EXCEPT !.reduce_only = reduce_only,
                                    !.force_close = force_close]
        /\ UNCHANGED <<book, queue, position, open_orders, now_ts, oracle, tx>>
    BY DEF PerpEditMarket
  <1>2. market' \in Markets /\ market'.seq_num = market.seq_num
    BY <1>1, OutsideTypes, Zenon DEF IInv, Markets
  <1>3. QED  BY <1>1, <1>2, OutsideTypes, OutsideKeepsIInv DEF IInv

\* Time passing and the oracle moving.
LEMMA SurroundingsKeepIInv ==
    ASSUME IInv, Tick \/ \E price \in OraclePrices : OracleMoves(price) PROVE IInv'
  <1>1. CASE Tick
    <2>1. /\ tx.phase = "idle" /\ now_ts' = now_ts + 1
          /\ UNCHANGED <<book, queue, position, open_orders, market, oracle, tx>>
      BY <1>1 DEF Tick
    <2>2. now_ts' \in Nat
      BY <2>1, OutsideTypes DEF IInv
    <2>3. QED  BY <2>1, <2>2, OutsideTypes, OutsideKeepsIInv DEF IInv
  <1>2. ASSUME NEW price \in OraclePrices, OracleMoves(price) PROVE IInv'
    <2>1. /\ tx.phase = "idle" /\ oracle' = price
          /\ UNCHANGED <<book, queue, position, open_orders, market, now_ts, tx>>
      BY <1>2 DEF OracleMoves
    <2>2. QED  BY <2>1, OutsideTypes, OutsideKeepsIInv DEF IInv
  <1>3. QED  BY <1>1, <1>2

\* A slot that is not this market's may become anything but this market's.
LEMMA ForeignSlotKeepsIInv ==
    ASSUME IInv, tx.phase = "idle", NEW a \in Accounts, NEW k \in Slots,
           NEW oo \in PerpOpenOrders, open_orders[a][k].market # "this",
           oo.market # "this", open_orders' = [open_orders EXCEPT ![a][k] = oo],
           UNCHANGED <<book, queue, position, market, now_ts, oracle, tx>>
    PROVE  IInv'
  <1>1. open_orders \in [Accounts -> [Slots -> PerpOpenOrders]]
    BY DEF IInv, TypeOK
  <1>2. /\ open_orders' \in [Accounts -> [Slots -> PerpOpenOrders]]
        /\ open_orders'[a][k] = oo
        /\ \A b \in Accounts, j \in Slots : b # a \/ j # k =>
             open_orders'[b][j] = open_orders[b][j]
    BY <1>1
  <1>3. \A b \in Accounts, j \in Slots :
          open_orders[b][j].market = "this" \/ open_orders'[b][j].market = "this" =>
            open_orders'[b][j] = open_orders[b][j]
    BY <1>2
  <1>4. TypeOK'
    BY <1>2 DEF IInv, TypeOK
  <1>5. IdsInv' /\ PricesInv'
    BY QuietKeepsIds DEF IInv
  <1>6. TxInv'
    BY IdleStays DEF IInv
  <1>7. BookOrdersHaveSlots'
    <2>1. \A l \in book : l.owner \in Accounts /\ l.owner_slot \in Slots
      BY DEF IInv, TypeOK, Leaves
    <2>2. QED  BY <1>3, <2>1 DEF IInv, SlotsInv, BookOrdersHaveSlots, SlotHolds
  <1>8. TakenSlotsAreFreed'
    <2>1. TakenSlotsAreFreed
      BY DEF IInv, SlotsInv
    <2>2. QED  BY <1>3, <2>1 DEF TakenSlotsAreFreed
  <1>9. FinishedOrdersAreGone'
    BY DEF IInv, SlotsInv, FinishedOrdersAreGone
  <1>10. QED  BY <1>4, <1>5, <1>6, <1>7, <1>8, <1>9 DEF IInv, SlotsInv

\* Orders of another market come and go.
LEMMA OtherMarketKeepsIInv ==
    ASSUME IInv, NEW a \in Accounts,
           \/ \E id \in 1 .. MaxSeqNum : OtherMarketOrder(a, id)
           \/ \E k \in Slots : OtherMarketOut(a, k)
    PROVE  IInv'
  <1>1. ASSUME NEW id \in 1 .. MaxSeqNum, OtherMarketOrder(a, id) PROVE IInv'
    <2> DEFINE oo == [FreeSlot EXCEPT !.market = "other", !.id = id, !.quantity = 1]
    <2>1. PICK k \in NextOrderSlot(a) : open_orders' = [open_orders EXCEPT ![a][k] = oo]
      BY <1>1, Zenon DEF OtherMarketOrder
    <2>2. k \in Slots /\ open_orders[a][k].market = "free"
      BY DEF NextOrderSlot
    <2>3. oo \in PerpOpenOrders /\ oo.market = "other"
      <3>1. id \in Nat
        BY BoundsAssumption
      <3>2. FreeSlot \in PerpOpenOrders
        BY DEF FreeSlot, PerpOpenOrders, Sides, Trees
      <3>3. QED  BY <3>1, <3>2, Zenon DEF PerpOpenOrders
    <2>4. /\ tx.phase = "idle"
          /\ UNCHANGED <<book, queue, position, market, now_ts, oracle, tx>>
      BY <1>1, Zenon DEF OtherMarketOrder
    <2> HIDE DEF oo
    <2>5. QED  BY <2>1, <2>2, <2>3, <2>4, ForeignSlotKeepsIInv, Zenon
  <1>2. ASSUME NEW k \in Slots, OtherMarketOut(a, k) PROVE IInv'
    <2>1. FreeSlot \in PerpOpenOrders /\ FreeSlot.market = "free"
      BY DEF FreeSlot, PerpOpenOrders, Sides, Trees
    <2>2. /\ tx.phase = "idle" /\ open_orders[a][k].market = "other"
          /\ open_orders' = [open_orders EXCEPT ![a][k] = FreeSlot]
          /\ UNCHANGED <<book, queue, position, market, now_ts, oracle, tx>>
      BY <1>2 DEF OtherMarketOut
    <2>3. QED  BY <2>1, <2>2, ForeignSlotKeepsIInv, Zenon
  <1>3. QED  BY <1>1, <1>2

-----------------------------------------------------------------------------
(* The theorems. *)

\* Every instruction and every iteration of a loop keeps the invariant.
LEMMA NextKeepsIInv ==
    ASSUME IInv, [Next]_vars PROVE IInv'
  <1>1. CASE NewOrderStep
    <2>1. ASSUME NEW leaf, DropInvalid(leaf) \/ CancelProvide(leaf) \/ Fill(leaf)
          PROVE  IInv'
      BY <2>1, DropInvalidKeepsIInv, CancelProvideKeepsIInv, FillKeepsIInv
    <2>2. QED
      BY <1>1, <2>1, SlidePriceKeepsIInv, MatchEndsKeepsIInv, CompleteOrderKeepsIInv,
         CompleteAndPostKeepsIInv, OrderFailsKeepsIInv
      DEF NewOrderStep
  <1>2. CASE UNCHANGED vars
    <2>1. /\ UNCHANGED <<book, queue, position, open_orders, market, now_ts, oracle>>
          /\ tx' = tx
      BY <1>2 DEF vars
    <2>2. tx' \in Transactions
      BY <2>1 DEF IInv, TypeOK
    <2>3. LoopInv'
      BY <2>1 DEF IInv, TxInv, LoopInv
    <2>4. tx.phase \in {"match", "post"} => MatchInv'
      BY <2>1, FewerVisitsKeepMatchInv DEF IInv, TxInv
    <2>5. QED  BY <2>1, <2>2, <2>3, <2>4, QuietStep DEF TxInv
  <1>3. QED
    BY <1>1, <1>2, PlaceOrderKeepsIInv, CancelOrderKeepsIInv, CancelAllKeepsIInv,
       CancelNextKeepsIInv, ConsumeKeepsIInv, DeactivateKeepsIInv, ForceCloseKeepsIInv,
       EditMarketKeepsIInv, SurroundingsKeepIInv, OtherMarketKeepsIInv
    DEF Next

\* A new market satisfies the invariant.
LEMMA InitIsIInv ==
    ASSUME Init PROVE IInv
  <1>1. /\ NoPosition \in PerpPositions /\ FreeSlot \in PerpOpenOrders
        /\ FreeSlot.market = "free"
    BY DEF NoPosition, PerpPositions, FreeSlot, PerpOpenOrders, Sides, Trees
  <1>2. TypeOK
    BY <1>1, IdleType DEF Init, TypeOK
  <1>3. IdsInv /\ PricesInv /\ FinishedOrdersAreGone /\ BookOrdersHaveSlots
    BY DEF Init, IdsInv, PricesInv, FinishedOrdersAreGone, BookOrdersHaveSlots
  <1>4. TakenSlotsAreFreed
    BY <1>1 DEF Init, TakenSlotsAreFreed
  <1>5. TxInv
    BY DEF Init, Idle, TxInv, LoopInv
  <1>6. QED  BY <1>2, <1>3, <1>4, <1>5 DEF IInv, SlotsInv

\* The inductive invariant holds throughout.
LEMMA Invariance == Spec => []IInv
  BY InitIsIInv, NextKeepsIInv, PTL DEF Spec

\* Quantities on the book and in events are never zero, remaining lots never
\* negative, and every other variable stays in its type, for any parameters.
THEOREM TypeCorrect == Spec => []TypeOK
  <1>1. IInv => TypeOK
    BY DEF IInv
  <1>2. QED  BY <1>1, Invariance, PTL

\* Whatever is matched, cancelled, dropped or consumed in whatever order, the
\* slot that an order on the book names records that order.
THEOREM BookOrdersHaveSlotsTheorem == Spec => []BookOrdersHaveSlots
  <1>1. IInv => BookOrdersHaveSlots
    BY DEF IInv, SlotsInv
  <1>2. QED  BY <1>1, Invariance, PTL

\* No slot is leaked: its order is on the book or its finishing event is queued.
THEOREM TakenSlotsAreFreedTheorem == Spec => []TakenSlotsAreFreed
  <1>1. IInv => TakenSlotsAreFreed
    BY DEF IInv, SlotsInv
  <1>2. QED  BY <1>1, Invariance, PTL

\* An order whose finishing event is queued is off the book and not mentioned
\* by any later event.
THEOREM FinishedOrdersAreGoneTheorem == Spec => []FinishedOrdersAreGone
  <1>1. IInv => FinishedOrdersAreGone
    BY DEF IInv, SlotsInv
  <1>2. QED  BY <1>1, Invariance, PTL

\* What one step of this market's instructions does to the slots that others
\* use: nothing, although it may have been told a slot by a delayed event.
LEMMA OtherSlotsStay ==
    ASSUME IInv, Next, queue' # queue \/ book' # book,
           NEW a \in Accounts, NEW k \in Slots, open_orders[a][k].market = "other"
    PROVE  open_orders'[a][k] = open_orders[a][k]
  <1>1. open_orders \in [Accounts -> [Slots -> PerpOpenOrders]]
    BY DEF IInv, TypeOK
  <1>2. CASE open_orders' = open_orders
    BY <1>2
  <1>3. ASSUME NEW b \in Accounts, NEW j \in Slots, NEW oo,
               open_orders' = [open_orders EXCEPT ![b][j] = oo],
               open_orders[b][j].market # "other"
        PROVE  open_orders'[a][k] = open_orders[a][k]
    BY <1>1, <1>3
  <1>4. CASE CompleteAndPost
    <2>1. PICK slot \in NextOrderSlot(tx.account) :
            open_orders' = [open_orders EXCEPT
              ![tx.account][slot] = OpenOrderOf(NewLeaf(slot))]
      BY <1>4, Zenon DEF CompleteAndPost
    <2>2. tx.account \in Accounts
      BY <1>4, Zenon DEF CompleteAndPost, IInv, TxInv, LoopInv
    <2>3. slot \in Slots /\ open_orders[tx.account][slot].market = "free"
      BY DEF NextOrderSlot
    <2>4. QED  BY <1>3, <2>1, <2>2, <2>3
  <1>5. ASSUME NEW b \in Accounts, NEW j \in Slots, CancelOrderBySlot(b, j)
        PROVE  open_orders'[a][k] = open_orders[a][k]
    <2>1. /\ open_orders[b][j].market = "this"
          /\ open_orders' = [open_orders EXCEPT ![b][j] = FreeSlot]
      BY <1>5 DEF CancelOrderBySlot
    <2>2. QED  BY <1>3, <2>1
  <1>6. CASE CancelNext
    <2>1. tx.account \in Accounts /\ tx.slot \in Slots
      BY <1>6, Zenon DEF CancelNext, IInv, TypeOK, Transactions, TxInv, LoopInv
    <2>2. \/ CancelOrderBySlot(tx.account, tx.slot)
          \/ open_orders' = open_orders
      BY <1>6, Zenon DEF CancelNext
    <2>3. QED  BY <1>2, <1>5, <2>1, <2>2
  <1>7. CASE PerpConsumeEvents
    <2> DEFINE e == Head(queue)
               oo == open_orders[e.owner][e.owner_slot]
    <2>1. /\ queue # <<>>
          /\ open_orders' = [open_orders EXCEPT
               ![e.owner][e.owner_slot] = SlotAfter(e, oo)]
      BY <1>7 DEF PerpConsumeEvents
    <2>2. e \in Events
      BY <2>1, HeadTailProperties, SMTT(20) DEF IInv, TypeOK
    <2> HIDE DEF e
    <2>3. e.owner \in Accounts /\ e.owner_slot \in Slots
      BY <2>2 DEF Events, FillEvents, OutEvents
    <2>4. CASE oo.market = "other"
      <3>1. SlotAfter(e, oo) = oo
        BY <2>4 DEF SlotAfter, EventIsFor
      <3>2. QED  BY <1>1, <2>1, <2>3, <3>1
    <2>5. CASE oo.market # "other"
      BY <1>3, <2>1, <2>3, <2>5
    <2>6. QED  BY <2>4, <2>5
  <1>8. CASE \E b \in Accounts, j \in Slots : PerpCancelOrder(b, j)
    BY <1>5, <1>8 DEF PerpCancelOrder
  <1>9. CASE NewOrderStep
    <2>1. CompleteAndPost \/ open_orders' = open_orders
      BY <1>9, Zenon DEF NewOrderStep, SlidePrice, MatchEnds, DropInvalid, CancelProvide,
                         Fill, CompleteOrder, OrderFails
    <2>2. QED  BY <1>2, <1>4, <2>1
  <1>10. \A b \in Accounts, order \in OrderInputs :
           PerpPlaceOrder(b, order) => open_orders' = open_orders
    BY DEF PerpPlaceOrder
  <1>11. /\ \A b \in Accounts, limit \in CancelLimits, sides \in {Sides, {"Bid"}, {"Ask"}} :
              PerpCancelAllOrders(b, limit, sides) => open_orders' = open_orders
         /\ \A b \in Accounts : PerpDeactivatePosition(b) => open_orders' = open_orders
         /\ \A b, c \in Accounts :
              PerpForceClosePosition(b, c) => open_orders' = open_orders
         /\ \A reduce_only, force_close \in BOOLEAN :
              PerpEditMarket(reduce_only, force_close) => open_orders' = open_orders
         /\ Tick => open_orders' = open_orders
         /\ \A price \in OraclePrices : OracleMoves(price) => open_orders' = open_orders
    BY Zenon DEF PerpCancelAllOrders, PerpDeactivatePosition, PerpForceClosePosition,
           PerpEditMarket, Tick, OracleMoves
  <1>12. /\ \A b \in Accounts, id \in 1 .. MaxSeqNum :
              OtherMarketOrder(b, id) => queue' = queue /\ book' = book
         /\ \A b \in Accounts, j \in Slots :
              OtherMarketOut(b, j) => queue' = queue /\ book' = book
    BY Zenon DEF OtherMarketOrder, OtherMarketOut
  <1>13. QED
    BY <1>2, <1>6, <1>7, <1>8, <1>9, <1>10, <1>11, <1>12, Zenon DEF Next

\* Neither this market's orders, nor its cancels, nor its delayed events touch a
\* slot that the account uses in another market.
THEOREM OtherMarketsKeepTheirSlotsTheorem == Spec => OtherMarketsKeepTheirSlots
  <1>1. IInv /\ [Next]_vars =>
          [ queue' # queue \/ book' # book =>
              \A a \in Accounts, k \in Slots :
                  open_orders[a][k].market = "other" =>
                      open_orders'[a][k] = open_orders[a][k] ]_vars
    BY OtherSlotsStay
  <1>2. QED  BY <1>1, Invariance, PTL DEF Spec, OtherMarketsKeepTheirSlots

\* A step that settles no event leaves a base position alone or, force closing
\* it, moves it towards zero.
LEMMA BaseMovesToZero ==
    ASSUME IInv, Next, queue' = queue, NEW a \in Accounts
    PROVE  \/ position'[a].base = position[a].base
           \/ 0 <= position'[a].base /\ position'[a].base < position[a].base
           \/ 0 >= position'[a].base /\ position'[a].base > position[a].base
  <1>1. position \in [Accounts -> PerpPositions] /\ queue \in Seq(Events)
    BY DEF IInv, TypeOK
  <1>2. CASE position' = position
    BY <1>2
  <1>3. ASSUME NEW b \in Accounts, NEW pp, pp.base = position[b].base,
               position' = [position EXCEPT ![b] = pp]
        PROVE  position'[a].base = position[a].base
    BY <1>1, <1>3
  <1>4. ASSUME NEW pp \in PerpPositions, NEW side, NEW n
        PROVE  AdjustMakerLots(pp, side, n).base = pp.base
    BY DEF AdjustMakerLots, PerpPositions
  <1>5. ASSUME NEW pp \in PerpPositions
        PROVE  TakerPosition(pp).base = pp.base
    BY DEF TakerPosition, PerpPositions
  <1>6. ASSUME NEW b \in Accounts, NEW j \in Slots, CancelOrderBySlot(b, j)
        PROVE  position'[a].base = position[a].base
    <2> DEFINE oo == open_orders[b][j]
               pp == AdjustMakerLots(position[b], oo.side, -OnBookQuantity(oo))
    <2>1. position' = [position EXCEPT ![b] = pp]
      BY <1>6 DEF CancelOrderBySlot
    <2>2. pp.base = position[b].base
      BY <1>1, <1>4
    <2> HIDE DEF pp
    <2>3. QED  BY <1>3, <2>1, <2>2
  <1>7. CASE CancelNext
    <2>1. tx.account \in Accounts /\ tx.slot \in Slots
      BY <1>7, Zenon DEF CancelNext, IInv, TypeOK, Transactions, TxInv, LoopInv
    <2>2. CancelOrderBySlot(tx.account, tx.slot) \/ position' = position
      BY <1>7, Zenon DEF CancelNext
    <2>3. QED  BY <1>2, <1>6, <2>1, <2>2, Zenon
  <1>8. CASE CompleteOrder \/ CompleteAndPost
    <2> DEFINE taker == TakerPosition(position[tx.account])
               posted == AdjustMakerLots(taker, tx.order.side, BookBaseQuantity)
    <2>1. tx.account \in Accounts
      BY <1>8, Zenon DEF CompleteOrder, CompleteAndPost, IInv, TxInv, LoopInv
    <2>2. taker \in PerpPositions /\ taker.base = position[tx.account].base
      BY <1>1, <1>5, <2>1, TakerPositionType DEF IInv
    <2>3. posted.base = position[tx.account].base
      BY <1>4, <2>2
    <2>4. \/ position' = [position EXCEPT ![tx.account] = taker]
          \/ position' = [position EXCEPT ![tx.account] = posted]
      BY <1>8, Zenon DEF CompleteOrder, CompleteAndPost
    <2> HIDE DEF taker, posted
    <2>5. QED  BY <1>3, <2>1, <2>2, <2>3, <2>4
  <1>9. CASE NewOrderStep
    <2>1. CompleteOrder \/ CompleteAndPost \/ position' = position
      BY <1>9, Zenon DEF NewOrderStep, SlidePrice, MatchEnds, DropInvalid, CancelProvide,
                         Fill, OrderFails
    <2>2. QED  BY <1>2, <1>8, <2>1
  <1>10. ~PerpConsumeEvents
    <2>1. ASSUME PerpConsumeEvents PROVE FALSE
      <3>1. queue # <<>> /\ queue' = Tail(queue)
        BY <2>1, Zenon DEF PerpConsumeEvents
      <3>2. Len(Tail(queue)) = Len(queue) - 1
        BY <1>1, <3>1, HeadTailProperties
      <3>3. Len(queue) \in Nat /\ Len(queue) # Len(queue) - 1
        BY <1>1
      <3>4. QED  BY <3>1, <3>2, <3>3
    <2>2. QED  BY <2>1
  <1>11. ASSUME NEW b \in Accounts, PerpDeactivatePosition(b)
         PROVE  position'[a].base = position[a].base
    <2>1. position[b].base = 0 /\ position' = [position EXCEPT ![b] = NoPosition]
      BY <1>11 DEF PerpDeactivatePosition
    <2>2. NoPosition.base = 0
      BY DEF NoPosition
    <2>3. QED  BY <1>3, <2>1, <2>2
  <1>12. ASSUME NEW b \in Accounts, NEW c \in Accounts, PerpForceClosePosition(b, c)
         PROVE  \/ position'[a].base = position[a].base
                \/ 0 <= position'[a].base /\ position'[a].base < position[a].base
                \/ 0 >= position'[a].base /\ position'[a].base > position[a].base
    <2>1. /\ 0 <= position'[b].base /\ position'[b].base < position[b].base
          /\ 0 >= position'[c].base /\ position'[c].base > position[c].base
          /\ \A d \in Accounts \ {b, c} : position'[d] = position[d]
      BY <1>12, ForceCloseFields
    <2>2. CASE a = b
      BY <2>1, <2>2
    <2>3. CASE a = c
      BY <2>1, <2>3
    <2>4. CASE a # b /\ a # c
      BY <2>1, <2>4
    <2>5. QED  BY <2>2, <2>3, <2>4
  <1>13. /\ \A b \in Accounts, order \in OrderInputs :
              PerpPlaceOrder(b, order) => position' = position
         /\ \A b \in Accounts, limit \in CancelLimits, sides \in {Sides, {"Bid"}, {"Ask"}} :
              PerpCancelAllOrders(b, limit, sides) => position' = position
         /\ \A reduce_only, force_close \in BOOLEAN :
              PerpEditMarket(reduce_only, force_close) => position' = position
         /\ \A b \in Accounts, id \in 1 .. MaxSeqNum :
              OtherMarketOrder(b, id) => position' = position
         /\ \A b \in Accounts, j \in Slots : OtherMarketOut(b, j) => position' = position
         /\ Tick => position' = position
         /\ \A price \in OraclePrices : OracleMoves(price) => position' = position
    BY Zenon DEF PerpPlaceOrder, PerpCancelAllOrders, PerpEditMarket, OtherMarketOrder,
           OtherMarketOut, Tick, OracleMoves
  <1>14. ASSUME NEW b \in Accounts, NEW j \in Slots, PerpCancelOrder(b, j)
         PROVE  position'[a].base = position[a].base
    BY <1>6, <1>14 DEF PerpCancelOrder
  <1>15. QED
    BY <1>2, <1>7, <1>9, <1>10, <1>11, <1>12, <1>13, <1>14, Zenon DEF Next

\* Base positions change only when an event settles a trade, or towards zero
\* when perp_force_close_position closes a long against a short.
THEOREM ForceClosingReducesTheorem == Spec => ForceClosingReduces
  <1>1. IInv /\ [Next]_vars =>
          [ queue' = queue =>
              \A a \in Accounts :
                  \/ position'[a].base = position[a].base
                  \/ 0 <= position'[a].base /\ position'[a].base < position[a].base
                  \/ 0 >= position'[a].base /\ position'[a].base > position[a].base ]_vars
    BY BaseMovesToZero
  <1>2. QED  BY <1>1, Invariance, PTL DEF Spec, ForceClosingReduces
=============================================================================
