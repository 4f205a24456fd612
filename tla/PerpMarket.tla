----------------------------- MODULE PerpMarket -----------------------------
(***************************************************************************)
(* One perp market: its order book (two trees per side), its event queue,  *)
(* and for every mango account the perp position and the open order slots  *)
(* that the market's instructions keep consistent with each other.         *)
(*                                                                         *)
(* Matching and settlement are two different transactions.                 *)
(* perp_place_order changes the book and the taker, and leaves what it did *)
(* to the makers as Fill and Out events; perp_consume_events applies the   *)
(* events later, one account at a time.  Between the two, owners cancel,   *)
(* slots are reused, orders expire and positions are closed.               *)
(*                                                                         *)
(* An instruction is atomic: its accounts are locked while it runs and a   *)
(* failing one leaves no trace.  The loops of new_order and of             *)
(* cancel_all_orders are nevertheless modelled one iteration per step, in  *)
(* the variable tx, with every other instruction disabled while tx runs.   *)
(***************************************************************************)
EXTENDS Integers, Sequences, FiniteSets

CONSTANTS
    Accounts,        \* mango accounts
    NoAccount,       \* stands for the account of no running instruction
    PerpOoCount,     \* open order slots of an account (header.perp_oo_count)
    MaxEvents,       \* MAX_NUM_EVENTS of the event queue
    MaxLeaves,       \* orders one side of the book has room for
    DropLimit,       \* DROP_EXPIRED_ORDER_LIMIT
    MakerFee,        \* fee per quote lot; a maker rebate is negative
    TakerFee,
    FeePenalty,      \* flat fee of an immediate-or-cancel order
    MaintLiab10,     \* maint_base_liab_weight, in tenths
    MaintAsset10,    \* maint_base_asset_weight, in tenths
    EnabledIx,       \* the instructions the group's ix_gate lets through
    OrderInputs,     \* the orders users submit
    CancelLimits,    \* the limits passed to cancel-all instructions
    OraclePrices,    \* the oracle prices, in lots
    MaxSeqNum,       \* bound: orders placed in a behaviour
    MaxTs            \* bound: seconds that pass in a behaviour

Sides == {"Bid", "Ask"}
Trees == {"Fixed", "OraclePegged"}
Slots == 0 .. PerpOoCount - 1
PegNone == -1        \* peg_limit of an order without one

Orders ==
    [ side : Sides,
      kind : {"Fixed", "OraclePegged", "ImmediateOrCancel", "Market"},
      order_type : {"Limit", "PostOnly", "PostOnlySlide"},
      price : Int,               \* limit in lots, or offset from the oracle
      max_base_lots : Nat,
      max_quote_lots : Nat,
      reduce_only : BOOLEAN,
      time_in_force : Nat,       \* 0: never expires
      self_trade : {"DecrementTake", "CancelProvide", "AbortTransaction"},
      peg_limit : Int,
      limit : Nat ]

ASSUME NoAccountAssumption == NoAccount \notin Accounts
ASSUME PerpOoCountAssumption == PerpOoCount \in Nat \ {0}
ASSUME CapacityAssumption == MaxEvents \in Nat /\ MaxLeaves \in Nat \ {0}
ASSUME FeeAssumption == /\ MakerFee \in Int /\ TakerFee \in Nat
                        /\ FeePenalty \in Nat
ASSUME WeightAssumption == MaintLiab10 \in Nat /\ MaintAsset10 \in Nat
ASSUME OrderInputsAssumption == OrderInputs \subseteq Orders
ASSUME LimitsAssumption == /\ DropLimit \in Nat
                           /\ CancelLimits \subseteq Nat \ {0}
ASSUME OracleAssumption == OraclePrices \subseteq Nat /\ OraclePrices # {}
ASSUME BoundsAssumption == MaxSeqNum \in Nat /\ MaxTs \in Nat

VARIABLES
    book,            \* the leaves of both booksides, a set of orders
    queue,           \* the event queue, oldest event first
    position,        \* per account, its PerpPosition in this market
    open_orders,     \* per account and slot, a PerpOpenOrder
    market,          \* the fields of PerpMarket the instructions change
    now_ts,          \* the clock
    oracle,          \* oracle price in lots
    tx               \* the instruction in the middle of a loop, if any

vars == <<book, queue, position, open_orders, market, now_ts, oracle, tx>>

-----------------------------------------------------------------------------
(* The records. *)

Leaves ==
    [ id : Nat \ {0},            \* the key's sequence number, unique
      side : Sides, tree : Trees,
      price : Int,               \* lots, or the offset of a pegged order
      owner : Accounts, owner_slot : Slots,
      quantity : Nat \ {0},
      expiry : Nat,              \* 0: never
      peg_limit : Int ]

\* Of a fill, owner, owner_slot and order_id are the maker's.  Events from
\* before order ids were recorded carry the id 0.
FillEvents ==
    [ event_type : {"Fill"}, taker_side : Sides, maker_out : BOOLEAN,
      owner_slot : Slots, owner : Accounts, order_id : Nat,
      maker_fee : Int, taker : Accounts, price : Nat \ {0},
      quantity : Nat \ {0} ]

OutEvents ==
    [ event_type : {"Out"}, side : Sides, owner_slot : Slots,
      owner : Accounts, order_id : Nat, quantity : Nat \ {0} ]

Events == FillEvents \cup OutEvents

\* A slot belongs to this market, to another one, or to nobody.
PerpOpenOrders ==
    [ market : {"free", "this", "other"}, id : Nat,
      side : Sides, tree : Trees, quantity : Nat ]

FreeSlot ==
    [ market |-> "free", id |-> 0, side |-> "Bid", tree |-> "Fixed",
      quantity |-> 0 ]

PerpPositions ==
    [ active : BOOLEAN, base : Int, quote : Int, bids_base_lots : Int,
      asks_base_lots : Int, taker_base_lots : Int, taker_quote_lots : Int ]

\* A deactivated position is re-created from its default value.
NoPosition ==
    [ active |-> FALSE, base |-> 0, quote |-> 0, bids_base_lots |-> 0,
      asks_base_lots |-> 0, taker_base_lots |-> 0, taker_quote_lots |-> 0 ]

NoOrder ==
    [ side |-> "Bid", kind |-> "Market", order_type |-> "Limit", price |-> 0,
      max_base_lots |-> 0, max_quote_lots |-> 0, reduce_only |-> FALSE,
      time_in_force |-> 0, self_trade |-> "DecrementTake",
      peg_limit |-> PegNone, limit |-> 0 ]

\* The local variables of the running loop; unused ones have a fixed value.
Idle ==
    [ phase |-> "idle", account |-> NoAccount, order |-> NoOrder, price |-> 0,
      fixed |-> {}, pegged |-> {}, base |-> 0, quote |-> 0, decremented |-> 0,
      dropped |-> 0, limit |-> 0, post |-> FALSE, deletes |-> {},
      changes |-> {}, events |-> <<>>, slot |-> 0, sides |-> {} ]

-----------------------------------------------------------------------------
(* Sides and prices. *)

Invert(side) == IF side = "Bid" THEN "Ask" ELSE "Bid"

IsPriceBetter(side, lhs, rhs) == IF side = "Bid" THEN lhs > rhs ELSE lhs < rhs

IsPriceWithinLimit(side, price, limit) ==
    IF side = "Bid" THEN price <= limit ELSE price >= limit

Abs(n) == IF n < 0 THEN -n ELSE n
Least(m, n) == IF m < n THEN m ELSE n
Greatest(m, n) == IF m < n THEN n ELSE m

InsidePriceLimit(side, price) ==
    IF side = "Bid" THEN 10 * price <= MaintLiab10 * oracle
                    ELSE 10 * price >= MaintAsset10 * oracle

IsExpired(leaf) == leaf.expiry > 0 /\ now_ts >= leaf.expiry

\* A pegged order whose price leaves the representable range is passed over.
IsSkipped(leaf) == leaf.tree = "OraclePegged" /\ oracle + leaf.price < 1

PriceOf(leaf) ==
    IF leaf.tree = "Fixed" THEN leaf.price ELSE Greatest(1, oracle + leaf.price)

IsValid(leaf) ==
    /\ ~IsExpired(leaf)
    /\ ~IsSkipped(leaf)
    /\ leaf.tree = "OraclePegged" /\ leaf.peg_limit # PegNone
         => ~IsPriceBetter(leaf.side, PriceOf(leaf), leaf.peg_limit)

-----------------------------------------------------------------------------
(* Iterating one side of the book.  The two tree iterators of a            *)
(* BookSideIter are the sets of leaves they have yet to return; a peek is  *)
(* the singleton of the next leaf, or empty.                               *)

\* Key order: price first, then age.
RanksBefore(side, p, l, q, m) ==
    IsPriceBetter(side, p, q) \/ (p = q /\ l.id < m.id)

Peek(side, leaves) ==
    {l \in leaves : \A m \in leaves \ {l} : RanksBefore(side, l.price, l, m.price, m)}

\* The first pegged leaf that is representable at the current oracle price.
PeggedPeek(side, pegged) == Peek(side, {l \in pegged : ~IsSkipped(l)})

\* Where that leaves the tree iterator: next() returns the leaf it stands on
\* and moves past it, so a skip loop that ran at all has passed its result.
PeggedRest(side, pegged) ==
    LET peek == PeggedPeek(side, pegged)
        before(l, m) == RanksBefore(side, l.price, l, m.price, m)
    IN  IF \E l \in pegged : IsSkipped(l) /\ \A m \in peek : before(l, m)
        THEN {l \in pegged : \E m \in peek : before(m, l)}
        ELSE pegged

\* Mutant: fixed orders come first.
IterItemFixedFirst(side, fixed, pegged) ==
    IF fixed # {} THEN Peek(side, fixed) ELSE PeggedPeek(side, pegged)

\* Mutant: a pegged order's offset is compared as if it were its price.
IterItemByKey(side, fixed, pegged) ==
    Peek(side, Peek(side, fixed) \cup PeggedPeek(side, pegged))

\* The leaf BookSideIter::next returns, as a set of at most one.
IterItem(side, fixed, pegged) ==
    LET peeks == Peek(side, fixed) \cup PeggedPeek(side, pegged)
    IN  {l \in peeks : \A m \in peeks \ {l} :
                           RanksBefore(side, PriceOf(l), l, PriceOf(m), m)}

\* The two tree iterators after next() has returned leaf.
FixedAfter(side, fixed, leaf) ==
    IF leaf.tree = "Fixed" THEN fixed \ Peek(side, fixed) ELSE fixed

PeggedAfter(side, pegged, leaf) ==
    LET rest == PeggedRest(side, pegged)
    IN  IF leaf.tree = "OraclePegged" THEN rest \ Peek(side, rest) ELSE rest

OnSide(leaves, side) == {l \in leaves : l.side = side}
InTree(leaves, tree) == {l \in leaves : l.tree = tree}

-----------------------------------------------------------------------------
(* Placing an order. *)

EffectiveBase(pp) == pp.base + pp.taker_base_lots

\* Mutant: resting orders do not count.
ReduceOnlyIgnoresResting(pp, order) ==
    LET effective == EffectiveBase(pp)
    IN  IF order.side = "Bid" THEN Least(Abs(Least(effective, 0)), order.max_base_lots)
                              ELSE Least(Greatest(effective, 0), order.max_base_lots)

\* How much a reduce-only order, or any order in a reduce-only market, may do.
ReduceOnlyMaxBaseLots(pp, order) ==
    LET effective == EffectiveBase(pp)
        allowed ==
            IF \/ order.side = "Bid" /\ effective >= 0
               \/ order.side = "Ask" /\ effective <= 0
            THEN 0
            ELSE IF ~market.reduce_only THEN Abs(effective)
            ELSE IF order.side = "Bid"
                 THEN Abs(Least(effective + pp.bids_base_lots, 0))
                 ELSE Greatest(effective - pp.asks_base_lots, 0)
    IN  Least(allowed, order.max_base_lots)

MaxBaseLots(pp, order) ==
    IF order.reduce_only \/ market.reduce_only
    THEN ReduceOnlyMaxBaseLots(pp, order)
    ELSE order.max_base_lots

\* Above every price: the limit of a market bid (i64::MAX).
MaxPrice == 1000

\* The price before PostOnlySlide adjusts it.
LimitPrice(order) ==
    CASE order.kind = "Market" -> IF order.side = "Bid" THEN MaxPrice ELSE 1
      [] order.kind = "OraclePegged" -> oracle + order.price
      [] OTHER -> order.price

IsPostable(order) == order.kind \in {"Fixed", "OraclePegged"}
IsSlide(order) == IsPostable(order) /\ order.order_type = "PostOnlySlide"
IsPostOnly(order) ==
    IsPostable(order) /\ order.order_type \in {"PostOnly", "PostOnlySlide"}

\* perp_place_order up to the matching loop.  Nothing is written yet: what an
\* order changes is applied when it completes, so that failing costs nothing.
PerpPlaceOrder(a, order) ==
    LET max_base_lots == MaxBaseLots(position[a], order)
        opposing == OnSide(book, Invert(order.side))
    IN  /\ tx.phase = "idle"
        /\ "PerpPlaceOrder" \in EnabledIx
        /\ market.seq_num < MaxSeqNum
        /\ market.reduce_only =>
               order.reduce_only \/ max_base_lots = order.max_base_lots
        /\ IsSlide(order) \/ LimitPrice(order) >= 1
        /\ tx' = [ Idle EXCEPT
                     !.phase = IF IsSlide(order) THEN "price" ELSE "match",
                     !.account = a,
                     !.order = [order EXCEPT !.max_base_lots = max_base_lots],
                     !.price = LimitPrice(order),
                     !.fixed = InTree(opposing, "Fixed"),
                     !.pegged = InTree(opposing, "OraclePegged"),
                     !.base = max_base_lots,
                     !.quote = order.max_quote_lots,
                     !.limit = order.limit,
                     !.post = IsPostable(order) ]
        /\ UNCHANGED <<book, queue, position, open_orders, market, now_ts, oracle>>

\* best_price of the other side: the first valid order in iteration order.
Opposite == Invert(tx.order.side)
BestOpposing == IterItem(Opposite, tx.fixed, tx.pegged)

Advance(leaf) ==
    [tx EXCEPT !.fixed = FixedAfter(Opposite, @, leaf),
               !.pegged = PeggedAfter(Opposite, @, leaf)]

PostOnlySlideLimit(side, best_other_side, limit) ==
    IF side = "Bid" THEN Least(limit, best_other_side - 1)
                    ELSE Greatest(limit, best_other_side + 1)

StartMatching(price) ==
    LET opposing == OnSide(book, Opposite)
    IN  /\ price >= 1
        /\ tx' = [tx EXCEPT !.phase = "match", !.price = price,
                            !.fixed = InTree(opposing, "Fixed"),
                            !.pegged = InTree(opposing, "OraclePegged")]

SlidePrice ==
    /\ tx.phase = "price"
    /\ \/ BestOpposing = {} /\ StartMatching(tx.price)
       \/ \E leaf \in BestOpposing :
            IF IsValid(leaf)
            THEN StartMatching(
                   PostOnlySlideLimit(tx.order.side, PriceOf(leaf), tx.price))
            ELSE tx' = Advance(leaf)
    /\ UNCHANGED <<book, queue, position, open_orders, market, now_ts, oracle>>

-----------------------------------------------------------------------------
(* The matching loop of new_order, one opposing order per step.            *)

OutEvent(leaf) ==
    [ event_type |-> "Out", side |-> leaf.side, owner_slot |-> leaf.owner_slot,
      owner |-> leaf.owner, order_id |-> leaf.id, quantity |-> leaf.quantity ]

MakerFeeFor(leaf) == IF leaf.owner = tx.account THEN 0 ELSE MakerFee

FillEvent(leaf, quantity) ==
    [ event_type |-> "Fill", taker_side |-> tx.order.side,
      maker_out |-> quantity = leaf.quantity,
      owner_slot |-> leaf.owner_slot, owner |-> leaf.owner,
      order_id |-> leaf.id,
      maker_fee |-> MakerFeeFor(leaf),
      taker |-> tx.account, price |-> PriceOf(leaf), quantity |-> quantity ]

\* push_back fails on a full queue, and new_order unwraps its result.
HasRoom(n) == Len(queue) + Len(tx.events) + n <= MaxEvents

Unfinished == tx.base > 0 /\ tx.quote > 0

WithinLimit(leaf) == IsPriceWithinLimit(tx.order.side, PriceOf(leaf), tx.price)

MaxMatchByQuote(leaf) == tx.quote \div PriceOf(leaf)

Matchable(leaf) ==
    /\ IsValid(leaf)
    /\ WithinLimit(leaf)
    /\ ~IsPostOnly(tx.order)
    /\ tx.limit > 0
    /\ MaxMatchByQuote(leaf) > 0

WouldSelfTrade(leaf) == leaf.owner = tx.account

EndMatching(post) ==
    tx' = [tx EXCEPT !.phase = "post", !.post = @ /\ post,
                     !.fixed = {}, !.pegged = {}]

\* The loop is over: nothing left to match, or the best order is not for us.
MatchEnds ==
    /\ tx.phase = "match"
    /\ \/ ~(Unfinished /\ BestOpposing # {}) /\ EndMatching(TRUE)
       \/ /\ Unfinished
          /\ \E leaf \in BestOpposing :
               /\ IsValid(leaf)
               /\ \/ ~WithinLimit(leaf) /\ EndMatching(TRUE)
                  \/ /\ WithinLimit(leaf)
                     /\ IsPostOnly(tx.order) \/ tx.limit = 0
                     /\ EndMatching(FALSE)
                  \/ /\ WithinLimit(leaf)
                     /\ ~IsPostOnly(tx.order) /\ tx.limit > 0
                     /\ MaxMatchByQuote(leaf) = 0
                     /\ EndMatching(TRUE)
    /\ UNCHANGED <<book, queue, position, open_orders, market, now_ts, oracle>>

\* Mutant: the order's owner gets no event.
TakeOffSilently(leaf) == [Advance(leaf) EXCEPT !.deletes = @ \cup {leaf}]

TakeOff(leaf) ==
    [Advance(leaf) EXCEPT !.events = Append(@, OutEvent(leaf)),
                          !.deletes = @ \cup {leaf}]

\* An expired or peg-limited order is dropped, or after DropLimit passed over.
DropInvalid(leaf) ==
    /\ tx.phase = "match" /\ Unfinished
    /\ leaf \in BestOpposing
    /\ ~IsValid(leaf)
    /\ IF tx.dropped < DropLimit
       THEN /\ HasRoom(1)
            /\ tx' = [TakeOff(leaf) EXCEPT !.dropped = @ + 1]
       ELSE tx' = Advance(leaf)
    /\ UNCHANGED <<book, queue, position, open_orders, market, now_ts, oracle>>

\* SelfTradeBehavior::CancelProvide takes the own order off the book.
CancelProvide(leaf) ==
    /\ tx.phase = "match" /\ Unfinished
    /\ leaf \in BestOpposing
    /\ Matchable(leaf)
    /\ WouldSelfTrade(leaf) /\ tx.order.self_trade = "CancelProvide"
    /\ HasRoom(1)
    /\ tx' = TakeOff(leaf)
    /\ UNCHANGED <<book, queue, position, open_orders, market, now_ts, oracle>>

MatchBaseLots(leaf) ==
    Least(Least(tx.base, leaf.quantity), MaxMatchByQuote(leaf))

Fill(leaf) ==
    LET quantity == MatchBaseLots(leaf)
        quote == quantity * PriceOf(leaf)
        out == quantity = leaf.quantity
    IN  /\ tx.phase = "match" /\ Unfinished
        /\ leaf \in BestOpposing
        /\ Matchable(leaf)
        /\ WouldSelfTrade(leaf) => tx.order.self_trade = "DecrementTake"
        /\ HasRoom(1)
        /\ tx' = [Advance(leaf) EXCEPT
                    !.base = @ - quantity,
                    !.quote = @ - quote,
                    !.decremented = IF WouldSelfTrade(leaf) THEN @ + quote ELSE @,
                    !.limit = @ - 1,
                    !.deletes = IF out THEN @ \cup {leaf} ELSE @,
                    !.changes = IF out THEN @
                                ELSE @ \cup {[leaf |-> leaf,
                                              quantity |-> leaf.quantity - quantity]},
                    !.events = Append(@, FillEvent(leaf, quantity))]
        /\ UNCHANGED <<book, queue, position, open_orders, market, now_ts, oracle>>

-----------------------------------------------------------------------------
(* Completing new_order: the taker's trade and fees, the matched orders,   *)
(* and posting what is left.                                               *)

\* Mutant: filled and dropped orders stay on the book.
BookAfterMatchingNoDeletes ==
    (book \ {c.leaf : c \in tx.changes})
        \cup {[c.leaf EXCEPT !.quantity = c.quantity] : c \in tx.changes}

\* Changed and deleted orders are only now written to the opposing side.
BookAfterMatching ==
    (book \ (tx.deletes \cup {c.leaf : c \in tx.changes}))
        \cup {[c.leaf EXCEPT !.quantity = c.quantity] : c \in tx.changes}

BookBaseQuantity == Least(tx.base, tx.quote \div tx.price)

WillPost ==
    /\ tx.post
    /\ BookBaseQuantity > 0
    /\ InsidePriceLimit(tx.order.side, tx.price)

\* remove_one_expired looks for an expiry strictly in the past, first in the
\* tree of the new order; among equal expiries the tree's shape decides.
EarliestExpired(leaves) ==
    {l \in leaves : /\ l.expiry > 0 /\ l.expiry < now_ts
                    /\ \A m \in leaves : m.expiry > 0 => l.expiry <= m.expiry}

ExpiredToDrop(leaves, tree) ==
    IF EarliestExpired(InTree(leaves, tree)) # {}
    THEN EarliestExpired(InTree(leaves, tree))
    ELSE EarliestExpired(leaves \ InTree(leaves, tree))

IsFull(leaves) == Cardinality(leaves) >= MaxLeaves

Last(side, leaves) ==
    {l \in leaves : \A m \in leaves \ {l} : RanksBefore(side, m.price, m, l.price, l)}

WorstOf(side, leaves) ==
    LET last == Last(side, InTree(leaves, "Fixed"))
                  \cup Last(side, InTree(leaves, "OraclePegged"))
    IN  {l \in last : \A m \in last \ {l} :
                          RanksBefore(side, PriceOf(m), m, PriceOf(l), l)}

\* perp_next_order_slot: the first free slot, as a set of at most one.
NextOrderSlot(a) ==
    {k \in Slots : /\ open_orders[a][k].market = "free"
                   /\ \A j \in Slots : j < k => open_orders[a][j].market # "free"}

OutEvents1(leaves) ==
    IF leaves = {} THEN <<>> ELSE <<OutEvent(CHOOSE l \in leaves : TRUE)>>

TakenBase == tx.order.max_base_lots - tx.base
TakenQuote == tx.order.max_quote_lots - tx.quote
FeeQuote == TakenQuote - tx.decremented
Penalty == IF tx.order.kind = "ImmediateOrCancel" THEN FeePenalty ELSE 0

Signed(side, n) == IF side = "Bid" THEN n ELSE -n

AdjustMakerLots(pp, side, n) ==
    IF side = "Bid" THEN [pp EXCEPT !.bids_base_lots = @ + n]
                    ELSE [pp EXCEPT !.asks_base_lots = @ + n]

\* ensure_perp_position, apply_penalty, add_taker_trade and apply_fees.
TakerPosition(pp) ==
    [pp EXCEPT !.active = TRUE,
               !.taker_base_lots = @ + Signed(tx.order.side, TakenBase),
               !.taker_quote_lots = @ - Signed(tx.order.side, TakenQuote),
               !.quote = @ - Penalty - FeeQuote * TakerFee]

\* The maker fees accrue to the market here and are charged when consumed.
MarketAfterOrder ==
    [market EXCEPT !.seq_num = @ + 1,
                   !.fees_accrued = @ + Penalty + FeeQuote * (TakerFee + MakerFee)]

NewLeaf(slot) ==
    [ id |-> market.seq_num + 1, side |-> tx.order.side, tree |-> tx.order.kind,
      price |-> IF tx.order.kind = "Fixed" THEN tx.price ELSE tx.price - oracle,
      owner |-> tx.account, owner_slot |-> slot, quantity |-> BookBaseQuantity,
      expiry |-> IF tx.order.time_in_force = 0 THEN 0
                 ELSE now_ts + tx.order.time_in_force,
      peg_limit |-> IF tx.order.kind = "Fixed" THEN PegNone
                    ELSE tx.order.peg_limit ]

OpenOrderOf(leaf) ==
    [ market |-> "this", id |-> leaf.id, side |-> leaf.side, tree |-> leaf.tree,
      quantity |-> leaf.quantity ]

\* The order matched what it could and has nothing to post.
CompleteOrder ==
    /\ tx.phase = "post" /\ ~WillPost
    /\ book' = BookAfterMatching
    /\ queue' = queue \o tx.events
    /\ position' = [position EXCEPT ![tx.account] = TakerPosition(@)]
    /\ market' = MarketAfterOrder
    /\ tx' = Idle
    /\ UNCHANGED <<open_orders, now_ts, oracle>>

\* The remainder goes on the book, dropping one expired order if there is
\* one, and the worst order if the side is still full and this one is better.
CompleteAndPost ==
    LET a == tx.account
        side == tx.order.side
        own == OnSide(BookAfterMatching, side)
        droppable == ExpiredToDrop(own, tx.order.kind)
    IN  /\ tx.phase = "post" /\ WillPost
        /\ \E expired \in IF droppable = {} THEN {{}} ELSE {{l} : l \in droppable},
              slot \in NextOrderSlot(a) :
             LET kept == own \ expired
                 worst == IF IsFull(kept) THEN WorstOf(side, kept) ELSE {}
                 outs == OutEvents1(expired) \o OutEvents1(worst)
             IN  /\ HasRoom(Len(outs))
                 /\ \A l \in worst : IsPriceBetter(side, tx.price, PriceOf(l))
                 /\ book' = (BookAfterMatching \ (expired \cup worst))
                              \cup {NewLeaf(slot)}
                 /\ queue' = queue \o tx.events \o outs
                 /\ position' = [position EXCEPT
                      ![a] = AdjustMakerLots(TakerPosition(@), side, BookBaseQuantity)]
                 /\ open_orders' = [open_orders EXCEPT
                      ![a][slot] = OpenOrderOf(NewLeaf(slot))]
        /\ market' = MarketAfterOrder
        /\ tx' = Idle
        /\ UNCHANGED <<now_ts, oracle>>

\* The instruction fails and leaves no trace: a slid price below one lot, no
\* room for an event, a self trade that must abort, or at its end a full book
\* or account, or the health check.
OrderFails ==
    /\ \/ /\ tx.phase = "price"
          /\ \/ BestOpposing = {} /\ tx.price < 1
             \/ \E leaf \in BestOpposing :
                  /\ IsValid(leaf)
                  /\ PostOnlySlideLimit(tx.order.side, PriceOf(leaf), tx.price) < 1
       \/ /\ tx.phase = "match" /\ Unfinished
          /\ \E leaf \in BestOpposing :
               \/ ~IsValid(leaf) /\ tx.dropped < DropLimit /\ ~HasRoom(1)
               \/ Matchable(leaf) /\ ~HasRoom(1)
               \/ /\ Matchable(leaf) /\ WouldSelfTrade(leaf)
                  /\ tx.order.self_trade = "AbortTransaction"
       \/ tx.phase = "post"
    /\ tx' = Idle
    /\ UNCHANGED <<book, queue, position, open_orders, market, now_ts, oracle>>

-----------------------------------------------------------------------------
(* Cancelling. *)

\* cancel_order_by_slot.  An order that is no longer on the book frees only
\* its slot: the lots wait for the event that took it off.
LeafOf(oo) ==
    {l \in book : l.side = oo.side /\ l.tree = oo.tree /\ l.id = oo.id}

\* Mutant: any order that is off the book gives up its slot.
NeverNotCancellable(oo) == FALSE

\* Slots from before quantities were tracked cannot be freed that way.
NotCancellable(oo) == LeafOf(oo) = {} /\ oo.quantity = 0

\* Mutant: cancelling also frees the lots of fills in flight.
OnBookQuantityOfSlot(oo) == oo.quantity

OnBookQuantity(oo) ==
    IF LeafOf(oo) = {} THEN 0 ELSE (CHOOSE l \in LeafOf(oo) : TRUE).quantity

CancelOrderBySlot(a, k) ==
    LET oo == open_orders[a][k]
    IN  /\ oo.market = "this"
        /\ \A l \in LeafOf(oo) : l.owner = a /\ l.owner_slot = k
        /\ ~NotCancellable(oo)
        /\ position[a].active
        /\ book' = book \ LeafOf(oo)
        /\ position' = [position EXCEPT
             ![a] = AdjustMakerLots(@, oo.side, -OnBookQuantity(oo))]
        /\ open_orders' = [open_orders EXCEPT ![a][k] = FreeSlot]

\* perp_cancel_order finds the slot by order id, and
\* perp_cancel_order_by_client_order_id by the id its owner chose.
PerpCancelOrder(a, k) ==
    /\ tx.phase = "idle"
    /\ "PerpCancelOrder" \in EnabledIx
    /\ CancelOrderBySlot(a, k)
    /\ UNCHANGED <<queue, market, now_ts, oracle, tx>>

\* perp_cancel_all_orders, its by-side variant and the forced one start the
\* loop of cancel_all_orders over the account's slots.
PerpCancelAllOrders(a, limit, sides) ==
    /\ tx.phase = "idle"
    /\ \/ "PerpCancelAllOrders" \in EnabledIx /\ sides = Sides
       \/ "PerpCancelAllOrdersBySide" \in EnabledIx
       \/ /\ "PerpLiqForceCancelOrders" \in EnabledIx
          /\ sides = Sides /\ position[a].active
    /\ tx' = [Idle EXCEPT !.phase = "cancel", !.account = a,
                          !.limit = limit, !.sides = sides]
    /\ UNCHANGED <<book, queue, position, open_orders, market, now_ts, oracle>>

NextSlot(limit) ==
    tx' = IF limit = 0 \/ tx.slot + 1 = PerpOoCount THEN Idle
          ELSE [tx EXCEPT !.slot = @ + 1, !.limit = limit]

\* An iteration counts against the limit when the slot holds a wanted order,
\* also when that order could not be cancelled.
CancelNext ==
    LET a == tx.account
        oo == open_orders[a][tx.slot]
        wanted == oo.market = "this" /\ oo.side \in tx.sides
    IN  /\ tx.phase = "cancel"
        /\ \/ wanted /\ CancelOrderBySlot(a, tx.slot) /\ NextSlot(tx.limit - 1)
           \/ /\ wanted /\ NotCancellable(oo) /\ NextSlot(tx.limit - 1)
              /\ UNCHANGED <<book, position, open_orders>>
           \/ /\ ~wanted /\ NextSlot(tx.limit)
              /\ UNCHANGED <<book, position, open_orders>>
        /\ UNCHANGED <<queue, market, now_ts, oracle>>

-----------------------------------------------------------------------------
(* Consuming events.  perp_consume_events handles up to eight in a row;    *)
(* a call is that many of these steps.  It stops at an account it was not  *)
(* given, keeping what it did, and fails if a position is missing.         *)

MakerSide(fill) == Invert(fill.taker_side)

BaseChange(fill, side) == Signed(side, fill.quantity)
QuoteChange(fill, side) == -Signed(side, fill.price * fill.quantity)

RecordTrade(pp, base_change, quote_change) ==
    [pp EXCEPT !.base = @ + base_change, !.quote = @ + quote_change]

ExecutePerpMaker(pp, fill) ==
    LET side == MakerSide(fill)
        quote == QuoteChange(fill, side)
    IN  AdjustMakerLots(
          RecordTrade(pp, BaseChange(fill, side), quote - Abs(quote) * fill.maker_fee),
          side, -fill.quantity)

ExecutePerpTaker(pp, fill) ==
    LET base == BaseChange(fill, fill.taker_side)
        quote == QuoteChange(fill, fill.taker_side)
    IN  RecordTrade([pp EXCEPT !.taker_base_lots = @ - base,
                               !.taker_quote_lots = @ - quote], base, quote)

\* Mutant: whatever order holds the slot is taken for the event's.
EventIsForAnyOrder(event, oo) == oo.market = "this"

\* Mutant: ids are compared across markets.
EventIsForAnyMarket(event, oo) == event.order_id = oo.id

\* An event from before order ids were recorded has id 0 and fits any order.
EventIsFor(event, oo) ==
    oo.market = "this" /\ (event.order_id = 0 \/ event.order_id = oo.id)

\* Mutant: a completely filled order keeps its slot.
SlotAfterFillKept(event, oo) ==
    IF ~EventIsFor(event, oo) THEN oo
    ELSE IF event.event_type = "Out" THEN FreeSlot
    ELSE [oo EXCEPT !.quantity = Greatest(@ - event.quantity, 0)]

\* What the event does to the slot it names: a delayed one may find the slot
\* free, in another market, or holding a newer order.
SlotAfter(event, oo) ==
    IF ~EventIsFor(event, oo) THEN oo
    ELSE IF event.event_type = "Out" \/ event.maker_out THEN FreeSlot
    ELSE [oo EXCEPT !.quantity = Greatest(@ - event.quantity, 0)]

OpenInterestChange(before, after) == Abs(after.base) - Abs(before.base)

ConsumeFill(fill) ==
    LET made == [position EXCEPT ![fill.owner] = ExecutePerpMaker(@, fill)]
        taken == [made EXCEPT ![fill.taker] = ExecutePerpTaker(@, fill)]
    IN  /\ position[fill.owner].active /\ position[fill.taker].active
        /\ position' = taken
        /\ market' = [market EXCEPT !.open_interest =
             @ + OpenInterestChange(position[fill.owner], made[fill.owner])
               + OpenInterestChange(made[fill.taker], taken[fill.taker])]

\* Mutant: an out for a slot that its owner has freed since fails.
ConsumeOutNeedsSlot(out) ==
    /\ position[out.owner].active
    /\ open_orders[out.owner][out.owner_slot].market = "this"
    /\ position' = [position EXCEPT
                      ![out.owner] = AdjustMakerLots(@, out.side, -out.quantity)]
    /\ UNCHANGED market

ConsumeOut(out) ==
    /\ position[out.owner].active
    /\ position' = [position EXCEPT
                      ![out.owner] = AdjustMakerLots(@, out.side, -out.quantity)]
    /\ UNCHANGED market

PerpConsumeEvents ==
    /\ tx.phase = "idle"
    /\ "PerpConsumeEvents" \in EnabledIx
    /\ queue # <<>>
    /\ LET event == Head(queue)
       IN  /\ IF event.event_type = "Fill" THEN ConsumeFill(event)
                                           ELSE ConsumeOut(event)
           /\ open_orders' = [open_orders EXCEPT
                ![event.owner][event.owner_slot] = SlotAfter(event, @)]
    /\ queue' = Tail(queue)
    /\ UNCHANGED <<book, now_ts, oracle, tx>>

-----------------------------------------------------------------------------
(* Positions and the market's modes. *)

PerpDeactivatePosition(a) ==
    LET pp == position[a]
    IN  /\ tx.phase = "idle"
        /\ "PerpDeactivatePosition" \in EnabledIx
        /\ pp.active
        /\ pp.base = 0
        /\ pp.quote = 0
        /\ pp.bids_base_lots = 0 /\ pp.asks_base_lots = 0
        /\ pp.taker_base_lots = 0 /\ pp.taker_quote_lots = 0
        /\ position' = [position EXCEPT ![a] = NoPosition]
        /\ UNCHANGED <<book, queue, open_orders, market, now_ts, oracle, tx>>

\* Mutant: all of the long side, whatever the short side holds.
LotsToCloseOfLong(a, b) == position[a].base

LotsToClose(a, b) == Least(position[a].base, -position[b].base)

\* A long and a short are reduced against each other at the oracle price.
PerpForceClosePosition(a, b) ==
    LET base == LotsToClose(a, b)
        quote == base * oracle
        after == [position EXCEPT ![a] = RecordTrade(@, -base, quote),
                                  ![b] = RecordTrade(@, base, -quote)]
    IN  /\ tx.phase = "idle"
        /\ "PerpForceClosePosition" \in EnabledIx
        /\ market.force_close
        /\ position[a].active /\ position[b].active
        /\ position[a].base > 0 /\ position[b].base < 0
        /\ position' = after
        /\ market' = [market EXCEPT !.open_interest =
             @ + OpenInterestChange(position[a], after[a])
               + OpenInterestChange(position[b], after[b])]
        /\ UNCHANGED <<book, queue, open_orders, now_ts, oracle, tx>>

\* The two modes of perp_edit_market: force close needs reduce only.
PerpEditMarket(reduce_only, force_close) ==
    /\ tx.phase = "idle"
    /\ "PerpEditMarket" \in EnabledIx
    /\ force_close /\ ~market.force_close => reduce_only
    /\ market' = [market EXCEPT !.reduce_only = reduce_only,
                                !.force_close = force_close]
    /\ UNCHANGED <<book, queue, position, open_orders, now_ts, oracle, tx>>

-----------------------------------------------------------------------------
(* The surroundings: the account's orders in another perp market share its *)
(* slots, and may carry the same numbers as ids; time and oracle move.     *)

OtherMarketOrder(a, id) ==
    /\ tx.phase = "idle"
    /\ "OtherMarket" \in EnabledIx
    /\ \E k \in NextOrderSlot(a) :
         open_orders' = [open_orders EXCEPT
           ![a][k] = [FreeSlot EXCEPT !.market = "other", !.id = id,
                                      !.quantity = 1]]
    /\ UNCHANGED <<book, queue, position, market, now_ts, oracle, tx>>

OtherMarketOut(a, k) ==
    /\ tx.phase = "idle"
    /\ open_orders[a][k].market = "other"
    /\ open_orders' = [open_orders EXCEPT ![a][k] = FreeSlot]
    /\ UNCHANGED <<book, queue, position, market, now_ts, oracle, tx>>

Tick ==
    /\ tx.phase = "idle"
    /\ now_ts < MaxTs
    /\ now_ts' = now_ts + 1
    /\ UNCHANGED <<book, queue, position, open_orders, market, oracle, tx>>

OracleMoves(price) ==
    /\ tx.phase = "idle"
    /\ oracle' = price
    /\ UNCHANGED <<book, queue, position, open_orders, market, now_ts, tx>>

-----------------------------------------------------------------------------
Init ==
    /\ book = {}
    /\ queue = <<>>
    /\ position = [a \in Accounts |-> NoPosition]
    /\ open_orders = [a \in Accounts |-> [k \in Slots |-> FreeSlot]]
    /\ market = [ seq_num |-> 0, open_interest |-> 0, fees_accrued |-> 0,
                  reduce_only |-> FALSE, force_close |-> FALSE ]
    /\ now_ts = 0
    /\ oracle \in OraclePrices
    /\ tx = Idle

NewOrderStep ==
    \/ SlidePrice
    \/ MatchEnds
    \/ \E leaf \in book : DropInvalid(leaf) \/ CancelProvide(leaf) \/ Fill(leaf)
    \/ CompleteOrder
    \/ CompleteAndPost
    \/ OrderFails

Next ==
    \/ \E a \in Accounts, order \in OrderInputs : PerpPlaceOrder(a, order)
    \/ NewOrderStep
    \/ \E a \in Accounts, k \in Slots : PerpCancelOrder(a, k)
    \/ \E a \in Accounts, limit \in CancelLimits, sides \in {Sides, {"Bid"}, {"Ask"}} :
         PerpCancelAllOrders(a, limit, sides)
    \/ CancelNext
    \/ PerpConsumeEvents
    \/ \E a \in Accounts : PerpDeactivatePosition(a)
    \/ \E a, b \in Accounts : PerpForceClosePosition(a, b)
    \/ \E reduce_only, force_close \in BOOLEAN :
         PerpEditMarket(reduce_only, force_close)
    \/ \E a \in Accounts, id \in 1 .. MaxSeqNum : OtherMarketOrder(a, id)
    \/ \E a \in Accounts, k \in Slots : OtherMarketOut(a, k)
    \/ Tick
    \/ \E price \in OraclePrices : OracleMoves(price)

Spec == Init /\ [][Next]_vars

\* A started instruction runs to its end, and keepers call
\* perp_consume_events again and again, whatever else is going on.
Fairness ==
    /\ WF_vars(NewOrderStep)
    /\ WF_vars(CancelNext)
    /\ SF_vars(PerpConsumeEvents)

FairSpec == Spec /\ Fairness

-----------------------------------------------------------------------------
(* Properties. *)

Transactions ==
    [ phase : {"idle", "price", "match", "post", "cancel"},
      account : Accounts \cup {NoAccount}, order : Orders, price : Int,
      fixed : SUBSET Leaves, pegged : SUBSET Leaves, base : Nat, quote : Nat,
      decremented : Nat, dropped : Nat, limit : Nat, post : BOOLEAN,
      deletes : SUBSET Leaves,
      changes : SUBSET [leaf : Leaves, quantity : Nat \ {0}],
      events : Seq(Events), slot : Slots, sides : SUBSET Sides ]

\* Every variable has its type; in particular quantities on the book and in
\* events are never zero, and the lots an order has left never turn negative
\* (new_order's assertion on remaining_quote_lots).
TypeOK ==
    /\ book \in SUBSET Leaves
    /\ queue \in Seq(Events)
    /\ position \in [Accounts -> PerpPositions]
    /\ open_orders \in [Accounts -> [Slots -> PerpOpenOrders]]
    /\ market \in [ seq_num : Nat, open_interest : Int, fees_accrued : Int,
                    reduce_only : BOOLEAN, force_close : BOOLEAN ]
    /\ now_ts \in Nat
    /\ oracle \in OraclePrices
    /\ tx \in Transactions

\* The event takes its order off the book for good.
Finishes(event) == event.event_type = "Out" \/ event.maker_out

SlotHolds(a, k, id) ==
    open_orders[a][k].market = "this" /\ open_orders[a][k].id = id

\* Every order on the book is the one its owner's slot records, with the side
\* and tree needed to find it again; so it can be cancelled, and no other
\* order, stale event or other market has taken its slot.
BookOrdersHaveSlots ==
    \A l \in book :
        /\ SlotHolds(l.owner, l.owner_slot, l.id)
        /\ open_orders[l.owner][l.owner_slot].side = l.side
        /\ open_orders[l.owner][l.owner_slot].tree = l.tree

\* A slot is never leaked: while it is taken, its order is on the book or the
\* event that will free it is on the queue.
TakenSlotsAreFreed ==
    \A a \in Accounts, k \in Slots : open_orders[a][k].market = "this" =>
        LET id == open_orders[a][k].id
        IN  \/ \E l \in book : l.id = id /\ l.owner = a /\ l.owner_slot = k
            \/ \E i \in 1 .. Len(queue) :
                 /\ Finishes(queue[i]) /\ queue[i].order_id = id
                 /\ queue[i].owner = a /\ queue[i].owner_slot = k

\* Once the event that finishes an order is queued, the order is off the book
\* and no later event mentions it: neither matching nor dropping sees it again.
FinishedOrdersAreGone ==
    \A i \in 1 .. Len(queue) : Finishes(queue[i]) =>
        /\ \A l \in book : l.id # queue[i].order_id
        /\ \A j \in i + 1 .. Len(queue) : queue[j].order_id # queue[i].order_id

\* Fills come best price first, across fixed and pegged orders: no fill of the
\* running order is priced better for the taker than an earlier one.
FillsAreBestFirst ==
    \A i, j \in 1 .. Len(tx.events) :
        /\ i < j
        /\ tx.events[i].event_type = "Fill" /\ tx.events[j].event_type = "Fill"
        => IsPriceWithinLimit(tx.order.side, tx.events[i].price, tx.events[j].price)

OrderCompletes == tx.phase = "post" /\ market'.seq_num = market.seq_num + 1

\* An order that is posted has missed no match: no valid opposing order that
\* it could still afford is left within its limit.  This is what stopping the
\* loop at the first order outside the limit relies on.
PostedOrderMissedNoMatch ==
    [][ OrderCompletes /\ WillPost =>
          \A l \in OnSide(book', Opposite) :
              ~(IsValid(l) /\ WithinLimit(l) /\ MaxMatchByQuote(l) > 0) ]_vars

\* Completing a reduce-only order, or any order in a reduce-only market, never
\* grows or flips the taker's effective position, and in a reduce-only market
\* not even after all its resting orders on that side fill.
ReduceOnlyOrdersReduce ==
    [][ OrderCompletes /\ (tx.order.reduce_only \/ market.reduce_only) =>
          LET before == position[tx.account]
              after == position'[tx.account]
              resting(pp) == IF market.reduce_only
                             THEN IF tx.order.side = "Bid" THEN pp.bids_base_lots
                                                           ELSE -pp.asks_base_lots
                             ELSE 0
              from == EffectiveBase(before) + resting(before)
              to == EffectiveBase(after) + resting(after)
          IN  \/ to = from
              \/ tx.order.side = "Bid" /\ from < to /\ to <= 0
              \/ tx.order.side = "Ask" /\ 0 <= to /\ to < from ]_vars

\* An account named by a queued event has the position that consuming needs:
\* deactivation waits until the account has no events on the queue.
QueuedEventsHavePositions ==
    \A i \in 1 .. Len(queue) :
        /\ position[queue[i].owner].active
        /\ queue[i].event_type = "Fill" => position[queue[i].taker].active

\* Nothing this market does changes a slot that another market uses, although
\* its delayed events name slots that have been freed and reused since, and
\* order ids are numbered per market.
OtherMarketsKeepTheirSlots ==
    [][ queue' # queue \/ book' # book =>
          \A a \in Accounts, k \in Slots :
              open_orders[a][k].market = "other" =>
                  open_orders'[a][k] = open_orders[a][k] ]_vars

\* Apart from trades that events settle, base positions change only by force
\* closing, and that only towards zero: nobody is flipped or grown.
ForceClosingReduces ==
    [][ queue' = queue =>
          \A a \in Accounts :
              \/ position'[a].base = position[a].base
              \/ 0 <= position'[a].base /\ position'[a].base < position[a].base
              \/ 0 >= position'[a].base /\ position'[a].base > position[a].base ]_vars

\* An event from before order ids were recorded changes no slot of an order
\* from after that (only those have a quantity): the comment in
\* execute_perp_maker and execute_perp_out_event says that matching any order
\* is safe because old orders' slots are not prematurely freed.
OldEventsSpareNewOrders ==
    [][ queue # <<>> /\ queue' = Tail(queue) /\ Head(queue).order_id = 0 =>
          \A a \in Accounts, k \in Slots :
              open_orders[a][k].quantity > 0 =>
                  open_orders'[a][k] = open_orders[a][k] ]_vars

-----------------------------------------------------------------------------
(* Liveness, under Fairness. *)

\* A slot whose order has left the book is freed: cancelled by its owner or
\* freed by the event that consuming eventually reaches.
OffBookSlotsAreFreed ==
    \A a \in Accounts, k \in Slots, id \in 1 .. MaxSeqNum :
        SlotHolds(a, k, id) /\ (\A l \in book : l.id # id)
            ~> ~SlotHolds(a, k, id)

\* A full queue, on which new orders fail, has room again later.
FullQueueDrains == Len(queue) = MaxEvents ~> Len(queue) < MaxEvents
=============================================================================
