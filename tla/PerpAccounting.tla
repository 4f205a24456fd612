--------------------------- MODULE PerpAccounting ---------------------------
(***************************************************************************)
(* What the numbers of the perp market must add up to.  Matching moves     *)
(* lots and fees in two halves, the taker's at once and the maker's when   *)
(* the event is consumed; these properties say that the halves meet        *)
(* whatever happens in between.  They are sums over the book, the queue    *)
(* and the accounts.                                                       *)
(***************************************************************************)
EXTENDS PerpMarket, Functions

\* What is added up over the accounts is added up over finitely many.
ASSUME AccountsAssumption == IsFiniteSet(Accounts)

IsFill(e) == e.event_type = "Fill"
EventMakerSide(e) == IF IsFill(e) THEN MakerSide(e) ELSE e.side

\* What a queued event will add to the base and quote of account a as taker,
\* and what it will charge its maker.
TakerBase(a, e) ==
    IF IsFill(e) /\ e.taker = a THEN BaseChange(e, e.taker_side) ELSE 0
TakerQuote(a, e) ==
    IF IsFill(e) /\ e.taker = a THEN QuoteChange(e, e.taker_side) ELSE 0
MakerFeeOf(e) == IF IsFill(e) THEN e.price * e.quantity * e.maker_fee ELSE 0

OnBookLots(a, side) ==
    SumFunction([l \in book |-> IF l.owner = a /\ l.side = side THEN l.quantity ELSE 0])

InFlightLots(a, side) ==
    SumFunction([i \in 1 .. Len(queue) |->
        IF queue[i].owner = a /\ EventMakerSide(queue[i]) = side
        THEN queue[i].quantity ELSE 0])

\* bids_base_lots and asks_base_lots are the account's lots on the book plus
\* those of queued fills and outs, although a cancel frees only the first part
\* and may free the slot before its events arrive.
MakerLotsMatchBookAndQueue ==
    \A a \in Accounts :
        /\ position[a].bids_base_lots = OnBookLots(a, "Bid") + InFlightLots(a, "Bid")
        /\ position[a].asks_base_lots = OnBookLots(a, "Ask") + InFlightLots(a, "Ask")

\* taker_base_lots and taker_quote_lots are what the queued fills will add to
\* the taker's position when they are consumed.
TakerLotsMatchQueue ==
    \A a \in Accounts :
        /\ position[a].taker_base_lots =
             SumFunction([i \in 1 .. Len(queue) |-> TakerBase(a, queue[i])])
        /\ position[a].taker_quote_lots =
             SumFunction([i \in 1 .. Len(queue) |-> TakerQuote(a, queue[i])])

\* The lots of one order, on the book and in flight.
OrderLots(id) ==
    SumFunction([l \in book |-> IF l.id = id THEN l.quantity ELSE 0])
      + SumFunction([i \in 1 .. Len(queue) |->
            IF queue[i].order_id = id THEN queue[i].quantity ELSE 0])

\* The quantity in a slot is what is on the book plus what is in flight for
\* this very order, so it is positive and the order can always be cancelled.
SlotQuantityMatchesOrder ==
    \A a \in Accounts, k \in Slots : open_orders[a][k].market = "this" =>
        /\ open_orders[a][k].quantity = OrderLots(open_orders[a][k].id)
        /\ open_orders[a][k].quantity > 0

\* Longs and shorts balance, and open_interest counts both.
OpenInterestMatchesPositions ==
    /\ SumFunction([a \in Accounts |-> position[a].base]) = 0
    /\ market.open_interest = SumFunction([a \in Accounts |-> Abs(position[a].base)])

\* No quote is made or lost: what all positions lack is what the market has
\* accrued as fees, except the maker fees that queued fills have yet to charge.
QuoteIsConserved ==
    SumFunction([a \in Accounts |-> position[a].quote]) + market.fees_accrued
      = SumFunction([i \in 1 .. Len(queue) |-> MakerFeeOf(queue[i])])

\* Positions, slots, book, queue and market agree to the lot: makers' and
\* takers' lots, slot quantities, open interest and quote.
PerpLedgerBalances ==
  /\ MakerLotsMatchBookAndQueue
  /\ TakerLotsMatchQueue
  /\ SlotQuantityMatchesOrder
  /\ OpenInterestMatchesPositions
  /\ QuoteIsConserved

=============================================================================
