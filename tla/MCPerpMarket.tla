---------------------------- MODULE MCPerpMarket ----------------------------
(* Orders for the instances of the perp market that TLC checks.            *)
EXTENDS PerpAccounting, PerpLegacy, TLC

Limit(side, price, base) ==
    [ side |-> side, kind |-> "Fixed", order_type |-> "Limit", price |-> price,
      max_base_lots |-> base, max_quote_lots |-> 100, reduce_only |-> FALSE,
      time_in_force |-> 0, self_trade |-> "DecrementTake",
      peg_limit |-> PegNone, limit |-> 2 ]

Pegged(side, offset, base, peg_limit) ==
    [ Limit(side, offset, base) EXCEPT !.kind = "OraclePegged",
                                       !.peg_limit = peg_limit ]

Taking(side, price, base) ==
    [ Limit(side, price, base) EXCEPT !.kind = "ImmediateOrCancel" ]

\* Orders that fill each other in parts, that trade with their own account in
\* each way it can ask for, and that expire.
CoreOrders ==
    { Limit("Bid", 1, 2),
      [Limit("Bid", 2, 1) EXCEPT !.time_in_force = 1],
      [Limit("Ask", 1, 1) EXCEPT !.self_trade = "CancelProvide"],
      Limit("Ask", 1, 3),
      [Limit("Ask", 2, 2) EXCEPT !.order_type = "PostOnly"],
      [Taking("Ask", 1, 1) EXCEPT !.self_trade = "AbortTransaction"] }

\* Whole and partial fills, for the orders that follow each other in a slot.
SlotOrders ==
    { Limit("Bid", 1, 2), Limit("Ask", 1, 1), Limit("Ask", 1, 3) }

\* Pegged and sliding orders, bounded by their limits and by quote.
PegOrders ==
    { Pegged("Bid", -1, 2, 2), Limit("Bid", 1, 1),
      Pegged("Ask", 0, 1, PegNone),
      [Limit("Ask", 1, 3) EXCEPT !.order_type = "PostOnlySlide"],
      [Limit("Ask", 1, 3) EXCEPT !.max_quote_lots = 3] }

ModeOrders ==
    { Limit("Bid", 1, 2), Limit("Ask", 1, 1),
      [Limit("Ask", 1, 3) EXCEPT !.reduce_only = TRUE],
      [Limit("Bid", 1, 3) EXCEPT !.reduce_only = TRUE] }

\* One account trades both ways while its events wait.
NettingOrders == { Limit("Bid", 1, 1), Limit("Ask", 1, 1), Limit("Ask", 1, 2) }

\* Asks pegged below the oracle, some out of range once it falls.
FallingPegOrders ==
    { Pegged("Ask", -2, 1, PegNone), Pegged("Ask", -1, 1, PegNone),
      Limit("Ask", 1, 1), Limit("Bid", 1, 3) }

\* One order that expires, one that takes.
LiveOrders ==
    { [Limit("Bid", 1, 2) EXCEPT !.time_in_force = 1], Limit("Ask", 1, 1) }

AccountSymmetry == Permutations(Accounts)
=============================================================================
