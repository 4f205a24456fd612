----------------------------- MODULE PerpLegacy -----------------------------
(***************************************************************************)
(* The perp market right after the upgrade that added order ids to events  *)
(* and quantities to open order slots.  Orders placed before it have slots *)
(* of quantity 0, and events queued before it have order id 0.             *)
(***************************************************************************)
EXTENDS PerpMarket

OldLeaf(a, quantity) ==
    [ id |-> 1, side |-> "Bid", tree |-> "Fixed", price |-> 1, owner |-> a,
      owner_slot |-> 0, quantity |-> quantity, expiry |-> 0,
      peg_limit |-> PegNone ]

OldFill(a, b, maker_out) ==
    [ event_type |-> "Fill", taker_side |-> "Ask", maker_out |-> maker_out,
      owner_slot |-> 0, owner |-> a, order_id |-> 0, maker_fee |-> 0,
      taker |-> b, price |-> 1, quantity |-> 1 ]

OldOut(a) ==
    [ event_type |-> "Out", side |-> "Bid", owner_slot |-> 0, owner |-> a,
      order_id |-> 0, quantity |-> 1 ]

\* Account a has one old bid, of which leaves are on the book and events are
\* in flight; b took what was filled.
UpgradedState(a, b, leaves, events, bids, taken) ==
    /\ book = leaves
    /\ queue = events
    /\ position = [c \in Accounts |->
         CASE c = a -> [NoPosition EXCEPT !.active = TRUE, !.bids_base_lots = bids]
           [] c = b -> [NoPosition EXCEPT !.active = TRUE,
                          !.taker_base_lots = -taken, !.taker_quote_lots = taken]
           [] OTHER -> NoPosition]
    /\ open_orders = [c \in Accounts |-> [k \in Slots |->
         IF c = a /\ k = 0
         THEN [FreeSlot EXCEPT !.market = "this", !.id = 1] ELSE FreeSlot]]
    /\ market = [ seq_num |-> 1, open_interest |-> 0, fees_accrued |-> 0,
                  reduce_only |-> FALSE, force_close |-> FALSE ]
    /\ now_ts = 0
    /\ oracle \in OraclePrices
    /\ tx = Idle

\* The old order is untouched, filled completely, or dropped from the book.
InitUpgraded ==
    \E a, b \in Accounts :
        /\ a # b
        /\ \/ UpgradedState(a, b, {OldLeaf(a, 2)}, <<>>, 2, 0)
           \/ UpgradedState(a, b, {}, <<OldFill(a, b, TRUE)>>, 1, 1)
           \/ UpgradedState(a, b, {}, <<OldOut(a)>>, 1, 0)

\* A market with such an order, or a new one.
SpecUpgraded == (Init \/ InitUpgraded) /\ [][Next]_vars

\* The old order is filled in part: one lot in flight, one on the book.
InitUpgradedPartial ==
    \E a, b \in Accounts :
        /\ a # b
        /\ UpgradedState(a, b, {OldLeaf(a, 1)}, <<OldFill(a, b, FALSE)>>, 2, 1)

SpecUpgradedPartial == InitUpgradedPartial /\ [][Next]_vars
=============================================================================
