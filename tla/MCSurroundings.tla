--------------------------- MODULE MCSurroundings ---------------------------
(***************************************************************************)
(* Where the program meets what is outside it: the transactions that carry its *)
(* instructions, the spot market program, the oracles, the event queue, and the *)
(* services that follow and use the program, each explored on its own in one *)
(* run.  `subject` is the component whose behaviours are explored; the others *)
(* stay as they start.                                                     *)
(***************************************************************************)
EXTENDS Transactions, Serum3, OraclePrices, EventQueue, FillsFeed, OrderbookFeed,
        LiquidatorBot, QuoteCache, TcsTaker

VARIABLE subject

Subjects == {"transactions", "spot", "oracles", "queue", "fills", "books", "bot",
             "quotes", "taker"}

-----------------------------------------------------------------------------
(* Transactions of up to four instructions.                                *)
MCTxRow(t, u) == [x \in {"t", "u"} |-> IF x = "t" THEN t ELSE u]
MCTxTwo(x, y) == [a \in {"a", "b"} |-> IF a = "a" THEN x ELSE y]
MCTxMenu ==
  {Mango("FlashLoanBegin", "a", MCTxRow(2, 0)), Mango("FlashLoanBegin", "b", MCTxRow(0, 8)),
   Mango("FlashLoanEndV2", "a", 0), Mango("FlashLoanEndV2", "b", 0),
   Mango("HealthRegionBegin", "a", 0), Mango("HealthRegionEnd", "a", 0),
   Mango("HealthRegionEnd", "b", 0), Mango("PerpPlaceOrder", "a", -6),
   Mango("PerpPlaceOrder", "a", 5), Mango("TokenWithdraw", "a", 0),
   Mango("SequenceCheck", "a", 1), Mango("HealthCheck", "a", 1), JupiterSwap, CallWithdraw("a")}
MCTxFirst == [pos |-> MCTxTwo(MCTxRow(1, 3), MCTxRow(4, 9)), perps |-> MCTxTwo(0, 0),
              liquidated |-> MCTxTwo(FALSE, FALSE)]
MCTxSeeds ==
  {MCTxFirst, [pos |-> MCTxTwo(MCTxRow(1, -2), MCTxRow(4, 9)), perps |-> MCTxTwo(-2, 0),
               liquidated |-> MCTxTwo(TRUE, FALSE)]}
MCTxReduceOnly == MCTxRow(0, 0)

(* Spot markets: two accounts, one of them with an open orders account;    *)
(* three prices, of which the lowest is too low for a bid and the highest  *)
(* too high for an ask.                                                    *)
MCS3Seeds == [a \in S3Accounts |->
                IF a = "a1" THEN [base |-> 1, quote |-> 2] ELSE [base |-> 2, quote |-> 0]]
MCS3Other == [base |-> 3, quote |-> 8]

(* Oracles: a pyth feed with a pool as fallback, and a stub.               *)
MCOpKinds(p, f) ==
  [n \in OpFeedNames |-> CASE n = "primary" -> p [] n = "fallback" -> f [] OTHER -> "pyth"]
MCOpKindChoices == {MCOpKinds("pyth", "pool"), MCOpKinds("stub", "switchboard")}
MCPublication(f, p, d, t) == [feed |-> f, price |-> p, dev |-> d, trading |-> t]
MCOpPublications ==
  {MCPublication("primary", 12, 0, TRUE), MCPublication("primary", 32, 0, TRUE),
   MCPublication("primary", 32, 5, FALSE), MCPublication("primary", 0, 0, TRUE),
   MCPublication("fallback", 2, 0, TRUE), MCPublication("usdc", 8, 1, TRUE)}

(* Event queue: an array small enough to wrap around often.                *)
MCData == {"fill", "out"}
MCZeroEvent == [seq_num |-> 0, data |-> "fill"]

(* Fills feed: a queue of three events, one peer, which may subscribe to the *)
(* market, to the maker of every fill or to its taker.                      *)
MCSubscribe(market, followed, heads) ==
  [command |-> "subscribe", market |-> market, accounts |-> followed, head_updates |-> heads]
MCFfTrades == {<<"a", "b">>}
MCFfCommands == {MCSubscribe(TRUE, {}, "on"), MCSubscribe(FALSE, {"a"}, "keep"),
                 MCSubscribe(FALSE, {"b"}, "off"), [command |-> "unsubscribe"]}

(* Orderbook feed: a fixed and an oracle-pegged bid, and an ask.           *)
MCObOrder(side, owner, pegged, price, quantity) ==
  [side |-> side, owner |-> owner, pegged |-> pegged, price |-> price, quantity |-> quantity]
MCObOrders == {MCObOrder("bids", "a", FALSE, 2, 1), MCObOrder("bids", "b", TRUE, 0, 2),
               MCObOrder("asks", "a", FALSE, 3, 1)}

(* Quote cache: two requests for a pair, one through it and another, and    *)
(* one for the other whose second leg stays within a mint.                 *)
MCQcRequest(kind, pairs, max) == [kind |-> kind, pairs |-> pairs, max |-> max]
MCQcRequests ==
  [t1 |-> MCQcRequest("quote", <<"x">>, 1), t2 |-> MCQcRequest("quote", <<"x">>, 2),
   t3 |-> MCQcRequest("collateral", <<"x", "y">>, 3), t4 |-> MCQcRequest("collateral", <<"y">>, 2)]

(* Swap taker: two swaps of one account, one of another, and the limits    *)
(* that can hold an execution back.                                        *)
MCTtSwap(account, volume, pair) ==
  [account |-> account, volume |-> volume, tokens |-> pair]
MCTtSwaps == <<MCTtSwap("a", 2, {"x", "y"}), MCTtSwap("a", 9, {"y", "z"}),
               MCTtSwap("b", 3, {"x", "z"})>>
MCTtBase ==
  [buy_position |-> 0, sell_position |-> 2, buy_is_collateral |-> FALSE,
   max_buy |-> 4, max_sell |-> 5, buy_borrows_left |-> 9, sell_borrows_left |-> 9,
   buy_deposits_left |-> 9, sell_deposits_left |-> 9, borrows_reduce_only |-> FALSE,
   liqor_available |-> [borrow |-> 4, collateral |-> 3, sell |-> 4],
   expired |-> FALSE, liquidatable |-> FALSE, interesting |-> TRUE, good_price |-> TRUE]
MCTtSituations ==
  {MCTtBase, [MCTtBase EXCEPT !.expired = TRUE], [MCTtBase EXCEPT !.good_price = FALSE],
   [MCTtBase EXCEPT !.buy_position = -2, !.buy_borrows_left = 1, !.buy_deposits_left = 1],
   [MCTtBase EXCEPT !.sell_borrows_left = 2, !.sell_deposits_left = 1],
   [MCTtBase EXCEPT !.sell_borrows_left = 0, !.sell_position = -1]}

-----------------------------------------------------------------------------
SurroundingsVars == <<txVars, s3Vars, opVars, vars, ffVars, obVars, lbVars, qcVars,
  ttVars, subject>>

SurroundingsInit ==
  /\ subject \in Subjects
  /\ S3Init /\ Init /\ FfInit /\ LbInit /\ QcInit
  /\ IF subject = "transactions" THEN TxInit ELSE TxInitAs(MCTxFirst)
  /\ IF subject = "oracles" THEN OpInit ELSE OpInitAs(MCOpKinds("stub", "switchboard"))
  /\ IF subject = "books" THEN ObInit ELSE ObInitAs("perp")
  /\ IF subject = "taker" THEN TtInit ELSE TtInitAs("borrow")

TransactionsStep ==
  /\ subject = "transactions" /\ TxNext
  /\ UNCHANGED <<s3Vars, opVars, vars, ffVars, obVars, lbVars, qcVars, ttVars, subject>>

SpotStep ==
  /\ subject = "spot" /\ S3Next
  /\ UNCHANGED <<txVars, opVars, vars, ffVars, obVars, lbVars, qcVars, ttVars, subject>>

OraclesStep ==
  /\ subject = "oracles" /\ OpNext
  /\ UNCHANGED <<txVars, s3Vars, vars, ffVars, obVars, lbVars, qcVars, ttVars, subject>>

QueueStep ==
  /\ subject = "queue" /\ Next
  /\ UNCHANGED <<txVars, s3Vars, opVars, ffVars, obVars, lbVars, qcVars, ttVars, subject>>

FillsStep ==
  /\ subject = "fills" /\ FfNext
  /\ UNCHANGED <<txVars, s3Vars, opVars, vars, obVars, lbVars, qcVars, ttVars, subject>>

BooksStep ==
  /\ subject = "books" /\ ObNext
  /\ UNCHANGED <<txVars, s3Vars, opVars, vars, ffVars, lbVars, qcVars, ttVars, subject>>

BotStep ==
  /\ subject = "bot" /\ LbNext
  /\ UNCHANGED <<txVars, s3Vars, opVars, vars, ffVars, obVars, qcVars, ttVars, subject>>

QuotesStep ==
  /\ subject = "quotes" /\ QcNext
  /\ UNCHANGED <<txVars, s3Vars, opVars, vars, ffVars, obVars, lbVars, ttVars, subject>>

TakerStep ==
  /\ subject = "taker" /\ TtNext
  /\ UNCHANGED <<txVars, s3Vars, opVars, vars, ffVars, obVars, lbVars, qcVars, subject>>

SurroundingsNext == TransactionsStep \/ SpotStep \/ OraclesStep \/ QueueStep \/ FillsStep
  \/ BooksStep \/ BotStep \/ QuotesStep \/ TakerStep

SurroundingsSpec == SurroundingsInit /\ [][SurroundingsNext]_SurroundingsVars

=============================================================================
