# Verification of the margin trading program and its services

The repository is a Solana program (`programs/mango-v4`) for margin trading
of tokens and perpetual futures, with client libraries and the off-chain
services that drive it (`bin/`, `lib/`). This directory holds TLA+ models of
the program and of the services with state of their own, the TLC
configurations that check them, and TLAPS proofs about them.

Source paths below are relative to `programs/mango-v4/src/` unless they start
with `bin/` or `lib/`. `PROJECT.json` maps every definition that models code to
its lines, lists the parts of the system with their files and status, and the
hazards of the code with the line at which each bites.

## 1. The system and its parts

An instruction of the program runs alone: the runtime locks the accounts it
writes, and an instruction that fails leaves no trace. Concurrency is between
instructions. Anyone may submit one at any time, in any order, and much of what
one instruction starts is finished by a later one, submitted by somebody else:
fills are settled by a crank, funding and interest are updated by a crank,
profit is settled and accounts are liquidated by third parties. The services
are concurrent programs of the usual kind, with tasks, channels, locks and
caches of chain data that may be late or on an abandoned fork.

| Part | What is hard | Modules |
|---|---|---|
| perp order book, event queue, order slots | a trade is booked in two halves; events name slots that were freed and reused; two trees merged while the oracle moves; self trades, expiry, a full side | `PerpMarket`, `PerpAccounting`, `PerpLegacy` |
| event queue as stored | wrap-around, reverted pushes | `EventQueue`, abstract `EventFifo` |
| order tree as stored | shared node array, free list, cached expiry | `OrderTree`, abstract `LeafSets` |
| perp money | funding before every change of base, settle limits over windows, liquidation, bankruptcy | `PerpMoney` |
| banks and token positions | rounding that must favour the bank, balances that cross zero, dust, several banks of one token | `Bank`, `TokenLedger` |
| health | worst cases of open orders, splits that must add up | `Health`, `HealthAccount` |
| token liquidation | phases, amounts that just suffice, insurance and socialised loss | `Liquidation` |
| flash loans, health regions | two instructions of one transaction with others in between | `Transactions` |
| conditional swaps | auctions in time, remaining amounts, health of the maker | `ConditionalSwap` |
| spot markets | bookkeeping against a foreign program | `Serum3` |
| oracles, stable price | staleness, fallbacks, irregular updates | `OraclePrices` |
| listings | who may edit what, settings that depend on one another, rations | `Listing` |
| authority | owners, delegates, freezes, gates, about a hundred entry points | `AccessControl` |
| account storage | five vectors moved around in one block of memory | `AccountStorage`, abstract `AccountSlots` |
| fills and orderbook services | forks, late versions, checkpoints and updates | `FillsFeed`, `OrderbookFeed` |
| liquidator | jobs that share state, an async cache, choices that must agree with the program's | `LiquidateHelper`, `LiquidatorBot`, `QuoteCache`, `TcsTaker` |

## 2. Modules

A module holds one component: its constants, variables, one action per
instruction or step, the specification, and its properties at the end.
Variables, and operators that would clash with those of another component, are
prefixed so that components can be composed.

| Module | State | Actions |
|---|---|---|
| `EventQueue` | `buf`, `head`, `count`, `seq_num` of the ring buffer | `PushBack`, `PopFront`, `RevertPushes` |
| `OrderTree` | `pool` (`OrderTreeNodes`), `roots`, the side | `PostOrder` (drop an expired or the worst order, insert), `RemoveOrder` |
| `PerpMarket` | see below | see below |
| `PerpAccounting` | - | what the numbers of `PerpMarket` add up to (properties only) |
| `PerpLegacy` | - | `PerpMarket` started right after the upgrade that gave events order ids and slots quantities |
| `PerpMoney` | positions, market, settle token balances, insurance | fills, funding, settling of pnl and fees, both perp liquidations, forced closing |
| `Bank` | - | `Bank` methods as operators on records, I80F48 as integers in units of 1/`ONE` |
| `TokenLedger` | banks, vaults, positions | deposits, withdrawals, interest, fees, dust, closing |
| `Health`, `HealthAccount` | an account and its prices | `HealthCache` as operators; orders execute, taker fills are consumed, funds settle |
| `Liquidation` | positions, insurance, prices | `TokenLiqWithToken`, `TokenLiqBankruptcy`, forced closing of borrows |
| `LiquidateHelper` | - | the bot's choice of instruction from `is_liquidatable` on, with its lists of tokens and perp markets, compared with the handlers' conditions |
| `Transactions` | tokens, perps, marks of open loans and regions | transactions of up to four instructions, all or nothing |
| `ConditionalSwap` | swaps, positions, banks, oracle | create, start auction, trigger, cancel |
| `Serum3` | positions, open orders, potential tokens, the external market | place, cancel, settle, close; fills by others |
| `OraclePrices` | feeds, `StablePriceModel` | publications, updates, edits, resets |
| `Listing` | tokens with their banks and the oracles of their `MintInfo`, spot and perp markets, fast listings | register, edit (an option applied to every bank), add bank, deregister; the clock |
| `AccessControl` | group keys, gates, accounts with owner, delegate and freeze | edits of those; every entry point's constraints as an operator |
| `AccountStorage` | memory cells and header of an account | positions and orders in use, resizing, migration |
| `FillsFeed` | versions of the queue account, filter, peers, database | writes, processing, client commands, batches |
| `OrderbookFeed` | accounts with the version of one other fork, filter, channel, checkpoints, peers | writes, fork switches, evaluation, client commands |
| `LiquidatorBot` | shared state, job, channel, tracked errors | data, liquidation and rebalance jobs, time |
| `QuoteCache` | place of each task, price and lock of each pair | one action per await point |
| `TcsTaker` | phase, candidates, prepared swaps, errors | one action per step of a round |
| `MCPerpMarket`, `MCOrderTree` | values for TLC | - |
| `MCProgram`, `MCSurroundings` | `subject` | compositions, section 3 |
| `PerpInvariant`, `*Proofs` | - | section 4 |

### State and actions of PerpMarket

| Variable | In the code |
|---|---|
| `book` | the leaves of both `BookSide`s; a tree is the set of its leaves, `RanksBefore` is the order of their keys |
| `queue` | the `EventQueue`, oldest event first (that the ring buffer is such a sequence is what `EventQueue` shows) |
| `position` | per account, the `PerpPosition` in this market |
| `open_orders` | per account, its `PerpOpenOrder` slots |
| `market` | `seq_num`, `open_interest`, `fees_accrued`, `reduce_only`, `force_close` of the `PerpMarket` |
| `now_ts`, `oracle` | the clock and the oracle price in lots |
| `tx` | the local variables of `new_order` or `cancel_all_orders` while the instruction runs |

`perp_place_order` is `PerpPlaceOrder` (the checks and the reduce-only bound),
then the loop of `Orderbook::new_order` one iteration per step: `SlidePrice`
(the search for a post-only-slide price), `DropInvalid`, `CancelProvide`,
`Fill` and `MatchEnds`; then `CompleteOrder` or `CompleteAndPost`, which apply
the notes of the loop to the book, queue the events, book the taker's half and
post the rest. `OrderFails` is every way in which the instruction can fail,
and restores nothing because nothing has been changed yet: the code also
applies deletions and quantity changes only after the loop. While `tx` runs no
other instruction does.

`cancel_all_orders` is `PerpCancelAllOrders` and then one `CancelNext` per
slot. Unlike matching it changes the state in each iteration; the invariants
are also checked between iterations, which is more than the code needs.
`perp_cancel_order` and the variant by client order id are `PerpCancelOrder`,
`perp_consume_events` is a sequence of `PerpConsumeEvents`, each for one event.
`PerpDeactivatePosition`, `PerpForceClosePosition` and `PerpEditMarket` are the
instructions of these names. `OtherMarketOrder` and `OtherMarketOut` are orders
of the same account in another perp market, which share its slots. `Tick` and
`OracleMoves` are the surroundings.

### State and actions of OrderTree

The methods are operators that take a pool and a root and return new ones, under
their names in the code; the loops that walk down a tree or up the path of
parents are recursive operators. `PostOrder` is the end of `new_order`: drop one
expired order, from the other tree if this one has none; drop the worst order
if the side is full; insert the leaf. `RemoveOrder` is every other call of
`remove_by_key`, also for an order that is gone. Keys are three bits instead of
128, used once each because a key ends with a sequence number. Which tree holds
the worst order, and whether an order of the other tree is better, depends on
the oracle price and is left open. `PerpMarket` uses a side as `LeafSets`
describes it.

### Abstractions

* Fixed-point numbers (I80F48) are integers in units of 1/`ONE`; products round
  down and quotients towards zero, as in the code, in a coarser unit. Floating
  point values of prices are integers.
* `PerpMarket`: prices and quantities are lots, fees whole numbers per quote
  lot, order ids sequence numbers. The value of health is not computed: where
  an instruction ends with a health check, that check may fail. The code for
  groups marked as testing, which skips events of closed accounts, and the
  `Liquidate` event, which nothing creates, are left out. A side is full when it
  holds `MaxLeaves` orders; in the code that is decided by free nodes, and
  `ImplementsLeafSets` shows what it comes to: with `N` nodes the worst order
  is dropped only if the side holds at least `N / 2` orders, and always if it
  holds more.
* `PerpMoney`: a fill, at the oracle price, reaches both positions in one step,
  whatever their health: it is settled by a crank long after the orders were checked. One of the
  starting markets has a negative settle limit factor, which means no limit.
* `TokenLedger`: an instruction's health check may pass or fail. `Liquidation`,
  `PerpMoney`, `ConditionalSwap` and `Transactions` do compute health, at the
  point where the code does: the liqor of a token bankruptcy is checked with the
  position after the insurance payment and before the loss is socialised.
* `Listing`: an edit takes one option at a time and applies it to each bank's own
  settings; the settings kept are those that decide who may edit and that depend
  on one another, and the oracles. Of a deposit limit it is kept whether there
  is one. Shifts of weights take `ShiftDuration`.
* `FillsFeed`: a trade is a maker and a taker, each of which a client may have
  subscribed to; a statement of the database writer that fails is retried once.
* `QuoteCache`: a collateral swap has one or two legs. A leg between equal mints
  is left out, as it asks for no quote and counts as the price 1.
* `OrderbookFeed`: an account has the version served and that of one other fork;
  an oracle may be unusable. Orders do not expire.
* `LiquidatorBot`: what an attempt on an account ends in is open: an error at any
  point, also after a transaction was sent and confirmed, an account that a
  fresh look finds healthy, or a liquidation.
* `AccessControl`: what an instruction does to balances is left out; what it
  requires of its accounts and signer is one operator per accounts struct.
* Foreign programs and services (serum, the runtime's instruction inspection,
  the swap service, the validator's account stream) are modelled by what the
  code relies on, and marked external in the map.

## 3. Runs

| Run | Configuration | Shows |
|---|---|---|
| `perp_core` | `MCPerpCore` | slots, book, queue, positions, open interest and fees agree while orders are placed, filled in part, traded with their own account in all three ways, expire, are dropped from a full side and cancelled, and their events are consumed |
| `perp_peg` | `MCPerpPeg` | fills come best price first over both trees and a posted order has missed no match, while the oracle moves where every offset gives a price |
| `perp_modes` | `MCPerpModes` | reduce-only orders and markets, forced cancels and force closing only reduce |
| `perp_slots` | `MCPerpSlots` | late events leave reused slots alone: those of newer orders, of another market with the same order numbers, and, for old events, of orders from after the upgrade |
| `perp_live` | `MCPerpLive` | slots of orders off the book are freed, a full queue drains |
| `order_tree` | `MCOrderTree` | the two trees of a side lose and share no node, iterate in key order and find every key, cache the exact earliest expiry, have room for an insertion unless full, and implement `LeafSets` |
| `program` | `MCProgram` | the components that hold accounts, money and rights |
| `surroundings` | `MCSurroundings` | the components where the program meets what is outside it |

Four more runs end in a counterexample, where the code does not do what a
comment or a message in it says (section 5).

**Compositions.** `MCProgram` and `MCSurroundings` extend the components'
modules and choose one of them at the start (`subject`); it takes steps and the
others stay as they start. The run so explores the sum of the components'
behaviours, not their product: the components share no variables, and their
interaction is inside the modules that model two sides (`HealthAccount`,
`LiquidateHelper`, `Transactions`, `Serum3`, the feeds).

**Properties.** Those of one component are stated separately, each with its
comment, and checked as one conjunction at the end of the module. Invariants:

| Checked | Conjuncts |
|---|---|
| `TokenBooksAgree` | types; bank totals match positions; closed positions are empty; banks of a token share indexes; net borrows are not understated |
| `HealthIsConsistent` | Init, LiquidationEnd and Maint health are ordered; both splits give health; settlement health is backed; adjusted caches agree with rebuilt ones |
| `LiquidatableAccountsAreHandled` | some liquidation applies to every account that `is_liquidatable` reports, one in the middle of its liquidation included, unless taker fills have to be consumed first; the bot finds an instruction that the program accepts, or waits for those fills; lists of allowed tokens lead to no refused pair |
| `PerpBooksAgree` | longs match shorts; settled tokens are backed; perp liquidation makes progress |
| `SwapsAreSound` | types; swaps hold their token positions; tokens are conserved; trades are the best possible; prices stay in the swap's range |
| `ListingsAreSafe` | types; the settings of every bank go together, also in a shift's weights; banks of a token differ in nothing but the fallback oracle, and agree with the `MintInfo`; one mint per index; fast listings are rationed and harmless |
| `AccountsAreProtected` | types; frozen accounts are left alone; freezes and temporary delegations end |
| `StoredReferencesHold` | types; use counts match; orders keep their slots; the active index finds the bank |
| `TransactionsEndClean` | no loan and no region stays open; loans are repaid or owed |
| `SpotBooksAgree` | potential tokens match orders and cover their execution, at whatever limit prices they were placed; placed prices bound orders; fees only for traded tokens; vaults match books; deposit limits hold |
| `FillsFollowTheQueue` | clients (subscribed to the market, the maker or the taker), the table, also when a statement is retried, and head updates follow the event queue |
| `LevelsFollowTheBook` | types; clients of levels hold the book; checkpoints are current; a cached side whose account, and for perp bids whose oracle, is recorded and usable shows the account's valid orders, also after fork switches |
| `JobsAreSound` | types; the job never panics on the note of events; events that come while it is idle are remembered; a rebalance follows every liquidation the job saw confirmed; failures are throttled |
| `QuotesAreSound` | types; one first query per pair; locks are held for queries; the cache is the lowest price; refusals are founded |
| `RoundsFit` | executions keep limits; nothing fitting is left out; what is sent fits together |
| `PerpLedgerBalances`, `TreesAreSound` | the sums of `PerpAccounting`; the structure of `OrderTree` |

and properties of steps:

| Checked | Conjuncts |
|---|---|
| `TokenStepsAreBacked` | deposits are credited in full; books stay backed; reduce-only holds |
| `ExecutionNeverLowersHealth` | executing orders and settling never lowers health |
| `LiquidationIsFair` | losses are borne in full, insurance first; liquidation takes what is needed; bankruptcy needs insolvency |
| `PerpStepsAreFair` | profits have losers; settling leaves no unbacked borrow, and can be done in parts; bankruptcy ends at zero |
| `SwapStepsAreFair` | ids are not reused; auctions do not restart; positions and health are respected |
| `ListingPowersAreLimited` | the security admin only restricts; weights move gradually |
| `PowerComesFromItsHolder` | authority comes from the owner; settings change with the right signature; admin power comes from the admin |
| `TransactionsKeepAccountsSafe` | transactions keep health; accounts being liquidated stay put |
| `PricesAreSound` | types, used prices are recent, stable and delay prices stay in the range seen, are delayed, and move within limits |
| `StorageIsLists`, `ImplementsFifo`, `ImplementsLeafSets` | refinement of `AccountSlots`, `EventFifo`, `LeafSets` |

**Bounds.** Perp runs: `MaxSeqNum` (orders placed) is 3 or 4 and `MaxTs`
(seconds) at most 2. Two orders are needed for a trade, a third to reuse a slot
while the events of the first wait, a fourth to meet the reused slot. The queue
has room for two or three events and a side for two or three orders, so that
both are full in many states; an account has two slots, so that they run out.
Orders expire one second after they are posted. Each run offers the few orders
of `MCPerpMarket` that its question needs; all orders together have every order
type, self-trade behaviour, and both trees. Accounts are symmetric in the
safety runs. The liveness run uses no symmetry.

`MCOrderTree` has eight nodes (four orders in one tree, five in two) and six
orders, so that sides fill up, drop orders, use freed nodes again, and a
changed expiry travels past two parents. Two of the orders expire; two of the
others are removed (`Removals`). Handles make many states that differ only in
where nodes lie; this, and not the number of orders, limits the bounds.

In the compositions each component starts from a few states chosen for its
question (an account just below water and one far below it, insurance that does
and does not last, an account with open orders on both sides) and takes three
to six steps (`...MaxSteps`): enough to begin something, have it disturbed by
another actor, and finish it. The services have two accounts or one client and
two to four versions of an account, enough for one that is late and one that
belongs to an abandoned fork; the quote cache has four concurrent tasks over two
pairs; spot orders come at three limit prices, so that the extreme prices of the
open orders matter; the failure threshold of the liquidator is small enough to be reached.

**Deadlock** is checked in the perp and order tree runs. The oracle may always
move between instructions of `PerpMarket`, so the check says that no *running*
instruction is ever stuck: each iteration has a successor, an end, or a way to
fail. The compositions stop at their bounds and do not check it.

**Fairness** is assumed in `perp_live` only. `WF(NewOrderStep)` and
`WF(CancelNext)`: an instruction that has started runs to its end, because it
is atomic on chain. `SF(PerpConsumeEvents)`: keepers
(`bin/keeper/src/crank.rs`, `bin/service-mango-crank`) call
`perp_consume_events` again and again and are not held off for ever by other
instructions that run in between. Nothing else is fair: no order need ever be
placed or cancelled, and the clock and the oracle may stand still. In the
liveness run no position is deactivated, because a deactivated position blocks
the queue (finding `perp_netting`).

**Mutants.** For every property of a passing run there is a definition that
changes the model as a plausible bug would, with which the property fails in
that run.

## 4. Proofs

Theorems hold for every value of the constants that the named `ASSUME`s allow;
TLC evaluates these in the runs. What an instance of a run limits (steps, time,
numbers of accounts, tokens, tasks, orders) is arbitrary in the proofs.

**Event queue** (`EventQueueProofs`). The ring buffer keeps its types, queued
events have consecutive numbers, and it implements `EventFifo` under the mapping
that reads the buffer from `head` on. The inductive invariant adds to the types
that `count <= seq_num`, which is what `revert_pushes` subtracts from; the step
cases are arithmetic on `(head + i) % BufLen`, for which one lemma says that an
index wraps at most once.

**Perp order book** (`PerpMatchingProofs`, `PerpPostingProofs`,
`PerpMarketProofs`; the invariant is in `PerpInvariant`). For all accounts,
slots, orders, fees, oracle prices and capacities:

| Theorem | Property |
|---|---|
| `TypeCorrect` | `TypeOK`: in particular an order's remaining lots never turn negative |
| `BookOrdersHaveSlotsTheorem` | the slot an order on the book names records that order |
| `TakenSlotsAreFreedTheorem` | no slot is leaked |
| `FinishedOrdersAreGoneTheorem` | an order whose finishing event is queued is off the book and in no later event |
| `OtherMarketsKeepTheirSlotsTheorem` | no step that changes this market changes a slot of another market |
| `ForceClosingReducesTheorem` | base positions change by settled trades, or towards zero |

The argument is one inductive invariant,

    IInv == TypeOK /\ IdsInv /\ PricesInv /\ TxInv /\ SlotsInv

* `SlotsInv` is the three slot properties together. They need each other: a
  finishing event may free a slot only because the slot's order is that of the
  event, and that nothing else still refers to it.
* `IdsInv`: ids are sequence numbers already used and no two orders on the book
  share one. Without it a stale event could be taken for one of a new order.
* `PricesInv` and part of `LoopInv`: prices that are divided by are positive.
* `TxInv` is the strengthening that matters. Matching changes neither the book
  nor the queue; it writes down deletions, changed quantities and events, and
  `CompleteOrder` applies them. `MatchInv` says that the orders still to visit
  and those already written down are disjoint, that each order is written down
  once, with exactly one event, and that the event is a finishing one exactly
  if the order is to be deleted. `BatchKeepsSlots` shows that applying such a
  set of notes keeps `SlotsInv`; posting is a batch with at most one note (the
  order dropped to make room) and one new leaf in a free slot.

There is one lemma per action, named `...KeepsIInv`: those of the matching loop
are in `PerpMatchingProofs`, those that finish an order in `PerpPostingProofs`,
the others, `NextKeepsIInv` and the theorems in `PerpMarketProofs`. `IInv` was
checked with TLC on the instances `MCPerpCore` and `MCPerpPeg` before it was
proved.

**Authority** (`AccessControlProofs`). `AccountsAreProtectedTheorem` and
`PowerComesFromItsHolderTheorem`. Each instruction is an entry: whether its
constraints accept a context, and what the instruction may do with the account.
The lemma `EntriesAreGuarded`, proved group by group, says of every entry that
it is accepted for a frozen account only if it is a listed exception, and that
unless anybody may run it, it is accepted only from the owner or delegate. The invariant adds to
the types that owners stay and that freezes and temporary delegations end
within a week of the clock. Who gains power in a step is then a comparison of
the entries accepted before and after it: a step by anybody but the holder only
freezes an account or closes gates, and both only shrink the set of accepted
entries (`OthersOnlyFreeze`, `GroupEntriesShrink`, `ListingEntriesShrink`).

**Listings** (`ListingProofs`). `ListingsAreSafeTheorem` and
`ListingPowersAreLimitedTheorem`, from

    ListingInv == TokensAreSound /\ RationsHold /\ MarketsAreTyped /\ lsSigner \in LsKeys

* `TokensAreSound`: the banks of a token are alike (equal but for the fallback
  oracle), the first verifies, and a shift of weights lasts `ShiftDuration`.
  Edits work on each bank by itself; that they keep banks alike is
  `EditsAreSettings`, option by option (`SameFields`), and that a bank copied
  from any other is alike again is `TokenAddBankKeepsTokens`. A token nobody
  with full powers has edited also has no shift: otherwise its weight would
  grow later without an edit, and "harmless" would not be inductive.
* `RationsHold`: the property counts listings per calendar week, the code
  per interval with a counter that it resets. The invariant says that an
  interval starts at a week's start that is not in the future, that no listing
  lies in a later week, and that those of the interval's week are at most the
  counter.
* That weights move gradually is arithmetic on two rounded quotients
  (`PartIsBetween`, `PartsAreEven`, `SecondsAreGradual`); that the security
  admin only restricts is a lemma on the edits (`LenientEditsRestrict`) that
  `TokenEdit` and the edits of markets cite.

**Liquidator** (`LiquidatorBotProofs`). `JobsAreSoundTheorem`. The invariant adds
to the types that a running job has the note of events it will unwrap
(`RunsHaveTheirNote`), that an account not yet looked at is still on the job's
list or noted (`UncheckedIsOnTheList`, `NoteIsKept`), that the need to
rebalance follows the job's snapshots (`NeedsFollowSnapshots`), and how
the record of errors relates to the attempts that really failed
(`ErrorsAreTracked`): it may be wiped, but only after `KeepDuration`, which is
assumed to be no shorter than `SkipDuration`, as in the code. Without that
relation, throttling is not inductive.

**Quote cache** (`QuoteCacheProofs`). `QuotesAreSoundTheorem`. `TaskIsSound` says
of each place a task can be at which locks it holds and what the prices it
read are worth; `Spares` says what a step of one task leaves to the others, so
that there is one lemma per await point and one for all other tasks.

**Only model-checked:**

* liveness (`OffBookSlotsAreFreed`, `FullQueueDrains`), which the prover does not
  reach;
* properties that are sums over accounts, the book or the queue, since they need
  induction over data: `PerpLedgerBalances`, and those of `TokenLedger`,
  `PerpMoney`, `Liquidation`, `Health`, `Serum3`, `ConditionalSwap` and
  `Transactions`, which build on them;
* `OrderTree`, which is recursive throughout, and the refinements
  `ImplementsLeafSets` and `StorageIsLists`, whose mappings read
  lists out of memory by recursion or folds;
* `FillsAreBestFirst`, `PostedOrderMissedNoMatch`, `ReduceOnlyOrdersReduce` and
  `OldEventsSpareNewOrders` of `PerpMarket`; no inductive invariant for them
  has been worked out. The second is false of the code when pegged prices can
  fall out of range (finding `perp_falling_peg`), so it is about a restricted
  instance;
* `OraclePrices`, `FillsFeed`, `OrderbookFeed` and `TcsTaker`, not proved yet.

## 5. Findings

* `perp_netting`: `perp_deactivate_position` refuses a position with taker lots
  because it "still has events on event queue"; opposite fills cancel out, and
  a position is deactivated with events of its own queued.
* `perp_falling_peg`: the iterator over a side skips pegged asks that have no
  price, and moves on once too often: a valid pegged ask is passed over and a
  bid is posted that crosses it.
* `perp_upgrade_partial`: events from before the upgrade "match against any
  order", safely "because we don't allow old order's slots to be prematurely
  freed"; an old order that is filled in part is still on the book, can be
  cancelled, and its slot reused while the old fill waits.
* `order_tree_full`: on a full side a better order is to replace the worst one
  ("boot that bid and insert this one"). If all nodes are taken and the worst
  order is the only one of its tree, one node comes free, the insertion into
  the other tree needs two, and the order is refused.

**Further statements that are false of the code.** They are defined in the
modules, with the text they come from, next to the weaker property that is
checked; no run includes them.

| Statement | Where the code differs |
|---|---|
| `EventsCanBeConsumed` (`AccountStorage`) | an account can be made smaller than the slot that a queued fill names; the event then cannot be applied |
| `ForbiddenTokensAreSkipped` (`LiquidateHelper`) | `bin/liquidator/src/liquidate.rs:376-386`: the list of tokens is filtered and then paired by position with the unfiltered balances |
| `SkippedSidesAreCurrent` (`OrderbookFeed`) | `bin/service-mango-orderbook/src/orderbook_filter.rs:350`: the pass over the bids records the oracle's version, and the pass over the asks takes the oracle for unchanged; versions are recorded before the oracle turns out to be unusable (line 371); after a fork switch the version served is lower than the recorded one |
| `BanksShareFallbackOracle` (`Listing`) | `state/bank.rs:380`: a bank added to a token gets the existing bank's oracle as its fallback oracle |
| `UnliquidatableTokensHaveNoWeight` (`Listing`) | `state/bank.rs`, `verify`: the weight of a token whose liquidation is disabled must be zero, but not the target of its shift |
| `BookFollowersHoldTheBook` (`OrderbookFeed`) | same file, line 225: an L3 update is sent only if it has both additions and removals |
| `DelayPricesAreAverages` (`OraclePrices`) | `state/stable_price.rs:136`: a late update counts its time in full and its price for ten minutes |
| `LossesAreBorneInFull` with two banks of one token (`Liquidation`) | `token_liq_bankruptcy.rs:249-251`: the loss is divided by the deposits of one bank, the comment speaks of all |
| `TradableSwapsCanBeTriggered` (`ConditionalSwap`) | `token_conditional_swap_trigger.rs:443`: what remains is computed for a taker who owes `I80F48::MIN`; for a sold token with reduce-only deposits that is negated and overflows |
| `EventsAreRemembered` (`LiquidatorBot`) | `bin/liquidator/src/main.rs:466`: the end of a run removes the note of an event that came during the run |
| `ForcedClosingIsFair` (`PerpMoney`) | `perp_force_close_position.rs:42`: funding is not settled before the base position changes |
| `FreezeStopsAllButForcedCancels` (`AccessControl`) | more instructions accept a frozen account than the comment lists |
| `SkippingUnderestimates` (`HealthAccount`) | `health/cache.rs:1246`: with a skipped token its spot markets are skipped, whose open orders made the worst case of the other markets worse |
| `SubscribersGetCheckpoints` (`FillsFeed`) | `bin/service-mango-fills/src/main.rs:523`: checkpoints are kept under the queue's address and looked up under the market's |
| `FilterSurvives` (`FillsFeed`) | `fill_event_filter.rs:170`: the event before the head is read as `head - 1`, also at head 0 |

## 6. Not modelled

* Code without state of its own: the account retrievers
  (`health/account_retriever.rs`), the numeric searches clients use
  (`health/client.rs`), decoding of oracle accounts.
* `openbook_v2` instructions, which all return `Ok(())`; `airdrop`, which no
  entry point calls. Of address lookup tables and the withdrawal from the
  insurance fund only who may run them. The expiry of fees for buybacks
  (`state/mango_account.rs:404-447`).
* In `lib/` and `bin/`: the RPC client and its account fetchers, snapshot and
  websocket sources, priority fees, the table of swap slippage, the database
  writer of the liquidator. They move data between the network and the
  parts that are modelled; those are given data that is late, repeated, or from
  an abandoned fork instead.
* The rebalancer, the keeper's cranks, the settler and the pnl and crank
  services submit instructions from what they read. They appear as
  nondeterminism, as the fairness of `perp_live`, and as the job that a
  liquidation triggers in `LiquidatorBot`.
