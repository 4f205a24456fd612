------------------------------- MODULE Serum3 -------------------------------
(***************************************************************************)
(* Spot markets of the external Serum/OpenBook program: how this program   *)
(* places, cancels and settles orders on behalf of its accounts, and keeps *)
(* track of what flows between its vaults and their open orders accounts.  *)
(*                                                                         *)
(* One market of tokens "base" and "quote".  The external program is       *)
(* modelled by what these instructions rely on: funds it locks, releases,  *)
(* trades and pays out.  A price is an integer number of native quote per  *)
(* native base, and bids are remembered by price where the code keeps      *)
(* the inverse.  The indexes of the banks stay at one.                     *)
(***************************************************************************)
EXTENDS Bank, FiniteSets, FiniteSetsExt

CONSTANTS S3Accounts,
          S3Opened,                    \* accounts that begin with an open orders account
          S3Modes,                     \* modes the banks may be put into
          S3SeedDeposits,              \* native deposits of each account, per token
          S3DepositLimit,              \* deposit_limit of the banks
          S3OtherDeposits,             \* native deposits of everyone else, per token
          S3LimitPrices, S3Quantities, \* of orders
          S3OraclePrice,               \* of base in quote
          S3PriceBand,                 \* 1 + oracle_price_band, in units; 0 for none
          S3MinVaultRatio,             \* min_vault_to_deposits_ratio, in units
          S3V1Enabled,                 \* the gate of Serum3PlaceOrder (v1)
          S3MaxOrders, S3MaxSteps      \* bounds

VARIABLES s3Banks, s3Vaults,  \* banks, and the native tokens in their vaults
          s3Pos,              \* token positions
          serum,              \* Serum3Orders of each account
          oo,                 \* open orders accounts of the external program
          s3Market,           \* reduce_only and force_close of the Serum3Market
          spent,              \* history: tokens that left an open orders account by trading
          charged,            \* history: what origination fees were charged for
          usedV1,             \* history: accounts that placed an order without the receiver bank
          rebated,            \* history: rebates paid to accounts
          s3Steps

s3Vars == <<s3Banks, s3Vaults, s3Pos, serum, oo, s3Market, spent, charged, usedV1,
            rebated, s3Steps>>

S3Tokens == {"base", "quote"}

Payer(side) == IF side = "bid" THEN "quote" ELSE "base"

Receiver(side) == IF side = "bid" THEN "base" ELSE "quote"

Saturating(a, b) == Greatest(a - b, 0)

\* Serum3Orders as create_serum3_orders leaves it, and after deactivation
NewSerum(active) ==
  [active |-> active, borrows_without_fee |-> [t \in S3Tokens |-> 0],
   highest_placed_bid |-> 0, lowest_placed_bid |-> 0,
   lowest_placed_ask |-> 0, highest_placed_ask |-> 0,
   potential |-> [t \in S3Tokens |-> 0]]

-----------------------------------------------------------------------------
\* The external program

NewOpenOrders == [free |-> [t \in S3Tokens |-> 0], total |-> [t \in S3Tokens |-> 0],
                  rebates |-> 0, orders |-> {}]

Reserved(o, t) == o.total[t] - o.free[t]

HasSide(o, side) == \E x \in o.orders : x.side = side

\* What an order of this size locks of the payer token
Locks(side, price, qty) == IF side = "bid" THEN qty * price ELSE qty

\* What trading qty at a price takes of the payer token and gives of the other
Takes(side, price, qty) == IF side = "bid" THEN qty * price ELSE qty

Gives(side, price, qty) == IF side = "bid" THEN qty ELSE qty * price

\* The free funds are used first, the vault pays the rest of what is locked.
DepositNeeded(o, side, price, qty) ==
  Saturating(Locks(side, price, qty), o.free[Payer(side)])

\* An order of which filled is traded at once at fill_price and the rest is
\* posted or dropped; what it does not need is free again.
Placed(o, side, price, qty, filled, fill_price, posted, id) ==
  LET p == Payer(side)
      r == Receiver(side)
      deposit == DepositNeeded(o, side, price, qty)
      rest == IF posted THEN qty - filled ELSE 0
      total == o.total[p] + deposit - Takes(side, fill_price, filled)
      reserved == Reserved(o, p) + Locks(side, price, rest)
      got == Gives(side, fill_price, filled)
  IN [o EXCEPT !.total = [@ EXCEPT ![p] = total, ![r] = @ + got],
               !.free = [@ EXCEPT ![p] = total - reserved, ![r] = @ + got],
               !.rebates = IF filled > 0 THEN @ + 1 ELSE @,
               !.orders = IF rest > 0
                            THEN @ \cup {[id |-> id, side |-> side, price |-> price, qty |-> rest]}
                            ELSE @]

\* qty of the resting order x is traded
FilledOo(o, x, qty) ==
  LET p == Payer(x.side)
      r == Receiver(x.side)
  IN [o EXCEPT !.total = [@ EXCEPT ![p] = @ - Takes(x.side, x.price, qty),
                                   ![r] = @ + Gives(x.side, x.price, qty)],
               !.free = [@ EXCEPT ![r] = @ + Gives(x.side, x.price, qty)],
               !.orders = (@ \ {x}) \cup
                          (IF qty < x.qty THEN {[x EXCEPT !.qty = @ - qty]} ELSE {})]

\* cancel_one and cancel_all: what the orders lock is free again
Cancelled(o, xs) ==
  [o EXCEPT !.free = [t \in S3Tokens |->
                        @[t] + MapThenSumSet(LAMBDA x : Locks(x.side, x.price, x.qty),
                                             {x \in xs : Payer(x.side) = t})],
            !.orders = @ \ xs]

\* Pays the free funds to the vaults, and the rebates to the quote vault
SettledOo(o) ==
  [o EXCEPT !.total = [t \in S3Tokens |-> Reserved(o, t)], !.free = [t \in S3Tokens |-> 0],
            !.rebates = 0]

-----------------------------------------------------------------------------
\* Tracking what happened

\* The extremes of the prices placed: forgotten when the side was empty before
\* (o is the open orders account then), extended when the order is on the book.
TrackedPrices(s, o, side, price, on_book) ==
  LET s1 == IF HasSide(o, "bid") THEN s
            ELSE [s EXCEPT !.highest_placed_bid = 0, !.lowest_placed_bid = 0]
      s2 == IF HasSide(o, "ask") THEN s1
            ELSE [s1 EXCEPT !.lowest_placed_ask = 0, !.highest_placed_ask = 0]
      low(x) == IF x = 0 THEN price ELSE Least(x, price)
  IN IF ~on_book THEN s2
     ELSE IF side = "ask"
       THEN [s2 EXCEPT !.lowest_placed_ask = low(@), !.highest_placed_ask = Greatest(@, price)]
       ELSE [s2 EXCEPT !.lowest_placed_bid = low(@), !.highest_placed_bid = Greatest(@, price)]

\* Converts the reserved tokens at the least favourable price that was placed
PotentialTokensLeastFavourable(s, o, t) ==
  o.total[t] +
  IF t = "base"
    THEN IF s.highest_placed_bid = 0 THEN 0 ELSE Reserved(o, "quote") \div s.highest_placed_bid
    ELSE Reserved(o, "base") * s.lowest_placed_ask

\* All tokens of the side, plus the reserved of the other at the most favourable
\* price that was placed.
PotentialTokens(s, o, t) ==
  o.total[t] +
  IF t = "base"
    THEN IF s.lowest_placed_bid = 0 THEN 0 ELSE Reserved(o, "quote") \div s.lowest_placed_bid
    ELSE Reserved(o, "base") * s.highest_placed_ask

\* Bank::update_potential_serum_tokens
UpdatePotentialSerumTokens(b, old, new) ==
  [b EXCEPT !.potential_serum_tokens =
     IF new >= old THEN @ + (new - old) ELSE Saturating(@, old - new)]

\* The banks and the Serum3Orders after update_bank_potential_tokens for the tokens ts
WithPotential(bs, s, o, ts) ==
  [banks |-> [t \in S3Tokens |->
                IF t \in ts THEN UpdatePotentialSerumTokens(bs[t], s.potential[t],
                                                            PotentialTokens(s, o, t))
                ELSE bs[t]],
   serum |-> [s EXCEPT !.potential = [t \in S3Tokens |->
                IF t \in ts THEN PotentialTokens(s, o, t) ELSE @[t]]]]

\* apply_vault_difference: the position changes by what the vault did; borrows
\* that went to the open orders account are remembered until they come back.
ApplyVaultDifference(b, p, s, t, change) ==
  LET m == ChangeWithoutFee(b, p.indexed, p.in_use > 0, change * ONE, 0)
      before == NativePosition(b, p.indexed)
      after == NativePosition(m.bank, m.pos)
      new_borrows == Floor(-Least(Greatest(after - before, after), 0))
      borrows == s.borrows_without_fee[t] + new_borrows
  IN [bank |-> m.bank, pos |-> [p EXCEPT !.indexed = m.pos],
      serum |-> [s EXCEPT !.borrows_without_fee =
                   [@ EXCEPT ![t] = IF change > 0 THEN Saturating(borrows, change) ELSE borrows]]]

-----------------------------------------------------------------------------
\* Instructions

S3Seen == <<s3Market, spent, charged, usedV1, rebated>>

Serum3CreateOpenOrders(a) ==
  /\ ~serum[a].active
  /\ serum' = [serum EXCEPT ![a] = NewSerum(TRUE)]
  /\ oo' = [oo EXCEPT ![a] = NewOpenOrders]
  /\ s3Pos' = [s3Pos EXCEPT ![a] = [t \in S3Tokens |->
                 [@[t] EXCEPT !.active = TRUE, !.in_use = @ + 1]]]
  /\ UNCHANGED <<s3Banks, s3Vaults>> /\ UNCHANGED S3Seen

\* The external program closes an empty open orders account only.
Serum3CloseOpenOrders(a) ==
  /\ serum[a].active
  /\ oo[a] = NewOpenOrders
  /\ serum' = [serum EXCEPT ![a].active = FALSE]
  /\ s3Pos' = [s3Pos EXCEPT ![a] = [t \in S3Tokens |-> [@[t] EXCEPT !.in_use = @ - 1]]]
  /\ UNCHANGED <<s3Banks, s3Vaults, oo>> /\ UNCHANGED S3Seen

\* What cancelling the given orders one by one, or by their client ids, does
Serum3CancelOrder(a, x) ==
  /\ serum[a].active
  /\ oo' = [oo EXCEPT ![a] = Cancelled(@, {x})]
  /\ UNCHANGED <<s3Banks, s3Vaults, s3Pos, serum>> /\ UNCHANGED S3Seen

Serum3CancelAllOrders(a, limit) ==
  /\ serum[a].active
  /\ \E xs \in kSubset(Least(limit, Cardinality(oo[a].orders)), oo[a].orders) :
       oo' = [oo EXCEPT ![a] = Cancelled(@, xs)]
  /\ UNCHANGED <<s3Banks, s3Vaults, s3Pos, serum>> /\ UNCHANGED S3Seen

\* The bank after an order that may have borrowed: reduce-only, utilization, net
\* borrows and the deposit limit where it did, utilization where not.
PayerChecks(b, withdrawn, before_native) ==
  IF withdrawn * ONE > before_native
    THEN /\ ~AreBorrowsReduceOnly(b)
         /\ UtilizationWithin(b, ONE - S3MinVaultRatio)
         /\ CheckNetBorrows(b, ONE)
         /\ CheckDepositAndOoLimit(b)
    ELSE UtilizationWithin(b, ONE)

\* A bid may not be too far below the oracle, an ask not too far above.
WithinBand(side, price) ==
  S3PriceBand # 0 => IF side = "bid" THEN price * S3PriceBand >= S3OraclePrice * ONE
                     ELSE price * ONE <= S3OraclePrice * S3PriceBand

\* total_serum3_potential at the oracle price or a placed one, in units
Serum3Potential(s, o, t) ==
  LET better(oracle, placed) == IF placed # 0 THEN Least(oracle, placed) ELSE oracle
      in_base == FDiv(Reserved(o, "quote") * ONE, S3OraclePrice * ONE)
      bid == IF s.highest_placed_bid = 0 THEN 0
             ELSE FDiv(Reserved(o, "quote") * ONE, s.highest_placed_bid * ONE)
  IN IF t = "base" THEN Reserved(o, "base") * ONE + better(in_base, bid)
     ELSE Reserved(o, "quote") * ONE + better(Reserved(o, "base") * S3OraclePrice * ONE,
                                              Reserved(o, "base") * s.lowest_placed_ask * ONE)

\* Where deposits are reduce-only, no order may end in one.
ReceiverAccepts(b, native, s, o, t) ==
  AreDepositsReduceOnly(b) => native + o.free[t] * ONE + Serum3Potential(s, o, t) < ONE

\* The health checks may pass or fail: an instruction that fails changes nothing.
\* v2 tracks the receiver bank's potential tokens too.
Serum3PlaceOrder(a, side, price, qty, filled, fill_price, posted, v2, id) ==
  LET p == Payer(side)
      r == Receiver(side)
      o == oo[a]
      withdrawn == DepositNeeded(o, side, price, qty)
      before == NativePosition(s3Banks[p], s3Pos[a][p].indexed)
  IN /\ serum[a].active
     /\ ~s3Market.reduce_only
     /\ v2 \/ S3V1Enabled
     /\ withdrawn <= s3Vaults[p]
     /\ \E after \in {Placed(o, side, price, qty, filled, fill_price, posted, id)} :
        \E s \in {TrackedPrices(serum[a], o, side, price, after.orders # o.orders)} :
        \E w \in {WithPotential(s3Banks, s, after, IF v2 THEN S3Tokens ELSE {p})} :
        \E d \in {ApplyVaultDifference(w.banks[p], s3Pos[a][p], w.serum, p, -withdrawn)} :
          /\ CheckDepositAndOoLimit(w.banks[r])
          /\ PayerChecks(d.bank, withdrawn, before)
          /\ after.orders # o.orders => WithinBand(side, price)
          /\ ReceiverAccepts(w.banks[r], NativePosition(w.banks[r], s3Pos[a][r].indexed),
                             d.serum, after, r)
          /\ s3Banks' = [w.banks EXCEPT ![p] = d.bank]
          /\ s3Vaults' = [s3Vaults EXCEPT ![p] = @ - withdrawn]
          /\ s3Pos' = [s3Pos EXCEPT ![a][p] = d.pos]
          /\ serum' = [serum EXCEPT ![a] = d.serum]
          /\ oo' = [oo EXCEPT ![a] = after]
     /\ spent' = [spent EXCEPT ![a][p] = @ + Takes(side, fill_price, filled)]
     /\ usedV1' = IF v2 THEN usedV1 ELSE usedV1 \cup {a}
     /\ UNCHANGED <<s3Market, charged, rebated>>

\* What was borrowed for orders and is not in the open orders account any more
ActualizedLoan(s, o, t) == Saturating(s.borrows_without_fee[t], o.total[t])

\* charge_loan_origination_fees, for the open orders account before settling
Charged(b, p, s, o, t) ==
  LET loan == ActualizedLoan(s, o, t)
      m == WithdrawLoanOriginationFee(b, p.indexed, p.in_use > 0, loan * ONE, 0)
  IN IF loan = 0 THEN [bank |-> b, pos |-> p, serum |-> s]
     ELSE [bank |-> m.bank, pos |-> [p EXCEPT !.indexed = m.pos],
           serum |-> [s EXCEPT !.borrows_without_fee = [@ EXCEPT ![t] = o.total[t]]]]

\* The part of the quote vault's change that is the account's
QuoteChange(free, rebates, fees_to_dao) == IF fees_to_dao THEN free ELSE free + rebates

\* Charges open fees, lets the external program pay the free funds of o out (o is what
\* cancelling left), credits them and updates the potential tokens.
SettleFunds(a, before, o, fees_to_dao) ==
  LET after == SettledOo(o)
      change(t) == IF t = "base" THEN o.free[t]
                   ELSE QuoteChange(o.free[t], o.rebates, fees_to_dao)
      fees == IF fees_to_dao THEN o.rebates ELSE 0
  IN \E b1 \in {Charged(s3Banks["base"], s3Pos[a]["base"], serum[a], before, "base")} :
     \E q1 \in {Charged(s3Banks["quote"], s3Pos[a]["quote"], b1.serum, before, "quote")} :
     \E b2 \in {ApplyVaultDifference(b1.bank, b1.pos, q1.serum, "base", change("base"))} :
     \E q2 \in {ApplyVaultDifference([q1.bank EXCEPT !.collected_fees_native = @ + fees * ONE],
                                     q1.pos, b2.serum, "quote", change("quote"))} :
     \E w \in {WithPotential([base |-> b2.bank, quote |-> q2.bank], q2.serum, after, S3Tokens)} :
       /\ s3Banks' = w.banks
       /\ serum' = [serum EXCEPT ![a] = w.serum]
       /\ s3Pos' = [s3Pos EXCEPT ![a] = [base |-> b2.pos, quote |-> q2.pos]]
       /\ s3Vaults' = [base |-> s3Vaults["base"] + o.free["base"],
                       quote |-> s3Vaults["quote"] + o.free["quote"] + o.rebates]
       /\ oo' = [oo EXCEPT ![a] = after]
       /\ charged' = [charged EXCEPT ![a] = [t \in S3Tokens |->
                        @[t] + ActualizedLoan(serum[a], before, t)]]
       /\ rebated' = IF fees_to_dao THEN rebated ELSE rebated + o.rebates
       /\ UNCHANGED <<s3Market, spent, usedV1>>

Serum3SettleFunds(a, fees_to_dao) ==
  /\ serum[a].active
  /\ SettleFunds(a, oo[a], oo[a], fees_to_dao)

\* Anyone, for an account that is liquidatable or frozen or where the market is
\* being closed (otherwise nothing happens); at most limit orders.
Serum3LiqForceCancelOrders(a, allowed, limit) ==
  /\ serum[a].active
  /\ allowed \/ s3Market.force_close
  /\ \E xs \in kSubset(Least(limit, Cardinality(oo[a].orders)), oo[a].orders) :
       SettleFunds(a, oo[a], Cancelled(oo[a], xs), TRUE)

\* Someone trades against a resting order, and the event has been processed.
S3Fill(a, x, qty) ==
  /\ oo' = [oo EXCEPT ![a] = FilledOo(@, x, qty)]
  /\ spent' = [spent EXCEPT ![a][Payer(x.side)] = @ + Takes(x.side, x.price, qty)]
  /\ UNCHANGED <<s3Banks, s3Vaults, s3Pos, serum, s3Market, charged, usedV1, rebated>>

\* The modes of the market, and of the banks
S3EditMarket(reduce_only, force_close) ==
  /\ s3Market # [reduce_only |-> reduce_only, force_close |-> force_close]
  /\ s3Market' = [reduce_only |-> reduce_only, force_close |-> force_close]
  /\ UNCHANGED <<s3Banks, s3Vaults, s3Pos, serum, oo, spent, charged, usedV1, rebated>>

S3TokenEdit(t, mode) ==
  /\ s3Banks[t].reduce_only # mode
  /\ s3Banks' = [s3Banks EXCEPT ![t].reduce_only = mode]
  /\ UNCHANGED <<s3Vaults, s3Pos, serum, oo>> /\ UNCHANGED S3Seen

\* The account repays or adds tokens (token_deposit)
S3Deposit(a, t, amount) ==
  LET m == Deposit(s3Banks[t], s3Pos[a][t].indexed, s3Pos[a][t].in_use > 0, amount * ONE, 0)
  IN /\ s3Pos[a][t].in_use > 0
     /\ ~AreDepositsReduceOnly(s3Banks[t])
     /\ CheckDepositAndOoLimit(m.bank)
     /\ s3Banks' = [s3Banks EXCEPT ![t] = m.bank]
     /\ s3Pos' = [s3Pos EXCEPT ![a][t].indexed = m.pos]
     /\ s3Vaults' = [s3Vaults EXCEPT ![t] = @ + amount]
     /\ UNCHANGED <<serum, oo>> /\ UNCHANGED S3Seen

\* Banks with the seeded deposits, no orders
S3Init ==
  /\ s3Pos = [a \in S3Accounts |-> [t \in S3Tokens |->
               [indexed |-> S3SeedDeposits[a][t] * ONE, active |-> TRUE,
                in_use |-> IF a \in S3Opened THEN 1 ELSE 0]]]
  /\ s3Vaults = [t \in S3Tokens |->
                  S3OtherDeposits[t] + MapThenSumSet(LAMBDA a : S3SeedDeposits[a][t], S3Accounts)]
  /\ s3Banks = [t \in S3Tokens |->
                 [NewBank(ONE, 0, S3DepositLimit) EXCEPT !.indexed_deposits = s3Vaults[t] * ONE]]
  /\ serum = [a \in S3Accounts |-> NewSerum(a \in S3Opened)]
  /\ oo = [a \in S3Accounts |-> NewOpenOrders]
  /\ s3Market = [reduce_only |-> FALSE, force_close |-> FALSE]
  /\ spent = [a \in S3Accounts |-> [t \in S3Tokens |-> 0]]
  /\ charged = spent
  /\ usedV1 = {} /\ rebated = 0 /\ s3Steps = 0

\* An order may fill at its price or better, up to its size; ids order it by step.
S3Next ==
  /\ s3Steps < S3MaxSteps /\ s3Steps' = s3Steps + 1
  /\ \/ \E a \in S3Accounts :
          \/ Serum3CreateOpenOrders(a)
          \/ Serum3CloseOpenOrders(a)
          \/ \E side \in {"bid", "ask"}, price \in S3LimitPrices, qty \in S3Quantities,
                v2, posted \in BOOLEAN :
               \E filled \in {0, qty - 1, qty}, fill_price \in S3LimitPrices :
                 /\ Cardinality(oo[a].orders) < S3MaxOrders
                 /\ filled = 0 => fill_price = price
                 /\ filled = qty => posted
                 /\ IF side = "bid" THEN fill_price <= price ELSE fill_price >= price
                 /\ Serum3PlaceOrder(a, side, price, qty, filled, fill_price, posted, v2, s3Steps)
          \/ \E x \in oo[a].orders : Serum3CancelOrder(a, x)
          \/ Serum3CancelAllOrders(a, 2)
          \/ \E dao \in BOOLEAN : Serum3SettleFunds(a, dao)
          \/ \E allowed \in BOOLEAN : Serum3LiqForceCancelOrders(a, allowed, 1)
          \/ \E x \in oo[a].orders : \E qty \in {1, x.qty} : S3Fill(a, x, qty)
          \/ \E t \in S3Tokens, amount \in S3Quantities : S3Deposit(a, t, amount)
     \/ \E reduce_only, force_close \in BOOLEAN : S3EditMarket(reduce_only, force_close)
     \/ \E t \in S3Tokens, mode \in S3Modes : S3TokenEdit(t, mode)

S3Spec == S3Init /\ [][S3Next]_s3Vars

-----------------------------------------------------------------------------
\* Properties

S3SumOver(Of(_)) == MapThenSumSet(Of, S3Accounts)

\* Amounts are natural numbers, nothing is free that is not there, and the token
\* positions of a market are in use exactly while its open orders account exists.
S3TypeOK ==
  /\ \A a \in S3Accounts, t \in S3Tokens :
       /\ oo[a].free[t] \in 0 .. oo[a].total[t]
       /\ serum[a].borrows_without_fee[t] \in Nat /\ serum[a].potential[t] \in Nat
       /\ s3Pos[a][t].in_use = (IF serum[a].active THEN 1 ELSE 0)
       /\ serum[a].active => s3Pos[a][t].active
  /\ \A t \in S3Tokens : s3Vaults[t] \in Nat /\ s3Banks[t].potential_serum_tokens \in Nat

\* What the banks count as potential serum tokens is the sum of what the accounts'
\* Serum3Orders count, closed ones included (update_bank_potential_tokens, with one
\* bank per token: the saturating subtraction never bites).
PotentialTokensMatch ==
  \A t \in S3Tokens :
    s3Banks[t].potential_serum_tokens
      = S3SumOver(LAMBDA a : IF serum[a].active THEN serum[a].potential[t] ELSE 0)

\* "This creates an overestimation of the potential base and quote tokens flowing out
\* of this open orders account": however its orders trade, are cancelled or filled
\* later, unless a v1 instruction left the receiver bank out.
PotentialCoversExecution ==
  \A a \in S3Accounts \ usedV1, t \in S3Tokens :
    serum[a].active =>
      serum[a].potential[t] >=
        oo[a].total[t] + MapThenSumSet(LAMBDA x : Gives(x.side, x.price, x.qty),
                                       {x \in oo[a].orders : Receiver(x.side) = t})

\* Every resting order lies between the placed prices that health uses, which are
\* only forgotten when the side was empty.
PlacedPricesBoundOrders ==
  \A a \in S3Accounts : \A x \in oo[a].orders :
    IF x.side = "bid"
      THEN serum[a].lowest_placed_bid \in 1 .. x.price /\ serum[a].highest_placed_bid >= x.price
      ELSE serum[a].lowest_placed_ask \in 1 .. x.price /\ serum[a].highest_placed_ask >= x.price

\* "In particular a place-on-book, cancel, settle should not cost fees"
\* (base_borrows_without_fee): origination fees are only charged for tokens that
\* were traded away.
FeesOnlyForTradedTokens ==
  \A a \in S3Accounts, t \in S3Tokens : charged[a][t] <= spent[a][t]

\* A bank's vault holds what its books say: deposits less borrows, fees and dust; nothing
\* that went to or came from the market is counted twice or lost.
VaultsMatchBooks ==
  \A t \in S3Tokens :
    s3Vaults[t] * ONE = s3Banks[t].indexed_deposits - s3Banks[t].indexed_borrows
                        + s3Banks[t].collected_fees_native + s3Banks[t].dust

\* The deposits of a token and what open orders may add to them stay within its
\* deposit limit, rebates paid to accounts aside, as long as every order was
\* placed by v2: settling, cancelling and repaying later cannot exceed it.
DepositLimitHolds ==
  usedV1 = {} =>
    \A t \in S3Tokens :
      NativeDeposits(s3Banks[t]) + s3Banks[t].potential_serum_tokens * ONE
        <= (S3DepositLimit + rebated) * ONE

\* What the banks assume about open orders on the spot market covers what
\* these can do, and what they record of vaults and fees is what happened.
SpotBooksAgree ==
  /\ S3TypeOK
  /\ PotentialTokensMatch
  /\ PotentialCoversExecution
  /\ PlacedPricesBoundOrders
  /\ FeesOnlyForTradedTokens
  /\ VaultsMatchBooks
  /\ DepositLimitHolds

=============================================================================
