--------------------------- MODULE ConditionalSwap ---------------------------
(***************************************************************************)
(* Token conditional swaps: an account offers to buy one token for another *)
(* once the oracle price is right or an auction has begun, and anyone may  *)
(* start the auction and trade against the offer.                          *)
(*                                                                         *)
(* One account ("maker") holds the swaps and another ("taker") starts and  *)
(* triggers them.  Prices are I80F48 numbers in units of 1/ONE where the   *)
(* code computes with f64; the oracle price of "S" is one.  The indexes of *)
(* the banks do not move here: TokenLedger has their rounding.             *)
(***************************************************************************)
EXTENDS Bank, FiniteSets, FiniteSetsExt

CONSTANTS CsDepositLimit, \* deposit_limit of both banks
          CsMenu,       \* the swaps the maker may create
          CsSlots,      \* token_conditional_swap_count
          CsPrices,     \* oracle prices of "B", in units
          CsSeeds,      \* balances of maker and taker at the start
          CsCollateral, \* health the maker and taker have from other positions
          CsWeights,    \* asset and liability weights, for Init and LiquidationEnd
          CsRequests,   \* amounts the taker asks for
          StartIncentive,     \* TCS_START_INCENTIVE, in units
          HealthThreshold,    \* TCS_TRIGGER_INIT_HEALTH_THRESHOLD, in units
          HealthGrace,        \* the 1000 of check_health_post_checks, in units
          TakerFeeRate, MakerFeeRate,  \* the larger of the two banks' rates
          CsMaxTime, CsMaxSteps        \* bounds

VARIABLES swaps,        \* the maker's slots
          next_id,      \* next_token_conditional_swap_id
          csBanks, csPos, \* the banks, and each account's positions
          csLiquidated, \* being_liquidated of each account
          csPrice,      \* oracle price of "B"
          csNow, csSteps

csVars == <<swaps, next_id, csBanks, csPos, csLiquidated, csPrice, csNow, csSteps>>

CsTokens == {"B", "S"}

CsAccounts == {"maker", "taker"}

CsTypes == {"FixedPremium", "PremiumAuction", "LinearAuction"}

\* TokenConditionalSwap::default
NoSwap ==
  [is_configured |-> FALSE, id |-> 0, max_buy |-> 0, max_sell |-> 0, bought |-> 0, sold |-> 0,
   expiry_timestamp |-> CsMaxTime + 1, price_lower_limit |-> 0, price_upper_limit |-> 0,
   price_premium_rate |-> 0, taker_fee_rate |-> 0, maker_fee_rate |-> 0,
   buy_token_index |-> "none", sell_token_index |-> "none",
   allow_creating_deposits |-> FALSE, allow_creating_borrows |-> FALSE,
   tcs_type |-> "FixedPremium", start_timestamp |-> 0, duration_seconds |-> 0]

IsExpired(tcs) == csNow >= tcs.expiry_timestamp

PassedStart(tcs) == tcs.start_timestamp > 0 /\ csNow >= tcs.start_timestamp

IsStartableType(tcs) == tcs.tcs_type = "PremiumAuction"

RemainingBuy(tcs) == tcs.max_buy - tcs.bought

RemainingSell(tcs) == tcs.max_sell - tcs.sold

CsOraclePrice(t) == IF t = "B" THEN csPrice ELSE ONE

\* Native sell tokens per native buy token, at the oracles' prices
BasePrice(tcs) == FDiv(CsOraclePrice(tcs.buy_token_index), CsOraclePrice(tcs.sell_token_index))

PriceInRange(tcs) ==
  tcs.price_lower_limit <= BasePrice(tcs) /\ BasePrice(tcs) <= tcs.price_upper_limit

\* How far the auction is from its start to its end, in units of one
Progress(tcs) ==
  LET start == IF tcs.start_timestamp > 0 THEN tcs.start_timestamp ELSE csNow
  IN Least(((csNow - start) * ONE) \div tcs.duration_seconds, ONE)

\* premium_price
PremiumPrice(tcs) ==
  CASE tcs.tcs_type = "FixedPremium" -> FMul(BasePrice(tcs), ONE + tcs.price_premium_rate)
    [] tcs.tcs_type = "PremiumAuction" ->
         FMul(BasePrice(tcs), ONE + FMul(Progress(tcs), tcs.price_premium_rate))
    [] tcs.tcs_type = "LinearAuction" ->
         tcs.price_lower_limit
         + FMul(Progress(tcs), tcs.price_upper_limit - tcs.price_lower_limit)

MakerPrice(tcs) == FMul(PremiumPrice(tcs), ONE + tcs.maker_fee_rate)

CheckStartable(tcs) ==
  /\ ~IsExpired(tcs)
  /\ tcs.start_timestamp = 0
  /\ IsStartableType(tcs)
  /\ PriceInRange(tcs)

CheckTriggerable(tcs) ==
  /\ ~IsExpired(tcs)
  /\ IF tcs.tcs_type = "FixedPremium" THEN PriceInRange(tcs) ELSE PassedStart(tcs)

ClampToU64(native) == Greatest(Floor(native), 0)

\* The position may end at a deposit of less than one native token.
MaxBuyForPosition(tcs, position, b) ==
  Least(RemainingBuy(tcs),
        IF tcs.allow_creating_deposits /\ ~AreDepositsReduceOnly(b) THEN Unlimited
        ELSE Greatest(Ceil(-position), 0))

MaxSellForPosition(tcs, position, b) ==
  Least(RemainingSell(tcs),
        IF tcs.allow_creating_borrows /\ ~AreBorrowsReduceOnly(b) THEN Unlimited
        ELSE ClampToU64(position))

-----------------------------------------------------------------------------
\* How much is traded

TradeAmountInner(max_buy, max_sell, price) ==
  LET buy_for_sell ==
        IF price > ONE THEN Floor(FDiv(max_sell * ONE + ONE - DELTA, price))
        ELSE Ceil(FDiv(Least(Floor(FMul(max_buy * ONE, price)), max_sell) * ONE, price))
      buy_amount == Least(max_buy, buy_for_sell)
  IN [buy |-> buy_amount, sell |-> Least(max_sell, Floor(FMul(buy_amount * ONE, price)))]

\* Balances are native amounts in units; request is what the liqor asks for.
TradeAmount(tcs, price, request, liqee, liqor, bs) ==
  LET buy_bank == bs[tcs.buy_token_index]
      sell_bank == bs[tcs.sell_token_index]
  IN TradeAmountInner(
       Least(Least(request.buy,
                   MaxBuyForPosition(tcs, liqee[tcs.buy_token_index], buy_bank)),
             IF AreBorrowsReduceOnly(buy_bank) THEN ClampToU64(liqor[tcs.buy_token_index])
             ELSE Unlimited),
       Least(Least(request.sell,
                   MaxSellForPosition(tcs, liqee[tcs.sell_token_index], sell_bank)),
             IF AreDepositsReduceOnly(sell_bank)
               THEN Greatest(Ceil(-liqor[tcs.sell_token_index]), 0)
               ELSE Unlimited),
       price)

-----------------------------------------------------------------------------
\* Balances and health

NoPositionOf == [active |-> FALSE, indexed |-> 0, in_use |-> 0]

EnsuredPos(p) == IF p.active THEN p ELSE [NoPositionOf EXCEPT !.active = TRUE]

Natives(a) == [t \in CsTokens |-> NativePosition(csBanks[t], csPos[a][t].indexed)]

\* Health of an account with these balances, adjust_token_balance applied to
\* the cache; kind is "Init" or "LiquidationEnd".
CsHealth(a, natives, kind) ==
  LET contribution(t) ==
        FMul(FMul(natives[t], IF natives[t] > 0 THEN CsWeights[kind].asset
                              ELSE CsWeights[kind].liab), CsOraclePrice(t))
  IN CsCollateral[a] + contribution("B") + contribution("S")

\* check_health_pre: whether the account is still being liquidated
StillLiquidated(a, natives) ==
  csLiquidated[a] /\ CsHealth(a, natives, "Init") <= -ONE
                  /\ CsHealth(a, natives, "LiquidationEnd") <= -ONE

\* check_health_post_checks
CheckHealthPost(pre, post) ==
  \/ post >= 0
  \/ IF post < -HealthGrace THEN Ceil(post) >= Ceil(pre) ELSE post >= pre

-----------------------------------------------------------------------------
\* Creating and removing swaps

\* What the slot gets for an input; fee rates are taken from the banks.
NewSwap(input) ==
  [f \in DOMAIN NoSwap |->
     CASE f = "is_configured" -> TRUE
       [] f = "id" -> next_id
       [] f = "taker_fee_rate" -> TakerFeeRate
       [] f = "maker_fee_rate" -> MakerFeeRate
       [] f \in DOMAIN input -> input[f]
       [] OTHER -> NoSwap[f]]

\* What create_premium_auction and create_linear_auction ask of an auction: it
\* lasts at least a second, and a linear one is worth ten times the start
\* incentive at the stable prices (which are the oracles' here).
CreateOk(input) ==
  LET value(t, amount) == amount * CsOraclePrice(t)
  IN /\ input.tcs_type # "FixedPremium" => input.duration_seconds >= 1
     /\ input.tcs_type = "LinearAuction" =>
          Least(value(input.buy_token_index, input.max_buy),
                value(input.sell_token_index, input.max_sell)) >= 10 * StartIncentive

\* The id after a swap was created
NextId == next_id + 1

\* Takes the first free slot and keeps both tokens' positions in use.  A swap
\* that has already expired is ignored.
TokenConditionalSwapCreate(s, input) ==
  /\ CreateOk(input)
  /\ csNow < input.expiry_timestamp
  /\ ~swaps[s].is_configured /\ \A r \in 1 .. s - 1 : swaps[r].is_configured
  /\ input.buy_token_index # input.sell_token_index
  /\ swaps' = [swaps EXCEPT ![s] = NewSwap(input)]
  /\ next_id' = NextId
  /\ csPos' = [csPos EXCEPT !["maker"] =
                 [t \in CsTokens |-> [EnsuredPos(@[t]) EXCEPT !.in_use = @ + 1]]]
  /\ UNCHANGED <<csBanks, csLiquidated, csPrice, csNow>>

\* One token of a removed swap: its position is no longer held, and is closed
\* if less than a native token is left in it.
ReleasedPosition(b, p) ==
  LET held == [p EXCEPT !.in_use = @ - 1]
      r == DustIfPossible(b, held.indexed, held.in_use > 0, csNow)
  IN [bank |-> r.bank, pos |-> [held EXCEPT !.active = r.active, !.indexed = r.pos]]

\* Only the bought token is let go
ReleasedBuyOnly(bs, ps) ==
  LET r == ReleasedPosition(bs["B"], ps["B"])
  IN [banks |-> [bs EXCEPT !["B"] = r.bank], pos |-> [ps EXCEPT !["B"] = r.pos]]

\* token_decrement_dust_deactivate for both tokens of a swap
Released(bs, ps) ==
  [banks |-> [t \in CsTokens |-> ReleasedPosition(bs[t], ps[t]).bank],
   pos |-> [t \in CsTokens |-> ReleasedPosition(bs[t], ps[t]).pos]]

RemoveSwap(s) ==
  \E r \in {Released(csBanks, csPos["maker"])} :
    /\ swaps' = [swaps EXCEPT ![s] = NoSwap]
    /\ csBanks' = r.banks
    /\ csPos' = [csPos EXCEPT !["maker"] = r.pos]
    /\ UNCHANGED <<next_id, csLiquidated, csPrice, csNow>>

\* By the owner; a slot that is free is left as it is.
TokenConditionalSwapCancel(s, id) ==
  /\ swaps[s].is_configured
  /\ swaps[s].id = id
  /\ RemoveSwap(s)

-----------------------------------------------------------------------------
\* Starting and triggering

\* The incentive that goes from the maker to whoever starts an auction
Incentive(tcs) ==
  Greatest(Least(Least(FDiv(StartIncentive, CsOraclePrice(tcs.sell_token_index)),
                       RemainingSell(tcs) * ONE),
                 RemainingDepositsUntilLimit(csBanks[tcs.sell_token_index])), 0)

TokenConditionalSwapStart(s, id) ==
  LET tcs == swaps[s]
      t == tcs.sell_token_index
      liqee == csPos["maker"][t]
      liqor == EnsuredPos(csPos["taker"][t])
      pre == Natives("maker")
  IN /\ tcs.is_configured /\ tcs.id = id
     /\ ~csLiquidated["maker"]
     /\ CheckStartable(tcs)
     /\ \E m \in {CheckedTransferWithFee(csBanks[t], liqee.indexed, TRUE, Incentive(tcs),
                                         liqor.indexed, liqor.in_use > 0, Incentive(tcs),
                                         csNow, CsOraclePrice(t))} :
          LET post == NativePosition(m.bank, m.source)
          IN /\ m.ok
             /\ post < 0 => tcs.allow_creating_borrows
             /\ CheckHealthPost(CsHealth("maker", pre, "Init"),
                                CsHealth("maker", [pre EXCEPT ![t] = post], "Init"))
             /\ csBanks' = [csBanks EXCEPT ![t] = m.bank]
             /\ csPos' = [csPos EXCEPT !["maker"][t].indexed = m.source,
                                       !["taker"][t] = [liqor EXCEPT !.indexed = m.target]]
             /\ swaps' = [swaps EXCEPT ![s].start_timestamp = csNow,
                                       ![s].sold = @ + Floor(Incentive(tcs))]
     /\ UNCHANGED <<next_id, csLiquidated, csPrice, csNow>>

\* The sold tokens, with what the taker does not get kept as fees
SellTransfer(tcs, amount, liqee, liqor, liqor_gets) ==
  LET m == CheckedTransferWithFee(csBanks[tcs.sell_token_index],
                                  liqee.indexed, TRUE, amount.sell * ONE,
                                  liqor.indexed, liqor.in_use > 0, liqor_gets * ONE, csNow,
                                  CsOraclePrice(tcs.sell_token_index))
  IN [m EXCEPT !.bank.collected_fees_native = @ + (amount.sell - liqor_gets) * ONE]

BuyTransfer(tcs, amount, liqee, liqor) ==
  CheckedTransferWithFee(csBanks[tcs.buy_token_index], liqor.indexed, liqor.in_use > 0,
                         amount.buy * ONE, liqee.indexed, TRUE, amount.buy * ONE, csNow,
                         CsOraclePrice(tcs.buy_token_index))

\* Sell tokens for the liqor: at the premium price, less the taker fee
SellAmountToLiqor(tcs, amount) ==
  LET sold == Floor(FMul(amount.buy * ONE, PremiumPrice(tcs)))
  IN sold - Floor(FMul(sold * ONE, tcs.taker_fee_rate))

\* The swap after amount was traded
Recorded(tcs, amount) ==
  [tcs EXCEPT !.bought = @ + amount.buy, !.sold = @ + amount.sell,
              !.start_timestamp = IF PassedStart(tcs) THEN @ ELSE csNow]

\* What may be traded later is computed for a liqor owing I80F48::MIN of the sell
\* token.  Where its deposits are reduce-only that debt is negated, which
\* overflows and fails the instruction.
FutureTradeComputes(tcs, bs) == ~AreDepositsReduceOnly(bs[tcs.sell_token_index])

\* Whether the swap, which traded with this health before and after, is done
\* with: nothing or too little can be traded at this price, or health is low.
IsDone(tcs, liqee, bs, pre_health, post_health) ==
  LET price == MakerPrice(tcs)
      future == TradeAmountInner(MaxBuyForPosition(tcs, liqee[tcs.buy_token_index],
                                                   bs[tcs.buy_token_index]),
                                 MaxSellForPosition(tcs, liqee[tcs.sell_token_index],
                                                    bs[tcs.sell_token_index]),
                                 price)
  IN \/ future.buy = 0
     \/ future.sell = 0
     \/ post_health < pre_health /\ post_health < HealthThreshold
     \/ IF price > ONE THEN future.sell < 2 * Floor(price)
        ELSE future.buy < 2 * Floor(FDiv(ONE, price))

\* The sell balance the health check goes by, as if no loan fee were charged
HealthSellBalanceNoFee(pre, amount, post) == pre - amount.sell * ONE

\* It goes by what was really taken, the fee for a loan included
HealthSellBalance(pre, amount, post) == post

\* An inactive position of the liqor is closed.
LiqorPosition(p, indexed, active) ==
  IF active THEN [p EXCEPT !.indexed = indexed] ELSE NoPositionOf

\* Removes a swap that has expired, and otherwise trades what both sides can.
TokenConditionalSwapTrigger(s, id, request) ==
  LET tcs == swaps[s]
      b == tcs.buy_token_index
      t == tcs.sell_token_index
      pre == Natives("maker")
      liqor == [x \in CsTokens |-> EnsuredPos(csPos["taker"][x])]
  IN /\ ~csLiquidated["taker"]
     /\ tcs.is_configured /\ tcs.id = id
     /\ IF IsExpired(tcs) THEN RemoveSwap(s)
        ELSE /\ ~StillLiquidated("maker", pre)
             /\ CheckTriggerable(tcs)
             /\ \E amount \in {TradeAmount(tcs, MakerPrice(tcs), request, pre, Natives("taker"),
                                           csBanks)} :
                \E m \in {BuyTransfer(tcs, amount, csPos["maker"][b], liqor[b])},
                   n \in {SellTransfer(tcs, amount, csPos["maker"][t], liqor[t],
                                       SellAmountToLiqor(tcs, amount))} :
                \E post \in {[x \in CsTokens |->
                             IF x = b THEN pre[x] + amount.buy * ONE
                             ELSE HealthSellBalance(pre[x], amount,
                                                    NativePosition(n.bank, n.source))]} :
                  LET bs == [x \in CsTokens |-> IF x = b THEN m.bank ELSE n.bank]
                      ps == [x \in CsTokens |->
                               [csPos["maker"][x] EXCEPT !.indexed =
                                  IF x = b THEN m.target ELSE n.source]]
                      ends == [x \in CsTokens |-> NativePosition(bs[x], ps[x].indexed)]
                      pre_health == CsHealth("maker", pre, "Init")
                      post_health == CsHealth("maker", post, "Init")
                      liqorAfter == [x \in CsTokens |->
                                       IF x = b
                                         THEN LiqorPosition(liqor[x], m.source, m.source_active)
                                         ELSE LiqorPosition(liqor[x], n.target, n.target_active)]
                      done == IsDone(Recorded(tcs, amount), ends, bs, pre_health, post_health)
                      r == IF done THEN Released(bs, ps) ELSE [banks |-> bs, pos |-> ps]
                  IN /\ m.ok /\ n.ok
                     /\ FutureTradeComputes(tcs, bs)
                     /\ CheckHealthPost(pre_health, post_health)
                     /\ CsHealth("taker",
                                 [x \in CsTokens |->
                                    NativePosition(bs[x], liqorAfter[x].indexed)], "Init") >= 0
                     /\ swaps' = [swaps EXCEPT ![s] =
                                    IF done THEN NoSwap ELSE Recorded(tcs, amount)]
                     /\ csBanks' = r.banks
                     /\ csPos' = [maker |-> r.pos, taker |-> liqorAfter]
             /\ csLiquidated' = [csLiquidated EXCEPT !["maker"] = FALSE]
             /\ UNCHANGED <<next_id, csPrice, csNow>>

-----------------------------------------------------------------------------
\* The rest of the system, as far as swaps see it

\* The oracle's price, the clock, the modes of the banks (token_edit) and the start of
\* a liquidation
CsOracleMoves(p) ==
  /\ p # csPrice
  /\ csPrice' = p
  /\ UNCHANGED <<swaps, next_id, csBanks, csPos, csLiquidated, csNow>>

CsTick ==
  /\ csNow < CsMaxTime
  /\ csNow' = csNow + 1
  /\ UNCHANGED <<swaps, next_id, csBanks, csPos, csLiquidated, csPrice>>

CsTokenEdit(t, mode) ==
  /\ csBanks[t].reduce_only # mode
  /\ csBanks' = [csBanks EXCEPT ![t].reduce_only = mode]
  /\ UNCHANGED <<swaps, next_id, csPos, csLiquidated, csPrice, csNow>>

CsLiquidationStarts(a) ==
  /\ ~csLiquidated[a]
  /\ csLiquidated' = [csLiquidated EXCEPT ![a] = TRUE]
  /\ UNCHANGED <<swaps, next_id, csBanks, csPos, csPrice, csNow>>

CsSeededBank(t, seed) ==
  LET total(Side(_)) == FoldSet(LAMBDA a, sum : Side(seed[a][t]) + sum, 0, CsAccounts)
  IN [NewBank(ONE, 1, CsDepositLimit) EXCEPT
        !.indexed_deposits = total(LAMBDA x : Greatest(x, 0)),
        !.indexed_borrows = total(LAMBDA x : Greatest(-x, 0))]

CsInitAs(seed, price) ==
  /\ swaps = [s \in CsSlots |-> NoSwap]
  /\ next_id = 1
  /\ csBanks = [t \in CsTokens |-> CsSeededBank(t, seed)]
  /\ csPos = [a \in CsAccounts |-> [t \in CsTokens |->
                [active |-> seed[a][t] # 0, indexed |-> seed[a][t], in_use |-> 0]]]
  /\ csLiquidated = [a \in CsAccounts |-> FALSE]
  /\ csPrice = price
  /\ csNow = 1
  /\ csSteps = 0

CsInit == \E seed \in CsSeeds, price \in CsPrices : CsInitAs(seed, price)

CsNext ==
  /\ csSteps < CsMaxSteps
  /\ csSteps' = csSteps + 1
  /\ \/ \E s \in CsSlots :
          \/ \E input \in CsMenu : TokenConditionalSwapCreate(s, input)
          \/ \E id \in 1 .. next_id :
               \/ TokenConditionalSwapCancel(s, id)
               \/ TokenConditionalSwapStart(s, id)
               \/ \E r \in CsRequests : TokenConditionalSwapTrigger(s, id, r)
     \/ \E p \in CsPrices : CsOracleMoves(p)
     \/ CsTick
     \/ \E t \in CsTokens, mode \in {0, 1, 2} : CsTokenEdit(t, mode)
     \/ \E a \in CsAccounts : CsLiquidationStarts(a)

CsSpec == CsInit /\ [][CsNext]_csVars

-----------------------------------------------------------------------------
\* Properties

\* Swaps, positions and banks are of their types; what a swap has bought and sold never
\* exceeds what it may (the asserts at the end of trigger's action).
CsTypeOK ==
  /\ \A s \in CsSlots :
       /\ swaps[s].tcs_type \in CsTypes
       /\ swaps[s].bought \in 0 .. swaps[s].max_buy
       /\ swaps[s].sold \in 0 .. swaps[s].max_sell
  /\ csPos \in [CsAccounts -> [CsTokens -> [active : BOOLEAN, indexed : Int, in_use : Nat]]]
  /\ csLiquidated \in [CsAccounts -> BOOLEAN]
  /\ csNow \in 1 .. CsMaxTime

\* Each position of the maker is held once for every swap there is, whichever way swaps
\* were removed (by the owner, expired, done with), and stays active as long: health
\* computations and triggers rely on it being there.
SwapsHoldTheirTokens ==
  \A t \in CsTokens :
    /\ csPos["maker"][t].in_use = Cardinality({s \in CsSlots : swaps[s].is_configured})
    /\ csPos["maker"][t].in_use > 0 => csPos["maker"][t].active

\* Tokens only move: what the accounts hold, the collected fees and the dust of a bank add
\* up to the same at all times, and the bank's totals to the accounts' positions.
SwapsConserveTokens ==
  \A t \in CsTokens :
    LET held == csPos["maker"][t].indexed + csPos["taker"][t].indexed
    IN /\ csBanks[t].indexed_deposits - csBanks[t].indexed_borrows = held
       /\ \E seed \in CsSeeds :
            seed["maker"][t] + seed["taker"][t]
              = held + csBanks[t].collected_fees_native + csBanks[t].dust

\* trade_amount_inner gives the best trade there is, and never something for nothing:
\* above a price of one the most that can be bought without paying more than max_sell;
\* otherwise the most that can be sold, for the least number of bought tokens that
\* are worth it.
TradesAreTheBestPossible ==
  (\E s \in CsSlots : swaps[s].is_configured) => \A max_buy, max_sell \in 0 .. 4 :
    LET trade == TradeAmountInner(max_buy, max_sell, csPrice)
        pays(n) == Floor(FMul(n * ONE, csPrice))
        possible == {n \in 0 .. max_buy : pays(n) <= max_sell /\ (n > 0 => pays(n) > 0)}
        best == CHOOSE n \in possible :
                  /\ \A m \in possible : pays(m) <= pays(n)
                  /\ \A m \in possible : pays(m) = pays(n) => (csPrice <= ONE => n <= m)
    IN /\ trade.buy > 0 <=> trade.sell > 0
       /\ trade = [buy |-> best, sell |-> pays(best)]

\* While an auction runs, its price stays between where it starts and where it ends,
\* however late it is triggered.
PricesStayInTheirRange ==
  \A s \in CsSlots :
    LET tcs == swaps[s]
        top == FMul(BasePrice(tcs), ONE + tcs.price_premium_rate)
    IN tcs.is_configured /\ CheckTriggerable(tcs) =>
         IF tcs.tcs_type = "LinearAuction"
           THEN /\ PremiumPrice(tcs) >= Least(tcs.price_lower_limit, tcs.price_upper_limit)
                /\ PremiumPrice(tcs) <= Greatest(tcs.price_lower_limit, tcs.price_upper_limit)
           ELSE PremiumPrice(tcs) >= BasePrice(tcs) /\ PremiumPrice(tcs) <= top

\* An id belongs to one swap for ever, so an instruction meant for a swap that is gone
\* cannot reach the one that took its slot.
IdsAreNotReused ==
  \A s \in CsSlots :
    swaps'[s].is_configured /\ swaps'[s].id # swaps[s].id =>
      \A r \in CsSlots : swaps[r].id < swaps'[s].id

\* An auction's clock starts once: while the swap exists, its start is never moved after
\* it was set, so its premium cannot fall back.
AuctionsDoNotRestart ==
  \A s \in CsSlots :
    /\ swaps[s].is_configured /\ swaps'[s].is_configured
    /\ swaps[s].id = swaps'[s].id /\ swaps[s].start_timestamp > 0
    /\ swaps[s].tcs_type # "LinearAuction"
    => swaps'[s].start_timestamp = swaps[s].start_timestamp

\* The maker of a swap that may not create borrows or deposits never gets one from it:
\* trading or paying the start incentive, the balance sold stays at zero or above and
\* the balance bought below one native token.
SwapsRespectPositions ==
  \A s \in CsSlots :
    LET tcs == swaps[s]
        b == tcs.buy_token_index
        t == tcs.sell_token_index
        after(x) == NativePosition(csBanks'[x], csPos'["maker"][x].indexed)
    IN tcs.is_configured /\ tcs # swaps'[s] =>
         /\ tcs.allow_creating_borrows
            \/ after(t) >= Least(Natives("maker")[t], 0)
         /\ tcs.allow_creating_deposits
            \/ after(b) < Greatest(Natives("maker")[b], 0) + ONE

\* Whatever is done with a swap, its maker's initial health ends at zero or above or is
\* not lowered, up to the dust of the positions that are closed.
SwapsKeepHealth ==
  csPrice' = csPrice =>
    LET after == [t \in CsTokens |->
                    NativePosition(csBanks'[t], csPos'["maker"][t].indexed)
                    + csBanks'[t].dust - csBanks[t].dust]
    IN CheckHealthPost(CsHealth("maker", Natives("maker"), "Init"),
                       CsHealth("maker", after, "Init"))

\* A swap whose conditions hold and of which a taker could trade something is not refused
\* for the mode of the sold token's bank: a deposits-reduce-only bank still
\* lets a taker repay a borrow ("other liqors might not have reduce-only related
\* restrictions").
TradableSwapsCanBeTriggered ==
  \A s \in CsSlots :
    LET tcs == swaps[s]
    IN tcs.is_configured /\ CheckTriggerable(tcs) =>
         \A r \in CsRequests :
           TradeAmount(tcs, MakerPrice(tcs), r, Natives("maker"), Natives("taker"),
                       csBanks).buy > 0
             => FutureTradeComputes(tcs, csBanks)

\* Swaps hold the positions they need, conserve tokens and trade the best
\* amounts at prices within their range, however they come and go.
SwapsAreSound ==
  /\ CsTypeOK
  /\ SwapsHoldTheirTokens
  /\ SwapsConserveTokens
  /\ TradesAreTheBestPossible
  /\ PricesStayInTheirRange

\* A swap does to its maker only what the maker allowed: under its own id,
\* from its one start on, within the allowed positions and above the health
\* limit.
SwapStepsAreFair ==
  [][/\ IdsAreNotReused
     /\ AuctionsDoNotRestart
     /\ SwapsRespectPositions
     /\ SwapsKeepHealth]_csVars

=============================================================================
