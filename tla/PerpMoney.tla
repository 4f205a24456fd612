------------------------------ MODULE PerpMoney ------------------------------
(***************************************************************************)
(* The money of one perp market: funding, pnl and the limits on settling   *)
(* it, fees, the two perp liquidations and the closing of positions.       *)
(* Orders and events are the business of PerpMarket; here a fill reaches   *)
(* both positions in one step.  All accounts hold the settle token, whose  *)
(* bank has index one.                                                     *)
(*                                                                         *)
(* Base is in lots; quote, prices and factors are I80F48 in units of       *)
(* 1/ONE; the settle limits are whole native tokens.                       *)
(***************************************************************************)
EXTENDS Health

CONSTANTS PmAccounts,
          PmToken,          \* the settle token and parameters of its bank
          PmParams,         \* parameters of the market
          PmPrices,         \* prices the oracle may have
          FundingRates,     \* daily rates the book may imply
          FundingDay, MaxFundingStep,
          PmLots, PmFees,   \* sizes of fills; fees of maker and taker
          PmMaxBase, PmMaxTransfers, \* arguments of the liquidations
          PmSeeds,          \* starting states
          PmMaxTime, PmMaxSteps

VARIABLES perp,             \* PerpPosition of each account
          perp_market,
          pmSpot,           \* native settle tokens of each account
          pmVault,          \* settle tokens in the vault of the bank
          pmInsurance,      \* native settle tokens in the insurance fund
          pmLiquidated,     \* being_liquidated
          pmTime, pmSteps

pmVars == <<perp, perp_market, pmSpot, pmVault, pmInsurance, pmLiquidated, pmTime, pmSteps>>

AbsOf(n) == IF n < 0 THEN -n ELSE n

RoundToZero(x) == IF x < 0 THEN Ceil(x) ELSE Floor(x)

-----------------------------------------------------------------------------
\* PerpPosition

NoPosition == [base |-> 0, quote |-> 0, long_settled |-> 0, short_settled |-> 0, oneshot |-> 0,
               recurring |-> 0, window |-> 0, used |-> 0]

UnsettledFunding(p, m) ==
  p.base * (CASE p.base > 0 -> m.long_funding - p.long_settled
              [] p.base < 0 -> m.short_funding - p.short_settled
              [] p.base = 0 -> 0)

SettleFunding(p, m) ==
  [p EXCEPT !.quote = @ - UnsettledFunding(p, m), !.oneshot = @ - UnsettledFunding(p, m),
            !.long_settled = m.long_funding, !.short_settled = m.short_funding]

UnsettledPnl(p, price) == p.quote + p.base * PmParams.base_lot_size * price

\* update_trade_stats, of which only the settle allowance matters: what reducing
\* the position takes from the limit of the position is kept as recurring.
RecurringAfterTrade(p, base_change, m) ==
  LET new == p.base + base_change
      crossed == p.base * new <= 0
      reduced == IF crossed THEN AbsOf(p.base) ELSE Greatest(AbsOf(p.base) - AbsOf(new), 0)
      increased == IF crossed THEN AbsOf(new) ELSE Greatest(AbsOf(new) - AbsOf(p.base), 0)
      value == (increased - reduced) * PmParams.base_lot_size * m.stable
  IN IF base_change = 0 THEN p.recurring
     ELSE Greatest(p.recurring - Floor(FMul(value, m.settle_pnl_limit_factor)), 0)

\* apply_recurring_settle_pnl_allowance_constraint
ConstrainRecurring(p, m) ==
  [p EXCEPT !.recurring = Greatest(Least(@, Ceil(AbsOf(UnsettledPnl(p, m.stable)))), 0)]

\* open_interest counted for one side only
RecordTradeLongs(p, m, base_change, quote_change) ==
  [pos |-> ConstrainRecurring([p EXCEPT !.base = @ + base_change, !.quote = @ + quote_change], m),
   market |-> [m EXCEPT !.open_interest =
                          @ + Greatest(p.base + base_change, 0) - Greatest(p.base, 0)]]

\* record_trade, and the open interest it leaves
RecordTrade(p, m, base_change, quote_change) ==
  LET traded == [p EXCEPT !.recurring = RecurringAfterTrade(p, base_change, m),
                          !.base = @ + base_change, !.quote = @ + quote_change]
  IN [pos |-> ConstrainRecurring(traded, m),
      market |-> [m EXCEPT !.open_interest = @ + AbsOf(p.base + base_change) - AbsOf(p.base)]]

RecordTradingFee(p, fee) == [p EXCEPT !.quote = @ - fee, !.oneshot = @ - fee]

RecordLiquidationQuoteChange(p, change) == [p EXCEPT !.quote = @ + change, !.oneshot = @ + change]

RecordLiquidationPnlTakeover(p, change, recurring, oneshot) ==
  [p EXCEPT !.quote = @ + change, !.recurring = @ + recurring, !.oneshot = @ + oneshot * ONE]

UpdateSettleLimit(p, now) ==
  LET start == p.window * PmParams.window_size
  IN IF now >= start + PmParams.window_size \/ now < start
       THEN [p EXCEPT !.window = now \div PmParams.window_size, !.used = 0]
       ELSE p

\* settle_limit: a fraction of the position's value and the recurring allowance in
\* both directions, and the oneshot allowance in its own.  A market with a negative
\* factor has no limits.
SettleLimit(p, m) ==
  LET value == p.base * PmParams.base_lot_size * m.stable
      both == RoundToZero(FMul(m.settle_pnl_limit_factor, AbsOf(value)))
              + Least(p.recurring, Ceil(AbsOf(p.quote + value)))
  IN IF m.settle_pnl_limit_factor < 0 THEN [max |-> Unlimited, min |-> -Unlimited]
     ELSE [max |-> Greatest(both + (IF p.oneshot >= 0 THEN Ceil(p.oneshot) ELSE 0), 0),
           min |-> Least(-both + (IF p.oneshot < 0 THEN Floor(p.oneshot) ELSE 0), 0)]

AvailableSettleLimit(p, m) ==
  IF m.settle_pnl_limit_factor < 0 THEN SettleLimit(p, m)
  ELSE [max |-> Greatest(SettleLimit(p, m).max - p.used, 0),
        min |-> Least(SettleLimit(p, m).min - p.used, 0)]

ApplyPnlSettleLimit(p, m, pnl) ==
  CASE m.settle_pnl_limit_factor < 0 -> pnl
    [] m.settle_pnl_limit_factor >= 0 /\ pnl < 0 -> Greatest(pnl, AvailableSettleLimit(p, m).min * ONE)
    [] m.settle_pnl_limit_factor >= 0 /\ pnl >= 0 -> Least(pnl, AvailableSettleLimit(p, m).max * ONE)

RecordSettle(p, m, settled) ==
  LET reduction == IF settled > 0 THEN Greatest(Least(settled, p.oneshot), 0)
                   ELSE Least(Greatest(settled, p.oneshot), 0)
      new == ConstrainRecurring([p EXCEPT !.quote = @ - settled, !.oneshot = @ - reduction], m)
      change == new.recurring - p.recurring
      used == RoundToZero(settled - reduction)
      counted == CASE change >= 0 -> used
                   [] change < 0 /\ used > 0 -> Greatest(used + change, 0)
                   [] change < 0 /\ used <= 0 -> Least(used - change, 0)
  IN [new EXCEPT !.used = @ + counted]

-----------------------------------------------------------------------------
\* PerpMarket

\* The loss added to both indices, so that shorts gain by it
SocializeLossOneSign(m, loss) ==
  LET share == FDiv(loss, m.open_interest * ONE)
  IN IF m.open_interest = 0 THEN m
     ELSE [m EXCEPT !.long_funding = @ - share, !.short_funding = @ - share]

\* socialize_loss; without open interest nobody is charged
SocializeLoss(m, loss) ==
  LET share == FDiv(loss, m.open_interest * ONE)
  IN IF m.open_interest = 0 THEN m
     ELSE [m EXCEPT !.long_funding = @ - share, !.short_funding = @ + share]

\* compute_settle_fee
SettleFee(settlement, pnl_value, position_value, liq_end_health, maint_health) ==
  LET low == CASE liq_end_health >= 0 -> 0
               [] liq_end_health < 0 /\ maint_health < 0 ->
                    FMul(settlement, PmParams.settle_fee_fraction_low_health)
               [] liq_end_health < 0 /\ maint_health >= 0 ->
                    FMul(FMul(settlement, PmParams.settle_fee_fraction_low_health),
                         FDiv(-liq_end_health, maint_health - liq_end_health))
      fee == IF settlement >= PmParams.settle_fee_amount_threshold
               THEN PmParams.settle_fee_flat
               ELSE Least(low, 2 * PmParams.settle_fee_flat)
  IN IF 100 * pnl_value <= position_value THEN 0 ELSE Least(fee, settlement)

-----------------------------------------------------------------------------
\* Health: the settle token and the perp position, funding included

PmCacheWith(m, p, spot) ==
  [tokens |-> (PmParams.settle :> TokenInfoOf(PmToken, [oracle |-> ONE, stable |-> ONE], spot, 0, 0)),
   serums |-> <<>>,
   perps |-> <<PerpInfoOf(PmParams, [oracle |-> m.oracle, stable |-> m.stable], p.base,
                          p.quote - UnsettledFunding(p, m), 0, 0, FALSE)>>]

PmCache(a) == PmCacheWith(perp_market, perp[a], pmSpot[a])

PmHealth(a, ht) == HealthOf(PmCache(a), ht)

PmHealthAfter(a, ht) == HealthOf(PmCacheWith(perp_market', perp'[a], pmSpot'[a]), ht)

PmStep == pmSteps < PmMaxSteps /\ pmSteps' = pmSteps + 1

-----------------------------------------------------------------------------
\* Trading, funding and the clock

\* execute_perp_maker and execute_perp_taker, with the fee each of them pays; the
\* taker's fee was deducted when the order was placed.
Filled(p, m, base_change, quote_change, fee) ==
  RecordTrade(RecordTradingFee(SettleFunding(p, m), fee), m, base_change, quote_change)

\* A fill of lots (bought by the taker, or sold if negative) reaches the maker's
\* position, then the taker's, which may be the same.  There is nothing to check: the
\* health of both was checked when they placed their orders.
PmFill(maker, taker, lots, price, fees) ==
  LET quote == lots * PmParams.base_lot_size * price
      fee(rate) == FMul(AbsOf(quote), rate)
      mk == Filled(perp[maker], perp_market, -lots, quote, fee(fees.maker))
      made == [perp EXCEPT ![maker] = mk.pos]
      tk == Filled(made[taker], mk.market, lots, -quote, fee(fees.taker))
  IN /\ PmStep
     /\ perp' = [made EXCEPT ![taker] = tk.pos]
     /\ perp_market' = [tk.market EXCEPT !.fees_accrued = @ + fee(fees.maker) + fee(fees.taker)]
     /\ UNCHANGED <<pmSpot, pmVault, pmInsurance, pmLiquidated, pmTime>>

\* update_funding_and_stable_price.  The rate is what the impact prices of the book
\* give, within the market's limits; the stable price may follow the oracle.
PerpUpdateFunding(rate, stable) ==
  LET m == perp_market
      elapsed == Least(pmTime - m.funding_last_updated, MaxFundingStep)
      delta == FMul(FMul(PmParams.base_lot_size * m.oracle, rate),
                    FDiv(elapsed * ONE, FundingDay * ONE))
  IN /\ PmStep
     /\ pmTime > m.funding_last_updated
     /\ stable \in {m.stable, m.oracle}
     /\ perp_market' = [m EXCEPT !.long_funding = @ + delta, !.short_funding = @ + delta,
                                 !.funding_last_updated = pmTime, !.stable = stable]
     /\ UNCHANGED <<perp, pmSpot, pmVault, pmInsurance, pmLiquidated, pmTime>>

PmSetPrice(price) ==
  /\ PmStep
  /\ price # perp_market.oracle
  /\ perp_market' = [perp_market EXCEPT !.oracle = price]
  /\ UNCHANGED <<perp, pmSpot, pmVault, pmInsurance, pmLiquidated, pmTime>>

PmTick ==
  /\ PmStep
  /\ pmTime < PmMaxTime
  /\ pmTime' = pmTime + 1
  /\ UNCHANGED <<perp, perp_market, pmSpot, pmVault, pmInsurance, pmLiquidated>>

-----------------------------------------------------------------------------
\* Settling

\* The positions with funding and limits brought up to date, and the amount: what
\* the limits of both allow and what b can pay for.
Settlement(a, b, b_max_settle) ==
  LET m == perp_market
      pa == UpdateSettleLimit(SettleFunding(perp[a], m), pmTime)
      pb == UpdateSettleLimit(SettleFunding(perp[b], m), pmTime)
  IN [a |-> pa, b |-> pb,
      amount |-> Least(Least(ApplyPnlSettleLimit(pa, m, UnsettledPnl(pa, m.oracle)),
                             -ApplyPnlSettleLimit(pb, m, UnsettledPnl(pb, m.oracle))),
                       b_max_settle)]

\* Tokens change hands: the winner pays the fee, to whoever settles.
Paid(spot, a, b, settler, amount, fee) ==
  [[spot EXCEPT ![a] = @ + amount - fee, ![b] = @ - amount] EXCEPT ![settler] = @ + fee]

PerpSettlePnl(a, b, settler) ==
  /\ PmStep
  /\ a # b
  /\ UNCHANGED <<perp_market, pmVault, pmInsurance, pmLiquidated, pmTime>>
  /\ \E b_max_settle \in {PerpMaxSettle(PmCache(b), PmParams.settle)} :
     \E s \in {Settlement(a, b, b_max_settle)} :
     \E fee \in {SettleFee(s.amount, UnsettledPnl(s.a, perp_market.oracle),
                           AbsOf(s.a.base) * PmParams.base_lot_size * perp_market.oracle,
                           PmHealth(a, "LiquidationEnd"), PmHealth(a, "Maint"))} :
       /\ UnsettledPnl(s.a, perp_market.oracle) > 0
       /\ UnsettledPnl(s.b, perp_market.oracle) < 0
       /\ b_max_settle > 0
       /\ s.amount > 0
       /\ perp' = [perp EXCEPT ![a] = RecordSettle(s.a, perp_market, s.amount),
                               ![b] = RecordSettle(s.b, perp_market, -s.amount)]
       /\ pmSpot' = Paid(pmSpot, a, b, settler, s.amount, fee)

\* The window of the settle limit is not moved on; nothing to settle ends the
\* instruction with the funding settled.
PerpSettleFees(a, max_settle_amount) ==
  LET m == perp_market
      p == SettleFunding(perp[a], m)
      settleable == ApplyPnlSettleLimit(p, m, UnsettledPnl(p, m.oracle))
      amount == Least(Least(-settleable, m.fees_accrued), max_settle_amount)
  IN /\ PmStep
     /\ \/ /\ settleable >= 0 \/ m.fees_accrued <= 0
           /\ perp' = [perp EXCEPT ![a] = p]
           /\ UNCHANGED <<perp_market, pmSpot>>
        \/ /\ settleable < 0 /\ m.fees_accrued > 0
           /\ perp' = [perp EXCEPT ![a] = RecordSettle(p, m, -amount)]
           /\ perp_market' = [m EXCEPT !.fees_accrued = @ - amount, !.fees_settled = @ + amount]
           /\ pmSpot' = [pmSpot EXCEPT ![a] = @ - amount]
           /\ PmHealthAfter(a, "Init") >= 0
     /\ UNCHANGED <<pmVault, pmInsurance, pmLiquidated, pmTime>>

AdminPerpWithdrawFees ==
  LET amount == Least(Floor(perp_market.fees_settled) - perp_market.fees_withdrawn, pmVault)
  IN /\ PmStep
     /\ amount > 0
     /\ perp_market' = [perp_market EXCEPT !.fees_withdrawn = @ + amount]
     /\ pmVault' = pmVault - amount
     /\ UNCHANGED <<perp, pmSpot, pmInsurance, pmLiquidated, pmTime>>

-----------------------------------------------------------------------------
\* Closing positions

\* Neither position's funding is settled before its base changes.
PerpForceClosePosition(a, b) ==
  LET lots == Least(perp[a].base, -perp[b].base)
      quote == lots * PmParams.base_lot_size * perp_market.oracle
      ra == RecordTrade(perp[a], perp_market, -lots, quote)
      rb == RecordTrade(perp[b], ra.market, lots, -quote)
  IN /\ PmStep
     /\ PmParams.force_close
     /\ perp[a].base > 0 /\ perp[b].base < 0
     /\ perp' = [perp EXCEPT ![a] = ra.pos, ![b] = rb.pos]
     /\ perp_market' = rb.market
     /\ UNCHANGED <<pmSpot, pmVault, pmInsurance, pmLiquidated, pmTime>>

PerpDeactivatePosition(a) ==
  /\ PmStep
  /\ perp[a] # NoPosition
  /\ perp[a].base = 0 /\ perp[a].quote = 0
  /\ perp' = [perp EXCEPT ![a] = NoPosition]
  /\ UNCHANGED <<perp_market, pmSpot, pmVault, pmInsurance, pmLiquidated, pmTime>>

-----------------------------------------------------------------------------
\* Liquidation of the base position and of positive pnl

\* The fees on base taken over from a long (1 - fee) or from a short (1 + fee)
BaseFeeFactorLiqor(base) ==
  IF base > 0 THEN ONE - PmParams.base_liquidation_fee ELSE ONE + PmParams.base_liquidation_fee

BaseFeeFactorAll(base) ==
  BaseFeeFactorLiqor(base) + (IF base > 0 THEN -1 ELSE 1) * PmParams.platform_liquidation_fee

\* uhupnl_per_lot: what one lot closer to zero adds to the unweighted health pnl
UhupnlPerLot(base, m) ==
  FMul(PmParams.base_lot_size * m.oracle,
       IF base > 0 THEN BaseFeeFactorAll(base) - PmParams.init_base_asset_weight
       ELSE PmParams.init_base_liab_weight - BaseFeeFactorAll(base))

SpotGainPerSettled == ONE - PmParams.positive_pnl_liquidation_fee

\* The plan of a liquidation so far: lots reduced, pnl taken over, and what they
\* leave of the health pnl, the settle tokens and the health.
PlanAfter(ti, s, lots, pnl, uhupnl, token) ==
  [lots |-> s.lots + lots, pnl |-> s.pnl + pnl, uhupnl |-> s.uhupnl + uhupnl,
   token |-> s.token + token,
   health |-> s.health - TokenHealthContribution(ti, "LiquidationEnd", s.token)
              + TokenHealthContribution(ti, "LiquidationEnd", s.token + token)]

TokensForHealth(ti, s) ==
  SpotAmountGivenForHealthZero(s.health, s.token, AssetWeightedPrice(ti, "LiquidationEnd"),
                               LiabWeightedPrice(ti, "LiquidationEnd"))

\* reduce_base
ReduceBase(ti, s, base, max_base, limit, expected, actual, per_lot) ==
  LET wanted == Ceil(FDiv(Least(TokensForHealth(ti, s), limit), expected))
      lots == Greatest(Least(wanted, Least(AbsOf(base) - s.lots, max_base - s.lots)), 0)
  IN PlanAfter(ti, s, lots, 0, per_lot * lots, actual * lots)

\* settle_pnl
SettlePnl(ti, s, max_pnl) ==
  LET per == SpotGainPerSettled - PmParams.init_overall_asset_weight
      settle == Greatest(Least(FDiv(TokensForHealth(ti, s), per),
                               Least(max_pnl - s.pnl, s.uhupnl)), 0)
  IN IF s.uhupnl >= 0 /\ per > 0 THEN PlanAfter(ti, s, 0, settle, -settle, FMul(settle, per))
     ELSE s

\* Steps 1 to 5 of liquidation_action: base is reduced while the health pnl is
\* negative, pnl is settled, base is reduced for more pnl to settle, that is
\* settled, and base is reduced for the health that unsettled pnl gives.
PlanStep(ti, base, max_base, max_pnl, per_lot, s, step) ==
  LET weight == PmParams.init_overall_asset_weight
  IN CASE step = 1 /\ s.uhupnl < 0 ->
            ReduceBase(ti, s, base, max_base, -s.uhupnl, per_lot, per_lot, per_lot)
       [] step \in {2, 4} -> SettlePnl(ti, s, max_pnl)
       [] step = 3 /\ s.uhupnl >= 0 /\ s.pnl < max_pnl ->
            ReduceBase(ti, s, base, max_base, max_pnl - s.pnl, FMul(per_lot, SpotGainPerSettled),
                       FMul(per_lot, weight), per_lot)
       [] step = 5 /\ s.health < -(ONE \div 2) /\ weight > 0 ->
            ReduceBase(ti, s, base, max_base, Unlimited, FMul(per_lot, weight),
                       FMul(per_lot, weight), per_lot)
       [] OTHER -> s

LiquidationPlan(c, base, max_base, max_pnl, m) ==
  FoldLeft(LAMBDA s, step : PlanStep(c.tokens[PmParams.settle], base, max_base, max_pnl,
                                     UhupnlPerLot(base, m), s, step),
           [lots |-> 0, pnl |-> 0,
            uhupnl |-> UnweightedHealthUnsettledPnl(c.perps[1], "LiquidationEnd"),
            token |-> EffectiveTokenBalances(c, "LiquidationEnd", FALSE)[PmParams.settle],
            health |-> HealthOf(c, "LiquidationEnd")],
           <<1, 2, 3, 4, 5>>)

\* The settle limits that go with pnl taken over: a share of the liqee's limits,
\* at least one of recurring limit and no more than the pnl.
LimitTransfer(limit, p, pnl_transfer, m) ==
  LET oneshot == Greatest(Ceil(p.oneshot), 0)
      settle == Floor(pnl_transfer)
      total == Greatest(Greatest(Ceil(UnsettledPnl(p, m.oracle)), 1), settle)
      recurring == Greatest(Least((Greatest(limit - oneshot, 0) * settle) \div total,
                                  Ceil(pnl_transfer)), 1)
  IN [recurring |-> recurring,
      oneshot |-> Greatest(Least((oneshot * settle) \div total, Ceil(pnl_transfer) - recurring), 0)]

\* The forced trade of a liquidation: the positions and the market after it
ForcedTrade(e, r, m, base_transfer) ==
  LET quote == -base_transfer * PmParams.base_lot_size * m.oracle
      to_liqee == FMul(quote, BaseFeeFactorAll(e.base))
      to_liqor == FMul(-quote, BaseFeeFactorLiqor(e.base))
      traded == RecordTrade(e, m, base_transfer, to_liqee)
      against == RecordTrade(r, traded.market, -base_transfer, to_liqor)
  IN IF base_transfer = 0 THEN [liqee |-> e, liqor |-> r, market |-> m]
     ELSE [liqee |-> traded.pos, liqor |-> against.pos,
           market |-> [against.market EXCEPT
                         !.fees_accrued = @ + Greatest(-to_liqor - to_liqee, 0)]]

\* The liqor takes over the plan's pnl at a discount.
TakeOver(t, limits, pnl) ==
  IF pnl = 0 THEN t
  ELSE [t EXCEPT !.liqee = RecordSettle(@, t.market, pnl),
                 !.liqor = RecordLiquidationPnlTakeover(@, pnl, limits.recurring, limits.oneshot)]

PerpLiqBaseOrPositivePnl(liqee, liqor, max_base, max_pnl) ==
  /\ PmStep
  /\ liqee # liqor
  /\ ~pmLiquidated[liqor]
  /\ \E c \in {PmCache(liqee)} :
       \/ /\ CheckLiquidatable(pmLiquidated[liqee], c) = "BecameNotLiquidatable"
          /\ pmLiquidated' = [pmLiquidated EXCEPT ![liqee] = FALSE]
          /\ UNCHANGED <<perp, perp_market, pmSpot>>
       \/ /\ CheckLiquidatable(pmLiquidated[liqee], c) = "Liquidatable"
          /\ \E e \in {UpdateSettleLimit(SettleFunding(perp[liqee], perp_market), pmTime)},
                r \in {SettleFunding(perp[liqor], perp_market)},
                plan \in {LiquidationPlan(c, perp[liqee].base, max_base, max_pnl, perp_market)} :
             \E t \in {ForcedTrade(e, r, perp_market, (IF e.base > 0 THEN -1 ELSE 1) * plan.lots)} :
             \E done \in {TakeOver(t, LimitTransfer(SettleLimit(e, perp_market).max, t.liqee,
                                                    plan.pnl, perp_market), plan.pnl)} :
               /\ perp' = [perp EXCEPT ![liqee] = done.liqee, ![liqor] = done.liqor]
               /\ perp_market' = done.market
               /\ pmSpot' = [pmSpot EXCEPT ![liqee] = @ + FMul(plan.pnl, SpotGainPerSettled),
                                           ![liqor] = @ - FMul(plan.pnl, SpotGainPerSettled)]
          /\ PmHealthAfter(liqor, "Init") >= 0
          /\ \E health \in {PmHealthAfter(liqee, "LiquidationEnd")} :
               /\ health >= HealthOf(c, "LiquidationEnd")
               /\ pmLiquidated' =
                    [pmLiquidated EXCEPT ![liqee] = StillBeingLiquidated(TRUE, health)]
  /\ UNCHANGED <<pmVault, pmInsurance, pmTime>>

-----------------------------------------------------------------------------
\* Liquidation of negative pnl, and bankruptcy

PmInsurancePrice == ONE + PmParams.base_liquidation_fee

\* The liqor takes over losses that the liqee can pay for and that its settle limit
\* lets it settle; all says that no more could be settled.
TakeOverLoss(e, r, m, max_settle, max_liab_transfer) ==
  LET max == Greatest(Least(max_settle, -ApplyPnlSettleLimit(e, m, UnsettledPnl(e, m.oracle))), 0)
      amount == Least(max, max_liab_transfer)
  IN [amount |-> amount, all |-> amount = max,
      liqee |-> IF amount > 0 THEN RecordSettle(e, m, -amount) ELSE e,
      liqor |-> IF amount > 0 THEN RecordLiquidationQuoteChange(r, -amount) ELSE r]

\* What insurance and socialisation together may take off the liqee's loss: what
\* its health needs, and no more than the loss that is left.
BankruptLoss(pnl, health, balance) ==
  Greatest(Least(-pnl, SpotAmountGivenForHealthZero(health, balance, PmToken.init_asset_weight,
                                                    PmToken.init_liab_weight)), 0)

\* Losses that the liqor takes for tokens of the insurance fund
Insure(t, m, loss, max_liab_transfer, fund) ==
  LET to_liqor == Greatest(Least(loss, max_liab_transfer), 0)
      transfer == Least(Ceil(FMul(to_liqor, PmInsurancePrice)), fund)
      amount == Least(FDiv(transfer * ONE, PmInsurancePrice), to_liqor)
  IN [transfer |-> transfer, remaining |-> loss - amount, exhausted |-> transfer = fund,
      liqee |-> IF transfer > 0 THEN RecordSettle(t.liqee, m, -amount) ELSE t.liqee,
      liqor |-> IF transfer > 0 THEN RecordLiquidationQuoteChange(t.liqor, -amount) ELSE t.liqor]

\* Step 2 of liquidation_action, if negative pnl remains that cannot be settled: the
\* insurance fund, and what it does not cover is socialised.
Bankruptcy(liqee, liqor, t, m, loss, max_liab_transfer) ==
  \E i \in {Insure(t, m, loss, max_liab_transfer, IF PmParams.insured THEN pmInsurance ELSE 0)} :
    \E m2 \in {IF i.exhausted /\ i.remaining > 0 THEN SocializeLoss(m, -i.remaining) ELSE m} :
      /\ perp_market' = m2
      /\ perp' = [perp EXCEPT
           ![liqee] = IF i.exhausted /\ i.remaining > 0
                             THEN RecordSettle(i.liqee, m2, -i.remaining) ELSE i.liqee,
           ![liqor] = i.liqor]
      /\ pmSpot' = [pmSpot EXCEPT ![liqee] = @ - t.amount,
                                  ![liqor] = @ + t.amount + i.transfer * ONE]
      /\ pmVault' = pmVault + i.transfer
      /\ pmInsurance' = pmInsurance - i.transfer

PerpLiqNegativePnlOrBankruptcy(liqee, liqor, max_liab_transfer) ==
  /\ PmStep
  /\ UNCHANGED pmTime
  /\ liqee # liqor
  /\ ~pmLiquidated[liqor]
  /\ \E c \in {PmCache(liqee)} :
       /\ ~HasPhase1Liquidatable(c) /\ ~HasPhase2Liquidatable(c)
       /\ \/ /\ CheckLiquidatable(pmLiquidated[liqee], c) = "BecameNotLiquidatable"
             /\ pmLiquidated' = [pmLiquidated EXCEPT ![liqee] = FALSE]
             /\ UNCHANGED <<perp, perp_market, pmSpot, pmVault, pmInsurance>>
          \/ /\ CheckLiquidatable(pmLiquidated[liqee], c) = "Liquidatable"
             /\ \E e \in {UpdateSettleLimit(SettleFunding(perp[liqee], perp_market), pmTime)},
                   r \in {SettleFunding(perp[liqor], perp_market)} :
                  /\ UnsettledPnl(e, perp_market.oracle) < 0
                  /\ \E t \in {TakeOverLoss(e, r, perp_market, PerpMaxSettle(c, PmParams.settle),
                                            max_liab_transfer)} :
                     \E pnl \in {UnsettledPnl(t.liqee, perp_market.oracle)} :
                       \/ /\ t.all /\ pnl < 0
                          /\ Bankruptcy(liqee, liqor, t, perp_market,
                               BankruptLoss(pnl, HealthOf(c, "LiquidationEnd"),
                                 EffectiveTokenBalances(c, "LiquidationEnd", FALSE)[PmParams.settle]),
                               max_liab_transfer - t.amount)
                       \/ /\ ~t.all \/ pnl >= 0
                          /\ perp' = [perp EXCEPT ![liqee] = t.liqee, ![liqor] = t.liqor]
                          /\ pmSpot' = [pmSpot EXCEPT ![liqee] = @ - t.amount,
                                                      ![liqor] = @ + t.amount]
                          /\ UNCHANGED <<perp_market, pmVault, pmInsurance>>
             /\ PmHealthAfter(liqor, "Init") >= 0
             /\ pmLiquidated' = [pmLiquidated EXCEPT
                  ![liqee] = StillBeingLiquidated(TRUE, PmHealthAfter(liqee, "LiquidationEnd"))]

-----------------------------------------------------------------------------
SumOver(S, f(_)) == MapThenSumSet(f, S)

\* A seed gives base, quote and settle tokens of the accounts, the insurance fund
\* and the market's factor for settle limits; quotes and fees add up to zero.
PmInitAs(seed) ==
  /\ perp = [a \in PmAccounts |-> [NoPosition EXCEPT !.base = seed.base[a],
                                                     !.quote = seed.quote[a]]]
  /\ perp_market = [long_funding |-> 0, short_funding |-> 0, funding_last_updated |-> 0,
                    open_interest |-> SumOver(PmAccounts, LAMBDA a : AbsOf(seed.base[a])),
                    fees_accrued |-> -SumOver(PmAccounts, LAMBDA a : seed.quote[a]),
                    fees_settled |-> 0, fees_withdrawn |-> 0,
                    oracle |-> seed.price, stable |-> seed.price,
                    settle_pnl_limit_factor |-> seed.factor]
  /\ pmSpot = seed.spot
  /\ pmVault = Floor(SumOver(PmAccounts, LAMBDA a : seed.spot[a]))
  /\ pmInsurance = seed.insurance
  /\ pmLiquidated = [a \in PmAccounts |-> FALSE]
  /\ pmTime = 0
  /\ pmSteps = 0

PmInit == \E seed \in PmSeeds : PmInitAs(seed)

\* The orders that are filled were placed at the oracle price.
PmNext ==
  \/ \E a, b \in PmAccounts :
       \/ \E lots \in PmLots, price \in {perp_market.oracle}, fees \in PmFees : PmFill(a, b, lots, price, fees)
       \/ \E settler \in PmAccounts : PerpSettlePnl(a, b, settler)
       \/ PerpForceClosePosition(a, b)
       \/ \E max_base \in PmMaxBase, max_pnl \in PmMaxTransfers :
            PerpLiqBaseOrPositivePnl(a, b, max_base, max_pnl)
       \/ \E max \in PmMaxTransfers : PerpLiqNegativePnlOrBankruptcy(a, b, max)
  \/ \E a \in PmAccounts :
       \/ \E max \in PmMaxTransfers : PerpSettleFees(a, max)
       \/ PerpDeactivatePosition(a)
  \/ \E rate \in FundingRates, stable \in PmPrices : PerpUpdateFunding(rate, stable)
  \/ AdminPerpWithdrawFees
  \/ \E price \in PmPrices : PmSetPrice(price)
  \/ PmTick

PmSpec == PmInit /\ [][PmNext]_pmVars

-----------------------------------------------------------------------------
\* Properties

\* Settle limits, vault, insurance and open interest never fall below zero, and no more
\* fees are withdrawn than were settled (admin_perp_withdraw_fees).
PmTypeOK ==
  /\ \A a \in PmAccounts : perp[a].recurring \in Nat /\ perp[a].window \in Nat
  /\ pmVault \in Nat /\ pmInsurance \in Nat
  /\ perp_market.open_interest \in Nat
  /\ Floor(perp_market.fees_settled) >= perp_market.fees_withdrawn

\* Claims that the market still has to balance: what the accounts win and lose,
\* pending funding included, and the fees.
PerpClaims(m, positions) ==
  SumOver(PmAccounts, LAMBDA a : positions[a].quote - UnsettledFunding(positions[a], m))
  + m.fees_accrued

\* open_interest counts every lot, and longs match shorts, through fills, liquidations
\* and forced closing.
LongsMatchShorts ==
  /\ perp_market.open_interest = SumOver(PmAccounts, LAMBDA a : AbsOf(perp[a].base))
  /\ SumOver(PmAccounts, LAMBDA a : perp[a].base) = 0

\* The settle tokens of the accounts, and the fees settled but not withdrawn, are
\* what the vault holds: settling, liquidating and withdrawing fees never creates
\* or loses tokens.
SettledTokensAreBacked ==
  pmVault * ONE = SumOver(PmAccounts, LAMBDA a : pmSpot[a])
                  + perp_market.fees_settled - perp_market.fees_withdrawn * ONE

\* Perps are a zero-sum game: no fill, funding update, settlement, liquidation or
\* bankruptcy lets the accounts together win or lose, except for the rounding of a
\* loss shared over the open interest and for a loss that no open interest is left
\* to bear.  (Forced closing is the subject of ForcedClosingIsFair.)
ProfitsHaveLosers ==
  \/ AbsOf(PerpClaims(perp_market, perp)' - PerpClaims(perp_market, perp))
       <= perp_market.open_interest
  \/ \E a, b \in PmAccounts : PerpForceClosePosition(a, b)
  \/ perp_market.open_interest = 0
     /\ \E a, b \in PmAccounts, max \in PmMaxTransfers : PerpLiqNegativePnlOrBankruptcy(a, b, max)

\* change_base_position "assumes settle_funding was already called": closing positions
\* by force leaves the accounts together with what they had.
ForcedClosingIsFair ==
  [][\A a, b \in PmAccounts : PerpForceClosePosition(a, b) =>
       PerpClaims(perp_market, perp)' = PerpClaims(perp_market, perp)]_pmVars

\* "Further settlement would convert perp-losses into unbacked token-losses": after
\* settling, the losing account's tokens and perp profits still cover its token
\* borrows, and settling costs the winning account at most the fee.
SettlingLeavesNoUnbackedBorrow ==
  \A a, b, settler \in PmAccounts : PerpSettlePnl(a, b, settler) =>
    LET c == PmCache(b)'
    IN /\ HealthSum(c, "Maint", EffectiveTokenBalances(c, "Maint", TRUE)) >= -2
       /\ settler = a => PmHealth(a, "Init")' >= PmHealth(a, "Init") - 2

\* "This does not change liqee health", and bankruptcy raises it no further than
\* to the end of the liquidation.
BankruptcyEndsAtZero ==
  \A a, b \in PmAccounts, max \in PmMaxTransfers :
    PerpLiqNegativePnlOrBankruptcy(a, b, max) /\ PmHealth(a, "LiquidationEnd") <= -ONE =>
      /\ PmHealth(a, "LiquidationEnd")' >= PmHealth(a, "LiquidationEnd") - 2
      /\ PmHealth(a, "LiquidationEnd")' <= ONE

\* The limit on settling is used up once by what is settled: an account with
\* profits can settle the rest of what it could settle at first.
SettlingInPartsIsPossible ==
  \A a, b, settler \in PmAccounts :
    PerpSettlePnl(a, b, settler) =>
      LET s == UpdateSettleLimit(SettleFunding(perp[a], perp_market), pmTime)
          settled == s.quote - perp'[a].quote
          settleable(p) == ApplyPnlSettleLimit(p, perp_market, UnsettledPnl(p, perp_market.oracle))
      IN settleable(perp'[a]) >= settleable(s) - settled - 2 * ONE

\* Liquidating base and positive pnl always gets somewhere: an account that is still
\* below the end of its liquidation with base lots or positive pnl left has lots
\* or pnl that a liqor can take.
PerpLiquidationProgresses ==
  \A a \in PmAccounts :
    LET c == PmCache(a)
        plan == LiquidationPlan(c, perp[a].base, Unlimited, Unlimited, perp_market)
    IN pmLiquidated[a] /\ PmHealth(a, "LiquidationEnd") <= -ONE /\ HasPhase2Liquidatable(c) =>
         plan.lots > 0 \/ plan.pnl > 0

\* The books of a perp market agree: lots, settle tokens and fees add up, and
\* no liquidation of base or positive pnl is stuck.
PerpBooksAgree ==
  /\ PmTypeOK
  /\ LongsMatchShorts
  /\ SettledTokensAreBacked
  /\ PerpLiquidationProgresses

\* Perp money only changes hands: no step makes profits without losers,
\* unbacked borrows, more than bankruptcy needs, or settling that uses up a
\* limit twice.
PerpStepsAreFair ==
  [][/\ ProfitsHaveLosers
     /\ SettlingLeavesNoUnbackedBorrow
     /\ BankruptcyEndsAtZero
     /\ SettlingInPartsIsPossible]_pmVars

=============================================================================
