------------------------------- MODULE Health -------------------------------
(***************************************************************************)
(* The health of an account, as health/cache.rs computes it: a weighted    *)
(* sum over token balances, the worst case of open spot orders, and perp   *)
(* positions, which count through the token they settle in.                *)
(*                                                                         *)
(* A health cache is [tokens |-> a function from tokens to TokenInfo,      *)
(* serums |-> a sequence of Serum3Info, perps |-> a sequence of PerpInfo]. *)
(* Amounts, weights and prices are I80F48 in units of 1/ONE.               *)
(***************************************************************************)
EXTENDS Bank, Sequences, FiniteSets, FiniteSetsExt, SequencesExt

HealthTypes == {"Init", "Maint", "LiquidationEnd"}

\* Prices::liab and Prices::asset
LiabPrice(p, ht) == IF ht = "Init" THEN Greatest(p.oracle, p.stable) ELSE p.oracle

AssetPrice(p, ht) == IF ht = "Init" THEN Least(p.oracle, p.stable) ELSE p.oracle

AssetWeight(ti, ht) ==
  CASE ht = "Init" -> ti.init_scaled_asset_weight
    [] ht = "LiquidationEnd" -> ti.init_asset_weight
    [] ht = "Maint" -> ti.maint_asset_weight

LiabWeight(ti, ht) ==
  CASE ht = "Init" -> ti.init_scaled_liab_weight
    [] ht = "LiquidationEnd" -> ti.init_liab_weight
    [] ht = "Maint" -> ti.maint_liab_weight

AssetWeightedPrice(ti, ht) == FMul(AssetWeight(ti, ht), AssetPrice(ti.prices, ht))

LiabWeightedPrice(ti, ht) == FMul(LiabWeight(ti, ht), LiabPrice(ti.prices, ht))

TokenHealthContribution(ti, ht, balance) ==
  FMul(balance, IF balance < 0 THEN LiabWeightedPrice(ti, ht) ELSE AssetWeightedPrice(ti, ht))

\* scaled_init_asset_weight and scaled_init_liab_weight; a start of 0 stands
\* for f64::MAX, no scaling.  Deposits and borrows are those of the bank.
ScaledInitAssetWeight(weight, start, deposits, price) ==
  LET quote == FMul(deposits, price)
  IN IF start = 0 \/ quote <= start THEN weight ELSE (weight * start) \div quote

ScaledInitLiabWeight(weight, start, borrows, price) ==
  LET quote == FMul(borrows, price)
  IN IF start = 0 \/ quote <= start THEN weight ELSE (weight * quote) \div start

\* new_health_cache_impl's TokenInfo, from the bank's parameters and its native
\* deposits and borrows: both weights are scaled at the liability price.
TokenInfoOf(par, prices, balance, deposits, borrows) ==
  LET price == LiabPrice(prices, "Init")
  IN [balance_spot |-> balance, prices |-> prices,
      maint_asset_weight |-> par.maint_asset_weight,
      init_asset_weight |-> par.init_asset_weight,
      maint_liab_weight |-> par.maint_liab_weight,
      init_liab_weight |-> par.init_liab_weight,
      init_scaled_asset_weight |->
        ScaledInitAssetWeight(par.init_asset_weight, par.deposit_scale_start, deposits, price),
      init_scaled_liab_weight |->
        ScaledInitLiabWeight(par.init_liab_weight, par.borrow_scale_start, borrows, price),
      allow_asset_liquidation |-> par.allow_asset_liquidation]

\* PerpInfo::new, with the base and quote already net of taker fills and funding
PerpInfoOf(par, prices, base_lots, quote, bids, asks, open_fills) ==
  [settle |-> par.settle, base_lot_size |-> par.base_lot_size,
   maint_base_asset_weight |-> par.maint_base_asset_weight,
   init_base_asset_weight |-> par.init_base_asset_weight,
   maint_base_liab_weight |-> par.maint_base_liab_weight,
   init_base_liab_weight |-> par.init_base_liab_weight,
   maint_overall_asset_weight |-> par.maint_overall_asset_weight,
   init_overall_asset_weight |-> par.init_overall_asset_weight,
   prices |-> prices, base_lots |-> base_lots, quote |-> quote,
   bids_base_lots |-> bids, asks_base_lots |-> asks,
   has_open_orders |-> bids + asks > 0, has_open_fills |-> open_fills]

-----------------------------------------------------------------------------
\* Spot open orders

AllReservedAsBase(s, ht, tokens) ==
  LET oracle == FDiv(FMul(s.reserved_quote, AssetPrice(tokens[s.quote].prices, ht)),
                     LiabPrice(tokens[s.base].prices, ht))
      bid == FMul(s.reserved_quote, s.highest_placed_bid_inv)
  IN s.reserved_base + (IF bid # 0 THEN Least(oracle, bid) ELSE oracle)

AllReservedAsQuote(s, ht, tokens) ==
  LET oracle == FDiv(FMul(s.reserved_base, AssetPrice(tokens[s.base].prices, ht)),
                     LiabPrice(tokens[s.quote].prices, ht))
      ask == FMul(s.reserved_base, s.lowest_placed_ask)
  IN s.reserved_quote + (IF ask # 0 THEN Least(oracle, ask) ELSE oracle)

\* compute_serum3_reservations: what all markets could add to token t
MaxSerumReserved(c, ht, t) ==
  FoldSeq(LAMBDA s, sum : sum + (IF s.base = t THEN AllReservedAsBase(s, ht, c.tokens) ELSE 0)
                              + (IF s.quote = t THEN AllReservedAsQuote(s, ht, c.tokens) ELSE 0),
          0, c.serums)

\* compute_health_effect: what the market's reserved amount adds to health when
\* it comes last, after all other reservations of the token
HealthEffect(ti, ht, balance, max_reserved, reserved) ==
  LET max_balance == balance + max_reserved
      asset_part == IF max_balance >= reserved THEN reserved ELSE Greatest(max_balance, 0)
      liab_part == reserved - asset_part
  IN FMul(FMul(asset_part, AssetWeight(ti, ht)), AssetPrice(ti.prices, ht))
     + FMul(FMul(liab_part, LiabWeight(ti, ht)), LiabPrice(ti.prices, ht))

\* The better instead of the worse of the two outcomes
Serum3HealthContributionBest(c, ht, balances, s) ==
  LET as_base == AllReservedAsBase(s, ht, c.tokens)
      as_quote == AllReservedAsQuote(s, ht, c.tokens)
  IN Greatest(HealthEffect(c.tokens[s.base], ht, balances[s.base],
                           MaxSerumReserved(c, ht, s.base), as_base),
              HealthEffect(c.tokens[s.quote], ht, balances[s.quote],
                           MaxSerumReserved(c, ht, s.quote), as_quote))

Serum3HealthContribution(c, ht, balances, s) ==
  LET as_base == AllReservedAsBase(s, ht, c.tokens)
      as_quote == AllReservedAsQuote(s, ht, c.tokens)
  IN IF as_base = 0 \/ as_quote = 0 THEN 0
     ELSE Least(HealthEffect(c.tokens[s.base], ht, balances[s.base],
                             MaxSerumReserved(c, ht, s.base), as_base),
                HealthEffect(c.tokens[s.quote], ht, balances[s.quote],
                             MaxSerumReserved(c, ht, s.quote), as_quote))

-----------------------------------------------------------------------------
\* Perp positions

\* order_execution_case: the value of the base position with these orders executed
OrderExecutionCase(p, ht, orders_base_lots, order_price) ==
  LET net_base == (p.base_lots + orders_base_lots) * p.base_lot_size
      weight == CASE ht = "Maint" /\ net_base < 0 -> p.maint_base_liab_weight
                  [] ht = "Maint" /\ net_base >= 0 -> p.maint_base_asset_weight
                  [] ht # "Maint" /\ net_base < 0 -> p.init_base_liab_weight
                  [] ht # "Maint" /\ net_base >= 0 -> p.init_base_asset_weight
      price == IF net_base < 0 THEN LiabPrice(p.prices, ht) ELSE AssetPrice(p.prices, ht)
  IN FMul(net_base * weight, price) - orders_base_lots * p.base_lot_size * order_price

UnweightedHealthUnsettledPnl(p, ht) ==
  p.quote + Least(OrderExecutionCase(p, ht, p.bids_base_lots, LiabPrice(p.prices, ht)),
                  OrderExecutionCase(p, ht, -p.asks_base_lots, AssetPrice(p.prices, ht)))

\* weigh_uhupnl_overall
WeighOverall(p, unweighted, ht) ==
  IF unweighted > 0
    THEN FMul(IF ht = "Maint" THEN p.maint_overall_asset_weight
              ELSE p.init_overall_asset_weight, unweighted)
    ELSE unweighted

HealthUnsettledPnl(p, ht) == WeighOverall(p, UnweightedHealthUnsettledPnl(p, ht), ht)

-----------------------------------------------------------------------------
\* The whole account

EffectiveTokenBalances(c, ht, ignore_negative_perp) ==
  [t \in DOMAIN c.tokens |->
     c.tokens[t].balance_spot
     + FoldSeq(LAMBDA p, sum :
                 LET pnl == HealthUnsettledPnl(p, ht)
                 IN IF p.settle = t /\ (~ignore_negative_perp \/ pnl > 0) THEN sum + pnl ELSE sum,
               0, c.perps)]

HealthSum(c, ht, balances) ==
  MapThenSumSet(LAMBDA t : TokenHealthContribution(c.tokens[t], ht, balances[t]),
                DOMAIN c.tokens)
  + FoldSeq(LAMBDA s, sum : sum + Serum3HealthContribution(c, ht, balances, s), 0, c.serums)

HealthOf(c, ht) == HealthSum(c, ht, EffectiveTokenBalances(c, ht, FALSE))

\* The balances of token t that count as assets, or as liabilities
SideBalance(c, ht, t, sign) ==
  LET spot == sign * c.tokens[t].balance_spot
  IN Greatest(spot, 0)
     + FoldSeq(LAMBDA p, sum : IF p.settle = t
                                 THEN sum + Greatest(sign * HealthUnsettledPnl(p, ht), 0)
                                 ELSE sum,
               0, c.perps)

\* health_assets_and_liabs: the split that keeps assets, or liabilities, stable
StableSplit(assets, liabs, ap, lp, stable_assets) ==
  IF stable_assets
    THEN [assets |-> FMul(assets, ap),
          liabs |-> IF assets >= liabs THEN FMul(liabs, ap)
                    ELSE FMul(assets, ap) + FMul(liabs - assets, lp)]
    ELSE [liabs |-> FMul(liabs, lp),
          assets |-> IF assets >= liabs THEN FMul(liabs, lp) + FMul(assets - liabs, ap)
                     ELSE FMul(assets, lp)]

TokenAssetsAndLiabs(c, ht, stable_assets, t) ==
  StableSplit(SideBalance(c, ht, t, 1), SideBalance(c, ht, t, -1),
              AssetWeightedPrice(c.tokens[t], ht), LiabWeightedPrice(c.tokens[t], ht),
              stable_assets)

HealthAssetsAndLiabs(c, ht, stable_assets) ==
  LET part(t) == TokenAssetsAndLiabs(c, ht, stable_assets, t)
      balances == EffectiveTokenBalances(c, ht, FALSE)
      serum == FoldSeq(LAMBDA s, sum : sum + Serum3HealthContribution(c, ht, balances, s),
                       0, c.serums)
  IN [assets |-> MapThenSumSet(LAMBDA t : part(t).assets, DOMAIN c.tokens) + serum,
      liabs |-> MapThenSumSet(LAMBDA t : part(t).liabs, DOMAIN c.tokens)]

\* The part below zero taken at the asset price
SpotAmountTakenForHealthZeroAssets(health, starting_spot, ap, lp) ==
  IF health <= 0 THEN 0 ELSE FDiv(health, ap)

\* spot_amount_taken_for_health_zero
SpotAmountTakenForHealthZero(health, starting_spot, ap, lp) ==
  LET asset_max == FDiv(health, ap)
      from_spot == Greatest(starting_spot, 0)
      left == health - FMul(from_spot, ap)
  IN IF health <= 0 THEN 0
     ELSE IF starting_spot > 0 /\ ap > 0 /\ asset_max <= starting_spot THEN asset_max
     ELSE from_spot + (IF left > 0 THEN FDiv(left, lp) ELSE 0)

SpotAmountGivenForHealthZero(health, starting_spot, ap, lp) ==
  SpotAmountTakenForHealthZero(-health, -starting_spot, lp, ap)

PerpMaxSettle(c, settle) ==
  LET balances == EffectiveTokenBalances(c, "Maint", TRUE)
  IN SpotAmountTakenForHealthZero(HealthSum(c, "Maint", balances), balances[settle],
       AssetWeightedPrice(c.tokens[settle], "Maint"), LiabWeightedPrice(c.tokens[settle], "Maint"))

\* adjust_token_balance: the scaled weights are taken from the bank again, the
\* asset weight at the asset price (a new cache takes it at the liability price).
AdjustTokenBalance(c, t, change, params, deposits, borrows) ==
  LET ti == c.tokens[t]
  IN [c EXCEPT !.tokens[t] =
        [ti EXCEPT !.balance_spot = @ + change,
                   !.init_scaled_asset_weight =
                      ScaledInitAssetWeight(params.init_asset_weight, params.deposit_scale_start,
                                            deposits, AssetPrice(ti.prices, "Init")),
                   !.init_scaled_liab_weight =
                      ScaledInitLiabWeight(params.init_liab_weight, params.borrow_scale_start,
                                           borrows, LiabPrice(ti.prices, "Init"))]]

-----------------------------------------------------------------------------
\* The phases of a liquidation

HasLiqSpotAssets(c) ==
  LET balances == EffectiveTokenBalances(c, "LiquidationEnd", FALSE)
  IN \E t \in DOMAIN c.tokens :
       c.tokens[t].balance_spot >= ONE /\ balances[t] >= ONE /\ c.tokens[t].allow_asset_liquidation

HasLiqSpotBorrows(c) ==
  LET balances == EffectiveTokenBalances(c, "LiquidationEnd", FALSE)
  IN \E t \in DOMAIN c.tokens : c.tokens[t].balance_spot < 0 /\ balances[t] < 0

HasPossibleSpotLiquidations(c) == HasLiqSpotBorrows(c) /\ HasLiqSpotAssets(c)

HasPerp(c, Test(_)) == \E i \in DOMAIN c.perps : Test(c.perps[i])

HasPhase1Liquidatable(c) ==
  \/ \E i \in DOMAIN c.serums : ~c.serums[i].has_zero_funds
  \/ HasPerp(c, LAMBDA p : p.has_open_orders)

HasPhase2Liquidatable(c) ==
  \/ HasPossibleSpotLiquidations(c)
  \/ HasPerp(c, LAMBDA p : p.base_lots # 0)
  \/ HasPerp(c, LAMBDA p : p.has_open_fills)
  \/ HasPerp(c, LAMBDA p : p.base_lots = 0 /\ p.quote > 0)

HasPhase3Liquidatable(c) ==
  HasLiqSpotBorrows(c) \/ HasPerp(c, LAMBDA p : p.base_lots = 0 /\ p.quote < 0)

InPhase1Liquidation(c) == HasPhase1Liquidatable(c)

InPhase2Liquidation(c) == ~HasPhase1Liquidatable(c) /\ HasPhase2Liquidatable(c)

InPhase3Liquidation(c) ==
  ~HasPhase1Liquidatable(c) /\ ~HasPhase2Liquidatable(c) /\ HasPhase3Liquidatable(c)

\* check_liquidatable
CheckLiquidatable(flag, c) ==
  IF flag
    THEN IF HealthOf(c, "LiquidationEnd") > -ONE THEN "BecameNotLiquidatable" ELSE "Liquidatable"
    ELSE IF HealthOf(c, "Maint") >= 0 THEN "NotLiquidatable" ELSE "Liquidatable"

\* maybe_recover_from_being_liquidated: the flag that remains
StillBeingLiquidated(flag, liq_end_health) == flag /\ liq_end_health <= -ONE

=============================================================================
