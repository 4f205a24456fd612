---------------------------- MODULE HealthAccount ----------------------------
(***************************************************************************)
(* An account with token balances, spot open orders and a perp position,   *)
(* the health caches built for it, and the events that change it without   *)
(* the account's own doing or that move funds between its parts: its       *)
(* orders execute, its free funds are settled, its perp losses are settled *)
(***************************************************************************)
EXTENDS Health

CONSTANTS HaTokens,      \* tokens
          TokenParams,   \* weights and limits of each token's bank
          BankTotals,    \* native deposits and borrows of each token's bank, in units
          SpotMarkets,   \* a sequence of [base, quote] pairs
          PerpParams,    \* weights, lot size and settle token of the perp market
          SpotBalances,  \* native token balances an account may start with, in units
          Reservations,  \* the amounts on its open orders accounts, in units
          PerpPositions, \* records of a perp position's amounts
          TokenPrices,   \* the prices of each token
          PerpPrices,    \* the prices of the perp market's base
          Changes        \* balance changes applied to a cache, in units

VARIABLES ha             \* the account

haVars == <<ha>>

NewTokenInfo(t, balance) ==
  TokenInfoOf(TokenParams[t], TokenPrices[t], balance, BankTotals[t].deposits,
              BankTotals[t].borrows)

NewSerum3Info(i) ==
  LET oo == ha.orders[i]
  IN [base |-> SpotMarkets[i].base, quote |-> SpotMarkets[i].quote,
      reserved_base |-> oo.reserved_base, reserved_quote |-> oo.reserved_quote,
      lowest_placed_ask |-> oo.lowest_placed_ask,
      highest_placed_bid_inv |-> oo.highest_placed_bid_inv,
      has_zero_funds |-> /\ oo.reserved_base + oo.free_base = 0
                         /\ oo.reserved_quote + oo.free_quote = 0]

\* The account took orders, and the events are not consumed yet.
HasOpenTakerFills == ha.perp.taker_base # 0 \/ ha.perp.taker_quote # 0

NewPerpInfo ==
  PerpInfoOf(PerpParams, PerpPrices, ha.perp.base_lots + ha.perp.taker_base,
             ha.perp.quote + ha.perp.taker_quote, ha.perp.bids, ha.perp.asks,
             HasOpenTakerFills)

\* new_health_cache_impl.  Tokens of "missing" have no bank among the health
\* accounts, or a bad oracle; one with a negative balance may not be missing.
\* A spot market of a skipped token is skipped with its free funds.
HealthCacheSkipping(missing) ==
  LET there == HaTokens \ missing
      used == SelectSeq([i \in DOMAIN SpotMarkets |-> i],
                        LAMBDA i : {SpotMarkets[i].base, SpotMarkets[i].quote} \subseteq there)
      free(t) == FoldSeq(LAMBDA i, sum :
                           sum + (IF SpotMarkets[i].base = t THEN ha.orders[i].free_base ELSE 0)
                               + (IF SpotMarkets[i].quote = t THEN ha.orders[i].free_quote ELSE 0),
                         0, used)
  IN [tokens |-> [t \in there |-> NewTokenInfo(t, ha.spot[t] + free(t))],
      serums |-> [i \in DOMAIN used |-> NewSerum3Info(used[i])],
      perps |-> <<NewPerpInfo>>]

MayBeMissing(missing) ==
  PerpParams.settle \notin missing /\ \A t \in missing : ha.spot[t] >= 0

HealthCache == HealthCacheSkipping({})

-----------------------------------------------------------------------------
\* Events

\* Serum matches the account's bids, or its asks, at the oracle price: the
\* reserved funds become free funds of the other token.
ExecuteSpotBids(i) ==
  LET m == SpotMarkets[i]
      got == FDiv(FMul(ha.orders[i].reserved_quote, TokenPrices[m.quote].oracle),
                  TokenPrices[m.base].oracle)
  IN /\ ha.orders[i].reserved_quote > 0
     /\ ha' = [ha EXCEPT !.orders[i].reserved_quote = 0, !.orders[i].free_base = @ + got]

ExecuteSpotAsks(i) ==
  LET m == SpotMarkets[i]
      got == FDiv(FMul(ha.orders[i].reserved_base, TokenPrices[m.base].oracle),
                  TokenPrices[m.quote].oracle)
  IN /\ ha.orders[i].reserved_base > 0
     /\ ha' = [ha EXCEPT !.orders[i].reserved_base = 0, !.orders[i].free_quote = @ + got]

\* settle_funds: free funds move to the token positions
SettleSpotFunds(i) ==
  LET m == SpotMarkets[i]
  IN /\ ha.orders[i].free_base + ha.orders[i].free_quote > 0
     /\ ha' = [ha EXCEPT !.orders[i].free_base = 0, !.orders[i].free_quote = 0,
                         !.spot[m.base] = @ + ha.orders[i].free_base,
                         !.spot[m.quote] = @ + ha.orders[i].free_quote]

\* One lot of the account's perp bids, or asks, is taken at the oracle price
ExecutePerpBid ==
  /\ ha.perp.bids > 0
  /\ ha' = [ha EXCEPT !.perp.bids = @ - 1, !.perp.base_lots = @ + 1,
                      !.perp.quote = @ - PerpParams.base_lot_size * PerpPrices.oracle]

ExecutePerpAsk ==
  /\ ha.perp.asks > 0
  /\ ha' = [ha EXCEPT !.perp.asks = @ - 1, !.perp.base_lots = @ - 1,
                      !.perp.quote = @ + PerpParams.base_lot_size * PerpPrices.oracle]

\* The events of the orders the account took are consumed
ConsumeTakerFills ==
  /\ HasOpenTakerFills
  /\ ha' = [ha EXCEPT !.perp.base_lots = @ + ha.perp.taker_base, !.perp.taker_base = 0,
                      !.perp.quote = @ + ha.perp.taker_quote, !.perp.taker_quote = 0]

\* A perp loss is settled out of the settle token, as far as perp_max_settle allows
SettlePerpLoss ==
  LET loss == -(ha.perp.quote + FMul(ha.perp.base_lots * PerpParams.base_lot_size * ONE,
                                     PerpPrices.oracle))
      amount == Least(loss, PerpMaxSettle(HealthCache, PerpParams.settle))
  IN /\ amount > 0
     /\ ha' = [ha EXCEPT !.perp.quote = @ + amount, !.spot[PerpParams.settle] = @ - amount]

HaInit ==
  ha \in [spot : SpotBalances, orders : Reservations, perp : PerpPositions]

HaNext ==
  \/ \E i \in DOMAIN SpotMarkets :
       ExecuteSpotBids(i) \/ ExecuteSpotAsks(i) \/ SettleSpotFunds(i)
  \/ ExecutePerpBid
  \/ ExecutePerpAsk
  \/ ConsumeTakerFills
  \/ SettlePerpLoss

HaSpec == HaInit /\ [][HaNext]_haVars

-----------------------------------------------------------------------------
\* Properties

\* What the truncations of one health computation may amount to
HealthRounding == 8

\* An account that holds nothing yet
EmptyAccount ==
  [spot |-> [t \in HaTokens |-> 0],
   perp |-> [base_lots |-> 0, quote |-> 0, bids |-> 0, asks |-> 0,
             taker_base |-> 0, taker_quote |-> 0],
   orders |-> [i \in DOMAIN SpotMarkets |->
                 [reserved_base |-> 0, reserved_quote |-> 0, lowest_placed_ask |-> 0,
                  highest_placed_bid_inv |-> 0, free_base |-> 0, free_quote |-> 0]]]

\* "init health <= liquidation end health <= maint health", whatever mix of
\* balances, spot orders and perp orders the account holds.
HealthOrdering ==
  LET c == HealthCache
  IN ha # EmptyAccount =>
     /\ HealthOf(c, "Init") <= HealthOf(c, "LiquidationEnd") + HealthRounding
     /\ HealthOf(c, "LiquidationEnd") <= HealthOf(c, "Maint") + HealthRounding

\* "The value `assets - liabs` is the health and the same in both cases":
\* both splits of health_assets_and_liabs give health.
SplitsGiveHealth ==
  ha # EmptyAccount => \A c \in {HealthCache}, ht \in HealthTypes, stable_assets \in BOOLEAN :
    \A split \in {HealthAssetsAndLiabs(c, ht, stable_assets)} :
      split.assets - split.liabs - HealthOf(c, ht) \in -HealthRounding .. HealthRounding

\* An account whose health is below the end of liquidation is in one of the
\* three phases, so some liquidation instruction applies to it: it is never
\* liquidatable with nothing to liquidate.
LiquidationNeverStuck ==
  LET c == HealthCache
  IN ha # EmptyAccount /\ HealthOf(c, "LiquidationEnd") < 0 =>
       InPhase1Liquidation(c) \/ InPhase2Liquidation(c) \/ InPhase3Liquidation(c)

\* Settlement up to perp_max_settle keeps the "perp settle health" at or above
\* zero: perp losses only move into tokens as far as assets back them.
SettlementIsBacked ==
  ha # EmptyAccount => \A c \in {HealthCache} : \A max \in {PerpMaxSettle(c, PerpParams.settle)} :
    \A after \in {[c EXCEPT !.tokens[PerpParams.settle].balance_spot = @ - max]} :
      max > 0 =>
        HealthSum(after, "Maint", EffectiveTokenBalances(after, "Maint", TRUE)) >= -HealthRounding

\* A cache adjusted with adjust_token_balance gives the maintenance and
\* liquidation-end health that a cache built after the change gives.
AdjustedCacheAgrees ==
  ha # EmptyAccount => \A t \in HaTokens, change \in Changes, ht \in {"Maint", "LiquidationEnd"} :
    LET c == HealthCache
        rebuilt == [c EXCEPT !.tokens[t] = NewTokenInfo(t, c.tokens[t].balance_spot + change)]
    IN HealthOf(AdjustTokenBalance(c, t, change, TokenParams[t], BankTotals[t].deposits,
                                   BankTotals[t].borrows), ht)
         = HealthOf(rebuilt, ht)

\* Open orders are counted at their worst: executing at the oracle price
\* never lowers health of any type, and settling spot funds or perp losses leaves
\* it where it is.
ExecutionNeverLowersHealth ==
  [][ha' # ha => \A ht \in HealthTypes :
       HealthOf(HealthCache', ht) >= HealthOf(HealthCache, ht) - HealthRounding]_haVars

\* A cache that skips missing banks gives "just a value that is guaranteed to be
\* less than" the account's health.
SkippingUnderestimates ==
  \A missing \in SUBSET HaTokens : MayBeMissing(missing) =>
    HealthOf(HealthCacheSkipping(missing), "Init")
      <= HealthOf(HealthCache, "Init") + HealthRounding

\* What callers take for granted of the health cache: the order of the health
\* types, its two splits, settlement limits that assets back, and adjusted
\* caches.
HealthIsConsistent ==
  /\ HealthOrdering
  /\ SplitsGiveHealth
  /\ SettlementIsBacked
  /\ AdjustedCacheAgrees

=============================================================================
