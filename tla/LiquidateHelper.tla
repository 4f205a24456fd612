--------------------------- MODULE LiquidateHelper ---------------------------
(***************************************************************************)
(* What the liquidator bot does with an unhealthy account (liquidate.rs):  *)
(* it goes through the phases of a liquidation and sends the first         *)
(* instruction that looks possible, choosing market and tokens by value.   *)
(* The choice is made from the account and its health cache and compared   *)
(* with the conditions of the program's own handlers.                      *)
(***************************************************************************)
EXTENDS HealthAccount

CONSTANTS LhTokenOrder,   \* the order of the account's token positions
          LhConfigs,      \* the bot's Config: the tokens and perp markets allowed or forbidden
          PreferredValue, \* the dollar of value from which an asset is preferred, in units
          CancelsPerTx    \* spot cancels that fit in one transaction

Bail == [ix |-> "bail"]

\* Each of these is the set of instructions the step may come to, empty where it
\* has nothing to do; the bot picks markets at random.
PerpCloseOrders(c) ==
  IF ha.perp.bids + ha.perp.asks > 0 THEN {[ix |-> "PerpLiqForceCancelOrders"]} ELSE {}

\* The markets whose open orders account holds anything, in random order
Serum3CloseOrders(c) ==
  LET funds(oo) == oo.reserved_base + oo.free_base + oo.reserved_quote + oo.free_quote
      markets == {i \in DOMAIN SpotMarkets : funds(ha.orders[i]) > 0}
  IN {[ix |-> "Serum3LiqForceCancelOrders", markets |-> some] :
        some \in {m \in SUBSET markets :
                    m # {} /\ Cardinality(m) = Least(CancelsPerTx, Cardinality(markets))}}

\* The perp market's index
LhPerpMarket == 0

\* The lists of perp markets let the bot touch this one.
PerpMarketAllowed(config) ==
  /\ LhPerpMarket \notin config.forbidden_perps
  /\ config.allowed_perps = {} \/ LhPerpMarket \in config.allowed_perps

\* Does not wait for the events of orders the account took
LhPerpLiqBaseOrPositivePnlWithFills(config, c) ==
  IF PerpMarketAllowed(config) /\ (ha.perp.base_lots # 0 \/ ha.perp.quote > 0)
    THEN {[ix |-> "PerpLiqBaseOrPositivePnl"]} ELSE {}

\* One market here, so the highest-value position is this one
LhPerpLiqBaseOrPositivePnl(config, c) ==
  IF /\ PerpMarketAllowed(config)
     /\ ha.perp.base_lots # 0 \/ ha.perp.quote > 0
     /\ ~HasOpenTakerFills
    THEN {[ix |-> "PerpLiqBaseOrPositivePnl"]} ELSE {}

\* The token infos without the forbidden ones, paired by position with the
\* effective balances of all tokens
ZippedTokens(config, c) ==
  LET kept == SelectSeq(LhTokenOrder, LAMBDA t : t \notin config.forbidden)
      balances == EffectiveTokenBalances(c, "LiquidationEnd", FALSE)
  IN [n \in DOMAIN kept |-> [token |-> kept[n], info |-> c.tokens[kept[n]],
                             effective |-> balances[LhTokenOrder[n]]]]

PotentialAssets(config, c) ==
  LET zipped == ZippedTokens(config, c)
      tokens(z) == Least(z.info.balance_spot, z.effective)
      value(z) == FMul(tokens(z), z.info.prices.oracle)
  IN FoldSeq(LAMBDA z, list :
               IF tokens(z) >= ONE /\ z.info.allow_asset_liquidation
                 THEN <<[token |-> z.token, value |-> value(z), preferred |->
                          z.info.maint_asset_weight > 0 /\ value(z) > PreferredValue]>> \o list
                 ELSE list,
             <<>>, zipped)

PotentialLiabs(config, c) ==
  LET zipped == ZippedTokens(config, c)
      tokens(z) == Least(-z.info.balance_spot, -z.effective)
  IN FoldSeq(LAMBDA z, list :
               IF tokens(z) > 0
                 THEN <<[token |-> z.token, preferred |-> FALSE,
                         value |-> FMul(tokens(z), z.info.prices.oracle)]>> \o list
                 ELSE list,
             <<>>, zipped)

\* Preferred tokens first, then by value
ByPreference(list) ==
  SortSeq(list, LAMBDA a, b : \/ a.preferred /\ ~b.preferred
                              \/ a.preferred = b.preferred /\ a.value > b.value)

\* find_best_token: the first that may be used at all and the first that is whitelisted
FindBestToken(config, list) ==
  LET usable == SelectSeq(ByPreference(list), LAMBDA e : e.token \notin config.forbidden)
      white == SelectSeq(usable, LAMBDA e : config.allowed = {} \/ e.token \in config.allowed)
      first(s) == IF s = <<>> THEN {} ELSE {s[1].token}
  IN [best |-> first(usable), white |-> first(white)]

\* The pair with a whitelisted asset, else the one with a whitelisted liability
BestPair(assets, liabs) ==
  LET pairs(a, l) == {[ix |-> "TokenLiqWithToken", asset |-> x, liab |-> y] : x \in a, y \in l}
  IN IF assets.white # {} /\ liabs.best # {} THEN pairs(assets.white, liabs.best)
     ELSE IF assets.best # {} /\ liabs.white # {} THEN pairs(assets.best, liabs.white)
     ELSE {Bail}

TokenLiq(config, c) ==
  IF ~HasPossibleSpotLiquidations(c) THEN {}
  ELSE BestPair(FindBestToken(config, PotentialAssets(config, c)),
                FindBestToken(config, PotentialLiabs(config, c)))

LhPerpLiqNegativePnlOrBankruptcy(c) ==
  IF InPhase3Liquidation(c) /\ ha.perp.quote < 0
    THEN {[ix |-> "PerpLiqNegativePnlOrBankruptcy"]} ELSE {}

\* The token of the lowest value below zero that is not forbidden
LhTokenLiqBankruptcy(config, c) ==
  LET value(t) == FMul(ha.spot[t], TokenPrices[t].oracle)
      liabs == {t \in HaTokens \ config.forbidden : value(t) < 0}
  IN IF ~InPhase3Liquidation(c) \/ ~HasLiqSpotBorrows(c) THEN {}
     ELSE IF liabs = {} THEN {Bail}
     ELSE {[ix |-> "TokenLiqBankruptcy", liab |-> t] :
             t \in {l \in liabs : \A m \in liabs : value(l) <= value(m)}}

\* send_liq_tx
SendLiqTx(config, c) ==
  LET orders == <<PerpCloseOrders(c), Serum3CloseOrders(c),
                  IF HasPhase1Liquidatable(c) THEN {Bail} ELSE {}>>
      positions == <<LhPerpLiqBaseOrPositivePnl(config, c), TokenLiq(config, c),
                     IF HasPerp(c, LAMBDA p : p.has_open_fills) THEN {[ix |-> "wait"]} ELSE {},
                     IF HasPhase2Liquidatable(c) THEN {Bail} ELSE {}>>
      bankruptcy == <<LhPerpLiqNegativePnlOrBankruptcy(c), LhTokenLiqBankruptcy(config, c), {Bail}>>
      some == SelectSeq(orders \o positions \o bankruptcy, LAMBDA s : s # {})
  IN some[1]

\* A liquidation that began goes on until LiquidationEnd health.
IsLiquidatable(being_liquidated, c) ==
  HealthOf(c, IF being_liquidated THEN "LiquidationEnd" ELSE "Maint") < 0

\* maybe_liquidate_account
MaybeLiquidateAccount(config, being_liquidated, c) ==
  IF IsLiquidatable(being_liquidated, c) THEN SendLiqTx(config, c) ELSE {}

-----------------------------------------------------------------------------
\* Properties

\* The conditions under which the program's handler of the instruction does
\* something to the account instead of returning an error; and to wait is right
\* while there are open fills, which only a pair of tokens can be liquidated with
Accepted(c, i) ==
  LET balances == EffectiveTokenBalances(c, "LiquidationEnd", FALSE)
      after1 == ~HasPhase1Liquidatable(c)
      after2 == after1 /\ ~HasPhase2Liquidatable(c)
  IN CASE i.ix = "PerpLiqForceCancelOrders" -> HasPerp(c, LAMBDA p : p.has_open_orders)
       [] i.ix = "Serum3LiqForceCancelOrders" ->
            \A m \in i.markets : ~c.serums[m].has_zero_funds
       [] i.ix = "PerpLiqBaseOrPositivePnl" ->
            /\ after1
            /\ HasPerp(c, LAMBDA p : ~p.has_open_fills /\ (p.base_lots # 0 \/ p.quote > 0))
       [] i.ix = "TokenLiqWithToken" ->
            /\ after1
            /\ ha.spot[i.asset] > 0 /\ balances[i.asset] > 0
            /\ c.tokens[i.asset].allow_asset_liquidation
            /\ ha.spot[i.liab] < 0 /\ balances[i.liab] < 0
       [] i.ix = "PerpLiqNegativePnlOrBankruptcy" ->
            after2 /\ HasPerp(c, LAMBDA p : p.base_lots = 0 /\ p.quote < 0)
       [] i.ix = "wait" ->
            /\ after1 /\ HasPerp(c, LAMBDA p : p.has_open_fills)
            /\ ~\E a, l \in HaTokens :
                 /\ ha.spot[a] >= ONE /\ balances[a] >= ONE /\ c.tokens[a].allow_asset_liquidation
                 /\ ha.spot[l] < 0 /\ balances[l] < 0
       [] i.ix = "TokenLiqBankruptcy" -> after2 /\ ha.spot[i.liab] < 0 /\ balances[i.liab] < 0
       [] OTHER -> FALSE

\* Without lists the bot always knows what to do with a liquidatable account,
\* also with one above maintenance health whose liquidation began before, and the
\* program accepts what it sends: going through the phases by the account's
\* balances never picks a step that the program's checks on the health cache, with
\* perp pnl and open fills counted in, refuse.
BotFindsAnInstruction ==
  ha # EmptyAccount => \A c \in {HealthCache}, config \in LhConfigs, flag \in BOOLEAN :
    config = [allowed |-> {}, forbidden |-> {}, allowed_perps |-> {}, forbidden_perps |-> {}] =>
      \A i \in MaybeLiquidateAccount(config, flag, c) : Accepted(c, i)

\* Lists of allowed tokens and of perp markets never lead to a refused pair, and of
\* the pair sent one side at least is on the list of tokens.
AllowedTokensAreLiquidated ==
  ha # EmptyAccount => \A c \in {HealthCache}, config \in LhConfigs, flag \in BOOLEAN :
    config.forbidden = {} /\ config.allowed # {} =>
      \A i \in MaybeLiquidateAccount(config, flag, c) : i.ix = "TokenLiqWithToken" =>
        Accepted(c, i) /\ {i.asset, i.liab} \cap config.allowed # {}

\* "check constraints for liquidatable assets, see also
\* has_possible_spot_liquidations()": while the account has an asset and a borrow
\* that can be liquidated and are not forbidden, the bot sends such a pair.
\* False of this code: the infos left after the filter are paired with the
\* effective balances of other tokens.
ForbiddenTokensAreSkipped ==
  LET c == HealthCache
      balances == EffectiveTokenBalances(c, "LiquidationEnd", FALSE)
      asset(t) == /\ c.tokens[t].balance_spot >= ONE /\ balances[t] >= ONE
                  /\ c.tokens[t].allow_asset_liquidation
      liab(t) == c.tokens[t].balance_spot < 0 /\ balances[t] < 0
      reached(config) == InPhase2Liquidation(c) /\ LhPerpLiqBaseOrPositivePnl(config, c) = {}
  IN \A config \in LhConfigs, flag \in BOOLEAN :
       reached(config) /\ (\E a, l \in HaTokens \ config.forbidden : asset(a) /\ liab(l)) =>
         \A i \in MaybeLiquidateAccount(config, flag, c) :
           i.ix = "TokenLiqWithToken" /\ asset(i.asset) /\ liab(i.liab)

\* No account is stuck below the end of its liquidation: some phase of the
\* program applies to it, and the liquidator finds an instruction that the
\* program accepts or waits for the fills that are in the way.
LiquidatableAccountsAreHandled ==
  /\ LiquidationNeverStuck
  /\ BotFindsAnInstruction
  /\ AllowedTokensAreLiquidated

=============================================================================
