----------------------------- MODULE MCProgram ------------------------------
(***************************************************************************)
(* What accounts hold, owe and may do: the token ledger, health and liquidation, *)
(* perp money, conditional swaps, listings, access and storage, each explored *)
(* on its own in one run.  `subject` is the component whose behaviours are *)
(* explored; the others stay as they start.                                *)
(***************************************************************************)
EXTENDS TokenLedger, LiquidateHelper, Liquidation, PerpMoney, ConditionalSwap, Listing,
        AccessControl, AccountStorage

VARIABLE subject

Subjects == {"ledger", "health", "liquidation", "perps", "swaps", "listing", "access",
             "storage"}

-----------------------------------------------------------------------------
(* Token ledger: two accounts, one of them with deposits.                  *)
MCSeedDeposits == [a \in TlAccounts |-> IF a = "a2" THEN 7 ELSE 0]

(* Health: a quote token, a collateral with scaled weights and one without *)
(* weight; two spot markets; a perp market that settles in the quote, with *)
(* and without fills to be consumed.                                       *)
MCWeights(ma, ia, ml, il, ds, bs) ==
  [maint_asset_weight |-> ma, init_asset_weight |-> ia, maint_liab_weight |-> ml,
   init_liab_weight |-> il, deposit_scale_start |-> ds, borrow_scale_start |-> bs,
   allow_asset_liquidation |-> TRUE]
MCTokenParams == [q |-> MCWeights(15, 14, 17, 19, 0, 0), b |-> MCWeights(13, 9, 19, 23, 400, 400),
                  c |-> MCWeights(0, 0, 24, 32, 0, 0)]
MCBankTotals == [t \in {"q", "b", "c"} |-> [deposits |-> 320, borrows |-> 200]]
MCSpotMarkets == <<[base |-> "b", quote |-> "q"], [base |-> "c", quote |-> "q"]>>
MCPerpParams ==
  [settle |-> "q", base_lot_size |-> 1, maint_base_asset_weight |-> 13,
   init_base_asset_weight |-> 9, maint_base_liab_weight |-> 19, init_base_liab_weight |-> 23,
   maint_overall_asset_weight |-> 16, init_overall_asset_weight |-> 8]
MCOpenOrders(rb, rq, ask, bid, free) ==
  [reserved_base |-> rb, reserved_quote |-> rq, lowest_placed_ask |-> ask,
   highest_placed_bid_inv |-> bid, free_base |-> 0, free_quote |-> free]
MCReservations ==
  {<<MCOpenOrders(80, 0, 0, 0, 40), MCOpenOrders(0, 240, 0, 0, 0)>>,
   <<MCOpenOrders(0, 240, 32, 7, 0), MCOpenOrders(0, 0, 0, 0, 0)>>}
MCPerpPosition(base, quote, bids, asks, taker_base, taker_quote) ==
  [base_lots |-> base, quote |-> quote, bids |-> bids, asks |-> asks,
   taker_base |-> taker_base, taker_quote |-> taker_quote]
MCPerpPositions ==
  {MCPerpPosition(0, 0, 0, 0, 0, 0), MCPerpPosition(0, -200, 0, 0, 0, 0),
   MCPerpPosition(2, -200, 1, 4, 0, 0), MCPerpPosition(2, -40, 0, 0, -2, 64),
   MCPerpPosition(0, -200, 0, 0, 2, -64)}
MCTokenPrices == [q |-> [oracle |-> 16, stable |-> 16], b |-> [oracle |-> 32, stable |-> 40],
                  c |-> [oracle |-> 16, stable |-> 8]]
MCPerpPrices == [oracle |-> 32, stable |-> 24]
MCBalances(q, b, c) == [q |-> q, b |-> b, c |-> c]
MCSpotBalances ==
  {MCBalances(0, 0, 0), MCBalances(-160, 250, 0), MCBalances(120, -160, 0),
   MCBalances(-400, 0, 120), MCBalances(-400, 80, 120), MCBalances(64, 64, -300),
   MCBalances(64, -300, 64)}
MCChanges == {80}
MCLhConfig(allow, forbid) ==
  [allowed |-> allow, forbidden |-> {}, allowed_perps |-> {}, forbidden_perps |-> forbid]
MCLhConfigs == {MCLhConfig({}, {}), MCLhConfig({"c"}, {}), MCLhConfig({"b"}, {0})}
MCLhTokenOrder == <<"q", "b", "c">>

(* Liquidation: borrows in the quote and in the collateral, a token whose  *)
(* assets may not be liquidated, and insurance that does and does not last.*)
MCLqToken(ma, ia, ml, il, liquidate, insured) ==
  [maint_asset_weight |-> ma, init_asset_weight |-> ia, maint_liab_weight |-> ml,
   init_liab_weight |-> il, deposit_scale_start |-> 0, borrow_scale_start |-> 0,
   allow_asset_liquidation |-> liquidate, liquidation_fee |-> 1,
   platform_liquidation_fee |-> 1, insured |-> insured]
MCLqParams == [q |-> MCLqToken(15, 14, 17, 18, TRUE, TRUE),
               b |-> MCLqToken(13, 11, 19, 21, TRUE, TRUE),
               c |-> MCLqToken(0, 0, 24, 32, FALSE, FALSE)]
MCLqPrices == [q |-> {16}, b |-> {16, 32, 48}, c |-> {16}]
MCPos(q, b, c) == [q |-> q * 16, b |-> b * 16, c |-> c * 16]
MCLqSeed(e, l, pnl, insurance) ==
  [positions |-> [e |-> e, l |-> l], perp_quote |-> [e |-> pnl * 16, l |-> 0],
   insurance |-> insurance, prices |-> [q |-> 16, b |-> 32, c |-> 16]]
MCLqFirst == MCLqSeed(MCPos(-20, 10, 0), MCPos(40, 0, 0), 0, 8)
MCLqSeeds ==
  {MCLqFirst, MCLqSeed(MCPos(22, -8, 0), MCPos(10, 30, 0), 0, 3),
   MCLqSeed(MCPos(-5, 10, -6), MCPos(60, 0, 30), 0, 3),
   MCLqSeed(MCPos(-3, 4, 0), MCPos(60, 0, 0), -2, 3),
   MCLqSeed(MCPos(-6, 4, 10), MCPos(60, 0, 0), 0, 1)}
MCMaxTransfers == {64, 1000000}
MCLqNumBanks == [t \in {"q", "b", "c"} |-> 1]

(* Perp money: a long and a short with losses and profits, or pnl only.    *)
MCPmToken ==
  [maint_asset_weight |-> 16, init_asset_weight |-> 16, maint_liab_weight |-> 16,
   init_liab_weight |-> 16, deposit_scale_start |-> 0, borrow_scale_start |-> 0,
   allow_asset_liquidation |-> TRUE]
MCPmParams ==
  [settle |-> "q", base_lot_size |-> 3, maint_base_asset_weight |-> 14,
   init_base_asset_weight |-> 12, maint_base_liab_weight |-> 18, init_base_liab_weight |-> 20,
   maint_overall_asset_weight |-> 16, init_overall_asset_weight |-> 8,
   base_liquidation_fee |-> 1, platform_liquidation_fee |-> 1,
   positive_pnl_liquidation_fee |-> 1, window_size |-> 2,
   settle_fee_flat |-> 16, settle_fee_amount_threshold |-> 160,
   settle_fee_fraction_low_health |-> 2, insured |-> TRUE, force_close |-> TRUE]
MCPmPrices == {128, 160, 192}
MCFundingRates == {-1, 2}
MCPmFees == {[maker |-> 0, taker |-> 1]}
MCPmTransfers == {80, 1000000}
MCPmPosition(base, quote, spot) == [base |-> base, quote |-> quote, spot |-> spot]
MCPmSeed(a, b, c, insurance, factor) ==
  [base |-> [a |-> a.base, b |-> b.base, c |-> c.base],
   quote |-> [a |-> a.quote * 16, b |-> b.quote * 16, c |-> c.quote * 16],
   spot |-> [a |-> a.spot * 16, b |-> b.spot * 16, c |-> c.spot * 16],
   price |-> 160, insurance |-> insurance, factor |-> factor]
MCPmFirst == MCPmSeed(MCPmPosition(2, -62, 6), MCPmPosition(-2, 60, 60), MCPmPosition(0, 0, 0), 2, 4)
MCPmSeeds ==
  {MCPmFirst,
   MCPmSeed(MCPmPosition(2, -50, 2), MCPmPosition(-2, 46, 80), MCPmPosition(0, 0, 0), 0, -1),
   MCPmSeed(MCPmPosition(0, -6, 2), MCPmPosition(2, -50, 40), MCPmPosition(-2, 54, 14), 2, 4)}

(* Conditional swaps: one of each type.                                    *)
MCSwap(type, buy, sell, borrows, deposits, expiry, start, premium) ==
  [max_buy |-> buy, max_sell |-> sell, expiry_timestamp |-> expiry,
   price_lower_limit |-> 8, price_upper_limit |-> 20, price_premium_rate |-> premium,
   buy_token_index |-> "B", sell_token_index |-> "S",
   allow_creating_borrows |-> borrows, allow_creating_deposits |-> deposits,
   tcs_type |-> type, start_timestamp |-> start, duration_seconds |-> 2]
MCCsMenu ==
  {MCSwap("FixedPremium", 8, 3, FALSE, TRUE, 3, 0, 4),
   MCSwap("PremiumAuction", 8, 6, TRUE, TRUE, 9, 0, 8),
   MCSwap("LinearAuction", 6, 20, FALSE, FALSE, 9, 1, 0)}
MCCsRow(b, s) == [B |-> b, S |-> s]
MCCsFirst == [maker |-> MCCsRow(-40, 80), taker |-> MCCsRow(160, 16)]
MCCsSeeds == {MCCsFirst, [maker |-> MCCsRow(0, 36), taker |-> MCCsRow(48, -64)]}
MCCsWeights == [Init |-> [asset |-> 12, liab |-> 20], LiquidationEnd |-> [asset |-> 14, liab |-> 18]]
MCCsCollateral == [maker |-> 32, taker |-> 800]
MCCsRequests == {[buy |-> 6, sell |-> 9], [buy |-> 3, sell |-> 2]}

(* Listing: tokens are registered with one oracle and another as fallback. *)
MCRegisteredOracles == {<<"o1", "o2">>}

(* Access control: two accounts of one owner.                              *)
MCOwnerOf == [a \in {"a1", "a2"} |-> "own"]
MCGates == {{}, {"AccountEdit", "TokenRegister"}}

(* Account storage: sizes that grow and shrink the vectors independently.  *)
MCCounts(t, s, p, o, c) == [token |-> t, serum3 |-> s, perp |-> p, perp_oo |-> o, tcs |-> c]
MCAsMarkets == 5 :> <<1, 0>>
MCAsSwaps == 1 :> <<1, 2>>
MCAsFirstCounts == MCCounts(2, 1, 1, 2, 0)
MCAsCounts == {MCCounts(3, 1, 1, 2, 1), MCCounts(2, 2, 2, 1, 0), MCCounts(1, 1, 1, 0, 0),
               MCCounts(2, 1, 0, 0, 2), MCCounts(3, 2, 2, 6, 1)}
MCAsKeep == [token |-> 1, serum3 |-> 0, perp |-> 1]

-----------------------------------------------------------------------------
ProgramVars == <<tlVars, haVars, lqVars, pmVars, csVars, lsVars, acVars, asVars, subject>>

ProgramInit ==
  /\ subject \in Subjects
  /\ TlInit /\ LsInit /\ AcInit
  /\ IF subject = "health" THEN HaInit ELSE ha = EmptyAccount
  /\ IF subject = "liquidation" THEN LqInit ELSE LqInitAs(MCLqFirst)
  /\ IF subject = "perps" THEN PmInit ELSE PmInitAs(MCPmFirst)
  /\ IF subject = "swaps" THEN CsInit ELSE CsInitAs(MCCsFirst, 16)
  /\ IF subject = "storage" THEN AsInit ELSE AsInitAs(3)

LedgerStep ==
  /\ subject = "ledger" /\ TlNext
  /\ UNCHANGED <<haVars, lqVars, pmVars, csVars, lsVars, acVars, asVars, subject>>

HealthStep ==
  /\ subject = "health" /\ HaNext
  /\ UNCHANGED <<tlVars, lqVars, pmVars, csVars, lsVars, acVars, asVars, subject>>

LiquidationStep ==
  /\ subject = "liquidation" /\ LqNext
  /\ UNCHANGED <<tlVars, haVars, pmVars, csVars, lsVars, acVars, asVars, subject>>

PerpsStep ==
  /\ subject = "perps" /\ PmNext
  /\ UNCHANGED <<tlVars, haVars, lqVars, csVars, lsVars, acVars, asVars, subject>>

SwapsStep ==
  /\ subject = "swaps" /\ CsNext
  /\ UNCHANGED <<tlVars, haVars, lqVars, pmVars, lsVars, acVars, asVars, subject>>

ListingStep ==
  /\ subject = "listing" /\ LsNext
  /\ UNCHANGED <<tlVars, haVars, lqVars, pmVars, csVars, acVars, asVars, subject>>

AccessStep ==
  /\ subject = "access" /\ AcNext
  /\ UNCHANGED <<tlVars, haVars, lqVars, pmVars, csVars, lsVars, asVars, subject>>

StorageStep ==
  /\ subject = "storage" /\ AsNext
  /\ UNCHANGED <<tlVars, haVars, lqVars, pmVars, csVars, lsVars, acVars, subject>>

ProgramNext == LedgerStep \/ HealthStep \/ LiquidationStep \/ PerpsStep \/ SwapsStep \/
  ListingStep \/ AccessStep \/ StorageStep

ProgramSpec == ProgramInit /\ [][ProgramNext]_ProgramVars

=============================================================================
