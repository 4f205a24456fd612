------------------------------- MODULE Listing -------------------------------
(***************************************************************************)
(* What the group lists and with which settings: tokens and their banks,   *)
(* spot markets, perp markets.  The group admin registers and edits; the   *)
(* fast listing admin may list a few tokens a week with fixed settings;    *)
(* the security admin may make settings stricter.                          *)
(*                                                                         *)
(* An edit instruction takes an option for every setting.  The model gives *)
(* one of them at a time, and keeps the settings that decide who may edit  *)
(* and that depend on one another.                                         *)
(***************************************************************************)
EXTENDS Integers, Sequences, FiniteSets

CONSTANTS Mints, InsuranceMint, TokenIndexes, MarketIndexes,
          GroupAdmin, FastListingAdmin, SecurityAdmin, \* keys of the group
          Testing,             \* is_testing of the group
          AllowedFastListings, \* allowed_fast_listings_per_interval
          FastListingWeek,     \* seconds in a week
          FullWeight,          \* asset weight of an ordinary token
          ShiftDuration,       \* seconds a shift of maintenance weights takes
          Oracles,             \* oracle accounts
          RegisteredOracles,   \* pairs of oracle and fallback oracle that tokens are registered with
          LsMaxBanks, LsMaxTime, LsMaxSteps

ASSUME ListingAssumption ==
  /\ SecurityAdmin # GroupAdmin
  /\ AllowedFastListings \in Nat
  /\ {FastListingWeek, FullWeight, ShiftDuration, LsMaxBanks} \subseteq Nat \ {0}
  /\ RegisteredOracles \subseteq Oracles \X Oracles

VARIABLES tokens,      \* MintInfo and Bank accounts by token index
          spotMarkets, \* Serum3Market by market index
          perpMarkets, \* PerpMarket by market index
          fastListing, \* fast_listing_interval_start, fast_listings_in_interval
          fastListed,  \* times of fast listings
          lsNow, lsSigner, lsSteps

lsVars == <<tokens, spotMarkets, perpMarkets, fastListing, fastListed, lsNow, lsSigner, lsSteps>>

LsKeys == {GroupAdmin, FastListingAdmin, SecurityAdmin}

\* Accounts that exist, by index: one is created, one is closed
Created(f, index, value) == [i \in DOMAIN f \cup {index} |-> IF i = index THEN value ELSE f[i]]
Closed(f, index) == [i \in DOMAIN f \ {index} |-> f[i]]
NoAccounts == [i \in {} |-> 0]

BankSettings == [reduce_only: 0 .. 2, force_close: BOOLEAN, force_withdraw: BOOLEAN,
                 disable_asset_liquidation: BOOLEAN, platform_liquidation_fee: 0 .. 1,
                 maint_asset_weight: 0 .. FullWeight, init_asset_weight: 0 .. FullWeight,
                 shift_start: Nat, shift_end: Nat, shift_asset_target: 0 .. FullWeight,
                 deposit_limited: BOOLEAN, oracle: Oracles, fallback_oracle: Oracles]

Listed(index) == index \in DOMAIN tokens

\* Mints with a MintInfo account, whose address is derived from the mint
ListedMints == {tokens[i].mint : i \in DOMAIN tokens}

LsAreBorrowsReduceOnly(b) == b.reduce_only \in {1, 2}
LsAreDepositsReduceOnly(b) == b.reduce_only = 1

MaintAssetWeight(b, now) ==
  IF b.shift_end <= b.shift_start \/ now <= b.shift_start THEN b.maint_asset_weight
  ELSE IF now >= b.shift_end THEN b.shift_asset_target
  ELSE b.maint_asset_weight
         + ((now - b.shift_start) * (b.shift_asset_target - b.maint_asset_weight))
             \div (b.shift_end - b.shift_start)

\* Bank::verify, without the rules for force_withdraw
VerifyWithoutForceWithdraw(b) ==
  /\ b.maint_asset_weight >= b.init_asset_weight
  /\ b.disable_asset_liquidation => LsAreBorrowsReduceOnly(b) /\ b.maint_asset_weight = 0

Verify(b) ==
  /\ b.maint_asset_weight >= b.init_asset_weight
  /\ b.disable_asset_liquidation => LsAreBorrowsReduceOnly(b) /\ b.maint_asset_weight = 0
  /\ b.force_withdraw => /\ LsAreDepositsReduceOnly(b) /\ b.disable_asset_liquidation
                         /\ b.maint_asset_weight = 0

-----------------------------------------------------------------------------
\* Tokens

\* deposit_limited: a deposit limit, or a weight that shrinks as deposits grow
OrdinaryBank(oracles, limited) ==
  [reduce_only |-> 0, force_close |-> FALSE, force_withdraw |-> FALSE,
   disable_asset_liquidation |-> FALSE, platform_liquidation_fee |-> 1,
   maint_asset_weight |-> FullWeight, init_asset_weight |-> FullWeight - 1,
   shift_start |-> 0, shift_end |-> 0, shift_asset_target |-> 0,
   deposit_limited |-> limited, oracle |-> oracles[1], fallback_oracle |-> oracles[2]]

\* Nothing to borrow and no collateral: what may be listed without the group admin
TrustlessBank(oracles) ==
  [reduce_only |-> 2, force_close |-> FALSE, force_withdraw |-> FALSE,
   disable_asset_liquidation |-> TRUE, platform_liquidation_fee |-> 1,
   maint_asset_weight |-> 0, init_asset_weight |-> 0,
   shift_start |-> 0, shift_end |-> 0, shift_asset_target |-> 0,
   deposit_limited |-> TRUE, oracle |-> oracles[1], fallback_oracle |-> oracles[2]]

\* The index is free, and the mint has no MintInfo.
CanRegister(index, mint) == ~Listed(index) /\ mint \notin ListedMints

\* The MintInfo has the oracles of the first bank.
NewToken(index, mint, bank, trustless) ==
  tokens' = Created(tokens, index, [mint |-> mint, trustless |-> trustless, banks |-> <<bank>>,
                                    oracle |-> bank.oracle, fallback_oracle |-> bank.fallback_oracle])

TokenRegister(k, index, mint) ==
  /\ k = GroupAdmin
  /\ index = 0 => mint = InsuranceMint
  /\ CanRegister(index, mint)
  /\ \E oracles \in RegisteredOracles, limited \in BOOLEAN :
       NewToken(index, mint, OrdinaryBank(oracles, limited), FALSE)
  /\ UNCHANGED <<spotMarkets, perpMarkets, fastListing, fastListed>>

\* A new interval starts with the week that now is in.
FastListingInterval ==
  IF lsNow >= fastListing.start + FastListingWeek
  THEN [start |-> (lsNow \div FastListingWeek) * FastListingWeek, count |-> 0]
  ELSE fastListing

FastListingAllowed(interval) == AllowedFastListings >= interval.count + 1

TokenRegisterTrustless(k, index, mint) ==
  /\ k \in {GroupAdmin, FastListingAdmin}
  /\ index # 0
  /\ CanRegister(index, mint)
  /\ FastListingAllowed(FastListingInterval)
  /\ fastListing' = [FastListingInterval EXCEPT !.count = @ + 1]
  /\ fastListed' = Append(fastListed, lsNow)
  /\ \E oracles \in RegisteredOracles : NewToken(index, mint, TrustlessBank(oracles), TRUE)
  /\ UNCHANGED <<spotMarkets, perpMarkets>>

\* The settings of the existing bank, but its oracle as the fallback oracle too
LsFromExistingBank(b) == [b EXCEPT !.fallback_oracle = b.oracle]

\* The new bank copies any bank of the token, into the next free slot.
TokenAddBank(k, index) ==
  /\ k = GroupAdmin /\ Testing
  /\ Listed(index) /\ Len(tokens[index].banks) < LsMaxBanks
  /\ \E n \in DOMAIN tokens[index].banks :
       tokens' = [tokens EXCEPT ![index].banks = Append(@, LsFromExistingBank(@[n]))]
  /\ UNCHANGED <<spotMarkets, perpMarkets, fastListing, fastListed>>

\* Banks, vaults and MintInfo are closed; markets are left as they are.
TokenDeregister(k, index) ==
  /\ k = GroupAdmin /\ Testing
  /\ Listed(index)
  /\ tokens' = Closed(tokens, index)
  /\ UNCHANGED <<spotMarkets, perpMarkets, fastListing, fastListed>>

\* Options of token_edit, as pairs of a setting and its value
OracleOptions == {"oracle", "fallback_oracle"} \X Oracles
\* Insurance, interest rates, fees and limits that no other setting depends on
RateAndFeeOptions == {<<"rates_and_fees", 0>>}
DepositLimitOptions == {"deposit_limited"} \X BOOLEAN
ReduceOnlyOptions == {"reduce_only"} \X (0 .. 2)
ForceCloseOptions == {"force_close"} \X BOOLEAN
LiquidationOptions == {"disable_asset_liquidation"} \X BOOLEAN
ForceWithdrawOptions == {"force_withdraw"} \X BOOLEAN
\* The platform's liquidation fee; the collateral fee per day is edited alike.
PlatformFeeOptions == {"platform_liquidation_fee"} \X (0 .. 1)
MaintWeightOptions == {"maint_asset_weight"} \X {0, FullWeight}
InitWeightOptions == {"init_asset_weight"} \X {0, FullWeight}
ShiftOptions == {"shift"} \X {0, FullWeight}
ShiftAbortOptions == {<<"shift_abort", 0>>}

TokenOptions == OracleOptions \cup RateAndFeeOptions \cup DepositLimitOptions
                \cup ReduceOnlyOptions \cup ForceCloseOptions \cup LiquidationOptions
                \cup ForceWithdrawOptions \cup PlatformFeeOptions \cup MaintWeightOptions
                \cup InitWeightOptions \cup ShiftOptions \cup ShiftAbortOptions

\* A shift starts now and ends after ShiftDuration.
StartShift(b, target) ==
  [b EXCEPT !.shift_start = lsNow, !.shift_end = lsNow + ShiftDuration,
            !.shift_asset_target = target]

\* The weights stay where the shift has brought them.
AbortShift(b) ==
  [b EXCEPT !.maint_asset_weight = MaintAssetWeight(b, lsNow),
            !.shift_start = 0, !.shift_end = 0, !.shift_asset_target = 0]

\* The loop of token_edit, for one bank
EditedBank(o, b) ==
  CASE o[1] = "rates_and_fees" -> b
    [] o[1] = "shift" -> StartShift(b, o[2])
    [] o[1] = "shift_abort" -> AbortShift(b)
    [] OTHER -> [b EXCEPT ![o[1]] = o[2]]

\* Only a token in reduce-only mode can be force-closed.
EditFits(o, b) == o[1] = "force_close" /\ o[2] => b.reduce_only > 0

\* The security admin may make reduce-only looser
LoosensReduceOnlyFromNone(b, reduce_only) == reduce_only = 0

\* Less strict than the bank is now
LoosensReduceOnly(b, reduce_only) == reduce_only = 0 \/ (reduce_only = 2 /\ b.reduce_only = 1)

\* require_group_admin
RequireGroupAdmin(o, b) ==
  CASE o[1] = "reduce_only" -> LoosensReduceOnly(b, o[2])
    [] o[1] \in {"platform_liquidation_fee", "init_asset_weight"} -> o[2] # 0
    [] o[1] = "shift_abort" -> FALSE
    [] OTHER -> TRUE

\* account constraint #1 of the edit instructions
MayEdit(k, require_group_admin) ==
  k \in (IF require_group_admin THEN {GroupAdmin} ELSE {GroupAdmin, SecurityAdmin})

\* The option is applied to each bank's own settings, and to the MintInfo.
EditedToken(o, t) ==
  [mint |-> t.mint,
   trustless |-> t.trustless /\ ~\E n \in DOMAIN t.banks : RequireGroupAdmin(o, t.banks[n]),
   banks |-> [n \in DOMAIN t.banks |-> EditedBank(o, t.banks[n])],
   oracle |-> IF o[1] = "oracle" THEN o[2] ELSE t.oracle,
   fallback_oracle |-> IF o[1] = "fallback_oracle" THEN o[2] ELSE t.fallback_oracle]

\* The first bank is verified after the edit.
TokenEdit(k, index) ==
  /\ Listed(index)
  /\ \E o \in TokenOptions :
       /\ \A n \in DOMAIN tokens[index].banks : EditFits(o, tokens[index].banks[n])
       /\ MayEdit(k, \E n \in DOMAIN tokens[index].banks : RequireGroupAdmin(o, tokens[index].banks[n]))
       /\ Verify(EditedToken(o, tokens[index]).banks[1])
       /\ tokens' = [tokens EXCEPT ![index] = EditedToken(o, @)]
  /\ UNCHANGED <<spotMarkets, perpMarkets, fastListing, fastListed>>

-----------------------------------------------------------------------------
\* Markets

\* The price band of a fast-listed market is wide for a token without borrows and
\* weight against one without deposit limits.
FastListingBand(base, quote) ==
  IF LsAreBorrowsReduceOnly(base) /\ base.maint_asset_weight = 0 /\ ~quote.deposit_limited
    THEN "wide" ELSE "narrow"

\* The external market trades the mints of the two banks, any of their tokens' banks.
Serum3RegisterMarket(k, market, base, quote, band) ==
  /\ k \in {GroupAdmin, FastListingAdmin}
  /\ market \notin DOMAIN spotMarkets
  /\ base # quote /\ Listed(base) /\ Listed(quote)
  /\ k = FastListingAdmin =>
       \E n \in DOMAIN tokens[base].banks, m \in DOMAIN tokens[quote].banks :
         band = FastListingBand(tokens[base].banks[n], tokens[quote].banks[m])
  /\ spotMarkets' = Created(spotMarkets, market,
                             [base |-> base, quote |-> quote, band |-> band,
                              reduce_only |-> FALSE, force_close |-> FALSE])
  /\ UNCHANGED <<tokens, perpMarkets, fastListing, fastListed>>

\* Edits of a market, as pairs: the edited market, and whether only the group admin may
MarketEdits(m) ==
  {<<[m EXCEPT !.reduce_only = on], ~on>> : on \in BOOLEAN}
  \cup {<<[m EXCEPT !.force_close = on], TRUE>> : on \in {on \in BOOLEAN : on => m.reduce_only}}

Serum3EditMarket(k, market) ==
  /\ market \in DOMAIN spotMarkets
  /\ \E e \in MarketEdits(spotMarkets[market])
              \cup {<<[spotMarkets[market] EXCEPT !.band = band], TRUE>> : band \in {"wide", "narrow"}} :
       MayEdit(k, e[2]) /\ spotMarkets' = [spotMarkets EXCEPT ![market] = e[1]]
  /\ UNCHANGED <<tokens, perpMarkets, fastListing, fastListed>>

Serum3DeregisterMarket(k, market) ==
  /\ k = GroupAdmin /\ Testing
  /\ market \in DOMAIN spotMarkets
  /\ spotMarkets' = Closed(spotMarkets, market)
  /\ UNCHANGED <<tokens, perpMarkets, fastListing, fastListed>>

PerpCreateMarket(k, market) ==
  /\ k = GroupAdmin
  /\ market \notin DOMAIN perpMarkets
  /\ perpMarkets' = Created(perpMarkets, market,
                             [reduce_only |-> FALSE, force_close |-> FALSE,
                              init_overall_asset_weight |-> 1])
  /\ UNCHANGED <<tokens, spotMarkets, fastListing, fastListed>>

\* Oracle, weights, fees, funding and settlement parameters: the group admin's
PerpParameterEdits(m) == {<<m, TRUE>>}

PerpEdits(m) ==
  PerpParameterEdits(m) \cup MarketEdits(m)
  \cup {<<[m EXCEPT !.init_overall_asset_weight = w], w # 0>> : w \in 0 .. 1}

PerpEditMarket(k, market) ==
  /\ market \in DOMAIN perpMarkets
  /\ \E e \in PerpEdits(perpMarkets[market]) :
       MayEdit(k, e[2]) /\ perpMarkets' = [perpMarkets EXCEPT ![market] = e[1]]
  /\ UNCHANGED <<tokens, spotMarkets, fastListing, fastListed>>

PerpCloseMarket(k, market) ==
  /\ k = GroupAdmin /\ Testing
  /\ market \in DOMAIN perpMarkets
  /\ perpMarkets' = Closed(perpMarkets, market)
  /\ UNCHANGED <<tokens, spotMarkets, fastListing, fastListed>>

-----------------------------------------------------------------------------
LsInit ==
  /\ tokens = NoAccounts /\ spotMarkets = NoAccounts /\ perpMarkets = NoAccounts
  /\ fastListing = [start |-> 0, count |-> 0] /\ fastListed = <<>>
  /\ lsNow = FastListingWeek /\ lsSigner = GroupAdmin /\ lsSteps = 0

Administer(k) ==
  /\ \/ \E index \in TokenIndexes :
          \/ TokenEdit(k, index)
          \/ TokenAddBank(k, index)
          \/ TokenDeregister(k, index)
          \/ \E mint \in Mints : TokenRegister(k, index, mint) \/ TokenRegisterTrustless(k, index, mint)
     \/ \E market \in MarketIndexes :
          \/ \E base, quote \in TokenIndexes, band \in {"wide", "narrow"} :
               Serum3RegisterMarket(k, market, base, quote, band)
          \/ Serum3EditMarket(k, market)
          \/ Serum3DeregisterMarket(k, market)
          \/ PerpCreateMarket(k, market)
          \/ PerpEditMarket(k, market)
          \/ PerpCloseMarket(k, market)
  /\ lsSigner' = k /\ UNCHANGED lsNow

LsTick ==
  /\ lsNow < LsMaxTime
  /\ lsNow' = lsNow + 1
  /\ UNCHANGED <<tokens, spotMarkets, perpMarkets, fastListing, fastListed, lsSigner>>

LsNext ==
  /\ lsSteps < LsMaxSteps /\ lsSteps' = lsSteps + 1
  /\ LsTick \/ \E k \in LsKeys : Administer(k)

LsSpec == LsInit /\ [][LsNext]_lsVars

-----------------------------------------------------------------------------
\* Properties

\* Type correctness of tokens, markets and the count of fast listings.
LsTypeOK ==
  /\ \A i \in DOMAIN tokens :
       /\ tokens[i].mint \in Mints /\ tokens[i].trustless \in BOOLEAN
       /\ tokens[i].banks \in Seq(BankSettings) /\ Len(tokens[i].banks) \in 1 .. LsMaxBanks
  /\ fastListing.count \in 0 .. AllowedFastListings
  /\ lsSigner \in LsKeys

\* Bank::verify only looks at a token's first bank, after each edit: still every bank
\* of a token has settings that go together, whatever the order of edits and the time
\* it was added.  A token whose deposits can be taken out by anyone (force_withdraw)
\* or cannot be liquidated cannot be borrowed, has no weight in initial health, and
\* none in maintenance health either unless the group admin has it shifted.
EveryBankVerifies ==
  \A i \in DOMAIN tokens : \A n \in DOMAIN tokens[i].banks :
    LET b == tokens[i].banks[n]
    IN /\ b.init_asset_weight <= b.maint_asset_weight
       /\ b.disable_asset_liquidation =>
            /\ b.reduce_only # 0 /\ b.init_asset_weight = 0
            /\ b.shift_end <= b.shift_start => MaintAssetWeight(b, lsNow) = 0
       /\ b.force_withdraw => b.reduce_only = 1 /\ b.disable_asset_liquidation

\* That such a token is no collateral at all is false of this code: verify looks at
\* maint_asset_weight and not at where a shift takes it.
UnliquidatableTokensHaveNoWeight ==
  \A i \in DOMAIN tokens : \A n \in DOMAIN tokens[i].banks :
    tokens[i].banks[n].disable_asset_liquidation => MaintAssetWeight(tokens[i].banks[n], lsNow) = 0

\* Equal but for the fallback oracle
Alike(b, c) == [b EXCEPT !.fallback_oracle = c.fallback_oracle] = c

\* Although a bank may be added at any time, from any other, and each edit works on
\* each bank's own settings, the banks of a token differ in nothing but the fallback
\* oracle; and the MintInfo, by which clients choose the accounts to pass, has the
\* oracle of all of them and the fallback oracle of the first.
BanksShareSettings ==
  \A i \in DOMAIN tokens : \A n \in DOMAIN tokens[i].banks :
    /\ Alike(tokens[i].banks[n], tokens[i].banks[1])
    /\ tokens[i].banks[n].oracle = tokens[i].oracle
    /\ tokens[i].banks[1].fallback_oracle = tokens[i].fallback_oracle

\* False of this code: Bank::from_existing_bank sets the fallback oracle of a new bank
\* to the oracle of the existing one, under "values that can be copied".
BanksShareFallbackOracle ==
  \A i \in DOMAIN tokens : \A n \in DOMAIN tokens[i].banks :
    tokens[i].banks[n].fallback_oracle = tokens[i].fallback_oracle

\* A mint is listed once and a token index names one mint, through listings of both
\* kinds and delistings: positions that refer to an index mean one token.
OneMintPerIndex ==
  \A i, j \in DOMAIN tokens : i # j => tokens[i].mint # tokens[j].mint

\* token_register_trustless lists no more than the allowed number of tokens in any
\* calendar week, also when some are deregistered in between.
FastListingsAreRationed ==
  \A n \in DOMAIN fastListed :
    Cardinality({m \in DOMAIN fastListed :
                   fastListed[m] \div FastListingWeek = fastListed[n] \div FastListingWeek})
      <= AllowedFastListings

\* A token listed without the group admin is never collateral and never borrowed
\* before the group admin edits it, whatever the security admin does to it.
FastListedTokensStayHarmless ==
  \A i \in DOMAIN tokens : tokens[i].trustless =>
    \A n \in DOMAIN tokens[i].banks :
      LET b == tokens[i].banks[n]
      IN b.reduce_only # 0 /\ MaintAssetWeight(b, lsNow) = 0 /\ b.init_asset_weight = 0

Strictness(reduce_only) == CASE reduce_only = 0 -> 0 [] reduce_only = 2 -> 1 [] OTHER -> 2

\* Steps that the security admin signs only make settings stricter: no reduce-only
\* mode is relaxed, no weight grows, no flag that moves users' tokens is set.
SecurityAdminOnlyRestricts ==
  lsSigner' = SecurityAdmin /\ lsNow' = lsNow /\ ~UNCHANGED <<tokens, spotMarkets, perpMarkets>> =>
    /\ \A i \in DOMAIN tokens :
         LET b == tokens[i].banks[1]
             c == tokens'[i].banks[1]
         IN /\ Strictness(c.reduce_only) >= Strictness(b.reduce_only)
            /\ c.init_asset_weight <= b.init_asset_weight
            /\ MaintAssetWeight(c, lsNow) <= MaintAssetWeight(b, lsNow)
            /\ c.force_close = b.force_close /\ c.force_withdraw = b.force_withdraw
    /\ \A m \in DOMAIN spotMarkets : spotMarkets[m].reduce_only => spotMarkets'[m].reduce_only
    /\ \A m \in DOMAIN perpMarkets :
         /\ perpMarkets[m].reduce_only => perpMarkets'[m].reduce_only
         /\ perpMarkets'[m].init_overall_asset_weight
              <= perpMarkets[m].init_overall_asset_weight

\* The maintenance weight of a token never jumps as time passes or a shift is
\* aborted: a second changes it by no more than its share of the shift, rounded.
ShiftsAreGradual ==
  \A i \in DOMAIN tokens \cap DOMAIN tokens' : lsSigner' = SecurityAdmin \/ lsNow' # lsNow =>
    LET b == tokens[i].banks[1]
        c == tokens'[i].banks[1]
        change == MaintAssetWeight(c, lsNow') - MaintAssetWeight(b, lsNow)
        most == IF lsNow' = lsNow THEN 0 ELSE (FullWeight + ShiftDuration - 1) \div ShiftDuration
    IN change <= most /\ -change <= most

\* Whoever lists and edits tokens in whatever order, every bank's settings go
\* together and agree with those of its token's other banks, an index means one mint,
\* and fast listings are rationed and harmless.
ListingsAreSafe ==
  /\ LsTypeOK
  /\ EveryBankVerifies
  /\ BanksShareSettings
  /\ OneMintPerIndex
  /\ FastListingsAreRationed
  /\ FastListedTokensStayHarmless

\* The security admin only restricts, and weights that collateral rests on
\* move gradually.
ListingPowersAreLimited ==
  [][/\ SecurityAdminOnlyRestricts
     /\ ShiftsAreGradual]_lsVars

=============================================================================
