----------------------------- MODULE Liquidation -----------------------------
(***************************************************************************)
(* Liquidation of token borrows.  A liquidator takes over a part of an     *)
(* unhealthy account's borrow for some of its assets at a discount; once   *)
(* nothing is left to take, the insurance fund and then the depositors of  *)
(* the borrowed token bear the rest.  Borrows of a token being delisted    *)
(* can be closed by force in the same way.                                 *)
(*                                                                         *)
(* Each account also has a perp position without base whose pnl counts in  *)
(* its health; how that pnl is dealt with is another module's matter.      *)
(***************************************************************************)
EXTENDS Health

CONSTANTS LqAccounts, LqTokens,
          LqDepositLimit,  \* deposit_limit of the banks
          InsuranceToken,  \* INSURANCE_TOKEN_INDEX, in which perps settle too
          LqParams,        \* for each token the weights and fees of its banks
          LqPrices,        \* for each token the oracle prices it may have, in units
          LqSeeds,         \* starting states: positions in units, perp quote, insurance
          LqInUse,         \* the accounts whose token positions are in use
          MaxTransfers,    \* max_liab_transfer arguments, in units
          LqNumBanks,      \* number of banks of each token
          LqMaxMoves       \* bound on price changes

VARIABLES lqBanks,         \* the banks of each token
          lqPositions,     \* indexed position of each account in each token
          being_liquidated,
          insurance_vault, \* native tokens in the insurance fund
          lqVaults,        \* native tokens in the vaults of each token
          lqPerpQuote,     \* quote of each account's perp position, which has no base
          oracles,         \* the price of each token
          force_close,     \* tokens whose borrows may be closed by force
          moves

lqVars == <<lqBanks, lqPositions, being_liquidated, insurance_vault, lqVaults, lqPerpQuote,
            oracles, force_close, moves>>

LqNative(a, t) == NativePosition(lqBanks[t][1], lqPositions[a][t])

\* new_health_cache for the account, with these banks and positions; liquidation
\* uses oracle prices only, the stable price is taken to be the same.
LqCacheWith(a, banks, positions) ==
  LET prices(t) == [oracle |-> oracles[t], stable |-> oracles[t]]
      flat == [settle |-> InsuranceToken, base_lot_size |-> 1,
               maint_base_asset_weight |-> ONE, init_base_asset_weight |-> ONE,
               maint_base_liab_weight |-> ONE, init_base_liab_weight |-> ONE,
               maint_overall_asset_weight |-> ONE, init_overall_asset_weight |-> ONE]
  IN [tokens |-> [t \in LqTokens |->
                    TokenInfoOf(LqParams[t], prices(t),
                                NativePosition(banks[t][1], positions[a][t]),
                                NativeDeposits(banks[t][1]), NativeBorrows(banks[t][1]))],
      serums |-> <<>>,
      perps |-> IF lqPerpQuote[a] = 0 THEN <<>>
                ELSE <<PerpInfoOf(flat, prices(InsuranceToken), 0, lqPerpQuote[a], 0, 0, FALSE)>>]

LqCache(a) == LqCacheWith(a, lqBanks, lqPositions)

\* The cache after the step's transfers, which the handlers adjust or rebuild
HealthAfter(a, ht) == HealthOf(LqCacheWith(a, lqBanks', lqPositions'), ht)

-----------------------------------------------------------------------------
\* Exchanging a borrow for assets

FeeFactorLiqor(asset, liab) ==
  FMul(ONE + LqParams[liab].liquidation_fee, ONE + LqParams[asset].liquidation_fee)

FeeFactorTotal(asset, liab) ==
  FMul(ONE + LqParams[liab].liquidation_fee + LqParams[liab].platform_liquidation_fee,
       ONE + LqParams[asset].liquidation_fee + LqParams[asset].platform_liquidation_fee)

\* The liqor pays liab_transfer of the borrow and gets assets worth it at the
\* oracle prices plus the liquidation fees; the platform keeps its own fees.
Exchange(liqee, liqor, asset, liab, liab_transfer) ==
  LET base == FDiv(FMul(liab_transfer, oracles[liab]), oracles[asset])
      to_liqor == FMul(base, FeeFactorLiqor(asset, liab))
      from_liqee == FMul(base, FeeFactorTotal(asset, liab))
      in_use(a) == a \in LqInUse
      l1 == DepositWithDusting(lqBanks[liab][1], lqPositions[liqee][liab], in_use(liqee),
                               liab_transfer, 0)
      l2 == WithdrawWithFee(l1.bank, lqPositions[liqor][liab], in_use(liqor), liab_transfer, 0)
      a0 == [lqBanks[asset][1] EXCEPT !.collected_fees_native = @ + from_liqee - to_liqor]
      a1 == Deposit(a0, lqPositions[liqor][asset], in_use(liqor), to_liqor, 0)
      a2 == WithdrawWithoutFeeWithDusting(a1.bank, lqPositions[liqee][asset], in_use(liqee),
                                          from_liqee, 0)
  IN [banks |-> [lqBanks EXCEPT ![liab][1] = l2.bank, ![asset][1] = a2.bank],
      positions |-> [lqPositions EXCEPT ![liqee][liab] = l1.pos, ![liqor][liab] = l2.pos,
                                        ![liqor][asset] = a1.pos, ![liqee][asset] = a2.pos],
      loan_amount |-> l2.loan_amount]

\* All of the borrow may go, not only what health needs
LiabTransferAll(c, asset, liab, native_asset, native_liab, max_liab_transfer) ==
  LET adjusted == FMul(oracles[liab], FeeFactorTotal(asset, liab))
  IN Greatest(Least(FDiv(FMul(native_asset, oracles[asset]), adjusted),
                    Least(max_liab_transfer, -native_liab)), 0)

\* How much of the borrow is taken over: what brings the liquidation-end health
\* to zero, what the assets pay for, and no more than the caller, the borrow and
\* the balances that count for health allow.
LiabTransfer(c, asset, liab, native_asset, native_liab, max_liab_transfer) ==
  LET balances == EffectiveTokenBalances(c, "LiquidationEnd", FALSE)
      adjusted == FMul(oracles[liab], FeeFactorTotal(asset, liab))
      max_liab == Least(max_liab_transfer, Least(-native_liab, -balances[liab]))
      max_asset == Least(native_asset, balances[asset])
      needed == FDiv(-HealthOf(c, "LiquidationEnd"),
                     FMul(oracles[liab], LqParams[liab].init_liab_weight)
                     - FMul(adjusted, LqParams[asset].init_asset_weight))
      possible == FDiv(FMul(max_asset, oracles[asset]), adjusted)
  IN IF max_liab <= 0 \/ max_asset <= 0 THEN 0
     ELSE Greatest(Least(needed, Least(possible, max_liab)), 0)

\* An account found healthy again is released, and nothing else happens.
TokenLiqWithToken(liqee, liqor, asset, liab, max_liab_transfer) ==
  LET c == LqCache(liqee)
      native_asset == LqNative(liqee, asset)
      native_liab == LqNative(liqee, liab)
      balances == EffectiveTokenBalances(c, "LiquidationEnd", FALSE)
      state == CheckLiquidatable(being_liquidated[liqee], c)
  IN /\ liqee # liqor /\ asset # liab
     /\ ~being_liquidated[liqor]
     /\ ~HasPhase1Liquidatable(c)
     /\ state # "NotLiquidatable"
     /\ \/ /\ state = "BecameNotLiquidatable"
           /\ being_liquidated' = [being_liquidated EXCEPT ![liqee] = FALSE]
           /\ UNCHANGED <<lqBanks, lqPositions>>
        \/ /\ state = "Liquidatable"
           /\ native_asset > 0 /\ balances[asset] > 0
           /\ native_liab < 0 /\ balances[liab] < 0
           /\ max_liab_transfer > 0
           /\ LqParams[asset].allow_asset_liquidation
           /\ \E x \in {Exchange(liqee, liqor, asset, liab,
                               LiabTransfer(c, asset, liab, native_asset, native_liab,
                                            max_liab_transfer))} :
                lqBanks' = x.banks /\ lqPositions' = x.positions
           /\ HealthAfter(liqor, "Init") >= 0
           /\ being_liquidated' =
                [being_liquidated EXCEPT
                   ![liqee] = StillBeingLiquidated(TRUE, HealthAfter(liqee, "LiquidationEnd"))]
     /\ UNCHANGED <<insurance_vault, lqVaults, lqPerpQuote, oracles, force_close, moves>>

TokenForceCloseBorrowsWithToken(liqee, liqor, asset, liab, max_liab_transfer) ==
  LET native_liab == LqNative(liqee, liab)
      liqor_native == LqNative(liqor, liab)
  IN /\ liqee # liqor /\ asset # liab
     /\ ~being_liquidated[liqor]
     /\ liab \in force_close
     /\ ~AreBorrowsReduceOnly(lqBanks[asset][1])
     /\ LqParams[liab].init_liab_weight
          >= FMul(LqParams[asset].init_liab_weight, FeeFactorTotal(asset, liab))
     /\ liqee \in LqInUse \/ lqPositions[liqee][asset] # 0
     /\ native_liab < 0
     /\ liqor_native > 0
     /\ \E x \in {Exchange(liqee, liqor, asset, liab,
                         Least(max_liab_transfer, Least(-native_liab, liqor_native)))} :
          x.loan_amount = 0 /\ lqBanks' = x.banks /\ lqPositions' = x.positions
     /\ HealthAfter(liqor, "Init") >= 0
     /\ being_liquidated' =
          [being_liquidated EXCEPT
             ![liqee] = StillBeingLiquidated(@, HealthAfter(liqee, "LiquidationEnd"))]
     /\ UNCHANGED <<insurance_vault, lqVaults, lqPerpQuote, oracles, force_close, moves>>

-----------------------------------------------------------------------------
\* Bankruptcy

\* Native liab tokens to native insurance tokens, with the fee of the liqor
LiabToQuoteWithFee(liab) ==
  IF liab = InsuranceToken THEN ONE
  ELSE FDiv(FMul(oracles[liab], ONE + LqParams[liab].liquidation_fee), oracles[InsuranceToken])

\* The loss lowers the deposit index, and the liqee's borrow is credited bank by
\* bank as far as each has borrows.  The loop ends once everything is credited:
\* a bank after that keeps the index it had.
Socialize(liab, banks, pos, in_use, loss) ==
  LET total == FoldSeq(LAMBDA b, sum : sum + b.indexed_deposits, 0, banks)
      index == banks[1].deposit_index - FDiv(loss, total)
  IN FoldLeft(LAMBDA s, k :
                LET b == [s.banks[k] EXCEPT !.deposit_index = index]
                    amount == Least(s.credit, NativeBorrows(b))
                    r == IF amount > 0 THEN DepositWithDusting(b, s.pos, in_use, amount, 0)
                         ELSE Moved(b, s.pos, TRUE, 0, 0)
                IN IF s.credit <= 0 THEN s
                   ELSE [banks |-> [s.banks EXCEPT ![k] = r.bank], pos |-> r.pos,
                         credit |-> s.credit - Greatest(amount, 0)],
              [banks |-> banks, pos |-> pos, credit |-> loss],
              [k \in DOMAIN banks |-> k])

\* insurance_fund_exhausted
FundExhausted(transfer, available) == transfer = available

\* Rounded up, and no more than the fund has
InsuranceTransfer(loss, rate, available) == Least(Ceil(FMul(loss, rate)), available)

\* The liqee's borrow and its bank once the fund has paid amount of it
PaidByFund(liqee, liab, paid, amount) ==
  IF paid THEN DepositWithDusting(lqBanks[liab][1], lqPositions[liqee][liab], liqee \in LqInUse,
                                  amount, 0)
  ELSE Moved(lqBanks[liab][1], lqPositions[liqee][liab], TRUE, 0, 0)

\* The liqor takes that amount over, in exchange for the fund's tokens
TakenByLiqor(liqor, liab, bank, taken, amount) ==
  IF taken THEN WithdrawWithFee(bank, lqPositions[liqor][liab], liqor \in LqInUse, amount, 0)
  ELSE Moved(bank, lqPositions[liqor][liab], TRUE, 0, 0)

\* e and r: the liqee's and the liqor's side of the exchange, after which the liqor's
\* health is checked; s: the banks and the liqee's position once the remaining loss
\* has been socialised, which may lower the liqor's deposits too.
TokenLiqBankruptcy(liqee, liqor, liab, max_liab_transfer) ==
  LET native == LqNative(liqee, liab)
      rate == LiabToQuoteWithFee(liab)
      available == IF LqParams[liab].insured THEN insurance_vault ELSE 0
  IN /\ liqee # liqor
     /\ ~being_liquidated[liqor]
     /\ native < 0
     /\ \E c \in {LqCache(liqee)} :
        \E loss \in {Least(-native, -EffectiveTokenBalances(c, "LiquidationEnd", FALSE)[liab])} :
        \E transfer \in {InsuranceTransfer(Least(loss, max_liab_transfer), rate, available)} :
        \E e \in {PaidByFund(liqee, liab, transfer > 0, FDiv(transfer * ONE, rate))} :
        \E r \in {TakenByLiqor(liqor, liab, e.bank, transfer > 0 /\ liab # InsuranceToken,
                               FDiv(transfer * ONE, rate))} :
        \E q \in {Deposit(lqBanks[InsuranceToken][1], lqPositions[liqor][InsuranceToken],
                          liqor \in LqInUse, transfer * ONE, 0)} :
        LET to_liqor == transfer > 0 /\ liab # InsuranceToken
            remaining == loss - (IF transfer > 0 THEN NativePosition(e.bank, e.pos) - native ELSE 0)
            banks == IF to_liqor
                       THEN [lqBanks EXCEPT ![liab][1] = r.bank, ![InsuranceToken][1] = q.bank]
                       ELSE [lqBanks EXCEPT ![liab][1] = r.bank]
            positions == IF to_liqor
                           THEN [lqPositions EXCEPT ![liqee][liab] = e.pos, ![liqor][liab] = r.pos,
                                                    ![liqor][InsuranceToken] = q.pos]
                           ELSE [lqPositions EXCEPT ![liqee][liab] = e.pos]
            socialized == FundExhausted(transfer, available) /\ remaining > 0
        IN \E s \in {IF socialized
                       THEN Socialize(liab, banks[liab], e.pos, liqee \in LqInUse, remaining)
                       ELSE [banks |-> banks[liab], pos |-> e.pos, credit |-> 0]} :
           /\ ~HasPhase1Liquidatable(c) /\ ~HasPhase2Liquidatable(c)
           /\ loss > 0
           /\ to_liqor => HealthOf(LqCacheWith(liqor, banks, positions), "Init") >= 0
           /\ socialized => s.pos = 0
           /\ lqBanks' = [banks EXCEPT ![liab] = s.banks]
           /\ lqPositions' = [positions EXCEPT ![liqee][liab] = s.pos]
           /\ insurance_vault' = insurance_vault - transfer
           /\ lqVaults' = [lqVaults EXCEPT ![InsuranceToken] = @ + transfer]
           /\ being_liquidated' =
                [being_liquidated EXCEPT
                   ![liqee] = StillBeingLiquidated(TRUE, HealthAfter(liqee, "LiquidationEnd"))]
           /\ UNCHANGED <<lqPerpQuote, oracles, force_close, moves>>

-----------------------------------------------------------------------------
\* The oracle of a token moves
LqSetPrice(t, price) ==
  /\ moves < LqMaxMoves
  /\ price # oracles[t]
  /\ oracles' = [oracles EXCEPT ![t] = price]
  /\ moves' = moves + 1
  /\ UNCHANGED <<lqBanks, lqPositions, being_liquidated, insurance_vault, lqVaults, lqPerpQuote,
                 force_close>>

\* token_edit of reduce-only and force-close, for every bank of the token
LqForceClose(t) ==
  /\ moves < LqMaxMoves
  /\ t \notin force_close
  /\ force_close' = force_close \cup {t}
  /\ lqBanks' = [lqBanks EXCEPT ![t] = [k \in DOMAIN @ |-> [@[k] EXCEPT !.reduce_only = 1]]]
  /\ moves' = moves + 1
  /\ UNCHANGED <<lqPositions, being_liquidated, insurance_vault, lqVaults, lqPerpQuote, oracles>>

\* The banks of token t after the accounts opened the seed's positions; borrows
\* are made from the first bank, deposits to the last.
SeededBanks(seed, t) ==
  LET fresh == [k \in 1 .. LqNumBanks[t] |-> NewBank(ONE, 0, LqDepositLimit)]
      n == LqNumBanks[t]
      deposits == MapThenSumSet(LAMBDA a : Greatest(seed.positions[a][t], 0), LqAccounts)
      borrows == MapThenSumSet(LAMBDA a : Greatest(-seed.positions[a][t], 0), LqAccounts)
  IN [fresh EXCEPT ![n].indexed_deposits = deposits, ![1].indexed_borrows = borrows]

LqInitAs(seed) ==
  /\ lqBanks = [t \in LqTokens |-> SeededBanks(seed, t)]
  /\ lqPositions = seed.positions
  /\ being_liquidated = [a \in LqAccounts |-> FALSE]
  /\ insurance_vault = seed.insurance
  /\ lqVaults = [t \in LqTokens |->
                   Ceil(MapThenSumSet(LAMBDA a : seed.positions[a][t], LqAccounts))]
  /\ lqPerpQuote = seed.perp_quote
  /\ oracles = seed.prices
  /\ force_close = {}
  /\ moves = 0

LqInit == \E seed \in LqSeeds : LqInitAs(seed)

LqNext ==
  \/ \E liqee, liqor \in LqAccounts, liab \in LqTokens, max \in MaxTransfers :
       \/ \E asset \in LqTokens :
            \/ TokenLiqWithToken(liqee, liqor, asset, liab, max)
            \/ TokenForceCloseBorrowsWithToken(liqee, liqor, asset, liab, max)
       \/ TokenLiqBankruptcy(liqee, liqor, liab, max)
  \/ \E t \in LqTokens : \E price \in LqPrices[t] : LqSetPrice(t, price)
  \/ \E t \in LqTokens : LqForceClose(t)

LqSpec == LqInit /\ [][LqNext]_lqVars

-----------------------------------------------------------------------------
\* Properties

\* Vaults and the insurance fund hold natural numbers, and an index that losses
\* have lowered is still positive.
LqTypeOK ==
  /\ insurance_vault \in Nat
  /\ \A t \in LqTokens : lqVaults[t] \in Nat /\ Len(lqBanks[t]) = LqNumBanks[t]
  /\ \A t \in LqTokens : \A k \in 1 .. LqNumBanks[t] : lqBanks[t][k].deposit_index > 0
  /\ lqPositions \in [LqAccounts -> [LqTokens -> Int]]
  /\ being_liquidated \in [LqAccounts -> BOOLEAN]

\* What the rounding of one health computation or of one transfer may amount to, in
\* units of value
LqRounding == 3 * ONE

LiqEndHealth(a) == HealthOf(LqCache(a), "LiquidationEnd")

\* Value of a token's assets, and the claims on them: deposits at the index of
\* the bank that counts them, fees and dust.
TokenAssets(t) ==
  lqVaults[t] * ONE * ONE
  + FoldSeq(LAMBDA b, sum : sum + b.indexed_borrows * b.borrow_index, 0, lqBanks[t])

TokenClaims(t) ==
  FoldSeq(LAMBDA b, sum : sum + b.indexed_deposits * b.deposit_index
                          + (b.collected_fees_native + b.dust) * ONE, 0, lqBanks[t])

\* "total_indexed_deposits * (deposit_index - new_deposit_index) =
\* remaining_liab_loss": whatever liquidation and bankruptcy take off a borrow is
\* paid for, by the liqor, by the insurance fund or by the token's depositors, so
\* no token loses backing by more than its rounding.
LossesAreBorneInFull ==
  \A t \in LqTokens :
    TokenAssets(t)' - TokenClaims(t)'
      >= TokenAssets(t) - TokenClaims(t) - 4 * ONE
         - FoldSeq(LAMBDA b, sum : sum + b.indexed_deposits, 0, lqBanks[t])

\* Depositors only lose when nobody else can pay: whenever a deposit index falls
\* the token has no claim on the insurance fund, or the fund is used up.
InsuranceComesFirst ==
  \A t \in LqTokens :
    lqBanks[t][1].deposit_index' < lqBanks[t][1].deposit_index =>
      ~LqParams[t].insured \/ insurance_vault' = 0

\* A liquidation takes no more than is needed: an account that was below its
\* liquidation-end health is at most brought back to it, and it is not worse off
\* by its measure than before.
LiquidationTakesWhatIsNeeded ==
  lqVars' # lqVars => \A liqee, liqor \in LqAccounts, asset, liab \in LqTokens, max \in MaxTransfers :
    TokenLiqWithToken(liqee, liqor, asset, liab, max) /\ LiqEndHealth(liqee) < 0 =>
      /\ LiqEndHealth(liqee)' >= LiqEndHealth(liqee) - LqRounding
      /\ LiqEndHealth(liqee)' <= LqRounding

\* token_liq_bankruptcy does not look at health, only at what is left to
\* liquidate: it still never strikes a solvent account, one whose assets cover
\* its borrows at the end-of-liquidation weights.
BankruptcyNeedsInsolvency ==
  lqVars' # lqVars => \A liqee, liqor \in LqAccounts, liab \in LqTokens, max \in MaxTransfers :
    TokenLiqBankruptcy(liqee, liqor, liab, max) => LiqEndHealth(liqee) < LqRounding

\* Partial liquidations never end in a dead end: an account being liquidated that
\* is still below the end of liquidation owes something that a liquidation or
\* the bankruptcy of some token applies to, or has perp losses to deal with.
SomeLiquidationApplies ==
  \A a \in LqAccounts :
    LET c == LqCache(a)
    IN being_liquidated[a] /\ LiqEndHealth(a) <= -ONE =>
         \/ lqPerpQuote[a] # 0
         \/ \E asset, liab \in LqTokens :
              /\ LqParams[asset].allow_asset_liquidation
              /\ LiabTransfer(c, asset, liab, LqNative(a, asset), LqNative(a, liab), Unlimited) > 0
         \/ ~HasPhase2Liquidatable(c) /\ \E liab \in LqTokens : LqNative(a, liab) < 0

\* Liquidation and bankruptcy take what is needed from those who have to pay,
\* in their order, and no step of theirs leads into a dead end or overdraws a
\* vault.
LiquidationIsFair ==
  [][/\ LossesAreBorneInFull
     /\ InsuranceComesFirst
     /\ LiquidationTakesWhatIsNeeded
     /\ BankruptcyNeedsInsolvency
     /\ LqTypeOK'
     /\ SomeLiquidationApplies']_lqVars

=============================================================================
