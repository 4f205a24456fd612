----------------------------- MODULE TokenLedger -----------------------------
(***************************************************************************)
(* One token: its banks, their vaults, and the positions that accounts     *)
(* hold in it.  A token may have several banks; each instruction names     *)
(* one of them, while a position belongs to the token.                     *)
(*                                                                         *)
(* The accounts' other positions are not modelled, so a health check may   *)
(* pass or fail whatever happens here; an instruction whose check fails is *)
(* rolled back by the runtime and changes nothing.                         *)
(***************************************************************************)
EXTENDS Bank, Sequences, FiniteSetsExt, SequencesExt

CONSTANTS TlAccounts,          \* accounts holding the token
          TlDepositLimit,      \* deposit_limit of the banks
          StartIndex,          \* both indexes at registration, in units
          Deposits, Withdrawals, \* amounts of native tokens users move
          MinDeposit,          \* least deposit (50 tokens of token 0)
          MaxWithdraw,         \* u64::MAX: withdraw everything
          DelegateWithdrawMax, \* DELEGATE_WITHDRAW_MAX
          MinVaultRatio,       \* min_vault_to_deposits_ratio, in units
          TlPrice,             \* quote per native token
          MaxInterestTimestep, Hour, Day, \* of the clock's units
          CollateralFeeInterval, CollateralFeePerDay, \* the latter in units
          Usages,              \* fractions of assets that cover liabilities, in units
          MaxInUse,            \* bound on in_use_count
          SeedDeposits,        \* what each account has deposited at the start
          MaxBanks, TlMaxTime, TlMaxSteps  \* bounds

VARIABLES banks,      \* the banks of the token, in mint_info's order
          vaults,     \* native tokens in each bank's vault
          positions,  \* each account's TokenPosition
          last_collateral_fee_charge,
          borrowed,   \* history: net borrowing since each bank's window began, in units
          tlNow,
          tlSteps     \* steps taken, bounded

tlVars == <<banks, vaults, positions, last_collateral_fee_charge, borrowed, tlNow, tlSteps>>

Free == [active |-> FALSE, indexed |-> 0, in_use |-> 0]

\* ensure_token_position: the position, or the fresh one a free slot gets
Ensured(a) == IF positions[a].active THEN positions[a] ELSE [Free EXCEPT !.active = TRUE]

Debt(b, pos) == Greatest(-NativePosition(b, pos), 0)

\* Bank k and the position of a after a deposit or withdrawal r, the position
\* staying active or not.
Apply(a, k, p, r, active) ==
  LET old == banks[k]
      same == r.bank.last_net_borrows_window_start_ts = old.last_net_borrows_window_start_ts
      change == Debt(old, r.pos) - Debt(old, p.indexed)
  IN /\ banks' = [banks EXCEPT ![k] = r.bank]
     /\ positions' = [positions EXCEPT ![a] = [p EXCEPT !.active = active, !.indexed = r.pos]]
     /\ borrowed' = [borrowed EXCEPT ![k] = (IF same THEN @ ELSE 0) + change]

-----------------------------------------------------------------------------
\* Deposits and withdrawals

\* What deposit_into_existing credits: with reduce-only, no more than the borrow
Credited(b, p, amount, reduce_only) ==
  IF reduce_only \/ AreDepositsReduceOnly(b)
    THEN Least(Ceil(-Least(NativePosition(b, p.indexed), 0)), amount)
    ELSE amount

DepositIntoExisting(a, k, p, amount, reduce_only, allow_closure) ==
  LET credited == Credited(banks[k], p, amount, reduce_only)
      r == Deposit(banks[k], p.indexed, p.in_use > 0, credited * ONE, tlNow)
  IN /\ amount >= MinDeposit
     /\ AreDepositsReduceOnly(banks[k]) => reduce_only \/ credited = amount
     /\ r.pos > 0 => CheckDepositAndOoLimit(r.bank)
     /\ Apply(a, k, p, r, r.active \/ ~allow_closure)
     /\ vaults' = [vaults EXCEPT ![k] = @ + credited]
     /\ UNCHANGED <<last_collateral_fee_charge, tlNow>>

TlTokenDeposit(a, k, amount, reduce_only) ==
  DepositIntoExisting(a, k, Ensured(a), amount, reduce_only, TRUE)

TlTokenDepositIntoExisting(a, k, amount, reduce_only) ==
  /\ positions[a].active
  /\ DepositIntoExisting(a, k, positions[a], amount, reduce_only, FALSE)

\* A request for everything from a borrowing position returns early, having
\* changed nothing.
TlTokenWithdraw(a, k, request, allow_borrow, by_delegate) ==
  LET p == Ensured(a)
      native == NativePosition(banks[k], p.indexed)
      all == request = MaxWithdraw /\ ~allow_borrow
      amount == IF all THEN Floor(native) ELSE request
      is_borrow == amount * ONE > native
      r == WithdrawWithFee(banks[k], p.indexed, p.in_use > 0, amount * ONE, tlNow)
  IN /\ all => native >= 0
     /\ is_borrow => allow_borrow /\ ~AreBorrowsReduceOnly(banks[k])
     /\ amount <= vaults[k]
     /\ by_delegate => ~r.active /\ amount * TlPrice <= DelegateWithdrawMax
     /\ IF is_borrow
          THEN UtilizationWithin(r.bank, ONE - MinVaultRatio) /\ CheckNetBorrows(r.bank, TlPrice * ONE)
          ELSE UtilizationWithin(r.bank, ONE)
     /\ Apply(a, k, p, r, r.active)
     /\ vaults' = [vaults EXCEPT ![k] = @ - amount]
     /\ UNCHANGED <<last_collateral_fee_charge, tlNow>>

TlTokenForceWithdraw(a, k) ==
  LET p == positions[a]
      native == NativePosition(banks[k], p.indexed)
      amount == Floor(native)
      r == WithdrawWithoutFee(banks[k], p.indexed, p.in_use > 0, amount * ONE, tlNow)
  IN /\ banks[k].force_withdraw
     /\ p.active
     /\ native >= 0
     /\ amount <= vaults[k]
     /\ UtilizationWithin(r.bank, ONE)
     /\ Apply(a, k, p, r, r.active)
     /\ vaults' = [vaults EXCEPT ![k] = @ - amount]
     /\ UNCHANGED <<last_collateral_fee_charge, tlNow>>

-----------------------------------------------------------------------------
\* Markets, perp positions and conditional swaps keep a token position in use

TokenIncrementInUse(a) ==
  LET p == Ensured(a)
  IN /\ p.in_use < MaxInUse
     /\ positions' = [positions EXCEPT ![a] = [p EXCEPT !.in_use = @ + 1]]
     /\ UNCHANGED <<banks, vaults, last_collateral_fee_charge, borrowed, tlNow>>

TokenDecrementDustDeactivate(a, k) ==
  LET p == [positions[a] EXCEPT !.in_use = @ - 1]
      r == DustIfPossible(banks[k], p.indexed, p.in_use > 0, tlNow)
  IN /\ positions[a].in_use > 0
     /\ Apply(a, k, p, r, r.active)
     /\ UNCHANGED <<vaults, last_collateral_fee_charge, tlNow>>

-----------------------------------------------------------------------------
\* Interest, fees and administration

TotalOf(field) == FoldSeq(LAMBDA b, sum : b[field] + sum, 0, banks)

\* Computes from the first bank and sets all; the interest curve is rescaled
\* after an hour.  The oracle price must be usable.
TokenUpdateIndexAndRate ==
  LET first == banks[1]
      deposits == TotalOf("indexed_deposits")
      borrows == TotalOf("indexed_borrows")
      diff_ts == Least(tlNow - first.index_last_updated, MaxInterestTimestep)
      index == ComputeIndex(first, deposits, borrows, diff_ts)
      average == ComputeNewAvgUtilization(first, deposits, borrows, tlNow)
      indexed(b) == [b EXCEPT !.index_last_updated = tlNow,
                              !.deposit_index = index.deposit_index,
                              !.borrow_index = index.borrow_index,
                              !.avg_utilization = average]
      scaling == UpdateInterestRateScaling(indexed(first)).interest_curve_scaling
      rescaled(b) == IF tlNow - first.bank_rate_last_updated > Hour
                       THEN [b EXCEPT !.bank_rate_last_updated = tlNow,
                                      !.interest_curve_scaling = scaling]
                       ELSE b
      charged == [banks EXCEPT ![1].collected_fees_native = @ + index.borrow_fees]
  IN /\ tlNow > first.index_last_updated
     /\ banks' = [k \in DOMAIN banks |-> rescaled(indexed(charged[k]))]
     /\ UNCHANGED <<vaults, positions, last_collateral_fee_charge, borrowed, tlNow>>

\* The first call only starts the account's timer.  usage is the fraction of
\* the assets that covers liabilities; without assets or without liabilities it
\* is 0 and nothing is charged.  A position closed by the charge is looked up
\* again for the log, which fails and undoes the charge.
TokenChargeCollateralFees(a, k, usage) ==
  LET p == positions[a]
      last == last_collateral_fee_charge[a]
      charge_seconds == Least(tlNow - last, 2 * CollateralFeeInterval)
      scaling == FMul(usage, (charge_seconds * ONE) \div Day)
      native == NativePosition(banks[k], p.indexed)
      fee == FMul(FMul(native, scaling), CollateralFeePerDay)
      r == WithdrawWithoutFee(banks[k], p.indexed, p.in_use > 0, fee, tlNow)
      charges == last # 0 /\ p.active /\ native > 0 /\ usage > 0
  IN /\ last = 0 \/ tlNow >= last + CollateralFeeInterval
     /\ last_collateral_fee_charge' = [last_collateral_fee_charge EXCEPT ![a] = tlNow]
     /\ \/ /\ ~charges
           /\ UNCHANGED <<banks, positions, borrowed>>
        \/ /\ charges
           /\ fee <= native
           /\ r.active
           /\ Apply(a, k, p, [r EXCEPT !.bank.collected_fees_native = @ + fee], TRUE)
     /\ UNCHANGED <<vaults, tlNow>>

AdminTokenWithdrawFees(k) ==
  LET amount == Least(Floor(banks[k].collected_fees_native) - banks[k].fees_withdrawn, vaults[k])
  IN /\ amount > 0
     /\ vaults' = [vaults EXCEPT ![k] = @ - amount]
     /\ banks' = [banks EXCEPT ![k].fees_withdrawn = @ + amount]
     /\ UNCHANGED <<positions, last_collateral_fee_charge, borrowed, tlNow>>

TlTokenAddBank ==
  /\ Len(banks) < MaxBanks
  /\ banks' = Append(banks, FromExistingBank(banks[1]))
  /\ vaults' = Append(vaults, 0)
  /\ borrowed' = Append(borrowed, 0)
  /\ UNCHANGED <<positions, last_collateral_fee_charge, tlNow>>

\* token_edit of the two modes, on every bank of the token: a forced
\* withdrawal needs deposits to be reduce-only (Bank::verify).
TokenEditModes(reduce_only, force_withdraw) ==
  /\ force_withdraw => reduce_only = 1
  /\ banks' = [k \in DOMAIN banks |->
                 [banks[k] EXCEPT !.reduce_only = reduce_only,
                                  !.force_withdraw = force_withdraw]]
  /\ banks' # banks
  /\ UNCHANGED <<vaults, positions, last_collateral_fee_charge, borrowed, tlNow>>

TlTick ==
  /\ tlNow < TlMaxTime
  /\ tlNow' = tlNow + 1
  /\ UNCHANGED <<banks, vaults, positions, last_collateral_fee_charge, borrowed>>

-----------------------------------------------------------------------------
\* The first bank once every account has made its first deposit
SeededBank ==
  FoldSet(LAMBDA a, b : IF SeedDeposits[a] = 0 THEN b
                        ELSE Deposit(b, 0, FALSE, SeedDeposits[a] * ONE, 1).bank,
          NewBank(StartIndex, 1, TlDepositLimit), TlAccounts)

SeededPosition(a) ==
  [active |-> SeedDeposits[a] > 0, in_use |-> 0,
   indexed |-> Deposit(NewBank(StartIndex, 1, TlDepositLimit), 0, FALSE, SeedDeposits[a] * ONE, 1).pos]

TlInit ==
  /\ banks = <<SeededBank>>
  /\ vaults = <<MapThenSumSet(LAMBDA a : SeedDeposits[a], TlAccounts)>>
  /\ positions = [a \in TlAccounts |-> SeededPosition(a)]
  /\ last_collateral_fee_charge = [a \in TlAccounts |-> 0]
  /\ borrowed = <<0>>
  /\ tlNow = 1
  /\ tlSteps = 0

TlStep ==
  \/ \E a \in TlAccounts, k \in DOMAIN banks :
       \/ \E amount \in Deposits, reduce_only \in BOOLEAN :
            \/ TlTokenDeposit(a, k, amount, reduce_only)
            \/ TlTokenDepositIntoExisting(a, k, amount, reduce_only)
       \/ \E request \in Withdrawals \cup {MaxWithdraw}, allow_borrow, by_delegate \in BOOLEAN :
            TlTokenWithdraw(a, k, request, allow_borrow, by_delegate)
       \/ TlTokenForceWithdraw(a, k)
       \/ TokenDecrementDustDeactivate(a, k)
       \/ \E usage \in Usages : TokenChargeCollateralFees(a, k, usage)
  \/ \E a \in TlAccounts : TokenIncrementInUse(a)
  \/ \E k \in DOMAIN banks : AdminTokenWithdrawFees(k)
  \/ TokenUpdateIndexAndRate
  \/ TlTokenAddBank
  \/ \E reduce_only \in 0 .. 2, force_withdraw \in BOOLEAN :
       TokenEditModes(reduce_only, force_withdraw)
  \/ TlTick

TlNext ==
  /\ tlSteps < TlMaxSteps
  /\ tlSteps' = tlSteps + 1
  /\ TlStep

TlSpec == TlInit /\ [][TlNext]_tlVars

-----------------------------------------------------------------------------
\* Properties

\* Banks and vaults go together, amounts in vaults are natural numbers, and
\* position counters are within their bounds.
TlTypeOK ==
  /\ Len(banks) \in 1 .. MaxBanks
  /\ DOMAIN vaults = DOMAIN banks
  /\ DOMAIN borrowed = DOMAIN banks
  /\ \A k \in DOMAIN banks :
       vaults[k] \in Nat /\ borrowed[k] \in Int /\ banks[k].deposit_index >= StartIndex
  /\ positions \in [TlAccounts -> [active : BOOLEAN, indexed : Int, in_use : 0 .. MaxInUse]]
  /\ tlNow \in 1 .. TlMaxTime

\* The indexed totals of the banks add up to the indexed positions exactly,
\* deposits and borrows apart, although each instruction names its own bank
\* and a position may cross zero or be dusted in it (Bank::deposit_internal
\* and withdraw_internal).
TotalsMatchPositions ==
  /\ TotalOf("indexed_deposits") =
       MapThenSumSet(LAMBDA a : Greatest(positions[a].indexed, 0), TlAccounts)
  /\ TotalOf("indexed_borrows") =
       MapThenSumSet(LAMBDA a : Greatest(-positions[a].indexed, 0), TlAccounts)

\* A closed position holds nothing and nothing uses it: whatever closes one,
\* a deposit, a withdrawal, a fee or the end of a use, dusts it first.
ClosedPositionsAreEmpty ==
  \A a \in TlAccounts : ~positions[a].active => positions[a] = Free

\* All banks of the token have the same indexes, although an update computes
\* them from the first one and a bank may be added at any time.
BanksShareIndexes ==
  \A k \in DOMAIN banks :
    /\ banks[k].deposit_index = banks[1].deposit_index
    /\ banks[k].borrow_index = banks[1].borrow_index

\* net_borrows_in_window never understates what was really borrowed, net of
\* what was repaid, since the bank's window began: what an account repays
\* beyond its borrow does not make room for others to borrow.
NetBorrowsNotUnderstated ==
  \A k \in DOMAIN banks : banks[k].net_borrows_in_window * ONE >= borrowed[k]

\* "users can withdraw the same amount they have deposited": tokens paid into a
\* vault raise the payer's native position by at least as much, unless it ends
\* up as dust.
DepositsAreCreditedInFull ==
  \A a \in TlAccounts, k \in DOMAIN banks :
    (vaults'[k] > vaults[k] /\ positions'[a] # positions[a] /\ positions'[a].indexed # 0) =>
      NativePosition(banks'[k], positions'[a].indexed)
        >= NativePosition(banks[k], positions[a].indexed) + (vaults'[k] - vaults[k]) * ONE

Assets == TotalOf("indexed_borrows") * banks[1].borrow_index
          + FoldSeq(LAMBDA v, sum : v + sum, 0, vaults) * ONE * ONE

Claims == TotalOf("indexed_deposits") * banks[1].deposit_index
          + (TotalOf("collected_fees_native") - TotalOf("fees_withdrawn") * ONE
             + TotalOf("dust")) * ONE

\* The most that the rounding of one instruction may cost the token's backing: one
\* unit of an index per unit borrowed, and one unit of each amount.
RoundingSlack ==
  banks[1].deposit_index + banks[1].borrow_index + ONE + TotalOf("indexed_borrows")

\* Vaults and outstanding borrows keep backing deposits, collected fees and
\* dust: no instruction, interest included, worsens the balance by more than
\* its rounding, a few of the smallest units.
BooksStayBacked ==
  Assets' - Claims' >= Assets - Claims - RoundingSlack'

\* While the token is reduce-only no instruction makes an account borrow more
\* or, when deposits are reduce-only as well, lifts it to a deposit of a whole
\* token or more that it did not have.
ReduceOnlyHolds ==
  \A a \in TlAccounts :
    LET before == NativePosition(banks[1], positions[a].indexed)
        after == NativePosition(banks[1], positions'[a].indexed)
    IN /\ AreBorrowsReduceOnly(banks[1]) => after >= Least(before, 0)
       /\ AreDepositsReduceOnly(banks[1]) => after < Greatest(before, 0) + ONE

\* The books of a token agree with its positions after every instruction:
\* totals, closed positions, the indexes of its banks and the borrow window.
TokenBooksAgree ==
  /\ TlTypeOK
  /\ TotalsMatchPositions
  /\ ClosedPositionsAreEmpty
  /\ BanksShareIndexes
  /\ NetBorrowsNotUnderstated

\* No instruction gives away tokens: payments are credited in full, the token
\* stays backed up to rounding and the reduce-only modes hold.
TokenStepsAreBacked ==
  [][/\ DepositsAreCreditedInFull
     /\ BooksStayBacked
     /\ ReduceOnlyHolds]_tlVars

=============================================================================
