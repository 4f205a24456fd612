-------------------------------- MODULE Bank --------------------------------
(***************************************************************************)
(* The arithmetic of a Bank: how deposits and withdrawals move a token     *)
(* position, the bank's totals, its fees, its dust and its count of net    *)
(* borrows, and how interest moves the two indexes.                        *)
(*                                                                         *)
(* An I80F48 is an integer number of units of 1/ONE (2^-48 in the code).   *)
(* Its product rounds down and its quotient towards zero, so the rounding  *)
(* that the code takes care of happens here too, with a coarser unit.      *)
(***************************************************************************)
EXTENDS Integers

CONSTANTS ONE,                   \* units of 1 (I80F48::ONE in bits)
          LoanOriginationFeeRate,\* loan_origination_fee_rate, in units
          LoanFeeRate,           \* loan_fee_rate, in units per year
          Util0, Util1,          \* util0 and util1 of the interest curve, in units
          ZeroUtilRate, Rate0, Rate1, MaxRate, \* the curve's rates, in units per year
          InterestTargetUtilization, \* interest_target_utilization, in units
          AdjustmentFactor,      \* adjustment_factor, in units
          Year,                  \* YEAR_I80F48, in units of the clock
          NetBorrowWindow,       \* net_borrow_limit_window_size_ts
          NetBorrowLimit         \* net_borrow_limit_per_window_quote, -1 for none

DELTA == 1

\* I80F48::MAX, above every amount of an instance
Unlimited == 1000000

FMul(a, b) == (a * b) \div ONE

FDiv(a, b) == IF a >= 0 THEN (a * ONE) \div b ELSE -((-a * ONE) \div b)

Floor(a) == a \div ONE

Ceil(a) == -((-a) \div ONE)

Least(a, b) == IF a <= b THEN a ELSE b

Greatest(a, b) == IF a >= b THEN a ELSE b

\* A Bank as token_register leaves it; start is the index both sides begin with
\* and limit the deposit_limit, 0 for none.
NewBank(start, now, limit) ==
  [deposit_index |-> start, borrow_index |-> start,
   indexed_deposits |-> 0, indexed_borrows |-> 0,
   collected_fees_native |-> 0, fees_withdrawn |-> 0, dust |-> 0,
   last_net_borrows_window_start_ts |-> (now \div NetBorrowWindow) * NetBorrowWindow,
   net_borrows_in_window |-> 0, potential_serum_tokens |-> 0, reduce_only |-> 0,
   index_last_updated |-> now, bank_rate_last_updated |-> now, avg_utilization |-> 0,
   interest_curve_scaling |-> ONE, force_withdraw |-> FALSE, deposit_limit |-> limit]

\* A second bank of the token: the parameters and indexes of the first, and
\* no balances (Bank::from_existing_bank).
FromExistingBank(b) ==
  [b EXCEPT !.indexed_deposits = 0, !.indexed_borrows = 0, !.collected_fees_native = 0,
            !.fees_withdrawn = 0, !.dust = 0, !.net_borrows_in_window = 0,
            !.potential_serum_tokens = 0]

\* TokenPosition::native
NativePosition(b, pos) == FMul(pos, IF pos > 0 THEN b.deposit_index ELSE b.borrow_index)

NativeDeposits(b) == FMul(b.deposit_index, b.indexed_deposits)

NativeBorrows(b) == FMul(b.borrow_index, b.indexed_borrows)

AreDepositsReduceOnly(b) == b.reduce_only = 1

AreBorrowsReduceOnly(b) == b.reduce_only \in {1, 2}

\* enforce_max_utilization, the utilization in units
UtilizationWithin(b, max) == NativeBorrows(b) <= FMul(max, NativeDeposits(b))

-----------------------------------------------------------------------------
\* Net borrows

UpdateNetBorrows(b, amount, now) ==
  IF now >= b.last_net_borrows_window_start_ts + NetBorrowWindow
    THEN [b EXCEPT !.last_net_borrows_window_start_ts =
                      (now \div NetBorrowWindow) * NetBorrowWindow,
                   !.net_borrows_in_window = Ceil(amount)]
    ELSE [b EXCEPT !.net_borrows_in_window = @ + Ceil(amount)]

\* The price, oracle or stable whichever is higher, in quote per native token.
RemainingNetBorrowsQuote(b, price) ==
  IF b.net_borrows_in_window < 0 \/ NetBorrowLimit < 0 THEN Unlimited * ONE
  ELSE NetBorrowLimit * ONE - b.net_borrows_in_window * price

CheckNetBorrows(b, price) == RemainingNetBorrowsQuote(b, price) >= 0

\* Takes the deposits slightly too high, so that what it returns can be deposited.
RemainingDepositsUntilLimit(b) ==
  IF b.deposit_limit = 0 THEN Unlimited * ONE
  ELSE b.deposit_limit * ONE - FMul(b.deposit_index, b.indexed_deposits + DELTA)
       - b.potential_serum_tokens * ONE

CheckDepositAndOoLimit(b) ==
  b.deposit_limit > 0 =>
    NativeDeposits(b) + b.potential_serum_tokens * ONE <= b.deposit_limit * ONE

-----------------------------------------------------------------------------
\* Deposits

DivRoundingUp(native, index) ==
  LET indexed == FDiv(native, index)
  IN IF FMul(indexed, index) < native THEN indexed + DELTA ELSE indexed

\* The result of a deposit or withdrawal: the bank and the position after it,
\* whether the position stays active, and what was newly borrowed, fee included.
Moved(b, pos, active, fee, loan) ==
  [bank |-> b, pos |-> pos, active |-> active, loan_origination_fee |-> fee,
   loan_amount |-> loan]

AddToDeposits(b, pos, amount) ==
  LET change == DivRoundingUp(amount, b.deposit_index)
  IN Moved([b EXCEPT !.indexed_deposits = @ + change], pos + change, TRUE, 0, 0)

DepositInternal(b, pos, amount, allow_dusting, now) ==
  LET native == NativePosition(b, pos)
      b1 == UpdateNetBorrows(b, Greatest(native, -amount), now)
      new_native == native + amount
      change == DivRoundingUp(amount, b.borrow_index)
  IN IF native >= 0 THEN AddToDeposits(b, pos, amount)
     ELSE IF pos + change < 0
       THEN Moved([b1 EXCEPT !.indexed_borrows = @ - change], pos + change, TRUE, 0, 0)
     ELSE IF new_native < ONE /\ allow_dusting
       THEN Moved([b1 EXCEPT !.dust = @ + new_native, !.indexed_borrows = @ + pos],
                  0, FALSE, 0, 0)
     ELSE AddToDeposits([b1 EXCEPT !.indexed_borrows = @ + pos], 0, Greatest(new_native, 0))

\* deposit: dusts unless the position is in use
Deposit(b, pos, in_use, amount, now) == DepositInternal(b, pos, amount, ~in_use, now)

\* deposit_with_dusting: dusts always, and keeps a position in use active
DepositWithDusting(b, pos, in_use, amount, now) ==
  LET r == DepositInternal(b, pos, amount, TRUE, now)
  IN [r EXCEPT !.active = @ \/ in_use]

-----------------------------------------------------------------------------
\* Withdrawals

AddToBorrows(b, pos, amount, with_fee, now) ==
  LET fee == IF with_fee THEN FMul(LoanOriginationFeeRate, amount) ELSE 0
      change == FDiv(amount + fee, b.borrow_index)
      b1 == [b EXCEPT !.collected_fees_native = @ + fee, !.indexed_borrows = @ + change]
  IN Moved(UpdateNetBorrows(b1, amount + fee, now), pos - change, TRUE, fee, amount + fee)

\* A dusted position stays in the bank's total
WithdrawInternalDustCounted(b, pos, amount, with_fee, allow_dusting, now) ==
  LET native == NativePosition(b, pos)
      change == FDiv(amount, b.deposit_index)
  IN IF native < 0 THEN AddToBorrows(b, pos, amount, with_fee, now)
     ELSE IF native < amount
       THEN AddToBorrows([b EXCEPT !.indexed_deposits = @ - pos], 0, amount - native,
                         with_fee, now)
     ELSE IF native - amount < ONE /\ allow_dusting
       THEN Moved([b EXCEPT !.dust = @ + native - amount], 0, FALSE, 0, 0)
     ELSE Moved([b EXCEPT !.indexed_deposits = @ - change], pos - change, TRUE, 0, 0)

WithdrawInternal(b, pos, amount, with_fee, allow_dusting, now) ==
  LET native == NativePosition(b, pos)
      new_native == native - amount
      change == FDiv(amount, b.deposit_index)
  IN IF native < 0 THEN AddToBorrows(b, pos, amount, with_fee, now)
     ELSE IF new_native < 0
       THEN AddToBorrows([b EXCEPT !.indexed_deposits = @ - pos], 0, -new_native, with_fee, now)
     ELSE IF new_native < ONE /\ allow_dusting
       THEN Moved([b EXCEPT !.dust = @ + new_native, !.indexed_deposits = @ - pos],
                  0, FALSE, 0, 0)
     ELSE Moved([b EXCEPT !.indexed_deposits = @ - change], pos - change, TRUE, 0, 0)

WithdrawWithFee(b, pos, in_use, amount, now) ==
  WithdrawInternal(b, pos, amount, TRUE, ~in_use, now)

WithdrawWithoutFee(b, pos, in_use, amount, now) ==
  WithdrawInternal(b, pos, amount, FALSE, ~in_use, now)

WithdrawWithoutFeeWithDusting(b, pos, in_use, amount, now) ==
  LET r == WithdrawInternal(b, pos, amount, FALSE, TRUE, now)
  IN [r EXCEPT !.active = @ \/ in_use]

\* The fee for a borrow that happened earlier
WithdrawLoanOriginationFee(b, pos, in_use, borrowed, now) ==
  LET fee == FMul(LoanOriginationFeeRate, borrowed)
      r == WithdrawWithoutFee([b EXCEPT !.collected_fees_native = @ + fee],
                              pos, in_use, fee, now)
  IN [r EXCEPT !.loan_origination_fee = fee, !.loan_amount = 0]

DustIfPossible(b, pos, in_use, now) ==
  IF ~in_use /\ NativePosition(b, pos) >= 0 /\ NativePosition(b, pos) < ONE
    THEN WithdrawWithoutFee(b, pos, in_use, 0, now)
    ELSE Moved(b, pos, TRUE, 0, 0)

ChangeWithoutFee(b, pos, in_use, amount, now) ==
  IF amount >= 0 THEN Deposit(b, pos, in_use, amount, now)
                 ELSE WithdrawWithoutFee(b, pos, in_use, -amount, now)

-----------------------------------------------------------------------------
\* Transfers between two positions of the token

\* checked_transfer_with_fee: withdraws from the source and deposits to the
\* target, unless the amount is zero; "ok" is the conjunction of its checks.
CheckedTransferWithFee(b, source, source_in_use, source_amount, target, target_in_use, target_amount, now, price) ==
  LET w == IF source_amount = 0 THEN Moved(b, source, TRUE, 0, 0)
           ELSE WithdrawWithFee(b, source, source_in_use, source_amount, now)
      d == IF target_amount = 0 THEN Moved(w.bank, target, TRUE, 0, 0)
           ELSE Deposit(w.bank, target, target_in_use, target_amount, now)
  IN [bank |-> d.bank, source |-> w.pos, target |-> d.pos,
      source_active |-> w.active, target_active |-> d.active,
      loan_origination_fee |-> w.loan_origination_fee, loan_amount |-> w.loan_amount,
      ok |-> /\ source_amount # 0 => w.pos >= 0 \/ ~AreBorrowsReduceOnly(b)
             /\ target_amount # 0 => d.pos <= 0 \/ ~AreDepositsReduceOnly(b)
             /\ d.bank.indexed_borrows > b.indexed_borrows + DELTA =>
                  CheckNetBorrows(d.bank, price)
             /\ d.bank.indexed_deposits > b.indexed_deposits + DELTA =>
                  CheckDepositAndOoLimit(d.bank)]

-----------------------------------------------------------------------------
\* Interest

InstantaneousUtilization(deposits, borrows) ==
  IF deposits = 0 THEN 0 ELSE Least(Greatest(FDiv(borrows, deposits), 0), ONE)

\* One leg of the interest curve, from the point (u0, r0) to (u1, r1)
CurveLeg(u0, r0, u1, r1, util) == r0 + FMul(FDiv(r1 - r0, u1 - u0), util - u0)

InterestRateCurve(util, scaling) ==
  LET rate == IF util <= Util0 THEN CurveLeg(0, ZeroUtilRate, Util0, Rate0, util)
              ELSE IF util <= Util1 THEN CurveLeg(Util0, Rate0, Util1, Rate1, util)
              ELSE CurveLeg(Util1, Rate1, ONE, MaxRate, util)
  IN FMul(rate, scaling)

\* Depositors given the whole borrow rate instead of their share of it
ComputeIndexFullRate(b, total_deposits, total_borrows, diff_ts) ==
  LET borrows == FMul(b.borrow_index, total_borrows)
      util == InstantaneousUtilization(FMul(b.deposit_index, total_deposits), borrows)
      borrow_rate == InterestRateCurve(util, b.interest_curve_scaling)
  IN [deposit_index |-> b.deposit_index
                        + ((FMul(b.deposit_index, borrow_rate) * diff_ts) \div Year),
      borrow_index |-> b.borrow_index
                       + ((FMul(b.borrow_index, borrow_rate + LoanFeeRate) * diff_ts) \div Year),
      borrow_fees |-> ((FMul(borrows, LoanFeeRate) * diff_ts) \div Year)]

\* compute_index, from the totals over all banks of the token: the new indexes
\* and the fees on borrows.
ComputeIndex(b, total_deposits, total_borrows, diff_ts) ==
  LET borrows == FMul(b.borrow_index, total_borrows)
      util == InstantaneousUtilization(FMul(b.deposit_index, total_deposits), borrows)
      borrow_rate == InterestRateCurve(util, b.interest_curve_scaling)
      deposit_rate == FMul(borrow_rate, util)
  IN [deposit_index |-> b.deposit_index
                        + ((FMul(b.deposit_index, deposit_rate) * diff_ts) \div Year),
      borrow_index |-> b.borrow_index
                       + ((FMul(b.borrow_index, borrow_rate + LoanFeeRate) * diff_ts) \div Year),
      borrow_fees |-> ((FMul(borrows, LoanFeeRate) * diff_ts) \div Year)]

\* compute_new_avg_utilization: weighted by time since the rates were last set
ComputeNewAvgUtilization(b, total_deposits, total_borrows, now) ==
  LET util == InstantaneousUtilization(FMul(b.deposit_index, total_deposits),
                                       FMul(b.borrow_index, total_borrows))
      avg_time == now - b.bank_rate_last_updated
  IN IF now = 0 THEN 0
     ELSE IF avg_time <= 0 THEN util
     ELSE (b.avg_utilization * (b.index_last_updated - b.bank_rate_last_updated)
           + util * (now - b.index_last_updated)) \div avg_time

\* update_interest_rate_scaling: up above the target utilization, down below
\* it, never under one.
UpdateInterestRateScaling(b) ==
  LET util == Least(Greatest(b.avg_utilization, 0), ONE)
      factor == FDiv(util - InterestTargetUtilization,
                     IF util > InterestTargetUtilization
                       THEN ONE - InterestTargetUtilization ELSE InterestTargetUtilization)
      adjustment == ONE + FMul(AdjustmentFactor, factor)
  IN [b EXCEPT !.interest_curve_scaling = Greatest(FMul(@, adjustment), ONE)]

=============================================================================
