----------------------------- MODULE Transactions -----------------------------
(***************************************************************************)
(* Transactions that carry state from one instruction to a later one:      *)
(* flash loans, whose Begin lends tokens that End takes back, and health   *)
(* regions, inside which no instruction checks health.  Begin inspects the *)
(* instructions that follow; the runtime executes a transaction as a whole *)
(* or not at all.                                                          *)
(*                                                                         *)
(* Tokens are worth the same, an account's health is what it has in tokens *)
(* and in perps; interest, net borrow and deposit limits play no part.     *)
(***************************************************************************)
EXTENDS Integers, Sequences, FiniteSets, FiniteSetsExt, SequencesExt

CONSTANTS TxAccounts, TxTokens,
          TxDelegates,   \* the accounts whose signer is a delegate
          TxReduceOnly,  \* reduce_only of the banks
          TxFee,         \* one token in so many is the fee of a loan, and of a swap
          TxAmount,      \* amount of a withdrawal, and of a swap outside
          TxMenu,        \* the instructions that transactions are made of
          SequenceRange, \* number of values of the sequence number, a u8
          TxSeeds,       \* positions, results of perps and liquidation flags at the start
          TxLength, MaxTxs

VARIABLES chain,         \* the state of program accounts and token accounts
          backup,        \* the state before the transaction
          tx, pc,        \* its instructions, and the one to execute
          txs            \* committed transactions

txVars == <<chain, backup, tx, pc, txs>>

\* flash_loan_token_account_initial of a bank without a loan (u64::MAX)
NoLoan == -1

\* Instructions of this program, and of others: a swap, and a call back into this
\* program.
Mango(op, a, arg) == [program |-> "mango", op |-> op, account |-> a, arg |-> arg]
JupiterSwap == [program |-> "jupiter", op |-> "Swap", account |-> "none", arg |-> 0]
CallWithdraw(a) == [program |-> "other", op |-> "CallWithdraw", account |-> a, arg |-> 0]

\* allowed_inner_ix of health_region_begin that the model has
AllowedInner == {"PerpPlaceOrder"}

TxTotal(s, t) == MapThenSumSet(LAMBDA a : s.pos[a][t], TxAccounts)

TxHealth(s, a) == MapThenSumSet(LAMBDA t : s.pos[a][t], TxTokens) + s.perps[a]

\* check_health_pre: liquidation that has ended is noticed, one that has not is an error
Recovered(s, a) == IF TxHealth(s, a) >= 0 THEN [s EXCEPT !.liquidated[a] = FALSE] ELSE s

HealthPre(s, a) == ~Recovered(s, a).liquidated[a]

\* check_health_post, for an account with health pre before
HealthPost(pre, post) == post >= 0 \/ post >= pre

-----------------------------------------------------------------------------
\* The instructions that follow, as Begin sees them

Following == SubSeq(tx, pc + 1, Len(tx))

\* Index of the first that makes Test true, 0 if there is none
FirstSuch(seq, Test(_)) ==
  LET hits == {i \in DOMAIN seq : Test(seq[i])}
  IN IF hits = {} THEN 0 ELSE Min(hits)

\* Instructions after Begin are not inspected
FlashLoanTxOkAlways(ix) == TRUE

\* The only instruction of this program from Begin to End is End, for the same
\* account and the same loans; others may not pass this program on, and a delegate
\* only uses programs known to swap.
FlashLoanTxOk(ix) ==
  LET end == FirstSuch(Following, LAMBDA x : x.program = "mango")
  IN /\ end # 0
     /\ Following[end].op = "FlashLoanEndV2"
     /\ Following[end].account = ix.account
     /\ \A i \in 1 .. end - 1 :
          /\ Following[i].op # "CallWithdraw"
          /\ ix.account \in TxDelegates => Following[i].program = "jupiter"

\* A region may be left without an end
HealthRegionTxOkNoEnd(ix) ==
  TRUE

\* From Begin to the End of the same account there are only instructions of this
\* program that place and cancel orders and settle.
HealthRegionTxOk(ix) ==
  LET end == FirstSuch(Following, LAMBDA x : x.op = "HealthRegionEnd")
  IN /\ end # 0
     /\ Following[end].account = ix.account
     /\ \A i \in 1 .. end - 1 : Following[i].program = "mango" /\ Following[i].op \in AllowedInner

-----------------------------------------------------------------------------
\* Instructions: when they succeed, and what they leave

FlashLoanBeginOk(s, ix) ==
  /\ FlashLoanTxOk(ix)
  /\ \A t \in DOMAIN ix.arg :
       /\ s.banks[t].approved = 0 /\ s.banks[t].initial = NoLoan
       /\ s.vaults[t] >= ix.arg[t]

FlashLoanBegin(s, ix) ==
  LET lent(t) == t \in DOMAIN ix.arg
  IN [s EXCEPT !.banks = [t \in TxTokens |->
                            IF lent(t) THEN [approved |-> ix.arg[t], initial |-> s.wallet[t]]
                            ELSE @[t]],
               !.vaults = [t \in TxTokens |-> IF lent(t) THEN @[t] - ix.arg[t] ELSE @[t]],
               !.wallet = [t \in TxTokens |-> IF lent(t) THEN @[t] + ix.arg[t] ELSE @[t]]]

\* The banks that Begin lent from
Lent(s) == {t \in TxTokens : s.banks[t].initial # NoLoan}

\* What exceeds the initial balance of the token account goes back to the vault
Repaid(s, t) == Max({0, s.wallet[t] - s.banks[t].initial})

VaultChange(s, t) == Repaid(s, t) - s.banks[t].approved

\* loan_origination_fee, on what the position does not cover
LoanOriginationFee(s, a, t) ==
  LET native == s.pos[a][t]
      loan == IF native > 0 THEN Max({s.banks[t].approved - native, 0}) ELSE s.banks[t].approved
  IN loan \div TxFee

\* The fee of a swap is on what leaves the vault
SwapFee(s, t) == IF VaultChange(s, t) < 0 THEN (-VaultChange(s, t)) \div TxFee ELSE 0

ChangeAmount(s, a, t) == VaultChange(s, t) - LoanOriginationFee(s, a, t) - SwapFee(s, t)

\* The change of each vault, less the fees, is a change of the position.
FlashLoanEnd(s, ix) ==
  LET a == ix.account
      vault(t) == s.vaults[t] + Repaid(s, t)
  IN [Recovered(s, a) EXCEPT
        !.banks = [t \in TxTokens |-> [approved |-> 0, initial |-> NoLoan]],
        !.vaults = [t \in TxTokens |-> IF t \in Lent(s) THEN vault(t) ELSE @[t]],
        !.wallet = [t \in TxTokens |-> IF t \in Lent(s) THEN @[t] - Repaid(s, t) ELSE @[t]],
        !.fees = [t \in TxTokens |->
                    IF t \in Lent(s) THEN @[t] + LoanOriginationFee(s, a, t) + SwapFee(s, t)
                    ELSE @[t]],
        !.pos[a] = [t \in TxTokens |->
                      IF t \in Lent(s) THEN @[t] + ChangeAmount(s, a, t) ELSE @[t]]]

\* Reduce-only banks let deposits, or deposits and borrows, only shrink
ReduceOnlyAllows(s, a, t) ==
  LET native == s.pos[a][t]
      after == native + ChangeAmount(s, a, t)
  IN /\ TxReduceOnly[t] = 1 => after < 1 \/ after <= native
     /\ TxReduceOnly[t] \in {1, 2} => after >= native \/ after >= 0

FlashLoanEndOk(s, ix) ==
  LET a == ix.account
      post == FlashLoanEnd(s, ix)
  IN /\ Lent(s) # {}
     /\ HealthPre(s, a)
     /\ \A t \in Lent(s) : ReduceOnlyAllows(s, a, t) /\ TxTotal(post, t) >= 0
     /\ HealthPost(TxHealth(s, a), TxHealth(post, a))

HealthRegionBeginOk(s, ix) == HealthRegionTxOk(ix) /\ ~s.region[ix.account] /\ HealthPre(s, ix.account)

HealthRegionBegin(s, ix) ==
  [Recovered(s, ix.account) EXCEPT !.region[ix.account] = TRUE,
                                   !.begin_health[ix.account] = TxHealth(s, ix.account)]

HealthRegionEndOk(s, ix) ==
  s.region[ix.account] /\ HealthPost(s.begin_health[ix.account], TxHealth(s, ix.account))

HealthRegionEnd(s, ix) ==
  [s EXCEPT !.region[ix.account] = FALSE, !.begin_health[ix.account] = 0]

\* An instruction that changes the account checks its health, unless in a region.
CheckedChange(s, post, a) ==
  s.region[a] \/ (HealthPre(s, a) /\ HealthPost(TxHealth(s, a), TxHealth(post, a)))

PerpPlaceOrder(s, ix) ==
  LET a == ix.account
  IN [IF s.region[a] THEN s ELSE Recovered(s, a) EXCEPT !.perps[a] = @ + ix.arg]

\* A withdrawal of the second token
TxWithdraw(s, ix) ==
  LET a == ix.account
      t == "u"
  IN [IF s.region[a] THEN s ELSE Recovered(s, a) EXCEPT
        !.pos[a][t] = @ - TxAmount, !.vaults[t] = @ - TxAmount, !.wallet[t] = @ + TxAmount]

TxWithdrawOk(s, ix) ==
  LET post == TxWithdraw(s, ix)
  IN CheckedChange(s, post, ix.account) /\ post.vaults["u"] >= 0 /\ TxTotal(post, "u") >= 0

\* wrapping_add
SequenceCheck(s, ix) ==
  [s EXCEPT !.sequence_number[ix.account] = (@ + 1) % SequenceRange]

\* Outside, tokens "t" of the token account are exchanged for "u".
Swap(s) == [s EXCEPT !.wallet["t"] = @ - TxAmount, !.wallet["u"] = @ + TxAmount]

-----------------------------------------------------------------------------
\* The runtime

Succeeds(s, ix) ==
  CASE ix.op = "FlashLoanBegin"    -> FlashLoanBeginOk(s, ix)
    [] ix.op = "FlashLoanEndV2"    -> FlashLoanEndOk(s, ix)
    [] ix.op = "HealthRegionBegin" -> HealthRegionBeginOk(s, ix)
    [] ix.op = "HealthRegionEnd"   -> HealthRegionEndOk(s, ix)
    [] ix.op = "PerpPlaceOrder"    -> CheckedChange(s, PerpPlaceOrder(s, ix), ix.account)
    [] ix.op = "SequenceCheck"     -> s.sequence_number[ix.account] = ix.arg
    [] ix.op = "HealthCheck"       -> TxHealth(s, ix.account) >= ix.arg
    [] ix.op = "Swap"              -> s.wallet["t"] >= TxAmount
    [] OTHER                       -> TxWithdrawOk(s, ix)

Result(s, ix) ==
  CASE ix.op = "FlashLoanBegin"    -> FlashLoanBegin(s, ix)
    [] ix.op = "FlashLoanEndV2"    -> FlashLoanEnd(s, ix)
    [] ix.op = "HealthRegionBegin" -> HealthRegionBegin(s, ix)
    [] ix.op = "HealthRegionEnd"   -> HealthRegionEnd(s, ix)
    [] ix.op = "PerpPlaceOrder"    -> PerpPlaceOrder(s, ix)
    [] ix.op = "SequenceCheck"     -> SequenceCheck(s, ix)
    [] ix.op = "HealthCheck"       -> s
    [] ix.op = "Swap"              -> Swap(s)
    [] OTHER                       -> TxWithdraw(s, ix)

\* Some transactions went before, so that the next sequence number is the last.
TxInitAs(seed) ==
  /\ chain = [banks |-> [t \in TxTokens |-> [approved |-> 0, initial |-> NoLoan]],
              vaults |-> [t \in TxTokens |->
                            MapThenSumSet(LAMBDA a : seed.pos[a][t], TxAccounts)],
              wallet |-> [t \in TxTokens |-> 0],
              fees |-> [t \in TxTokens |-> 0],
              pos |-> seed.pos, perps |-> seed.perps, liquidated |-> seed.liquidated,
              region |-> [a \in TxAccounts |-> FALSE],
              begin_health |-> [a \in TxAccounts |-> 0],
              sequence_number |-> [a \in TxAccounts |-> SequenceRange - 1]]
  /\ backup = chain
  /\ tx = <<>> /\ pc = 0 /\ txs = 0

TxInit == \E seed \in TxSeeds : TxInitAs(seed)

StartTx ==
  /\ tx = <<>> /\ txs < MaxTxs
  /\ \E n \in 1 .. TxLength : tx' \in [1 .. n -> TxMenu]
  /\ pc' = 1 /\ backup' = chain
  /\ UNCHANGED <<chain, txs>>

ExecuteInstruction ==
  /\ tx # <<>> /\ pc <= Len(tx)
  /\ Succeeds(chain, tx[pc])
  /\ chain' = Result(chain, tx[pc]) /\ pc' = pc + 1
  /\ UNCHANGED <<backup, tx, txs>>

AbortTx ==
  /\ tx # <<>> /\ pc <= Len(tx)
  /\ ~Succeeds(chain, tx[pc])
  /\ chain' = backup /\ tx' = <<>> /\ pc' = 0
  /\ UNCHANGED <<backup, txs>>

CommitTx ==
  /\ tx # <<>> /\ pc > Len(tx)
  /\ tx' = <<>> /\ pc' = 0 /\ txs' = txs + 1 /\ backup' = chain
  /\ UNCHANGED chain

TxNext == StartTx \/ ExecuteInstruction \/ AbortTx \/ CommitTx

TxSpec == TxInit /\ [][TxNext]_txVars

-----------------------------------------------------------------------------
\* Properties

\* Sequence numbers stay within their field, and vaults and token accounts are not
\* overdrawn.
TxTypeOK ==
  /\ \A a \in TxAccounts : /\ chain.sequence_number[a] \in 0 .. SequenceRange - 1
                           /\ chain.region[a] \in BOOLEAN /\ chain.liquidated[a] \in BOOLEAN
  /\ \A t \in TxTokens : chain.vaults[t] >= 0 /\ chain.wallet[t] >= 0 /\ chain.fees[t] >= 0
  /\ tx \in Seq(TxMenu) /\ pc \in 0 .. TxLength + 1 /\ txs \in 0 .. MaxTxs

\* flash_loan_begin and health_region_begin look ahead for the matching end: no
\* transaction leaves a bank with an open flash loan, which would block the next one
\* for good, or an account in a health region, which nobody would check again.
NothingLeftOpen ==
  tx = <<>> => /\ \A t \in TxTokens : chain.banks[t] = [approved |-> 0, initial |-> NoLoan]
               /\ \A a \in TxAccounts : ~chain.region[a] /\ chain.begin_health[a] = 0

\* While a loan is open nothing but its end touches the vaults: after every
\* transaction what a vault holds is what the positions and the collected fees claim,
\* repaid or not.
LoansAreRepaidOrOwed ==
  tx = <<>> => \A t \in TxTokens : chain.vaults[t] = TxTotal(chain, t) + chain.fees[t]

\* A transaction as a whole never takes an account's health below zero and below
\* what it was, whatever its instructions left unchecked inside a region.
TransactionsKeepHealth ==
  CommitTx => \A a \in TxAccounts :
                TxHealth(chain', a) >= 0 \/ TxHealth(chain', a) >= TxHealth(backup, a)

\* An account in liquidation takes no part in flash loans, orders or withdrawals
\* before it has recovered: a transaction leaves it as it was, or with health
\* regained.
LiquidatedAccountsStayPut ==
  CommitTx => \A a \in TxAccounts :
                backup.liquidated[a] /\ TxHealth(backup, a) < 0
                  => chain'.pos[a] = backup.pos[a] /\ chain'.perps[a] = backup.perps[a]

\* Whatever instructions it strings together, a transaction leaves no loan and
\* no health region open, and every lent token repaid or owed.
TransactionsEndClean ==
  /\ TxTypeOK
  /\ NothingLeftOpen
  /\ LoansAreRepaidOrOwed

\* Checks postponed within a transaction are made up for by its end: no
\* account ends below zero health and worse, and one in liquidation takes no
\* part.
TransactionsKeepAccountsSafe ==
  [][/\ TransactionsKeepHealth
     /\ LiquidatedAccountsStayPut]_txVars

=============================================================================
