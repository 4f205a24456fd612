----------------------------- MODULE TcsTaker -----------------------------
(***************************************************************************)
(* How the liquidator takes token conditional swaps: it collects the       *)
(* interesting ones, prepares as many as its volume limit allows, several  *)
(* at a time, and sends those that fit its token positions together.       *)
(*                                                                         *)
(* A round goes through the phases of `ttPc`.  `ttStatus` says of every    *)
(* swap whether it is a candidate of the round, its preparation runs, or   *)
(* it is done with; `ttPendingVolume`, `ttPrepared` and `ttNoNewJob` are   *)
(* the local variables of execute_tcs, `ttErrors` the tracked errors by    *)
(* type and account, and `ttSent` (history) what the round sent.           *)
(* `ttMode`, the configured way to get the buy token, never changes.       *)
(*                                                                         *)
(* All prices are one.  What a preparation finds on chain is one of the    *)
(* `TtSituations`: the liqee's positions, the room both banks' limits      *)
(* leave, what the liqee may swap ignoring them, and the liqor's means.    *)
(***************************************************************************)
EXTENDS Integers, Sequences, FiniteSets, FiniteSetsExt

CONSTANTS
    TtAccounts,
    TtSwaps,          \* by id: [account, volume, tokens]
    TtSituations,
    TtModes,          \* of "borrow", "collateral", "sell": Config::mode
    MaxTrigger,       \* max_trigger_quote_amount
    MaxPrepared,
    ExecutionThreshold,
    LiqorTokens,      \* tokens the liqor has a position for
    LiqorFree,        \* free token positions of the liqor
    TtSkipThreshold,
    TtMaxRounds       \* bound

VARIABLES ttMode, ttPc, ttStatus, ttPendingVolume, ttPrepared, ttNoNewJob, ttErrors, ttSent, ttRounds

ttVars == <<ttMode, ttPc, ttStatus, ttPendingVolume, ttPrepared, ttNoNewJob, ttErrors, ttSent, ttRounds>>

TtIds == DOMAIN TtSwaps
TtErrorTypes == {"collection hard", "collection partial", "execution"}

TtMin(a, b) == IF a < b THEN a ELSE b
TtMax(a, b) == IF a > b THEN a ELSE b
Excess(wanted, available) == wanted - TtMin(wanted, available)

-----------------------------------------------------------------------------
(* Sizing a swap: tcs_max_liqee_execution.                                 *)

LiqorBuyBorrows(s) == IF ttMode = "borrow" /\ ~s.buy_is_collateral THEN s.max_buy ELSE 0

\* What net borrow limits leave: the liqee borrows the sell token, the liqor
\* the buy token, whose sale may repay a borrow of the liqee.
NetBorrowLimitedSell(s) ==
    s.max_sell - Excess(TtMax(0, s.max_sell - TtMax(s.sell_position, 0)), s.sell_borrows_left)

NetBorrowLimitedBuy(s) ==
    s.max_buy - Excess(TtMax(0, LiqorBuyBorrows(s) + TtMin(s.buy_position, 0)), s.buy_borrows_left)

\* What deposit limits leave of that: the liqor deposits what the liqee
\* borrowed, the liqee what the liqor borrowed.
DepositLimitedSell(s) ==
    LET sell == NetBorrowLimitedSell(s) IN
    sell - Excess(TtMax(0, sell - TtMax(s.sell_position, 0)), s.sell_deposits_left)

DepositLimitedBuy(s) ==
    LET buy == NetBorrowLimitedBuy(s)
        liqeeDeposits == TtMax(0, buy + TtMin(s.buy_position, 0))
        deposits == TtMin(liqeeDeposits, TtMin(LiqorBuyBorrows(s), buy)) IN
    buy - Excess(deposits, s.buy_deposits_left)

TinyDueToLimits(s) ==
    \/ DepositLimitedBuy(s) < ExecutionThreshold /\ s.max_buy > ExecutionThreshold
    \/ DepositLimitedSell(s) < ExecutionThreshold /\ s.max_sell > ExecutionThreshold

\* Selling into buy falls back on collateral when the sell token cannot be
\* borrowed enough.
ModeOf(s) ==
    LET needed == TtMin(TtMin(DepositLimitedSell(s), DepositLimitedBuy(s)), MaxTrigger) IN
    IF ttMode = "sell" /\ (s.borrows_reduce_only \/ needed > s.sell_borrows_left)
    THEN "collateral" ELSE ttMode

MaxBuyToLiqee(s) ==
    TtMin(TtMin(s.liqor_available[ModeOf(s)], MaxTrigger), DepositLimitedBuy(s))

\* An expired swap is triggered to close it, at no cost to the liqor.
ExpiredExecution(id, s) ==
    [id |-> id, volume |-> 0, tokens |-> {}, buy |-> 0, sell |-> 0, situation |-> s]

\* The account is liquidatable, or a fresh look finds the swap uninteresting.
NotWorthPreparing(s) == s.liquidatable \/ ~s.interesting

\* The prepared execution, as a set of none or one.
PreparedExecution(id, s) ==
    IF s.expired THEN {ExpiredExecution(id, s)}
    ELSE IF NotWorthPreparing(s) \/ TinyDueToLimits(s)
            \/ DepositLimitedSell(s) = 0 \/ MaxBuyToLiqee(s) = 0 \/ ~s.good_price
    THEN {}
    ELSE {[id |-> id, volume |-> TtMin(MaxBuyToLiqee(s), DepositLimitedSell(s)),
           tokens |-> TtSwaps[id].tokens, buy |-> MaxBuyToLiqee(s), sell |-> DepositLimitedSell(s),
           situation |-> s]}

-----------------------------------------------------------------------------
(* Errors by type and account: a count, and whether the last one is recent. *)

TtNoError == [count |-> 0, recent |-> FALSE]
TooManyErrors(type, a) == ttErrors[type][a].count >= TtSkipThreshold /\ ttErrors[type][a].recent
RecordedErrors(e, n) == [count |-> TtMin(e.count + n, TtSkipThreshold), recent |-> TRUE]
RecordedError(e) == RecordedErrors(e, 1)

ErrorsLapse(a) ==
    /\ ttPc = "idle"
    /\ \E type \in TtErrorTypes :
         /\ ttErrors[type][a].recent
         /\ ttErrors' = [ttErrors EXCEPT ![type][a].recent = FALSE]
    /\ UNCHANGED <<ttMode, ttPc, ttStatus, ttPendingVolume, ttPrepared, ttNoNewJob, ttSent, ttRounds>>

-----------------------------------------------------------------------------
(* maybe_take_token_conditional_swap: collecting.                          *)

SwapsOf(a) == {id \in TtIds : TtSwaps[id].account = a}

\* What an account's collection does to its errors: `good` of its swaps are
\* interesting, looking at `bad` fails, `hard` if the account cannot be read.
CollectionErrors(a, hard, good, bad) ==
    [type \in TtErrorTypes |->
       LET e == ttErrors[type][a] IN
       CASE TooManyErrors("collection hard", a) -> e
         [] hard /\ type = "collection hard" -> RecordedError(e)
         [] hard -> e
         [] type = "collection hard" -> TtNoError
         [] good \cup bad = {} -> TtNoError
         [] type = "collection partial" /\ bad = {} -> TtNoError
         [] type = "collection partial" -> RecordedErrors(e, Cardinality(bad))
         [] OTHER -> e]

Collect ==
    /\ ttPc = "idle" /\ ttRounds < TtMaxRounds
    /\ \E hard \in SUBSET TtAccounts, good, bad \in SUBSET TtIds :
         LET skipped == {a \in TtAccounts : TooManyErrors("collection hard", a)}
             found == {id \in good : TtSwaps[id].account \notin hard \cup skipped} IN
         /\ good \cap bad = {}
         /\ \A id \in good \cup bad : TtSwaps[id].account \notin hard
         /\ ttErrors' = [type \in TtErrorTypes |-> [a \in TtAccounts |->
              CollectionErrors(a, a \in hard, good \cap SwapsOf(a), bad \cap SwapsOf(a))[type]]]
         /\ ttStatus' = [id \in TtIds |-> IF id \in found THEN "new" ELSE "out"]
         /\ ttPc' = IF found = {} THEN "idle" ELSE "prepare"
    /\ ttPendingVolume' = 0 /\ ttPrepared' = {} /\ ttNoNewJob' = FALSE /\ ttSent' = {}
    /\ ttRounds' = ttRounds + 1
    /\ UNCHANGED ttMode

-----------------------------------------------------------------------------
(* execute_tcs: preparing.                                                 *)

Pending == {id \in TtIds : ttStatus[id] = "pending"}
PreparedVolume == MapThenSumSet(LAMBDA p : p.volume, ttPrepared)

LoopGoesOn == Cardinality(ttPrepared) < MaxPrepared /\ PreparedVolume < MaxTrigger

MustWait ==
    \/ Cardinality(ttPrepared) + Cardinality(Pending) >= MaxPrepared
    \/ PreparedVolume + ttPendingVolume >= MaxTrigger
    \/ ttNoNewJob

\* A candidate's volume counts at least one and at most the limit.
Fits(id) == TtMax(TtMin(TtSwaps[id].volume, MaxTrigger), 1)
              <= MaxTrigger - ttPendingVolume - PreparedVolume

\* A candidate that fits is drawn; its job starts unless its account had too
\* many errors.
StartJob(id) ==
    /\ ttPc = "prepare" /\ LoopGoesOn /\ ~MustWait
    /\ ttStatus[id] = "new" /\ Fits(id)
    /\ IF TooManyErrors("execution", TtSwaps[id].account)
       THEN /\ ttStatus' = [ttStatus EXCEPT ![id] = "tried"]
            /\ UNCHANGED ttPendingVolume
       ELSE /\ ttStatus' = [ttStatus EXCEPT ![id] = "pending"]
            /\ ttPendingVolume' = ttPendingVolume + TtSwaps[id].volume
    /\ UNCHANGED <<ttMode, ttPc, ttPrepared, ttNoNewJob, ttErrors, ttSent, ttRounds>>

NothingFits ==
    /\ ttPc = "prepare" /\ LoopGoesOn /\ ~MustWait
    /\ \A id \in TtIds : ttStatus[id] = "new" => ~Fits(id)
    /\ ttNoNewJob' = TRUE
    /\ UNCHANGED <<ttMode, ttPc, ttStatus, ttPendingVolume, ttPrepared, ttErrors, ttSent, ttRounds>>

\* Once a job ends there may be room for a new one.
NoNewJobAfter == FALSE

\* One of the pending jobs ends: with a prepared execution, with none, or
\* with an error.
JobEnds(id) ==
    /\ ttPc = "prepare" /\ LoopGoesOn /\ MustWait
    /\ ttStatus[id] = "pending"
    /\ ttStatus' = [ttStatus EXCEPT ![id] = "tried"]
    /\ ttPendingVolume' = ttPendingVolume - TtSwaps[id].volume
    /\ \/ \E s \in TtSituations : ttPrepared' = ttPrepared \cup PreparedExecution(id, s)
                                  /\ UNCHANGED ttErrors
       \/ /\ ttErrors' = [ttErrors EXCEPT !["execution"][TtSwaps[id].account] = RecordedError(@)]
          /\ UNCHANGED ttPrepared
    /\ ttNoNewJob' = NoNewJobAfter
    /\ UNCHANGED <<ttMode, ttPc, ttSent, ttRounds>>

LoopEnds ==
    /\ ttPc = "prepare"
    /\ ~LoopGoesOn \/ (MustWait /\ Pending = {})
    /\ ttPc' = "execute"
    /\ UNCHANGED <<ttMode, ttStatus, ttPendingVolume, ttPrepared, ttNoNewJob, ttErrors, ttSent, ttRounds>>

-----------------------------------------------------------------------------
(* execute_tcs: sending.                                                   *)

\* The tokens of the prepared executions for which the liqor has, or can
\* still create, a position; which ones get the free positions depends on
\* the order of the list.
AllowedTokensEach(tokens, allowed) ==
    /\ allowed \subseteq tokens /\ tokens \cap LiqorTokens \subseteq allowed
    /\ \A t \in tokens : t \in allowed <=> (t \in LiqorTokens \/ LiqorFree > 0)

AllowedTokens(tokens, allowed) ==
    /\ allowed \subseteq tokens /\ tokens \cap LiqorTokens \subseteq allowed
    /\ Cardinality(allowed \ LiqorTokens) = TtMin(LiqorFree, Cardinality(tokens \ LiqorTokens))

\* The executions that use only allowed tokens are sent together; each
\* succeeds or fails.
ExecutePrepared ==
    /\ ttPc = "execute"
    /\ \E allowed \in SUBSET UNION {p.tokens : p \in ttPrepared} :
         /\ AllowedTokens(UNION {p.tokens : p \in ttPrepared}, allowed)
         /\ \E failed \in SUBSET {p \in ttPrepared : p.tokens \subseteq allowed} :
              LET sent == {p \in ttPrepared : p.tokens \subseteq allowed}
                  of(a, ps) == {p \in ps : TtSwaps[p.id].account = a} IN
              /\ ttSent' = sent
              /\ ttErrors' = [ttErrors EXCEPT !["execution"] =
                   [a \in TtAccounts |->
                      CASE of(a, sent \ failed) # {} -> TtNoError
                        [] of(a, sent) = of(a, failed) /\ of(a, failed) # {} ->
                             RecordedErrors(@[a], Cardinality(of(a, failed)))
                        [] OTHER -> @[a]]]
    /\ ttPc' = "idle"
    /\ ttStatus' = [id \in TtIds |-> "out"]
    /\ ttPendingVolume' = 0
    /\ UNCHANGED <<ttMode, ttPrepared, ttNoNewJob, ttRounds>>

\* The liqor's account cannot be read: the round ends with nothing sent.
LiqorUnreadable ==
    /\ ttPc = "execute"
    /\ ttPc' = "idle"
    /\ ttStatus' = [id \in TtIds |-> "out"]
    /\ ttPendingVolume' = 0
    /\ UNCHANGED <<ttMode, ttPrepared, ttNoNewJob, ttErrors, ttSent, ttRounds>>

-----------------------------------------------------------------------------

TtInitAs(mode) ==
    /\ ttMode = mode
    /\ ttPc = "idle" /\ ttStatus = [id \in TtIds |-> "out"]
    /\ ttPendingVolume = 0 /\ ttPrepared = {} /\ ttNoNewJob = FALSE
    /\ ttErrors = [type \in TtErrorTypes |-> [a \in TtAccounts |-> TtNoError]]
    /\ ttSent = {} /\ ttRounds = 0

TtInit == \E mode \in TtModes : TtInitAs(mode)

TtNext ==
    \/ Collect \/ LiqorUnreadable \/ NothingFits \/ LoopEnds \/ ExecutePrepared
    \/ \E a \in TtAccounts : ErrorsLapse(a)
    \/ \E id \in TtIds : StartJob(id) \/ JobEnds(id)

TtSpec == TtInit /\ [][TtNext]_ttVars

-----------------------------------------------------------------------------
(* Properties.                                                             *)

\* The types of the state; the unsigned volumes never run below zero.
TtTypeOK ==
    /\ ttPc \in {"idle", "prepare", "execute"}
    /\ \A id \in TtIds : ttStatus[id] \in {"out", "new", "pending", "tried"}
    /\ ttPendingVolume = MapThenSumSet(LAMBDA id : TtSwaps[id].volume, Pending)
    /\ (ttPc = "prepare" /\ LoopGoesOn /\ ~MustWait) => ttPendingVolume + PreparedVolume <= MaxTrigger
    /\ Cardinality(ttPrepared) + Cardinality(Pending) <= MaxPrepared

\* A prepared execution, carried out in full, keeps within both banks' net
\* borrow and deposit limits as they were seen: what the liqee and the liqor
\* newly borrow, less what the trade repays, and what they newly deposit.
ExecutionsKeepLimits ==
    \A p \in ttPrepared :
      LET s == p.situation
          sellBorrowed == TtMax(0, p.sell - TtMax(s.sell_position, 0))
          buyBorrowed == IF ttMode = "borrow" /\ ~s.buy_is_collateral THEN p.buy ELSE 0
          buyRepaid == TtMin(p.buy, -TtMin(s.buy_position, 0)) IN
      /\ sellBorrowed <= s.sell_borrows_left /\ sellBorrowed <= s.sell_deposits_left
      /\ buyBorrowed - buyRepaid <= s.buy_borrows_left
      /\ TtMin(buyBorrowed, p.buy - buyRepaid) <= s.buy_deposits_left

\* When the preparation ends with no limit reached, no candidate was left out
\* that would still have fitted the volume, although jobs free their volume
\* again in any order.
NothingFittingIsLeftOut ==
    (ttPc = "execute" /\ LoopGoesOn) => \A id \in TtIds : ttStatus[id] = "new" => ~Fits(id)

\* The transactions of a round fit the liqor's token positions together, in
\* whatever order they reach the chain.
SentFitTogether ==
    Cardinality(UNION {p.tokens : p \in ttSent} \ LiqorTokens) <= LiqorFree

\* A round of swap executions keeps within volume, limits and token positions,
\* and leaves out nothing that fits.
RoundsFit ==
  /\ TtTypeOK
  /\ ExecutionsKeepLimits
  /\ NothingFittingIsLeftOut
  /\ SentFitTogether

=============================================================================
