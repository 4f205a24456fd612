--------------------------- MODULE LiquidatorBot ---------------------------
(***************************************************************************)
(* The liquidator's jobs and what they share.                              *)
(*                                                                         *)
(* The data job applies chain updates and notes in `lbShared` that there   *)
(* is something to check; the liquidation job goes through the accounts in *)
(* random order, awaiting between them, until it liquidates one; the       *)
(* rebalance job runs on a timer or when triggered through a channel of    *)
(* capacity one.  `lbChain` is the cached chain state, reduced to whether  *)
(* each account is liquidatable; `lbUnchecked` (a history variable) the    *)
(* accounts whose state may have changed since they were last looked at,   *)
(* and `lbDuringScan` those among them that changed while the job was at   *)
(* work.  Errors are kept by age: `lbErrors[a]` is the tracked count and   *)
(* the time since the last one, `lbFailures[a]` (history) the ages of the  *)
(* newest SkipThreshold + 1 failures since the last success, the newest    *)
(* first; SkipDuration stands for an old failure and for none.             *)
(***************************************************************************)
EXTENDS Integers, FiniteSets

CONSTANTS
    LbAccounts,
    SkipThreshold, SkipDuration,   \* of error type Liq
    KeepDuration, LogInterval,
    TakeTcs                        \* --take-tcs

ASSUME LiquidatorBotAssumption ==
    /\ SkipThreshold \in Nat \ {0} /\ SkipDuration \in Nat \ {0}
    /\ KeepDuration \in Nat /\ KeepDuration >= SkipDuration /\ LogInterval \in Nat \ {0}
    /\ TakeTcs \in BOOLEAN

VARIABLES lbShared, lbChain, lbJob, lbErrors, lbSinceLog, lbRebalance,
          lbUnchecked, lbDuringScan, lbFailures

lbVars == <<lbShared, lbChain, lbJob, lbErrors, lbSinceLog, lbRebalance,
            lbUnchecked, lbDuringScan, lbFailures>>

Idle == lbJob.pc = "idle"

-----------------------------------------------------------------------------
(* The data job.                                                           *)

\* The first unprocessed event is noted; a later one changes nothing.
NotedEvent == [lbShared EXCEPT !.oldest = TRUE]

Changed(accounts) ==
    /\ lbUnchecked' = lbUnchecked \cup accounts
    /\ lbDuringScan' = IF Idle THEN lbDuringScan \ accounts ELSE lbDuringScan \cup accounts

AccountMessageUnnoted(a) ==
    /\ lbShared' = [lbShared EXCEPT !.mango_accounts = @ \cup {a}]
    /\ \E l \in BOOLEAN : lbChain' = [lbChain EXCEPT ![a] = l]
    /\ Changed({a})
    /\ UNCHANGED <<lbJob, lbErrors, lbSinceLog, lbRebalance, lbFailures>>

\* A mango account changed (or is new).
AccountMessage(a) ==
    /\ lbShared' = [NotedEvent EXCEPT !.mango_accounts = @ \cup {a}]
    /\ \E l \in BOOLEAN : lbChain' = [lbChain EXCEPT ![a] = l]
    /\ Changed({a})
    /\ UNCHANGED <<lbJob, lbErrors, lbSinceLog, lbRebalance, lbFailures>>

\* A bank, market or oracle changed: the health of any account may have.
OtherMessage ==
    /\ lbShared' = NotedEvent
    /\ lbChain' \in [LbAccounts -> BOOLEAN]
    /\ Changed(lbShared.mango_accounts)
    /\ UNCHANGED <<lbJob, lbErrors, lbSinceLog, lbRebalance, lbFailures>>

\* A snapshot: every account of the program is in it.
SnapshotMessage ==
    /\ lbShared' = [NotedEvent EXCEPT !.mango_accounts = LbAccounts, !.one_snapshot_done = TRUE]
    /\ lbChain' \in [LbAccounts -> BOOLEAN]
    /\ Changed(LbAccounts)
    /\ UNCHANGED <<lbJob, lbErrors, lbSinceLog, lbRebalance, lbFailures>>

-----------------------------------------------------------------------------
(* Error tracking.                                                         *)

NoError == [count |-> 0, age |-> 0]

ShouldSkip(e) == e.count >= SkipThreshold /\ e.age < SkipDuration

\* Counts past the threshold are all alike.
RecordError(e) == [count |-> IF e.count > SkipThreshold THEN e.count ELSE e.count + 1, age |-> 0]

WipeOld(errors) == [a \in LbAccounts |-> IF errors[a].age < KeepDuration THEN errors[a] ELSE NoError]

Newest == 1 .. SkipThreshold + 1
NoFailures == [i \in Newest |-> SkipDuration]

Older(n, cap) == IF n < cap THEN n + 1 ELSE n

\* Time goes by: a unit of the skip duration.
TimePasses ==
    /\ lbErrors' = [a \in LbAccounts |->
                      IF lbErrors[a] = NoError THEN NoError
                      ELSE [lbErrors[a] EXCEPT !.age = Older(@, KeepDuration)]]
    /\ lbSinceLog' = Older(lbSinceLog, LogInterval)
    /\ lbFailures' = [a \in LbAccounts |->
                        [i \in Newest |-> Older(lbFailures[a][i], SkipDuration)]]
    /\ UNCHANGED <<lbShared, lbChain, lbJob, lbRebalance, lbUnchecked, lbDuringScan>>

-----------------------------------------------------------------------------
(* The liquidation job.                                                    *)

\* Events before the first snapshot are discarded.
TickBeforeSnapshot ==
    /\ Idle /\ ~lbShared.one_snapshot_done
    /\ lbShared' = [lbShared EXCEPT !.oldest = FALSE]
    /\ UNCHANGED <<lbChain, lbJob, lbErrors, lbSinceLog, lbRebalance, lbUnchecked, lbDuringScan,
                   lbFailures>>

\* Something new, or a run that ended in a liquidation: a run starts over the
\* accounts known now, after the error bookkeeping.
TickStartsRun ==
    /\ Idle /\ lbShared.one_snapshot_done
    /\ lbShared.oldest \/ lbJob.start_time
    /\ lbJob' = [pc |-> "scan", todo |-> lbShared.mango_accounts, start_time |-> TRUE]
    /\ IF lbSinceLog < LogInterval
       THEN UNCHANGED <<lbErrors, lbSinceLog>>
       ELSE /\ lbErrors' = WipeOld(lbErrors)
            /\ lbSinceLog' = 0
    /\ UNCHANGED <<lbShared, lbChain, lbRebalance, lbUnchecked, lbDuringScan, lbFailures>>

\* The account was checked.
LookedAt(a) ==
    /\ lbUnchecked' = lbUnchecked \ {a}
    /\ lbDuringScan' = lbDuringScan \ {a}

\* error_tracking.clear
Cleared(a) ==
    /\ lbErrors' = [lbErrors EXCEPT ![a] = NoError]
    /\ lbFailures' = [lbFailures EXCEPT ![a] = NoFailures]

\* A failure now, and those before it.
OneMore(failures) == [i \in Newest |-> IF i = 1 THEN 0 ELSE failures[i - 1]]

\* The next account: it is skipped; or found healthy, by the cached state or
\* by the fresh one; or an attempt fails, be it that the health cannot be
\* computed, that the transaction is refused, or that the slot of one that was
\* sent cannot be had.  (The last was a liquidation, but the job does not know
\* and sends no trigger.)  An oracle error is tracked by token, not by account.
NextAccount(a) ==
    /\ lbJob.pc = "scan" /\ a \in lbJob.todo
    /\ lbJob' = [lbJob EXCEPT !.todo = @ \ {a}]
    /\ \/ /\ ShouldSkip(lbErrors[a])
          /\ UNCHANGED <<lbErrors, lbFailures, lbChain>>
       \/ /\ ~ShouldSkip(lbErrors[a])
          /\ \/ /\ Cleared(a)
                /\ lbChain' = [lbChain EXCEPT ![a] = FALSE]
             \/ /\ lbErrors' = [lbErrors EXCEPT ![a] = RecordError(@)]
                /\ lbFailures' = [lbFailures EXCEPT ![a] = OneMore(@)]
                /\ UNCHANGED lbChain
             \/ UNCHANGED <<lbErrors, lbFailures, lbChain>>
    /\ LookedAt(a)
    /\ UNCHANGED <<lbShared, lbSinceLog, lbRebalance>>

\* send_unless_full on the channel of capacity one.
Triggered(r) == [r EXCEPT !.trigger = TRUE, !.needed = TRUE]

\* A liquidation ends the run; the next one starts over all accounts.
AfterLiquidation == /\ lbJob' = [lbJob EXCEPT !.pc = "idle", !.todo = {}]
                    /\ UNCHANGED lbShared

\* A liquidation: whether the account is still liquidatable is seen once the
\* accounts were refreshed.
Liquidates(a) ==
    /\ lbJob.pc = "scan" /\ a \in lbJob.todo
    /\ ~ShouldSkip(lbErrors[a]) /\ lbChain[a]
    /\ \E l \in BOOLEAN : lbChain' = [lbChain EXCEPT ![a] = l]
    /\ Cleared(a)
    /\ AfterLiquidation
    /\ lbRebalance' = Triggered(lbRebalance)
    /\ LookedAt(a)
    /\ UNCHANGED lbSinceLog

\* The run found nothing to liquidate: the events count as processed
\* (unwrap() panics if there is none), and the conditional swaps get their
\* turn.
RunEnds ==
    /\ lbJob.pc = "scan" /\ lbJob.todo = {}
    /\ IF lbShared.oldest
       THEN /\ lbJob' = [pc |-> IF TakeTcs THEN "tcs" ELSE "idle", todo |-> {}, start_time |-> FALSE]
            /\ lbShared' = [lbShared EXCEPT !.oldest = FALSE]
       ELSE lbJob' = [lbJob EXCEPT !.pc = "panic"] /\ UNCHANGED lbShared
    /\ UNCHANGED <<lbChain, lbErrors, lbSinceLog, lbRebalance, lbUnchecked, lbDuringScan, lbFailures>>

\* Conditional swaps were triggered, or none was (see TcsTaker).
TcsTurn ==
    /\ lbJob.pc = "tcs"
    /\ lbJob' = [lbJob EXCEPT !.pc = "idle"]
    /\ \E took \in BOOLEAN : lbRebalance' = IF took THEN Triggered(lbRebalance) ELSE lbRebalance
    /\ UNCHANGED <<lbShared, lbChain, lbErrors, lbSinceLog, lbUnchecked, lbDuringScan, lbFailures>>

-----------------------------------------------------------------------------
(* The rebalance job.                                                      *)

RebalanceStarts(byTrigger) ==
    /\ lbRebalance.pc = "wait"
    /\ byTrigger => lbRebalance.trigger
    /\ lbRebalance' = IF lbShared.one_snapshot_done
                      THEN [pc |-> "run", trigger |-> lbRebalance.trigger /\ ~byTrigger,
                            needed |-> FALSE]
                      ELSE [lbRebalance EXCEPT !.trigger = @ /\ ~byTrigger]
    /\ UNCHANGED <<lbShared, lbChain, lbJob, lbErrors, lbSinceLog, lbUnchecked, lbDuringScan,
                   lbFailures>>

\* It fails and sleeps before it listens again, or succeeds.
RebalanceEnds ==
    /\ \/ lbRebalance.pc = "run" /\ \E p \in {"sleep", "wait"} : lbRebalance' = [lbRebalance EXCEPT !.pc = p]
       \/ lbRebalance.pc = "sleep" /\ lbRebalance' = [lbRebalance EXCEPT !.pc = "wait"]
    /\ UNCHANGED <<lbShared, lbChain, lbJob, lbErrors, lbSinceLog, lbUnchecked, lbDuringScan,
                   lbFailures>>

-----------------------------------------------------------------------------

LbInit ==
    /\ lbShared = [mango_accounts |-> {}, one_snapshot_done |-> FALSE, oldest |-> FALSE]
    /\ lbChain = [a \in LbAccounts |-> FALSE]
    /\ lbJob = [pc |-> "idle", todo |-> {}, start_time |-> FALSE]
    /\ lbErrors = [a \in LbAccounts |-> NoError]
    /\ lbSinceLog = 0
    /\ lbRebalance = [pc |-> "wait", trigger |-> FALSE, needed |-> FALSE]
    /\ lbUnchecked = {} /\ lbDuringScan = {}
    /\ lbFailures = [a \in LbAccounts |-> NoFailures]

LbNext ==
    \/ \E a \in LbAccounts : AccountMessage(a) \/ NextAccount(a) \/ Liquidates(a)
    \/ OtherMessage \/ SnapshotMessage
    \/ TickBeforeSnapshot \/ TickStartsRun \/ RunEnds \/ TcsTurn \/ TimePasses
    \/ \E byTrigger \in BOOLEAN : RebalanceStarts(byTrigger)
    \/ RebalanceEnds

LbSpec == LbInit /\ [][LbNext]_lbVars

-----------------------------------------------------------------------------
(* Properties.                                                             *)

\* The types of the state.
LbTypeOK ==
    /\ lbShared \in [mango_accounts : SUBSET LbAccounts, one_snapshot_done : BOOLEAN, oldest : BOOLEAN]
    /\ lbJob \in [pc : {"idle", "scan", "tcs", "panic"}, todo : SUBSET LbAccounts, start_time : BOOLEAN]
    /\ lbJob.todo \subseteq lbShared.mango_accounts
    /\ lbChain \in [LbAccounts -> BOOLEAN]
    /\ lbErrors \in [LbAccounts -> [count : 0 .. SkipThreshold + 1, age : 0 .. KeepDuration]]
    /\ lbSinceLog \in 0 .. LogInterval
    /\ lbRebalance \in [pc : {"wait", "run", "sleep"}, trigger : BOOLEAN, needed : BOOLEAN]
    /\ lbFailures \in [LbAccounts -> [Newest -> 0 .. SkipDuration]]

\* oldest_chain_event_reception_time.unwrap() at the end of a run never meets
\* a None: a run starts with an event noted or as the sequel of one that a
\* liquidation cut short, and that one left the note in place.
JobNeverPanics == lbJob.pc # "panic"

\* An event that arrives while the liquidation job is not at work is not
\* forgotten: until the job has looked at every account it may concern, the
\* note stays.
IdleEventsAreRemembered ==
    (lbShared.one_snapshot_done /\ lbUnchecked \ lbDuringScan # {}) =>
        \/ lbShared.oldest
        \/ lbJob.pc = "scan"

\* The same for every event, as the comment "Oldest chain event not processed
\* yet" on the note says.  It is false: an event that arrives during a run
\* finds the note set, and the end of the run removes it although the account
\* was looked at before the event.
EventsAreRemembered ==
    (lbShared.one_snapshot_done /\ lbUnchecked # {}) => (lbShared.oldest \/ lbJob.pc = "scan")

\* After a liquidation or a triggered swap that the job knows of, the rebalance
\* job has a run ahead of it: the trigger is in the channel until a run starts, and a trigger that
\* arrives during a run, or during the pause after a failed one, waits there.
RebalanceIsAhead == lbRebalance.needed => lbRebalance.trigger

\* An account whose liquidation keeps failing costs the liquidator at most
\* SkipThreshold attempts in any period of SkipDuration, also when old errors
\* are wiped in between.
FailuresAreThrottled ==
    \A a \in LbAccounts : lbFailures[a][SkipThreshold + 1] >= SkipDuration

\* The liquidator's tasks share their state without a panic; a change of an
\* account that arrives between two runs is not forgotten (one that arrives
\* during a run may be, see EventsAreRemembered); a rebalance follows every
\* liquidation the job knows of, and failing accounts are left alone for a
\* while.
JobsAreSound ==
  /\ LbTypeOK
  /\ JobNeverPanics
  /\ IdleEventsAreRemembered
  /\ RebalanceIsAhead
  /\ FailuresAreThrottled

=============================================================================
