------------------------ MODULE LiquidatorBotProofs ------------------------
(***************************************************************************)
(* Proofs about the liquidator's jobs (LiquidatorBot).                     *)
(*                                                                         *)
(* A run goes on only while the note of unprocessed events is set: nobody  *)
(* else removes it once the first snapshot is in.  What was not looked at  *)
(* since it last changed is still on the run's list, unless it changed     *)
(* during the run.  All failures but the `count` newest are old, and none  *)
(* is younger than the tracked error.                                      *)
(***************************************************************************)
EXTENDS LiquidatorBot, TLAPS

RunsHaveTheirNote ==
  lbJob.pc = "scan" \/ lbJob.start_time => lbShared.oldest /\ lbShared.one_snapshot_done

UncheckedIsOnTheList ==
  /\ lbUnchecked \subseteq lbShared.mango_accounts
  /\ lbJob.pc = "scan" => lbUnchecked \ lbDuringScan \subseteq lbJob.todo

NoteIsKept ==
  lbShared.one_snapshot_done /\ lbUnchecked \ lbDuringScan # {} => lbShared.oldest

Histories == [Newest -> 0 .. SkipDuration]

ErrorsCoverFailures ==
  \A a \in LbAccounts : \A i \in Newest :
    /\ lbFailures[a][i] >= lbErrors[a].age \/ lbFailures[a][i] >= SkipDuration
    /\ i > lbErrors[a].count => lbFailures[a][i] >= SkipDuration

\* The tracked errors and the failures they stand for.
ErrorsAreTracked ==
  /\ lbErrors \in [LbAccounts -> [count : 0 .. SkipThreshold + 1, age : 0 .. KeepDuration]]
  /\ lbFailures \in [LbAccounts -> Histories]
  /\ ErrorsCoverFailures
  /\ FailuresAreThrottled

\* A step that changes the record of one account: its new record has to cover its
\* new history.
LEMMA OneRecordChanges ==
  ASSUME ErrorsAreTracked, NEW a \in LbAccounts,
         NEW e \in [count : 0 .. SkipThreshold + 1, age : 0 .. KeepDuration],
         NEW f \in Histories,
         lbErrors' = [lbErrors EXCEPT ![a] = e], lbFailures' = [lbFailures EXCEPT ![a] = f],
         \A i \in Newest : /\ f[i] >= e.age \/ f[i] >= SkipDuration
                           /\ i > e.count => f[i] >= SkipDuration,
         f[SkipThreshold + 1] >= SkipDuration
  PROVE  ErrorsAreTracked'
<1>1. /\ lbErrors' \in [LbAccounts -> [count : 0 .. SkipThreshold + 1, age : 0 .. KeepDuration]]
      /\ lbFailures' \in [LbAccounts -> Histories]
  BY DEF ErrorsAreTracked
<1>2. \A b \in LbAccounts : IF b = a THEN lbErrors'[b] = e /\ lbFailures'[b] = f
                            ELSE lbErrors'[b] = lbErrors[b] /\ lbFailures'[b] = lbFailures[b]
  BY DEF ErrorsAreTracked
<1>3. ErrorsCoverFailures'
  BY <1>2 DEF ErrorsAreTracked, ErrorsCoverFailures
<1>4. FailuresAreThrottled'
  BY <1>2 DEF ErrorsAreTracked, FailuresAreThrottled
<1> QED BY <1>1, <1>3, <1>4 DEF ErrorsAreTracked

\* A success clears the record and the history.
LEMMA ClearedIsTracked ==
  ASSUME ErrorsAreTracked, NEW a \in LbAccounts, Cleared(a)
  PROVE  ErrorsAreTracked'
<1>1. NoError \in [count : 0 .. SkipThreshold + 1, age : 0 .. KeepDuration]
  BY LiquidatorBotAssumption DEF NoError
<1>2. /\ NoFailures \in Histories /\ \A i \in Newest : NoFailures[i] >= SkipDuration
      /\ NoFailures[SkipThreshold + 1] >= SkipDuration
  BY LiquidatorBotAssumption DEF NoFailures, Newest, Histories
<1> QED BY <1>1, <1>2, OneRecordChanges DEF Cleared

\* A failure of an account that is not skipped: fewer than the threshold are
\* tracked, or the last one is old and with it all before it.
LEMMA FailureIsTracked ==
  ASSUME ErrorsAreTracked, NEW a \in LbAccounts, ~ShouldSkip(lbErrors[a]),
         lbErrors' = [lbErrors EXCEPT ![a] = RecordError(@)],
         lbFailures' = [lbFailures EXCEPT ![a] = OneMore(@)]
  PROVE  ErrorsAreTracked'
<1> DEFINE e == RecordError(lbErrors[a])
           f == OneMore(lbFailures[a])
           old == lbFailures[a]
<1>1. /\ lbErrors[a] \in [count : 0 .. SkipThreshold + 1, age : 0 .. KeepDuration]
      /\ old \in Histories
  BY DEF ErrorsAreTracked
<1>2. /\ e \in [count : 0 .. SkipThreshold + 1, age : 0 .. KeepDuration]
      /\ e.age = 0
      /\ e.count = IF lbErrors[a].count > SkipThreshold THEN lbErrors[a].count
                   ELSE lbErrors[a].count + 1
  BY <1>1, LiquidatorBotAssumption DEF RecordError
<1>3. \A i \in Newest : old[i] \in 0 .. SkipDuration
  BY <1>1 DEF Histories
<1>4. \A i \in Newest \ {1} : i - 1 \in Newest /\ f[i] = old[i - 1]
  BY LiquidatorBotAssumption DEF OneMore, Newest
<1>5. f \in Histories
  BY <1>3, <1>4, LiquidatorBotAssumption DEF OneMore, Histories
<1>6. ASSUME NEW i \in Newest
      PROVE  f[i] >= e.age /\ (i > e.count => f[i] >= SkipDuration)
  <2>1. f[i] >= e.age
    BY <1>2, <1>5, LiquidatorBotAssumption DEF Histories
  <2>2. ASSUME i > e.count PROVE f[i] >= SkipDuration
    <3>1. i # 1 /\ i - 1 > lbErrors[a].count
      BY <1>1, <1>2, <2>2, LiquidatorBotAssumption DEF Newest
    <3> QED BY <1>4, <3>1 DEF ErrorsAreTracked, ErrorsCoverFailures
  <2> QED BY <2>1, <2>2
<1>7. f[SkipThreshold + 1] >= SkipDuration
  <2>1. SkipThreshold \in Newest /\ f[SkipThreshold + 1] = old[SkipThreshold]
    BY <1>4, LiquidatorBotAssumption DEF Newest
  <2>2. \/ old[SkipThreshold] >= SkipDuration
        \/ old[SkipThreshold] >= lbErrors[a].age /\ ~(SkipThreshold > lbErrors[a].count)
    BY <2>1 DEF ErrorsAreTracked, ErrorsCoverFailures
  <2>3. lbErrors[a].count >= SkipThreshold => lbErrors[a].age >= SkipDuration
    BY <1>1, LiquidatorBotAssumption DEF ShouldSkip
  <2> QED BY <1>1, <1>3, <2>1, <2>2, <2>3, LiquidatorBotAssumption
<1> HIDE DEF e, f
<1>8. lbErrors' = [lbErrors EXCEPT ![a] = e] /\ lbFailures' = [lbFailures EXCEPT ![a] = f]
  BY DEF e, f
<1> QED BY <1>2, <1>5, <1>6, <1>7, <1>8, OneRecordChanges

\* Time passes for the tracked errors and for the failures alike.
LEMMA TimePassesIsTracked ==
  ASSUME ErrorsAreTracked, TimePasses
  PROVE  ErrorsAreTracked'
<1> DEFINE ErrorSet == [count : 0 .. SkipThreshold + 1, age : 0 .. KeepDuration]
<1>1. ASSUME NEW a \in LbAccounts
      PROVE  /\ lbErrors[a] \in ErrorSet
             /\ lbErrors'[a] \in ErrorSet /\ lbErrors'[a].count = lbErrors[a].count
             /\ \/ lbErrors'[a].age = lbErrors[a].age
                \/ lbErrors'[a].age = lbErrors[a].age + 1
  <2>1. lbErrors[a] \in ErrorSet
    BY DEF ErrorsAreTracked
  <2>2. lbErrors'[a] = IF lbErrors[a] = NoError THEN NoError
                       ELSE [lbErrors[a] EXCEPT !.age = Older(@, KeepDuration)]
    BY DEF TimePasses
  <2> QED BY <2>1, <2>2, LiquidatorBotAssumption DEF Older, NoError
<1>2. ASSUME NEW a \in LbAccounts, NEW i \in Newest
      PROVE  /\ lbFailures[a][i] \in 0 .. SkipDuration /\ lbFailures'[a][i] \in 0 .. SkipDuration
             /\ lbFailures'[a][i] = IF lbFailures[a][i] < SkipDuration THEN lbFailures[a][i] + 1
                                    ELSE lbFailures[a][i]
  <2>1. lbFailures[a][i] \in 0 .. SkipDuration
    BY DEF ErrorsAreTracked, Histories
  <2>2. lbFailures'[a][i] = Older(lbFailures[a][i], SkipDuration)
    BY DEF TimePasses
  <2> QED BY <2>1, <2>2, LiquidatorBotAssumption DEF Older
<1>3. lbErrors' \in [LbAccounts -> ErrorSet] /\ lbFailures' \in [LbAccounts -> Histories]
  <2>1. /\ lbErrors' = [a \in LbAccounts |-> lbErrors'[a]]
        /\ lbFailures' = [a \in LbAccounts |-> [i \in Newest |-> lbFailures'[a][i]]]
    BY DEF TimePasses
  <2> QED BY <1>1, <1>2, <2>1 DEF Histories
<1>4. ErrorsCoverFailures'
  <2> SUFFICES ASSUME NEW a \in LbAccounts, NEW i \in Newest
               PROVE  /\ lbFailures'[a][i] >= lbErrors'[a].age \/ lbFailures'[a][i] >= SkipDuration
                      /\ i > lbErrors'[a].count => lbFailures'[a][i] >= SkipDuration
    BY DEF ErrorsCoverFailures
  <2>1. /\ lbFailures[a][i] >= lbErrors[a].age \/ lbFailures[a][i] >= SkipDuration
        /\ i > lbErrors[a].count => lbFailures[a][i] >= SkipDuration
    BY DEF ErrorsAreTracked, ErrorsCoverFailures
  <2>2. lbErrors[a].age \in Nat
    BY <1>1, LiquidatorBotAssumption
  <2> QED BY <1>1, <1>2, <2>1, <2>2, LiquidatorBotAssumption
<1>5. FailuresAreThrottled'
  <2>1. SkipThreshold + 1 \in Newest
    BY LiquidatorBotAssumption DEF Newest
  <2> QED BY <1>2, <2>1, LiquidatorBotAssumption DEF ErrorsAreTracked, FailuresAreThrottled
<1> QED BY <1>3, <1>4, <1>5 DEF ErrorsAreTracked

\* Records are wiped when they are older than any failure that still counts.
LEMMA WipingIsTracked ==
  ASSUME ErrorsAreTracked, lbErrors' = WipeOld(lbErrors), lbFailures' = lbFailures
  PROVE  ErrorsAreTracked'
<1> DEFINE ErrorSet == [count : 0 .. SkipThreshold + 1, age : 0 .. KeepDuration]
<1>1. ASSUME NEW a \in LbAccounts
      PROVE  /\ lbErrors[a] \in ErrorSet /\ lbErrors'[a] \in ErrorSet
             /\ \/ lbErrors'[a] = lbErrors[a]
                \/ lbErrors'[a].age = 0 /\ lbErrors[a].age >= SkipDuration
  <2>1. lbErrors[a] \in ErrorSet /\ lbErrors' = WipeOld(lbErrors)
    BY DEF ErrorsAreTracked
  <2> QED BY <2>1, LiquidatorBotAssumption DEF WipeOld, NoError
<1>2. lbErrors' \in [LbAccounts -> ErrorSet]
  <2>1. lbErrors' = [a \in LbAccounts |-> lbErrors'[a]]
    BY DEF WipeOld
  <2> QED BY <1>1, <2>1
<1>3. ErrorsCoverFailures'
  <2> SUFFICES ASSUME NEW a \in LbAccounts, NEW i \in Newest
               PROVE  /\ lbFailures[a][i] >= lbErrors'[a].age \/ lbFailures[a][i] >= SkipDuration
                      /\ i > lbErrors'[a].count => lbFailures[a][i] >= SkipDuration
    BY DEF ErrorsCoverFailures
  <2>1. /\ lbFailures[a][i] >= lbErrors[a].age \/ lbFailures[a][i] >= SkipDuration
        /\ i > lbErrors[a].count => lbFailures[a][i] >= SkipDuration
    BY DEF ErrorsAreTracked, ErrorsCoverFailures
  <2>2. lbFailures[a][i] \in 0 .. SkipDuration
    BY DEF ErrorsAreTracked, Histories
  <2> QED BY <1>1, <2>1, <2>2, LiquidatorBotAssumption
<1> QED BY <1>2, <1>3 DEF ErrorsAreTracked, FailuresAreThrottled

\* Every step of the liquidator keeps its books on errors.
LEMMA ErrorsStep ==
  ASSUME ErrorsAreTracked, [LbNext]_lbVars
  PROVE  ErrorsAreTracked'
<1>1. CASE UNCHANGED <<lbErrors, lbFailures>>
  BY <1>1 DEF ErrorsAreTracked, ErrorsCoverFailures, FailuresAreThrottled
<1>2. CASE \E a \in LbAccounts : AccountMessage(a)
  BY <1>1, <1>2 DEF AccountMessage
<1>3. CASE \E a \in LbAccounts : NextAccount(a)
  <2>1. PICK a \in LbAccounts : NextAccount(a)
    BY <1>3
  <2> QED BY <1>1, <2>1, ClearedIsTracked, FailureIsTracked DEF NextAccount
<1>4. CASE \E a \in LbAccounts : Liquidates(a)
  BY <1>4, ClearedIsTracked DEF Liquidates
<1>5. CASE OtherMessage \/ SnapshotMessage \/ TickBeforeSnapshot \/ RunEnds \/ TcsTurn
  BY <1>1, <1>5 DEF OtherMessage, SnapshotMessage, TickBeforeSnapshot, RunEnds, TcsTurn
<1>6. CASE TickStartsRun
  BY <1>1, <1>6, WipingIsTracked DEF TickStartsRun
<1>7. CASE TimePasses
  BY <1>7, TimePassesIsTracked
<1>8. CASE RebalanceEnds \/ \E byTrigger \in BOOLEAN : RebalanceStarts(byTrigger)
  BY <1>1, <1>8 DEF RebalanceEnds, RebalanceStarts
<1>9. CASE UNCHANGED lbVars
  BY <1>1, <1>9 DEF lbVars
<1> QED BY <1>2, <1>3, <1>4, <1>5, <1>6, <1>7, <1>8, <1>9 DEF LbNext

\* The types that the error books do not have.
ControlTypes ==
  /\ lbShared \in [mango_accounts : SUBSET LbAccounts, one_snapshot_done : BOOLEAN, oldest : BOOLEAN]
  /\ lbChain \in [LbAccounts -> BOOLEAN]
  /\ lbJob \in [pc : {"idle", "scan", "tcs", "panic"}, todo : SUBSET LbAccounts, start_time : BOOLEAN]
  /\ lbSinceLog \in 0 .. LogInterval
  /\ lbRebalance \in [pc : {"wait", "run", "sleep"}, trigger : BOOLEAN, needed : BOOLEAN]

\* Every step keeps the types of the shared state and of the jobs.
LEMMA ControlTypesStep ==
  ASSUME ControlTypes, [LbNext]_lbVars
  PROVE  ControlTypes'
<1> USE DEF ControlTypes
<1>1. CASE \E a \in LbAccounts : AccountMessage(a)
  <2>1. PICK a \in LbAccounts : AccountMessage(a)
    BY <1>1
  <2>2. lbShared' \in [mango_accounts : SUBSET LbAccounts, one_snapshot_done : BOOLEAN,
                       oldest : BOOLEAN]
    BY <2>1 DEF AccountMessage, NotedEvent
  <2> QED BY <2>1, <2>2 DEF AccountMessage
<1>2. CASE \E a \in LbAccounts : NextAccount(a)
  BY <1>2 DEF NextAccount
<1>3. CASE \E a \in LbAccounts : Liquidates(a)
  BY <1>3 DEF Liquidates, AfterLiquidation, Triggered
<1>4. CASE OtherMessage
  BY <1>4 DEF OtherMessage, NotedEvent
<1>5. CASE SnapshotMessage
  BY <1>5 DEF SnapshotMessage, NotedEvent
<1>6. CASE TickBeforeSnapshot
  BY <1>6 DEF TickBeforeSnapshot
<1>7. CASE TickStartsRun
  BY <1>7, LiquidatorBotAssumption DEF TickStartsRun
<1>8. CASE RunEnds
  <2>1. CASE lbShared.oldest
    <3>1. PICK pc \in {"tcs", "idle"} : lbJob' = [pc |-> pc, todo |-> {}, start_time |-> FALSE]
      BY <1>8, <2>1 DEF RunEnds
    <3>2. lbShared' = [lbShared EXCEPT !.oldest = FALSE]
      BY <1>8, <2>1 DEF RunEnds
    <3> QED BY <1>8, <3>1, <3>2 DEF RunEnds
  <2>2. CASE ~lbShared.oldest
    BY <1>8, <2>2 DEF RunEnds
  <2> QED BY <2>1, <2>2
<1>9. CASE TcsTurn
  BY <1>9 DEF TcsTurn, Triggered
<1>10. CASE TimePasses
  BY <1>10, LiquidatorBotAssumption DEF TimePasses, Older
<1>11. CASE RebalanceEnds
  BY <1>11 DEF RebalanceEnds
<1>12. CASE \E byTrigger \in BOOLEAN : RebalanceStarts(byTrigger)
  BY <1>12 DEF RebalanceStarts
<1>13. CASE UNCHANGED lbVars
  BY <1>13 DEF lbVars
<1> QED BY <1>1, <1>2, <1>3, <1>4, <1>5, <1>6, <1>7, <1>8, <1>9, <1>10, <1>11, <1>12, <1>13 DEF LbNext

\* What the jobs know of each other.
JobsAgree ==
  /\ lbJob.todo \subseteq lbShared.mango_accounts
  /\ JobNeverPanics
  /\ RunsHaveTheirNote
  /\ UncheckedIsOnTheList
  /\ NoteIsKept

\* Every step keeps the jobs in agreement.
LEMMA JobsStep ==
  ASSUME ControlTypes, JobsAgree, [LbNext]_lbVars
  PROVE  JobsAgree'
<1> USE DEF ControlTypes, JobsAgree, JobNeverPanics, RunsHaveTheirNote, UncheckedIsOnTheList, NoteIsKept
<1>1. CASE \E a \in LbAccounts : AccountMessage(a)
  BY <1>1 DEF AccountMessage, NotedEvent, Changed, Idle
<1>2. CASE \E a \in LbAccounts : NextAccount(a)
  BY <1>2 DEF NextAccount, LookedAt
<1>3. CASE \E a \in LbAccounts : Liquidates(a)
  BY <1>3 DEF Liquidates, AfterLiquidation, LookedAt
<1>4. CASE OtherMessage
  BY <1>4 DEF OtherMessage, NotedEvent, Changed, Idle
<1>5. CASE SnapshotMessage
  BY <1>5 DEF SnapshotMessage, NotedEvent, Changed, Idle
<1>6. CASE TickBeforeSnapshot
  BY <1>6 DEF TickBeforeSnapshot, Idle
<1>7. CASE TickStartsRun
  BY <1>7 DEF TickStartsRun, Idle
<1>8. CASE RunEnds
  BY <1>8 DEF RunEnds
<1>9. CASE TcsTurn
  BY <1>9 DEF TcsTurn
<1>10. CASE UNCHANGED <<lbShared, lbJob, lbUnchecked, lbDuringScan>>
  BY <1>10
<1>11. TimePasses \/ RebalanceEnds \/ (\E byTrigger \in BOOLEAN : RebalanceStarts(byTrigger))
         \/ UNCHANGED lbVars => UNCHANGED <<lbShared, lbJob, lbUnchecked, lbDuringScan>>
  BY DEF TimePasses, RebalanceEnds, RebalanceStarts, lbVars
<1> QED BY <1>1, <1>2, <1>3, <1>4, <1>5, <1>6, <1>7, <1>8, <1>9, <1>10, <1>11 DEF LbNext

\* Nothing is liquidated, and nothing to rebalance, before the first snapshot.
NeedsFollowSnapshots ==
  lbJob.pc # "idle" \/ lbRebalance.needed => lbShared.one_snapshot_done

\* Every step keeps the trigger of a rebalancing that is needed.
LEMMA RebalanceStep ==
  ASSUME ControlTypes, RebalanceIsAhead, NeedsFollowSnapshots, [LbNext]_lbVars
  PROVE  RebalanceIsAhead' /\ NeedsFollowSnapshots'
<1> USE DEF ControlTypes, RebalanceIsAhead, NeedsFollowSnapshots
<1>1. CASE \E a \in LbAccounts : AccountMessage(a)
  BY <1>1 DEF AccountMessage, NotedEvent
<1>2. CASE \E a \in LbAccounts : NextAccount(a)
  BY <1>2 DEF NextAccount
<1>3. CASE \E a \in LbAccounts : Liquidates(a)
  BY <1>3 DEF Liquidates, AfterLiquidation, Triggered
<1>4. CASE OtherMessage \/ SnapshotMessage
  BY <1>4 DEF OtherMessage, SnapshotMessage, NotedEvent
<1>5. CASE TickBeforeSnapshot \/ TickStartsRun
  BY <1>5 DEF TickBeforeSnapshot, TickStartsRun, Idle
<1>6. CASE RunEnds
  BY <1>6 DEF RunEnds
<1>7. CASE TcsTurn
  BY <1>7 DEF TcsTurn, Triggered
<1>8. CASE TimePasses \/ UNCHANGED lbVars
  BY <1>8 DEF TimePasses, lbVars
<1>9. CASE RebalanceEnds
  BY <1>9 DEF RebalanceEnds
<1>10. CASE \E byTrigger \in BOOLEAN : RebalanceStarts(byTrigger)
  <2>1. PICK byTrigger \in BOOLEAN : RebalanceStarts(byTrigger)
    BY <1>10
  <2>2. CASE lbShared.one_snapshot_done
    BY <2>1, <2>2 DEF RebalanceStarts
  <2>3. CASE ~lbShared.one_snapshot_done
    BY <2>1, <2>3 DEF RebalanceStarts
  <2> QED BY <2>2, <2>3
<1> QED BY <1>1, <1>2, <1>3, <1>4, <1>5, <1>6, <1>7, <1>8, <1>9, <1>10 DEF LbNext

LbInvariant ==
  ControlTypes /\ JobsAgree /\ RebalanceIsAhead /\ NeedsFollowSnapshots /\ ErrorsAreTracked

\* The liquidator's jobs start in agreement.
LEMMA LbInitially == LbInit => LbInvariant
<1> SUFFICES ASSUME LbInit PROVE LbInvariant
  OBVIOUS
<1> USE DEF LbInit
<1>1. ControlTypes /\ RebalanceIsAhead /\ NeedsFollowSnapshots
  BY LiquidatorBotAssumption DEF ControlTypes, RebalanceIsAhead, NeedsFollowSnapshots
<1>2. JobsAgree
  BY DEF JobsAgree, JobNeverPanics, RunsHaveTheirNote, UncheckedIsOnTheList, NoteIsKept
<1>3. /\ lbErrors \in [LbAccounts -> [count : 0 .. SkipThreshold + 1, age : 0 .. KeepDuration]]
      /\ lbFailures \in [LbAccounts -> Histories]
  BY LiquidatorBotAssumption DEF NoError, NoFailures, Histories
<1>4. \A a \in LbAccounts : \A i \in Newest : lbFailures[a][i] >= SkipDuration
  BY LiquidatorBotAssumption DEF NoFailures
<1>5. SkipThreshold + 1 \in Newest
  BY LiquidatorBotAssumption DEF Newest
<1>6. ErrorsCoverFailures /\ FailuresAreThrottled
  BY <1>4, <1>5 DEF ErrorsCoverFailures, FailuresAreThrottled
<1> QED BY <1>1, <1>2, <1>3, <1>6 DEF LbInvariant, ErrorsAreTracked

\* The liquidator never panics on its note of unprocessed events, remembers every
\* account that changed while it was idle until it has looked at it, rebalances
\* after every liquidation that its job saw confirmed, and spends at most SkipThreshold attempts on a failing
\* account in any SkipDuration: for any accounts, thresholds and durations.
THEOREM JobsAreSoundTheorem == LbSpec => []JobsAreSound
<1>1. LbInvariant /\ [LbNext]_lbVars => LbInvariant'
  BY ControlTypesStep, JobsStep, RebalanceStep, ErrorsStep DEF LbInvariant
<1>2. LbInvariant => JobsAreSound
  <2> SUFFICES ASSUME LbInvariant PROVE JobsAreSound
    OBVIOUS
  <2>1. LbTypeOK
    BY DEF LbInvariant, ControlTypes, ErrorsAreTracked, JobsAgree, LbTypeOK, Histories
  <2> QED BY <2>1 DEF LbInvariant, JobsAreSound, JobsAgree, NoteIsKept, IdleEventsAreRemembered,
                      ErrorsAreTracked
<1> QED BY LbInitially, <1>1, <1>2, PTL DEF LbSpec

=============================================================================
