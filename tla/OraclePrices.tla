--------------------------- MODULE OraclePrices ---------------------------
(***************************************************************************)
(* Where prices come from: reading an oracle account of any kind, falling  *)
(* back on a second one, and the stable price that follows the oracle.     *)
(*                                                                         *)
(* `opFeeds` are the accounts behind one bank: its oracle "primary", its   *)
(* "fallback", and the "usdc" feed that pools are quoted in, of the kinds  *)
(* given by `opKinds`.  `opModel` is the bank's StablePriceModel.  Prices  *)
(* and the other floating point values are integers, rounded down; growth  *)
(* limits are in units of 1/GrowthOne.  Seconds and slots run together.    *)
(*                                                                         *)
(* History: `opSeen` is the range of prices the model was given since it   *)
(* was last reset, and when that was; `opWritten` when each delay price    *)
(* was stored; `opGap` whether since the reset an update came later than   *)
(* MaxDt after the one before it, or the interval was edited.              *)
(***************************************************************************)
EXTENDS Integers, Sequences, FiniteSets, FiniteSetsExt

CONSTANTS
    OpKindChoices,        \* functions from the three feeds to kinds
    OpPublications,       \* [feed, price, dev, trading] that may be published
    OpStubPrice,          \* the price a stub is created with
    ConfFilter, ConfOne,  \* conf_filter is ConfFilter / ConfOne
    MaxStaleness,
    DelayIntervals,       \* 24
    DelayIntervalSeconds, \* values delay_interval_seconds may be set to
    MinDt, MaxDt,         \* 10 s and 10 min
    GrowthOne, DelayGrowthLimit, StableGrowthLimit,
    OpSteps,              \* bound: by how much the clock advances
    OpMaxTime, OpMaxEvents \* bounds: the clock; publications and edits

VARIABLES opNow, opKinds, opFeeds, opModel, opSeen, opWritten, opGap, opEvents

opVars == <<opNow, opKinds, opFeeds, opModel, opSeen, opWritten, opGap, opEvents>>

OpFeedNames == {"primary", "fallback", "usdc"}
OpNever == 1000000     \* u64::MAX as a slot
Slots == 0 .. DelayIntervals - 1
OpMin(a, b) == IF a < b THEN a ELSE b
OpMax(a, b) == IF a > b THEN a ELSE b

-----------------------------------------------------------------------------
(* Reading an oracle.  A reading is a set of none or one OracleState.      *)

\* The aggregate price, or the previous one while it is not trading.
PythReading(feed) == IF feed.trading THEN feed.agg ELSE feed.prev

NonNegative(state) == {s \in {state} : s.price >= 0}

StubReading(feed) ==
    [price |-> feed.agg.price,
     dev |-> IF feed.agg.dev = 0 THEN -OpNever ELSE feed.agg.dev,
     slot |-> IF feed.agg.slot = 0 THEN OpNever ELSE feed.agg.slot]

\* A pool's price is quoted in the usdc feed, whose slot and deviation it takes.
PoolReading(feed, hasUsdc) ==
    IF hasUsdc
    THEN {[s EXCEPT !.price = @ * feed.agg.price] : s \in NonNegative(PythReading(opFeeds["usdc"]))}
    ELSE {}

OracleStateUnchecked(f, hasUsdc) ==
    LET feed == opFeeds[f] IN
    CASE opKinds[f] = "stub" -> {StubReading(feed)}
      [] opKinds[f] = "pyth" -> NonNegative(PythReading(feed))
      [] opKinds[f] = "switchboard" -> NonNegative([feed.agg EXCEPT !.slot = OpMax(@ - 1, 0)])
      [] opKinds[f] = "pool" -> PoolReading(feed, hasUsdc)

CheckStaleness(state) == state.slot + MaxStaleness >= opNow
CheckConfidence(state) == state.dev * ConfOne <= ConfFilter * state.price

CheckFallbackConfidenceOnly(state, staleness) == CheckConfidence(state)
CheckFallback(state, staleness) == (staleness => CheckStaleness(state)) /\ CheckConfidence(state)
CheckPrimary(state, staleness) == (staleness => CheckStaleness(state)) /\ CheckConfidence(state)

\* Bank::oracle_price: none or one price, with the feed it was taken from.
OraclePrice(hasFallback, hasUsdc, staleness) ==
    LET primary == OracleStateUnchecked("primary", hasUsdc)
        fallback == OracleStateUnchecked("fallback", hasUsdc)
        good == {s \in primary : CheckPrimary(s, staleness)} IN
    IF good # {} \/ primary = {} \/ ~hasFallback
    THEN {[from |-> "primary", price |-> s.price] : s \in good}
    ELSE {[from |-> "fallback", price |-> s.price] : s \in {t \in fallback : CheckFallback(t, staleness)}}

PrimaryPrice(staleness) == OraclePrice(FALSE, FALSE, staleness)

-----------------------------------------------------------------------------
(* The stable price.                                                       *)

ResetToPrice(m, price) ==
    [m EXCEPT !.stable = price, !.delays = [i \in Slots |-> price], !.acc = 0, !.accTime = 0,
              !.last = opNow, !.resetOnNonzero = ~(price > 0)]

DelayIntervalIndex(m) == (opNow \div m.interval) % DelayIntervals

Clamped(x, lo, hi) == IF x < lo THEN lo ELSE IF x > hi THEN hi ELSE x

GrowthClamped(target, prev, limit) ==
    Clamped(target, (prev * (GrowthOne - limit)) \div GrowthOne, (prev * (GrowthOne + limit)) \div GrowthOne)

\* Moving on from the last interval: the average over it, at most the growth
\* limit from the delay price before, is stored for it and for the skipped
\* ones.
NewDelayPrice(m) ==
    GrowthClamped(m.acc \div m.accTime, m.delays[(m.index + DelayIntervals - 1) % DelayIntervals],
                  DelayGrowthLimit)

Overwritten(m, index, all) ==
    IF all THEN Slots
    ELSE IF index > m.index THEN m.index .. index - 1
    ELSE (m.index .. DelayIntervals - 1) \cup (0 .. index - 1)

StoredDelay(m, index, all) ==
    IF index = m.index THEN m
    ELSE [m EXCEPT !.delays = [i \in Slots |-> IF i \in Overwritten(m, index, all)
                                               THEN NewDelayPrice(m) ELSE @[i]],
                   !.acc = 0, !.accTime = 0, !.index = index]

\* The time counts in full, the price for at most MaxDt.
Accumulated(m, dt, price) ==
    [m EXCEPT !.last = opNow, !.accTime = @ + dt, !.acc = @ + price * OpMin(dt, MaxDt)]

StableGrowth(m, delay, dt) ==
    LET near == OpMin(m.stable, delay)
        far == OpMax(m.stable, delay) IN
    (StableGrowthLimit * OpMin(dt, MaxDt) * near * near) \div (far * far)

Restabled(m, dt, price) ==
    [m EXCEPT !.stable = GrowthClamped(price, @, StableGrowth(m, m.delays[m.index], dt))]

\* With both prices at zero the growth limit is not a number, and clamping
\* with it panics.
Panics(m) == m.stable = 0 /\ m.delays[m.index] = 0

FullDelayPassed(m, dt) == dt > DelayIntervals * m.interval

NewlySeen(price) == [low |-> price, high |-> price, since |-> opNow]

Seen(price) ==
    [opSeen EXCEPT !.low = OpMin(@, price), !.high = OpMax(@, price)]

\* token_update_index_and_rate, which reads only the bank's own oracle.
UpdateStablePrice ==
    \E p \in PrimaryPrice(TRUE) :
      LET reset == opModel.resetOnNonzero /\ p.price > 0
          m == IF reset THEN ResetToPrice(opModel, p.price) ELSE opModel
          dt == opNow - m.last
          all == FullDelayPassed(m, dt)
          index == DelayIntervalIndex(m) IN
      /\ IF dt < MinDt
         THEN /\ opModel' = m
              /\ opGap' = (opGap /\ ~reset)
              /\ UNCHANGED opWritten
         ELSE \E acc \in {Accumulated(m, dt, p.price)} :
              \E stored \in {StoredDelay(acc, index, all)} :
                /\ ~Panics(stored)
                /\ opModel' = Restabled(stored, dt, p.price)
                /\ opWritten' = [i \in Slots |-> IF index # m.index /\ i \in Overwritten(m, index, all)
                                                 THEN opNow ELSE opWritten[i]]
                /\ opGap' = (opGap \/ dt > MaxDt)
      /\ opSeen' = IF reset THEN NewlySeen(p.price)
                   ELSE IF dt < MinDt THEN opSeen ELSE Seen(p.price)
      /\ UNCHANGED <<opNow, opKinds, opFeeds, opEvents>>

OpEvent == opEvents < OpMaxEvents /\ opEvents' = opEvents + 1

\* token_edit with reset_stable_price.
ResetStablePrice ==
    \E p \in PrimaryPrice(FALSE) :
      /\ opModel' = ResetToPrice(opModel, p.price)
      /\ opSeen' = NewlySeen(p.price)
      /\ opGap' = FALSE
      /\ OpEvent
      /\ UNCHANGED <<opNow, opKinds, opFeeds, opWritten>>

\* token_edit with stable_price_delay_interval_seconds.
EditDelayInterval(seconds) ==
    /\ seconds # opModel.interval
    /\ opModel' = [opModel EXCEPT !.interval = seconds]
    /\ opGap' = TRUE
    /\ OpEvent
    /\ UNCHANGED <<opNow, opKinds, opFeeds, opSeen, opWritten>>

-----------------------------------------------------------------------------
(* The world.                                                              *)

\* A feed is published; a pyth feed may also stop trading, and then keeps
\* the last price it traded at as the previous one.
Publish(p) ==
    /\ opKinds[p.feed] # "pyth" => p.trading
    /\ opKinds[p.feed] = "pool" => p.dev = 0 /\ p.price > 0
    /\ opKinds[p.feed] # "stub"
    /\ opFeeds' = [opFeeds EXCEPT ![p.feed] =
         [trading |-> p.trading, agg |-> [price |-> p.price, dev |-> p.dev, slot |-> opNow],
          prev |-> IF @.trading THEN @.agg ELSE @.prev]]
    /\ opFeeds' # opFeeds
    /\ OpEvent
    /\ UNCHANGED <<opNow, opKinds, opModel, opSeen, opWritten, opGap>>

\* stub_oracle_set: the price and the slot, the deviation stays.
StubOracleSet(f, price) ==
    /\ opKinds[f] = "stub"
    /\ opFeeds' = [opFeeds EXCEPT ![f].agg.price = price, ![f].agg.slot = opNow]
    /\ opFeeds' # opFeeds
    /\ OpEvent
    /\ UNCHANGED <<opNow, opKinds, opModel, opSeen, opWritten, opGap>>

ClockAdvances(d) ==
    /\ opNow + d <= OpMaxTime
    /\ opNow' = opNow + d
    /\ UNCHANGED <<opKinds, opFeeds, opModel, opSeen, opWritten, opGap, opEvents>>

\* token_register: the stable price starts at the oracle's; at zero it waits
\* for the first other price.
OpInitAs(kinds) ==
    LET first(f) == [price |-> IF kinds[f] = "stub" THEN OpStubPrice ELSE 0, dev |-> 0, slot |-> 0] IN
    /\ opNow = 0 /\ opKinds = kinds
    /\ opFeeds = [f \in OpFeedNames |-> [trading |-> TRUE, agg |-> first(f), prev |-> first(f)]]
    /\ opModel = [stable |-> first("primary").price, delays |-> [i \in Slots |-> first("primary").price],
                  acc |-> 0, accTime |-> 0, last |-> 0, index |-> 0,
                  resetOnNonzero |-> first("primary").price = 0, interval |-> Max(DelayIntervalSeconds)]
    /\ opSeen = [low |-> first("primary").price, high |-> first("primary").price, since |-> 0]
    /\ opWritten = [i \in Slots |-> 0] /\ opGap = FALSE /\ opEvents = 0

OpInit == \E kinds \in OpKindChoices : OpInitAs(kinds)

OpNext ==
    \/ UpdateStablePrice \/ ResetStablePrice
    \/ \E seconds \in DelayIntervalSeconds : EditDelayInterval(seconds)
    \/ \E p \in OpPublications : Publish(p) \/ StubOracleSet(p.feed, p.price)
    \/ \E d \in OpSteps : ClockAdvances(d)

OpSpec == OpInit /\ [][OpNext]_opVars

-----------------------------------------------------------------------------
(* Properties.                                                             *)

\* The types of the state: prices never fall below zero and the delay index
\* stays within the array.
OpTypeOK ==
    /\ opModel.stable >= 0 /\ opModel.acc >= 0 /\ opModel.accTime >= 0
    /\ opModel.index \in Slots /\ \A i \in Slots : opModel.delays[i] >= 0
    /\ opModel.last <= opNow
    /\ (opModel.accTime = 0) => opModel.acc = 0

\* A price taken with the staleness check rests on a feed that was published
\* within the last MaxStaleness slots (a pool's on its quote feed), whichever
\* oracle it came from; only a stub that never recorded a slot is exempt.
UsedPricesAreRecent ==
    \A hasFallback, hasUsdc \in BOOLEAN :
      \A p \in OraclePrice(hasFallback, hasUsdc, TRUE) :
        LET f == IF opKinds[p.from] = "pool" THEN "usdc" ELSE p.from
            slots == {opFeeds[f].agg.slot, opFeeds[f].prev.slot} IN
        \/ opKinds[f] = "stub" /\ opFeeds[f].agg.slot = 0
        \/ \E s \in slots : s + MaxStaleness >= opNow

\* The stable price never leaves the range of the prices it was given since
\* its last reset, however the updates are spaced.
StablePriceStaysInRange ==
    opModel.stable >= opSeen.low /\ opModel.stable <= opSeen.high

\* So do the delay prices, as long as updates come at least every MaxDt.
DelayPricesStayInRange ==
    ~opGap /\ ~opModel.resetOnNonzero =>
      \A i \in Slots : opModel.delays[i] >= opSeen.low /\ opModel.delays[i] <= opSeen.high

\* The delay price in use is almost all intervals old, as long as updates come
\* at least every MaxDt: what happens now moves it only a day later.
DelayPricesAreDelayed ==
    ~opGap /\ opModel.last >= opSeen.since + (DelayIntervals + 1) * opModel.interval =>
      opModel.last - opWritten[opModel.index] >= (DelayIntervals - 1) * opModel.interval - MaxDt

\* The stable price moves by at most its growth limit, and by less the further
\* it is from the delay price: a pump of the oracle alone moves it slowly.
StableMovesWithDelay ==
    ~opModel'.resetOnNonzero /\ ~opModel.resetOnNonzero /\ opModel'.last # opModel.last
      /\ opModel'.acc + opModel'.accTime # 0 =>
      LET dt == OpMin(opModel'.last - opModel.last, MaxDt)
          delay == opModel'.delays[opModel'.index]
          moved == OpMax(opModel'.stable - opModel.stable, opModel.stable - opModel'.stable) IN
      (moved - 1) * GrowthOne * OpMax(delay, opModel.stable)
        <= StableGrowthLimit * dt * OpMin(delay, opModel.stable) * opModel.stable

\* Whatever the spacing of the updates, a delay price is an average of prices
\* that were seen.  This is not so in the code: time counts in full but the
\* price for at most ten minutes, so a late update drags the average down.
DelayPricesAreAverages ==
    ~opModel.resetOnNonzero =>
      \A i \in Slots : opModel.delays[i] >= opSeen.low /\ opModel.delays[i] <= opSeen.high

\* The prices in use are recent, and the stable and delay
\* prices lie between prices that were seen and follow them only slowly.
PricesAreSound ==
  /\ [](OpTypeOK /\ UsedPricesAreRecent /\ StablePriceStaysInRange
        /\ DelayPricesStayInRange /\ DelayPricesAreDelayed)
  /\ [][StableMovesWithDelay]_opVars

=============================================================================
