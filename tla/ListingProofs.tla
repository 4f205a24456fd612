---------------------------- MODULE ListingProofs ----------------------------
(***************************************************************************)
(* Proofs about Listing, for any tokens, markets, rations and durations:   *)
(* settings of banks go together, fast listings are rationed and harmless, *)
(* the security admin only restricts, and weights move gradually.          *)
(***************************************************************************)
EXTENDS Listing, FiniteSetTheorems, SequenceTheorems, TLAPS

-----------------------------------------------------------------------------
\* Facts about rounding down that the provers need in this form.

LEMMA DivBounds ==
  \A x \in Int, d \in Nat \ {0} :
    x \div d \in Int /\ (x \div d) * d <= x /\ x < (x \div d) * d + d
OBVIOUS

LEMMA DivUnique ==
  \A x, q \in Int, d \in Nat \ {0} : q * d <= x /\ x < q * d + d => x \div d = q
OBVIOUS

LEMMA DivMonotone == \A x, y \in Int, d \in Nat \ {0} : x <= y => x \div d <= y \div d
OBVIOUS

LEMMA DivOfMultiple == \A q \in Int, d \in Nat \ {0} : (q * d) \div d = q
OBVIOUS

LEMMA TimesMonotone == \A x, y \in Int, d \in Nat : x <= y => x * d <= y * d
OBVIOUS

LEMMA TimesDistributes == \A p, q \in Int, d \in Int : (p + q) * d = p * d + q * d
OBVIOUS

\* A part k of n of a change by d, rounded down, lies between no change and d: the
\* weight of a bank during a shift (Bank::maint_weights) is between start and target.
LEMMA PartIsBetween ==
  ASSUME NEW d \in Int, NEW n \in Nat \ {0}, NEW k \in 0 .. n
  PROVE  LET part == (k * d) \div n
         IN part \in Int /\ (d >= 0 => part \in 0 .. d) /\ (d <= 0 => part \in d .. 0)
<1>1. k * d \in Int /\ n * d \in Int /\ (k * d) \div n \in Int
  BY DivBounds
<1>2. (0 * n) \div n = 0 /\ (d * n) \div n = d /\ 0 * n = 0 /\ d * n = n * d
  BY DivOfMultiple
<1>3. CASE d >= 0
  <2>1. 0 <= k * d /\ k * d <= n * d
    BY <1>3, TimesMonotone
  <2>2. 0 <= (k * d) \div n /\ (k * d) \div n <= d
    BY <1>1, <1>2, <2>1, DivMonotone
  <2> QED BY <1>1, <1>3, <2>2
<1>4. CASE d <= 0
  <2>1. n * d <= k * d /\ k * d <= 0
    <3>1. k * (0 - d) <= n * (0 - d) /\ 0 <= k * (0 - d)
      BY <1>4, TimesMonotone
    <3>2. k * (0 - d) = 0 - k * d /\ n * (0 - d) = 0 - n * d
      OBVIOUS
    <3> QED BY <3>1, <3>2, <1>1
  <2>2. d <= (k * d) \div n /\ (k * d) \div n <= 0
    BY <1>1, <1>2, <2>1, DivMonotone
  <2> QED BY <1>1, <1>4, <2>2
<1> QED BY <1>3, <1>4

\* One more part of n changes the rounded value by no more than the share of the
\* largest change, rounded up.
LEMMA PartsAreEven ==
  ASSUME NEW most \in Nat, NEW d \in -most .. most, NEW n \in Nat \ {0}, NEW k \in Nat
  PROVE  LET change == ((k + 1) * d) \div n - (k * d) \div n
             share == (most + n - 1) \div n
         IN change <= share /\ -change <= share
<1> DEFINE p == ((k + 1) * d) \div n
           q == (k * d) \div n
           share == (most + n - 1) \div n
<1>1. p \in Int /\ q \in Int /\ share \in Int /\ k * d \in Int
  BY DivBounds
<1>2. (k + 1) * d = k * d + d
  BY TimesDistributes
<1>3. p * n <= k * d + d /\ k * d + d < p * n + n
  BY <1>1, <1>2, DivBounds
<1>4. q * n <= k * d /\ k * d < q * n + n
  BY <1>1, DivBounds
<1>5. most <= share * n
  <2>1. most + n - 1 < share * n + n
    BY <1>1, DivBounds
  <2>2. share * n \in Int
    BY <1>1
  <2> QED BY <2>1, <2>2
<1> HIDE DEF p, q, share
<1>6. p * n < (q + 1 + share) * n
  <2>1. (q + 1 + share) * n = q * n + n + share * n
    BY <1>1
  <2>2. p * n \in Int /\ q * n \in Int /\ share * n \in Int
    BY <1>1
  <2> QED BY <1>1, <1>3, <1>4, <1>5, <2>1, <2>2
<1>7. (q - share) * n < (p + 1) * n
  <2>1. (q - share) * n = q * n - share * n /\ (p + 1) * n = p * n + n
    BY <1>1
  <2>2. p * n \in Int /\ q * n \in Int /\ share * n \in Int
    BY <1>1
  <2> QED BY <1>1, <1>3, <1>4, <1>5, <2>1, <2>2
<1>8. p < q + 1 + share
  <2> SUFFICES ASSUME q + 1 + share <= p PROVE FALSE
    BY <1>1
  <2>1. (q + 1 + share) * n <= p * n /\ (q + 1 + share) * n \in Int /\ p * n \in Int
    BY <1>1, TimesMonotone
  <2> QED BY <1>6, <2>1
<1>9. q - share < p + 1
  <2> SUFFICES ASSUME p + 1 <= q - share PROVE FALSE
    BY <1>1
  <2>1. (p + 1) * n <= (q - share) * n /\ (p + 1) * n \in Int /\ (q - share) * n \in Int
    BY <1>1, TimesMonotone
  <2> QED BY <1>7, <2>1
<1>10. p - q <= share /\ -(p - q) <= share
  BY <1>1, <1>8, <1>9
<1> QED BY <1>10 DEF p, q, share

-----------------------------------------------------------------------------
\* Weights of a bank

\* The weight of a bank is a weight, at any time before, during and after a shift.
LEMMA WeightsAreWeights ==
  ASSUME NEW b \in BankSettings, NEW now \in Nat
  PROVE  MaintAssetWeight(b, now) \in 0 .. FullWeight
<1> DEFINE m == b.maint_asset_weight
           d == b.shift_asset_target - b.maint_asset_weight
           n == b.shift_end - b.shift_start
           k == now - b.shift_start
<1>1. /\ m \in 0 .. FullWeight /\ b.shift_asset_target \in 0 .. FullWeight
      /\ b.shift_start \in Nat /\ b.shift_end \in Nat
  BY DEF BankSettings
<1>2. FullWeight \in Nat
  BY ListingAssumption
<1>3. CASE b.shift_end <= b.shift_start \/ now <= b.shift_start \/ now >= b.shift_end
  BY <1>1, <1>3 DEF MaintAssetWeight
<1>4. CASE b.shift_end > b.shift_start /\ now > b.shift_start /\ now < b.shift_end
  <2>1. d \in Int /\ n \in Nat \ {0} /\ k \in 0 .. n
    BY <1>1, <1>2, <1>4
  <2>2. /\ (k * d) \div n \in Int
        /\ d >= 0 => (k * d) \div n \in 0 .. d
        /\ d <= 0 => (k * d) \div n \in d .. 0
    <3> HIDE DEF d, n, k
    <3> QED BY <2>1, PartIsBetween
  <2>3. MaintAssetWeight(b, now) = m + (k * d) \div n
    BY <1>1, <1>4 DEF MaintAssetWeight
  <2>4. \A part \in Int : (d >= 0 => part \in 0 .. d) /\ (d <= 0 => part \in d .. 0)
                            => m + part \in 0 .. FullWeight
    BY <1>1, <1>2
  <2> QED
    <3> HIDE DEF d, n, k, m
    <3> QED BY <2>2, <2>3, <2>4
<1> QED BY <1>1, <1>3, <1>4

\* Shifts that token_edit starts take ShiftDuration.
ShiftIsWhole(b) ==
  b.shift_end > b.shift_start => b.shift_end = b.shift_start + ShiftDuration

\* The most that a second changes a weight by: its share of the shift, rounded up.
SecondsShare == (FullWeight + ShiftDuration - 1) \div ShiftDuration

LEMMA ShareIsNatural == SecondsShare \in Nat
<1>1. FullWeight \in Nat \ {0} /\ ShiftDuration \in Nat \ {0}
  BY ListingAssumption
<1>2. FullWeight + ShiftDuration - 1 \in Nat /\ (0 * ShiftDuration) \div ShiftDuration = 0
      /\ 0 * ShiftDuration = 0
  BY <1>1, DivOfMultiple
<1> QED BY <1>1, <1>2, DivMonotone, DivBounds DEF SecondsShare

LEMMA SecondsAreGradual ==
  ASSUME NEW b \in BankSettings, ShiftIsWhole(b), NEW now \in Nat
  PROVE  LET change == MaintAssetWeight(b, now + 1) - MaintAssetWeight(b, now)
         IN change <= SecondsShare /\ -change <= SecondsShare
<1> DEFINE m == b.maint_asset_weight
           d == b.shift_asset_target - b.maint_asset_weight
           n == ShiftDuration
           Part(k) == (k * d) \div n
<1>1. /\ m \in 0 .. FullWeight /\ b.shift_asset_target \in 0 .. FullWeight
      /\ b.shift_start \in Nat /\ b.shift_end \in Nat
  BY DEF BankSettings
<1>2. FullWeight \in Nat /\ n \in Nat \ {0}
  BY ListingAssumption
<1>3. MaintAssetWeight(b, now) \in Int /\ MaintAssetWeight(b, now + 1) \in Int
  BY <1>2, WeightsAreWeights
<1>4. SecondsShare \in Nat
  BY ShareIsNatural
<1>5. CASE \/ b.shift_end <= b.shift_start
           \/ now + 1 <= b.shift_start
           \/ now >= b.shift_end
  <2>1. MaintAssetWeight(b, now + 1) = MaintAssetWeight(b, now)
    BY <1>1, <1>5 DEF MaintAssetWeight
  <2> QED BY <1>3, <1>4, <2>1
<1>6. CASE b.shift_end > b.shift_start /\ now >= b.shift_start /\ now < b.shift_end
  <2> DEFINE k == now - b.shift_start
  <2>1. b.shift_end - b.shift_start = n /\ k \in 0 .. n - 1
    BY <1>1, <1>2, <1>6 DEF ShiftIsWhole
  <2>2. d \in -FullWeight .. FullWeight
    BY <1>1, <1>2
  <2>3. Part(0) = 0 /\ Part(n) = d
    <3>1. 0 * d = 0 * n /\ n * d = d * n
      BY <1>2, <2>2
    <3> HIDE DEF d, n
    <3> QED BY <1>2, <2>2, <3>1, DivOfMultiple
  <2>4. MaintAssetWeight(b, now) = m + Part(k)
    <3>1. CASE k = 0
      BY <1>1, <1>6, <2>3, <3>1 DEF MaintAssetWeight
    <3>2. CASE k > 0
      BY <1>1, <1>6, <2>1, <3>2 DEF MaintAssetWeight
    <3> QED BY <2>1, <3>1, <3>2
  <2>5. MaintAssetWeight(b, now + 1) = m + Part(k + 1)
    <3>1. CASE k + 1 = n
      <4>1. MaintAssetWeight(b, now + 1) = b.shift_asset_target
        BY <1>1, <1>2, <1>6, <2>1, <3>1 DEF MaintAssetWeight
      <4>2. m + d = b.shift_asset_target
        BY <1>1, <1>2
      <4> HIDE DEF d, Part
      <4> QED BY <2>3, <3>1, <4>1, <4>2
    <3>2. CASE k + 1 < n
      <4>1. /\ ~(b.shift_end <= b.shift_start \/ now + 1 <= b.shift_start)
            /\ ~(now + 1 >= b.shift_end)
            /\ (now + 1) - b.shift_start = k + 1
        BY <1>1, <1>2, <1>6, <2>1, <3>2
      <4> QED BY <2>1, <4>1 DEF MaintAssetWeight
    <3> QED BY <2>1, <1>2, <3>1, <3>2
  <2>6. /\ Part(k + 1) - Part(k) <= SecondsShare
        /\ -(Part(k + 1) - Part(k)) <= SecondsShare
    <3>1. k \in Nat
      BY <2>1, <1>2
    <3> HIDE DEF d, n, k
    <3> QED BY <1>2, <2>2, <3>1, PartsAreEven DEF SecondsShare, n
  <2>7. Part(k) \in Int /\ Part(k + 1) \in Int
    <3>1. k * d \in Int /\ (k + 1) * d \in Int
      BY <1>2, <2>1, <2>2
    <3> HIDE DEF d, n, k
    <3> QED BY <1>2, <3>1, DivBounds
  <2> HIDE DEF Part, k, d
  <2> QED BY <1>1, <1>4, <2>4, <2>5, <2>6, <2>7
<1> QED BY <1>1, <1>5, <1>6

-----------------------------------------------------------------------------
\* Edits of a bank

BankIsSound(b) == b \in BankSettings /\ Verify(b) /\ ShiftIsWhole(b)

\* Nothing to borrow and no collateral, now and at any later time
BankIsHarmless(b) ==
  /\ b.reduce_only # 0 /\ b.maint_asset_weight = 0 /\ b.init_asset_weight = 0
  /\ b.shift_end <= b.shift_start

\* c is no looser than b, and has the same weight.
Stricter(b, c) ==
  /\ Strictness(c.reduce_only) >= Strictness(b.reduce_only)
  /\ c.init_asset_weight <= b.init_asset_weight
  /\ MaintAssetWeight(c, lsNow) = MaintAssetWeight(b, lsNow)
  /\ c.force_close = b.force_close /\ c.force_withdraw = b.force_withdraw

\* An option of token_edit names one setting and a value of its type.
LEMMA OptionsAre ==
  ASSUME NEW o \in TokenOptions
  PROVE  \/ \E v \in Oracles : o = <<"oracle", v>>
         \/ \E v \in Oracles : o = <<"fallback_oracle", v>>
         \/ \E v \in BOOLEAN : o = <<"deposit_limited", v>>
         \/ \E v \in 0 .. 2 : o = <<"reduce_only", v>>
         \/ \E v \in BOOLEAN : o = <<"force_close", v>>
         \/ \E v \in BOOLEAN : o = <<"disable_asset_liquidation", v>>
         \/ \E v \in BOOLEAN : o = <<"force_withdraw", v>>
         \/ \E v \in 0 .. 1 : o = <<"platform_liquidation_fee", v>>
         \/ \E v \in {0, FullWeight} : o = <<"maint_asset_weight", v>>
         \/ \E v \in {0, FullWeight} : o = <<"init_asset_weight", v>>
         \/ \E v \in {0, FullWeight} : o = <<"shift", v>>
         \/ o = <<"rates_and_fees", 0>> \/ o = <<"shift_abort", 0>>
<1>2. o \in OracleOptions =>
        \/ \E v \in Oracles : o = <<"oracle", v>>
        \/ \E v \in Oracles : o = <<"fallback_oracle", v>>
  BY DEF OracleOptions
<1>4. o \in DepositLimitOptions => \E v \in BOOLEAN : o = <<"deposit_limited", v>>
  BY DEF DepositLimitOptions
<1>5. o \in ReduceOnlyOptions => \E v \in 0 .. 2 : o = <<"reduce_only", v>>
  BY DEF ReduceOnlyOptions
<1>6. o \in ForceCloseOptions => \E v \in BOOLEAN : o = <<"force_close", v>>
  BY DEF ForceCloseOptions
<1>7. o \in LiquidationOptions => \E v \in BOOLEAN : o = <<"disable_asset_liquidation", v>>
  BY DEF LiquidationOptions
<1>8. o \in ForceWithdrawOptions => \E v \in BOOLEAN : o = <<"force_withdraw", v>>
  BY DEF ForceWithdrawOptions
<1>9. o \in PlatformFeeOptions => \E v \in 0 .. 1 : o = <<"platform_liquidation_fee", v>>
  BY DEF PlatformFeeOptions
<1>10. o \in MaintWeightOptions => \E v \in {0, FullWeight} : o = <<"maint_asset_weight", v>>
  BY DEF MaintWeightOptions
<1>11. o \in InitWeightOptions => \E v \in {0, FullWeight} : o = <<"init_asset_weight", v>>
  BY DEF InitWeightOptions
<1>12. o \in ShiftOptions => \E v \in {0, FullWeight} : o = <<"shift", v>>
  BY DEF ShiftOptions
<1> QED
  BY <1>2, <1>4, <1>5, <1>6, <1>7, <1>8, <1>9, <1>10, <1>11, <1>12
     DEF TokenOptions, RateAndFeeOptions, ShiftAbortOptions

\* Banks whose fields agree are alike, and the other way round.
SameFields(b, c) ==
  /\ b.reduce_only = c.reduce_only /\ b.force_close = c.force_close
  /\ b.force_withdraw = c.force_withdraw
  /\ b.disable_asset_liquidation = c.disable_asset_liquidation
  /\ b.platform_liquidation_fee = c.platform_liquidation_fee
  /\ b.maint_asset_weight = c.maint_asset_weight /\ b.init_asset_weight = c.init_asset_weight
  /\ b.shift_start = c.shift_start /\ b.shift_end = c.shift_end
  /\ b.shift_asset_target = c.shift_asset_target
  /\ b.deposit_limited = c.deposit_limited /\ b.oracle = c.oracle

LEMMA AlikeIsSameFields ==
  ASSUME NEW b \in BankSettings, NEW c \in BankSettings
  PROVE  Alike(b, c) <=> SameFields(b, c)
<1>1. ASSUME Alike(b, c) PROVE SameFields(b, c)
  BY <1>1 DEF Alike, SameFields, BankSettings
<1>2. ASSUME SameFields(b, c) PROVE Alike(b, c)
  BY <1>2 DEF Alike, SameFields, BankSettings
<1> QED BY <1>1, <1>2

LEMMA StartShiftIs ==
  ASSUME NEW b \in BankSettings, lsNow \in Nat, NEW v \in {0, FullWeight}
  PROVE  LET e == StartShift(b, v)
         IN /\ e \in BankSettings /\ e.shift_start = lsNow /\ e.shift_end = lsNow + ShiftDuration
            /\ e.shift_asset_target = v
            /\ e.reduce_only = b.reduce_only /\ e.force_close = b.force_close
            /\ e.force_withdraw = b.force_withdraw
            /\ e.disable_asset_liquidation = b.disable_asset_liquidation
            /\ e.platform_liquidation_fee = b.platform_liquidation_fee
            /\ e.maint_asset_weight = b.maint_asset_weight
            /\ e.init_asset_weight = b.init_asset_weight
            /\ e.deposit_limited = b.deposit_limited /\ e.oracle = b.oracle
            /\ e.fallback_oracle = b.fallback_oracle
<1> DEFINE b1 == [b EXCEPT !.shift_start = lsNow]
           b2 == [b1 EXCEPT !.shift_end = lsNow + ShiftDuration]
           e == [b2 EXCEPT !.shift_asset_target = v]
<1>1. FullWeight \in Nat \ {0} /\ ShiftDuration \in Nat \ {0}
  BY ListingAssumption
<1>2. /\ b1 \in BankSettings /\ b1.shift_start = lsNow
      /\ b1.reduce_only = b.reduce_only /\ b1.force_close = b.force_close
      /\ b1.force_withdraw = b.force_withdraw
      /\ b1.disable_asset_liquidation = b.disable_asset_liquidation
      /\ b1.platform_liquidation_fee = b.platform_liquidation_fee
      /\ b1.maint_asset_weight = b.maint_asset_weight
      /\ b1.init_asset_weight = b.init_asset_weight
      /\ b1.deposit_limited = b.deposit_limited /\ b1.oracle = b.oracle
      /\ b1.fallback_oracle = b.fallback_oracle
  BY DEF BankSettings
<1> HIDE DEF b1
<1>3. /\ b2 \in BankSettings /\ b2.shift_start = lsNow /\ b2.shift_end = lsNow + ShiftDuration
      /\ b2.reduce_only = b.reduce_only /\ b2.force_close = b.force_close
      /\ b2.force_withdraw = b.force_withdraw
      /\ b2.disable_asset_liquidation = b.disable_asset_liquidation
      /\ b2.platform_liquidation_fee = b.platform_liquidation_fee
      /\ b2.maint_asset_weight = b.maint_asset_weight
      /\ b2.init_asset_weight = b.init_asset_weight
      /\ b2.deposit_limited = b.deposit_limited /\ b2.oracle = b.oracle
      /\ b2.fallback_oracle = b.fallback_oracle
  BY <1>1, <1>2 DEF BankSettings
<1> HIDE DEF b2
<1>4. /\ e \in BankSettings /\ e.shift_start = lsNow /\ e.shift_end = lsNow + ShiftDuration
      /\ e.shift_asset_target = v
      /\ e.reduce_only = b.reduce_only /\ e.force_close = b.force_close
      /\ e.force_withdraw = b.force_withdraw
      /\ e.disable_asset_liquidation = b.disable_asset_liquidation
      /\ e.platform_liquidation_fee = b.platform_liquidation_fee
      /\ e.maint_asset_weight = b.maint_asset_weight
      /\ e.init_asset_weight = b.init_asset_weight
      /\ e.deposit_limited = b.deposit_limited /\ e.oracle = b.oracle
      /\ e.fallback_oracle = b.fallback_oracle
  BY <1>1, <1>3 DEF BankSettings
<1> HIDE DEF e
<1>5. StartShift(b, v) = e
  BY Zenon DEF StartShift, b1, b2, e
<1> QED BY <1>4, <1>5

LEMMA AbortShiftIs ==
  ASSUME NEW b \in BankSettings, lsNow \in Nat
  PROVE  LET e == AbortShift(b)
         IN /\ e \in BankSettings /\ e.maint_asset_weight = MaintAssetWeight(b, lsNow)
            /\ e.shift_start = 0 /\ e.shift_end = 0 /\ e.shift_asset_target = 0
            /\ e.reduce_only = b.reduce_only /\ e.force_close = b.force_close
            /\ e.force_withdraw = b.force_withdraw
            /\ e.disable_asset_liquidation = b.disable_asset_liquidation
            /\ e.platform_liquidation_fee = b.platform_liquidation_fee
            /\ e.init_asset_weight = b.init_asset_weight
            /\ e.deposit_limited = b.deposit_limited /\ e.oracle = b.oracle
            /\ e.fallback_oracle = b.fallback_oracle
<1> DEFINE weight == MaintAssetWeight(b, lsNow)
           b1 == [b EXCEPT !.maint_asset_weight = weight]
           b2 == [b1 EXCEPT !.shift_start = 0]
           b3 == [b2 EXCEPT !.shift_end = 0]
           e == [b3 EXCEPT !.shift_asset_target = 0]
<1>1. weight \in 0 .. FullWeight /\ FullWeight \in Nat
  BY WeightsAreWeights, ListingAssumption
<1> HIDE DEF weight
<1>2. /\ b1 \in BankSettings /\ b1.maint_asset_weight = weight
      /\ b1.reduce_only = b.reduce_only /\ b1.force_close = b.force_close
      /\ b1.force_withdraw = b.force_withdraw
      /\ b1.disable_asset_liquidation = b.disable_asset_liquidation
      /\ b1.platform_liquidation_fee = b.platform_liquidation_fee
      /\ b1.init_asset_weight = b.init_asset_weight
      /\ b1.deposit_limited = b.deposit_limited /\ b1.oracle = b.oracle
      /\ b1.fallback_oracle = b.fallback_oracle
  BY <1>1 DEF BankSettings
<1> HIDE DEF b1
<1>3. /\ b2 \in BankSettings /\ b2.maint_asset_weight = weight /\ b2.shift_start = 0
      /\ b2.reduce_only = b.reduce_only /\ b2.force_close = b.force_close
      /\ b2.force_withdraw = b.force_withdraw
      /\ b2.disable_asset_liquidation = b.disable_asset_liquidation
      /\ b2.platform_liquidation_fee = b.platform_liquidation_fee
      /\ b2.init_asset_weight = b.init_asset_weight
      /\ b2.deposit_limited = b.deposit_limited /\ b2.oracle = b.oracle
      /\ b2.fallback_oracle = b.fallback_oracle
  BY <1>2 DEF BankSettings
<1> HIDE DEF b2
<1>4. /\ b3 \in BankSettings /\ b3.maint_asset_weight = weight
      /\ b3.shift_start = 0 /\ b3.shift_end = 0
      /\ b3.reduce_only = b.reduce_only /\ b3.force_close = b.force_close
      /\ b3.force_withdraw = b.force_withdraw
      /\ b3.disable_asset_liquidation = b.disable_asset_liquidation
      /\ b3.platform_liquidation_fee = b.platform_liquidation_fee
      /\ b3.init_asset_weight = b.init_asset_weight
      /\ b3.deposit_limited = b.deposit_limited /\ b3.oracle = b.oracle
      /\ b3.fallback_oracle = b.fallback_oracle
  BY <1>3 DEF BankSettings
<1> HIDE DEF b3
<1>5. /\ e \in BankSettings /\ e.maint_asset_weight = weight
      /\ e.shift_start = 0 /\ e.shift_end = 0 /\ e.shift_asset_target = 0
      /\ e.reduce_only = b.reduce_only /\ e.force_close = b.force_close
      /\ e.force_withdraw = b.force_withdraw
      /\ e.disable_asset_liquidation = b.disable_asset_liquidation
      /\ e.platform_liquidation_fee = b.platform_liquidation_fee
      /\ e.init_asset_weight = b.init_asset_weight
      /\ e.deposit_limited = b.deposit_limited /\ e.oracle = b.oracle
      /\ e.fallback_oracle = b.fallback_oracle
  BY <1>1, <1>4 DEF BankSettings
<1> HIDE DEF e
<1>6. AbortShift(b) = e
  BY Zenon DEF AbortShift, b1, b2, b3, e, weight
<1> QED BY <1>5, <1>6 DEF weight

\* Every option of token_edit gives settings of the right type, and shifts whole; and
\* it makes banks that are alike into banks that are alike.
LEMMA EditsAreSettings ==
  ASSUME NEW b \in BankSettings, ShiftIsWhole(b), lsNow \in Nat, NEW o \in TokenOptions
  PROVE  LET e == EditedBank(o, b)
         IN /\ e \in BankSettings /\ ShiftIsWhole(e)
            /\ \A c \in BankSettings : Alike(c, b) => Alike(EditedBank(o, c), e)
            /\ e.oracle = (IF o[1] = "oracle" THEN o[2] ELSE b.oracle)
            /\ e.fallback_oracle = (IF o[1] = "fallback_oracle" THEN o[2] ELSE b.fallback_oracle)
<1>1. FullWeight \in Nat \ {0} /\ ShiftDuration \in Nat \ {0}
  BY ListingAssumption
<1>2. CASE \E v \in Oracles : o = <<"oracle", v>>
  <2>1. PICK v \in Oracles : o = <<"oracle", v>>
    BY <1>2
  <2>2. o[1] = "oracle" /\ o[2] = v
    BY <2>1
  <2>3. \A c : EditedBank(o, c) = [c EXCEPT !.oracle = v]
    BY <2>2, Zenon DEF EditedBank
  <2> QED BY <1>1, <2>2, <2>3 DEF BankSettings, ShiftIsWhole, Alike
<1>3. CASE \E v \in Oracles : o = <<"fallback_oracle", v>>
  <2>1. PICK v \in Oracles : o = <<"fallback_oracle", v>>
    BY <1>3
  <2>2. o[1] = "fallback_oracle" /\ o[2] = v
    BY <2>1
  <2>3. \A c : EditedBank(o, c) = [c EXCEPT !.fallback_oracle = v]
    BY <2>2, Zenon DEF EditedBank
  <2> QED BY <1>1, <2>2, <2>3 DEF BankSettings, ShiftIsWhole, Alike
<1>4. CASE \E v \in BOOLEAN : o = <<"deposit_limited", v>>
  <2>1. PICK v \in BOOLEAN : o = <<"deposit_limited", v>>
    BY <1>4
  <2>2. o[1] = "deposit_limited" /\ o[2] = v
    BY <2>1
  <2>3. \A c : EditedBank(o, c) = [c EXCEPT !.deposit_limited = v]
    BY <2>2, Zenon DEF EditedBank
  <2> QED BY <1>1, <2>2, <2>3 DEF BankSettings, ShiftIsWhole, Alike
<1>5. CASE \E v \in 0 .. 2 : o = <<"reduce_only", v>>
  <2>1. PICK v \in 0 .. 2 : o = <<"reduce_only", v>>
    BY <1>5
  <2>2. o[1] = "reduce_only" /\ o[2] = v
    BY <2>1
  <2>3. \A c : EditedBank(o, c) = [c EXCEPT !.reduce_only = v]
    BY <2>2, Zenon DEF EditedBank
  <2> QED BY <1>1, <2>2, <2>3 DEF BankSettings, ShiftIsWhole, Alike
<1>6. CASE \E v \in BOOLEAN : o = <<"force_close", v>>
  <2>1. PICK v \in BOOLEAN : o = <<"force_close", v>>
    BY <1>6
  <2>2. o[1] = "force_close" /\ o[2] = v
    BY <2>1
  <2>3. \A c : EditedBank(o, c) = [c EXCEPT !.force_close = v]
    BY <2>2, Zenon DEF EditedBank
  <2> QED BY <1>1, <2>2, <2>3 DEF BankSettings, ShiftIsWhole, Alike
<1>7. CASE \E v \in BOOLEAN : o = <<"disable_asset_liquidation", v>>
  <2>1. PICK v \in BOOLEAN : o = <<"disable_asset_liquidation", v>>
    BY <1>7
  <2>2. o[1] = "disable_asset_liquidation" /\ o[2] = v
    BY <2>1
  <2>3. \A c : EditedBank(o, c) = [c EXCEPT !.disable_asset_liquidation = v]
    BY <2>2, Zenon DEF EditedBank
  <2> QED BY <1>1, <2>2, <2>3 DEF BankSettings, ShiftIsWhole, Alike
<1>8. CASE \E v \in BOOLEAN : o = <<"force_withdraw", v>>
  <2>1. PICK v \in BOOLEAN : o = <<"force_withdraw", v>>
    BY <1>8
  <2>2. o[1] = "force_withdraw" /\ o[2] = v
    BY <2>1
  <2>3. \A c : EditedBank(o, c) = [c EXCEPT !.force_withdraw = v]
    BY <2>2, Zenon DEF EditedBank
  <2> QED BY <1>1, <2>2, <2>3 DEF BankSettings, ShiftIsWhole, Alike
<1>9. CASE \E v \in 0 .. 1 : o = <<"platform_liquidation_fee", v>>
  <2>1. PICK v \in 0 .. 1 : o = <<"platform_liquidation_fee", v>>
    BY <1>9
  <2>2. o[1] = "platform_liquidation_fee" /\ o[2] = v
    BY <2>1
  <2>3. \A c : EditedBank(o, c) = [c EXCEPT !.platform_liquidation_fee = v]
    BY <2>2, Zenon DEF EditedBank
  <2> QED BY <1>1, <2>2, <2>3 DEF BankSettings, ShiftIsWhole, Alike
<1>10. CASE \E v \in {0, FullWeight} : o = <<"maint_asset_weight", v>>
  <2>1. PICK v \in {0, FullWeight} : o = <<"maint_asset_weight", v>>
    BY <1>10
  <2>2. o[1] = "maint_asset_weight" /\ o[2] = v
    BY <2>1
  <2>3. \A c : EditedBank(o, c) = [c EXCEPT !.maint_asset_weight = v]
    BY <2>2, Zenon DEF EditedBank
  <2> QED BY <1>1, <2>2, <2>3 DEF BankSettings, ShiftIsWhole, Alike
<1>11. CASE \E v \in {0, FullWeight} : o = <<"init_asset_weight", v>>
  <2>1. PICK v \in {0, FullWeight} : o = <<"init_asset_weight", v>>
    BY <1>11
  <2>2. o[1] = "init_asset_weight" /\ o[2] = v
    BY <2>1
  <2>3. \A c : EditedBank(o, c) = [c EXCEPT !.init_asset_weight = v]
    BY <2>2, Zenon DEF EditedBank
  <2> QED BY <1>1, <2>2, <2>3 DEF BankSettings, ShiftIsWhole, Alike
<1>12. CASE \E v \in {0, FullWeight} : o = <<"shift", v>>
  <2>1. PICK v \in {0, FullWeight} : o = <<"shift", v>>
    BY <1>12
  <2>2. o[1] = "shift" /\ o[2] = v
    BY <2>1
  <2>3. \A c : EditedBank(o, c) = StartShift(c, v)
    BY <2>2, Zenon DEF EditedBank
  <2>4. ASSUME NEW c \in BankSettings, Alike(c, b) PROVE Alike(StartShift(c, v), StartShift(b, v))
    <3>1. SameFields(c, b)
      BY <2>4, AlikeIsSameFields
    <3>2. StartShift(c, v) \in BankSettings /\ StartShift(b, v) \in BankSettings
      BY StartShiftIs
    <3>3. SameFields(StartShift(c, v), StartShift(b, v))
      BY <3>1, StartShiftIs DEF SameFields
    <3> QED BY <3>2, <3>3, AlikeIsSameFields
  <2>5. StartShift(b, v) \in BankSettings /\ ShiftIsWhole(StartShift(b, v))
    BY <1>1, StartShiftIs DEF ShiftIsWhole
  <2>6. StartShift(b, v).oracle = b.oracle /\ StartShift(b, v).fallback_oracle = b.fallback_oracle
    BY StartShiftIs
  <2> QED BY <2>2, <2>3, <2>4, <2>5, <2>6
<1>13. CASE o = <<"shift_abort", 0>>
  <2>2. o[1] = "shift_abort"
    BY <1>13
  <2>3. \A c : EditedBank(o, c) = AbortShift(c)
    BY <2>2, Zenon DEF EditedBank
  <2>4. ASSUME NEW c \in BankSettings, Alike(c, b) PROVE Alike(AbortShift(c), AbortShift(b))
    <3>1. SameFields(c, b)
      BY <2>4, AlikeIsSameFields
    <3>2. AbortShift(c) \in BankSettings /\ AbortShift(b) \in BankSettings
      BY AbortShiftIs
    <3>3. MaintAssetWeight(c, lsNow) = MaintAssetWeight(b, lsNow)
      BY <3>1 DEF SameFields, MaintAssetWeight
    <3>4. SameFields(AbortShift(c), AbortShift(b))
      BY <3>1, <3>3, AbortShiftIs DEF SameFields
    <3> QED BY <3>2, <3>4, AlikeIsSameFields
  <2>5. AbortShift(b) \in BankSettings /\ ShiftIsWhole(AbortShift(b))
    BY <1>1, AbortShiftIs DEF ShiftIsWhole
  <2>6. AbortShift(b).oracle = b.oracle /\ AbortShift(b).fallback_oracle = b.fallback_oracle
    BY AbortShiftIs
  <2> QED BY <2>2, <2>3, <2>4, <2>5, <2>6
<1>14. CASE o = <<"rates_and_fees", 0>>
  <2>2. o[1] = "rates_and_fees"
    BY <1>14
  <2>3. \A c : EditedBank(o, c) = c
    BY <2>2, Zenon DEF EditedBank
  <2> QED BY <2>2, <2>3
<1> QED BY <1>2, <1>3, <1>4, <1>5, <1>6, <1>7, <1>8, <1>9, <1>10, <1>11, <1>12, <1>13, <1>14, OptionsAre, Zenon

\* Options of token_edit that the security admin may use
LEMMA LenientOptions ==
  ASSUME NEW b, NEW o \in TokenOptions, ~RequireGroupAdmin(o, b)
  PROVE  \/ \E v \in 0 .. 2 : o = <<"reduce_only", v>> /\ ~LoosensReduceOnly(b, v)
         \/ \E v \in 0 .. 1 : o = <<"platform_liquidation_fee", v>>
         \/ o = <<"init_asset_weight", 0>> \/ o = <<"shift_abort", 0>>
<1>1. \/ o[1] = "reduce_only" /\ ~LoosensReduceOnly(b, o[2])
      \/ o[1] = "platform_liquidation_fee" /\ o[2] = 0
      \/ o[1] = "init_asset_weight" /\ o[2] = 0
      \/ o[1] = "shift_abort"
  BY DEF RequireGroupAdmin
<1>2. \A f, v : <<f, v>>[1] = f /\ <<f, v>>[2] = v
  OBVIOUS
<1>3. \A f \in {"oracle", "fallback_oracle", "deposit_limited", "force_close",
                 "disable_asset_liquidation", "force_withdraw", "maint_asset_weight", "shift",
                 "rates_and_fees"} : o[1] # f
  BY <1>1
<1> QED BY <1>1, <1>2, <1>3, OptionsAre

\* They make settings stricter and keep a fast-listed token harmless.
LEMMA LenientEditsRestrict ==
  ASSUME NEW b \in BankSettings, lsNow \in Nat, NEW o \in TokenOptions, ~RequireGroupAdmin(o, b)
  PROVE  /\ Stricter(b, EditedBank(o, b))
         /\ BankIsHarmless(b) => BankIsHarmless(EditedBank(o, b))
<1> DEFINE e == EditedBank(o, b)
<1>1. /\ FullWeight \in Nat \ {0} /\ b.init_asset_weight \in Int
      /\ Strictness(b.reduce_only) \in Int /\ b.init_asset_weight >= 0
  BY ListingAssumption DEF Strictness, BankSettings
<1>2. CASE \E v \in 0 .. 2 : o = <<"reduce_only", v>> /\ ~LoosensReduceOnly(b, v)
  <2>1. PICK v \in 0 .. 2 : o = <<"reduce_only", v>> /\ ~LoosensReduceOnly(b, v)
    BY <1>2
  <2>2. o[1] = "reduce_only" /\ o[2] = v
    BY <2>1
  <2>3. e = [b EXCEPT !.reduce_only = v]
    BY <2>2, Zenon DEF EditedBank
  <2>4. v # 0 /\ Strictness(v) >= Strictness(b.reduce_only)
    BY <2>1 DEF LoosensReduceOnly, Strictness, BankSettings
  <2> HIDE DEF e
  <2>5. Stricter(b, e) /\ (BankIsHarmless(b) => BankIsHarmless(e))
    BY <1>1, <2>3, <2>4 DEF BankSettings, Stricter, BankIsHarmless, MaintAssetWeight
  <2> QED BY <2>5 DEF e
<1>3. CASE \E v \in 0 .. 1 : o = <<"platform_liquidation_fee", v>>
  <2>1. PICK v \in 0 .. 1 : o = <<"platform_liquidation_fee", v>>
    BY <1>3
  <2>2. o[1] = "platform_liquidation_fee" /\ o[2] = v
    BY <2>1
  <2>3. e = [b EXCEPT !.platform_liquidation_fee = v]
    BY <2>2, Zenon DEF EditedBank
  <2> HIDE DEF e
  <2>4. Stricter(b, e) /\ (BankIsHarmless(b) => BankIsHarmless(e))
    BY <1>1, <2>3 DEF BankSettings, Stricter, BankIsHarmless, MaintAssetWeight
  <2> QED BY <2>4 DEF e
<1>4. CASE o = <<"init_asset_weight", 0>>
  <2>2. o[1] = "init_asset_weight" /\ o[2] = 0
    BY <1>4
  <2>3. e = [b EXCEPT !.init_asset_weight = 0]
    BY <2>2, Zenon DEF EditedBank
  <2> HIDE DEF e
  <2>4. Stricter(b, e) /\ (BankIsHarmless(b) => BankIsHarmless(e))
    BY <1>1, <2>3 DEF BankSettings, Stricter, BankIsHarmless, MaintAssetWeight
  <2> QED BY <2>4 DEF e
<1>5. CASE o = <<"shift_abort", 0>>
  <2>2. o[1] = "shift_abort"
    BY <1>5
  <2>3. e = AbortShift(b)
    BY <2>2, Zenon DEF EditedBank
  <2> DEFINE weight == MaintAssetWeight(b, lsNow)
  <2> HIDE DEF e
  <2>4. /\ e.maint_asset_weight = weight /\ e.shift_start = 0 /\ e.shift_end = 0
        /\ e.reduce_only = b.reduce_only /\ e.init_asset_weight = b.init_asset_weight
        /\ e.force_close = b.force_close /\ e.force_withdraw = b.force_withdraw
    BY <2>3, AbortShiftIs
  <2>5. BankIsHarmless(b) => weight = 0
    BY DEF BankIsHarmless, MaintAssetWeight
  <2> HIDE DEF weight
  <2>6. MaintAssetWeight(e, lsNow) = weight
    BY <2>4 DEF MaintAssetWeight
  <2>7. Stricter(b, e)
    BY <1>1, <2>4, <2>6 DEF Stricter, weight
  <2>8. BankIsHarmless(b) => BankIsHarmless(e)
    BY <2>4, <2>5 DEF BankIsHarmless
  <2> QED BY <2>7, <2>8 DEF e
<1> QED BY <1>2, <1>3, <1>4, <1>5, LenientOptions, Zenon

-----------------------------------------------------------------------------
(***************************************************************************)
(* The inductive invariant.  Every token is sound: its banks are alike,    *)
(* and the first one verifies, so all do.  Fast listings of the week that  *)
(* the current interval is are counted, and no listing is in a later week, *)
(* so that an interval that starts has nothing to count.                   *)
(***************************************************************************)

TokenType == [mint: Mints, trustless: BOOLEAN, banks: Seq(BankSettings),
              oracle: Oracles, fallback_oracle: Oracles]

TokenIsSound(t) ==
  /\ t \in TokenType
  /\ Len(t.banks) \in 1 .. LsMaxBanks
  /\ \A n \in 1 .. Len(t.banks) : Alike(t.banks[n], t.banks[1])
  /\ t.banks[1].oracle = t.oracle /\ t.banks[1].fallback_oracle = t.fallback_oracle
  /\ BankIsSound(t.banks[1])
  /\ t.trustless => BankIsHarmless(t.banks[1])

TokensAreSound ==
  /\ \A i \in DOMAIN tokens : TokenIsSound(tokens[i])
  /\ OneMintPerIndex

WeekOf(time) == time \div FastListingWeek

ListedInWeek(w) == {m \in DOMAIN fastListed : fastListed[m] \div FastListingWeek = w}

RationsHold ==
  /\ lsNow \in Nat
  /\ fastListing \in [start: Nat, count: 0 .. AllowedFastListings]
  /\ fastListed \in Seq(Nat)
  /\ fastListing.start = WeekOf(fastListing.start) * FastListingWeek
  /\ fastListing.start <= lsNow
  /\ \A m \in DOMAIN fastListed : WeekOf(fastListed[m]) <= WeekOf(fastListing.start)
  /\ Cardinality(ListedInWeek(WeekOf(fastListing.start))) <= fastListing.count
  /\ \A w \in Int : Cardinality(ListedInWeek(w)) <= AllowedFastListings

SpotMarketType == [base: TokenIndexes, quote: TokenIndexes, band: {"wide", "narrow"},
                   reduce_only: BOOLEAN, force_close: BOOLEAN]
PerpMarketType == [reduce_only: BOOLEAN, force_close: BOOLEAN, init_overall_asset_weight: 0 .. 1]

MarketsAreTyped ==
  /\ \A m \in DOMAIN spotMarkets : spotMarkets[m] \in SpotMarketType
  /\ \A m \in DOMAIN perpMarkets : perpMarkets[m] \in PerpMarketType

ListingInv == TokensAreSound /\ RationsHold /\ MarketsAreTyped /\ lsSigner \in LsKeys

\* A sound token in the place of another of the same mint, or of a mint that is not
\* listed at a free index, keeps the tokens sound.
LEMMA ReplacedTokenIsSound ==
  ASSUME TokensAreSound, NEW index \in DOMAIN tokens, NEW t,
         TokenIsSound(t), t.mint = tokens[index].mint, tokens' = [tokens EXCEPT ![index] = t]
  PROVE  TokensAreSound'
BY DEF TokensAreSound, OneMintPerIndex

LEMMA CreatedTokenIsSound ==
  ASSUME TokensAreSound, NEW index, index \notin DOMAIN tokens, NEW t,
         TokenIsSound(t), t.mint \notin ListedMints, tokens' = Created(tokens, index, t)
  PROVE  TokensAreSound'
<1>1. /\ DOMAIN tokens' = DOMAIN tokens \cup {index}
      /\ tokens'[index] = t
      /\ \A i \in DOMAIN tokens : tokens'[i] = tokens[i]
  BY DEF Created
<1>2. \A i \in DOMAIN tokens : tokens[i].mint # t.mint
  BY DEF ListedMints
<1> QED BY <1>1, <1>2 DEF TokensAreSound, OneMintPerIndex

LEMMA TokenEditKeepsTokens ==
  ASSUME TokensAreSound, lsNow \in Nat, NEW k, NEW index, TokenEdit(k, index)
  PROVE  TokensAreSound'
<1> DEFINE old == tokens[index]
           size == Len(old.banks)
<1>1. index \in DOMAIN tokens /\ TokenIsSound(old)
  BY DEF TokenEdit, Listed, TokensAreSound
<1>2. PICK o \in TokenOptions : /\ Verify(EditedToken(o, old).banks[1])
                               /\ tokens' = [tokens EXCEPT ![index] = EditedToken(o, old)]
  BY Zenon DEF TokenEdit
<1> DEFINE t == EditedToken(o, old)
           first == EditedBank(o, old.banks[1])
<1> HIDE DEF old
<1>3. /\ old \in TokenType /\ size \in Nat /\ size \in 1 .. LsMaxBanks /\ 1 \in 1 .. size
      /\ DOMAIN old.banks = 1 .. size /\ \A n \in 1 .. size : old.banks[n] \in BankSettings
  <2>1. old \in TokenType /\ old.banks \in Seq(BankSettings) /\ size \in 1 .. LsMaxBanks
    BY <1>1, Zenon DEF TokenIsSound, TokenType
  <2>2. DOMAIN old.banks = 1 .. size /\ \A n \in 1 .. size : old.banks[n] \in BankSettings
    BY <2>1, ElementOfSeq, LenProperties
  <2> HIDE DEF size
  <2>3. size \in Nat /\ 1 \in 1 .. size
    BY <2>1, ListingAssumption
  <2> QED BY <2>1, <2>2, <2>3
<1>4. /\ \A n \in 1 .. size : Alike(old.banks[n], old.banks[1])
      /\ old.banks[1].oracle = old.oracle /\ old.banks[1].fallback_oracle = old.fallback_oracle
      /\ BankIsSound(old.banks[1])
      /\ old.trustless => BankIsHarmless(old.banks[1])
  BY <1>1, Zenon DEF TokenIsSound
<1>5. /\ first \in BankSettings /\ ShiftIsWhole(first)
      /\ first.oracle = (IF o[1] = "oracle" THEN o[2] ELSE old.oracle)
      /\ first.fallback_oracle = (IF o[1] = "fallback_oracle" THEN o[2] ELSE old.fallback_oracle)
  BY <1>3, <1>4, EditsAreSettings DEF BankIsSound
<1>6. \A n \in 1 .. size : /\ EditedBank(o, old.banks[n]) \in BankSettings
                          /\ Alike(EditedBank(o, old.banks[n]), first)
  <2> TAKE n \in 1 .. size
  <2>1. old.banks[n] \in BankSettings /\ old.banks[1] \in BankSettings
    BY <1>3
  <2>2. ShiftIsWhole(old.banks[n])
    <3>1. SameFields(old.banks[n], old.banks[1])
      BY <1>4, <2>1, AlikeIsSameFields
    <3> QED BY <1>4, <3>1 DEF BankIsSound, ShiftIsWhole, SameFields
  <2>3. EditedBank(o, old.banks[n]) \in BankSettings
    BY <2>1, <2>2, EditsAreSettings
  <2>4. \A c \in BankSettings : Alike(c, old.banks[1]) => Alike(EditedBank(o, c), first)
    BY <1>4, <2>1, EditsAreSettings DEF BankIsSound
  <2> QED BY <1>4, <2>1, <2>3, <2>4, Zenon
<1>7. PICK trustless \in BOOLEAN :
        trustless <=> (old.trustless /\ ~\E n \in DOMAIN old.banks : RequireGroupAdmin(o, old.banks[n]))
  BY Zenon
<1> DEFINE banks == [n \in 1 .. size |-> EditedBank(o, old.banks[n])]
<1>8. /\ t.mint = old.mint /\ t.banks = banks
      /\ (t.trustless <=> trustless)
      /\ t.oracle = first.oracle /\ t.fallback_oracle = first.fallback_oracle
      /\ t = [mint |-> old.mint, trustless |-> trustless, banks |-> banks,
              oracle |-> first.oracle, fallback_oracle |-> first.fallback_oracle]
  <2>1. trustless = (old.trustless /\ ~\E n \in DOMAIN old.banks : RequireGroupAdmin(o, old.banks[n]))
    BY <1>7, Zenon
  <2> HIDE DEF size
  <2>2. banks = [n \in DOMAIN old.banks |-> EditedBank(o, old.banks[n])]
    BY <1>3, Zenon
  <2> HIDE DEF banks, first
  <2>3. t = [mint |-> old.mint, trustless |-> trustless, banks |-> banks,
             oracle |-> first.oracle, fallback_oracle |-> first.fallback_oracle]
    BY <1>5, <2>1, <2>2, Zenon DEF EditedToken
  <2> HIDE DEF t
  <2> QED BY <2>3, Zenon
<1>9. banks \in Seq(BankSettings) /\ Len(banks) = size /\ \A n \in 1 .. size : banks[n] = EditedBank(o, old.banks[n])
  <2> HIDE DEF size
  <2>1. banks \in [1 .. size -> BankSettings]
    BY <1>6
  <2>2. banks \in Seq(BankSettings)
    BY <1>3, <2>1, SeqDef
  <2>3. Len(banks) = size
    BY <1>3, <2>2, LenProperties
  <2> QED BY <2>2, <2>3
<1>10. banks[1] = first
  BY <1>3, <1>9, Zenon
<1> HIDE DEF t, banks, first, size
<1>11. t \in TokenType
  <2>1. first.oracle \in Oracles /\ first.fallback_oracle \in Oracles /\ old.mint \in Mints
    BY <1>3, <1>5 DEF BankSettings, TokenType
  <2> QED BY <1>8, <1>9, <2>1 DEF TokenType
<1>12. BankIsSound(t.banks[1]) /\ (t.trustless => BankIsHarmless(t.banks[1]))
  <2>1. BankIsSound(t.banks[1])
    BY <1>2, <1>5, <1>8, <1>10, Zenon DEF BankIsSound, t
  <2>2. t.trustless => BankIsHarmless(first)
    <3> SUFFICES ASSUME t.trustless PROVE BankIsHarmless(first)
      OBVIOUS
    <3>1. old.trustless /\ ~RequireGroupAdmin(o, old.banks[1])
      BY <1>3, <1>7, <1>8, Zenon
    <3>2. old.banks[1] \in BankSettings
      BY <1>3
    <3> QED BY <1>4, <3>1, <3>2, LenientEditsRestrict DEF first
  <2> QED BY <1>8, <1>10, <2>1, <2>2, Zenon
<1>13. /\ Len(t.banks) \in 1 .. LsMaxBanks
       /\ \A n \in 1 .. Len(t.banks) : Alike(t.banks[n], t.banks[1])
       /\ t.banks[1].oracle = t.oracle /\ t.banks[1].fallback_oracle = t.fallback_oracle
  <2>1. Len(t.banks) = size /\ t.banks = banks
    BY <1>8, <1>9, Zenon
  <2>2. \A n \in 1 .. size : Alike(banks[n], banks[1])
    BY <1>6, <1>9, <1>10, Zenon
  <2> QED BY <1>3, <1>8, <1>10, <2>1, <2>2, Zenon
<1>14. TokenIsSound(t)
  BY <1>11, <1>12, <1>13, Zenon DEF TokenIsSound
<1>15. tokens' = [tokens EXCEPT ![index] = t] /\ t.mint = tokens[index].mint
  BY <1>2, <1>8, Zenon DEF t, old
<1> QED BY <1>1, <1>14, <1>15, ReplacedTokenIsSound

LEMMA TokenAddBankKeepsTokens ==
  ASSUME TokensAreSound, NEW k, NEW index, TokenAddBank(k, index)
  PROVE  TokensAreSound'
<1> DEFINE old == tokens[index].banks
<1>1. index \in DOMAIN tokens /\ TokenIsSound(tokens[index]) /\ Len(old) < LsMaxBanks
  BY DEF TokenAddBank, Listed, TokensAreSound
<1>2. PICK n \in DOMAIN old :
        tokens' = [tokens EXCEPT ![index].banks = Append(@, LsFromExistingBank(@[n]))]
  BY Zenon DEF TokenAddBank
<1> DEFINE new == LsFromExistingBank(old[n])
           banks == Append(old, new)
           t == [tokens[index] EXCEPT !.banks = banks]
<1>3. tokens' = [tokens EXCEPT ![index] = t]
  BY <1>2
<1>4. LsMaxBanks \in Nat
  BY ListingAssumption
<1>5. /\ old \in Seq(BankSettings) /\ Len(old) \in Nat /\ Len(old) >= 1
      /\ DOMAIN old = 1 .. Len(old) /\ \A m \in 1 .. Len(old) : old[m] \in BankSettings
  <2>1. old \in Seq(BankSettings) /\ Len(old) \in 1 .. LsMaxBanks
    BY <1>1 DEF TokenIsSound, TokenType
  <2> HIDE DEF old
  <2> QED BY <1>4, <2>1, ElementOfSeq, LenProperties
<1>6. \A m \in 1 .. Len(old) : Alike(old[m], old[1])
  BY <1>1 DEF TokenIsSound
<1> HIDE DEF old
<1>7. new \in BankSettings /\ Alike(new, old[1]) /\ old[1] \in BankSettings
  <2>1. old[n] \in BankSettings /\ old[1] \in BankSettings /\ Alike(old[n], old[1])
    BY <1>5, <1>6
  <2>2. SameFields(old[n], old[1])
    BY <2>1, AlikeIsSameFields
  <2>3. new \in BankSettings /\ SameFields(new, old[n])
    BY <2>1 DEF LsFromExistingBank, BankSettings, SameFields
  <2> HIDE DEF new
  <2>4. SameFields(new, old[1])
    BY <2>2, <2>3 DEF SameFields
  <2> QED BY <2>1, <2>3, <2>4, AlikeIsSameFields
<1> HIDE DEF new
<1>8. /\ banks \in Seq(BankSettings) /\ Len(banks) = Len(old) + 1
      /\ \A m \in 1 .. Len(old) : banks[m] = old[m]
      /\ banks[Len(old) + 1] = new
  BY <1>5, <1>7, AppendProperties
<1> HIDE DEF banks
<1>9. Len(banks) \in 1 .. LsMaxBanks /\ banks[1] = old[1]
      /\ \A m \in 1 .. Len(banks) : Alike(banks[m], banks[1])
  <2>1. Len(banks) \in 1 .. LsMaxBanks /\ banks[1] = old[1]
    BY <1>1, <1>4, <1>5, <1>8 DEF old
  <2>2. \A m \in 1 .. Len(banks) : m \in 1 .. Len(old) \/ m = Len(old) + 1
    BY <1>5, <1>8
  <2> QED BY <1>6, <1>7, <1>8, <2>1, <2>2, Zenon
<1>10. /\ t.mint = tokens[index].mint /\ t.trustless = tokens[index].trustless /\ t.banks = banks
       /\ t.oracle = tokens[index].oracle /\ t.fallback_oracle = tokens[index].fallback_oracle
       /\ t \in TokenType
  BY <1>1, <1>8 DEF TokenIsSound, TokenType
<1> HIDE DEF t
<1>11. /\ BankIsSound(old[1])
       /\ tokens[index].trustless => BankIsHarmless(old[1])
       /\ old[1].oracle = tokens[index].oracle
       /\ old[1].fallback_oracle = tokens[index].fallback_oracle
  BY <1>1, Zenon DEF TokenIsSound, old
<1>12. /\ BankIsSound(t.banks[1])
       /\ t.trustless => BankIsHarmless(t.banks[1])
       /\ t.banks[1].oracle = t.oracle /\ t.banks[1].fallback_oracle = t.fallback_oracle
  BY <1>9, <1>10, <1>11, Zenon
<1>13. TokenIsSound(t)
  BY <1>9, <1>10, <1>12, Zenon DEF TokenIsSound
<1> QED BY <1>1, <1>3, <1>10, <1>13, ReplacedTokenIsSound

\* The first bank of a new token is sound, that of a fast-listed token harmless.
LEMMA NewTokenIsSound ==
  ASSUME NEW mint \in Mints, NEW bank, BankIsSound(bank), NEW trustless \in BOOLEAN,
         trustless => BankIsHarmless(bank)
  PROVE  TokenIsSound([mint |-> mint, trustless |-> trustless, banks |-> <<bank>>,
                       oracle |-> bank.oracle, fallback_oracle |-> bank.fallback_oracle])
<1> DEFINE t == [mint |-> mint, trustless |-> trustless, banks |-> <<bank>>,
                 oracle |-> bank.oracle, fallback_oracle |-> bank.fallback_oracle]
<1>1. bank \in BankSettings /\ LsMaxBanks \in Nat \ {0}
  BY ListingAssumption DEF BankIsSound
<1>2. <<bank>> \in Seq(BankSettings) /\ Len(<<bank>>) = 1 /\ <<bank>>[1] = bank
  BY <1>1
<1>3. bank.oracle \in Oracles /\ bank.fallback_oracle \in Oracles /\ Alike(bank, bank)
  BY <1>1 DEF BankSettings, Alike
<1>4. t \in TokenType
  BY <1>2, <1>3, Zenon DEF TokenType
<1>5. /\ t.mint = mint /\ t.banks = <<bank>> /\ (t.trustless <=> trustless)
      /\ t.oracle = bank.oracle /\ t.fallback_oracle = bank.fallback_oracle
  BY Zenon
<1> HIDE DEF t
<1>6. t.banks[1] = bank /\ Len(t.banks) = 1
  BY <1>2, <1>5, Zenon
<1>7. Len(t.banks) \in 1 .. LsMaxBanks /\ \A n \in 1 .. Len(t.banks) : n = 1
  BY <1>1, <1>6
<1>8. /\ BankIsSound(t.banks[1]) /\ (t.trustless => BankIsHarmless(t.banks[1]))
      /\ t.banks[1].oracle = t.oracle /\ t.banks[1].fallback_oracle = t.fallback_oracle
      /\ \A n \in 1 .. Len(t.banks) : Alike(t.banks[n], t.banks[1])
  BY <1>3, <1>5, <1>6, <1>7, Zenon
<1>9. TokenIsSound(t)
  BY <1>4, <1>7, <1>8, Zenon DEF TokenIsSound
<1> QED BY <1>9 DEF t

LEMMA NewBanksAreSound ==
  ASSUME NEW oracles \in RegisteredOracles, NEW limited \in BOOLEAN
  PROVE  /\ BankIsSound(OrdinaryBank(oracles, limited))
         /\ BankIsSound(TrustlessBank(oracles)) /\ BankIsHarmless(TrustlessBank(oracles))
<1> DEFINE b == OrdinaryBank(oracles, limited)
           c == TrustlessBank(oracles)
<1>1. FullWeight \in Nat \ {0} /\ oracles[1] \in Oracles /\ oracles[2] \in Oracles
  BY ListingAssumption
<1>2. /\ b \in BankSettings /\ ~b.disable_asset_liquidation /\ ~b.force_withdraw
      /\ b.maint_asset_weight = FullWeight /\ b.init_asset_weight = FullWeight - 1
      /\ b.shift_start = 0 /\ b.shift_end = 0
  BY <1>1 DEF BankSettings, OrdinaryBank
<1>3. /\ c \in BankSettings /\ c.reduce_only = 2 /\ c.disable_asset_liquidation /\ ~c.force_withdraw
      /\ c.maint_asset_weight = 0 /\ c.init_asset_weight = 0
      /\ c.shift_start = 0 /\ c.shift_end = 0
  BY <1>1 DEF BankSettings, TrustlessBank
<1> HIDE DEF b, c
<1>4. BankIsSound(b)
  BY <1>1, <1>2 DEF BankIsSound, Verify, ShiftIsWhole
<1>5. BankIsSound(c) /\ BankIsHarmless(c)
  BY <1>3 DEF BankIsSound, Verify, ShiftIsWhole, BankIsHarmless, LsAreBorrowsReduceOnly,
              LsAreDepositsReduceOnly
<1> QED BY <1>4, <1>5 DEF b, c

LEMMA RegisterKeepsTokens ==
  ASSUME TokensAreSound, NEW k, NEW index, NEW mint \in Mints,
         TokenRegister(k, index, mint) \/ TokenRegisterTrustless(k, index, mint)
  PROVE  TokensAreSound'
<1>1. index \notin DOMAIN tokens /\ mint \notin ListedMints
  BY DEF TokenRegister, TokenRegisterTrustless, CanRegister, Listed
<1>2. ASSUME NEW bank, BankIsSound(bank), NEW trustless \in BOOLEAN,
             trustless => BankIsHarmless(bank), NewToken(index, mint, bank, trustless)
      PROVE  TokensAreSound'
  <2> DEFINE t == [mint |-> mint, trustless |-> trustless, banks |-> <<bank>>,
                   oracle |-> bank.oracle, fallback_oracle |-> bank.fallback_oracle]
  <2>1. tokens' = Created(tokens, index, t)
    BY <1>2, Zenon DEF NewToken
  <2>2. TokenIsSound(t)
    BY <1>2, NewTokenIsSound, Zenon
  <2>3. t.mint = mint
    BY Zenon
  <2> HIDE DEF t
  <2> QED BY <1>1, <2>1, <2>2, <2>3, CreatedTokenIsSound
<1>3. CASE TokenRegister(k, index, mint)
  <2>1. PICK oracles \in RegisteredOracles, limited \in BOOLEAN :
          NewToken(index, mint, OrdinaryBank(oracles, limited), FALSE)
    BY <1>3, Zenon DEF TokenRegister
  <2>2. BankIsSound(OrdinaryBank(oracles, limited))
    BY NewBanksAreSound
  <2> QED BY <1>2, <2>1, <2>2, Zenon
<1>4. CASE TokenRegisterTrustless(k, index, mint)
  <2>1. PICK oracles \in RegisteredOracles : NewToken(index, mint, TrustlessBank(oracles), TRUE)
    BY <1>4, Zenon DEF TokenRegisterTrustless
  <2>2. BankIsSound(TrustlessBank(oracles)) /\ BankIsHarmless(TrustlessBank(oracles))
    BY NewBanksAreSound
  <2> QED BY <1>2, <2>1, <2>2, Zenon
<1> QED BY <1>3, <1>4

LEMMA TokenDeregisterKeepsTokens ==
  ASSUME TokensAreSound, NEW k, NEW index, TokenDeregister(k, index)
  PROVE  TokensAreSound'
<1>1. /\ DOMAIN tokens' = DOMAIN tokens \ {index}
      /\ \A i \in DOMAIN tokens' : tokens'[i] = tokens[i]
  BY DEF TokenDeregister, Closed
<1> QED BY <1>1 DEF TokensAreSound, OneMintPerIndex

-----------------------------------------------------------------------------
\* Fast listings

\* Time alone disturbs no ration.
LEMMA RationsStay ==
  ASSUME RationsHold, UNCHANGED <<fastListing, fastListed>>, lsNow' \in Nat, lsNow' >= lsNow
  PROVE  RationsHold'
<1>1. \A w \in Int : ListedInWeek(w)' = ListedInWeek(w)
  BY DEF ListedInWeek
<1>2. /\ fastListing.start \in Nat /\ WeekOf(fastListing.start) \in Int
  BY ListingAssumption, DivBounds DEF RationsHold, WeekOf
<1>3. fastListing.start <= lsNow'
  BY <1>2 DEF RationsHold
<1> QED BY <1>1, <1>2, <1>3 DEF RationsHold, WeekOf, ListedInWeek

\* The interval that a fast listing is counted in is the week of now, and counts all
\* listings of that week.
LEMMA IntervalIsTheWeek ==
  ASSUME RationsHold
  PROVE  /\ FastListingInterval \in [start: Nat, count: 0 .. AllowedFastListings]
         /\ FastListingInterval.start = WeekOf(lsNow) * FastListingWeek
         /\ WeekOf(FastListingInterval.start) = WeekOf(lsNow)
         /\ FastListingInterval.start <= lsNow
         /\ Cardinality(ListedInWeek(WeekOf(lsNow))) <= FastListingInterval.count
         /\ \A m \in DOMAIN fastListed : WeekOf(fastListed[m]) <= WeekOf(lsNow)
<1> DEFINE week == FastListingWeek
           start == fastListing.start
           s == WeekOf(start)
           w == WeekOf(lsNow)
<1>1. week \in Nat \ {0} /\ AllowedFastListings \in Nat
  BY ListingAssumption
<1>2. lsNow \in Nat /\ start \in Nat /\ start = s * week /\ start <= lsNow
  BY DEF RationsHold
<1>3. s \in Int /\ w \in Int /\ w * week <= lsNow /\ lsNow < w * week + week
  BY <1>1, <1>2, DivBounds DEF WeekOf
<1>4. w >= 0 /\ w * week \in Nat
  <2>1. 0 \div week = 0
    <3>1. 0 * week = 0
      BY <1>1
    <3> QED BY <1>1, <3>1, DivOfMultiple
  <2>2. w >= 0
    BY <1>1, <1>2, <2>1, DivMonotone DEF WeekOf
  <2> HIDE DEF w, week
  <2> QED BY <1>1, <1>3, <2>2, TimesMonotone
<1>5. WeekOf(w * week) = w
  <2> HIDE DEF w
  <2> QED BY <1>1, <1>3, DivOfMultiple DEF WeekOf
<1>6. CASE lsNow >= start + week
  <2>1. FastListingInterval = [start |-> w * week, count |-> 0]
    BY <1>6 DEF FastListingInterval, WeekOf
  <2>2. s < w
    <3>1. (s + 1) * week = s * week + week
      BY <1>1, <1>3
    <3>2. (s + 1) * week <= lsNow
      BY <1>2, <1>6, <3>1
    <3>3. ((s + 1) * week) \div week = s + 1
      <4> HIDE DEF s, week
      <4> QED BY <1>1, <1>3, DivOfMultiple
    <3>4. s + 1 <= w
      <4>1. (s + 1) * week \in Int
        BY <1>1, <1>3
      <4> QED BY <1>1, <1>2, <3>2, <3>3, <4>1, DivMonotone DEF WeekOf
    <3> HIDE DEF s, w
    <3> QED BY <1>3, <3>4
  <2>3. \A m \in DOMAIN fastListed : WeekOf(fastListed[m]) <= s /\ WeekOf(fastListed[m]) \in Int
    <3>1. \A m \in DOMAIN fastListed : fastListed[m] \in Nat
      BY LenProperties DEF RationsHold
    <3> QED BY <1>1, <3>1, DivBounds DEF RationsHold, WeekOf
  <2>4. \A m \in DOMAIN fastListed : WeekOf(fastListed[m]) < w
    <3> HIDE DEF s, w
    <3> QED BY <1>3, <2>2, <2>3
  <2>5. ListedInWeek(w) = {}
    <3> SUFFICES ASSUME NEW m \in DOMAIN fastListed PROVE fastListed[m] \div FastListingWeek # w
      BY Zenon DEF ListedInWeek
    <3>1. WeekOf(fastListed[m]) < w
      BY <2>4
    <3>2. WeekOf(fastListed[m]) # w
      <4> HIDE DEF w
      <4> QED BY <1>3, <2>3, <3>1
    <3> QED BY <3>2, Zenon DEF WeekOf
  <2>6. Cardinality(ListedInWeek(w)) = 0
    BY <2>5, FS_EmptySet
  <2> HIDE DEF w
  <2>7. \A m \in DOMAIN fastListed : WeekOf(fastListed[m]) <= w
    BY <1>3, <2>3, <2>4
  <2>8. /\ FastListingInterval.start = w * week /\ FastListingInterval.count = 0
        /\ FastListingInterval \in [start: Nat, count: 0 .. AllowedFastListings]
    BY <1>1, <1>4, <2>1
  <2> QED BY <1>3, <1>5, <2>6, <2>7, <2>8 DEF w
<1>7. CASE lsNow < start + week
  <2>1. FastListingInterval = fastListing
    BY <1>1, <1>2, <1>7 DEF FastListingInterval
  <2>2. w = s
    <3>1. s * week <= lsNow /\ lsNow < s * week + week
      BY <1>2, <1>7
    <3> HIDE DEF s, week
    <3> QED BY <1>1, <1>2, <1>3, <3>1, DivUnique DEF WeekOf, week
  <2>3. /\ Cardinality(ListedInWeek(s)) <= fastListing.count
        /\ \A m \in DOMAIN fastListed : WeekOf(fastListed[m]) <= s
        /\ fastListing \in [start: Nat, count: 0 .. AllowedFastListings]
    BY DEF RationsHold
  <2> QED BY <1>2, <2>1, <2>2, <2>3
<1> QED BY <1>1, <1>2, <1>6, <1>7

LEMMA ListedInWeekIsFinite ==
  ASSUME fastListed \in Seq(Nat), NEW w
  PROVE  IsFiniteSet(ListedInWeek(w)) /\ Cardinality(ListedInWeek(w)) \in Nat
<1>1. Len(fastListed) \in Nat /\ DOMAIN fastListed = 1 .. Len(fastListed)
  BY LenProperties
<1>2. IsFiniteSet(DOMAIN fastListed)
  BY <1>1, FS_Interval
<1>3. ListedInWeek(w) \in SUBSET DOMAIN fastListed
  BY DEF ListedInWeek
<1> QED BY <1>2, <1>3, FS_Subset, FS_CardinalityType

\* One more fast listing is one more of this week and of no other.
LEMMA FastListingKeepsRations ==
  ASSUME RationsHold, NEW k, NEW index, NEW mint, TokenRegisterTrustless(k, index, mint),
         UNCHANGED lsNow
  PROVE  RationsHold'
<1> DEFINE interval == FastListingInterval
           w == WeekOf(lsNow)
           n == Len(fastListed) + 1
           After(v) == {m \in DOMAIN fastListed' : fastListed'[m] \div FastListingWeek = v}
<1>1. /\ FastListingAllowed(interval)
      /\ fastListing' = [interval EXCEPT !.count = @ + 1]
      /\ fastListed' = Append(fastListed, lsNow)
  BY DEF TokenRegisterTrustless
<1>2. /\ interval \in [start: Nat, count: 0 .. AllowedFastListings]
      /\ interval.start = w * FastListingWeek /\ WeekOf(interval.start) = w
      /\ interval.start <= lsNow
      /\ Cardinality(ListedInWeek(w)) <= interval.count
      /\ \A m \in DOMAIN fastListed : WeekOf(fastListed[m]) <= w
  BY IntervalIsTheWeek
<1>3. /\ fastListed \in Seq(Nat) /\ lsNow \in Nat
      /\ \A v \in Int : Cardinality(ListedInWeek(v)) <= AllowedFastListings
  BY DEF RationsHold
<1>4. AllowedFastListings \in Nat /\ FastListingWeek \in Nat \ {0} /\ w \in Int
  BY <1>3, ListingAssumption, DivBounds DEF WeekOf
<1> HIDE DEF interval
<1>5. /\ interval.count + 1 <= AllowedFastListings /\ interval.count \in Nat
      /\ fastListing' \in [start: Nat, count: 0 .. AllowedFastListings]
      /\ fastListing'.start = interval.start /\ fastListing'.count = interval.count + 1
  BY <1>1, <1>2, <1>4 DEF FastListingAllowed
<1>6. /\ Len(fastListed) \in Nat /\ DOMAIN fastListed = 1 .. Len(fastListed)
      /\ fastListed' \in Seq(Nat) /\ Len(fastListed') = n
      /\ \A m \in 1 .. Len(fastListed) : fastListed'[m] = fastListed[m]
      /\ fastListed'[n] = lsNow
  BY <1>1, <1>3, LenProperties, AppendProperties
<1>7. DOMAIN fastListed' = DOMAIN fastListed \cup {n} /\ n \notin DOMAIN fastListed
  <2>1. DOMAIN fastListed' = 1 .. n
    BY <1>6, LenProperties
  <2> QED BY <1>6, <2>1
<1>8. After(w) = ListedInWeek(w) \cup {n} /\ n \notin ListedInWeek(w)
  BY <1>6, <1>7 DEF ListedInWeek, WeekOf
<1>9. \A v \in Int : v # w => After(v) = ListedInWeek(v)
  BY <1>6, <1>7 DEF ListedInWeek, WeekOf
<1>10. Cardinality(After(w)) <= interval.count + 1
  <2>1. IsFiniteSet(ListedInWeek(w)) /\ Cardinality(ListedInWeek(w)) \in Nat
    BY <1>3, ListedInWeekIsFinite
  <2>2. Cardinality(ListedInWeek(w) \cup {n}) = Cardinality(ListedInWeek(w)) + 1
    BY <1>8, <2>1, FS_AddElement
  <2>3. Cardinality(After(w)) = Cardinality(ListedInWeek(w)) + 1
    BY <1>8, <2>2, Zenon
  <2> HIDE DEF After
  <2> QED BY <1>2, <1>5, <2>1, <2>3
<1>11. Cardinality(After(w)) <= AllowedFastListings
  <2>1. Cardinality(After(w)) \in Nat
    <3>1. IsFiniteSet(ListedInWeek(w))
      BY <1>3, ListedInWeekIsFinite
    <3> QED BY <1>8, <3>1, FS_AddElement, FS_CardinalityType
  <2> QED BY <1>4, <1>5, <1>10, <2>1
<1>12. \A v \in Int : Cardinality(After(v)) <= AllowedFastListings
  <2> SUFFICES ASSUME NEW v \in Int PROVE Cardinality(After(v)) <= AllowedFastListings
    OBVIOUS
  <2>1. CASE v = w
    BY <1>11, <2>1
  <2>2. CASE v # w
    BY <1>3, <1>9, <2>2
  <2> QED BY <2>1, <2>2
<1>13. \A m \in DOMAIN fastListed' : WeekOf(fastListed'[m]) <= w
  BY <1>2, <1>4, <1>6, <1>7
<1>14. WeekOf(fastListing'.start) = w /\ fastListing'.start <= lsNow'
       /\ fastListing'.start = w * FastListingWeek
  BY <1>2, <1>5
<1>16. /\ \A v \in Int : Cardinality({m \in DOMAIN fastListed' : fastListed'[m] \div FastListingWeek = v})
                           <= AllowedFastListings
       /\ Cardinality({m \in DOMAIN fastListed' :
                          fastListed'[m] \div FastListingWeek = fastListing'.start \div FastListingWeek})
            <= fastListing'.count
  <2>1. fastListing'.start \div FastListingWeek = w
    BY <1>14 DEF WeekOf
  <2> QED BY <1>5, <1>10, <1>12, <2>1
<1>17. /\ \A m \in DOMAIN fastListed' : fastListed'[m] \div FastListingWeek
                                         <= fastListing'.start \div FastListingWeek
       /\ fastListing'.start = (fastListing'.start \div FastListingWeek) * FastListingWeek
  BY <1>13, <1>14 DEF WeekOf
<1>18. lsNow' \in Nat /\ fastListed' \in Seq(Nat) /\ fastListing'.start <= lsNow'
       /\ fastListing' \in [start: Nat, count: 0 .. AllowedFastListings]
  BY <1>3, <1>5, <1>6, <1>14
<1> QED BY <1>16, <1>17, <1>18, Zenon DEF RationsHold, WeekOf, ListedInWeek

-----------------------------------------------------------------------------
\* Edits of markets keep their types, and what the security admin may edit is only
\* made stricter (serum3_edit_market, perp_edit_market).

LEMMA SpotEditsAreSound ==
  ASSUME NEW m \in SpotMarketType,
         NEW e \in MarketEdits(m) \cup {<<[m EXCEPT !.band = band], TRUE>> : band \in {"wide", "narrow"}}
  PROVE  e[1] \in SpotMarketType /\ (~e[2] => e[1].reduce_only)
<1>1. CASE \E on \in BOOLEAN : e = <<[m EXCEPT !.reduce_only = on], ~on>>
  <2>1. PICK on \in BOOLEAN : e = <<[m EXCEPT !.reduce_only = on], ~on>>
    BY <1>1
  <2>2. e[1] = [m EXCEPT !.reduce_only = on] /\ e[2] = ~on
    BY <2>1, Zenon
  <2>3. e[1] \in SpotMarketType /\ e[1].reduce_only = on
    BY <2>2 DEF SpotMarketType
  <2> QED BY <2>2, <2>3, Zenon
<1>2. CASE \E on \in BOOLEAN : e = <<[m EXCEPT !.force_close = on], TRUE>>
  <2>1. PICK on \in BOOLEAN : e = <<[m EXCEPT !.force_close = on], TRUE>>
    BY <1>2
  <2>2. e[1] = [m EXCEPT !.force_close = on] /\ e[2]
    BY <2>1
  <2> QED BY <2>2 DEF SpotMarketType
<1>3. CASE \E band \in {"wide", "narrow"} : e = <<[m EXCEPT !.band = band], TRUE>>
  <2>1. PICK band \in {"wide", "narrow"} : e = <<[m EXCEPT !.band = band], TRUE>>
    BY <1>3
  <2>2. e[1] = [m EXCEPT !.band = band] /\ e[2]
    BY <2>1
  <2> QED BY <2>2 DEF SpotMarketType
<1> QED BY <1>1, <1>2, <1>3, Zenon DEF MarketEdits

LEMMA PerpEditsAreSound ==
  ASSUME NEW m \in PerpMarketType, NEW e \in PerpEdits(m)
  PROVE  /\ e[1] \in PerpMarketType
         /\ ~e[2] => /\ m.reduce_only => e[1].reduce_only
                     /\ e[1].init_overall_asset_weight <= m.init_overall_asset_weight
<1>1. CASE \E on \in BOOLEAN : e = <<[m EXCEPT !.reduce_only = on], ~on>>
  <2>1. PICK on \in BOOLEAN : e = <<[m EXCEPT !.reduce_only = on], ~on>>
    BY <1>1
  <2>2. e[1] = [m EXCEPT !.reduce_only = on] /\ e[2] = ~on
    BY <2>1, Zenon
  <2>3. /\ e[1] \in PerpMarketType /\ e[1].reduce_only = on
        /\ e[1].init_overall_asset_weight <= m.init_overall_asset_weight
    BY <2>2 DEF PerpMarketType
  <2> QED BY <2>2, <2>3, Zenon
<1>2. CASE \E on \in BOOLEAN : e = <<[m EXCEPT !.force_close = on], TRUE>>
  <2>1. PICK on \in BOOLEAN : e = <<[m EXCEPT !.force_close = on], TRUE>>
    BY <1>2
  <2>2. e[1] = [m EXCEPT !.force_close = on] /\ e[2]
    BY <2>1
  <2> QED BY <2>2 DEF PerpMarketType
<1>3. CASE e = <<m, TRUE>>
  BY <1>3
<1>4. CASE \E w \in 0 .. 1 : e = <<[m EXCEPT !.init_overall_asset_weight = w], w # 0>>
  <2>1. PICK w \in 0 .. 1 : e = <<[m EXCEPT !.init_overall_asset_weight = w], w # 0>>
    BY <1>4
  <2>2. e[1] = [m EXCEPT !.init_overall_asset_weight = w] /\ e[2] = (w # 0)
    BY <2>1, Zenon
  <2>3. /\ e[1] \in PerpMarketType /\ e[1].reduce_only = m.reduce_only
        /\ w = 0 => e[1].init_overall_asset_weight <= m.init_overall_asset_weight
    BY <2>2 DEF PerpMarketType
  <2> QED BY <2>2, <2>3, Zenon
<1> QED BY <1>1, <1>2, <1>3, <1>4, Zenon DEF PerpEdits, PerpParameterEdits, MarketEdits

LEMMA Serum3RegisterMarketKeepsTypes ==
  ASSUME MarketsAreTyped, NEW k, NEW market, NEW base \in TokenIndexes, NEW quote \in TokenIndexes,
         NEW band \in {"wide", "narrow"}, Serum3RegisterMarket(k, market, base, quote, band)
  PROVE  MarketsAreTyped'
<1> DEFINE m == [base |-> base, quote |-> quote, band |-> band,
                 reduce_only |-> FALSE, force_close |-> FALSE]
<1>1. m \in SpotMarketType
  BY DEF SpotMarketType
<1>2. spotMarkets' = Created(spotMarkets, market, m) /\ perpMarkets' = perpMarkets
  BY Zenon DEF Serum3RegisterMarket
<1> HIDE DEF m
<1> QED BY <1>1, <1>2 DEF MarketsAreTyped, Created

LEMMA MarketStepsKeepTypes ==
  ASSUME MarketsAreTyped, NEW k, NEW market,
         \/ Serum3EditMarket(k, market)
         \/ Serum3DeregisterMarket(k, market)
         \/ PerpCreateMarket(k, market)
         \/ PerpEditMarket(k, market)
         \/ PerpCloseMarket(k, market)
  PROVE  MarketsAreTyped'
<1>2. CASE Serum3EditMarket(k, market)
  <2>1. market \in DOMAIN spotMarkets /\ spotMarkets[market] \in SpotMarketType
    BY <1>2 DEF Serum3EditMarket, MarketsAreTyped
  <2>2. PICK c \in SpotMarketType : spotMarkets' = [spotMarkets EXCEPT ![market] = c]
    BY <1>2, <2>1, SpotEditsAreSound, Zenon DEF Serum3EditMarket
  <2>3. perpMarkets' = perpMarkets
    BY <1>2 DEF Serum3EditMarket
  <2> QED BY <2>1, <2>2, <2>3 DEF MarketsAreTyped
<1>3. CASE Serum3DeregisterMarket(k, market)
  BY <1>3 DEF Serum3DeregisterMarket, MarketsAreTyped, Closed
<1>4. CASE PerpCreateMarket(k, market)
  <2> DEFINE m == [reduce_only |-> FALSE, force_close |-> FALSE, init_overall_asset_weight |-> 1]
  <2>1. m \in PerpMarketType
    BY DEF PerpMarketType
  <2>2. perpMarkets' = Created(perpMarkets, market, m) /\ spotMarkets' = spotMarkets
    BY <1>4, Zenon DEF PerpCreateMarket
  <2> HIDE DEF m
  <2> QED BY <2>1, <2>2 DEF MarketsAreTyped, Created
<1>5. CASE PerpEditMarket(k, market)
  <2>1. market \in DOMAIN perpMarkets /\ perpMarkets[market] \in PerpMarketType
    BY <1>5 DEF PerpEditMarket, MarketsAreTyped
  <2>2. PICK c \in PerpMarketType : perpMarkets' = [perpMarkets EXCEPT ![market] = c]
    BY <1>5, <2>1, PerpEditsAreSound, Zenon DEF PerpEditMarket
  <2>3. spotMarkets' = spotMarkets
    BY <1>5 DEF PerpEditMarket
  <2> QED BY <2>1, <2>2, <2>3 DEF MarketsAreTyped
<1>6. CASE PerpCloseMarket(k, market)
  BY <1>6 DEF PerpCloseMarket, MarketsAreTyped, Closed
<1> QED BY <1>2, <1>3, <1>4, <1>5, <1>6

-----------------------------------------------------------------------------
\* The invariant holds at the start and every step keeps it.

LEMMA ListingStarts == LsInit => ListingInv
<1> SUFFICES ASSUME LsInit PROVE ListingInv
  OBVIOUS
<1>1. FastListingWeek \in Nat \ {0} /\ AllowedFastListings \in Nat
  BY ListingAssumption
<1>2. DOMAIN tokens = {} /\ DOMAIN spotMarkets = {} /\ DOMAIN perpMarkets = {}
  BY DEF LsInit, NoAccounts
<1>3. TokensAreSound /\ MarketsAreTyped
  BY <1>2 DEF TokensAreSound, OneMintPerIndex, MarketsAreTyped
<1>4. lsSigner \in LsKeys
  BY DEF LsInit, LsKeys
<1>5. RationsHold
  <2>1. /\ fastListing.start = 0 /\ fastListing.count = 0
        /\ fastListing \in [start: Nat, count: 0 .. AllowedFastListings]
    BY <1>1 DEF LsInit
  <2>2. fastListed \in Seq(Nat) /\ DOMAIN fastListed = {}
    BY DEF LsInit
  <2>3. \A w : ListedInWeek(w) = {}
    BY <2>2 DEF ListedInWeek
  <2>4. \A w : Cardinality(ListedInWeek(w)) = 0
    BY <2>3, FS_EmptySet, Zenon
  <2>5. WeekOf(0) = 0 /\ 0 * FastListingWeek = 0
    <3>1. 0 * FastListingWeek = 0
      BY <1>1
    <3> QED BY <1>1, <3>1, DivOfMultiple DEF WeekOf
  <2>6. lsNow \in Nat /\ 0 <= lsNow
    BY <1>1 DEF LsInit
  <2> QED BY <1>1, <2>1, <2>2, <2>4, <2>5, <2>6 DEF RationsHold
<1> QED BY <1>3, <1>4, <1>5 DEF ListingInv

LEMMA ListingSteps == ListingInv /\ [LsNext]_lsVars => ListingInv'
<1> SUFFICES ASSUME ListingInv, [LsNext]_lsVars PROVE ListingInv'
  OBVIOUS
<1> USE DEF ListingInv
<1>1. lsNow \in Nat
  BY DEF RationsHold
<1>2. ASSUME UNCHANGED <<fastListing, fastListed>>, lsNow' = lsNow \/ lsNow' = lsNow + 1
      PROVE  RationsHold'
  BY <1>1, <1>2, RationsStay
<1>3. ASSUME UNCHANGED tokens PROVE TokensAreSound'
  BY <1>3 DEF TokensAreSound, OneMintPerIndex
<1>4. ASSUME UNCHANGED <<spotMarkets, perpMarkets>> PROVE MarketsAreTyped'
  BY <1>4 DEF MarketsAreTyped
<1>5. CASE UNCHANGED lsVars
  BY <1>2, <1>3, <1>4, <1>5 DEF lsVars
<1>6. CASE LsTick
  BY <1>2, <1>3, <1>4, <1>6 DEF LsTick
<1>7. ASSUME NEW k \in LsKeys, Administer(k) PROVE ListingInv'
  <2> USE <1>7
  <2>1. lsSigner' \in LsKeys /\ lsNow' = lsNow
    BY DEF Administer
  <2>2. ASSUME NEW index \in TokenIndexes, TokenEdit(k, index) PROVE ListingInv'
    BY <1>1, <1>2, <1>4, <2>1, <2>2, TokenEditKeepsTokens DEF TokenEdit
  <2>3. ASSUME NEW index \in TokenIndexes, TokenAddBank(k, index) PROVE ListingInv'
    BY <1>2, <1>4, <2>1, <2>3, TokenAddBankKeepsTokens DEF TokenAddBank
  <2>4. ASSUME NEW index \in TokenIndexes, TokenDeregister(k, index) PROVE ListingInv'
    BY <1>2, <1>4, <2>1, <2>4, TokenDeregisterKeepsTokens DEF TokenDeregister
  <2>5. ASSUME NEW index \in TokenIndexes, NEW mint \in Mints, TokenRegister(k, index, mint)
        PROVE  ListingInv'
    BY <1>2, <1>4, <2>1, <2>5, RegisterKeepsTokens DEF TokenRegister
  <2>6. ASSUME NEW index \in TokenIndexes, NEW mint \in Mints, TokenRegisterTrustless(k, index, mint)
        PROVE  ListingInv'
    <3>1. UNCHANGED <<spotMarkets, perpMarkets>>
      BY <2>6 DEF TokenRegisterTrustless
    <3> QED BY <1>4, <2>1, <2>6, <3>1, RegisterKeepsTokens, FastListingKeepsRations
  <2>7. ASSUME NEW market \in MarketIndexes, NEW base \in TokenIndexes, NEW quote \in TokenIndexes,
               NEW band \in {"wide", "narrow"}, Serum3RegisterMarket(k, market, base, quote, band)
        PROVE  ListingInv'
    <3>1. UNCHANGED <<tokens, fastListing, fastListed>>
      BY <2>7 DEF Serum3RegisterMarket
    <3> QED BY <1>2, <1>3, <2>1, <2>7, <3>1, Serum3RegisterMarketKeepsTypes
  <2>8. ASSUME NEW market \in MarketIndexes,
               \/ Serum3EditMarket(k, market) \/ Serum3DeregisterMarket(k, market)
               \/ PerpCreateMarket(k, market) \/ PerpEditMarket(k, market)
               \/ PerpCloseMarket(k, market)
        PROVE  ListingInv'
    <3>1. UNCHANGED <<tokens, fastListing, fastListed>>
      BY <2>8 DEF Serum3EditMarket, Serum3DeregisterMarket, PerpCreateMarket, PerpEditMarket,
                  PerpCloseMarket
    <3>2. MarketsAreTyped'
      BY <2>8, MarketStepsKeepTypes
    <3> QED BY <1>2, <1>3, <2>1, <3>1, <3>2
  <2> QED BY <2>2, <2>3, <2>4, <2>5, <2>6, <2>7, <2>8, Zenon DEF Administer
<1> QED BY <1>5, <1>6, <1>7 DEF LsNext

LEMMA ListingInvHolds == LsSpec => []ListingInv
BY ListingStarts, ListingSteps, PTL DEF LsSpec

\* What a sound token promises of each of its banks at any time.
BankIsSafe(t, b, now) ==
  /\ Alike(b, t.banks[1]) /\ b.oracle = t.oracle
  /\ b.init_asset_weight <= b.maint_asset_weight
  /\ b.disable_asset_liquidation =>
       /\ b.reduce_only # 0 /\ b.init_asset_weight = 0
       /\ b.shift_end <= b.shift_start => MaintAssetWeight(b, now) = 0
  /\ b.force_withdraw => b.reduce_only = 1 /\ b.disable_asset_liquidation
  /\ t.trustless =>
       b.reduce_only # 0 /\ MaintAssetWeight(b, now) = 0 /\ b.init_asset_weight = 0

LEMMA SoundTokensAreSafe ==
  ASSUME NEW t, TokenIsSound(t), NEW now \in Nat
  PROVE  \A n \in DOMAIN t.banks : BankIsSafe(t, t.banks[n], now)
<1> TAKE n \in DOMAIN t.banks
<1> DEFINE b == t.banks[n]
           first == t.banks[1]
<1>1. b \in BankSettings /\ first \in BankSettings /\ Alike(b, first)
  <2>1. t.banks \in Seq(BankSettings)
    BY DEF TokenIsSound, TokenType
  <2>2. DOMAIN t.banks = 1 .. Len(t.banks) /\ b \in BankSettings
    BY <2>1, LenProperties, ElementOfSeq
  <2> QED BY <2>2 DEF TokenIsSound, BankIsSound
<1>2. /\ BankIsSound(first) /\ first.oracle = t.oracle
      /\ t.trustless => BankIsHarmless(first)
  BY Zenon DEF TokenIsSound
<1> HIDE DEF b, first
<1>3. SameFields(b, first)
  BY <1>1, AlikeIsSameFields
<1>4. Verify(b) /\ b.oracle = t.oracle
  BY <1>2, <1>3 DEF BankIsSound, Verify, SameFields, LsAreBorrowsReduceOnly, LsAreDepositsReduceOnly
<1>5. BankIsHarmless(first) => BankIsHarmless(b)
  BY <1>3 DEF BankIsHarmless, SameFields
<1>6. /\ b.init_asset_weight \in Int /\ b.maint_asset_weight \in Int
      /\ b.init_asset_weight >= 0 /\ b.init_asset_weight <= b.maint_asset_weight
      /\ b.disable_asset_liquidation => b.reduce_only # 0 /\ b.maint_asset_weight = 0
      /\ b.force_withdraw => b.reduce_only = 1 /\ b.disable_asset_liquidation
  BY <1>1, <1>4, ListingAssumption DEF Verify, BankSettings, LsAreBorrowsReduceOnly,
                                       LsAreDepositsReduceOnly
<1>7. b.disable_asset_liquidation => b.init_asset_weight = 0
  BY <1>6
<1>8. b.maint_asset_weight = 0 /\ b.shift_end <= b.shift_start => MaintAssetWeight(b, now) = 0
  BY DEF MaintAssetWeight
<1>9. BankIsHarmless(b) => b.reduce_only # 0 /\ MaintAssetWeight(b, now) = 0 /\ b.init_asset_weight = 0
  BY DEF BankIsHarmless, MaintAssetWeight
<1>10. BankIsSafe(t, b, now)
  BY <1>1, <1>2, <1>4, <1>5, <1>6, <1>7, <1>8, <1>9, Zenon DEF BankIsSafe, first
<1> QED BY <1>10 DEF b

LEMMA ListingInvIsSafe == ListingInv => ListingsAreSafe
<1> SUFFICES ASSUME ListingInv PROVE ListingsAreSafe
  OBVIOUS
<1>1. TokensAreSound /\ RationsHold /\ lsSigner \in LsKeys /\ lsNow \in Nat
  BY DEF ListingInv, RationsHold
<1>2. \A i \in DOMAIN tokens : TokenIsSound(tokens[i])
  BY <1>1 DEF TokensAreSound
<1>3. LsTypeOK
  <2>1. fastListing.count \in 0 .. AllowedFastListings
    BY <1>1 DEF RationsHold
  <2>2. \A i \in DOMAIN tokens :
          /\ tokens[i].mint \in Mints /\ tokens[i].trustless \in BOOLEAN
          /\ tokens[i].banks \in Seq(BankSettings) /\ Len(tokens[i].banks) \in 1 .. LsMaxBanks
    BY <1>2, Zenon DEF TokenIsSound, TokenType
  <2> QED BY <1>1, <2>1, <2>2 DEF LsTypeOK
<1>4. EveryBankVerifies /\ BanksShareSettings /\ FastListedTokensStayHarmless
  <2>1. \A i \in DOMAIN tokens : \A n \in DOMAIN tokens[i].banks :
          BankIsSafe(tokens[i], tokens[i].banks[n], lsNow)
    BY <1>1, <1>2, SoundTokensAreSafe, Zenon
  <2>2. \A i \in DOMAIN tokens : tokens[i].banks[1].fallback_oracle = tokens[i].fallback_oracle
    BY <1>2, Zenon DEF TokenIsSound
  <2> QED BY <2>1, <2>2, Zenon DEF EveryBankVerifies, BanksShareSettings, FastListedTokensStayHarmless,
                                   BankIsSafe
<1>5. OneMintPerIndex
  BY <1>1 DEF TokensAreSound
<1>6. FastListingsAreRationed
  <2> SUFFICES ASSUME NEW n \in DOMAIN fastListed
               PROVE  Cardinality(ListedInWeek(fastListed[n] \div FastListingWeek))
                        <= AllowedFastListings
    BY DEF FastListingsAreRationed, ListedInWeek
  <2>1. fastListed[n] \in Nat
    BY <1>1, LenProperties DEF RationsHold
  <2>2. fastListed[n] \div FastListingWeek \in Int
    BY <2>1, ListingAssumption, DivBounds
  <2> QED BY <1>1, <2>2 DEF RationsHold
<1> QED BY <1>3, <1>4, <1>5, <1>6 DEF ListingsAreSafe

\* Whoever registers, edits, extends and deregisters tokens and markets, in whatever
\* order and at whatever times, and however many there are: the settings of every bank
\* go together (Bank::verify, which token_edit calls for the first bank only), the
\* banks of a token differ in the fallback oracle alone (Bank::from_existing_bank), an
\* index names one mint, no calendar week has more fast listings than allowed, and a
\* token listed by token_register_trustless has no weight and cannot be borrowed until
\* the group admin edits it.
THEOREM ListingsAreSafeTheorem == LsSpec => []ListingsAreSafe
BY ListingInvHolds, ListingInvIsSafe, PTL

-----------------------------------------------------------------------------
(***************************************************************************)
(* Powers.  A step of the security admin makes each first bank stricter    *)
(* and keeps its weight; a second changes weights by no more than their    *)
(* share of a shift.                                                       *)
(***************************************************************************)

BanksGetStricter == \A i \in DOMAIN tokens : Stricter(tokens[i].banks[1], tokens'[i].banks[1])

SpotMarketsGetStricter ==
  \A m \in DOMAIN spotMarkets : spotMarkets[m].reduce_only => spotMarkets'[m].reduce_only

PerpMarketsGetStricter ==
  \A m \in DOMAIN perpMarkets :
    /\ perpMarkets[m].reduce_only => perpMarkets'[m].reduce_only
    /\ perpMarkets'[m].init_overall_asset_weight <= perpMarkets[m].init_overall_asset_weight

LEMMA FirstBanks ==
  ASSUME ListingInv, NEW i \in DOMAIN tokens
  PROVE  /\ tokens[i].banks[1] \in BankSettings /\ ShiftIsWhole(tokens[i].banks[1])
         /\ Stricter(tokens[i].banks[1], tokens[i].banks[1])
<1> DEFINE b == tokens[i].banks[1]
<1>1. b \in BankSettings /\ ShiftIsWhole(b)
  BY DEF ListingInv, TokensAreSound, TokenIsSound, BankIsSound
<1> HIDE DEF b
<1>2. Strictness(b.reduce_only) \in Int /\ b.init_asset_weight \in Int
  BY <1>1, ListingAssumption DEF Strictness, BankSettings
<1>3. Stricter(b, b)
  BY <1>2 DEF Stricter
<1> QED BY <1>1, <1>3 DEF b

LEMMA SecurityAdminsEdit ==
  ASSUME ListingInv, NEW index, TokenEdit(SecurityAdmin, index)
  PROVE  BanksGetStricter
<1> DEFINE old == tokens[index]
<1>1. index \in DOMAIN tokens
  BY DEF TokenEdit, Listed
<1>2. old.banks[1] \in BankSettings /\ lsNow \in Nat
  BY <1>1, FirstBanks DEF ListingInv, RationsHold
<1>3. PICK o \in TokenOptions :
        /\ MayEdit(SecurityAdmin, \E n \in DOMAIN old.banks : RequireGroupAdmin(o, old.banks[n]))
        /\ tokens' = [tokens EXCEPT ![index] = EditedToken(o, old)]
  BY Zenon DEF TokenEdit
<1>4. 1 \in DOMAIN old.banks
  <2>1. old.banks \in Seq(BankSettings) /\ Len(old.banks) \in 1 .. LsMaxBanks
    BY <1>1 DEF ListingInv, TokensAreSound, TokenIsSound, TokenType
  <2>2. DOMAIN old.banks = 1 .. Len(old.banks)
    BY <2>1, LenProperties
  <2>3. \A n \in 1 .. LsMaxBanks : 1 \in 1 .. n
    BY ListingAssumption
  <2> QED BY <2>1, <2>2, <2>3, Zenon
<1>5. ~RequireGroupAdmin(o, old.banks[1])
  <2>1. SecurityAdmin # GroupAdmin
    BY ListingAssumption
  <2> QED BY <1>3, <1>4, <2>1, Zenon DEF MayEdit
<1>6. Stricter(old.banks[1], EditedBank(o, old.banks[1]))
  BY <1>2, <1>5, LenientEditsRestrict
<1>7. tokens'[index].banks[1] = EditedBank(o, old.banks[1])
  <2>1. tokens'[index] = EditedToken(o, old)
    BY <1>1, <1>3, Zenon
  <2>2. EditedToken(o, old).banks = [n \in DOMAIN old.banks |-> EditedBank(o, old.banks[n])]
    BY Zenon DEF EditedToken
  <2> QED BY <1>4, <2>1, <2>2, Zenon
<1>8. \A i \in DOMAIN tokens : i # index => tokens'[i] = tokens[i]
  BY <1>1, <1>3, Zenon
<1> SUFFICES ASSUME NEW i \in DOMAIN tokens
             PROVE  Stricter(tokens[i].banks[1], tokens'[i].banks[1])
  BY DEF BanksGetStricter
<1>9. CASE i = index
  BY <1>6, <1>7, <1>9, Zenon
<1>10. CASE i # index
  BY <1>8, <1>10, FirstBanks, Zenon
<1> QED BY <1>9, <1>10

LEMMA SameBanksAreStrict ==
  ASSUME ListingInv, \A i \in DOMAIN tokens : tokens'[i] = tokens[i]
  PROVE  BanksGetStricter
BY FirstBanks, Zenon DEF BanksGetStricter

LEMMA SameMarketsAreStrict ==
  ASSUME ListingInv
  PROVE  /\ (\A m \in DOMAIN spotMarkets : spotMarkets'[m] = spotMarkets[m]) => SpotMarketsGetStricter
         /\ (\A m \in DOMAIN perpMarkets : perpMarkets'[m] = perpMarkets[m]) => PerpMarketsGetStricter
<1>1. \A m \in DOMAIN perpMarkets : perpMarkets[m].init_overall_asset_weight \in Int
  BY DEF ListingInv, MarketsAreTyped, PerpMarketType
<1>2. (\A m \in DOMAIN spotMarkets : spotMarkets'[m] = spotMarkets[m]) => SpotMarketsGetStricter
  BY Zenon DEF SpotMarketsGetStricter
<1>3. (\A m \in DOMAIN perpMarkets : perpMarkets'[m] = perpMarkets[m]) => PerpMarketsGetStricter
  BY <1>1 DEF PerpMarketsGetStricter
<1> QED BY <1>2, <1>3

LEMMA SecurityAdminsMarketEdits ==
  ASSUME ListingInv, NEW market
  PROVE  /\ Serum3EditMarket(SecurityAdmin, market) => SpotMarketsGetStricter
         /\ PerpEditMarket(SecurityAdmin, market) => PerpMarketsGetStricter
<1>1. SecurityAdmin # GroupAdmin
  BY ListingAssumption
<1>2. ASSUME Serum3EditMarket(SecurityAdmin, market) PROVE SpotMarketsGetStricter
  <2>1. market \in DOMAIN spotMarkets /\ spotMarkets[market] \in SpotMarketType
    BY <1>2 DEF Serum3EditMarket, ListingInv, MarketsAreTyped
  <2>2. PICK e \in MarketEdits(spotMarkets[market])
                   \cup {<<[spotMarkets[market] EXCEPT !.band = band], TRUE>> : band \in {"wide", "narrow"}} :
          MayEdit(SecurityAdmin, e[2]) /\ spotMarkets' = [spotMarkets EXCEPT ![market] = e[1]]
    BY <1>2, Zenon DEF Serum3EditMarket
  <2>3. ~e[2]
    BY <1>1, <2>2, Zenon DEF MayEdit
  <2>4. e[1].reduce_only
    BY <2>1, <2>3, SpotEditsAreSound
  <2>5. /\ spotMarkets'[market] = e[1]
        /\ \A m \in DOMAIN spotMarkets : m # market => spotMarkets'[m] = spotMarkets[m]
    BY <2>1, <2>2, Zenon
  <2> QED BY <2>4, <2>5, Zenon DEF SpotMarketsGetStricter
<1>3. ASSUME PerpEditMarket(SecurityAdmin, market) PROVE PerpMarketsGetStricter
  <2>1. market \in DOMAIN perpMarkets /\ perpMarkets[market] \in PerpMarketType
    BY <1>3 DEF PerpEditMarket, ListingInv, MarketsAreTyped
  <2>2. PICK e \in PerpEdits(perpMarkets[market]) :
          MayEdit(SecurityAdmin, e[2]) /\ perpMarkets' = [perpMarkets EXCEPT ![market] = e[1]]
    BY <1>3, Zenon DEF PerpEditMarket
  <2>3. ~e[2]
    BY <1>1, <2>2, Zenon DEF MayEdit
  <2>4. /\ perpMarkets[market].reduce_only => e[1].reduce_only
        /\ e[1].init_overall_asset_weight <= perpMarkets[market].init_overall_asset_weight
    BY <2>1, <2>3, PerpEditsAreSound
  <2>5. /\ perpMarkets'[market] = e[1]
        /\ \A m \in DOMAIN perpMarkets : m # market => perpMarkets'[m] = perpMarkets[m]
    BY <2>1, <2>2, Zenon
  <2>6. \A m \in DOMAIN perpMarkets :
          perpMarkets[m].init_overall_asset_weight <= perpMarkets[m].init_overall_asset_weight
    BY DEF ListingInv, MarketsAreTyped, PerpMarketType
  <2> QED BY <2>4, <2>5, <2>6, Zenon DEF PerpMarketsGetStricter
<1> QED BY <1>2, <1>3

LEMMA SecurityAdminsSteps ==
  ASSUME ListingInv, Administer(SecurityAdmin)
  PROVE  BanksGetStricter /\ SpotMarketsGetStricter /\ PerpMarketsGetStricter
<1>1. SecurityAdmin # GroupAdmin
  BY ListingAssumption
<1>2. ASSUME UNCHANGED <<spotMarkets, perpMarkets>> PROVE SpotMarketsGetStricter /\ PerpMarketsGetStricter
  BY <1>2, SameMarketsAreStrict
<1>3. ASSUME NEW index \in TokenIndexes, TokenEdit(SecurityAdmin, index)
      PROVE  BanksGetStricter /\ SpotMarketsGetStricter /\ PerpMarketsGetStricter
  BY <1>2, <1>3, SecurityAdminsEdit DEF TokenEdit
<1>4. ASSUME NEW index \in TokenIndexes, NEW mint \in Mints,
             TokenRegisterTrustless(SecurityAdmin, index, mint)
      PROVE  BanksGetStricter /\ SpotMarketsGetStricter /\ PerpMarketsGetStricter
  <2>1. \A i \in DOMAIN tokens : tokens'[i] = tokens[i]
    BY <1>4 DEF TokenRegisterTrustless, NewToken, Created, CanRegister, Listed
  <2>2. UNCHANGED <<spotMarkets, perpMarkets>>
    BY <1>4 DEF TokenRegisterTrustless
  <2> QED BY <1>2, <2>1, <2>2, SameBanksAreStrict
<1>5. ASSUME NEW market \in MarketIndexes, NEW base \in TokenIndexes, NEW quote \in TokenIndexes,
             NEW band \in {"wide", "narrow"},
             Serum3RegisterMarket(SecurityAdmin, market, base, quote, band)
      PROVE  BanksGetStricter /\ SpotMarketsGetStricter /\ PerpMarketsGetStricter
  <2>1. \A m \in DOMAIN spotMarkets : spotMarkets'[m] = spotMarkets[m]
    BY <1>5 DEF Serum3RegisterMarket, Created
  <2>2. UNCHANGED <<tokens, perpMarkets>>
    BY <1>5 DEF Serum3RegisterMarket
  <2> QED BY <2>1, <2>2, SameBanksAreStrict, SameMarketsAreStrict
<1>6. ASSUME NEW market \in MarketIndexes, Serum3EditMarket(SecurityAdmin, market)
      PROVE  BanksGetStricter /\ SpotMarketsGetStricter /\ PerpMarketsGetStricter
  <2>1. UNCHANGED <<tokens, perpMarkets>>
    BY <1>6 DEF Serum3EditMarket
  <2> QED BY <1>6, <2>1, SameBanksAreStrict, SameMarketsAreStrict, SecurityAdminsMarketEdits
<1>7. ASSUME NEW market \in MarketIndexes, PerpEditMarket(SecurityAdmin, market)
      PROVE  BanksGetStricter /\ SpotMarketsGetStricter /\ PerpMarketsGetStricter
  <2>1. UNCHANGED <<tokens, spotMarkets>>
    BY <1>7 DEF PerpEditMarket
  <2> QED BY <1>7, <2>1, SameBanksAreStrict, SameMarketsAreStrict, SecurityAdminsMarketEdits
<1>8. /\ \A index, mint : ~TokenRegister(SecurityAdmin, index, mint)
      /\ \A index : ~TokenAddBank(SecurityAdmin, index) /\ ~TokenDeregister(SecurityAdmin, index)
      /\ \A market : /\ ~Serum3DeregisterMarket(SecurityAdmin, market)
                     /\ ~PerpCreateMarket(SecurityAdmin, market)
                     /\ ~PerpCloseMarket(SecurityAdmin, market)
  BY <1>1, Zenon DEF TokenRegister, TokenAddBank, TokenDeregister, Serum3DeregisterMarket,
                     PerpCreateMarket, PerpCloseMarket
<1> QED BY <1>3, <1>4, <1>5, <1>6, <1>7, <1>8, Zenon DEF Administer

LEMMA StepsAreLimited ==
  ASSUME ListingInv, ListingInv', [LsNext]_lsVars
  PROVE  [SecurityAdminOnlyRestricts /\ ShiftsAreGradual]_lsVars
<1> SUFFICES ASSUME LsNext PROVE SecurityAdminOnlyRestricts /\ ShiftsAreGradual
  BY Zenon
<1>1. lsNow \in Nat
  BY DEF ListingInv, RationsHold
<1>2. CASE LsTick
  <2>1. lsNow' = lsNow + 1 /\ tokens' = tokens /\ lsNow' # lsNow
    BY <1>1, <1>2 DEF LsTick
  <2>2. SecurityAdminOnlyRestricts
    BY <2>1, Zenon DEF SecurityAdminOnlyRestricts
  <2>3. ShiftsAreGradual
    <3> SUFFICES ASSUME NEW i \in DOMAIN tokens
                 PROVE  LET b == tokens[i].banks[1]
                            change == MaintAssetWeight(b, lsNow + 1) - MaintAssetWeight(b, lsNow)
                        IN change <= SecondsShare /\ -change <= SecondsShare
      BY <2>1 DEF ShiftsAreGradual, SecondsShare
    <3>1. tokens[i].banks[1] \in BankSettings /\ ShiftIsWhole(tokens[i].banks[1])
      BY FirstBanks
    <3> QED BY <1>1, <3>1, SecondsAreGradual
  <2> QED BY <2>2, <2>3
<1>3. ASSUME NEW k \in LsKeys, Administer(k), k # SecurityAdmin
      PROVE  SecurityAdminOnlyRestricts /\ ShiftsAreGradual
  <2>1. lsSigner' # SecurityAdmin /\ lsNow' = lsNow
    BY <1>3 DEF Administer
  <2> QED BY <2>1, Zenon DEF SecurityAdminOnlyRestricts, ShiftsAreGradual
<1>4. CASE Administer(SecurityAdmin)
  <2>1. BanksGetStricter /\ SpotMarketsGetStricter /\ PerpMarketsGetStricter
    BY <1>4, SecurityAdminsSteps
  <2>2. lsNow' = lsNow
    BY <1>4 DEF Administer
  <2>3. \A i \in DOMAIN tokens :
          /\ MaintAssetWeight(tokens'[i].banks[1], lsNow) = MaintAssetWeight(tokens[i].banks[1], lsNow)
          /\ MaintAssetWeight(tokens[i].banks[1], lsNow) \in Int
    <3> TAKE i \in DOMAIN tokens
    <3>1. MaintAssetWeight(tokens[i].banks[1], lsNow) \in 0 .. FullWeight
      BY <1>1, FirstBanks, WeightsAreWeights
    <3>2. FullWeight \in Nat
      BY ListingAssumption
    <3>3. MaintAssetWeight(tokens[i].banks[1], lsNow) \in Int
      BY <3>1, <3>2
    <3> QED BY <2>1, <3>3, Zenon DEF BanksGetStricter, Stricter
  <2>4. SecurityAdminOnlyRestricts
    <3>1. \A i \in DOMAIN tokens :
            MaintAssetWeight(tokens'[i].banks[1], lsNow) <= MaintAssetWeight(tokens[i].banks[1], lsNow)
      BY <2>3
    <3> QED BY <2>1, <3>1, Zenon DEF SecurityAdminOnlyRestricts, BanksGetStricter, Stricter,
                                     SpotMarketsGetStricter, PerpMarketsGetStricter
  <2>5. ShiftsAreGradual
    BY <2>2, <2>3 DEF ShiftsAreGradual
  <2> QED BY <2>4, <2>5
<1> QED BY <1>2, <1>3, <1>4 DEF LsNext

\* For any number of tokens, banks and markets and any durations: no edit that the
\* security admin signs relaxes a reduce-only mode, raises a weight or sets a flag that
\* moves users' tokens (the require_group_admin of the edit instructions), and neither
\* the passing of a second nor an aborted shift makes a maintenance weight jump.
THEOREM ListingPowersAreLimitedTheorem == LsSpec => ListingPowersAreLimited
<1>1. ListingInv /\ ListingInv' /\ [LsNext]_lsVars
        => [SecurityAdminOnlyRestricts /\ ShiftsAreGradual]_lsVars
  BY StepsAreLimited
<1> QED BY <1>1, ListingInvHolds, PTL DEF LsSpec, ListingPowersAreLimited

=============================================================================
