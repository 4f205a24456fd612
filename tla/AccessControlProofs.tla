------------------------ MODULE AccessControlProofs ------------------------
(***************************************************************************)
(* Proofs about AccessControl, for any set of keys, accounts, gates and    *)
(* times: frozen accounts are left alone, freezes and delegations end, and *)
(* every power over an account, its settings or the group comes from the   *)
(* one who holds it.                                                       *)
(***************************************************************************)
EXTENDS AccessControl, TLAPS

-----------------------------------------------------------------------------
(***************************************************************************)
(* What an accepted entry promises: the signer has power over c.account    *)
(* unless everyone may run it, and the accounts it changes are not frozen. *)
(* One lemma for each group of entry points.                               *)
(***************************************************************************)

Authorised(c) == IsOwnerOrDelegate(c.account, c.signer)

Guarded(c, e) ==
  e[2] => /\ e[1] \in Permissionless \/ Authorised(c)
          /\ \/ e[1] \in FreezeExceptions
             \/ \A a \in e[3] : \/ IsOperational(a)
                                \/ e[1] = "account_buyback_fees_with_mngo" /\ a = c.other

\* Instructions on the account itself: expanding it, checking its sequence number,
\* health regions, buying back fees.
LEMMA AccountEntriesAreGuarded == \A c : \A e \in AccountEntries(c) : Guarded(c, e)
<1> SUFFICES ASSUME NEW c, NEW e \in AccountEntries(c), e[2]
             PROVE  /\ e[1] \in Permissionless \/ Authorised(c)
                    /\ \/ e[1] \in FreezeExceptions
                       \/ \A a \in e[3] : \/ IsOperational(a)
                                          \/ e[1] = "account_buyback_fees_with_mngo" /\ a = c.other
  BY Zenon DEF Guarded
<1> DEFINE Own == IsOperational(c.account) /\ Authorised(c)
<1>1. /\ AccountBuybackFeesWithMngoCtx(c) => Own
      /\ AccountExpandCtx(c) => Own
      /\ SequenceCheckCtx(c) => Own
      /\ HealthRegionBeginCtx(c) => IsOperational(c.account)
      /\ HealthRegionEndCtx(c) => IsOperational(c.account)
  BY DEF AccountBuybackFeesWithMngoCtx, AccountExpandCtx, SequenceCheckCtx, HealthRegionBeginCtx,
         HealthRegionEndCtx, OwnUse, Authorised, IsOwnerOrDelegate
<1>2. \/ e[1] \in Permissionless \cap FreezeExceptions
      \/ e[1] \in Permissionless /\ IsOperational(c.account) /\ e[3] = {c.account}
      \/ Own /\ e[3] = {c.account}
      \/ Own /\ e[1] = "account_buyback_fees_with_mngo" /\ e[3] = {c.account, c.other}
  BY <1>1, SMT DEF AccountEntries, Permissionless, FreezeExceptions
<1> QED BY <1>2

\* Deposits, withdrawals, collateral fees and flash loans.
LEMMA TokenEntriesAreGuarded == \A c : \A e \in TokenEntries(c) : Guarded(c, e)
<1> SUFFICES ASSUME NEW c, NEW e \in TokenEntries(c), e[2]
             PROVE  /\ e[1] \in Permissionless \/ Authorised(c)
                    /\ \A a \in e[3] : IsOperational(a)
  BY Zenon DEF Guarded
<1> DEFINE Own == IsOperational(c.account) /\ Authorised(c)
<1>1. /\ TokenDepositCtx(c) => Own
      /\ TokenWithdrawCtx(c) => Own
      /\ FlashLoanBeginCtx(c) => Own
      /\ FlashLoanSwapBeginCtx(c) => Own
      /\ FlashLoanEndCtx(c) => Own
      /\ TokenDepositIntoExistingCtx(c) => IsOperational(c.account)
      /\ TokenForceWithdrawCtx(c) => IsOperational(c.account)
      /\ TokenChargeCollateralFeesCtx(c) => IsOperational(c.account)
  BY DEF TokenDepositCtx, TokenDepositIntoExistingCtx, TokenWithdrawCtx, TokenForceWithdrawCtx,
         TokenChargeCollateralFeesCtx, FlashLoanBeginCtx, FlashLoanSwapBeginCtx, FlashLoanEndCtx,
         OwnUse, Authorised
<1>2. \/ e[1] \in Permissionless /\ IsOperational(c.account)
      \/ Own
  BY <1>1, SMT DEF TokenEntries, Permissionless
<1>3. e[3] \subseteq {c.account}
  BY SMT DEF TokenEntries
<1> QED BY <1>2, <1>3

\* Liquidations, where the liqor signs and both accounts change, and the forced
\* cancels, which anyone may run, also on a frozen account.
LEMMA LiquidationEntriesAreGuarded == \A c : \A e \in LiquidationEntries(c) : Guarded(c, e)
<1> SUFFICES ASSUME NEW c, NEW e \in LiquidationEntries(c), e[2]
             PROVE  \/ e[1] \in Permissionless \cap FreezeExceptions
                    \/ Authorised(c) /\ \A a \in e[3] : IsOperational(a)
  BY Zenon DEF Guarded
<1> DEFINE Liq == IsOperational(c.account) /\ IsOperational(c.other) /\ Authorised(c)
<1>1. /\ TokenLiqWithTokenCtx(c) => Liq
      /\ TokenLiqBankruptcyCtx(c) => Liq
      /\ TokenForceCloseBorrowsWithTokenCtx(c) => Liq
      /\ PerpLiqBaseOrPositivePnlCtx(c) => Liq
      /\ PerpLiqNegativePnlOrBankruptcyV2Ctx(c) => Liq
  BY DEF TokenLiqWithTokenCtx, TokenLiqBankruptcyCtx, TokenForceCloseBorrowsWithTokenCtx,
         PerpLiqBaseOrPositivePnlCtx, PerpLiqNegativePnlOrBankruptcyV2Ctx, LiqorUse, OwnUse,
         Authorised
<1>2. \/ e[1] \in Permissionless \cap FreezeExceptions
      \/ Liq
  BY <1>1, SMT DEF LiquidationEntries, Permissionless, FreezeExceptions
<1>3. e[3] \subseteq {c.account, c.other}
  BY SMT DEF LiquidationEntries
<1> QED BY <1>2, <1>3

\* Conditional swaps: made and cancelled for one's own account, started and
\* triggered against another.
LEMMA SwapEntriesAreGuarded == \A c : \A e \in ConditionalSwapEntries(c) : Guarded(c, e)
<1> SUFFICES ASSUME NEW c, NEW e \in ConditionalSwapEntries(c), e[2]
             PROVE  Authorised(c) /\ \A a \in e[3] : IsOperational(a)
  BY Zenon DEF Guarded
<1> DEFINE Own == IsOperational(c.account) /\ Authorised(c)
<1>1. /\ TokenConditionalSwapCreateCtx(c) => Own
      /\ TokenConditionalSwapCreatePremiumAuctionCtx(c) => Own
      /\ TokenConditionalSwapCreateLinearAuctionCtx(c) => Own
      /\ TokenConditionalSwapCancelCtx(c) => Own
      /\ TokenConditionalSwapTriggerCtx(c) => Own /\ IsOperational(c.other)
      /\ TokenConditionalSwapStartCtx(c) => Own /\ IsOperational(c.other)
  BY DEF TokenConditionalSwapCreateCtx, TokenConditionalSwapCreatePremiumAuctionCtx,
         TokenConditionalSwapCreateLinearAuctionCtx, TokenConditionalSwapCancelCtx,
         TokenConditionalSwapTriggerCtx, TokenConditionalSwapStartCtx, LiqorUse, OwnUse, Authorised
<1>2. Own
  BY <1>1, SMT DEF ConditionalSwapEntries
<1>3. \/ e[3] = {c.account}
      \/ IsOperational(c.other) /\ e[3] = {c.account, c.other}
  BY <1>1, SMT DEF ConditionalSwapEntries
<1> QED BY <1>2, <1>3

\* Orders on the spot markets.
LEMMA Serum3EntriesAreGuarded == \A c : \A e \in Serum3Entries(c) : Guarded(c, e)
<1> SUFFICES ASSUME NEW c, NEW e \in Serum3Entries(c), e[2]
             PROVE  Authorised(c) /\ \A a \in e[3] : IsOperational(a)
  BY Zenon DEF Guarded
<1> DEFINE Own == IsOperational(c.account) /\ Authorised(c)
<1>1. /\ Serum3CreateOpenOrdersCtx(c) => Own
      /\ Serum3CloseOpenOrdersCtx(c) => Own
      /\ Serum3PlaceOrderCtx(c) => Own
      /\ Serum3CancelOrderCtx(c) => Own
      /\ Serum3CancelAllOrdersCtx(c) => Own
      /\ Serum3SettleFundsCtx(c) => Own
  BY DEF Serum3CreateOpenOrdersCtx, Serum3CloseOpenOrdersCtx, Serum3PlaceOrderCtx,
         Serum3CancelOrderCtx, Serum3CancelAllOrdersCtx, Serum3SettleFundsCtx, OwnUse, Authorised
<1>2. Own /\ e[3] = {c.account}
  BY <1>1, SMT DEF Serum3Entries
<1> QED BY <1>2

\* Orders, events and settlement of perp markets.
LEMMA PerpEntriesAreGuarded == \A c : \A e \in PerpEntries(c) : Guarded(c, e)
<1> SUFFICES ASSUME NEW c, NEW e \in PerpEntries(c), e[2]
             PROVE  /\ e[1] \in Permissionless \/ Authorised(c)
                    /\ e[1] \in FreezeExceptions \/ \A a \in e[3] : IsOperational(a)
  BY Zenon DEF Guarded
<1> DEFINE Own == IsOperational(c.account) /\ Authorised(c)
           Both == IsOperational(c.account) /\ IsOperational(c.other)
<1>1. /\ PerpPlaceOrderCtx(c) => Own
      /\ PerpCancelOrderCtx(c) => Own
      /\ PerpCancelOrderByClientOrderIdCtx(c) => Authorised(c)
      /\ PerpCancelAllOrdersCtx(c) => Authorised(c)
      /\ PerpCancelAllOrdersBySideCtx(c) => Own
      /\ PerpDeactivatePositionCtx(c) => Own
      /\ PerpForceClosePositionCtx(c) => Both
      /\ PerpSettleFeesCtx(c) => IsOperational(c.account)
      /\ PerpSettlePnlCtx(c) => Both /\ Authorised(c)
  BY DEF PerpPlaceOrderCtx, PerpCancelOrderCtx, PerpCancelOrderByClientOrderIdCtx,
         PerpCancelAllOrdersCtx, PerpCancelAllOrdersBySideCtx, PerpDeactivatePositionCtx,
         PerpForceClosePositionCtx, PerpSettleFeesCtx, PerpSettlePnlCtx, OwnUse, Authorised
<1>2. /\ e[1] \in Permissionless \/ Authorised(c)
      /\ \/ e[1] \in FreezeExceptions
         \/ IsOperational(c.account) /\ e[3] = {c.account}
         \/ Both /\ e[3] = {c.account, c.other}
  <2>1. CASE e \in PerpPlaceEntries(c) \cup PerpPlacePeggedEntries(c)
    BY <1>1, <2>1, SMT DEF PerpPlaceEntries, PerpPlacePeggedEntries
  <2>2. CASE e \notin PerpPlaceEntries(c) \cup PerpPlacePeggedEntries(c)
    BY <1>1, <2>2, SMT DEF PerpEntries, Permissionless, FreezeExceptions
  <2> QED BY <2>1, <2>2
<1> QED BY <1>2

LEMMA EntriesAreGuarded == \A c : \A e \in Entries(c) : Guarded(c, e)
BY AccountEntriesAreGuarded, TokenEntriesAreGuarded, LiquidationEntriesAreGuarded,
   SwapEntriesAreGuarded, Serum3EntriesAreGuarded, PerpEntriesAreGuarded, Zenon DEF Entries

-----------------------------------------------------------------------------
(***************************************************************************)
(* What follows for a state, whichever it is.                              *)
(***************************************************************************)

\* FrozenAccountsAreLeftAlone is a matter of the contexts alone: it holds in any
\* state, whatever the freezes, gates and delegates.
LEMMA ContextsSpareFrozenAccounts == FrozenAccountsAreLeftAlone
<1> SUFFICES ASSUME NEW a \in Frozen, NEW c \in OpenContexts, NEW e \in Entries(c),
                    e[2], a \in e[3]
             PROVE  \/ e[1] \in FreezeExceptions
                    \/ e[1] = "account_buyback_fees_with_mngo" /\ a = c.other
  BY Zenon DEF FrozenAccountsAreLeftAlone
<1>1. Guarded(c, e)
  BY EntriesAreGuarded, Zenon
<1>2. ~IsOperational(a)
  BY DEF Frozen
<1> QED BY <1>1, <1>2, Zenon DEF Guarded

ActingNeedsAuthority ==
  \A a, k : MayAct(k, a) => accounts[a].open /\ IsOwnerOrDelegate(a, k)

\* Who may act for an account is its owner or a delegate, and the account is open.
LEMMA ActorsAreAuthorised == ActingNeedsAuthority
<1> SUFFICES ASSUME NEW a, NEW k, MayAct(k, a)
             PROVE  accounts[a].open /\ IsOwnerOrDelegate(a, k)
  BY Zenon DEF ActingNeedsAuthority
<1>1. PICK c \in OpenContexts :
        /\ c.signer = k /\ c.account = a
        /\ \E e \in Entries(c) : e[2] /\ e[1] \notin Permissionless
  BY Zenon DEF MayAct
<1>2. PICK e \in Entries(c) : e[2] /\ e[1] \notin Permissionless
  BY <1>1, Zenon
<1>3. Authorised(c)
  BY <1>2, EntriesAreGuarded, Zenon DEF Guarded
<1>4. accounts[c.account].open
  BY DEF OpenContexts
<1> QED BY <1>1, <1>3, <1>4, Zenon DEF Authorised

\* Conversely the owner and the delegates of an open account that is not frozen may
\* act for it, whatever the gates: the end of a flash loan has none.
LEMMA AuthorisedMayAct ==
  ASSUME NEW a \in AcAccounts, NEW k \in Keys,
         accounts[a].open, IsOperational(a), IsOwnerOrDelegate(a, k)
  PROVE  MayAct(k, a)
<1> DEFINE c == [signer |-> k, account |-> a, other |-> a]
           e == <<"flash_loan_end_v2", FlashLoanEndCtx(c), {c.account}>>
<1>1. c \in OpenContexts /\ c.signer = k /\ c.account = a
  BY DEF OpenContexts, Contexts
<1>2. FlashLoanEndCtx(c)
  BY <1>1 DEF FlashLoanEndCtx, OwnUse
<1>3. e \in Entries(c)
  BY DEF Entries, TokenEntries
<1>4. e[1] \notin Permissionless
  BY DEF Permissionless
<1>5. e[2]
  <2> HIDE DEF c
  <2> QED BY <1>2
<1> HIDE DEF c, e
<1> QED BY <1>1, <1>3, <1>4, <1>5, Zenon DEF MayAct

-----------------------------------------------------------------------------
(***************************************************************************)
(* The inductive invariant: types, owners that stay the ones accounts are  *)
(* created for, and terms that end.                                        *)
(***************************************************************************)

OwnersStay == \A a \in AcAccounts : accounts[a].owner = OwnerOf[a]

AcInvariant == AcTypeOK /\ OwnersStay /\ TemporaryStatesEnd

\* account_create, and the accounts there are at the start.
LEMMA NewAccountsAreSound ==
  ASSUME NEW a \in AcAccounts, NEW open \in BOOLEAN
  PROVE  LET n == [NewAccount(a) EXCEPT !.open = open]
         IN /\ n \in AccountFields /\ NewAccount(a) \in AccountFields
            /\ n.owner = OwnerOf[a] /\ n.frozen_until = 0 /\ n.temporary_delegate_expiry = 0
            /\ NewAccount(a).owner = OwnerOf[a] /\ NewAccount(a).frozen_until = 0
            /\ NewAccount(a).temporary_delegate_expiry = 0
BY AccessControlAssumption DEF NewAccount, AccountFields

LEMMA AcInitially == AcInit => AcInvariant
<1> SUFFICES ASSUME AcInit PROVE AcInvariant
  OBVIOUS
<1>1. \A a \in AcAccounts : accounts[a] = [NewAccount(a) EXCEPT !.open = a \in AcOpen]
  BY DEF AcInit
<1>2. \A a \in AcAccounts : /\ accounts[a] \in AccountFields
                             /\ accounts[a].owner = OwnerOf[a] /\ accounts[a].frozen_until = 0
                             /\ accounts[a].temporary_delegate_expiry = 0
  <2> SUFFICES ASSUME NEW a \in AcAccounts
               PROVE  /\ accounts[a] \in AccountFields
                      /\ accounts[a].owner = OwnerOf[a] /\ accounts[a].frozen_until = 0
                      /\ accounts[a].temporary_delegate_expiry = 0
    OBVIOUS
  <2>1. CASE a \in AcOpen
    <3>1. accounts[a] = [NewAccount(a) EXCEPT !.open = TRUE]
      BY <1>1, <2>1
    <3> QED BY <3>1, NewAccountsAreSound
  <2>2. CASE a \notin AcOpen
    <3>0. (a \in AcOpen) = FALSE
      BY <2>2
    <3>1. accounts[a] = [NewAccount(a) EXCEPT !.open = FALSE]
      BY <1>1, <3>0, Zenon
    <3> QED BY <3>1, NewAccountsAreSound
  <2> QED BY <2>1, <2>2
<1>3. accounts \in [AcAccounts -> AccountFields]
  BY <1>2 DEF AcInit
<1>4. group \in Groups
  BY AccessControlAssumption DEF AcInit, GroupCreate, Groups
<1> QED BY <1>2, <1>3, <1>4, AccessControlAssumption
        DEF AcInit, AcInvariant, AcTypeOK, OwnersStay, TemporaryStatesEnd

\* An instruction that sets one account to an account with the same owner, whose
\* terms end within a week.
LEMMA SettingOneAccount ==
  ASSUME AcInvariant, NEW a \in AcAccounts, NEW new \in AccountFields,
         new.owner = OwnerOf[a], new.frozen_until <= acNow + Week,
         new.temporary_delegate_expiry < acNow + Week,
         accounts' = [accounts EXCEPT ![a] = new],
         group' = group, acNow' = acNow, signer' \in Keys
  PROVE  AcInvariant'
<1>1. accounts' \in [AcAccounts -> AccountFields]
  BY DEF AcInvariant, AcTypeOK
<1>2. \A b \in AcAccounts : accounts'[b] = IF b = a THEN new ELSE accounts[b]
  BY DEF AcInvariant, AcTypeOK
<1>3. new.frozen_until <= AcMaxTime + Week
  BY AccessControlAssumption DEF AcInvariant, AcTypeOK, AccountFields
<1>4. AcTypeOK'
  BY <1>1, <1>2, <1>3 DEF AcInvariant, AcTypeOK
<1>5. OwnersStay' /\ TemporaryStatesEnd'
  BY <1>2 DEF AcInvariant, OwnersStay, TemporaryStatesEnd
<1> QED BY <1>4, <1>5 DEF AcInvariant

LEMMA GroupEditKeeps ==
  ASSUME AcInvariant, NEW k \in Keys, GroupEdit(k), signer' = k, acNow' = acNow
  PROVE  AcInvariant'
<1>1. group' \in Groups
  BY AccessControlAssumption DEF GroupEdit, AcInvariant, AcTypeOK, Groups
<1> QED BY <1>1 DEF GroupEdit, AcInvariant, AcTypeOK, OwnersStay, TemporaryStatesEnd

LEMMA IxGateSetKeeps ==
  ASSUME AcInvariant, NEW k \in Keys, NEW gate \in GateInputs, IxGateSet(k, gate),
         signer' = k, acNow' = acNow
  PROVE  AcInvariant'
<1>1. group' \in Groups
  BY DEF IxGateSet, AcInvariant, AcTypeOK, Groups
<1> QED BY <1>1 DEF IxGateSet, AcInvariant, AcTypeOK, OwnersStay, TemporaryStatesEnd

LEMMA AccountEditKeeps ==
  ASSUME AcInvariant, NEW k \in Keys, NEW a \in AcAccounts,
         NEW d \in Delegates, NEW t \in TemporaryDelegates,
         AccountEdit(k, a, d, t), signer' = k, acNow' = acNow
  PROVE  AcInvariant'
<1> DEFINE new == EditedAccount(accounts[a], d, t)
<1>1. accounts[a] \in AccountFields
  BY DEF AcInvariant, AcTypeOK
<1>2. d = <<>> \/ d[1] \in Keys \cup {NoKey}
  BY AccessControlAssumption DEF Delegates
<1>3. t = <<>> \/ (t[1].key \in Keys \cup {NoKey} /\ t[1].expiry \in Nat)
  <2>1. CASE t # <<>>
    <3>1. PICK key \in DelegateInputs, e \in ExpiryInputs : t = <<[key |-> key, expiry |-> e]>>
      BY <2>1 DEF TemporaryDelegates
    <3> QED BY <3>1, AccessControlAssumption
  <2> QED BY <2>1
<1>4. /\ new \in AccountFields /\ new.owner = accounts[a].owner
      /\ new.frozen_until = accounts[a].frozen_until
      /\ new.temporary_delegate_expiry =
           IF t = <<>> THEN accounts[a].temporary_delegate_expiry ELSE t[1].expiry
  BY <1>1, <1>2, <1>3 DEF EditedAccount, AccountFields
<1>5. new.temporary_delegate_expiry < acNow + Week
  BY <1>3, <1>4, AccessControlAssumption
     DEF AccountEdit, AcInvariant, TemporaryStatesEnd, AcTypeOK
<1>6. new.owner = OwnerOf[a] /\ new.frozen_until <= acNow + Week
  BY <1>4 DEF AcInvariant, OwnersStay, TemporaryStatesEnd
<1>7. accounts' = [accounts EXCEPT ![a] = new] /\ group' = group
  BY DEF AccountEdit
<1> HIDE DEF new
<1> QED BY <1>4, <1>5, <1>6, <1>7, SettingOneAccount

LEMMA AccountToggleFreezeKeeps ==
  ASSUME AcInvariant, NEW k \in Keys, NEW a \in AcAccounts, NEW freeze \in BOOLEAN,
         AccountToggleFreeze(k, a, freeze), signer' = k, acNow' = acNow
  PROVE  AcInvariant'
<1> DEFINE until == IF freeze THEN acNow + Week ELSE 0
           new == [accounts[a] EXCEPT !.frozen_until = until]
<1>1. accounts[a] \in AccountFields
  BY DEF AcInvariant, AcTypeOK
<1>2. until \in Nat /\ until <= acNow + Week
  BY AccessControlAssumption DEF AcInvariant, AcTypeOK
<1> HIDE DEF until
<1>3. /\ new \in AccountFields /\ new.owner = accounts[a].owner /\ new.frozen_until = until
      /\ new.temporary_delegate_expiry = accounts[a].temporary_delegate_expiry
  BY <1>1, <1>2 DEF AccountFields
<1>4. new.owner = OwnerOf[a] /\ new.temporary_delegate_expiry < acNow + Week
  BY <1>3 DEF AcInvariant, OwnersStay, TemporaryStatesEnd
<1>5. accounts' = [accounts EXCEPT ![a] = new] /\ group' = group
  BY DEF AccountToggleFreeze, until
<1> HIDE DEF new
<1> QED BY <1>2, <1>3, <1>4, <1>5, SettingOneAccount

LEMMA AcStep == AcInvariant /\ [AcNext]_acVars => AcInvariant'
<1> SUFFICES ASSUME AcInvariant, [AcNext]_acVars PROVE AcInvariant'
  OBVIOUS
<1>1. CASE UNCHANGED acVars
  BY <1>1 DEF acVars, AcInvariant, AcTypeOK, OwnersStay, TemporaryStatesEnd
<1>2. CASE AcTick
  BY <1>2, AccessControlAssumption
     DEF AcTick, AcInvariant, AcTypeOK, OwnersStay, TemporaryStatesEnd, AccountFields
<1>3. ASSUME NEW k \in Keys, Sign(k) PROVE AcInvariant'
  <2>1. signer' = k /\ acNow' = acNow
    BY <1>3 DEF Sign
  <2>2. CASE GroupEdit(k)
    BY <2>1, <2>2, GroupEditKeeps
  <2>3. ASSUME NEW gate \in GateInputs, IxGateSet(k, gate) PROVE AcInvariant'
    BY <2>1, <2>3, IxGateSetKeeps
  <2>4. ASSUME NEW a \in AcAccounts, AccountCreate(k, a) \/ AccountClose(k, a) PROVE AcInvariant'
    <3> DEFINE new == IF AccountCreate(k, a) THEN NewAccount(a)
                                             ELSE [NewAccount(a) EXCEPT !.open = FALSE]
    <3>1. /\ new \in AccountFields /\ new.owner = OwnerOf[a] /\ new.frozen_until = 0
          /\ new.temporary_delegate_expiry = 0
      BY NewAccountsAreSound
    <3>2. accounts' = [accounts EXCEPT ![a] = new] /\ group' = group
      BY <2>4 DEF AccountCreate, AccountClose
    <3>3. 0 <= acNow + Week /\ 0 < acNow + Week
      BY AccessControlAssumption DEF AcInvariant, AcTypeOK
    <3> HIDE DEF new
    <3> QED BY <2>1, <3>1, <3>2, <3>3, SettingOneAccount
  <2>5. ASSUME NEW a \in AcAccounts, NEW d \in Delegates, NEW t \in TemporaryDelegates,
               AccountEdit(k, a, d, t)
        PROVE  AcInvariant'
    BY <2>1, <2>5, AccountEditKeeps
  <2>6. ASSUME NEW a \in AcAccounts, NEW freeze \in BOOLEAN, AccountToggleFreeze(k, a, freeze)
        PROVE  AcInvariant'
    BY <2>1, <2>6, AccountToggleFreezeKeeps
  <2> QED BY <1>3, <2>2, <2>3, <2>4, <2>5, <2>6, Zenon DEF Sign
<1> QED BY <1>1, <1>2, <1>3, Zenon DEF AcNext

LEMMA AcInvariantHolds == AcSpec => []AcInvariant
BY AcInitially, AcStep, PTL DEF AcSpec

\* AccountsAreProtected, the invariant the runs check, for every group: no instruction
\* changes a frozen account but the known exceptions, and freezes and temporary
\* delegations end within a week of the step that made them (account_toggle_freeze,
\* account_edit).
THEOREM AccountsAreProtectedTheorem == AcSpec => []AccountsAreProtected
<1>1. AcInvariant => AccountsAreProtected
  BY ContextsSpareFrozenAccounts DEF AcInvariant, AccountsAreProtected
<1> QED BY <1>1, AcInvariantHolds, PTL

-----------------------------------------------------------------------------
(***************************************************************************)
(* What no step does.                                                      *)
(***************************************************************************)

\* Without the owner's signature nothing about an account changes but its freeze.
LEMMA OthersOnlyFreeze ==
  ASSUME AcInvariant, [AcNext]_acVars, NEW a \in AcAccounts, signer' # OwnerOf[a]
  PROVE  /\ accounts'[a].open = accounts[a].open
         /\ accounts'[a].owner = accounts[a].owner
         /\ accounts'[a].delegate = accounts[a].delegate
         /\ accounts'[a].temporary_delegate = accounts[a].temporary_delegate
         /\ accounts'[a].temporary_delegate_expiry = accounts[a].temporary_delegate_expiry
         /\ acNow \in Nat /\ acNow' \in Nat /\ acNow <= acNow'
<1> DEFINE Same == \/ accounts'[a] = accounts[a]
                   \/ \E until : accounts'[a] = [accounts[a] EXCEPT !.frozen_until = until]
<1>1. accounts \in [AcAccounts -> AccountFields] /\ accounts[a] \in AccountFields /\ acNow \in Nat
  BY AccessControlAssumption DEF AcInvariant, AcTypeOK
<1>2. CASE accounts' = accounts
  BY <1>1, <1>2 DEF AcNext, AcTick, Sign, acVars
<1>3. ASSUME NEW k \in Keys, Sign(k), accounts' # accounts PROVE Same /\ acNow' = acNow
  <2>1. k # OwnerOf[a] /\ acNow' = acNow
    BY <1>3 DEF Sign
  <2>2. PICK b \in AcAccounts :
          \/ AccountCreate(k, b) \/ AccountClose(k, b)
          \/ \E d \in Delegates, t \in TemporaryDelegates : AccountEdit(k, b, d, t)
          \/ \E freeze \in BOOLEAN : AccountToggleFreeze(k, b, freeze)
    BY <1>3 DEF Sign, GroupEdit, IxGateSet
  <2>3. CASE b # a
    <3>1. PICK new : accounts' = [accounts EXCEPT ![b] = new]
      BY <2>2 DEF AccountCreate, AccountClose, AccountEdit, AccountToggleFreeze
    <3> QED BY <1>1, <2>1, <2>3, <3>1
  <2>4. CASE b = a
    <3>1. accounts[a].owner = OwnerOf[a]
      BY DEF AcInvariant, OwnersStay
    <3>2. PICK freeze \in BOOLEAN : AccountToggleFreeze(k, a, freeze)
      BY <2>1, <2>2, <2>4, <3>1 DEF AccountCreate, AccountClose, AccountEdit, AccountEditAllowed
    <3> QED BY <1>1, <2>1, <3>2 DEF AccountToggleFreeze
  <2> QED BY <2>1, <2>3, <2>4
<1>4. Same
  BY <1>2, <1>3 DEF AcNext, AcTick, acVars
<1>5. acNow' \in Nat /\ acNow <= acNow'
  BY <1>1 DEF AcNext, AcTick, Sign, acVars
<1> QED BY <1>1, <1>4, <1>5 DEF AccountFields

\* A key comes to act for an account only when its owner signs.
LEMMA AuthorityStep == AcInvariant /\ [AcNext]_acVars => AuthorityComesFromTheOwner
<1> SUFFICES ASSUME AcInvariant, [AcNext]_acVars, NEW a \in AcAccounts, NEW k \in Keys,
                    signer' # OwnerOf[a], IsOperational(a), MayAct(k, a)'
             PROVE  MayAct(k, a)
  BY DEF AuthorityComesFromTheOwner
<1>1. ActingNeedsAuthority'
  BY ActorsAreAuthorised, PTL
<1>2. accounts'[a].open /\ IsOwnerOrDelegate(a, k)'
  BY <1>1, Zenon DEF ActingNeedsAuthority
<1>3. /\ accounts'[a].open = accounts[a].open
      /\ accounts'[a].owner = accounts[a].owner
      /\ accounts'[a].delegate = accounts[a].delegate
      /\ accounts'[a].temporary_delegate = accounts[a].temporary_delegate
      /\ accounts'[a].temporary_delegate_expiry = accounts[a].temporary_delegate_expiry
      /\ acNow \in Nat /\ acNow' \in Nat /\ acNow <= acNow'
  BY OthersOnlyFreeze
<1>4. accounts[a].temporary_delegate_expiry \in Nat
  BY DEF AcInvariant, AcTypeOK, AccountFields
<1>5. accounts[a].open /\ IsOwnerOrDelegate(a, k)
  BY <1>2, <1>3, <1>4 DEF IsOwnerOrDelegate, IsDelegate
<1> QED BY <1>5, AuthorisedMayAct

\* Settings change with the owner's signature, freezes with the admin's.
LEMMA SettingsStep == AcInvariant /\ [AcNext]_acVars => SettingsChangeWithTheRightSignature
<1> SUFFICES ASSUME AcInvariant, [AcNext]_acVars, NEW a \in AcAccounts, accounts[a].open,
                    accounts'[a] # accounts[a]
             PROVE  /\ accounts'[a].frozen_until = accounts[a].frozen_until
                          => signer' = accounts[a].owner
                    /\ accounts'[a].frozen_until # accounts[a].frozen_until
                          => signer' = group.admin \/ ~accounts'[a].open
  BY DEF SettingsChangeWithTheRightSignature
<1>1. accounts \in [AcAccounts -> AccountFields] /\ accounts[a] \in AccountFields
  BY DEF AcInvariant, AcTypeOK
<1>2. PICK k \in Keys : Sign(k)
  BY DEF AcNext, AcTick, acVars
<1>3. signer' = k
  BY <1>2 DEF Sign
<1>4. PICK b \in AcAccounts :
        \/ AccountCreate(k, b) \/ AccountClose(k, b)
        \/ \E d \in Delegates, t \in TemporaryDelegates : AccountEdit(k, b, d, t)
        \/ \E freeze \in BOOLEAN : AccountToggleFreeze(k, b, freeze)
  BY <1>2 DEF Sign, GroupEdit, IxGateSet
<1>5. b = a
  BY <1>1, <1>4 DEF AccountCreate, AccountClose, AccountEdit, AccountToggleFreeze
<1>6. CASE AccountClose(k, a)
  <2>1. accounts'[a] = [NewAccount(a) EXCEPT !.open = FALSE] /\ accounts[a].owner = k
    BY <1>1, <1>6 DEF AccountClose
  <2>2. ~accounts'[a].open
    BY <2>1 DEF NewAccount
  <2> QED BY <1>3, <2>1, <2>2
<1>7. ASSUME NEW d \in Delegates, NEW t \in TemporaryDelegates, AccountEdit(k, a, d, t)
      PROVE  accounts'[a].frozen_until = accounts[a].frozen_until /\ accounts[a].owner = k
  BY <1>1, <1>7 DEF AccountEdit, AccountEditAllowed, EditedAccount, AccountFields
<1>8. ASSUME NEW freeze \in BOOLEAN, AccountToggleFreeze(k, a, freeze)
      PROVE  k = group.admin /\ accounts'[a].frozen_until # accounts[a].frozen_until
  <2>1. PICK until : accounts'[a] = [accounts[a] EXCEPT !.frozen_until = until]
    BY <1>1, <1>8 DEF AccountToggleFreeze
  <2>2. accounts'[a].frozen_until # accounts[a].frozen_until
    BY <1>1, <2>1 DEF AccountFields
  <2> QED BY <1>8, <2>2 DEF AccountToggleFreeze
<1>9. ~AccountCreate(k, a)
  BY DEF AccountCreate
<1> QED BY <1>3, <1>4, <1>5, <1>6, <1>7, <1>8, <1>9

\* Steps that the group admin does not sign leave the admins as they are and open
\* no gate.
LEMMA OthersOnlyCloseGates ==
  ASSUME AcInvariant, [AcNext]_acVars, signer' # group.admin
  PROVE  /\ group'.admin = group.admin /\ group'.security_admin = group.security_admin
         /\ group'.fast_listing_admin = group.fast_listing_admin
         /\ group'.testing = group.testing
         /\ \A ix : IsIxEnabled(ix)' => IsIxEnabled(ix)
<1>1. group \in Groups
  BY DEF AcInvariant, AcTypeOK
<1>2. \/ group' = group
      \/ \E gate \in GateInputs : group.ix_gate \ gate = {} /\ group' = [group EXCEPT !.ix_gate = gate]
  BY DEF AcNext, acVars, AcTick, Sign, GroupEdit, IxGateSet, AccountCreate, AccountClose,
         AccountEdit, AccountToggleFreeze
<1> QED BY <1>1, <1>2 DEF Groups, IsIxEnabled

\* Power over the group as such.
LEMMA GroupEntriesShrink ==
  ASSUME AcInvariant, [AcNext]_acVars, NEW k \in Keys, signer' # group.admin
  PROVE  GroupEntries(k)' \subseteq GroupEntries(k)
<1>1. /\ AdminTokenWithdrawFeesCtx(k)' => AdminTokenWithdrawFeesCtx(k)
      /\ AdminPerpWithdrawFeesCtx(k)' => AdminPerpWithdrawFeesCtx(k)
      /\ GroupWithdrawInsuranceFundCtx(k)' => GroupWithdrawInsuranceFundCtx(k)
      /\ GroupCloseCtx(k)' => GroupCloseCtx(k)
      /\ StubOracleCreateCtx(k)' => StubOracleCreateCtx(k)
      /\ StubOracleSetCtx(k)' => StubOracleSetCtx(k)
      /\ StubOracleCloseCtx(k)' => StubOracleCloseCtx(k)
      /\ AltSetCtx(k)' => AltSetCtx(k)
      /\ AltExtendCtx(k)' => AltExtendCtx(k)
  BY OthersOnlyCloseGates
     DEF AdminTokenWithdrawFeesCtx, AdminPerpWithdrawFeesCtx, GroupWithdrawInsuranceFundCtx,
         GroupCloseCtx, StubOracleCreateCtx, StubOracleSetCtx, StubOracleCloseCtx, AltSetCtx,
         AltExtendCtx, AdminOnly, AdminWhenTesting
<1> QED BY <1>1 DEF GroupEntries, Entry

\* Power over the listings.
LEMMA ListingEntriesShrink ==
  ASSUME AcInvariant, [AcNext]_acVars, NEW k \in Keys, signer' # group.admin
  PROVE  ListingEntries(k)' \subseteq ListingEntries(k)
<1>1. /\ TokenRegisterCtx(k)' => TokenRegisterCtx(k)
      /\ TokenRegisterTrustlessCtx(k)' => TokenRegisterTrustlessCtx(k)
      /\ TokenEditCtx(k)' => TokenEditCtx(k)
      /\ TokenAddBankCtx(k)' => TokenAddBankCtx(k)
      /\ TokenDeregisterCtx(k)' => TokenDeregisterCtx(k)
  BY OthersOnlyCloseGates
     DEF TokenRegisterCtx, TokenRegisterTrustlessCtx, TokenEditCtx, TokenAddBankCtx,
         TokenDeregisterCtx, AdminOnly, AdminWhenTesting, AdminOrSecurity, AdminOrFastListing
<1>2. /\ Serum3RegisterMarketCtx(k)' => Serum3RegisterMarketCtx(k)
      /\ Serum3EditMarketCtx(k)' => Serum3EditMarketCtx(k)
      /\ Serum3DeregisterMarketCtx(k)' => Serum3DeregisterMarketCtx(k)
  BY OthersOnlyCloseGates
     DEF Serum3RegisterMarketCtx, Serum3EditMarketCtx, Serum3DeregisterMarketCtx, AdminOnly,
         AdminWhenTesting, AdminOrSecurity, AdminOrFastListing
<1>3. /\ PerpCreateMarketCtx(k)' => PerpCreateMarketCtx(k)
      /\ PerpEditMarketCtx(k)' => PerpEditMarketCtx(k)
      /\ PerpCloseMarketCtx(k)' => PerpCloseMarketCtx(k)
  BY OthersOnlyCloseGates
     DEF PerpCreateMarketCtx, PerpEditMarketCtx, PerpCloseMarketCtx, AdminOnly,
         AdminWhenTesting, AdminOrSecurity
<1> QED BY <1>1, <1>2, <1>3
        DEF ListingEntries, TokenListingEntries, SpotListingEntries, PerpListingEntries, Entry

\* No step gives a key the right to act for an account, to change its settings or
\* to run an admin instruction, unless the owner, or the group admin, signs it: for
\* every number of accounts and keys, every clock and every gate.
THEOREM PowerComesFromItsHolderTheorem == AcSpec => PowerComesFromItsHolder
<1>1. ASSUME AcInvariant, [AcNext]_acVars
      PROVE  AdminPowerComesFromTheAdmin
  BY <1>1, GroupEntriesShrink, ListingEntriesShrink DEF AdminPowerComesFromTheAdmin
<1>2. ASSUME AcInvariant, [AcNext]_acVars
      PROVE  AuthorityComesFromTheOwner
  BY <1>2, AuthorityStep
<1>3. ASSUME AcInvariant, [AcNext]_acVars
      PROVE  SettingsChangeWithTheRightSignature
  BY <1>3, SettingsStep DEF SettingsChangeWithTheRightSignature
<1> QED BY <1>1, <1>2, <1>3, AcInvariantHolds, PTL DEF AcSpec, PowerComesFromItsHolder

=============================================================================
