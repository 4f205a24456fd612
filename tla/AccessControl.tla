--------------------------- MODULE AccessControl ---------------------------
(***************************************************************************)
(* Who may run which instruction on which account.  Every instruction      *)
(* names the accounts it works on in a struct under accounts_ix/; the      *)
(* constraints of that struct, and the checks a handler makes on its       *)
(* signer, are one operator here, named after the struct with Ctx, the     *)
(* Context of its handler.  What an                                        *)
(* accepted instruction does to balances belongs to other modules; the     *)
(* actions here are the instructions that change who may do what.          *)
(*                                                                         *)
(* A context c gives the signer, the account it acts for (c.account) and a *)
(* second account (c.other): the liqee, the counterparty, the DAO account. *)
(***************************************************************************)
EXTENDS Naturals, FiniteSets

CONSTANTS Keys,          \* public keys that sign
          NoKey,         \* Pubkey::default()
          AcAccounts,    \* mango accounts
          OwnerOf,       \* the owner each account is created for
          Creator,       \* the key that creates the group
          AdminInputs,   \* the keys group_edit makes admins
          DelegateInputs,\* the keys account_edit makes delegates
          ExpiryInputs,  \* the expiries account_edit is given
          GateInputs,    \* the ix_gate values passed to ix_gate_set
          Week,          \* seconds in a week
          AcOpen,        \* the accounts that are open at the start
          AcMaxTime, AcMaxSteps \* bounds on the clock and on the steps

ASSUME AccessControlAssumption ==
  /\ Creator \in Keys /\ AdminInputs \subseteq Keys /\ DelegateInputs \subseteq Keys
  /\ OwnerOf \in [AcAccounts -> Keys]
  /\ ExpiryInputs \subseteq Nat /\ Week \in Nat \ {0} /\ AcMaxTime \in Nat \ {0}

VARIABLES group,         \* Group
          accounts,      \* MangoAccountFixed of each account
          acNow,         \* Clock::unix_timestamp
          signer,        \* who signed the last instruction
          acSteps        \* steps so far

acVars == <<group, accounts, acNow, signer, acSteps>>

Groups == [admin: Keys, security_admin: Keys \cup {NoKey}, fast_listing_admin: Keys \cup {NoKey},
           ix_gate: GateInputs \cup {{}}, buyback_fees: BOOLEAN, testing: BOOLEAN]

AccountFields == [open: BOOLEAN, owner: Keys, delegate: Keys \cup {NoKey},
                  temporary_delegate: Keys \cup {NoKey},
                  temporary_delegate_expiry: Nat, frozen_until: Nat]

NewAccount(a) == [open |-> TRUE, owner |-> OwnerOf[a], delegate |-> NoKey,
                  temporary_delegate |-> NoKey, temporary_delegate_expiry |-> 0,
                  frozen_until |-> 0]

Contexts == [signer: Keys, account: AcAccounts, other: AcAccounts]

IsIxEnabled(ix) == ix \notin group.ix_gate

IsOperational(a) == accounts[a].frozen_until < acNow

\* The comparison with the expiry is the wrong way round
IsDelegateAfterExpiry(a, k) ==
  \/ accounts[a].delegate = k
  \/ /\ acNow >= accounts[a].temporary_delegate_expiry
     /\ accounts[a].temporary_delegate = k

IsDelegate(a, k) ==
  \/ accounts[a].delegate = k
  \/ /\ acNow <= accounts[a].temporary_delegate_expiry
     /\ accounts[a].temporary_delegate = k

IsOwnerOrDelegate(a, k) == accounts[a].owner = k \/ IsDelegate(a, k)

\* The two checks most instructions make: the account is not frozen and the
\* signer is its owner or a delegate.
OwnUse(c) == IsOperational(c.account) /\ IsOwnerOrDelegate(c.account, c.signer)

-----------------------------------------------------------------------------
\* Account instructions

AccountBuybackFeesWithMngoCtx(c) ==
  /\ IsIxEnabled("AccountBuybackFeesWithMngo")
  /\ group.buyback_fees
  /\ OwnUse(c)
  /\ c.other # c.account

AccountExpandCtx(c) ==
  /\ IsIxEnabled("AccountExpand")
  /\ accounts[c.account].owner = c.signer
  /\ IsOperational(c.account)

AccountSizeMigrationCtx(c) == IsIxEnabled("AccountSizeMigration")

SequenceCheckCtx(c) ==
  /\ IsIxEnabled("SequenceCheck")
  /\ accounts[c.account].owner = c.signer
  /\ IsOperational(c.account)

HealthRegionBeginCtx(c) == IsIxEnabled("HealthRegion") /\ IsOperational(c.account)

HealthRegionEndCtx(c) == IsOperational(c.account)

-----------------------------------------------------------------------------
\* Token instructions

TokenDepositCtx(c) == IsIxEnabled("TokenDeposit") /\ OwnUse(c)

TokenDepositIntoExistingCtx(c) == IsIxEnabled("TokenDeposit") /\ IsOperational(c.account)

TokenWithdrawCtx(c) == IsIxEnabled("TokenWithdraw") /\ OwnUse(c)

TokenForceWithdrawCtx(c) == IsIxEnabled("TokenForceWithdraw") /\ IsOperational(c.account)

TokenChargeCollateralFeesCtx(c) == IsOperational(c.account)

FlashLoanBeginCtx(c) == IsIxEnabled("FlashLoan") /\ OwnUse(c)

FlashLoanSwapBeginCtx(c) == IsIxEnabled("FlashLoan") /\ OwnUse(c)

FlashLoanEndCtx(c) == OwnUse(c)

\* The liqee is not checked
LiqorUseOnly(c) == OwnUse(c) /\ c.other # c.account

\* A liquidator's instruction: c.account is the liqor, c.other the liqee.  Both
\* are loaded mutably, which fails when they are the same account.
LiqorUse(c) == OwnUse(c) /\ IsOperational(c.other) /\ c.other # c.account

TokenLiqWithTokenCtx(c) == IsIxEnabled("TokenLiqWithToken") /\ LiqorUse(c)

TokenLiqBankruptcyCtx(c) == IsIxEnabled("TokenLiqBankruptcy") /\ LiqorUse(c)

TokenForceCloseBorrowsWithTokenCtx(c) ==
  IsIxEnabled("TokenForceCloseBorrowsWithToken") /\ LiqorUse(c)

TokenConditionalSwapCreateCtx(c) == IsIxEnabled("TokenConditionalSwapCreate") /\ OwnUse(c)

TokenConditionalSwapCreatePremiumAuctionCtx(c) ==
  IsIxEnabled("TokenConditionalSwapCreatePremiumAuction") /\ OwnUse(c)

TokenConditionalSwapCreateLinearAuctionCtx(c) ==
  IsIxEnabled("TokenConditionalSwapCreateLinearAuction") /\ OwnUse(c)

TokenConditionalSwapCancelCtx(c) == IsIxEnabled("TokenConditionalSwapCancel") /\ OwnUse(c)

TokenConditionalSwapTriggerCtx(c) == IsIxEnabled("TokenConditionalSwapTrigger") /\ LiqorUse(c)

TokenConditionalSwapStartCtx(c) ==
  IsIxEnabled("TokenConditionalSwapStart") /\ LiqorUse(c)

-----------------------------------------------------------------------------
\* Spot market instructions

Serum3CreateOpenOrdersCtx(c) == IsIxEnabled("Serum3CreateOpenOrders") /\ OwnUse(c)

Serum3CloseOpenOrdersCtx(c) == IsIxEnabled("Serum3CloseOpenOrders") /\ OwnUse(c)

Serum3PlaceOrderCtx(c) ==
  /\ IsIxEnabled("Serum3PlaceOrder") \/ IsIxEnabled("Serum3PlaceOrderV2")
  /\ OwnUse(c)

Serum3CancelOrderCtx(c) == IsIxEnabled("Serum3CancelOrder") /\ OwnUse(c)

Serum3CancelAllOrdersCtx(c) == IsIxEnabled("Serum3CancelAllOrders") /\ OwnUse(c)

Serum3SettleFundsCtx(c) == IsIxEnabled("Serum3SettleFunds") /\ OwnUse(c)

Serum3LiqForceCancelOrdersCtx(c) == IsIxEnabled("Serum3LiqForceCancelOrders")

-----------------------------------------------------------------------------
\* Perp instructions

PerpPlaceOrderCtx(c) == IsIxEnabled("PerpPlaceOrder") /\ OwnUse(c)

PerpCancelOrderCtx(c) == IsIxEnabled("PerpCancelOrder") /\ OwnUse(c)

PerpCancelOrderByClientOrderIdCtx(c) ==
  IsIxEnabled("PerpCancelOrderByClientOrderId") /\ IsOwnerOrDelegate(c.account, c.signer)

PerpCancelAllOrdersCtx(c) ==
  IsIxEnabled("PerpCancelAllOrders") /\ IsOwnerOrDelegate(c.account, c.signer)

PerpCancelAllOrdersBySideCtx(c) == IsIxEnabled("PerpCancelAllOrdersBySide") /\ OwnUse(c)

PerpConsumeEventsCtx(c) == IsIxEnabled("PerpConsumeEvents")

PerpDeactivatePositionCtx(c) == IsIxEnabled("PerpDeactivatePosition") /\ OwnUse(c)

PerpForceClosePositionCtx(c) ==
  /\ IsIxEnabled("PerpForceClosePosition")
  /\ IsOperational(c.account) /\ IsOperational(c.other) /\ c.other # c.account

PerpSettleFeesCtx(c) == IsIxEnabled("PerpSettleFees") /\ IsOperational(c.account)

\* The settler is c.account; c.other stands for each of the two settled
\* accounts, on which the constraints are the same.
PerpSettlePnlCtx(c) == IsIxEnabled("PerpSettlePnl") /\ OwnUse(c) /\ IsOperational(c.other)

PerpLiqBaseOrPositivePnlCtx(c) == IsIxEnabled("PerpLiqBaseOrPositivePnl") /\ LiqorUse(c)

PerpLiqForceCancelOrdersCtx(c) == IsIxEnabled("PerpLiqForceCancelOrders")

PerpLiqNegativePnlOrBankruptcyV2Ctx(c) ==
  IsIxEnabled("PerpLiqNegativePnlOrBankruptcy") /\ LiqorUse(c)

-----------------------------------------------------------------------------
\* Instructions of the admins, signed by k

AdminOnly(k, ix) == IsIxEnabled(ix) /\ k = group.admin
AdminWhenTesting(k, ix) == AdminOnly(k, ix) /\ group.testing
AdminOrFastListing(k, ix) == IsIxEnabled(ix) /\ k \in {group.admin, group.fast_listing_admin}
AdminOrSecurity(k) == k \in {group.admin, group.security_admin}

AdminTokenWithdrawFeesCtx(k) == AdminOnly(k, "AdminTokenWithdrawFees")
AdminPerpWithdrawFeesCtx(k) == AdminOnly(k, "AdminPerpWithdrawFees")
GroupWithdrawInsuranceFundCtx(k) == AdminOnly(k, "GroupWithdrawInsuranceFund")
GroupCloseCtx(k) == AdminWhenTesting(k, "GroupClose")
TokenRegisterCtx(k) == AdminOnly(k, "TokenRegister")
TokenRegisterTrustlessCtx(k) == AdminOrFastListing(k, "TokenRegisterTrustless")
TokenEditCtx(k) == AdminOrSecurity(k)
TokenAddBankCtx(k) == AdminWhenTesting(k, "TokenAddBank")
TokenDeregisterCtx(k) == AdminWhenTesting(k, "TokenDeregister")
Serum3RegisterMarketCtx(k) == AdminOrFastListing(k, "Serum3RegisterMarket")
Serum3EditMarketCtx(k) == AdminOrSecurity(k)
Serum3DeregisterMarketCtx(k) == AdminWhenTesting(k, "Serum3DeregisterMarket")
PerpCreateMarketCtx(k) == AdminOnly(k, "PerpCreateMarket")
PerpEditMarketCtx(k) == AdminOrSecurity(k)
PerpCloseMarketCtx(k) == AdminWhenTesting(k, "PerpCloseMarket")
StubOracleCreateCtx(k) == AdminOnly(k, "StubOracleCreate")
StubOracleSetCtx(k) == AdminOnly(k, "StubOracleSet")
StubOracleCloseCtx(k) == AdminWhenTesting(k, "StubOracleClose")
AltSetCtx(k) == AdminOnly(k, "AltSet")
AltExtendCtx(k) == AdminOnly(k, "AltExtend")

\* An entry point, where its context is accepted.
Entry(name, accepted) == {n \in {name} : accepted}

\* The ones that k may run
GroupEntries(k) ==
       Entry("admin_token_withdraw_fees", AdminTokenWithdrawFeesCtx(k))
  \cup Entry("admin_perp_withdraw_fees", AdminPerpWithdrawFeesCtx(k))
  \cup Entry("group_withdraw_insurance_fund", GroupWithdrawInsuranceFundCtx(k))
  \cup Entry("group_close", GroupCloseCtx(k))
  \cup Entry("stub_oracle_create", StubOracleCreateCtx(k))
  \cup Entry("stub_oracle_set", StubOracleSetCtx(k))
  \cup Entry("stub_oracle_close", StubOracleCloseCtx(k))
  \cup Entry("alt_set", AltSetCtx(k))
  \cup Entry("alt_extend", AltExtendCtx(k))

TokenListingEntries(k) ==
       Entry("token_register", TokenRegisterCtx(k))
  \cup Entry("token_register_trustless", TokenRegisterTrustlessCtx(k))
  \cup Entry("token_edit", TokenEditCtx(k))
  \cup Entry("token_add_bank", TokenAddBankCtx(k))
  \cup Entry("token_deregister", TokenDeregisterCtx(k))

SpotListingEntries(k) ==
       Entry("serum3_register_market", Serum3RegisterMarketCtx(k))
  \cup Entry("serum3_edit_market", Serum3EditMarketCtx(k))
  \cup Entry("serum3_deregister_market", Serum3DeregisterMarketCtx(k))

PerpListingEntries(k) ==
       Entry("perp_create_market", PerpCreateMarketCtx(k))
  \cup Entry("perp_edit_market", PerpEditMarketCtx(k))
  \cup Entry("perp_close_market", PerpCloseMarketCtx(k))

ListingEntries(k) == TokenListingEntries(k) \cup SpotListingEntries(k) \cup PerpListingEntries(k)

-----------------------------------------------------------------------------
(***************************************************************************)
(* The entry points of the program that change accounts, as triples: name, *)
(* whether the context is accepted, the accounts it may change.            *)
(***************************************************************************)
AccountEntries(c) ==
  { <<"account_buyback_fees_with_mngo", AccountBuybackFeesWithMngoCtx(c), {c.account, c.other}>>,
    <<"account_expand", AccountExpandCtx(c), {c.account}>>,
    <<"account_size_migration", AccountSizeMigrationCtx(c), {c.account}>>,
    <<"sequence_check", SequenceCheckCtx(c), {c.account}>>,
    <<"health_region_begin", HealthRegionBeginCtx(c), {c.account}>>,
    <<"health_region_end", HealthRegionEndCtx(c), {c.account}>> }

TokenEntries(c) ==
  { <<"token_deposit", TokenDepositCtx(c), {c.account}>>,
    <<"token_deposit_into_existing", TokenDepositIntoExistingCtx(c), {c.account}>>,
    <<"token_withdraw", TokenWithdrawCtx(c), {c.account}>>,
    <<"token_force_withdraw", TokenForceWithdrawCtx(c), {c.account}>>,
    <<"token_charge_collateral_fees", TokenChargeCollateralFeesCtx(c), {c.account}>>,
    <<"flash_loan_begin", FlashLoanBeginCtx(c), {}>>,
    <<"flash_loan_swap_begin", FlashLoanSwapBeginCtx(c), {}>>,
    <<"flash_loan_end_v2", FlashLoanEndCtx(c), {c.account}>> }

LiquidationEntries(c) ==
  { <<"token_liq_with_token", TokenLiqWithTokenCtx(c), {c.account, c.other}>>,
    <<"token_liq_bankruptcy", TokenLiqBankruptcyCtx(c), {c.account, c.other}>>,
    <<"token_force_close_borrows_with_token", TokenForceCloseBorrowsWithTokenCtx(c),
      {c.account, c.other}>>,
    <<"perp_liq_base_or_positive_pnl", PerpLiqBaseOrPositivePnlCtx(c), {c.account, c.other}>>,
    <<"perp_liq_negative_pnl_or_bankruptcy_v2", PerpLiqNegativePnlOrBankruptcyV2Ctx(c),
      {c.account, c.other}>>,
    <<"perp_liq_force_cancel_orders", PerpLiqForceCancelOrdersCtx(c), {c.account}>>,
    <<"serum3_liq_force_cancel_orders", Serum3LiqForceCancelOrdersCtx(c), {c.account}>> }

ConditionalSwapEntries(c) ==
  { <<"token_conditional_swap_create_v2", TokenConditionalSwapCreateCtx(c), {c.account}>>,
    <<"token_conditional_swap_create_premium_auction",
      TokenConditionalSwapCreatePremiumAuctionCtx(c), {c.account}>>,
    <<"token_conditional_swap_create_linear_auction",
      TokenConditionalSwapCreateLinearAuctionCtx(c), {c.account}>>,
    <<"token_conditional_swap_cancel", TokenConditionalSwapCancelCtx(c), {c.account}>>,
    <<"token_conditional_swap_trigger", TokenConditionalSwapTriggerCtx(c), {c.account, c.other}>>,
    <<"token_conditional_swap_start", TokenConditionalSwapStartCtx(c), {c.account, c.other}>> }

Serum3Entries(c) ==
  { <<"serum3_create_open_orders", Serum3CreateOpenOrdersCtx(c), {c.account}>>,
    <<"serum3_close_open_orders", Serum3CloseOpenOrdersCtx(c), {c.account}>>,
    <<"serum3_place_order", Serum3PlaceOrderCtx(c), {c.account}>>,
    <<"serum3_cancel_order", Serum3CancelOrderCtx(c), {c.account}>>,
    <<"serum3_cancel_all_orders", Serum3CancelAllOrdersCtx(c), {c.account}>>,
    <<"serum3_settle_funds_v2", Serum3SettleFundsCtx(c), {c.account}>> }

\* Orders at a price, and pegged to the oracle; the older versions have fewer arguments
PerpPlaceEntries(c) ==
  { <<"perp_place_order", PerpPlaceOrderCtx(c), {c.account}>>,
    <<"perp_place_order_v2", PerpPlaceOrderCtx(c), {c.account}>> }

PerpPlacePeggedEntries(c) ==
  { <<"perp_place_order_pegged", PerpPlaceOrderCtx(c), {c.account}>>,
    <<"perp_place_order_pegged_v2", PerpPlaceOrderCtx(c), {c.account}>> }

PerpEntries(c) ==
  PerpPlaceEntries(c) \cup PerpPlacePeggedEntries(c) \cup
  { <<"perp_cancel_order", PerpCancelOrderCtx(c), {c.account}>>,
    <<"perp_cancel_order_by_client_order_id", PerpCancelOrderByClientOrderIdCtx(c), {c.account}>>,
    <<"perp_cancel_all_orders", PerpCancelAllOrdersCtx(c), {c.account}>>,
    <<"perp_cancel_all_orders_by_side", PerpCancelAllOrdersBySideCtx(c), {c.account}>>,
    <<"perp_consume_events", PerpConsumeEventsCtx(c), {c.account, c.other}>>,
    <<"perp_deactivate_position", PerpDeactivatePositionCtx(c), {c.account}>>,
    <<"perp_force_close_position", PerpForceClosePositionCtx(c), {c.account, c.other}>>,
    <<"perp_settle_fees", PerpSettleFeesCtx(c), {c.account}>>,
    <<"perp_settle_pnl", PerpSettlePnlCtx(c), {c.account, c.other}>> }

Entries(c) == AccountEntries(c) \cup TokenEntries(c) \cup LiquidationEntries(c)
              \cup ConditionalSwapEntries(c) \cup Serum3Entries(c) \cup PerpEntries(c)

\* The contexts anchor can load: accounts that exist.
OpenContexts == {c \in Contexts : accounts[c.account].open /\ accounts[c.other].open}

-----------------------------------------------------------------------------
\* The instructions that change groups, gates and account settings

GroupCreate ==
  [admin |-> Creator, security_admin |-> NoKey, fast_listing_admin |-> NoKey, ix_gate |-> {},
   buyback_fees |-> FALSE, testing |-> TRUE]

AcInit ==
  /\ group = GroupCreate
  /\ accounts = [a \in AcAccounts |-> [NewAccount(a) EXCEPT !.open = a \in AcOpen]]
  /\ acNow = 1 /\ acSteps = 0
  /\ signer = Creator

\* Every field of group_edit is an option; one is given at a time.
GroupEdit(k) ==
  /\ k = group.admin
  /\ \/ \E n \in AdminInputs : \/ group' = [group EXCEPT !.admin = n]
                               \/ group' = [group EXCEPT !.security_admin = n]
                               \/ group' = [group EXCEPT !.fast_listing_admin = n]
     \/ group' = [group EXCEPT !.buyback_fees = ~@]
     \/ group' = [group EXCEPT !.testing = ~@]
  /\ UNCHANGED accounts

GroupAdmins == {group.admin, group.security_admin}

IxGateSet(k, gate) ==
  /\ k \in (IF group.ix_gate \ gate # {} THEN {group.admin} ELSE GroupAdmins)
  /\ group' = [group EXCEPT !.ix_gate = gate]
  /\ UNCHANGED accounts

AccountCreate(k, a) ==
  /\ IsIxEnabled("AccountCreate")
  /\ ~accounts[a].open
  /\ k = OwnerOf[a]
  /\ accounts' = [accounts EXCEPT ![a] = NewAccount(a)]
  /\ UNCHANGED group

\* Closing needs an account without positions, which is not modelled here.
AccountClose(k, a) ==
  /\ IsIxEnabled("AccountClose")
  /\ accounts[a].open
  /\ accounts[a].owner = k
  /\ IsOperational(a)
  /\ accounts' = [accounts EXCEPT ![a] = [NewAccount(a) EXCEPT !.open = FALSE]]
  /\ UNCHANGED group

AccountEditAllowed(k, a) ==
  /\ IsIxEnabled("AccountEdit")
  /\ accounts[a].open
  /\ accounts[a].owner = k
  /\ IsOperational(a)

\* An option of account_edit that is given is a sequence of its one value. The
\* name is given too whenever the delegate is not; NoKey unsets a delegate.
Delegates == {<<>>} \cup {<<key>> : key \in DelegateInputs \cup {NoKey}}

TemporaryDelegates ==
  {<<>>} \cup {<<[key |-> key, expiry |-> e]>> : key \in DelegateInputs, e \in ExpiryInputs}

EditedAccount(account, delegate, temporary) ==
  [account EXCEPT
     !.delegate = IF delegate = <<>> THEN @ ELSE delegate[1],
     !.temporary_delegate = IF temporary = <<>> THEN @ ELSE temporary[1].key,
     !.temporary_delegate_expiry = IF temporary = <<>> THEN @ ELSE temporary[1].expiry]

AccountEdit(k, a, delegate, temporary) ==
  /\ AccountEditAllowed(k, a)
  /\ temporary # <<>> => acNow + Week > temporary[1].expiry
  /\ accounts' = [accounts EXCEPT ![a] = EditedAccount(@, delegate, temporary)]
  /\ UNCHANGED group

AccountToggleFreeze(k, a, freeze) ==
  /\ IsIxEnabled("AccountToggleFreeze")
  /\ k = group.admin
  /\ accounts[a].open
  /\ accounts' = [accounts EXCEPT ![a].frozen_until = IF freeze THEN acNow + Week ELSE 0]
  /\ UNCHANGED group

Sign(k) ==
  /\ \/ GroupEdit(k)
     \/ \E gate \in GateInputs : IxGateSet(k, gate)
     \/ \E a \in AcAccounts :
          \/ AccountCreate(k, a)
          \/ AccountClose(k, a)
          \/ \E d \in Delegates, t \in TemporaryDelegates : AccountEdit(k, a, d, t)
          \/ \E freeze \in BOOLEAN : AccountToggleFreeze(k, a, freeze)
  /\ signer' = k
  /\ UNCHANGED acNow

AcTick ==
  /\ acNow < AcMaxTime
  /\ acNow' = acNow + 1
  /\ UNCHANGED <<group, accounts, signer>>

AcNext ==
  /\ acSteps < AcMaxSteps /\ acSteps' = acSteps + 1
  /\ AcTick \/ \E k \in Keys : Sign(k)

AcSpec == AcInit /\ [][AcNext]_acVars

-----------------------------------------------------------------------------
(***************************************************************************)
(* Properties                                                              *)
(***************************************************************************)

\* Type correctness of the group and of the fixed part of the accounts.
AcTypeOK ==
  /\ group \in Groups
  /\ accounts \in [AcAccounts -> AccountFields]
  /\ \A a \in AcAccounts : accounts[a].frozen_until <= AcMaxTime + Week
  /\ acNow \in 1 .. AcMaxTime
  /\ signer \in Keys

Frozen == {a \in AcAccounts : accounts[a].open /\ ~IsOperational(a)}

\* The instructions a frozen account can still undergo.
FreezeExceptions ==
  {"perp_consume_events", "perp_liq_force_cancel_orders", "serum3_liq_force_cancel_orders",
   "perp_cancel_order_by_client_order_id", "perp_cancel_all_orders", "account_size_migration"}

\* Whatever the gates, the signers and the second account, an account frozen by
\* account_toggle_freeze is changed by no instruction but the listed exceptions
\* (and, as the DAO's account, by a buyback of fees: its constraint looks at the
\* user's account).
FrozenAccountsAreLeftAlone ==
  \A a \in Frozen : \A c \in OpenContexts : \A e \in Entries(c) :
    e[2] /\ a \in e[3] =>
      \/ e[1] \in FreezeExceptions
      \/ e[1] = "account_buyback_fees_with_mngo" /\ a = c.other

\* What the comment on account_toggle_freeze says a freeze does: it "prevents all
\* instructions involving account (also settling and liquidation), except perp
\* consume events and force cancellation of orders".
FreezeStopsAllButForcedCancels ==
  \A a \in Frozen : \A c \in OpenContexts : \A e \in Entries(c) :
    e[2] /\ a \in e[3] =>
      e[1] \in {"perp_consume_events", "perp_liq_force_cancel_orders",
                "serum3_liq_force_cancel_orders"}

\* The instructions anyone may run on an account.
Permissionless ==
  {"account_size_migration", "health_region_begin", "health_region_end",
   "token_deposit_into_existing", "token_force_withdraw", "token_charge_collateral_fees",
   "perp_liq_force_cancel_orders", "serum3_liq_force_cancel_orders", "perp_consume_events",
   "perp_force_close_position", "perp_settle_fees"}

MayAct(k, a) ==
  \E c \in OpenContexts :
    /\ c.signer = k /\ c.account = a
    /\ \E e \in Entries(c) : e[2] /\ e[1] \notin Permissionless

\* A key that could not act for an account comes to do so only in a step its
\* owner signs (account_create, account_edit): neither time, nor an admin, nor an
\* opened gate, nor a delegate, nor another account gives a key that power.
AuthorityComesFromTheOwner ==
  acVars' # acVars => \A a \in AcAccounts, k \in Keys :
    signer' # OwnerOf[a] /\ IsOperational(a)
      => (MayAct(k, a)' => MayAct(k, a))

\* The settings of an open account (its owner, delegates and their expiry) change
\* only when its owner signs; the freeze only when the group admin does.
SettingsChangeWithTheRightSignature ==
  \A a \in AcAccounts : accounts[a].open =>
    /\ accounts'[a] # accounts[a] /\ accounts'[a].frozen_until = accounts[a].frozen_until
         => signer' = accounts[a].owner
    /\ accounts'[a].frozen_until # accounts[a].frozen_until
         => signer' = group.admin \/ ~accounts'[a].open

\* Nobody comes to run an admin instruction but by a step that the group admin signs
\* (group_edit, or ix_gate_set opening a gate: "only admin can re-enable"): the
\* security admin can close gates and no more, and power never comes with time.
AdminPowerComesFromTheAdmin ==
  \A k \in Keys : signer' # group.admin =>
    GroupEntries(k)' \cup ListingEntries(k)' \subseteq GroupEntries(k) \cup ListingEntries(k)

\* A freeze and a temporary delegation last less than a week after the step that
\* made them: the clock always comes to a point where both have ended.
TemporaryStatesEnd ==
  \A a \in AcAccounts :
    /\ accounts[a].frozen_until <= acNow + Week
    /\ accounts[a].temporary_delegate_expiry < acNow + Week

\* Frozen accounts are left alone by all instructions that must, and freezes
\* and delegations with a term end.
AccountsAreProtected ==
  /\ AcTypeOK
  /\ FrozenAccountsAreLeftAlone
  /\ TemporaryStatesEnd

\* No step gives anybody power over an account, its settings or the group
\* unless the one who holds that power signs it.
PowerComesFromItsHolder ==
  [][/\ AuthorityComesFromTheOwner
     /\ SettingsChangeWithTheRightSignature
     /\ AdminPowerComesFromTheAdmin]_acVars

=============================================================================
