------------------------------ MODULE Billing ------------------------------
(***************************************************************************)
(* The billing of the relay requests of one user: BillingSession with its  *)
(* two funding sources (service/billing_session.go, funding_source.go),    *)
(* the PostConsumeQuota path beside them (service/quota.go: fees and the   *)
(* metering of realtime conversations), the resets of the subscription's   *)
(* usage (model/subscription.go) and the part of the relay handler that    *)
(* drives them (controller/relay.go).                                      *)
(*                                                                         *)
(* The balances are users.quota, tokens.remain_quota and the subscription's *)
(* amount_used.  walletDebit, tokenDebit and subDebit are history          *)
(* variables: the net amount the session and the fee of each request have  *)
(* asked each balance for; metered notes what its metering has.  One       *)
(* balance operation of package model is one step: it is a single          *)
(* conditional UPDATE, Lua script or transaction.                          *)
(***************************************************************************)
EXTENDS Integers, FiniteSets, Functions

CONSTANTS
    Requests,       \* relay requests of one user, through one token
    Image,          \* those whose body is a dto.ImageRequest
    Playground,     \* those sent from the playground, which has no token
    Forced,         \* those of asynchronous tasks (relayInfo.ForcePreConsume)
    Realtime,       \* realtime conversations over a websocket
    Quotas,         \* estimates and actual costs a request may have
    Preferences,    \* billing preferences the user may have selected
    InitUserQuota, InitTokenQuota,
    TokenUnlimited,
    TrustQuota,     \* common.GetTrustQuota; 0 turns the bypass off
    SubTotal,       \* amount_total of the subscription; 0 means unlimited
    AllowOverflow,  \* allow_wallet_overflow of the subscription
    ViolationFee,   \* the fee of a policy violation; 0 when not configured
    FaultPoints,    \* the database writes that may fail
    MaxFaults,      \* bound: how many of them fail in one behaviour
    MaxMeter,       \* bound: responses of the upstream in one conversation
    MaxResets       \* bound: period ends and administrator's resets

AllPreferences ==
    {"subscription_only", "wallet_only", "wallet_first", "subscription_first"}

AllFaultPoints ==
    {"query", "preToken", "preFunding", "rollbackToken", "reserveFunding",
     "reserveToken", "rollbackReserve", "settleFunding", "settleToken",
     "refundFunding", "refundMark", "refundExtra", "refundToken",
     "feeFunding", "feeToken", "subQuery", "meterFunding", "meterToken"}

ASSUME RequestsAssumption ==
    /\ IsFiniteSet(Requests)
    /\ Image \subseteq Requests
    /\ Playground \subseteq Requests
    /\ Forced \subseteq Requests
    /\ Realtime \subseteq Requests \ (Image \cup Playground \cup Forced)
ASSUME AmountsAssumption ==
    /\ Quotas \subseteq Nat
    /\ InitUserQuota \in Nat /\ InitTokenQuota \in Nat
    /\ TrustQuota \in Nat /\ SubTotal \in Nat /\ ViolationFee \in Nat
    /\ MaxFaults \in Nat /\ MaxMeter \in Nat /\ MaxResets \in Nat
ASSUME SettingsAssumption ==
    /\ Preferences \subseteq AllPreferences
    /\ FaultPoints \subseteq AllFaultPoints
    /\ TokenUnlimited \in BOOLEAN
    /\ AllowOverflow \in BOOLEAN

VARIABLES
    pc,           \* pc[r]: where the handler goroutine of r stands
    sess,         \* sess[r]: the fields of r's BillingSession and RelayInfo
    refund,       \* refund[r]: where the goroutine started by Refund stands
    userQuota,    \* users.quota
    tokenRemain,  \* tokens.remain_quota
    subUsed,      \* user_subscriptions.amount_used
    walletDebit, tokenDebit, subDebit,
    subActive,    \* the user's subscription is active and has not ended
    resetDue,     \* its next_reset_time has passed
    resets,       \* number of periods that ended and administrator's resets
    carried,      \* carried[r]: what r had asked it for at the last reset
    talking,      \* the realtime requests whose conversation has begun
    meter,        \* meter[r][c]: the call of PreWssConsumeQuota c is in
    metered,      \* metered[r]: what metering has asked each balance for
    errlog,       \* errlog[r]: a failed write was only reported to SysLog
    faults        \* number of writes that have failed so far

wallet == <<userQuota, walletDebit>>
token == <<tokenRemain, tokenDebit>>
subscription == <<subUsed, subDebit>>
balances == <<wallet, token, subscription>>
period == <<resetDue, resets, carried>>
metering == <<talking, meter, metered>>
rest == <<subActive, period, metering>>
vars == <<pc, sess, refund, userQuota, walletDebit, tokenRemain, tokenDebit,
          subUsed, subDebit, subActive, resetDue, resets, carried, talking,
          meter, metered, errlog, faults>>

-----------------------------------------------------------------------------
(* State. *)

Sources == {"none", "wallet", "subscription"}

HandlerStages ==
    {"idle", "openWallet", "preToken", "preFunding", "rollbackToken",
     "relaying", "reserveToken", "rollbackReserve", "settleToken",
     "answered", "failing", "feeFunding", "feeToken", "done"}

RefundStages == {"none", "funding", "mark", "extra", "token", "finished"}

Session ==
    [source: Sources,           \* "none" while relayInfo.Billing is nil
     quota: Nat,                \* preConsumedQuota of NewBillingSession
     amount: Nat,               \* effectiveQuota of preConsume
     fallback: {"none", "subscription", "overflow"},
     tokenTrusted: BOOLEAN,     \* token_quota, read at authentication, > trust
     preConsumed: Nat, tokenConsumed: Nat, extraReserved: Nat,
     consumed: Int,             \* WalletFunding.consumed
     subPreConsumed: Nat,       \* SubscriptionFunding.preConsumed
     attempts: 0..2,            \* failed attempts of refundWithRetry
     delta: Int,                \* amount of the Reserve or Settle under way
     actual: Nat,               \* actualQuota passed to Settle
     fee: Nat, feePaid: Nat,
     trusted: BOOLEAN, fundingSettled: BOOLEAN,
     settled: BOOLEAN, refunded: BOOLEAN]

\* PreWssConsumeQuota is called by the goroutine that reads the upstream and,
\* once the conversation is over, by the handler itself.
Callers == {"reader", "main"}

Call ==
    [at: {"idle", "funding", "token", "stopped"},
     quota: Nat, calls: Nat]

NoCall == [at |-> "idle", quota |-> 0, calls |-> 0]

NoSession ==
    [source |-> "none", quota |-> 0, amount |-> 0, fallback |-> "none",
     tokenTrusted |-> FALSE, preConsumed |-> 0, tokenConsumed |-> 0,
     extraReserved |-> 0, consumed |-> 0, subPreConsumed |-> 0,
     attempts |-> 0, delta |-> 0, actual |-> 0, fee |-> 0, feePaid |-> 0,
     trusted |-> FALSE, fundingSettled |-> FALSE, settled |-> FALSE,
     refunded |-> FALSE]

Init ==
    /\ pc = [r \in Requests |-> "idle"]
    /\ sess = [r \in Requests |-> NoSession]
    /\ refund = [r \in Requests |-> "none"]
    /\ userQuota = InitUserQuota
    /\ tokenRemain = InitTokenQuota
    /\ subUsed = 0
    /\ walletDebit = [r \in Requests |-> 0]
    /\ tokenDebit = [r \in Requests |-> 0]
    /\ subDebit = [r \in Requests |-> 0]
    /\ subActive \in BOOLEAN
    /\ resetDue = FALSE
    /\ resets = 0
    /\ carried = [r \in Requests |-> 0]
    /\ talking = {}
    /\ meter = [r \in Requests |-> [c \in Callers |-> NoCall]]
    /\ metered = [r \in Requests |-> [wallet |-> 0, sub |-> 0, token |-> 0]]
    /\ errlog = [r \in Requests |-> FALSE]
    /\ faults = 0

-----------------------------------------------------------------------------
(* Balances and their operations (package model). *)

\* DecreaseUserQuota, and IncreaseUserQuota for a negative n: unconditional.
ChargeWallet(r, n) ==
    /\ userQuota' = userQuota - n
    /\ walletDebit' = [walletDebit EXCEPT ![r] = @ + n]

\* DecreaseTokenQuota and IncreaseTokenQuota; the playground has no token.
ChargeToken(r, n) ==
    IF r \in Playground
    THEN UNCHANGED token
    ELSE /\ tokenRemain' = tokenRemain - n
         /\ tokenDebit' = [tokenDebit EXCEPT ![r] = @ + n]

\* A mutant of CanReserveWallet: the old unconditional decrement.
CanReserveUnchecked(n) == TRUE

\* The condition of TryReserveUserQuota and TryReserveTokenQuota.
CanReserveWallet(n) == n <= 0 \/ userQuota >= n
CanReserveToken(r, n) ==
    r \in Playground \/ n = 0 \/ TokenUnlimited \/ tokenRemain >= n

\* A mutant of NewUsed: usage is capped at the total instead of refused.
NewUsedCapped(n) ==
    IF subUsed + n > SubTotal THEN SubTotal
    ELSE IF subUsed + n > 0 THEN subUsed + n ELSE 0

\* PostConsumeUserSubscriptionDelta: amount_used never drops below zero and
\* never exceeds amount_total.
NewUsed(n) == IF subUsed + n > 0 THEN subUsed + n ELSE 0
CanChargeSub(n) == n = 0 \/ SubTotal = 0 \/ NewUsed(n) <= SubTotal
ChargeSub(r, n) ==
    /\ subUsed' = NewUsed(n)
    /\ subDebit' = [subDebit EXCEPT ![r] = @ + n]

\* maybeResetUserSubscriptionWithPlanTx: a new period starts without usage.
UsedNow == IF resetDue THEN 0 ELSE subUsed

\* What each request has asked the subscription for.
SubDebits == [r \in Requests |-> subDebit[r] + metered[r].sub]

\* PreConsumeUserSubscription finds an active subscription with enough left.
CanPreConsumeSub(n) == subActive /\ (SubTotal = 0 \/ SubTotal - UsedNow >= n)

\* A database write either succeeds or is one of the FaultPoints and fails.
Works == UNCHANGED faults
Fails(point) ==
    /\ point \in FaultPoints
    /\ faults < MaxFaults
    /\ faults' = faults + 1

Goto(r, stage) == pc' = [pc EXCEPT ![r] = stage]
LogError(r) == errlog' = [errlog EXCEPT ![r] = TRUE]

-----------------------------------------------------------------------------
(* Opening a session: PreConsumeBilling, NewBillingSession, preConsume. *)

\* The struct of trySubscription: it pre-consumes at least 1.
SubscriptionSession(s, fallback) ==
    [s EXCEPT !.source = "subscription", !.fallback = fallback,
              !.amount = IF s.quota <= 0 THEN 1 ELSE s.quota,
              !.tokenConsumed = 0, !.trusted = FALSE]

\* The struct of tryWallet; its balance check is the step OpenWallet.
WalletSession(s, fallback) ==
    [s EXCEPT !.source = "wallet", !.fallback = fallback,
              !.amount = s.quota,
              !.tokenConsumed = 0, !.trusted = FALSE]

\* NewBillingSession: the switch over the billing preference.
NewBillingSession(r, s) ==
    \E pref \in Preferences :
       LET viaWallet(fallback) ==
               /\ sess' = [sess EXCEPT ![r] = WalletSession(s, fallback)]
               /\ Goto(r, "openWallet")
           viaSubscription(fallback) ==
               /\ sess' = [sess EXCEPT ![r] = SubscriptionSession(s, fallback)]
               /\ Goto(r, "preToken")
       IN \/ pref = "subscription_only" /\ viaSubscription("none")
          \/ pref = "wallet_only" /\ viaWallet("none")
          \/ pref = "wallet_first" /\ viaWallet("subscription")
          \/ pref = "subscription_first" /\ subActive
               /\ viaSubscription("overflow")
          \/ pref = "subscription_first" /\ ~subActive /\ viaWallet("none")

\* Relay: authentication has read token_quota, the price is known; a free
\* model opens no session.
StartRequest(r) ==
    /\ pc[r] = "idle"
    /\ LET s == [NoSession EXCEPT !.tokenTrusted =
                    TokenUnlimited \/ tokenRemain > TrustQuota]
       IN \/ /\ sess' = [sess EXCEPT ![r] = s]
             /\ Goto(r, "relaying")
          \/ \E q \in Quotas : NewBillingSession(r, [s EXCEPT !.quota = q])
    /\ UNCHANGED <<refund, balances, rest, errlog, faults>>

\* A retry selects a paid group, or the image quantity is known, while no
\* session exists: PrepareTieredBillingForSelectedGroup and
\* PrepareImageBillingForRequest open it then.
OpenLate(r) ==
    /\ pc[r] = "relaying" /\ r \notin talking /\ sess[r].source = "none"
    /\ \E q \in Quotas : NewBillingSession(r, [sess[r] EXCEPT !.quota = q])
    /\ UNCHANGED <<refund, balances, rest, errlog, faults>>

\* shouldTrust, from the balance read by tryWallet.
ShouldTrust(r) ==
    /\ r \notin Forced
    /\ TrustQuota > 0
    /\ sess[r].tokenTrusted
    /\ userQuota > TrustQuota

\* A mutant of NextFunding: each fallback allows the other one again.
NextFundingAgain(r, s) ==
    \/ /\ s.fallback = "subscription"
       /\ sess' = [sess EXCEPT ![r] = SubscriptionSession(s, "overflow")]
       /\ Goto(r, "preToken")
    \/ /\ s.fallback = "overflow" /\ (AllowOverflow \/ ~subActive)
       /\ sess' = [sess EXCEPT ![r] = WalletSession(s, "subscription")]
       /\ Goto(r, "openWallet")
    \/ /\ \/ s.fallback = "none"
          \/ s.fallback = "overflow" /\ ~AllowOverflow /\ subActive
       /\ sess' = [sess EXCEPT ![r] = [s EXCEPT !.source = "none"]]
       /\ Goto(r, "failing")

\* An attempt to open a session was refused for lack of quota: the fallback
\* of the preference, or an error to the client.
NextFunding(r, s) ==
    \/ /\ s.fallback = "subscription"
       /\ sess' = [sess EXCEPT ![r] = SubscriptionSession(s, "none")]
       /\ Goto(r, "preToken")
    \/ /\ s.fallback = "overflow" /\ (AllowOverflow \/ ~subActive)
       /\ sess' = [sess EXCEPT ![r] = WalletSession(s, "none")]
       /\ Goto(r, "openWallet")
    \/ /\ \/ s.fallback = "none"
          \/ s.fallback = "overflow" /\ ~AllowOverflow /\ subActive
       /\ sess' = [sess EXCEPT ![r] = [s EXCEPT !.source = "none"]]
       /\ Goto(r, "failing")

Reject(r) ==
    /\ sess' = [sess EXCEPT ![r].source = "none"]
    /\ Goto(r, "failing")

\* tryWallet: GetUserQuota and its two checks, then shouldTrust.
OpenWallet(r) ==
    /\ pc[r] = "openWallet"
    /\ \/ /\ userQuota <= 0 \/ userQuota - sess[r].quota < 0
          /\ NextFunding(r, sess[r])
          /\ Works
       \/ /\ userQuota > 0 /\ userQuota - sess[r].quota >= 0
          /\ sess' = [sess EXCEPT ![r].trusted = ShouldTrust(r),
                                  ![r].amount = IF ShouldTrust(r)
                                                THEN 0 ELSE @]
          /\ Goto(r, "preToken")
          /\ Works
       \/ Fails("query") /\ Reject(r)
    /\ UNCHANGED <<refund, balances, rest, errlog>>

\* preConsume, step 1: PreConsumeTokenQuota.
PreConsumeToken(r) ==
    /\ pc[r] = "preToken"
    /\ \/ /\ CanReserveToken(r, sess[r].amount)
          /\ ChargeToken(r, sess[r].amount)
          /\ sess' = [sess EXCEPT ![r].tokenConsumed = sess[r].amount]
          /\ Goto(r, "preFunding")
          /\ Works
       \/ /\ ~CanReserveToken(r, sess[r].amount)
          /\ Reject(r)
          /\ Works /\ UNCHANGED token
       \/ /\ sess[r].amount > 0 /\ r \notin Playground
          /\ Fails("preToken") /\ Reject(r)
          /\ UNCHANGED token
    /\ UNCHANGED <<refund, wallet, subscription, rest, errlog>>

\* WalletFunding.PreConsume and SubscriptionFunding.PreConsume.
WalletPreConsume(r, n) ==
    /\ CanReserveWallet(n)
    /\ ChargeWallet(r, n)
    /\ UNCHANGED subscription

WalletConsumed(s, n) == IF n <= 0 THEN s.consumed ELSE n

\* The reset is part of the transaction: a refusal rolls it back.
SubscriptionPreConsume(r, n) ==
    /\ CanPreConsumeSub(n)
    /\ subUsed' = UsedNow + n
    /\ subDebit' = [subDebit EXCEPT ![r] = @ + n]
    /\ resetDue' = FALSE
    /\ carried' = IF resetDue THEN SubDebits ELSE carried
    /\ UNCHANGED <<wallet, resets>>

\* preConsume, step 2: funding.PreConsume.
PreConsumeFunding(r) ==
    /\ pc[r] = "preFunding"
    /\ LET s == sess[r] IN
       \/ /\ s.source = "wallet"
          /\ WalletPreConsume(r, s.amount) /\ UNCHANGED period
          /\ sess' = [sess EXCEPT ![r].consumed = WalletConsumed(s, s.amount),
                                  ![r].preConsumed = s.amount]
          /\ Goto(r, "relaying") /\ Works
       \/ /\ s.source = "subscription"
          /\ SubscriptionPreConsume(r, s.amount)
          /\ sess' = [sess EXCEPT ![r].subPreConsumed = s.amount,
                                  ![r].preConsumed = s.amount]
          /\ Goto(r, "relaying") /\ Works
       \/ /\ \/ s.source = "wallet" /\ ~CanReserveWallet(s.amount) /\ Works
             \/ s.source = "subscription" /\ ~CanPreConsumeSub(s.amount) /\ Works
             \/ s.source = "subscription" /\ Fails("subQuery")
          /\ Goto(r, "rollbackToken")
          /\ UNCHANGED <<sess, wallet, subscription, period>>
       \/ /\ s.amount > 0
          /\ Fails("preFunding")
          /\ sess' = [sess EXCEPT ![r].fallback = "none"]
          /\ Goto(r, "rollbackToken")
          /\ UNCHANGED <<wallet, subscription, period>>
    /\ UNCHANGED <<refund, token, subActive, metering, errlog>>

\* preConsume after a failed funding.PreConsume: give the token quota back,
\* then fall back or return the error.
RollbackToken(r) ==
    /\ pc[r] = "rollbackToken"
    /\ \/ ChargeToken(r, -sess[r].tokenConsumed) /\ Works /\ UNCHANGED errlog
       \/ /\ sess[r].tokenConsumed > 0 /\ r \notin Playground
          /\ Fails("rollbackToken") /\ LogError(r)
          /\ UNCHANGED token
    /\ NextFunding(r, [sess[r] EXCEPT !.tokenConsumed = 0])
    /\ UNCHANGED <<refund, wallet, subscription, rest>>

-----------------------------------------------------------------------------
(* Reserve, before an attempt is sent upstream. *)

\* A mutant of ReserveSkips: a lower target is reserved too.
ReserveAlways(s, r, target) ==
    s.settled \/ s.refunded \/ (s.trusted /\ r \notin Image)

\* The early returns of Reserve.
ReserveSkips(s, r, target) ==
    \/ s.settled \/ s.refunded
    \/ s.trusted /\ r \notin Image
    \/ target <= s.preConsumed

\* reserveFunding: an image request reserves atomically through PreConsume,
\* any other wallet request is charged whatever its balance.
Reserve(r) ==
    /\ pc[r] = "relaying" /\ r \notin talking /\ sess[r].source # "none"
    /\ \E target \in Quotas :
       LET s == sess[r]
           d == target - s.preConsumed
           funded == /\ Goto(r, "reserveToken") /\ Works
       IN /\ ~ReserveSkips(s, r, target)
          /\ \/ /\ s.source = "wallet" /\ r \in Image
                /\ WalletPreConsume(r, d)
                /\ sess' = [sess EXCEPT ![r].consumed = WalletConsumed(s, d),
                                        ![r].delta = d]
                /\ funded
             \/ /\ s.source = "wallet" /\ r \notin Image
                /\ ChargeWallet(r, d) /\ UNCHANGED subscription
                /\ sess' = [sess EXCEPT ![r].consumed = @ + d, ![r].delta = d]
                /\ funded
             \/ /\ s.source = "subscription" /\ CanChargeSub(d)
                /\ ChargeSub(r, d) /\ UNCHANGED wallet
                /\ sess' = [sess EXCEPT ![r].delta = d]
                /\ funded
             \/ /\ \/ s.source = "wallet" /\ r \in Image
                      /\ ~CanReserveWallet(d)
                   \/ s.source = "subscription" /\ ~CanChargeSub(d)
                /\ Goto(r, "failing") /\ Works
                /\ UNCHANGED <<sess, wallet, subscription>>
             \/ /\ Fails("reserveFunding")
                /\ Goto(r, "failing")
                /\ UNCHANGED <<sess, wallet, subscription>>
    /\ UNCHANGED <<refund, token, rest, errlog>>

\* reserveToken and the bookkeeping of a successful Reserve.
ReserveToken(r) ==
    /\ pc[r] = "reserveToken"
    /\ LET d == sess[r].delta IN
       \/ /\ CanReserveToken(r, d) /\ ChargeToken(r, d)
          /\ sess' = [sess EXCEPT ![r].preConsumed = @ + d,
                                  ![r].tokenConsumed = @ + d,
                                  ![r].extraReserved = @ + d,
                                  ![r].trusted = @ /\ r \notin Image]
          /\ Goto(r, "relaying") /\ Works
       \/ /\ ~CanReserveToken(r, d)
          /\ Goto(r, "rollbackReserve") /\ Works
          /\ UNCHANGED <<sess, token>>
       \/ /\ r \notin Playground /\ Fails("reserveToken")
          /\ Goto(r, "rollbackReserve")
          /\ UNCHANGED <<sess, token>>
    /\ UNCHANGED <<refund, wallet, subscription, rest, errlog>>

\* A mutant of RolledBack: consumed keeps what was given back.
NotRolledBack(s) == s

\* rollbackFundingReserve takes what it gives back out of consumed.
RolledBack(s) == [s EXCEPT !.consumed = @ - s.delta]

\* rollbackFundingReserve; Reserve then returns the error.
RollbackReserve(r) ==
    /\ pc[r] = "rollbackReserve"
    /\ LET s == sess[r] IN
       \/ /\ s.source = "wallet"
          /\ ChargeWallet(r, -s.delta)
          /\ sess' = [sess EXCEPT ![r] = RolledBack(s)]
          /\ Works /\ UNCHANGED <<subscription, errlog>>
       \/ /\ s.source = "subscription"
          /\ ChargeSub(r, -s.delta)
          /\ Works /\ UNCHANGED <<sess, wallet, errlog>>
       \/ /\ Fails("rollbackReserve") /\ LogError(r)
          /\ UNCHANGED <<sess, wallet, subscription>>
    /\ Goto(r, "failing")
    /\ UNCHANGED <<refund, token, rest>>

-----------------------------------------------------------------------------
(* Settle, after the upstream answered. *)

\* A realtime request settles when its conversation is over.
Settles(r) ==
    r \in Realtime => r \in talking /\ meter[r]["main"].at = "idle"

\* SettleBilling, BillingSession.Settle up to the funding adjustment; without
\* a session PostConsumeQuota charges the wallet.
Settle(r) ==
    /\ pc[r] = "relaying" /\ Settles(r)
    /\ \E actual \in Quotas :
       LET s == [sess[r] EXCEPT !.actual = actual]
           d == actual - s.preConsumed
           funded == /\ sess' = [sess EXCEPT ![r] =
                           [s EXCEPT !.fundingSettled = TRUE, !.delta = d]]
                     /\ Goto(r, "settleToken") /\ Works
       IN \/ /\ d = 0
             /\ sess' = [sess EXCEPT ![r] = [s EXCEPT !.settled = TRUE]]
             /\ Goto(r, "answered") /\ Works
             /\ UNCHANGED <<wallet, subscription>>
          \/ /\ d # 0 /\ s.source # "subscription"
             /\ ChargeWallet(r, d) /\ UNCHANGED subscription
             /\ funded
          \/ /\ d # 0 /\ s.source = "subscription" /\ CanChargeSub(d)
             /\ ChargeSub(r, d) /\ UNCHANGED wallet
             /\ funded
          \/ /\ d # 0 /\ s.source = "subscription" /\ ~CanChargeSub(d)
             /\ Goto(r, "answered") /\ Works
             /\ UNCHANGED <<sess, wallet, subscription>>
          \/ /\ d # 0 /\ Fails("settleFunding")
             /\ Goto(r, "answered")
             /\ UNCHANGED <<sess, wallet, subscription>>
    /\ UNCHANGED <<refund, token, rest, errlog>>

\* Settle, step 2: the token follows; a failure is only logged.
SettleToken(r) ==
    /\ pc[r] = "settleToken"
    /\ \/ ChargeToken(r, sess[r].delta) /\ Works /\ UNCHANGED errlog
       \/ /\ r \notin Playground /\ Fails("settleToken") /\ LogError(r)
          /\ UNCHANGED token
    /\ sess' = [sess EXCEPT ![r].settled = TRUE]
    /\ Goto(r, "answered")
    /\ UNCHANGED <<refund, wallet, subscription, rest>>

\* The handler returns after Settle, with or without an error of its own;
\* WssHelper has none left to return.
Answer(r) ==
    /\ pc[r] = "answered"
    /\ Goto(r, "done") \/ (r \notin Realtime /\ Goto(r, "failing"))
    /\ UNCHANGED <<sess, refund, balances, rest, errlog, faults>>

\* No attempt is left: the last error may carry the violation fee.
UpstreamFails(r) ==
    /\ pc[r] = "relaying" /\ r \notin talking
    /\ \E fee \in {0, ViolationFee} :
          sess' = [sess EXCEPT ![r].fee = fee]
    /\ Goto(r, "failing")
    /\ UNCHANGED <<refund, balances, rest, errlog, faults>>

-----------------------------------------------------------------------------
(* Refund, called by the deferred function of Relay. *)

\* A mutant of NeedsRefund: a settled session is refunded too.
NeedsRefundAnyway(s) ==
    /\ s.source # "none" /\ ~s.refunded
    /\ s.tokenConsumed > 0

\* needsRefundLocked.
NeedsRefund(s) ==
    /\ s.source # "none"
    /\ ~s.settled /\ ~s.refunded /\ ~s.fundingSettled
    /\ \/ s.tokenConsumed > 0
       \/ s.source = "subscription" /\ s.subPreConsumed > 0

\* Refund marks the session and starts the goroutine, then the violation fee.
Refund(r) ==
    /\ pc[r] = "failing"
    /\ IF NeedsRefund(sess[r])
       THEN /\ sess' = [sess EXCEPT ![r].refunded = TRUE]
            /\ refund' = [refund EXCEPT ![r] = "funding"]
       ELSE UNCHANGED <<sess, refund>>
    /\ Goto(r, IF sess[r].fee > 0 THEN "feeFunding" ELSE "done")
    /\ UNCHANGED <<balances, rest, errlog, faults>>

\* A mutant of FeeOnSubscription: fees always go to the wallet.
FeeOnWallet(s) == FALSE

\* PostConsumeQuota charges the source the session was opened on.
FeeOnSubscription(s) == s.source = "subscription"

\* ChargeViolationFeeIfNeeded -> PostConsumeQuota, step 1.
FeeFunding(r) ==
    /\ pc[r] = "feeFunding"
    /\ LET s == sess[r]
           viaSub == FeeOnSubscription(s)
           paid == sess' = [sess EXCEPT ![r].feePaid = s.fee]
       IN \/ /\ ~viaSub /\ ChargeWallet(r, s.fee) /\ UNCHANGED subscription
             /\ paid /\ Goto(r, "feeToken") /\ Works
          \/ /\ viaSub /\ CanChargeSub(s.fee)
             /\ ChargeSub(r, s.fee) /\ UNCHANGED wallet
             /\ paid /\ Goto(r, "feeToken") /\ Works
          \/ /\ viaSub /\ ~CanChargeSub(s.fee)
             /\ Goto(r, "done") /\ Works
             /\ UNCHANGED <<sess, wallet, subscription>>
          \/ /\ Fails("feeFunding") /\ Goto(r, "done")
             /\ UNCHANGED <<sess, wallet, subscription>>
    /\ UNCHANGED <<refund, token, rest, errlog>>

\* PostConsumeQuota, step 2.
FeeToken(r) ==
    /\ pc[r] = "feeToken"
    /\ \/ ChargeToken(r, sess[r].fee) /\ Works /\ UNCHANGED errlog
       \/ /\ r \notin Playground /\ Fails("feeToken") /\ LogError(r)
          /\ UNCHANGED token
    /\ Goto(r, "done")
    /\ UNCHANGED <<sess, refund, wallet, subscription, rest>>

\* The refund goroutine, step 1: funding.Refund.  The wallet gives back what
\* it noted as consumed; the subscription lowers amount_used in a transaction
\* of its own, inside the one that marks the record.
RefundFunding(r) ==
    /\ refund[r] = "funding"
    /\ LET s == sess[r]
           to(stage) == refund' = [refund EXCEPT ![r] = stage]
       IN \/ /\ s.source = "wallet"
             /\ ChargeWallet(r, IF s.consumed <= 0 THEN 0 ELSE -s.consumed)
             /\ to("extra") /\ Works
             /\ UNCHANGED <<sess, subscription, errlog>>
          \/ /\ s.source = "subscription"
             /\ ChargeSub(r, -s.subPreConsumed)
             /\ to("mark") /\ Works
             /\ UNCHANGED <<sess, wallet, errlog>>
          \/ /\ s.source = "wallet" /\ s.consumed > 0
             /\ Fails("refundFunding") /\ LogError(r)
             /\ to("extra")
             /\ UNCHANGED <<sess, wallet, subscription>>
          \/ /\ s.source = "subscription" /\ s.attempts < 2
             /\ Fails("refundFunding")
             /\ sess' = [sess EXCEPT ![r].attempts = @ + 1]
             /\ UNCHANGED <<refund, wallet, subscription, errlog>>
          \/ /\ s.source = "subscription" /\ s.attempts = 2
             /\ Fails("refundFunding") /\ LogError(r)
             /\ to("extra")
             /\ UNCHANGED <<sess, wallet, subscription>>
    /\ UNCHANGED <<pc, token, rest>>

\* The outer transaction of RefundSubscriptionPreConsume: save the record as
\* refunded.  When it fails, refundWithRetry runs the whole function again.
RefundMark(r) ==
    /\ refund[r] = "mark"
    /\ \/ /\ refund' = [refund EXCEPT ![r] = "extra"]
          /\ Works /\ UNCHANGED <<sess, errlog>>
       \/ /\ sess[r].attempts < 2 /\ Fails("refundMark")
          /\ sess' = [sess EXCEPT ![r].attempts = @ + 1]
          /\ refund' = [refund EXCEPT ![r] = "funding"]
          /\ UNCHANGED errlog
       \/ /\ sess[r].attempts = 2 /\ Fails("refundMark") /\ LogError(r)
          /\ refund' = [refund EXCEPT ![r] = "extra"]
          /\ UNCHANGED sess
    /\ UNCHANGED <<pc, balances, rest>>

\* Step 2: what Reserve added to the subscription.
RefundExtra(r) ==
    /\ refund[r] = "extra"
    /\ LET viaSub == sess[r].source = "subscription"
           extra == sess[r].extraReserved
       IN \/ /\ viaSub /\ ChargeSub(r, -extra) /\ Works
             /\ UNCHANGED errlog
          \/ ~viaSub /\ Works /\ UNCHANGED <<subscription, errlog>>
          \/ /\ viaSub /\ extra > 0 /\ Fails("refundExtra") /\ LogError(r)
             /\ UNCHANGED subscription
    /\ refund' = [refund EXCEPT ![r] = "token"]
    /\ UNCHANGED <<pc, sess, wallet, token, rest>>

\* Step 3: the token quota.
RefundToken(r) ==
    /\ refund[r] = "token"
    /\ \/ ChargeToken(r, -sess[r].tokenConsumed) /\ Works /\ UNCHANGED errlog
       \/ /\ sess[r].tokenConsumed > 0 /\ r \notin Playground
          /\ Fails("refundToken") /\ LogError(r)
          /\ UNCHANGED token
    /\ refund' = [refund EXCEPT ![r] = "finished"]
    /\ UNCHANGED <<pc, sess, wallet, subscription, rest>>

-----------------------------------------------------------------------------
(* Realtime conversations: PreWssConsumeQuota charges each response of the *)
(* upstream through PostConsumeQuota, beside the open session.             *)

\* WssHelper is connected to the upstream; OpenaiRealtimeHandler starts.
Connect(r) ==
    /\ r \in Realtime \ talking /\ pc[r] = "relaying"
    /\ talking' = talking \cup {r}
    /\ UNCHANGED <<pc, sess, refund, balances, subActive, period, meter,
                   metered, errlog, faults>>

CallAt(r, c, stage) == meter' = [meter EXCEPT ![r][c].at = stage]

\* An error ends the loop of the reader; the handler ignores it.
CallFails(r, c) == CallAt(r, c, IF c = "reader" THEN "stopped" ELSE "idle")

\* The reader may be in a call while the handler goes on, until the handler
\* returns; the handler itself meters what is left over, at most twice.
MayCall(r, c) ==
    /\ r \in talking /\ meter[r][c].at = "idle"
    /\ \/ c = "reader" /\ pc[r] # "done" /\ meter[r][c].calls < MaxMeter
       \/ c = "main" /\ pc[r] = "relaying" /\ meter[r][c].calls < 2

\* PreWssConsumeQuota: the balances it reads cover the quota, or it returns an
\* error.  A conversation at a fixed price or a quota of 0 charges nothing.
PreWssConsumeQuota(r, c) ==
    /\ MayCall(r, c)
    /\ \/ \E q \in Quotas \ {0} :
             LET enough == userQuota >= q /\ (TokenUnlimited \/ tokenRemain >= q)
             IN /\ \/ enough /\ meter' = [meter EXCEPT ![r][c] =
                          [at |-> "funding", quota |-> q, calls |-> @.calls + 1]]
                   \/ ~enough /\ CallFails(r, c)
                /\ Works
       \/ Fails("query") /\ CallFails(r, c)
    /\ UNCHANGED <<pc, sess, refund, balances, subActive, period, talking,
                   metered, errlog>>

\* PostConsumeQuota, step 1, on the source the session was opened on.
MeterFunding(r, c) ==
    /\ meter[r][c].at = "funding"
    /\ LET q == meter[r][c].quota
           viaSub == sess[r].source = "subscription"
       IN \/ /\ ~viaSub /\ userQuota' = userQuota - q
             /\ metered' = [metered EXCEPT ![r].wallet = @ + q]
             /\ CallAt(r, c, "token") /\ Works /\ UNCHANGED subUsed
          \/ /\ viaSub /\ CanChargeSub(q) /\ subUsed' = NewUsed(q)
             /\ metered' = [metered EXCEPT ![r].sub = @ + q]
             /\ CallAt(r, c, "token") /\ Works /\ UNCHANGED userQuota
          \/ /\ \/ viaSub /\ ~CanChargeSub(q) /\ Works
                \/ Fails("meterFunding")
             /\ CallFails(r, c)
             /\ UNCHANGED <<userQuota, subUsed, metered>>
    /\ UNCHANGED <<pc, sess, refund, walletDebit, token, subDebit, subActive,
                   period, talking, errlog>>

\* PostConsumeQuota, step 2; an error is at most logged.
MeterToken(r, c) ==
    /\ meter[r][c].at = "token"
    /\ LET q == meter[r][c].quota
       IN \/ /\ tokenRemain' = tokenRemain - q
             /\ metered' = [metered EXCEPT ![r].token = @ + q]
             /\ CallAt(r, c, "idle") /\ Works /\ UNCHANGED errlog
          \/ /\ Fails("meterToken") /\ LogError(r)
             /\ CallFails(r, c)
             /\ UNCHANGED <<tokenRemain, metered>>
    /\ UNCHANGED <<pc, sess, refund, wallet, tokenDebit, subscription,
                   subActive, period, talking>>

Metering(r) ==
    \/ Connect(r)
    \/ \E c \in Callers : \/ PreWssConsumeQuota(r, c)
                          \/ MeterFunding(r, c) \/ MeterToken(r, c)

-----------------------------------------------------------------------------
\* The subscription ends, is cancelled or is deleted while requests run.
SubscriptionEnds ==
    /\ subActive
    /\ subActive' = FALSE
    /\ UNCHANGED <<pc, sess, refund, balances, period, metering, errlog, faults>>

\* amount_used starts again at zero.
ResetUsage ==
    /\ subUsed' = 0
    /\ carried' = SubDebits
    /\ UNCHANGED <<pc, sess, refund, wallet, token, subDebit, subActive,
                   metering, errlog, faults>>

\* The clock passes next_reset_time.
PeriodEnds ==
    /\ ~resetDue /\ resets < MaxResets
    /\ resetDue' = TRUE
    /\ resets' = resets + 1
    /\ UNCHANGED <<pc, sess, refund, balances, subActive, carried, metering,
                   errlog, faults>>

\* The maintenance task; it also finds a subscription that has ended and is
\* not marked as expired yet.
ResetDueSubscriptions ==
    /\ resetDue /\ ResetUsage
    /\ resetDue' = FALSE
    /\ UNCHANGED resets

\* resetUserSubscriptionTx, at any time, with or without a new next_reset_time.
AdminReset ==
    /\ subActive /\ resets < MaxResets /\ ResetUsage
    /\ resets' = resets + 1
    /\ resetDue' \in {resetDue, FALSE}

Handler(r) ==
    \/ OpenLate(r) \/ OpenWallet(r)
    \/ PreConsumeToken(r) \/ PreConsumeFunding(r) \/ RollbackToken(r)
    \/ Reserve(r) \/ ReserveToken(r) \/ RollbackReserve(r)
    \/ Settle(r) \/ SettleToken(r) \/ Answer(r) \/ UpstreamFails(r)
    \/ Refund(r) \/ FeeFunding(r) \/ FeeToken(r)

RefundGoroutine(r) ==
    RefundFunding(r) \/ RefundMark(r) \/ RefundExtra(r) \/ RefundToken(r)

Finished(r) ==
    /\ pc[r] = "done" /\ refund[r] \in {"none", "finished"}
    /\ \A c \in Callers : meter[r][c].at \in {"idle", "stopped"}

\* Every request has been answered; nothing is left to do.
AllFinished == (\A r \in Requests : Finished(r)) /\ UNCHANGED vars

Next ==
    \/ \E r \in Requests : StartRequest(r) \/ Handler(r) \/ RefundGoroutine(r)
    \/ \E r \in Requests : Metering(r)
    \/ SubscriptionEnds \/ PeriodEnds
    \/ ResetDueSubscriptions \/ AdminReset
    \/ AllFinished

Spec == Init /\ [][Next]_vars

\* Goroutines are scheduled fairly; clients need not send anything.
FairSpec ==
    /\ Spec
    /\ \A r \in Requests : WF_vars(Handler(r)) /\ WF_vars(RefundGoroutine(r))

-----------------------------------------------------------------------------
(* Properties. *)

\* The type of every variable.
TypeOK ==
    /\ pc \in [Requests -> HandlerStages]
    /\ sess \in [Requests -> Session]
    /\ refund \in [Requests -> RefundStages]
    /\ userQuota \in Int /\ tokenRemain \in Int /\ subUsed \in Nat
    /\ walletDebit \in [Requests -> Int]
    /\ tokenDebit \in [Requests -> Int]
    /\ subDebit \in [Requests -> Int]
    /\ subActive \in BOOLEAN /\ resetDue \in BOOLEAN
    /\ resets \in 0..MaxResets
    /\ carried \in [Requests -> Int]
    /\ talking \subseteq Realtime
    /\ meter \in [Requests -> [Callers -> Call]]
    /\ metered \in [Requests -> [wallet: Nat, sub: Nat, token: Nat]]
    /\ errlog \in [Requests -> BOOLEAN]
    /\ faults \in 0..MaxFaults

\* What a request that is over has to have cost: its actual quota once Settle
\* has committed the funding, nothing once it is refunded or was never
\* admitted, otherwise (Settle failed) what was reserved; plus the fee.
Owed(r) ==
    LET s == sess[r] IN
    s.feePaid + (IF s.settled \/ s.fundingSettled THEN s.actual
                 ELSE IF s.refunded \/ s.source = "none" THEN 0
                 ELSE s.preConsumed)

\* Metering comes on top, and charges funding and token alike.
Balanced(r) ==
    /\ metered[r].wallet + metered[r].sub = metered[r].token
    /\ walletDebit[r] + subDebit[r] = Owed(r)
    /\ tokenDebit[r] = IF r \in Playground THEN 0 ELSE Owed(r)

\* When a request and its refund goroutine are over and no failed write was
\* left to the log, funding and token are both charged exactly what the
\* request owes, whatever fallback, reservation, rollback, settlement, refund
\* and fee it went through (BillingSession as a whole).  What the metering of
\* a realtime conversation took is not part of it: PostWssConsumeQuota settles
\* the total again, so the request pays the metered amounts twice, on the
\* funding source and on the token by the same amount.  Image requests are
\* left out: WalletFunding.PreConsume overwrites consumed when Reserve calls
\* it a second time, and a later Refund then returns less than was taken.
FinalAccounting ==
    \A r \in Requests \ Image :
        Finished(r) /\ ~errlog[r] => Balanced(r)

\* No sequence of rollbacks, settlements and refunds returns more than it
\* took, image or not, even when single writes fail.
NoOverRefund ==
    \A r \in Requests :
        walletDebit[r] >= 0 /\ tokenDebit[r] >= 0 /\ subDebit[r] >= 0

\* RefundSubscriptionPreConsume is idempotent, says its comment, so
\* refundWithRetry may repeat it: no request's pre-consumed amount is given
\* back to the subscription twice, which would erase another request's usage.
SubscriptionRefundedOnce ==
    subUsed >= SumFunction([r \in Requests |->
                   IF subDebit[r] > 0 THEN subDebit[r] ELSE 0])

\* The usage of the subscription is what its requests hold and were charged:
\* at least what they have asked it for since the last reset (a reset inside
\* the pre-consume of another request included) and at most what they have
\* asked it for in all.  As long as nothing was asked for before the last reset
\* both are the same, and clamping amount_used at zero swallows no refund;
\* what it swallows later is of requests that had begun before the reset.
UsageIsSumOfRequests ==
    /\ SumFunction([r \in Requests |-> SubDebits[r] - carried[r]]) <= subUsed
    /\ subUsed <= SumFunction(SubDebits)

\* A request is never charged on both funding sources: a refused attempt
\* leaves nothing behind before NewBillingSession falls back, and the metering
\* of a conversation stays on the source of its session.
OneFundingSource ==
    \A r \in Requests :
        /\ walletDebit[r] # 0 \/ metered[r].wallet # 0 =>
               sess[r].source # "subscription"
        /\ subDebit[r] # 0 \/ metered[r].sub # 0 =>
               sess[r].source = "subscription"

\* What concurrent requests hold through checked reservations is covered by
\* the balance: only settlements, fees and the unconditional Reserve of
\* non-image requests can put a balance below zero (TryReserveUserQuota,
\* TryReserveTokenQuota), and a subscription never exceeds its total.
ReservationsCovered ==
    LET min(a, b) == IF a < b THEN a ELSE b
        walletHeld == [r \in Requests |->
            LET s == sess[r] IN
            IF s.source # "wallet" THEN 0
            ELSE min(walletDebit[r] - s.feePaid,
                     s.preConsumed
                        - (IF r \in Image THEN 0 ELSE s.extraReserved))]
        tokenHeld == [r \in Requests |->
            min(tokenDebit[r] - sess[r].feePaid, sess[r].tokenConsumed)]
    IN /\ SumFunction(walletHeld) <= InitUserQuota
       /\ TokenUnlimited \/ SumFunction(tokenHeld) <= InitTokenQuota
       /\ SubTotal > 0 => subUsed <= SubTotal

\* The promise of module Charging, read off the funding sources: the amount a
\* request holds or was charged, without the fee, and how it was closed.
FundingAmount == [r \in Requests |->
    walletDebit[r] + subDebit[r] - sess[r].feePaid]

FundingPhase == [r \in Requests |->
    LET s == sess[r] IN
    IF s.settled \/ s.fundingSettled THEN "charged"
    ELSE IF s.refunded
         THEN IF refund[r] \in {"token", "finished"} THEN "released" ELSE "open"
    ELSE IF pc[r] # "done" THEN "open"
    ELSE IF s.source # "none" /\ s.preConsumed > 0 THEN "charged"
    ELSE "released"]

Promise == INSTANCE Charging WITH phase <- FundingPhase, amount <- FundingAmount

\* Every step of the handlers and refund goroutines is a step of Charging or
\* leaves it alone: a session is closed once, by Settle or by Refund, and
\* neither a late Refund nor a second writer moves its funding again.
ImplementsCharging == Promise!ChargingSpec

\* Every request that was admitted is eventually answered, and a refund that
\* was started eventually lands.  A realtime conversation lasts as long as its
\* two ends keep it open.
EventuallyFinished ==
    \A r \in Requests \ Realtime : pc[r] # "idle" ~> Finished(r)
=============================================================================
