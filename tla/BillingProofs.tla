--------------------------- MODULE BillingProofs ---------------------------
(***************************************************************************)
(* Proofs about Billing, for any number of requests and any amounts.  The  *)
(* argument follows one request r: Flags and Amounts say which fields of   *)
(* its session agree at which stage, Ledger what its funding source and    *)
(* its token have been asked for at that stage, MeterLedger what the       *)
(* metering of a realtime conversation has.  FinalAccounting is both at    *)
(* the end.                                                                *)
(***************************************************************************)
EXTENDS Billing, TLAPS

Opening == {"idle", "openWallet", "preToken", "preFunding", "rollbackToken"}
Reserving == {"reserveToken", "rollbackReserve"}
Closing == {"feeFunding", "feeToken", "done"}

\* Which flags are set at which stage.
Flags(r) ==
    LET s == sess[r] IN
    /\ refund[r] = "none" <=> ~s.refunded
    /\ s.refunded => /\ pc[r] \in Closing
                     /\ ~s.settled /\ ~s.fundingSettled
                     /\ s.source # "none"
    /\ s.settled \/ s.fundingSettled =>
           pc[r] \in {"settleToken", "answered", "failing"} \cup Closing
    /\ pc[r] = "settleToken" => s.fundingSettled /\ ~s.settled
    /\ s.fundingSettled => s.settled \/ pc[r] = "settleToken"
    /\ pc[r] \in {"openWallet", "preToken", "preFunding", "rollbackToken"}
           \cup Reserving => s.source # "none"
    /\ refund[r] = "mark" => s.source = "subscription"

\* How the amounts of a session agree at which stage.
Amounts(r) ==
    LET s == sess[r] IN
    /\ pc[r] \in Opening \/ s.source = "none" =>
           /\ s.preConsumed = 0 /\ s.extraReserved = 0
           /\ s.subPreConsumed = 0 /\ s.consumed = 0
    /\ pc[r] \in {"idle", "openWallet", "preToken"} => s.tokenConsumed = 0
    /\ pc[r] \in {"preFunding", "rollbackToken"} => s.tokenConsumed = s.amount
    /\ pc[r] \notin Opening => s.tokenConsumed = s.preConsumed
    /\ s.source = "subscription" =>
           s.subPreConsumed + s.extraReserved = s.preConsumed
    /\ pc[r] \in Reserving => s.delta \in Nat
    /\ pc[r] = "settleToken" => s.delta = s.actual - s.preConsumed
    /\ pc[r] \notin {"feeToken", "done"} => s.feePaid = 0
    /\ pc[r] = "feeToken" => s.feePaid = s.fee

\* What the funding source has been asked for, without the fee.
Held(r) ==
    LET s == sess[r] IN
    IF pc[r] \in Opening THEN 0
    ELSE IF pc[r] \in Reserving THEN s.preConsumed + s.delta
    ELSE IF s.settled \/ s.fundingSettled THEN s.actual
    ELSE IF refund[r] \in {"none", "funding"} THEN s.preConsumed
    ELSE IF s.source = "subscription" /\ refund[r] \in {"mark", "extra"}
         THEN s.extraReserved
    ELSE 0

\* What the token has been asked for.
TokenHeld(r) ==
    LET s == sess[r] IN
    IF r \in Playground THEN 0
    ELSE (IF s.settled THEN s.actual
          ELSE IF refund[r] = "finished" THEN 0
          ELSE s.tokenConsumed)
         + (IF pc[r] = "feeToken" THEN 0 ELSE s.feePaid)

Ledger(r) ==
    /\ walletDebit[r] + subDebit[r] = Held(r) + sess[r].feePaid
    /\ tokenDebit[r] = TokenHeld(r)
    /\ pc[r] \notin Opening /\ sess[r].source = "wallet" =>
           sess[r].consumed = sess[r].preConsumed
               + (IF pc[r] \in Reserving THEN sess[r].delta ELSE 0)

\* The requests whose ledger is exact: not an image request, no failed write
\* left to the log, and the refund of a subscription is never done again
\* because only its second transaction failed.
Exact(r) == r \notin Image /\ ~errlog[r] /\ "refundMark" \notin FaultPoints

Good(r) ==
    /\ Flags(r)
    /\ Amounts(r)
    /\ Exact(r) => Ledger(r)

AllGood == \A r \in Requests : Good(r)

\* What a call has charged to the funding source and not yet to the token.
Pending(r, c) == IF meter[r][c].at = "token" THEN meter[r][c].quota ELSE 0

\* Metering runs once the session has its final source, and charges nothing
\* else; what it charged is on the token too, but for the calls under way.
MeterLedger(r) ==
    /\ r \notin talking =>
           /\ metered[r].wallet = 0 /\ metered[r].sub = 0 /\ metered[r].token = 0
           /\ \A c \in Callers : meter[r][c].at = "idle"
    /\ r \in talking => pc[r] \in {"relaying", "settleToken", "answered", "done"}
    /\ metered[r].wallet # 0 => sess[r].source # "subscription"
    /\ metered[r].sub # 0 => sess[r].source = "subscription"
    /\ ~errlog[r] => metered[r].wallet + metered[r].sub =
           metered[r].token + Pending(r, "reader") + Pending(r, "main")

AllMetered == \A r \in Requests : MeterLedger(r)

-----------------------------------------------------------------------------
(* Types. *)

\* A step writes at most the session of r, and writes a session.
Writes(r) == sess' = sess \/ \E s \in Session : sess' = [sess EXCEPT ![r] = s]

\* The sessions NewBillingSession builds are sessions.
LEMMA NewSessions ==
    ASSUME NEW s \in Session, NEW fallback \in {"none", "subscription", "overflow"}
    PROVE  /\ WalletSession(s, fallback) \in Session
           /\ SubscriptionSession(s, fallback) \in Session
           /\ [s EXCEPT !.source = "none"] \in Session
           /\ [s EXCEPT !.tokenConsumed = 0] \in Session
           /\ \A q \in Nat : [s EXCEPT !.quota = q] \in Session
           /\ \A b \in BOOLEAN : [NoSession EXCEPT !.tokenTrusted = b] \in Session
<1>1. WalletSession(s, fallback) \in Session
  BY DEF Session, Sources, WalletSession
<1>2. SubscriptionSession(s, fallback) \in Session
  BY DEF Session, Sources, SubscriptionSession
<1>3. [s EXCEPT !.source = "none"] \in Session
  BY DEF Session, Sources
<1>4. [s EXCEPT !.tokenConsumed = 0] \in Session
  BY DEF Session
<1>5. \A q \in Nat : [s EXCEPT !.quota = q] \in Session
  BY DEF Session
<1>6. NoSession \in Session
  BY DEF Session, Sources, NoSession
<1>7. ASSUME NEW z \in Session, NEW b \in BOOLEAN
      PROVE  [z EXCEPT !.tokenTrusted = b] \in Session
  BY DEF Session
<1>8. QED
  BY <1>1, <1>2, <1>3, <1>4, <1>5, <1>6, <1>7

\* Every step of a handler or a refund goroutine writes a session.
LEMMA SessionStep ==
    ASSUME TypeOK, NEW r \in Requests,
           pc[r] = "reserveToken" => sess[r].delta \in Nat,
           StartRequest(r) \/ Handler(r) \/ RefundGoroutine(r)
    PROVE  Writes(r)
<1> USE AmountsAssumption, SettingsAssumption DEF Writes
<1>0. sess[r] \in Session /\ tokenRemain \in Int
  BY DEF TypeOK
<1>1. CASE StartRequest(r)
  <2>1. [NoSession EXCEPT !.tokenTrusted =
                TokenUnlimited \/ tokenRemain > TrustQuota] \in Session
    BY <1>0, NewSessions
  <2>2. QED
    BY <1>1, <2>1, NewSessions DEF StartRequest, NewBillingSession
<1>2. CASE OpenLate(r)
  BY <1>0, <1>2, NewSessions DEF OpenLate, NewBillingSession
<1>3. CASE OpenWallet(r)
  <2> DEFINE b == ShouldTrust(r)
  <2>1. b \in BOOLEAN
    BY DEF ShouldTrust
  <2>2. \/ NextFunding(r, sess[r])
        \/ sess' = [sess EXCEPT ![r] = [sess[r] EXCEPT !.source = "none"]]
        \/ sess' = [sess EXCEPT ![r] = [sess[r] EXCEPT !.trusted = b,
                                 !.amount = IF b THEN 0 ELSE sess[r].amount]]
    BY <1>3 DEF OpenWallet, Reject
  <2> HIDE DEF b
  <2>3. [sess[r] EXCEPT !.trusted = b, !.amount = IF b THEN 0 ELSE sess[r].amount]
            \in Session
    BY <1>0, <2>1 DEF Session
  <2>4. NextFunding(r, sess[r]) => Writes(r)
    BY <1>0, NewSessions DEF NextFunding
  <2>5. QED
    BY <1>0, <2>2, <2>3, <2>4, NewSessions
<1>4. CASE PreConsumeToken(r)
  BY <1>0, <1>4 DEF PreConsumeToken, Reject, Session, Sources
<1>5. CASE PreConsumeFunding(r)
  BY <1>0, <1>5 DEF PreConsumeFunding, WalletConsumed, Session, Sources
<1>6. CASE RollbackToken(r)
  BY <1>0, <1>6, NewSessions DEF RollbackToken, NextFunding
<1>7. CASE Reserve(r)
  BY <1>0, <1>7 DEF Reserve, ReserveSkips, WalletConsumed, Session, Sources
<1>8. CASE ReserveToken(r)
  BY <1>0, <1>8 DEF ReserveToken, Session, Sources
<1>9. CASE RollbackReserve(r)
  BY <1>0, <1>9 DEF RollbackReserve, RolledBack, Session, Sources
<1>10. CASE Settle(r)
  <2>1. PICK actual \in Quotas :
          LET s == [sess[r] EXCEPT !.actual = actual]
          IN \/ sess' = sess
             \/ sess' = [sess EXCEPT ![r] = [s EXCEPT !.settled = TRUE]]
             \/ sess' = [sess EXCEPT ![r] =
                   [s EXCEPT !.fundingSettled = TRUE, !.delta = actual - s.preConsumed]]
    BY <1>10 DEF Settle
  <2>2. [[sess[r] EXCEPT !.actual = actual] EXCEPT !.settled = TRUE] \in Session
    BY <1>0 DEF Session
  <2>3. ASSUME NEW d \in Int
        PROVE  [[sess[r] EXCEPT !.actual = actual]
                  EXCEPT !.fundingSettled = TRUE, !.delta = d] \in Session
    BY <1>0 DEF Session
  <2>4. actual - [sess[r] EXCEPT !.actual = actual].preConsumed \in Int
    BY <1>0 DEF Session
  <2>5. QED
    BY <2>1, <2>2, <2>3, <2>4
<1>11. CASE SettleToken(r)
  BY <1>0, <1>11 DEF SettleToken, Session, Sources
<1>12. CASE Answer(r)
  BY <1>0, <1>12 DEF Answer, Session, Sources
<1>13. CASE UpstreamFails(r)
  <2>1. PICK fee \in Nat : sess' = [sess EXCEPT ![r] = [sess[r] EXCEPT !.fee = fee]]
    BY <1>13 DEF UpstreamFails
  <2>2. QED
    BY <1>0, <2>1 DEF Session
<1>14. CASE Refund(r)
  <2>1. \/ sess' = sess
        \/ sess' = [sess EXCEPT ![r] = [sess[r] EXCEPT !.refunded = TRUE]]
    BY <1>14 DEF Refund
  <2>2. QED
    BY <1>0, <2>1 DEF Session
<1>15. CASE FeeFunding(r)
  BY <1>0, <1>15 DEF FeeFunding, Session, Sources
<1>16. CASE FeeToken(r)
  BY <1>0, <1>16 DEF FeeToken, Session, Sources
<1>17. CASE RefundFunding(r)
  BY <1>0, <1>17 DEF RefundFunding, Session, Sources
<1>18. CASE RefundMark(r)
  BY <1>0, <1>18 DEF RefundMark, Session, Sources
<1>19. CASE RefundExtra(r)
  BY <1>0, <1>19 DEF RefundExtra, Session, Sources
<1>20. CASE RefundToken(r)
  BY <1>0, <1>20 DEF RefundToken, Session, Sources
<1>21. QED
  BY <1>1, <1>2, <1>3, <1>4, <1>5, <1>6, <1>7, <1>8, <1>9, <1>10, <1>11, <1>12, <1>13, <1>14, <1>15, <1>16, <1>17, <1>18, <1>19, <1>20
  DEF Handler, RefundGoroutine

\* The fields of a session.
LEMMA SessionFields ==
    ASSUME NEW s \in Session
    PROVE  /\ s.quota \in Nat /\ s.amount \in Nat
           /\ s.preConsumed \in Nat /\ s.tokenConsumed \in Nat
           /\ s.extraReserved \in Nat /\ s.subPreConsumed \in Nat
           /\ s.consumed \in Int /\ s.delta \in Int /\ s.actual \in Nat
           /\ s.fee \in Nat /\ s.feePaid \in Nat
           /\ s.source \in {"none", "wallet", "subscription"}
           /\ s.settled \in BOOLEAN /\ s.fundingSettled \in BOOLEAN
           /\ s.refunded \in BOOLEAN
  BY DEF Session, Sources

\* The types of the metering and of the subscription's period.
Beside ==
    /\ resetDue \in BOOLEAN /\ resets \in 0..MaxResets
    /\ carried \in [Requests -> Int]
    /\ talking \subseteq Realtime
    /\ meter \in [Requests -> [Callers -> Call]]
    /\ metered \in [Requests -> [wallet: Nat, sub: Nat, token: Nat]]

\* The types of everything else but the sessions.
Counters ==
    /\ pc \in [Requests -> HandlerStages]
    /\ refund \in [Requests -> RefundStages]
    /\ userQuota \in Int /\ tokenRemain \in Int /\ subUsed \in Nat
    /\ walletDebit \in [Requests -> Int]
    /\ tokenDebit \in [Requests -> Int]
    /\ subDebit \in [Requests -> Int]
    /\ subActive \in BOOLEAN
    /\ faults \in 0..MaxFaults

\* A step reports an error for r or none.
LEMMA LogStep ==
    ASSUME NEW r \in Requests,
           StartRequest(r) \/ Handler(r) \/ RefundGoroutine(r)
    PROVE  errlog' = errlog \/ LogError(r)
<1>1. StartRequest(r) \/ OpenLate(r) \/ OpenWallet(r) \/ PreConsumeToken(r)
          \/ PreConsumeFunding(r) => errlog' = errlog
  BY DEF StartRequest, OpenLate, OpenWallet, PreConsumeToken, PreConsumeFunding
<1>2. Reserve(r) \/ ReserveToken(r) \/ Settle(r) \/ Answer(r) \/ UpstreamFails(r)
          \/ Refund(r) \/ FeeFunding(r) => errlog' = errlog
  BY DEF Reserve, ReserveToken, Settle, Answer, UpstreamFails, Refund, FeeFunding
<1>3. RollbackToken(r) \/ RollbackReserve(r) \/ SettleToken(r) \/ FeeToken(r)
          => errlog' = errlog \/ LogError(r)
  BY DEF RollbackToken, RollbackReserve, SettleToken, FeeToken
<1>4. RefundGoroutine(r) => errlog' = errlog \/ LogError(r)
  BY DEF RefundGoroutine, RefundFunding, RefundMark, RefundExtra, RefundToken
<1>5. QED
  BY <1>1, <1>2, <1>3, <1>4 DEF Handler

\* The other requests stand where they stood.
Others(r) ==
    \A q \in Requests \ {r} :
        /\ pc'[q] = pc[q] /\ refund'[q] = refund[q]
        /\ walletDebit'[q] = walletDebit[q]
        /\ tokenDebit'[q] = tokenDebit[q]
        /\ subDebit'[q] = subDebit[q]

\* A step of r keeps the types and leaves the other requests alone.
LEMMA CountersStep ==
    ASSUME TypeOK, NEW r \in Requests,
           StartRequest(r) \/ Handler(r) \/ RefundGoroutine(r)
    PROVE  Counters' /\ Others(r)
<1>0. Counters /\ sess[r] \in Session
  BY DEF TypeOK, Counters
<1> DEFINE s == sess[r]
<1>a. /\ s.amount \in Int /\ s.tokenConsumed \in Int /\ s.consumed \in Int
      /\ s.subPreConsumed \in Int /\ s.extraReserved \in Int
      /\ s.delta \in Int /\ s.fee \in Int /\ s.preConsumed \in Int
  BY <1>0, SessionFields
<1> USE AmountsAssumption, <1>0, <1>a
<1> USE DEF Counters, Others, HandlerStages, RefundStages, Goto, Works, Fails,
            balances, wallet, token, subscription, rest
<1>1. CASE StartRequest(r)
  BY <1>1 DEF StartRequest, NewBillingSession
<1>2. CASE OpenLate(r)
  BY <1>2 DEF OpenLate, NewBillingSession
<1>3. CASE OpenWallet(r)
  BY <1>3 DEF OpenWallet, NextFunding, Reject
<1>4. CASE PreConsumeToken(r)
  BY <1>4 DEF PreConsumeToken, ChargeToken, Reject
<1>5. CASE PreConsumeFunding(r)
  <2>1. s.amount \in Nat /\ UsedNow \in Nat
    BY SessionFields DEF UsedNow
  <2>2. QED
    BY <1>5, <2>1 DEF PreConsumeFunding, WalletPreConsume, SubscriptionPreConsume, ChargeWallet
<1>6. CASE RollbackToken(r)
  BY <1>6 DEF RollbackToken, ChargeToken, NextFunding
<1>7. CASE Reserve(r)
  BY <1>7 DEF Reserve, WalletPreConsume, ChargeWallet, ChargeSub, NewUsed
<1>8. CASE ReserveToken(r)
  BY <1>8 DEF ReserveToken, ChargeToken
<1>9. CASE RollbackReserve(r)
  BY <1>9 DEF RollbackReserve, ChargeWallet, ChargeSub, NewUsed
<1>10. CASE Settle(r)
  BY <1>10 DEF Settle, ChargeWallet, ChargeSub, NewUsed
<1>11. CASE SettleToken(r)
  BY <1>11 DEF SettleToken, ChargeToken
<1>12. CASE Answer(r)
  BY <1>12 DEF Answer
<1>13. CASE UpstreamFails(r)
  BY <1>13 DEF UpstreamFails
<1>14. CASE Refund(r)
  BY <1>14 DEF Refund
<1>15. CASE FeeFunding(r)
  BY <1>15 DEF FeeFunding, ChargeWallet, ChargeSub, NewUsed
<1>16. CASE FeeToken(r)
  BY <1>16 DEF FeeToken, ChargeToken
<1>17. CASE RefundFunding(r)
  BY <1>17 DEF RefundFunding, ChargeWallet, ChargeSub, NewUsed
<1>18. CASE RefundMark(r)
  BY <1>18 DEF RefundMark
<1>19. CASE RefundExtra(r)
  BY <1>19 DEF RefundExtra, ChargeSub, NewUsed
<1>20. CASE RefundToken(r)
  BY <1>20 DEF RefundToken, ChargeToken
<1>21. QED
  BY <1>1, <1>2, <1>3, <1>4, <1>5, <1>6, <1>7, <1>8, <1>9, <1>10, <1>11, <1>12, <1>13, <1>14, <1>15, <1>16, <1>17, <1>18, <1>19, <1>20
  DEF Handler, RefundGoroutine

\* A step of a handler or a refund goroutine leaves the metering alone.
LEMMA MeteringStays ==
    ASSUME NEW r \in Requests,
           StartRequest(r) \/ Handler(r) \/ RefundGoroutine(r)
    PROVE  UNCHANGED metering
<1> USE DEF rest
<1>1. StartRequest(r) \/ OpenLate(r) \/ OpenWallet(r) \/ PreConsumeToken(r)
          \/ PreConsumeFunding(r) => UNCHANGED metering
  BY DEF StartRequest, OpenLate, OpenWallet, PreConsumeToken, PreConsumeFunding
<1>2. Reserve(r) \/ ReserveToken(r) \/ Settle(r) \/ Answer(r) \/ UpstreamFails(r)
          \/ Refund(r) \/ FeeFunding(r) => UNCHANGED metering
  BY DEF Reserve, ReserveToken, Settle, Answer, UpstreamFails, Refund, FeeFunding
<1>3. RollbackToken(r) \/ RollbackReserve(r) \/ SettleToken(r) \/ FeeToken(r)
          => UNCHANGED metering
  BY DEF RollbackToken, RollbackReserve, SettleToken, FeeToken
<1>4. RefundGoroutine(r) => UNCHANGED metering
  BY DEF RefundGoroutine, RefundFunding, RefundMark, RefundExtra, RefundToken
<1>5. QED
  BY <1>1, <1>2, <1>3, <1>4 DEF Handler

\* Only PreConsumeUserSubscription starts a new period within a request.
LEMMA PeriodStays ==
    ASSUME NEW r \in Requests,
           StartRequest(r) \/ Handler(r) \/ RefundGoroutine(r)
    PROVE  \/ UNCHANGED period
           \/ /\ PreConsumeFunding(r) /\ SubscriptionPreConsume(r, sess[r].amount)
              /\ sess[r].source = "subscription"
<1> USE DEF rest
<1>1. StartRequest(r) \/ OpenLate(r) \/ OpenWallet(r) \/ PreConsumeToken(r)
          => UNCHANGED period
  BY DEF StartRequest, OpenLate, OpenWallet, PreConsumeToken
<1>2. Reserve(r) \/ ReserveToken(r) \/ Settle(r) \/ Answer(r) \/ UpstreamFails(r)
          \/ Refund(r) \/ FeeFunding(r) => UNCHANGED period
  BY DEF Reserve, ReserveToken, Settle, Answer, UpstreamFails, Refund, FeeFunding
<1>3. RollbackToken(r) \/ RollbackReserve(r) \/ SettleToken(r) \/ FeeToken(r)
          => UNCHANGED period
  BY DEF RollbackToken, RollbackReserve, SettleToken, FeeToken
<1>4. RefundGoroutine(r) => UNCHANGED period
  BY DEF RefundGoroutine, RefundFunding, RefundMark, RefundExtra, RefundToken
<1>5. PreConsumeFunding(r) =>
          \/ UNCHANGED period
          \/ SubscriptionPreConsume(r, sess[r].amount) /\ sess[r].source = "subscription"
  BY DEF PreConsumeFunding
<1>6. QED
  BY <1>1, <1>2, <1>3, <1>4, <1>5 DEF Handler

\* What the requests have asked the subscription for.
LEMMA SubDebitsType ==
    ASSUME TypeOK
    PROVE  /\ SubDebits \in [Requests -> Int]
           /\ \A r \in Requests : /\ metered[r].sub \in Nat /\ subDebit[r] \in Int
                                  /\ SubDebits[r] = subDebit[r] + metered[r].sub
<1>1. \A r \in Requests : metered[r].sub \in Nat /\ subDebit[r] \in Int
  BY DEF TypeOK
<1>2. QED
  BY <1>1 DEF SubDebits

LEMMA BesideStep ==
    ASSUME TypeOK, NEW r \in Requests,
           StartRequest(r) \/ Handler(r) \/ RefundGoroutine(r)
    PROVE  Beside'
<1>1. UNCHANGED <<talking, meter, metered>>
  BY MeteringStays DEF metering
<1>2. \/ UNCHANGED <<resetDue, resets, carried>>
      \/ /\ resetDue' = FALSE /\ resets' = resets
         /\ carried' = carried \/ carried' = SubDebits
  BY PeriodStays DEF SubscriptionPreConsume, period
<1>3. carried' \in [Requests -> Int]
  BY <1>2, SubDebitsType DEF TypeOK
<1>4. QED
  BY <1>1, <1>2, <1>3 DEF TypeOK, Beside

\* Every step of one request keeps the types.
LEMMA TypeStep ==
    ASSUME TypeOK, AllGood, NEW r \in Requests,
           StartRequest(r) \/ Handler(r) \/ RefundGoroutine(r)
    PROVE  TypeOK' /\ sess' \in [Requests -> Session]
           /\ \A q \in Requests \ {r} : sess'[q] = sess[q] /\ errlog'[q] = errlog[q]
<1>1. Writes(r)
  BY SessionStep DEF AllGood, Good, Amounts, Reserving
<1>2. /\ sess' \in [Requests -> Session]
      /\ \A q \in Requests \ {r} : sess'[q] = sess[q]
  BY <1>1 DEF Writes, TypeOK
<1>3. /\ errlog' \in [Requests -> BOOLEAN]
      /\ \A q \in Requests \ {r} : errlog'[q] = errlog[q]
  BY LogStep DEF TypeOK, LogError
<1>4. Counters' /\ Beside'
  BY CountersStep, BesideStep
<1>5. QED
  BY <1>2, <1>3, <1>4 DEF TypeOK, Counters, Beside

-----------------------------------------------------------------------------
(* Opening a session. *)

\* A session that has taken nothing from a funding source yet.
Empty(s) ==
    /\ s.preConsumed = 0 /\ s.extraReserved = 0 /\ s.subPreConsumed = 0
    /\ s.consumed = 0 /\ s.feePaid = 0
    /\ ~s.settled /\ ~s.fundingSettled /\ ~s.refunded

\* The constructors of NewBillingSession keep a session empty.
LEMMA EmptySessions ==
    ASSUME NEW s \in Session, Empty(s),
           NEW fallback \in {"none", "subscription", "overflow"}
    PROVE  /\ Empty(WalletSession(s, fallback))
           /\ WalletSession(s, fallback).source = "wallet"
           /\ WalletSession(s, fallback).tokenConsumed = 0
           /\ Empty(SubscriptionSession(s, fallback))
           /\ SubscriptionSession(s, fallback).source = "subscription"
           /\ SubscriptionSession(s, fallback).tokenConsumed = 0
<1> USE DEF Empty, Session
<1>1. /\ Empty(WalletSession(s, fallback))
      /\ WalletSession(s, fallback).source = "wallet"
      /\ WalletSession(s, fallback).tokenConsumed = 0
  BY DEF WalletSession
<1>2. /\ Empty(SubscriptionSession(s, fallback))
      /\ SubscriptionSession(s, fallback).source = "subscription"
      /\ SubscriptionSession(s, fallback).tokenConsumed = 0
  BY DEF SubscriptionSession
<1>3. QED
  BY <1>1, <1>2

\* So do the updates of its other fields.
LEMMA EmptyUpdates ==
    ASSUME NEW s \in Session, Empty(s)
    PROVE  /\ \A q \in Nat : Empty([s EXCEPT !.quota = q])
           /\ Empty([s EXCEPT !.source = "none"])
           /\ [s EXCEPT !.source = "none"].source = "none"
           /\ [s EXCEPT !.source = "none"].tokenConsumed = s.tokenConsumed
           /\ Empty([s EXCEPT !.tokenConsumed = 0])
           /\ [s EXCEPT !.tokenConsumed = 0].tokenConsumed = 0
  BY DEF Empty, Session

\* A request stands before the token is charged, or was refused.
Fresh(r) ==
    /\ Empty(sess[r]) /\ sess[r].tokenConsumed = 0
    /\ \/ pc[r] = "openWallet" /\ sess[r].source = "wallet"
       \/ pc[r] = "preToken" /\ sess[r].source # "none"
       \/ pc[r] \in {"relaying", "failing"} /\ sess[r].source = "none"

\* The steps of NewBillingSession lead to such a state.
LEMMA OpeningStep ==
    ASSUME TypeOK, NEW r \in Requests, Good(r),
           StartRequest(r) \/ OpenLate(r) \/ OpenWallet(r) \/ RollbackToken(r)
    PROVE  /\ Fresh(r)'
           /\ refund'[r] = "none" /\ UNCHANGED <<wallet, subscription>>
<1>0. /\ sess \in [Requests -> Session] /\ sess[r] \in Session
      /\ pc \in [Requests -> HandlerStages] /\ tokenRemain \in Int
  BY DEF TypeOK
<1>1. ASSUME pc[r] \in Opening \/ (pc[r] = "relaying" /\ sess[r].source = "none")
      PROVE  Empty(sess[r]) /\ refund[r] = "none"
  BY <1>0, <1>1, SessionFields
  DEF Good, Flags, Amounts, Empty, Opening, Closing
<1> USE AmountsAssumption, SettingsAssumption
<1>2. ASSUME NEW s \in Session, Empty(s), NewBillingSession(r, s)
      PROVE  Fresh(r)'
  <2>1. PICK f \in {"none", "subscription", "overflow"} :
          \/ /\ sess' = [sess EXCEPT ![r] = WalletSession(s, f)]
             /\ pc' = [pc EXCEPT ![r] = "openWallet"]
          \/ /\ sess' = [sess EXCEPT ![r] = SubscriptionSession(s, f)]
             /\ pc' = [pc EXCEPT ![r] = "preToken"]
    BY <1>2 DEF NewBillingSession, Goto
  <2>2. \/ sess'[r] = WalletSession(s, f) /\ pc'[r] = "openWallet"
        \/ sess'[r] = SubscriptionSession(s, f) /\ pc'[r] = "preToken"
    BY <1>0, <2>1
  <2>3. QED
    BY <1>2, <2>2, EmptySessions DEF Fresh, Empty
<1>3. ASSUME NEW s \in Session, Empty(s), s.tokenConsumed = 0, NextFunding(r, s)
      PROVE  Fresh(r)'
  <2>1. PICK f \in {"none", "subscription", "overflow"} :
        \/ sess'[r] = WalletSession(s, f) /\ pc'[r] = "openWallet"
        \/ sess'[r] = SubscriptionSession(s, f) /\ pc'[r] = "preToken"
        \/ sess'[r] = [s EXCEPT !.source = "none"] /\ pc'[r] = "failing"
    BY <1>0, <1>3 DEF NextFunding, Goto
  <2>2. /\ Empty(sess'[r]) /\ sess'[r].tokenConsumed = 0
        /\ \/ pc'[r] = "openWallet" /\ sess'[r].source = "wallet"
           \/ pc'[r] = "preToken" /\ sess'[r].source = "subscription"
           \/ pc'[r] = "failing" /\ sess'[r].source = "none"
    <3>1. CASE sess'[r] = WalletSession(s, f) /\ pc'[r] = "openWallet"
      BY <1>3, <3>1, EmptySessions
    <3>2. CASE sess'[r] = SubscriptionSession(s, f) /\ pc'[r] = "preToken"
      BY <1>3, <3>2, EmptySessions
    <3>3. CASE sess'[r] = [s EXCEPT !.source = "none"] /\ pc'[r] = "failing"
      <4>1. /\ Empty([s EXCEPT !.source = "none"])
            /\ [s EXCEPT !.source = "none"].source = "none"
            /\ [s EXCEPT !.source = "none"].tokenConsumed = 0
        BY <1>3, EmptyUpdates
      <4>2. QED
        BY <3>3, <4>1
    <3>4. QED
      BY <2>1, <3>1, <3>2, <3>3
  <2>3. QED
    BY <2>2 DEF Fresh, Empty
<1>4. CASE StartRequest(r)
  <2> DEFINE s == [NoSession EXCEPT !.tokenTrusted =
                     TokenUnlimited \/ tokenRemain > TrustQuota]
  <2>1. Empty(s) /\ s.tokenConsumed = 0 /\ s.source = "none"
    BY DEF Empty, NoSession
  <2>2. s \in Session
    BY <1>0, NewSessions
  <2>7. refund'[r] = "none"
    BY <1>1, <1>4 DEF StartRequest, Opening
  <2>3. \/ sess' = [sess EXCEPT ![r] = s] /\ pc' = [pc EXCEPT ![r] = "relaying"]
        \/ \E q \in Quotas : NewBillingSession(r, [s EXCEPT !.quota = q])
    BY <1>4 DEF StartRequest, Goto
  <2> HIDE DEF s
  <2>4. \A q \in Quotas : [s EXCEPT !.quota = q] \in Session
                         /\ Empty([s EXCEPT !.quota = q])
    BY <2>1, <2>2, NewSessions, EmptyUpdates
  <2>5. CASE sess' = [sess EXCEPT ![r] = s] /\ pc' = [pc EXCEPT ![r] = "relaying"]
    BY <1>0, <1>4, <2>1, <2>5, <2>7 DEF Fresh, StartRequest, balances
  <2>6. QED
    BY <1>2, <1>4, <2>3, <2>4, <2>5, <2>7 DEF StartRequest, balances
<1>5. CASE OpenLate(r)
  <2>1. Empty(sess[r]) /\ refund[r] = "none"
    BY <1>1, <1>5 DEF OpenLate
  <2>2. \A q \in Quotas : [sess[r] EXCEPT !.quota = q] \in Session
                         /\ Empty([sess[r] EXCEPT !.quota = q])
    BY <1>0, <2>1, NewSessions, EmptyUpdates
  <2>3. QED
    BY <1>2, <1>5, <2>1, <2>2 DEF OpenLate, balances
<1>6. CASE OpenWallet(r)
  <2>1. /\ Empty(sess[r]) /\ refund[r] = "none"
        /\ sess[r].tokenConsumed = 0 /\ sess[r].source # "none"
    BY <1>1, <1>6 DEF OpenWallet, Opening, Good, Amounts, Flags
  <2>2. CASE NextFunding(r, sess[r])
    BY <1>0, <1>3, <1>6, <2>1, <2>2 DEF OpenWallet, balances
  <2>3. CASE Reject(r)
    BY <1>0, <1>6, <2>1, <2>3, EmptyUpdates
    DEF OpenWallet, Reject, Goto, Fresh, balances
  <2>4. ASSUME NEW b, NEW n, pc' = [pc EXCEPT ![r] = "preToken"],
               sess' = [sess EXCEPT ![r] = [sess[r] EXCEPT !.trusted = b, !.amount = n]]
        PROVE  Fresh(r)'
    BY <1>0, <2>1, <2>4 DEF Fresh, Empty, Session
  <2>5. CASE /\ sess' = [sess EXCEPT ![r].trusted = ShouldTrust(r),
                                  ![r].amount = IF ShouldTrust(r) THEN 0 ELSE @]
             /\ Goto(r, "preToken")
    BY <1>0, <1>6, <2>1, <2>4, <2>5 DEF OpenWallet, Goto, balances
  <2>6. QED
    BY <1>6, <2>2, <2>3, <2>5 DEF OpenWallet
<1>7. CASE RollbackToken(r)
  <2>1. Empty(sess[r]) /\ refund[r] = "none"
    BY <1>1, <1>7 DEF RollbackToken, Opening
  <2>2. /\ [sess[r] EXCEPT !.tokenConsumed = 0] \in Session
        /\ Empty([sess[r] EXCEPT !.tokenConsumed = 0])
        /\ [sess[r] EXCEPT !.tokenConsumed = 0].tokenConsumed = 0
    BY <1>0, <2>1, NewSessions, EmptyUpdates
  <2>3. QED
    BY <1>3, <1>7, <2>1, <2>2 DEF RollbackToken
<1>8. QED
  BY <1>4, <1>5, <1>6, <1>7

\* What Settle leaves behind, for one outcome of the upstream call.
LEMMA SettleStep ==
    ASSUME TypeOK, NEW r \in Requests, Settle(r)
    PROVE  \E actual \in Nat :
             LET s == sess[r]
                 t == sess'[r]
                 d == actual - s.preConsumed
             IN /\ t.preConsumed = s.preConsumed /\ t.tokenConsumed = s.tokenConsumed
                /\ t.extraReserved = s.extraReserved /\ t.consumed = s.consumed
                /\ t.subPreConsumed = s.subPreConsumed /\ t.source = s.source
                /\ t.feePaid = s.feePaid /\ t.refunded = s.refunded
                /\ \/ /\ t.settled /\ t.fundingSettled = s.fundingSettled
                      /\ t.actual = actual /\ d = 0
                      /\ pc'[r] = "answered" /\ UNCHANGED <<wallet, subscription>>
                   \/ /\ t.settled = s.settled /\ t.fundingSettled
                      /\ t.actual = actual /\ t.delta = d
                      /\ pc'[r] = "settleToken"
                      /\ \/ ChargeWallet(r, d) /\ UNCHANGED subscription
                         \/ ChargeSub(r, d) /\ UNCHANGED wallet
                   \/ /\ t = s /\ pc'[r] = "answered"
                      /\ UNCHANGED <<wallet, subscription>>
<1>0. /\ sess \in [Requests -> Session] /\ sess[r] \in Session
      /\ pc \in [Requests -> HandlerStages]
  BY DEF TypeOK
<1>1. PICK actual \in Quotas :
        LET s == [sess[r] EXCEPT !.actual = actual]
            d == actual - s.preConsumed
        IN \/ /\ d = 0
              /\ sess' = [sess EXCEPT ![r] = [s EXCEPT !.settled = TRUE]]
              /\ pc' = [pc EXCEPT ![r] = "answered"]
              /\ UNCHANGED <<wallet, subscription>>
           \/ /\ sess' = [sess EXCEPT ![r] =
                          [s EXCEPT !.fundingSettled = TRUE, !.delta = d]]
              /\ pc' = [pc EXCEPT ![r] = "settleToken"]
              /\ \/ ChargeWallet(r, d) /\ UNCHANGED subscription
                 \/ ChargeSub(r, d) /\ UNCHANGED wallet
           \/ /\ sess' = sess /\ pc' = [pc EXCEPT ![r] = "answered"]
              /\ UNCHANGED <<wallet, subscription>>
  BY DEF Settle, Goto
<1>2. actual \in Nat
  BY AmountsAssumption
<1> DEFINE s == sess[r]
           a == [s EXCEPT !.actual = actual]
           d == actual - s.preConsumed
<1>3. a \in Session /\ a.preConsumed = s.preConsumed
  BY <1>0, <1>2 DEF Session
<1>4. CASE /\ d = 0
           /\ sess' = [sess EXCEPT ![r] = [a EXCEPT !.settled = TRUE]]
           /\ pc' = [pc EXCEPT ![r] = "answered"]
           /\ UNCHANGED <<wallet, subscription>>
  <2>1. sess'[r] = [a EXCEPT !.settled = TRUE]
    BY <1>0, <1>4
  <2>2. LET t == sess'[r] IN
        /\ t.preConsumed = s.preConsumed /\ t.tokenConsumed = s.tokenConsumed
        /\ t.extraReserved = s.extraReserved /\ t.consumed = s.consumed
        /\ t.subPreConsumed = s.subPreConsumed /\ t.source = s.source
        /\ t.feePaid = s.feePaid /\ t.refunded = s.refunded
        /\ t.settled /\ t.fundingSettled = s.fundingSettled
        /\ t.actual = actual
    BY <1>0, <1>2, <2>1 DEF Session
  <2>3. QED
    BY <1>0, <1>2, <1>4, <2>2
<1>5. CASE /\ sess' = [sess EXCEPT ![r] =
                          [a EXCEPT !.fundingSettled = TRUE, !.delta = d]]
           /\ pc' = [pc EXCEPT ![r] = "settleToken"]
           /\ \/ ChargeWallet(r, d) /\ UNCHANGED subscription
              \/ ChargeSub(r, d) /\ UNCHANGED wallet
  <2>1. sess'[r] = [a EXCEPT !.fundingSettled = TRUE, !.delta = d]
    BY <1>0, <1>5
  <2>2. LET t == sess'[r] IN
        /\ t.preConsumed = s.preConsumed /\ t.tokenConsumed = s.tokenConsumed
        /\ t.extraReserved = s.extraReserved /\ t.consumed = s.consumed
        /\ t.subPreConsumed = s.subPreConsumed /\ t.source = s.source
        /\ t.feePaid = s.feePaid /\ t.refunded = s.refunded
        /\ t.settled = s.settled /\ t.fundingSettled
        /\ t.actual = actual /\ t.delta = d
    BY <1>0, <1>2, <2>1 DEF Session
  <2>3. QED
    BY <1>0, <1>2, <1>5, <2>2
<1>6. CASE /\ sess' = sess /\ pc' = [pc EXCEPT ![r] = "answered"]
           /\ UNCHANGED <<wallet, subscription>>
  BY <1>0, <1>2, <1>6
<1>7. QED
  BY <1>1, <1>3, <1>4, <1>5, <1>6

\* Every step of a request keeps its flags.
LEMMA FlagsStep ==
    ASSUME TypeOK, NEW r \in Requests, Good(r),
           StartRequest(r) \/ Handler(r) \/ RefundGoroutine(r)
    PROVE  Flags(r)'
<1>0. /\ pc \in [Requests -> HandlerStages] /\ refund \in [Requests -> RefundStages]
      /\ sess \in [Requests -> Session] /\ sess[r] \in Session
      /\ Flags(r)
  BY DEF TypeOK, Good
<1> USE <1>0 DEF Flags, Closing, Reserving, Goto
<1>1. CASE StartRequest(r) \/ OpenLate(r) \/ OpenWallet(r) \/ RollbackToken(r)
  BY <1>1, OpeningStep DEF Fresh, Empty, Opening
<1>2. CASE PreConsumeToken(r)
  BY <1>2 DEF PreConsumeToken, Reject, Session, Sources
<1>3. CASE PreConsumeFunding(r)
  BY <1>3 DEF PreConsumeFunding, WalletConsumed, Session, Sources
<1>4. CASE Reserve(r)
  BY <1>4 DEF Reserve, ReserveSkips, WalletConsumed, Session, Sources
<1>5. CASE ReserveToken(r)
  BY <1>5 DEF ReserveToken, Session, Sources
<1>6. CASE RollbackReserve(r)
  BY <1>6 DEF RollbackReserve, RolledBack, Session, Sources
<1>7. CASE Settle(r)
  BY <1>7, SettleStep, SessionFields DEF Settle
<1>8. CASE SettleToken(r)
  BY <1>8 DEF SettleToken, Session, Sources
<1>9. CASE Answer(r)
  BY <1>9 DEF Answer, Session, Sources
<1>10. CASE UpstreamFails(r)
  BY <1>10 DEF UpstreamFails, Session, Sources
<1>11. CASE Refund(r)
  BY <1>11 DEF Refund, NeedsRefund, Session, Sources
<1>12. CASE FeeFunding(r)
  BY <1>12 DEF FeeFunding, FeeOnSubscription, Session, Sources
<1>13. CASE FeeToken(r)
  BY <1>13 DEF FeeToken, Session, Sources
<1>14. CASE RefundFunding(r)
  BY <1>14 DEF RefundFunding, Session, Sources
<1>15. CASE RefundMark(r)
  BY <1>15 DEF RefundMark, Fails, Session, Sources
<1>16. CASE RefundExtra(r)
  BY <1>16 DEF RefundExtra, Session, Sources
<1>17. CASE RefundToken(r)
  BY <1>17 DEF RefundToken, Session, Sources
<1>18. QED
  BY <1>1, <1>2, <1>3, <1>4, <1>5, <1>6, <1>7, <1>8, <1>9, <1>10, <1>11, <1>12, <1>13, <1>14, <1>15, <1>16, <1>17
  DEF Handler, RefundGoroutine

\* What Reserve leaves behind, for one target.
LEMMA ReserveStep ==
    ASSUME TypeOK, NEW r \in Requests, Reserve(r)
    PROVE  \E target \in Quotas :
             LET d == target - sess[r].preConsumed IN
             /\ ~ReserveSkips(sess[r], r, target)
             /\ \/ /\ pc'[r] = "reserveToken" /\ sess[r].source = "wallet"
                   /\ \E c \in Int :
                        /\ sess'[r] = [sess[r] EXCEPT !.consumed = c, !.delta = d]
                        /\ r \notin Image => c = sess[r].consumed + d
                   /\ r \notin Image => ChargeWallet(r, d) /\ UNCHANGED subscription
                \/ /\ pc'[r] = "reserveToken" /\ sess[r].source = "subscription"
                   /\ sess'[r] = [sess[r] EXCEPT !.delta = d]
                   /\ ChargeSub(r, d) /\ UNCHANGED wallet
                \/ /\ pc'[r] = "failing" /\ sess'[r] = sess[r]
                   /\ UNCHANGED <<wallet, subscription>>
<1>0. /\ pc \in [Requests -> HandlerStages] /\ sess \in [Requests -> Session]
      /\ sess[r] \in Session
  BY DEF TypeOK
<1> DEFINE d(target) == target - sess[r].preConsumed
<1>1. PICK target \in Quotas :
        /\ ~ReserveSkips(sess[r], r, target)
        /\ \/ /\ sess[r].source = "wallet" /\ r \in Image
              /\ sess' = [sess EXCEPT ![r].consumed = WalletConsumed(sess[r], d(target)),
                                      ![r].delta = d(target)]
              /\ Goto(r, "reserveToken")
           \/ /\ sess[r].source = "wallet" /\ r \notin Image
              /\ ChargeWallet(r, d(target)) /\ UNCHANGED subscription
              /\ sess' = [sess EXCEPT ![r].consumed = @ + d(target),
                                      ![r].delta = d(target)]
              /\ Goto(r, "reserveToken")
           \/ /\ sess[r].source = "subscription"
              /\ ChargeSub(r, d(target)) /\ UNCHANGED wallet
              /\ sess' = [sess EXCEPT ![r].delta = d(target)]
              /\ Goto(r, "reserveToken")
           \/ /\ Goto(r, "failing")
              /\ UNCHANGED <<sess, wallet, subscription>>
  BY DEF Reserve
<1>2. d(target) \in Int /\ sess[r].consumed \in Int
  BY <1>0, SessionFields, AmountsAssumption
<1>3. WalletConsumed(sess[r], d(target)) \in Int
  BY <1>2 DEF WalletConsumed
<1> HIDE DEF d
<1>4. CASE /\ sess[r].source = "wallet" /\ r \in Image
           /\ sess' = [sess EXCEPT ![r].consumed = WalletConsumed(sess[r], d(target)),
                                   ![r].delta = d(target)]
           /\ Goto(r, "reserveToken")
  BY <1>0, <1>1, <1>3, <1>4 DEF Goto, d
<1>5. CASE /\ sess[r].source = "wallet" /\ r \notin Image
           /\ ChargeWallet(r, d(target)) /\ UNCHANGED subscription
           /\ sess' = [sess EXCEPT ![r].consumed = @ + d(target),
                                   ![r].delta = d(target)]
           /\ Goto(r, "reserveToken")
  <2>1. sess[r].consumed + d(target) \in Int
    BY <1>2
  <2>2. /\ sess'[r] = [sess[r] EXCEPT !.consumed = sess[r].consumed + d(target),
                                      !.delta = d(target)]
        /\ pc'[r] = "reserveToken"
    BY <1>0, <1>5 DEF Goto
  <2>3. QED
    BY <1>1, <1>5, <2>1, <2>2 DEF d
<1>6. CASE /\ sess[r].source = "subscription"
           /\ ChargeSub(r, d(target)) /\ UNCHANGED wallet
           /\ sess' = [sess EXCEPT ![r].delta = d(target)]
           /\ Goto(r, "reserveToken")
  BY <1>0, <1>1, <1>6 DEF Goto, d
<1>7. CASE Goto(r, "failing") /\ UNCHANGED <<sess, wallet, subscription>>
  BY <1>0, <1>1, <1>7 DEF Goto
<1>8. QED
  BY <1>1, <1>4, <1>5, <1>6, <1>7

\* Every step of a request keeps its amounts.
LEMMA AmountsStep ==
    ASSUME TypeOK, NEW r \in Requests, Good(r),
           StartRequest(r) \/ Handler(r) \/ RefundGoroutine(r)
    PROVE  Amounts(r)'
<1>0. /\ pc \in [Requests -> HandlerStages] /\ refund \in [Requests -> RefundStages]
      /\ sess \in [Requests -> Session] /\ sess[r] \in Session
      /\ Flags(r) /\ Amounts(r)
  BY DEF TypeOK, Good
<1> USE <1>0 DEF Amounts, Opening, Reserving, Goto
<1>1. CASE StartRequest(r) \/ OpenLate(r) \/ OpenWallet(r) \/ RollbackToken(r)
  BY <1>1, OpeningStep DEF Fresh, Empty, Opening
<1>2. CASE PreConsumeToken(r)
  BY <1>2 DEF PreConsumeToken, Reject, Session, Sources
<1>3. CASE PreConsumeFunding(r)
  BY <1>3 DEF PreConsumeFunding, WalletConsumed, Session, Sources
<1>4. CASE Reserve(r)
  <2>1. PICK target \in Quotas :
          /\ ~ReserveSkips(sess[r], r, target)
          /\ \/ /\ pc'[r] = "reserveToken"
                /\ \E c \in Int : sess'[r] = [sess[r] EXCEPT !.consumed = c,
                                   !.delta = target - sess[r].preConsumed]
             \/ /\ pc'[r] = "reserveToken"
                /\ sess'[r] = [sess[r] EXCEPT
                                 !.delta = target - sess[r].preConsumed]
             \/ pc'[r] = "failing" /\ sess'[r] = sess[r]
    BY <1>4, ReserveStep
  <2>2. target - sess[r].preConsumed \in Nat
    <3>1. target \in Int /\ sess[r].preConsumed \in Int
      BY SessionFields, AmountsAssumption
    <3>2. ~(target <= sess[r].preConsumed)
      BY <2>1 DEF ReserveSkips
    <3>3. QED
      BY <3>1, <3>2
  <2>3. pc[r] = "relaying" /\ sess[r].source # "none"
    BY <1>4 DEF Reserve
  <2>4. QED
    BY <2>1, <2>2, <2>3 DEF Session, Sources
<1>5. CASE ReserveToken(r)
  BY <1>5 DEF ReserveToken, Session, Sources
<1>6. CASE RollbackReserve(r)
  BY <1>6 DEF RollbackReserve, RolledBack, Session, Sources
<1>7. CASE Settle(r)
  BY <1>7, SettleStep, SessionFields DEF Settle
<1>8. CASE SettleToken(r)
  BY <1>8 DEF SettleToken, Session, Sources
<1>9. CASE Answer(r)
  BY <1>9 DEF Answer, Session, Sources
<1>10. CASE UpstreamFails(r)
  BY <1>10 DEF UpstreamFails, Session, Sources
<1>11. CASE Refund(r)
  BY <1>11 DEF Refund, NeedsRefund, Session, Sources
<1>12. CASE FeeFunding(r)
  BY <1>12 DEF FeeFunding, FeeOnSubscription, Session, Sources
<1>13. CASE FeeToken(r)
  BY <1>13 DEF FeeToken, Session, Sources
<1>14. CASE RefundFunding(r)
  BY <1>14 DEF RefundFunding, Session, Sources
<1>15. CASE RefundMark(r)
  BY <1>15 DEF RefundMark, Fails, Session, Sources
<1>16. CASE RefundExtra(r)
  BY <1>16 DEF RefundExtra, Session, Sources
<1>17. CASE RefundToken(r)
  BY <1>17 DEF RefundToken, Session, Sources
<1>18. QED
  BY <1>1, <1>2, <1>3, <1>4, <1>5, <1>6, <1>7, <1>8, <1>9, <1>10, <1>11, <1>12, <1>13, <1>14, <1>15, <1>16, <1>17
  DEF Handler, RefundGoroutine

\* Every step of a request keeps its ledger: what it takes from or gives back
\* to a balance is what its session notes.
LEMMA LedgerStep ==
    ASSUME TypeOK, NEW r \in Requests, Good(r),
           StartRequest(r) \/ Handler(r) \/ RefundGoroutine(r),
           Exact(r)'
    PROVE  Ledger(r)'
<1>0. /\ pc \in [Requests -> HandlerStages] /\ refund \in [Requests -> RefundStages]
      /\ sess \in [Requests -> Session] /\ sess[r] \in Session
      /\ errlog \in [Requests -> BOOLEAN]
      /\ walletDebit \in [Requests -> Int] /\ tokenDebit \in [Requests -> Int]
      /\ subDebit \in [Requests -> Int]
  BY DEF TypeOK
<1>a. Exact(r) /\ ~errlog'[r]
  BY <1>0, LogStep DEF Exact, LogError
<1>b. Flags(r) /\ Amounts(r) /\ Ledger(r)
  BY <1>a DEF Good
<1>c. r \notin Image /\ "refundMark" \notin FaultPoints
  BY <1>a DEF Exact
<1> USE <1>0, <1>a, <1>b, <1>c
<1> DEFINE funds == walletDebit[r] + subDebit[r]
<1>d. /\ walletDebit[r] \in Int /\ subDebit[r] \in Int /\ tokenDebit[r] \in Int
      /\ sess'[r] \in Session
  BY SessionStep DEF Writes, Amounts, Reserving
<1>e. /\ sess[r].delta \in Int /\ sess[r].preConsumed \in Int
      /\ sess[r].tokenConsumed \in Int /\ sess[r].amount \in Int
      /\ sess[r].consumed \in Int
  BY SessionFields
<1>f. ASSUME pc[r] \in Opening \cup Reserving \cup {"relaying"}
      PROVE  /\ ~sess[r].settled /\ ~sess[r].fundingSettled /\ ~sess[r].refunded
             /\ refund[r] = "none" /\ sess[r].feePaid = 0
             /\ tokenDebit[r] = IF r \in Playground THEN 0
                               ELSE sess[r].tokenConsumed
             /\ funds = IF pc[r] \in Opening THEN 0
                        ELSE IF pc[r] \in Reserving
                        THEN sess[r].preConsumed + sess[r].delta
                        ELSE sess[r].preConsumed
  BY <1>d, <1>e, <1>f
  DEF Flags, Amounts, Ledger, Held, TokenHeld, Opening, Reserving, Closing
<1> USE DEF Goto, balances, wallet, token, subscription
<1>1. CASE StartRequest(r) \/ OpenLate(r) \/ OpenWallet(r) \/ RollbackToken(r)
  <2>1. tokenDebit'[r] = 0 /\ funds = 0
    <3>1. CASE StartRequest(r)
      <4>1. pc[r] = "idle" /\ UNCHANGED token
        BY <3>1 DEF StartRequest
      <4>2. QED
        BY <1>f, <4>1 DEF Opening, Amounts
    <3>2. CASE OpenLate(r)
      <4>1. pc[r] = "relaying" /\ sess[r].source = "none" /\ UNCHANGED token
        BY <3>2 DEF OpenLate
      <4>2. QED
        BY <1>f, <4>1 DEF Opening, Reserving, Amounts
    <3>3. CASE OpenWallet(r)
      <4>1. pc[r] = "openWallet" /\ UNCHANGED token
        BY <3>3 DEF OpenWallet
      <4>2. QED
        BY <1>f, <4>1 DEF Opening, Amounts
    <3>4. CASE RollbackToken(r)
      <4>1. pc[r] = "rollbackToken"
        BY <3>4 DEF RollbackToken
      <4>2. ChargeToken(r, -sess[r].tokenConsumed)
        BY <3>4 DEF RollbackToken, LogError
      <4>3. QED
        BY <1>d, <1>e, <1>f, <4>1, <4>2 DEF Opening, ChargeToken
    <3>5. QED
      BY <1>1, <3>1, <3>2, <3>3, <3>4
  <2>2. funds' = 0 /\ Fresh(r)' /\ refund'[r] = "none"
    BY <1>1, <2>1, OpeningStep
  <2>3. QED
    BY <2>1, <2>2
    DEF Fresh, Empty, Ledger, Held, TokenHeld, Opening, Reserving
<1>2. CASE PreConsumeToken(r)
  <2>1. /\ pc[r] = "preToken" /\ sess[r].tokenConsumed = 0
        /\ UNCHANGED <<wallet, subscription>> /\ refund'[r] = refund[r]
    BY <1>2 DEF PreConsumeToken, Amounts
  <2>2. sess[r].consumed = 0 /\ sess[r].preConsumed = 0
    BY <2>1 DEF Amounts, Opening
  <2>3. CASE /\ ChargeToken(r, sess[r].amount)
             /\ sess' = [sess EXCEPT ![r].tokenConsumed = sess[r].amount]
             /\ pc' = [pc EXCEPT ![r] = "preFunding"]
    <3>1. /\ sess'[r].tokenConsumed = sess[r].amount /\ sess'[r].feePaid = 0
          /\ ~sess'[r].settled /\ pc'[r] = "preFunding"
      BY <1>f, <2>1, <2>3 DEF Opening, Session
    <3>2. tokenDebit'[r] = IF r \in Playground THEN 0 ELSE sess[r].amount
      BY <1>d, <1>e, <1>f, <2>1, <2>3 DEF Opening, ChargeToken
    <3>3. QED
      BY <1>e, <1>f, <2>1, <3>1, <3>2 DEF Ledger, Held, TokenHeld, Opening
  <2>4. CASE Reject(r) /\ UNCHANGED token
    <3>1. /\ sess'[r].tokenConsumed = 0 /\ sess'[r].feePaid = 0
          /\ sess'[r].preConsumed = 0 /\ sess'[r].source = "none"
          /\ ~sess'[r].settled /\ ~sess'[r].fundingSettled /\ pc'[r] = "failing"
      BY <1>f, <2>1, <2>2, <2>4 DEF Opening, Session, Reject
    <3>2. QED
      BY <1>f, <2>1, <2>4, <3>1 DEF Ledger, Held, TokenHeld, Opening, Reserving
  <2>5. QED
    BY <1>2, <2>3, <2>4 DEF PreConsumeToken
<1>3. CASE PreConsumeFunding(r)
  <2>1. /\ pc[r] = "preFunding" /\ sess[r].tokenConsumed = sess[r].amount
        /\ tokenDebit'[r] = tokenDebit[r] /\ refund'[r] = refund[r]
        /\ sess[r].consumed = 0 /\ sess[r].amount \in Nat
    BY <1>3, SessionFields DEF PreConsumeFunding, Amounts, Opening
  <2>2. /\ pc'[r] \in {"relaying", "rollbackToken"}
        /\ sess'[r].tokenConsumed = sess[r].tokenConsumed /\ sess'[r].feePaid = 0
        /\ ~sess'[r].settled /\ ~sess'[r].fundingSettled
    BY <1>3, <1>f, <2>1 DEF PreConsumeFunding, WalletConsumed, Opening, Session
  <2>3. pc'[r] = "relaying" => funds' = sess[r].amount
    BY <1>3, <1>d, <1>f, <2>1
    DEF PreConsumeFunding, WalletPreConsume, SubscriptionPreConsume,
        ChargeWallet, ChargeSub, Opening
  <2>4. pc'[r] = "relaying" =>
          /\ sess'[r].preConsumed = sess[r].amount
          /\ sess'[r].source = "wallet" => sess'[r].consumed = sess[r].amount
    BY <1>3, <2>1 DEF PreConsumeFunding, WalletConsumed, Session
  <2>5. pc'[r] = "rollbackToken" => funds' = 0
    BY <1>3, <1>f, <2>1 DEF PreConsumeFunding, Opening
  <2>6. QED
    BY <1>e, <1>f, <2>1, <2>2, <2>3, <2>4, <2>5
    DEF Ledger, Held, TokenHeld, Opening, Reserving
<1>4. CASE Reserve(r)
  <2>1. /\ pc[r] = "relaying" /\ refund'[r] = refund[r]
        /\ tokenDebit'[r] = tokenDebit[r]
    BY <1>4 DEF Reserve
  <2>2. PICK target \in Quotas :
           LET d == target - sess[r].preConsumed IN
             \/ /\ pc'[r] = "reserveToken" /\ sess[r].source = "wallet"
                /\ \E c \in Int :
                     /\ sess'[r] = [sess[r] EXCEPT !.consumed = c, !.delta = d]
                     /\ c = sess[r].consumed + d
                /\ ChargeWallet(r, d) /\ UNCHANGED subscription
             \/ /\ pc'[r] = "reserveToken" /\ sess[r].source = "subscription"
                /\ sess'[r] = [sess[r] EXCEPT !.delta = d]
                /\ ChargeSub(r, d) /\ UNCHANGED wallet
             \/ /\ pc'[r] = "failing" /\ sess'[r] = sess[r]
                /\ UNCHANGED <<wallet, subscription>>
    BY <1>4, ReserveStep
  <2> DEFINE d == target - sess[r].preConsumed
  <2>3. d \in Int
    BY <1>e, AmountsAssumption
  <2> HIDE DEF d
  <2>4. CASE pc'[r] = "failing" /\ sess'[r] = sess[r] /\ UNCHANGED <<wallet, subscription>>
    BY <1>f, <2>1, <2>4 DEF Ledger, Held, TokenHeld, Opening, Reserving
  <2>5. CASE pc'[r] = "reserveToken"
    <3>1. /\ sess'[r].delta = d /\ sess'[r].preConsumed = sess[r].preConsumed
          /\ sess'[r].tokenConsumed = sess[r].tokenConsumed
          /\ sess'[r].feePaid = 0 /\ ~sess'[r].settled
          /\ sess'[r].source = sess[r].source
          /\ sess[r].source = "wallet" => sess'[r].consumed = sess[r].consumed + d
      BY <1>f, <2>1, <2>2, <2>5 DEF Session, d
    <3>2. funds' = sess[r].preConsumed + d
      <4>1. funds = sess[r].preConsumed
        BY <1>f, <2>1 DEF Opening, Reserving
      <4>2. \/ ChargeWallet(r, d) /\ UNCHANGED subscription
            \/ ChargeSub(r, d) /\ UNCHANGED wallet
        BY <2>2, <2>5 DEF d
      <4>3. QED
        BY <1>d, <2>3, <4>1, <4>2 DEF ChargeWallet, ChargeSub
    <3>3. sess[r].source = "wallet" => sess[r].consumed = sess[r].preConsumed
      BY <1>e, <2>1 DEF Ledger, Opening, Reserving
    <3>4. QED
      BY <1>e, <1>f, <2>1, <2>3, <2>5, <3>1, <3>2, <3>3
      DEF Ledger, Held, TokenHeld, Opening, Reserving
  <2>6. QED
    BY <2>2, <2>4, <2>5 DEF d
<1> USE DEF Flags, Amounts, Ledger, Held, TokenHeld, Opening, Reserving, Closing
<1>5. CASE ReserveToken(r)
  BY <1>5 DEF ReserveToken, ChargeToken, Session, Sources
<1>6. CASE RollbackReserve(r)
  <2>1. /\ pc[r] = "rollbackReserve" /\ pc'[r] = "failing"
        /\ refund'[r] = refund[r] /\ tokenDebit'[r] = tokenDebit[r]
        /\ sess[r].source # "none"
    BY <1>6 DEF RollbackReserve
  <2>2. /\ sess'[r].preConsumed = sess[r].preConsumed
        /\ sess'[r].tokenConsumed = sess[r].tokenConsumed
        /\ sess'[r].feePaid = 0 /\ sess'[r].source = sess[r].source
        /\ ~sess'[r].settled /\ ~sess'[r].fundingSettled
        /\ sess[r].source = "wallet" =>
              sess'[r].consumed = sess[r].consumed - sess[r].delta
    BY <1>6, <1>f, <2>1 DEF RollbackReserve, RolledBack, LogError, Session
  <2>3. \/ ChargeWallet(r, -sess[r].delta) /\ UNCHANGED subscription
        \/ ChargeSub(r, -sess[r].delta) /\ UNCHANGED wallet
    BY <1>6 DEF RollbackReserve, LogError
  <2>4. funds' = sess[r].preConsumed
    BY <1>d, <1>e, <1>f, <2>1, <2>3 DEF ChargeWallet, ChargeSub
  <2>5. sess[r].source = "wallet" =>
          sess[r].consumed = sess[r].preConsumed + sess[r].delta
    BY <2>1
  <2>6. QED
    BY <1>e, <1>f, <2>1, <2>2, <2>4, <2>5
<1>7. CASE Settle(r)
  <2>1. /\ pc[r] = "relaying" /\ refund'[r] = refund[r]
        /\ tokenDebit'[r] = tokenDebit[r]
    BY <1>7 DEF Settle
  <2>2. /\ tokenDebit[r] = IF r \in Playground THEN 0 ELSE sess[r].preConsumed
        /\ funds = sess[r].preConsumed /\ refund[r] = "none"
        /\ ~sess[r].settled /\ ~sess[r].fundingSettled /\ sess[r].feePaid = 0
        /\ sess[r].tokenConsumed = sess[r].preConsumed
        /\ sess[r].source = "wallet" => sess[r].consumed = sess[r].preConsumed
    BY <1>e, <1>f, <2>1
  <2>3. PICK actual \in Nat :
          LET s == sess[r]
              t == sess'[r]
              d == actual - s.preConsumed
          IN /\ t.preConsumed = s.preConsumed /\ t.tokenConsumed = s.tokenConsumed
             /\ t.consumed = s.consumed /\ t.source = s.source
             /\ t.feePaid = s.feePaid
             /\ \/ /\ t.settled /\ t.fundingSettled = s.fundingSettled
                   /\ t.actual = actual /\ d = 0
                   /\ pc'[r] = "answered" /\ UNCHANGED <<wallet, subscription>>
                \/ /\ t.settled = s.settled /\ t.fundingSettled
                   /\ t.actual = actual /\ t.delta = d
                   /\ pc'[r] = "settleToken"
                   /\ \/ ChargeWallet(r, d) /\ UNCHANGED subscription
                      \/ ChargeSub(r, d) /\ UNCHANGED wallet
                \/ /\ t = s /\ pc'[r] = "answered"
                   /\ UNCHANGED <<wallet, subscription>>
    BY <1>7, SettleStep
  <2>4. CASE pc'[r] = "settleToken"
    <3>1. funds' = actual
      BY <1>d, <1>e, <2>2, <2>3, <2>4 DEF ChargeWallet, ChargeSub
    <3>2. QED
      BY <1>e, <2>1, <2>2, <2>3, <2>4, <3>1
  <2>5. CASE pc'[r] = "answered"
    <3>1. funds' = funds
      BY <2>3, <2>5
    <3>2. CASE /\ sess'[r].settled /\ sess'[r].actual = actual
               /\ actual - sess[r].preConsumed = 0
      BY <1>e, <2>1, <2>2, <2>3, <2>5, <3>1, <3>2
    <3>3. CASE sess'[r] = sess[r]
      BY <1>e, <2>1, <2>2, <2>5, <3>1, <3>3
    <3>4. QED
      BY <2>3, <2>5, <3>2, <3>3
  <2>6. QED
    BY <2>3, <2>4, <2>5
<1>8. CASE SettleToken(r)
  BY <1>8 DEF SettleToken, ChargeToken, LogError, Session, Sources
<1>9. CASE Answer(r)
  BY <1>9 DEF Answer, Session, Sources
<1>10. CASE UpstreamFails(r)
  BY <1>10 DEF UpstreamFails, Session, Sources
<1>11. CASE Refund(r)
  BY <1>11 DEF Refund, NeedsRefund, Session, Sources
<1>12. CASE FeeFunding(r)
  <2>1. /\ pc[r] = "feeFunding" /\ pc'[r] \in {"feeToken", "done"}
        /\ refund'[r] = refund[r] /\ tokenDebit'[r] = tokenDebit[r]
        /\ sess[r].feePaid = 0 /\ sess[r].fee \in Int
    BY <1>12, SessionFields DEF FeeFunding
  <2>2. CASE /\ sess' = [sess EXCEPT ![r].feePaid = sess[r].fee]
             /\ pc'[r] = "feeToken"
             /\ \/ ChargeWallet(r, sess[r].fee) /\ UNCHANGED subscription
                \/ ChargeSub(r, sess[r].fee) /\ UNCHANGED wallet
    <3>1. funds' = funds + sess[r].fee
      BY <1>d, <2>1, <2>2 DEF ChargeWallet, ChargeSub
    <3>2. /\ sess'[r].feePaid = sess[r].fee /\ sess'[r].source = sess[r].source
          /\ sess'[r].preConsumed = sess[r].preConsumed
          /\ sess'[r].tokenConsumed = sess[r].tokenConsumed
          /\ sess'[r].extraReserved = sess[r].extraReserved
          /\ sess'[r].consumed = sess[r].consumed
          /\ sess'[r].actual = sess[r].actual
          /\ sess'[r].settled = sess[r].settled
          /\ sess'[r].fundingSettled = sess[r].fundingSettled
      BY <2>2 DEF Session
    <3>3. Held(r)' = Held(r) /\ Held(r) \in Int
      BY <2>1, <2>2, <3>2, SessionFields
    <3>4. TokenHeld(r)' = TokenHeld(r)
      BY <2>1, <2>2, <3>2, SessionFields
    <3>5. QED
      BY <1>d, <2>1, <2>2, <3>1, <3>2, <3>3, <3>4
  <2>3. CASE pc'[r] = "done" /\ UNCHANGED <<sess, wallet, subscription>>
    BY <2>1, <2>3, SessionFields
  <2>4. QED
    BY <1>12, <2>2, <2>3 DEF FeeFunding
<1>13. CASE FeeToken(r)
  BY <1>13 DEF FeeToken, ChargeToken, LogError, Session, Sources
<1>14. CASE RefundFunding(r)
  <2>1. /\ refund[r] = "funding" /\ pc' = pc /\ tokenDebit'[r] = tokenDebit[r]
        /\ pc[r] \in Closing
        /\ ~sess[r].settled /\ ~sess[r].fundingSettled
    BY <1>14 DEF RefundFunding
  <2>2. /\ sess[r].subPreConsumed \in Int /\ sess[r].extraReserved \in Int
        /\ sess[r].feePaid \in Int /\ sess[r].preConsumed \in Nat
    BY SessionFields
  <2>3. funds = sess[r].preConsumed + sess[r].feePaid
    BY <2>1
  <2>4. CASE /\ sess[r].source = "wallet" /\ UNCHANGED <<sess, subscription>>
             /\ ChargeWallet(r, IF sess[r].consumed <= 0 THEN 0 ELSE -sess[r].consumed)
             /\ refund' = [refund EXCEPT ![r] = "extra"]
    <3>1. sess[r].consumed = sess[r].preConsumed
      BY <1>e, <2>1, <2>4
    <3>2. ChargeWallet(r, -sess[r].preConsumed)
      BY <1>e, <2>2, <2>4, <3>1
    <3>3. funds' = sess[r].feePaid
      BY <1>d, <2>2, <2>3, <2>4, <3>2 DEF ChargeWallet
    <3>4. QED
      BY <1>d, <1>e, <2>1, <2>2, <2>4, <3>1, <3>3
  <2>5. CASE /\ sess[r].source = "subscription" /\ UNCHANGED <<sess, wallet>>
             /\ ChargeSub(r, -sess[r].subPreConsumed)
             /\ refund' = [refund EXCEPT ![r] = "mark"]
    <3>1. funds' = sess[r].extraReserved + sess[r].feePaid
      BY <1>d, <2>2, <2>3, <2>5 DEF ChargeSub
    <3>2. QED
      BY <1>d, <1>e, <2>1, <2>2, <2>5, <3>1
  <2>6. CASE /\ sess[r].source = "subscription"
             /\ sess' = [sess EXCEPT ![r].attempts = @ + 1]
             /\ UNCHANGED <<refund, wallet, subscription>>
    BY <1>d, <2>1, <2>6 DEF Session
  <2>7. QED
    BY <1>14, <2>4, <2>5, <2>6 DEF RefundFunding, LogError
<1>15. CASE RefundMark(r)
  BY <1>15 DEF RefundMark, Fails, Session, Sources
<1>16. CASE RefundExtra(r)
  BY <1>16 DEF RefundExtra, ChargeSub, LogError, Session, Sources
<1>17. CASE RefundToken(r)
  BY <1>17 DEF RefundToken, ChargeToken, LogError, Session, Sources
<1>18. QED
  BY <1>1, <1>2, <1>3, <1>4, <1>5, <1>6, <1>7, <1>8, <1>9, <1>10, <1>11, <1>12, <1>13, <1>14, <1>15, <1>16, <1>17
  DEF Handler, RefundGoroutine

-----------------------------------------------------------------------------
(* Metering. *)

\* A conversation is not moved to another funding source by its handler.
LEMMA MeterHandler ==
    ASSUME TypeOK, NEW r \in Requests, Good(r), MeterLedger(r),
           StartRequest(r) \/ Handler(r) \/ RefundGoroutine(r)
    PROVE  MeterLedger(r)'
<1>0. /\ pc \in [Requests -> HandlerStages] /\ refund \in [Requests -> RefundStages]
      /\ sess \in [Requests -> Session] /\ sess[r] \in Session
      /\ talking \subseteq Realtime
  BY DEF TypeOK
<1>1. talking' = talking /\ meter' = meter /\ metered' = metered
  BY MeteringStays DEF metering
<1>2. ~errlog'[r] => ~errlog[r]
  BY LogStep DEF LogError, TypeOK
<1>3. ASSUME r \in talking
      PROVE  /\ pc'[r] \in {"relaying", "settleToken", "answered", "done"}
             /\ sess'[r].source = sess[r].source
  <2>1. pc[r] \in {"relaying", "settleToken", "answered", "done"} /\ r \in Realtime
    BY <1>0, <1>3 DEF MeterLedger
  <2>2. Settle(r) \/ SettleToken(r) \/ Answer(r) \/ RefundGoroutine(r)
    BY <1>3, <2>1 DEF Handler, StartRequest, OpenLate, OpenWallet, PreConsumeToken,
      PreConsumeFunding, RollbackToken, Reserve, ReserveToken, RollbackReserve,
      UpstreamFails, Refund, FeeFunding, FeeToken
  <2>3. CASE Settle(r)
    BY <2>3, SettleStep
  <2>4. CASE SettleToken(r)
    BY <1>0, <2>4 DEF SettleToken, Goto, Session
  <2>5. CASE Answer(r)
    BY <1>0, <2>1, <2>5 DEF Answer, Goto
  <2>6. CASE RefundGoroutine(r)
    BY <1>0, <2>1, <2>6 DEF RefundGoroutine, RefundFunding, RefundMark, RefundExtra,
      RefundToken, Session
  <2>7. QED
    BY <2>2, <2>3, <2>4, <2>5, <2>6
<1>4. CASE r \in talking
  BY <1>1, <1>2, <1>3, <1>4 DEF MeterLedger, Pending
<1>5. CASE r \notin talking
  BY <1>1, <1>2, <1>5 DEF MeterLedger, Pending, Callers
<1>6. QED
  BY <1>4, <1>5

\* A step of the metering of r, as seen by everything else: it moves one of
\* its calls, charges what the call is about, and reports an error or none.
MeterMoves(r) ==
    /\ UNCHANGED <<pc, sess, refund, walletDebit, tokenDebit, subDebit, subActive,
                   period>>
    /\ errlog' = errlog \/ LogError(r)
    /\ faults' \in 0..MaxFaults
    /\ talking \subseteq talking' /\ talking' \subseteq talking \cup {r}
    /\ userQuota' \in Int /\ tokenRemain' \in Int /\ subUsed' \in Nat
    /\ userQuota' <= userQuota /\ tokenRemain' <= tokenRemain

LEMMA MeteringStep ==
    ASSUME TypeOK, NEW r \in Requests, MeterLedger(r), Metering(r)
    PROVE  /\ TypeOK' /\ MeterMoves(r) /\ MeterLedger(r)'
           /\ \A q \in Requests \ {r} : /\ meter'[q] = meter[q]
                                        /\ metered'[q] = metered[q]
<1>0. /\ meter \in [Requests -> [Callers -> Call]]
      /\ metered \in [Requests -> [wallet: Nat, sub: Nat, token: Nat]]
      /\ metered[r] \in [wallet: Nat, sub: Nat, token: Nat]
      /\ talking \subseteq Realtime /\ Realtime \subseteq Requests
      /\ userQuota \in Int /\ tokenRemain \in Int /\ subUsed \in Nat
      /\ faults \in 0..MaxFaults /\ MaxFaults \in Nat /\ Quotas \subseteq Nat
      /\ errlog \in [Requests -> BOOLEAN]
  BY RequestsAssumption, AmountsAssumption DEF TypeOK
<1>m. metered[r].wallet \in Nat /\ metered[r].sub \in Nat /\ metered[r].token \in Nat
  BY <1>0
<1>f. \A point : Works \/ Fails(point) => faults' \in 0..MaxFaults
  BY <1>0 DEF Works, Fails
<1>1. ASSUME MeterMoves(r), meter' \in [Requests -> [Callers -> Call]],
             metered' \in [Requests -> [wallet: Nat, sub: Nat, token: Nat]],
             talking' \subseteq Realtime
      PROVE  TypeOK'
  <2>1. errlog' \in [Requests -> BOOLEAN]
    BY <1>0, <1>1 DEF MeterMoves, LogError
  <2>2. QED
    BY <1>1, <2>1 DEF TypeOK, MeterMoves, period
<1>2. CASE Connect(r)
  <2>1. MeterMoves(r)
    BY <1>0, <1>2 DEF Connect, MeterMoves, balances, wallet, token, subscription
  <2>2. talking' \subseteq Realtime /\ UNCHANGED <<meter, metered>> /\ r \in talking'
    BY <1>0, <1>2 DEF Connect
  <2>3. MeterLedger(r)'
    BY <1>2, <2>2 DEF MeterLedger, Connect, Pending
  <2>4. TypeOK'
    BY <1>0, <1>1, <2>1, <2>2
  <2>5. QED
    BY <2>1, <2>2, <2>3, <2>4
<1>3. ASSUME NEW c \in Callers,
             PreWssConsumeQuota(r, c) \/ MeterFunding(r, c) \/ MeterToken(r, c)
      PROVE  /\ TypeOK' /\ MeterMoves(r) /\ MeterLedger(r)'
             /\ \A q \in Requests \ {r} : meter'[q] = meter[q] /\ metered'[q] = metered[q]
  <2> DEFINE x == meter[r][c]
             d == IF c = "reader" THEN "main" ELSE "reader"
  <2>0. /\ x \in Call /\ x.quota \in Nat /\ x.calls \in Nat
        /\ d \in Callers /\ d # c /\ {c, d} = {"reader", "main"}
        /\ Callers = {"reader", "main"} /\ meter[r] \in [Callers -> Call]
        /\ meter[r][d] \in Call
    BY <1>0 DEF Call, Callers
  <2>a. /\ Pending(r, c) \in Nat /\ Pending(r, d) \in Nat
        /\ Pending(r, "reader") + Pending(r, "main") = Pending(r, c) + Pending(r, d)
    BY <2>0 DEF Pending, Call
  <2>p. Pending(r, "reader") \in Nat /\ Pending(r, "main") \in Nat
    BY <2>0 DEF Pending, Call
  <2>t. r \in talking
    BY <1>3, <2>0 DEF MeterLedger, PreWssConsumeQuota, MayCall, MeterFunding, MeterToken
  \* The step moves the call of c only.
  <2>1. ASSUME NEW y \in Call, meter' = [meter EXCEPT ![r] = [meter[r] EXCEPT ![c] = y]]
        PROVE  /\ meter' \in [Requests -> [Callers -> Call]]
               /\ \A q \in Requests \ {r} : meter'[q] = meter[q]
               /\ meter'[r][c] = y /\ meter'[r][d] = meter[r][d]
               /\ Pending(r, d)' = Pending(r, d)
               /\ Pending(r, c)' = IF y.at = "token" THEN y.quota ELSE 0
               /\ Pending(r, c)' \in Nat
               /\ (Pending(r, "reader") + Pending(r, "main"))' =
                      Pending(r, c)' + Pending(r, d)
    <3>1. /\ meter' \in [Requests -> [Callers -> Call]]
          /\ \A q \in Requests \ {r} : meter'[q] = meter[q]
          /\ meter'[r][c] = y /\ meter'[r][d] = meter[r][d]
      BY <1>0, <2>0, <2>1
    <3>2. /\ Pending(r, d)' = Pending(r, d)
          /\ Pending(r, c)' = IF y.at = "token" THEN y.quota ELSE 0
      BY <3>1 DEF Pending
    <3>3. Pending(r, c)' \in Nat
      BY <2>1, <3>2 DEF Call
    <3>4. (Pending(r, "reader") + Pending(r, "main"))' = Pending(r, c)' + Pending(r, d)'
      BY <2>0, <2>a, <3>2, <3>3 DEF d
    <3>5. QED
      BY <3>1, <3>2, <3>3, <3>4
  <2>2. ASSUME NEW stage \in {"idle", "funding", "token", "stopped"},
               CallAt(r, c, stage)
        PROVE  \E y \in Call : /\ y.at = stage /\ y.quota = x.quota
                               /\ meter' = [meter EXCEPT ![r] = [meter[r] EXCEPT ![c] = y]]
    <3>1. [x EXCEPT !.at = stage] \in Call
      BY <2>0, <2>2 DEF Call
    <3>2. [x EXCEPT !.at = stage].at = stage /\ [x EXCEPT !.at = stage].quota = x.quota
      BY <2>0 DEF Call
    <3>3. meter' = [meter EXCEPT ![r] = [meter[r] EXCEPT ![c] = [x EXCEPT !.at = stage]]]
      BY <2>2 DEF CallAt
    <3>4. QED
      BY <3>1, <3>2, <3>3
  <2>3. CallFails(r, c) => CallAt(r, c, "stopped") \/ CallAt(r, c, "idle")
    BY DEF CallFails
  <2> HIDE DEF x, d
  \* A failed call, or one that only begins, charges nothing.
  <2>4. ASSUME NEW y \in Call, y.at # "token", x.at # "token",
               meter' = [meter EXCEPT ![r] = [meter[r] EXCEPT ![c] = y]],
               MeterMoves(r), UNCHANGED <<metered, talking>>
        PROVE  /\ TypeOK' /\ MeterMoves(r) /\ MeterLedger(r)'
               /\ \A q \in Requests \ {r} : meter'[q] = meter[q] /\ metered'[q] = metered[q]
    <3>1. /\ Pending(r, c) = 0 /\ Pending(r, c)' = 0
          /\ meter' \in [Requests -> [Callers -> Call]]
          /\ (Pending(r, "reader") + Pending(r, "main"))' = Pending(r, c)' + Pending(r, d)
      BY <2>1, <2>4 DEF Pending, x
    <3>2. ~errlog'[r] => ~errlog[r]
      BY <1>0, <2>4 DEF MeterMoves, LogError
    <3>3. ~errlog'[r] => metered'[r].wallet + metered'[r].sub =
             metered'[r].token + Pending(r, "reader")' + Pending(r, "main")'
      <4>1. Pending(r, "reader")' \in Nat /\ Pending(r, "main")' \in Nat
        BY <2>0, <3>1 DEF Pending, Call
      <4>2. metered'[r] = metered[r]
        BY <2>4
      <4>3. ~errlog[r] => metered[r].wallet + metered[r].sub =
               metered[r].token + Pending(r, c) + Pending(r, d)
        BY <1>m, <2>a, <2>p DEF MeterLedger
      <4>4. QED
        BY <1>m, <2>a, <3>1, <3>2, <4>1, <4>2, <4>3
    <3>4. MeterLedger(r)'
      BY <2>4, <2>t, <3>3 DEF MeterLedger, MeterMoves
    <3>5. QED
      BY <1>0, <1>1, <2>1, <2>4, <3>1, <3>4
  <2>5. CASE PreWssConsumeQuota(r, c)
    <3>1. MeterMoves(r)
      BY <1>0, <1>f, <2>5 DEF PreWssConsumeQuota, MeterMoves, balances, wallet, token, subscription
    <3>2. UNCHANGED <<metered, talking>> /\ x.at # "token"
      BY <2>5 DEF PreWssConsumeQuota, MayCall, x
    <3>3. ASSUME NEW q \in Quotas,
                 meter' = [meter EXCEPT ![r][c] =
                            [at |-> "funding", quota |-> q, calls |-> @.calls + 1]]
          PROVE  \E y \in Call : y.at # "token"
                   /\ meter' = [meter EXCEPT ![r] = [meter[r] EXCEPT ![c] = y]]
      <4> DEFINE y == [at |-> "funding", quota |-> q, calls |-> x.calls + 1]
      <4>1. y \in Call /\ y.at # "token"
        BY <1>0, <2>0 DEF Call
      <4>2. meter' = [meter EXCEPT ![r] = [meter[r] EXCEPT ![c] = y]]
        BY <3>3 DEF x
      <4>3. QED
        BY <4>1, <4>2
    <3>4. \E y \in Call : y.at # "token"
             /\ meter' = [meter EXCEPT ![r] = [meter[r] EXCEPT ![c] = y]]
      <4>1. \/ CallFails(r, c)
            \/ \E q \in Quotas : meter' = [meter EXCEPT ![r][c] =
                 [at |-> "funding", quota |-> q, calls |-> @.calls + 1]]
        BY <2>5 DEF PreWssConsumeQuota
      <4>2. QED
        BY <2>2, <2>3, <3>3, <4>1
    <3>5. QED
      BY <2>4, <3>1, <3>2, <3>4
  <2>6. CASE MeterFunding(r, c)
    <3>1. x.at = "funding" /\ UNCHANGED talking /\ UNCHANGED errlog /\ UNCHANGED <<pc, sess>>
      BY <2>6 DEF MeterFunding, x
    <3>2. MeterMoves(r)
      <4>1. /\ userQuota' = userQuota - x.quota \/ userQuota' = userQuota
            /\ subUsed' = NewUsed(x.quota) \/ subUsed' = subUsed
            /\ Works \/ Fails("meterFunding")
            /\ tokenRemain' = tokenRemain
            /\ UNCHANGED <<pc, sess, refund, walletDebit, tokenDebit, subDebit,
                           subActive, period, talking, errlog>>
        BY <2>6 DEF MeterFunding, x, token
      <4>2. NewUsed(x.quota) \in Nat
        BY <1>0, <2>0 DEF NewUsed
      <4>3. /\ userQuota' \in Int /\ userQuota' <= userQuota
            /\ tokenRemain' \in Int /\ tokenRemain' <= tokenRemain /\ subUsed' \in Nat
        BY <1>0, <2>0, <4>1, <4>2
      <4>4. faults' \in 0..MaxFaults
        BY <1>f, <4>1
      <4>5. QED
        BY <4>1, <4>3, <4>4 DEF MeterMoves
    <3>3. CASE CallFails(r, c) /\ UNCHANGED metered
      BY <2>2, <2>3, <2>4, <3>1, <3>2, <3>3
    <3>4. CASE /\ CallAt(r, c, "token")
               /\ \/ /\ sess[r].source # "subscription"
                     /\ metered' = [metered EXCEPT ![r].wallet = @ + x.quota]
                  \/ /\ sess[r].source = "subscription"
                     /\ metered' = [metered EXCEPT ![r].sub = @ + x.quota]
      <4>1. PICK y \in Call : /\ y.at = "token" /\ y.quota = x.quota
                              /\ meter' = [meter EXCEPT ![r] = [meter[r] EXCEPT ![c] = y]]
        BY <2>2, <3>4
      <4>2. /\ metered' \in [Requests -> [wallet: Nat, sub: Nat, token: Nat]]
            /\ \A q \in Requests \ {r} : metered'[q] = metered[q]
            /\ metered'[r].token = metered[r].token
            /\ metered'[r].wallet + metered'[r].sub =
                  metered[r].wallet + metered[r].sub + x.quota
        BY <1>0, <1>m, <2>0, <3>4
      <4>3. /\ metered'[r].wallet # 0 => sess[r].source # "subscription"
            /\ metered'[r].sub # 0 => sess[r].source = "subscription"
        BY <1>0, <1>m, <2>0, <3>4 DEF MeterLedger
      <4>4. /\ Pending(r, c) = 0 /\ Pending(r, c)' = x.quota
            /\ meter' \in [Requests -> [Callers -> Call]]
            /\ (Pending(r, "reader") + Pending(r, "main"))' = Pending(r, c)' + Pending(r, d)
        BY <2>1, <3>1, <4>1 DEF Pending, x
      <4>5. ~errlog'[r] => metered'[r].wallet + metered'[r].sub =
               metered'[r].token + Pending(r, "reader")' + Pending(r, "main")'
        <5>1. Pending(r, "reader")' \in Nat /\ Pending(r, "main")' \in Nat
          BY <2>0, <4>4 DEF Pending, Call
        <5>2. QED
          <6>1. ~errlog[r] => metered[r].wallet + metered[r].sub =
                   metered[r].token + Pending(r, c) + Pending(r, d)
            BY <1>m, <2>a, <2>p DEF MeterLedger
          <6>2. ~errlog'[r] => ~errlog[r]
            BY <3>1
          <6>3. /\ metered'[r].token \in Nat
                /\ Pending(r, "reader")' + Pending(r, "main")' = x.quota + Pending(r, d)
            BY <1>m, <2>0, <4>2, <4>4
          <6>4. ASSUME ~errlog'[r]
                PROVE  metered'[r].wallet + metered'[r].sub =
                          metered[r].token + Pending(r, d) + x.quota
            BY <1>m, <2>0, <2>a, <4>2, <4>4, <6>1, <6>2, <6>4
          <6>5. QED
            BY <1>m, <2>0, <2>a, <4>2, <5>1, <6>3, <6>4
      <4>6. MeterLedger(r)'
        BY <2>t, <3>1, <4>3, <4>5 DEF MeterLedger
      <4>7. QED
        BY <1>0, <1>1, <2>1, <3>1, <3>2, <4>1, <4>2, <4>4, <4>6
    <3>5. QED
      BY <2>6, <3>3, <3>4 DEF MeterFunding, x
  <2>7. CASE MeterToken(r, c)
    <3>1. x.at = "token" /\ UNCHANGED talking /\ UNCHANGED <<pc, sess>>
      BY <2>7 DEF MeterToken, x
    <3>2. MeterMoves(r)
      <4>1. /\ tokenRemain' = tokenRemain - x.quota \/ tokenRemain' = tokenRemain
            /\ Works \/ Fails("meterToken")
            /\ userQuota' = userQuota /\ subUsed' = subUsed
            /\ errlog' = errlog \/ LogError(r)
            /\ UNCHANGED <<pc, sess, refund, walletDebit, tokenDebit, subDebit,
                           subActive, period, talking>>
        BY <2>7 DEF MeterToken, x, wallet, subscription
      <4>2. /\ userQuota' \in Int /\ userQuota' <= userQuota
            /\ tokenRemain' \in Int /\ tokenRemain' <= tokenRemain /\ subUsed' \in Nat
        BY <1>0, <2>0, <4>1
      <4>3. faults' \in 0..MaxFaults
        BY <1>f, <4>1
      <4>4. QED
        BY <4>1, <4>2, <4>3 DEF MeterMoves
    <3>3. PICK y \in Call : /\ y.at # "token"
                            /\ meter' = [meter EXCEPT ![r] = [meter[r] EXCEPT ![c] = y]]
      <4>1. CallFails(r, c) \/ CallAt(r, c, "idle")
        BY <2>7 DEF MeterToken
      <4>2. QED
        BY <2>2, <2>3, <4>1
    <3>4. /\ Pending(r, c) = x.quota /\ Pending(r, c)' = 0
          /\ meter' \in [Requests -> [Callers -> Call]]
          /\ (Pending(r, "reader") + Pending(r, "main"))' = Pending(r, c)' + Pending(r, d)
      BY <2>1, <3>1, <3>3 DEF Pending, x
    <3>5. CASE UNCHANGED errlog /\ metered' = [metered EXCEPT ![r].token = @ + x.quota]
      <4>1. /\ metered' \in [Requests -> [wallet: Nat, sub: Nat, token: Nat]]
            /\ \A q \in Requests \ {r} : metered'[q] = metered[q]
            /\ metered'[r].token = metered[r].token + x.quota
            /\ metered'[r].wallet = metered[r].wallet /\ metered'[r].sub = metered[r].sub
        BY <1>0, <1>m, <2>0, <3>5
      <4>2. ~errlog'[r] => metered'[r].wallet + metered'[r].sub =
               metered'[r].token + Pending(r, "reader")' + Pending(r, "main")'
        <5>1. Pending(r, "reader")' \in Nat /\ Pending(r, "main")' \in Nat
          BY <2>0, <3>4 DEF Pending, Call
        <5>2. QED
          <6>1. ~errlog[r] => metered[r].wallet + metered[r].sub =
                   metered[r].token + Pending(r, c) + Pending(r, d)
            BY <1>m, <2>a, <2>p DEF MeterLedger
          <6>2. ~errlog'[r] => ~errlog[r]
            BY <3>5
          <6>3. QED
            BY <1>m, <2>0, <2>a, <3>4, <4>1, <5>1, <6>1, <6>2
      <4>3. MeterLedger(r)'
        BY <2>t, <3>1, <4>1, <4>2 DEF MeterLedger
      <4>4. QED
        BY <1>0, <1>1, <2>1, <3>1, <3>2, <3>3, <3>4, <4>1, <4>3
    <3>6. CASE LogError(r) /\ UNCHANGED metered
      <4>1. errlog'[r]
        BY <1>0, <3>6 DEF LogError
      <4>2. MeterLedger(r)'
        BY <2>t, <3>1, <3>6, <4>1 DEF MeterLedger
      <4>3. QED
        BY <1>0, <1>1, <2>1, <3>1, <3>2, <3>3, <3>4, <3>6, <4>2
    <3>7. QED
      BY <2>7, <3>5, <3>6 DEF MeterToken, x
  <2>8. QED
    BY <1>3, <2>5, <2>6, <2>7
<1>4. QED
  BY <1>2, <1>3 DEF Metering

\* A reset of the subscription's usage, or its end, touches no request.
LEMMA PeriodStep ==
    ASSUME TypeOK,
           SubscriptionEnds \/ PeriodEnds \/ ResetDueSubscriptions \/ AdminReset
    PROVE  /\ TypeOK'
           /\ UNCHANGED <<pc, sess, refund, wallet, token, subDebit, metering, errlog>>
<1>0. /\ SubDebits \in [Requests -> Int] /\ resets \in 0..MaxResets /\ MaxResets \in Nat
      /\ resetDue \in BOOLEAN
  BY SubDebitsType, AmountsAssumption DEF TypeOK
<1>1. UNCHANGED <<pc, sess, refund, wallet, token, subDebit, metering, errlog, faults>>
  BY DEF SubscriptionEnds, PeriodEnds, ResetDueSubscriptions, AdminReset, ResetUsage,
         balances, subscription
<1>2. resets' \in 0..MaxResets
  <2>1. resets' = resets \/ (resets < MaxResets /\ resets' = resets + 1)
    BY DEF SubscriptionEnds, PeriodEnds, ResetDueSubscriptions, AdminReset, period
  <2>2. QED
    BY <1>0, <2>1
<1>3. carried' = carried \/ carried' = SubDebits
  BY DEF SubscriptionEnds, PeriodEnds, ResetDueSubscriptions, AdminReset, ResetUsage, period
<1>4. subUsed' = subUsed \/ subUsed' = 0
  BY DEF SubscriptionEnds, PeriodEnds, ResetDueSubscriptions, AdminReset, ResetUsage,
         balances, subscription
<1>5. resetDue' \in BOOLEAN
  BY <1>0 DEF SubscriptionEnds, PeriodEnds, ResetDueSubscriptions, AdminReset, period
<1>6. subActive' = subActive \/ subActive' = FALSE
  BY DEF SubscriptionEnds, PeriodEnds, ResetDueSubscriptions, AdminReset, ResetUsage
<1>7. QED
  <2>1. carried' \in [Requests -> Int] /\ subUsed' \in Nat /\ subActive' \in BOOLEAN
    <3>1. subUsed \in Nat /\ carried \in [Requests -> Int]
      BY DEF TypeOK
    <3>2. subActive' \in BOOLEAN
      BY <1>6 DEF TypeOK
    <3>3. QED
      BY <1>0, <1>3, <1>4, <3>1, <3>2
  <2>2. TypeOK'
    BY <1>1, <1>2, <1>5, <2>1 DEF TypeOK, wallet, token, metering
  <2>3. QED
    BY <1>1, <2>2

-----------------------------------------------------------------------------
(* The inductive invariant and what follows from it. *)

LEMMA InvariantInit == Init => TypeOK /\ AllGood /\ AllMetered
<1> SUFFICES ASSUME Init PROVE TypeOK /\ AllGood /\ AllMetered
  OBVIOUS
<1>1. NoSession \in Session /\ NoCall \in Call
  BY DEF NoSession, Session, Sources, NoCall, Call
<1>2. TypeOK
  <2>1. /\ carried \in [Requests -> Int] /\ talking \subseteq Realtime
        /\ metered \in [Requests -> [wallet: Nat, sub: Nat, token: Nat]]
        /\ meter \in [Requests -> [Callers -> Call]]
    BY <1>1 DEF Init
  <2>2. /\ pc \in [Requests -> HandlerStages] /\ sess \in [Requests -> Session]
        /\ refund \in [Requests -> RefundStages] /\ errlog \in [Requests -> BOOLEAN]
        /\ subActive \in BOOLEAN /\ resetDue \in BOOLEAN
    BY <1>1 DEF Init, HandlerStages, RefundStages
  <2>3. /\ userQuota \in Int /\ tokenRemain \in Int /\ subUsed \in Nat
        /\ walletDebit \in [Requests -> Int] /\ tokenDebit \in [Requests -> Int]
        /\ subDebit \in [Requests -> Int] /\ faults \in 0..MaxFaults
        /\ resets \in 0..MaxResets
    BY AmountsAssumption DEF Init
  <2>4. QED
    BY <2>1, <2>2, <2>3 DEF TypeOK
<1>3. AllGood
  BY DEF Init, AllGood, Good, Flags, Amounts, Ledger, Held, TokenHeld, NoSession,
         Opening, Reserving, Closing
<1>4. AllMetered
  BY DEF Init, AllMetered, MeterLedger, Pending, NoCall, Callers
<1>5. QED
  BY <1>2, <1>3, <1>4

\* The steps of r leave the invariants of the other requests alone.
LEMMA OthersGood ==
    ASSUME AllGood, AllMetered, NEW q \in Requests,
           pc'[q] = pc[q], refund'[q] = refund[q], sess'[q] = sess[q],
           walletDebit'[q] = walletDebit[q], tokenDebit'[q] = tokenDebit[q],
           subDebit'[q] = subDebit[q], errlog'[q] = errlog[q]
    PROVE  /\ Good(q)'
           /\ /\ meter'[q] = meter[q] /\ metered'[q] = metered[q]
              /\ q \in talking' <=> q \in talking
              => MeterLedger(q)'
<1>1. Good(q) /\ MeterLedger(q)
  BY DEF AllGood, AllMetered
<1>2. Good(q)'
  BY <1>1 DEF Good, Exact, Flags, Amounts, Ledger, Held, TokenHeld
<1>3. QED
  BY <1>1, <1>2 DEF MeterLedger, Pending

LEMMA InvariantStep ==
    TypeOK /\ AllGood /\ AllMetered /\ [Next]_vars => (TypeOK /\ AllGood /\ AllMetered)'
<1> SUFFICES ASSUME TypeOK, AllGood, AllMetered, [Next]_vars
             PROVE  (TypeOK /\ AllGood /\ AllMetered)'
  OBVIOUS
<1>1. ASSUME NEW r \in Requests,
             StartRequest(r) \/ Handler(r) \/ RefundGoroutine(r)
      PROVE  (TypeOK /\ AllGood /\ AllMetered)'
  <2>0. Good(r) /\ MeterLedger(r)
    BY DEF AllGood, AllMetered
  <2>1. /\ TypeOK'
        /\ \A q \in Requests \ {r} : sess'[q] = sess[q] /\ errlog'[q] = errlog[q]
    BY <1>1, TypeStep
  <2>2. Good(r)' /\ MeterLedger(r)'
    <3>1. Flags(r)' /\ Amounts(r)'
      BY <1>1, <2>0, FlagsStep, AmountsStep
    <3>2. Exact(r)' => Ledger(r)'
      BY <1>1, <2>0, LedgerStep
    <3>3. MeterLedger(r)'
      BY <1>1, <2>0, MeterHandler
    <3>4. QED
      BY <3>1, <3>2, <3>3 DEF Good
  <2>3. ASSUME NEW q \in Requests \ {r} PROVE Good(q)' /\ MeterLedger(q)'
    <3>1. /\ pc'[q] = pc[q] /\ refund'[q] = refund[q]
          /\ walletDebit'[q] = walletDebit[q] /\ tokenDebit'[q] = tokenDebit[q]
          /\ subDebit'[q] = subDebit[q]
          /\ sess'[q] = sess[q] /\ errlog'[q] = errlog[q]
      BY <1>1, <2>1, CountersStep DEF Others
    <3>2. UNCHANGED <<talking, meter, metered>>
      BY <1>1, MeteringStays DEF metering
    <3>3. QED
      BY <3>1, <3>2, OthersGood
  <2>4. QED
    BY <2>1, <2>2, <2>3 DEF AllGood, AllMetered
<1>2. ASSUME NEW r \in Requests, Metering(r)
      PROVE  (TypeOK /\ AllGood /\ AllMetered)'
  <2>0. Good(r) /\ MeterLedger(r) /\ errlog \in [Requests -> BOOLEAN]
    BY DEF AllGood, AllMetered, TypeOK
  <2>1. /\ TypeOK' /\ MeterMoves(r) /\ MeterLedger(r)'
        /\ \A q \in Requests \ {r} : meter'[q] = meter[q] /\ metered'[q] = metered[q]
    BY <1>2, <2>0, MeteringStep
  <2>2. /\ UNCHANGED <<pc, sess, refund, walletDebit, tokenDebit, subDebit>>
        /\ errlog' = errlog \/ LogError(r)
        /\ talking \subseteq talking' /\ talking' \subseteq talking \cup {r}
    BY <2>1 DEF MeterMoves
  <2>3. Good(r)'
    <3>1. ~errlog'[r] => ~errlog[r]
      BY <2>0, <2>2 DEF LogError
    <3>2. Flags(r)' /\ Amounts(r)'
      BY <2>0, <2>2 DEF Good, Flags, Amounts
    <3>3. Exact(r)' => Ledger(r)'
      BY <2>0, <2>2, <3>1 DEF Good, Exact, Ledger, Held, TokenHeld
    <3>4. QED
      BY <3>2, <3>3 DEF Good
  <2>4. ASSUME NEW q \in Requests \ {r} PROVE Good(q)' /\ MeterLedger(q)'
    <3>1. errlog'[q] = errlog[q] /\ (q \in talking' <=> q \in talking)
      BY <2>0, <2>2 DEF LogError
    <3>2. QED
      BY <2>1, <2>2, <3>1, OthersGood
  <2>5. QED
    BY <2>1, <2>3, <2>4 DEF AllGood, AllMetered
<1>3. ASSUME TypeOK',
             UNCHANGED <<pc, sess, refund, wallet, token, subDebit, metering, errlog>>
      PROVE  (TypeOK /\ AllGood /\ AllMetered)'
  BY <1>3, OthersGood DEF AllGood, AllMetered, wallet, token, metering
<1>4. CASE SubscriptionEnds \/ PeriodEnds \/ ResetDueSubscriptions \/ AdminReset
  BY <1>3, <1>4, PeriodStep
<1>5. CASE UNCHANGED vars
  <2>1. TypeOK'
    BY <1>5 DEF vars, TypeOK
  <2>2. QED
    BY <1>3, <1>5, <2>1 DEF vars, wallet, token, metering
<1>6. QED
  BY <1>1, <1>2, <1>4, <1>5 DEF Next, AllFinished

\* The variables of every behaviour keep their types: no sequence of fallbacks,
\* reservations, rollbacks and refunds makes preConsumedQuota, tokenConsumed,
\* extraReserved or amount_used negative.
THEOREM BillingTypes == Spec => []TypeOK
<1>1. Spec => [](TypeOK /\ AllGood /\ AllMetered)
  BY InvariantInit, InvariantStep, PTL DEF Spec
<1>2. QED
  BY <1>1, PTL

\* At the end the ledger is the balance.
LEMMA LedgerAtEnd ==
    ASSUME "refundMark" \notin FaultPoints
    PROVE  TypeOK /\ AllGood /\ AllMetered => FinalAccounting
<1> SUFFICES ASSUME TypeOK, AllGood, AllMetered,
                    NEW r \in Requests \ Image, Finished(r), ~errlog[r]
             PROVE  Balanced(r)
  BY DEF FinalAccounting
<1>1. /\ sess[r] \in Session /\ walletDebit[r] \in Int /\ subDebit[r] \in Int
      /\ tokenDebit[r] \in Int
  BY DEF TypeOK
<1>2. Flags(r) /\ Amounts(r) /\ Ledger(r)
  BY DEF AllGood, Good, Exact
<1>3. pc[r] = "done" /\ refund[r] \in {"none", "finished"}
  BY DEF Finished
<1>4. sess[r].fundingSettled => sess[r].settled
  BY <1>2, <1>3 DEF Flags
<1>5. /\ sess[r].tokenConsumed = sess[r].preConsumed
      /\ sess[r].source = "none" => sess[r].preConsumed = 0
  BY <1>2, <1>3 DEF Amounts, Opening
<1>6. sess[r].refunded <=> refund[r] = "finished"
  BY <1>1, <1>2, <1>3, SessionFields DEF Flags
<1>7. sess[r].refunded => ~sess[r].settled /\ ~sess[r].fundingSettled
  BY <1>2 DEF Flags
<1>8. walletDebit[r] + subDebit[r] = Owed(r)
  BY <1>1, <1>2, <1>3, <1>4, <1>5, <1>6, <1>7, SessionFields
  DEF Ledger, Held, Owed, Opening, Reserving
<1>9. tokenDebit[r] = IF r \in Playground THEN 0 ELSE Owed(r)
  BY <1>1, <1>2, <1>3, <1>4, <1>5, <1>6, <1>7, SessionFields
  DEF Ledger, TokenHeld, Owed
<1>10. metered[r].wallet + metered[r].sub = metered[r].token
  <2>1. metered[r].wallet + metered[r].sub =
            metered[r].token + Pending(r, "reader") + Pending(r, "main")
    BY DEF AllMetered, MeterLedger
  <2>2. Pending(r, "reader") = 0 /\ Pending(r, "main") = 0
    BY DEF Finished, Pending, Callers
  <2>3. metered[r].token \in Nat
    BY DEF TypeOK
  <2>4. QED
    BY <2>1, <2>2, <2>3
<1>11. QED
  BY <1>8, <1>9, <1>10 DEF Balanced

\* For any number of concurrent requests, any amounts and any failing writes
\* but the one FinalAccounting cannot survive (the commit that marks a
\* subscription refund as done, which refundWithRetry repeats), the session and
\* the fee of a request that is over have charged exactly what it owes, on its
\* funding source and on its token, and the metering of a realtime conversation
\* (PreWssConsumeQuota, on top of what it owes) has charged both alike
\* (BillingSession, PostConsumeQuota and the handlers that drive them).
THEOREM FinalAccountingHolds ==
    ASSUME "refundMark" \notin FaultPoints
    PROVE  Spec => []FinalAccounting
<1>1. Spec => [](TypeOK /\ AllGood /\ AllMetered)
  BY InvariantInit, InvariantStep, PTL DEF Spec
<1>2. TypeOK /\ AllGood /\ AllMetered => FinalAccounting
  BY LedgerAtEnd
<1>3. QED
  BY <1>1, <1>2, PTL
=============================================================================
