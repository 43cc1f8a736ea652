--------------------------- MODULE FundingProofs ---------------------------
(***************************************************************************)
(* What Billing asks the two funding sources for, request by request: one  *)
(* source only, never less than what is returned later, and exactly the    *)
(* amounts that module Charging promises.  Unlike the ledger of            *)
(* BillingProofs, the first two also hold for image requests and for       *)
(* requests some of whose writes have failed.                              *)
(***************************************************************************)
EXTENDS BillingProofs

\* The funding source of a request is charged, and the other one is not; no
\* source is charged before PreConsume of the source that is finally chosen.
Sided(r) ==
    /\ \/ pc[r] \in Opening
       \/ pc[r] = "relaying" /\ sess[r].source = "none"
       => walletDebit[r] = 0 /\ subDebit[r] = 0
    /\ sess[r].source = "subscription" => walletDebit[r] = 0
    /\ sess[r].source # "subscription" => subDebit[r] = 0

\* A step of a request charges the source it is on, and goes over to the other
\* one only once nothing is left on the first.
LEMMA SideStep ==
    ASSUME TypeOK, NEW r \in Requests, Good(r), Sided(r),
           StartRequest(r) \/ Handler(r) \/ RefundGoroutine(r)
    PROVE  Sided(r)'
<1>0. /\ pc \in [Requests -> HandlerStages] /\ refund \in [Requests -> RefundStages]
      /\ sess \in [Requests -> Session] /\ sess[r] \in Session
      /\ walletDebit \in [Requests -> Int] /\ subDebit \in [Requests -> Int]
      /\ Flags(r)
  BY DEF TypeOK, Good
<1> USE <1>0 DEF Sided, Opening, Goto, balances, wallet, subscription
<1>1. CASE StartRequest(r) \/ OpenLate(r) \/ OpenWallet(r) \/ RollbackToken(r)
  <2>1. walletDebit[r] = 0 /\ subDebit[r] = 0
    BY <1>1 DEF StartRequest, OpenLate, OpenWallet, RollbackToken
  <2>2. UNCHANGED <<wallet, subscription>>
    BY <1>1, OpeningStep
  <2>3. QED
    BY <2>1, <2>2
<1>2. CASE PreConsumeToken(r)
  BY <1>2 DEF PreConsumeToken, Reject, Session
<1>3. CASE PreConsumeFunding(r)
  BY <1>3 DEF PreConsumeFunding, WalletPreConsume, SubscriptionPreConsume,
              ChargeWallet, ChargeSub, Session
<1>4. CASE Reserve(r)
  BY <1>4 DEF Reserve, WalletPreConsume, ChargeWallet, ChargeSub, Session
<1>5. CASE ReserveToken(r)
  BY <1>5 DEF ReserveToken, Session, Flags, Reserving
<1>6. CASE RollbackReserve(r)
  BY <1>6 DEF RollbackReserve, RolledBack, ChargeWallet, ChargeSub, Session
<1>7. CASE Settle(r)
  <2>1. pc'[r] \in {"answered", "settleToken"} /\ sess'[r].source = sess[r].source
    BY <1>7, SettleStep
  <2>2. \/ UNCHANGED <<wallet, subscription>>
        \/ \E d \in Int : /\ sess[r].source # "subscription"
                          /\ ChargeWallet(r, d) /\ UNCHANGED subscription
        \/ \E d \in Int : /\ sess[r].source = "subscription"
                          /\ ChargeSub(r, d) /\ UNCHANGED wallet
    <3>1. PICK actual \in Quotas :
            LET s == [sess[r] EXCEPT !.actual = actual]
                d == actual - s.preConsumed
            IN \/ UNCHANGED <<wallet, subscription>>
               \/ /\ s.source # "subscription"
                  /\ ChargeWallet(r, d) /\ UNCHANGED subscription
               \/ /\ s.source = "subscription"
                  /\ ChargeSub(r, d) /\ UNCHANGED wallet
      BY <1>7 DEF Settle
    <3>2. LET s == [sess[r] EXCEPT !.actual = actual]
          IN s.source = sess[r].source /\ actual - s.preConsumed \in Int
      BY AmountsAssumption DEF Session
    <3>3. QED
      BY <3>1, <3>2
  <2>3. QED
    BY <2>1, <2>2 DEF ChargeWallet, ChargeSub
<1>8. CASE SettleToken(r)
  BY <1>8 DEF SettleToken, Session
<1>9. CASE Answer(r)
  BY <1>9 DEF Answer
<1>10. CASE UpstreamFails(r)
  BY <1>10 DEF UpstreamFails, Session
<1>11. CASE Refund(r)
  BY <1>11 DEF Refund, Session
<1>12. CASE FeeFunding(r)
  BY <1>12 DEF FeeFunding, FeeOnSubscription, ChargeWallet, ChargeSub, Session
<1>13. CASE FeeToken(r)
  BY <1>13 DEF FeeToken
<1>14. CASE RefundFunding(r)
  BY <1>14 DEF RefundFunding, ChargeWallet, ChargeSub, Session, Flags, Closing
<1>15. CASE RefundMark(r)
  BY <1>15 DEF RefundMark, Session
<1>16. CASE RefundExtra(r)
  BY <1>16 DEF RefundExtra, ChargeSub, Flags, Closing
<1>17. CASE RefundToken(r)
  BY <1>17 DEF RefundToken
<1>18. QED
  BY <1>1, <1>2, <1>3, <1>4, <1>5, <1>6, <1>7, <1>8, <1>9, <1>10, <1>11, <1>12, <1>13, <1>14, <1>15, <1>16, <1>17
  DEF Handler, RefundGoroutine

-----------------------------------------------------------------------------
(* Nothing is returned that was not taken. *)

\* The least the token has been asked for.
TokenFloor(r) ==
    IF r \in Playground \/ sess[r].settled \/ refund[r] = "finished" THEN 0
    ELSE sess[r].tokenConsumed

\* The funding source and the token hold at least what the session may still
\* give back.
Floor(r) ==
    LET s == sess[r] IN
    /\ walletDebit[r] + subDebit[r] >= Held(r)
    /\ tokenDebit[r] >= TokenFloor(r)
    /\ /\ pc[r] \notin Opening /\ s.source = "wallet"
       /\ ~s.settled /\ ~s.fundingSettled /\ refund[r] \in {"none", "funding"}
       => s.consumed <= walletDebit[r]

\* What Reserve takes, for one target above what is held.
LEMMA ReserveMoves ==
    ASSUME TypeOK, NEW r \in Requests, Reserve(r)
    PROVE  /\ pc[r] = "relaying" /\ UNCHANGED <<refund, token>>
           /\ \E d \in Nat :
                \/ /\ pc'[r] = "reserveToken" /\ sess[r].source = "wallet"
                   /\ \E c \in Int :
                        /\ sess'[r] = [sess[r] EXCEPT !.consumed = c, !.delta = d]
                        /\ c = d \/ c = sess[r].consumed + d
                        /\ r \notin Image => c = sess[r].consumed + d
                   /\ ChargeWallet(r, d) /\ UNCHANGED subscription
                \/ /\ pc'[r] = "reserveToken" /\ sess[r].source = "subscription"
                   /\ sess'[r] = [sess[r] EXCEPT !.delta = d]
                   /\ ChargeSub(r, d) /\ UNCHANGED wallet
                \/ /\ pc'[r] = "failing" /\ sess'[r] = sess[r]
                   /\ UNCHANGED <<wallet, subscription>>
<1>0. /\ pc \in [Requests -> HandlerStages] /\ sess \in [Requests -> Session]
      /\ sess[r] \in Session
  BY DEF TypeOK
<1> DEFINE e(target) == target - sess[r].preConsumed
<1>1. PICK target \in Quotas :
        /\ ~ReserveSkips(sess[r], r, target)
        /\ \/ /\ sess[r].source = "wallet" /\ r \in Image
              /\ ChargeWallet(r, e(target)) /\ UNCHANGED subscription
              /\ sess' = [sess EXCEPT ![r].consumed = WalletConsumed(sess[r], e(target)),
                                      ![r].delta = e(target)]
              /\ Goto(r, "reserveToken")
           \/ /\ sess[r].source = "wallet" /\ r \notin Image
              /\ ChargeWallet(r, e(target)) /\ UNCHANGED subscription
              /\ sess' = [sess EXCEPT ![r].consumed = @ + e(target),
                                      ![r].delta = e(target)]
              /\ Goto(r, "reserveToken")
           \/ /\ sess[r].source = "subscription"
              /\ ChargeSub(r, e(target)) /\ UNCHANGED wallet
              /\ sess' = [sess EXCEPT ![r].delta = e(target)]
              /\ Goto(r, "reserveToken")
           \/ /\ Goto(r, "failing")
              /\ UNCHANGED <<sess, wallet, subscription>>
  BY DEF Reserve, WalletPreConsume
<1>2. e(target) \in Nat /\ e(target) > 0 /\ sess[r].consumed \in Int
  BY <1>0, <1>1, SessionFields, AmountsAssumption DEF ReserveSkips
<1> HIDE DEF e
<1>3. pc[r] = "relaying" /\ UNCHANGED <<refund, token>>
  BY DEF Reserve
<1>4. CASE /\ sess[r].source = "wallet" /\ r \in Image
           /\ ChargeWallet(r, e(target)) /\ UNCHANGED subscription
           /\ sess' = [sess EXCEPT ![r].consumed = WalletConsumed(sess[r], e(target)),
                                   ![r].delta = e(target)]
           /\ Goto(r, "reserveToken")
  <2>1. WalletConsumed(sess[r], e(target)) = e(target)
    BY <1>2 DEF WalletConsumed
  <2>2. /\ sess'[r] = [sess[r] EXCEPT !.consumed = e(target), !.delta = e(target)]
        /\ pc'[r] = "reserveToken"
    BY <1>0, <1>4, <2>1 DEF Goto
  <2>3. \E c \in Int :
          /\ sess'[r] = [sess[r] EXCEPT !.consumed = c, !.delta = e(target)]
          /\ c = e(target) \/ c = sess[r].consumed + e(target)
          /\ r \notin Image => c = sess[r].consumed + e(target)
    <3>1. e(target) \in Int
      BY <1>2
    <3>2. QED
      BY <1>4, <2>2, <3>1
  <2>4. QED
    BY <1>2, <1>3, <1>4, <2>2, <2>3
<1>5. CASE /\ sess[r].source = "wallet" /\ r \notin Image
           /\ ChargeWallet(r, e(target)) /\ UNCHANGED subscription
           /\ sess' = [sess EXCEPT ![r].consumed = @ + e(target),
                                   ![r].delta = e(target)]
           /\ Goto(r, "reserveToken")
  <2>1. sess[r].consumed + e(target) \in Int
    BY <1>2
  <2>2. /\ sess'[r] = [sess[r] EXCEPT !.consumed = sess[r].consumed + e(target),
                                      !.delta = e(target)]
        /\ pc'[r] = "reserveToken"
    BY <1>0, <1>5 DEF Goto
  <2>3. QED
    BY <1>2, <1>3, <1>5, <2>1, <2>2
<1>6. CASE /\ sess[r].source = "subscription"
           /\ ChargeSub(r, e(target)) /\ UNCHANGED wallet
           /\ sess' = [sess EXCEPT ![r].delta = e(target)]
           /\ Goto(r, "reserveToken")
  BY <1>0, <1>2, <1>3, <1>6 DEF Goto
<1>7. CASE Goto(r, "failing") /\ UNCHANGED <<sess, wallet, subscription>>
  BY <1>0, <1>2, <1>3, <1>7 DEF Goto
<1>8. QED
  BY <1>1, <1>4, <1>5, <1>6, <1>7

\* No step of a request takes it below what it may still give back.
LEMMA FloorStep ==
    ASSUME TypeOK, NEW r \in Requests, Good(r), Sided(r), Floor(r),
           "refundMark" \notin FaultPoints,
           StartRequest(r) \/ Handler(r) \/ RefundGoroutine(r)
    PROVE  Floor(r)'
<1>0. /\ pc \in [Requests -> HandlerStages] /\ refund \in [Requests -> RefundStages]
      /\ sess \in [Requests -> Session] /\ sess[r] \in Session
      /\ walletDebit \in [Requests -> Int] /\ tokenDebit \in [Requests -> Int]
      /\ subDebit \in [Requests -> Int]
      /\ Flags(r) /\ Amounts(r)
  BY DEF TypeOK, Good
<1>d. /\ walletDebit[r] \in Int /\ subDebit[r] \in Int /\ tokenDebit[r] \in Int
      /\ sess'[r] \in Session
  BY <1>0, SessionStep DEF Writes, Amounts, Reserving
<1>e. /\ sess[r].delta \in Int /\ sess[r].preConsumed \in Nat
      /\ sess[r].tokenConsumed \in Nat /\ sess[r].amount \in Nat
      /\ sess[r].consumed \in Int /\ sess[r].fee \in Nat /\ sess[r].actual \in Nat
      /\ sess[r].extraReserved \in Nat /\ sess[r].subPreConsumed \in Nat
      /\ sess[r].source \in {"none", "wallet", "subscription"}
  BY <1>0, SessionFields
<1>f. tokenDebit[r] >= 0 /\ (r \in Playground => tokenDebit[r] >= 0)
  BY <1>0, <1>d, <1>e DEF Floor, TokenFloor
<1>g. ASSUME pc[r] \in Opening \cup Reserving \cup {"relaying"}
      PROVE  /\ ~sess[r].settled /\ ~sess[r].fundingSettled /\ ~sess[r].refunded
             /\ refund[r] = "none"
             /\ r \notin Playground => tokenDebit[r] >= sess[r].tokenConsumed
  BY <1>0, <1>d, <1>g, SessionFields
  DEF Flags, Floor, TokenFloor, Opening, Reserving, Closing
<1> DEFINE funds == walletDebit[r] + subDebit[r]
<1> USE <1>0, <1>d
<1> USE DEF Floor, TokenFloor, Held, Opening, Reserving, Closing,
            Goto, balances, wallet, token, subscription
<1>1. CASE StartRequest(r) \/ OpenLate(r) \/ OpenWallet(r) \/ RollbackToken(r)
  <2>1. walletDebit[r] = 0 /\ subDebit[r] = 0
    BY <1>1 DEF StartRequest, OpenLate, OpenWallet, RollbackToken, Sided
  <2>2. /\ Fresh(r)' /\ refund'[r] = "none"
        /\ UNCHANGED <<wallet, subscription>>
    BY <1>1, OpeningStep
  <2>3. tokenDebit'[r] >= 0
    <3>1. CASE StartRequest(r) \/ OpenLate(r) \/ OpenWallet(r)
      BY <1>f, <3>1 DEF StartRequest, OpenLate, OpenWallet
    <3>2. CASE RollbackToken(r)
      BY <1>e, <1>f, <1>g, <3>2 DEF RollbackToken, ChargeToken
    <3>3. QED
      BY <1>1, <3>1, <3>2
  <2>4. QED
    BY <2>1, <2>2, <2>3 DEF Fresh, Empty
<1>2. CASE PreConsumeToken(r)
  BY <1>2, <1>e DEF PreConsumeToken, Reject, ChargeToken, Session, Flags, Amounts
<1>3. CASE PreConsumeFunding(r)
  <2>1. /\ pc[r] = "preFunding" /\ UNCHANGED <<refund, token>>
        /\ walletDebit[r] = 0 /\ subDebit[r] = 0
        /\ sess[r].tokenConsumed = sess[r].amount /\ sess[r].consumed = 0
    BY <1>3 DEF PreConsumeFunding, Sided, Amounts
  <2>2. CASE /\ sess[r].source = "wallet" /\ WalletPreConsume(r, sess[r].amount)
             /\ sess' = [sess EXCEPT ![r].consumed = WalletConsumed(sess[r], sess[r].amount),
                                     ![r].preConsumed = sess[r].amount]
             /\ Goto(r, "relaying")
    BY <1>e, <1>f, <1>g, <2>1, <2>2
    DEF WalletPreConsume, WalletConsumed, ChargeWallet, Session
  <2>3. CASE /\ sess[r].source = "subscription"
             /\ SubscriptionPreConsume(r, sess[r].amount)
             /\ sess' = [sess EXCEPT ![r].subPreConsumed = sess[r].amount,
                                     ![r].preConsumed = sess[r].amount]
             /\ Goto(r, "relaying")
    <3>1. subDebit' = [subDebit EXCEPT ![r] = @ + sess[r].amount] /\ UNCHANGED wallet
      BY <2>3 DEF SubscriptionPreConsume
    <3>2. QED
      BY <1>e, <1>f, <1>g, <2>1, <2>3, <3>1 DEF Session
  <2>4. CASE /\ sess'[r] = sess[r] \/ sess' = [sess EXCEPT ![r].fallback = "none"]
             /\ Goto(r, "rollbackToken") /\ UNCHANGED <<wallet, subscription>>
    BY <1>e, <1>f, <1>g, <2>1, <2>4 DEF Session
  <2>5. QED
    BY <1>3, <2>2, <2>3, <2>4 DEF PreConsumeFunding
<1>4. CASE Reserve(r)
  <2>1. pc[r] = "relaying" /\ UNCHANGED <<refund, token>>
    BY <1>4, ReserveMoves
  <2>2. PICK d \in Nat :
            \/ /\ pc'[r] = "reserveToken" /\ sess[r].source = "wallet"
               /\ \E c \in Int :
                    /\ sess'[r] = [sess[r] EXCEPT !.consumed = c, !.delta = d]
                    /\ c = d \/ c = sess[r].consumed + d
               /\ ChargeWallet(r, d) /\ UNCHANGED subscription
            \/ /\ pc'[r] = "reserveToken" /\ sess[r].source = "subscription"
               /\ sess'[r] = [sess[r] EXCEPT !.delta = d]
               /\ ChargeSub(r, d) /\ UNCHANGED wallet
            \/ /\ pc'[r] = "failing" /\ sess'[r] = sess[r]
               /\ UNCHANGED <<wallet, subscription>>
    BY <1>4, ReserveMoves
  <2>3. /\ funds >= sess[r].preConsumed
        /\ sess[r].source = "wallet" =>
              sess[r].consumed <= walletDebit[r] /\ walletDebit[r] >= 0
    BY <1>e, <1>g, <2>1 DEF Sided
  <2>4. CASE pc'[r] = "failing" /\ sess'[r] = sess[r] /\ UNCHANGED <<wallet, subscription>>
    BY <1>g, <2>1, <2>4
  <2>5. CASE pc'[r] = "reserveToken"
    <3>1. /\ sess'[r].delta = d /\ sess'[r].preConsumed = sess[r].preConsumed
          /\ sess'[r].tokenConsumed = sess[r].tokenConsumed
          /\ ~sess'[r].settled /\ sess'[r].source = sess[r].source
          /\ sess[r].source = "wallet" =>
                sess'[r].consumed \in {d, sess[r].consumed + d}
      BY <1>g, <2>1, <2>2, <2>5 DEF Session
    <3>2. /\ funds' = funds + d
          /\ sess[r].source = "wallet" => walletDebit'[r] = walletDebit[r] + d
      <4>1. \/ /\ sess[r].source = "wallet"
               /\ ChargeWallet(r, d) /\ UNCHANGED subscription
            \/ /\ sess[r].source = "subscription"
               /\ ChargeSub(r, d) /\ UNCHANGED wallet
        BY <2>2, <2>5
      <4>2. QED
        BY <4>1 DEF ChargeWallet, ChargeSub
    <3>3. sess[r].source = "wallet" => sess'[r].consumed <= walletDebit'[r]
      BY <1>e, <2>3, <3>1, <3>2
    <3>4. funds' >= sess[r].preConsumed + d
      BY <1>e, <2>3, <3>2
    <3>5. QED
      BY <1>f, <1>g, <2>1, <2>5, <3>1, <3>3, <3>4
  <2>6. QED
    BY <2>2, <2>4, <2>5
<1>5. CASE ReserveToken(r)
  BY <1>5, <1>e DEF ReserveToken, ChargeToken, Session, Flags, Amounts
<1>6. CASE RollbackReserve(r)
  <2>1. /\ pc[r] = "rollbackReserve" /\ pc'[r] = "failing"
        /\ UNCHANGED <<refund, token>>
    BY <1>6 DEF RollbackReserve
  <2>2. /\ sess'[r].preConsumed = sess[r].preConsumed
        /\ sess'[r].tokenConsumed = sess[r].tokenConsumed
        /\ sess'[r].source = sess[r].source
        /\ ~sess'[r].settled /\ ~sess'[r].fundingSettled
    BY <1>6, <1>g, <2>1 DEF RollbackReserve, RolledBack, Session
  <2>3. \/ /\ sess[r].source = "wallet"
           /\ ChargeWallet(r, -sess[r].delta) /\ UNCHANGED subscription
           /\ sess'[r].consumed = sess[r].consumed - sess[r].delta
        \/ /\ sess[r].source = "subscription"
           /\ ChargeSub(r, -sess[r].delta) /\ UNCHANGED wallet
        \/ /\ UNCHANGED <<wallet, subscription>> /\ sess'[r] = sess[r]
    BY <1>6 DEF RollbackReserve, RolledBack, Session
  <2>4. /\ funds >= sess[r].preConsumed + sess[r].delta /\ sess[r].delta \in Nat
        /\ sess[r].source = "wallet" => sess[r].consumed <= walletDebit[r]
    BY <1>e, <1>g, <2>1 DEF Amounts
  <2>5. /\ funds' >= sess[r].preConsumed
        /\ sess[r].source = "wallet" => sess'[r].consumed <= walletDebit'[r]
    BY <1>e, <2>3, <2>4 DEF ChargeWallet, ChargeSub
  <2>6. QED
    BY <1>g, <2>1, <2>2, <2>5
<1>7. CASE Settle(r)
  <2>1. pc[r] = "relaying" /\ UNCHANGED <<refund, token>>
    BY <1>7 DEF Settle
  <2>2. /\ funds >= sess[r].preConsumed
        /\ sess[r].source = "wallet" => sess[r].consumed <= walletDebit[r]
    BY <1>e, <1>g, <2>1
  <2>3. PICK actual \in Nat :
          LET s == sess[r]
              t == sess'[r]
              d == actual - s.preConsumed
          IN /\ t.preConsumed = s.preConsumed /\ t.tokenConsumed = s.tokenConsumed
             /\ t.consumed = s.consumed /\ t.source = s.source
             /\ \/ /\ t.settled /\ t.fundingSettled = s.fundingSettled
                   /\ t.actual = actual /\ d = 0
                   /\ pc'[r] = "answered" /\ UNCHANGED <<wallet, subscription>>
                \/ /\ t.settled = s.settled /\ t.fundingSettled
                   /\ t.actual = actual
                   /\ pc'[r] = "settleToken"
                   /\ \/ ChargeWallet(r, d) /\ UNCHANGED subscription
                      \/ ChargeSub(r, d) /\ UNCHANGED wallet
                \/ /\ t = s /\ pc'[r] = "answered"
                   /\ UNCHANGED <<wallet, subscription>>
    BY <1>7, SettleStep
  <2>4. CASE pc'[r] = "settleToken"
    <3>1. funds' >= actual
      BY <1>e, <2>2, <2>3, <2>4 DEF ChargeWallet, ChargeSub
    <3>2. QED
      BY <1>f, <1>g, <2>1, <2>3, <2>4, <3>1
  <2>5. CASE pc'[r] = "answered"
    <3>1. funds' = funds /\ walletDebit'[r] = walletDebit[r]
      BY <2>3, <2>5
    <3>2. CASE /\ sess'[r].settled /\ sess'[r].actual = actual
               /\ actual - sess[r].preConsumed = 0
      BY <1>e, <1>f, <1>g, <2>1, <2>2, <2>3, <2>5, <3>1, <3>2
    <3>3. CASE sess'[r] = sess[r]
      BY <1>e, <1>f, <1>g, <2>1, <2>2, <2>5, <3>1, <3>3
    <3>4. QED
      BY <2>3, <2>5, <3>2, <3>3
  <2>6. QED
    BY <2>3, <2>4, <2>5
<1>8. CASE SettleToken(r)
  BY <1>8, <1>e DEF SettleToken, ChargeToken, Session, Flags, Amounts
<1>9. CASE Answer(r)
  BY <1>9, <1>e DEF Answer
<1>10. CASE UpstreamFails(r)
  BY <1>10, <1>e DEF UpstreamFails, Session
<1>11. CASE Refund(r)
  BY <1>11, <1>e DEF Refund, NeedsRefund, Session, Flags
<1>12. CASE FeeFunding(r)
  <2>1. /\ pc[r] = "feeFunding" /\ pc'[r] \in {"feeToken", "done"}
        /\ UNCHANGED <<refund, token>>
    BY <1>12 DEF FeeFunding
  <2>2. \/ sess'[r] = sess[r]
        \/ sess'[r] = [sess[r] EXCEPT !.feePaid = sess[r].fee]
    BY <1>12 DEF FeeFunding
  <2>3. /\ sess'[r].preConsumed = sess[r].preConsumed
        /\ sess'[r].tokenConsumed = sess[r].tokenConsumed
        /\ sess'[r].extraReserved = sess[r].extraReserved
        /\ sess'[r].consumed = sess[r].consumed /\ sess'[r].actual = sess[r].actual
        /\ sess'[r].source = sess[r].source /\ sess'[r].settled = sess[r].settled
        /\ sess'[r].fundingSettled = sess[r].fundingSettled
    BY <2>2 DEF Session
  <2>4. walletDebit'[r] >= walletDebit[r] /\ subDebit'[r] >= subDebit[r]
        /\ walletDebit'[r] \in Int /\ subDebit'[r] \in Int
    BY <1>12, <1>e DEF FeeFunding, ChargeWallet, ChargeSub
  <2>5. Held(r)' = Held(r) /\ Held(r) \in Int /\ TokenFloor(r)' = TokenFloor(r)
    BY <1>e, <2>1, <2>3
  <2>6. funds' >= Held(r)'
    BY <2>4, <2>5
  <2>7. QED
    BY <1>e, <2>1, <2>3, <2>4, <2>5, <2>6
<1>13. CASE FeeToken(r)
  BY <1>13, <1>e DEF FeeToken, ChargeToken
<1>14. CASE RefundFunding(r)
  <2>1. /\ refund[r] = "funding" /\ UNCHANGED <<pc, token>>
        /\ pc[r] \in Closing
        /\ ~sess[r].settled /\ ~sess[r].fundingSettled
        /\ r \notin Playground => tokenDebit[r] >= sess[r].tokenConsumed
    BY <1>14 DEF RefundFunding, Flags
  <2>2. /\ funds >= sess[r].preConsumed
        /\ sess[r].source = "wallet" =>
              sess[r].consumed <= walletDebit[r] /\ walletDebit[r] >= 0
    BY <1>e, <2>1 DEF Sided
  <2>3. /\ sess'[r].preConsumed = sess[r].preConsumed
        /\ sess'[r].tokenConsumed = sess[r].tokenConsumed
        /\ sess'[r].extraReserved = sess[r].extraReserved
        /\ sess'[r].consumed = sess[r].consumed
        /\ sess'[r].source = sess[r].source /\ sess'[r].settled = sess[r].settled
        /\ sess'[r].fundingSettled = sess[r].fundingSettled
    BY <1>14 DEF RefundFunding, Session
  <2>4. \/ /\ sess[r].source = "wallet" /\ refund'[r] = "extra" /\ funds' >= 0
        \/ /\ sess[r].source = "subscription" /\ refund'[r] = "mark"
           /\ funds' >= sess[r].extraReserved
        \/ /\ refund'[r] \in {"funding", "extra"}
           /\ UNCHANGED <<wallet, subscription>>
    <3>1. CASE /\ sess[r].source = "wallet" /\ UNCHANGED subscription
               /\ ChargeWallet(r, IF sess[r].consumed <= 0 THEN 0 ELSE -sess[r].consumed)
               /\ refund' = [refund EXCEPT ![r] = "extra"]
      BY <1>e, <2>2, <3>1 DEF ChargeWallet, Sided
    <3>2. CASE /\ sess[r].source = "subscription" /\ UNCHANGED wallet
               /\ ChargeSub(r, -sess[r].subPreConsumed)
               /\ refund' = [refund EXCEPT ![r] = "mark"]
      BY <1>e, <2>2, <3>2 DEF ChargeSub, Amounts
    <3>3. QED
      BY <1>14, <3>1, <3>2 DEF RefundFunding
  <2>5. sess[r].source = "subscription" => sess[r].extraReserved <= sess[r].preConsumed
    BY <1>e DEF Amounts
  <2>6. QED
    BY <1>e, <1>f, <2>1, <2>2, <2>3, <2>4, <2>5
<1>15. CASE RefundMark(r)
  BY <1>15, <1>e DEF RefundMark, Fails, Session, Flags
<1>16. CASE RefundExtra(r)
  BY <1>16, <1>e DEF RefundExtra, ChargeSub, Flags, Sided
<1>17. CASE RefundToken(r)
  BY <1>17, <1>e DEF RefundToken, ChargeToken, Flags
<1>18. QED
  BY <1>1, <1>2, <1>3, <1>4, <1>5, <1>6, <1>7, <1>8, <1>9, <1>10, <1>11, <1>12, <1>13, <1>14, <1>15, <1>16, <1>17
  DEF Handler, RefundGoroutine

-----------------------------------------------------------------------------
(* The amounts of Charging. *)

\* The funding part of the ledger, for the requests whose funding is never
\* left wrong by a failed write.
FundingExact ==
    /\ Image = {}
    /\ FaultPoints \cap {"rollbackReserve", "refundFunding", "refundMark",
                         "refundExtra"} = {}

FundingLedger(r) ==
    /\ walletDebit[r] + subDebit[r] = Held(r) + sess[r].feePaid
    /\ pc[r] \notin Opening /\ sess[r].source = "wallet" =>
           sess[r].consumed = sess[r].preConsumed
               + (IF pc[r] \in Reserving THEN sess[r].delta ELSE 0)

\* Every step of a request keeps the funding part of its ledger, whatever
\* becomes of its token.
LEMMA FundingStep ==
    ASSUME TypeOK, NEW r \in Requests, Good(r), Sided(r), FundingLedger(r),
           FundingExact,
           StartRequest(r) \/ Handler(r) \/ RefundGoroutine(r)
    PROVE  FundingLedger(r)'
<1>0. /\ pc \in [Requests -> HandlerStages] /\ refund \in [Requests -> RefundStages]
      /\ sess \in [Requests -> Session] /\ sess[r] \in Session
      /\ walletDebit \in [Requests -> Int] /\ subDebit \in [Requests -> Int]
      /\ Flags(r) /\ Amounts(r)
  BY DEF TypeOK, Good
<1>d. /\ walletDebit[r] \in Int /\ subDebit[r] \in Int
      /\ sess'[r] \in Session
  BY <1>0, SessionStep DEF Writes, Amounts, Reserving
<1>e. /\ sess[r].delta \in Int /\ sess[r].preConsumed \in Nat
      /\ sess[r].amount \in Nat /\ sess[r].feePaid \in Nat
      /\ sess[r].consumed \in Int /\ sess[r].fee \in Nat /\ sess[r].actual \in Nat
      /\ sess[r].extraReserved \in Nat /\ sess[r].subPreConsumed \in Nat
      /\ sess[r].source \in {"none", "wallet", "subscription"}
  BY <1>0, SessionFields
<1>g. ASSUME pc[r] \in Opening \cup Reserving \cup {"relaying"}
      PROVE  /\ ~sess[r].settled /\ ~sess[r].fundingSettled /\ ~sess[r].refunded
             /\ refund[r] = "none" /\ sess[r].feePaid = 0
  BY <1>0, <1>g, SessionFields
  DEF Flags, Amounts, Opening, Reserving, Closing
<1>h. /\ r \notin Image /\ ~Fails("rollbackReserve") /\ ~Fails("refundFunding")
      /\ ~Fails("refundMark") /\ ~Fails("refundExtra")
  BY DEF FundingExact, Fails
<1> DEFINE funds == walletDebit[r] + subDebit[r]
<1> USE <1>0, <1>d
<1> USE DEF FundingLedger, Held, Opening, Reserving, Closing,
            Goto, balances, wallet, subscription
<1>1. CASE StartRequest(r) \/ OpenLate(r) \/ OpenWallet(r) \/ RollbackToken(r)
  <2>1. walletDebit[r] = 0 /\ subDebit[r] = 0
    BY <1>1 DEF StartRequest, OpenLate, OpenWallet, RollbackToken, Sided
  <2>2. /\ Fresh(r)' /\ refund'[r] = "none"
        /\ UNCHANGED <<wallet, subscription>>
    BY <1>1, OpeningStep
  <2>3. QED
    BY <2>1, <2>2 DEF Fresh, Empty
<1>2. CASE PreConsumeToken(r)
  <2>1. /\ pc[r] = "preToken" /\ pc'[r] \in {"preFunding", "failing"}
        /\ UNCHANGED <<refund, wallet, subscription>>
    BY <1>2 DEF PreConsumeToken, Reject
  <2>2. /\ sess'[r].preConsumed = 0 /\ sess'[r].feePaid = 0
        /\ ~sess'[r].settled /\ ~sess'[r].fundingSettled
        /\ pc'[r] = "failing" => sess'[r].source = "none"
    <3>1. /\ sess[r].preConsumed = 0 /\ sess[r].feePaid = 0
          /\ ~sess[r].settled /\ ~sess[r].fundingSettled
      BY <1>g, <2>1 DEF Amounts
    <3>2. \/ sess'[r] = [sess[r] EXCEPT !.tokenConsumed = sess[r].amount]
             /\ pc'[r] = "preFunding"
          \/ sess'[r] = [sess[r] EXCEPT !.source = "none"] /\ pc'[r] = "failing"
      BY <1>2 DEF PreConsumeToken, Reject
    <3>3. QED
      BY <3>1, <3>2 DEF Session
  <2>3. funds = 0 /\ refund[r] = "none"
    BY <1>g, <2>1
  <2>4. QED
    BY <2>1, <2>2, <2>3
<1>3. CASE PreConsumeFunding(r)
  BY <1>3, <1>e, <1>g DEF PreConsumeFunding, WalletPreConsume, SubscriptionPreConsume,
              WalletConsumed, ChargeWallet, ChargeSub, Session, Amounts, Sided
<1>4. CASE Reserve(r)
  <2>1. pc[r] = "relaying" /\ UNCHANGED refund
    BY <1>4, ReserveMoves
  <2>2. PICK d \in Nat :
            \/ /\ pc'[r] = "reserveToken" /\ sess[r].source = "wallet"
               /\ sess'[r] = [sess[r] EXCEPT !.consumed = sess[r].consumed + d,
                                             !.delta = d]
               /\ ChargeWallet(r, d) /\ UNCHANGED subscription
            \/ /\ pc'[r] = "reserveToken" /\ sess[r].source = "subscription"
               /\ sess'[r] = [sess[r] EXCEPT !.delta = d]
               /\ ChargeSub(r, d) /\ UNCHANGED wallet
            \/ /\ pc'[r] = "failing" /\ sess'[r] = sess[r]
               /\ UNCHANGED <<wallet, subscription>>
    BY <1>4, <1>h, ReserveMoves
  <2>3. /\ funds = sess[r].preConsumed
        /\ sess[r].source = "wallet" => sess[r].consumed = sess[r].preConsumed
    BY <1>e, <1>g, <2>1
  <2>4. CASE pc'[r] = "failing" /\ sess'[r] = sess[r] /\ UNCHANGED <<wallet, subscription>>
    BY <1>e, <1>g, <2>1, <2>3, <2>4
  <2>5. CASE pc'[r] = "reserveToken"
    <3>1. /\ sess'[r].delta = d /\ sess'[r].preConsumed = sess[r].preConsumed
          /\ sess'[r].feePaid = 0 /\ sess'[r].source = sess[r].source
          /\ sess[r].source = "wallet" => sess'[r].consumed = sess[r].consumed + d
      BY <1>g, <2>1, <2>2, <2>5 DEF Session
    <3>2. funds' = funds + d
      <4>1. \/ ChargeWallet(r, d) /\ UNCHANGED subscription
            \/ ChargeSub(r, d) /\ UNCHANGED wallet
        BY <2>2, <2>5
      <4>2. QED
        BY <4>1 DEF ChargeWallet, ChargeSub
    <3>3. QED
      BY <1>e, <2>3, <2>5, <3>1, <3>2
  <2>6. QED
    BY <2>2, <2>4, <2>5
<1>5. CASE ReserveToken(r)
  BY <1>5, <1>e, <1>g DEF ReserveToken, Session
<1>6. CASE RollbackReserve(r)
  <2>1. /\ pc[r] = "rollbackReserve" /\ pc'[r] = "failing" /\ UNCHANGED refund
    BY <1>6 DEF RollbackReserve
  <2>2. /\ sess'[r].preConsumed = sess[r].preConsumed
        /\ sess'[r].feePaid = 0 /\ sess'[r].source = sess[r].source
        /\ ~sess'[r].settled /\ ~sess'[r].fundingSettled
    BY <1>6, <1>g, <2>1 DEF RollbackReserve, RolledBack, Session
  <2>3. \/ /\ sess[r].source = "wallet"
           /\ ChargeWallet(r, -sess[r].delta) /\ UNCHANGED subscription
           /\ sess'[r].consumed = sess[r].consumed - sess[r].delta
        \/ /\ sess[r].source = "subscription"
           /\ ChargeSub(r, -sess[r].delta) /\ UNCHANGED wallet
    BY <1>6, <1>h DEF RollbackReserve, RolledBack, Session
  <2>4. /\ funds = sess[r].preConsumed + sess[r].delta
        /\ sess[r].source = "wallet" =>
              sess[r].consumed = sess[r].preConsumed + sess[r].delta
    BY <1>e, <1>g, <2>1
  <2>5. /\ funds' = sess[r].preConsumed
        /\ sess[r].source = "wallet" => sess'[r].consumed = sess[r].preConsumed
    BY <1>e, <2>3, <2>4 DEF ChargeWallet, ChargeSub
  <2>6. QED
    BY <1>e, <1>g, <2>1, <2>2, <2>5
<1>7. CASE Settle(r)
  <2>1. pc[r] = "relaying" /\ UNCHANGED refund
    BY <1>7 DEF Settle
  <2>2. /\ funds = sess[r].preConsumed
        /\ sess[r].source = "wallet" => sess[r].consumed = sess[r].preConsumed
    BY <1>e, <1>g, <2>1
  <2>3. PICK actual \in Nat :
          LET s == sess[r]
              t == sess'[r]
              d == actual - s.preConsumed
          IN /\ t.preConsumed = s.preConsumed /\ t.consumed = s.consumed
             /\ t.source = s.source /\ t.feePaid = s.feePaid
             /\ \/ /\ t.settled /\ t.actual = actual /\ d = 0
                   /\ pc'[r] = "answered" /\ UNCHANGED <<wallet, subscription>>
                \/ /\ t.fundingSettled /\ t.actual = actual
                   /\ pc'[r] = "settleToken"
                   /\ \/ ChargeWallet(r, d) /\ UNCHANGED subscription
                      \/ ChargeSub(r, d) /\ UNCHANGED wallet
                \/ /\ t = s /\ pc'[r] = "answered"
                   /\ UNCHANGED <<wallet, subscription>>
    BY <1>7, SettleStep
  <2>4. CASE pc'[r] = "settleToken"
    <3>1. funds' = actual
      BY <1>e, <2>2, <2>3, <2>4 DEF ChargeWallet, ChargeSub
    <3>2. QED
      BY <1>e, <1>g, <2>1, <2>2, <2>3, <2>4, <3>1
  <2>5. CASE pc'[r] = "answered"
    <3>1. funds' = funds
      BY <2>3, <2>5
    <3>2. CASE /\ sess'[r].settled /\ sess'[r].actual = actual
               /\ actual - sess[r].preConsumed = 0
      BY <1>e, <1>g, <2>1, <2>2, <2>3, <2>5, <3>1, <3>2
    <3>3. CASE sess'[r] = sess[r]
      BY <1>e, <1>g, <2>1, <2>2, <2>5, <3>1, <3>3
    <3>4. QED
      BY <2>3, <2>5, <3>2, <3>3
  <2>6. QED
    BY <2>3, <2>4, <2>5
<1>8. CASE SettleToken(r)
  BY <1>8, <1>e DEF SettleToken, Session, Flags
<1>9. CASE Answer(r)
  BY <1>9, <1>e DEF Answer
<1>10. CASE UpstreamFails(r)
  BY <1>10, <1>e DEF UpstreamFails, Session
<1>11. CASE Refund(r)
  BY <1>11, <1>e DEF Refund, NeedsRefund, Session, Flags
<1>12. CASE FeeFunding(r)
  <2>1. /\ pc[r] = "feeFunding" /\ pc'[r] \in {"feeToken", "done"}
        /\ UNCHANGED refund /\ sess[r].feePaid = 0
    BY <1>12 DEF FeeFunding, Amounts
  <2>2. \/ sess'[r] = sess[r] /\ UNCHANGED <<wallet, subscription>>
        \/ /\ sess'[r] = [sess[r] EXCEPT !.feePaid = sess[r].fee]
           /\ \/ ChargeWallet(r, sess[r].fee) /\ UNCHANGED subscription
              \/ ChargeSub(r, sess[r].fee) /\ UNCHANGED wallet
    BY <1>12 DEF FeeFunding
  <2>3. /\ sess'[r].preConsumed = sess[r].preConsumed
        /\ sess'[r].extraReserved = sess[r].extraReserved
        /\ sess'[r].consumed = sess[r].consumed /\ sess'[r].actual = sess[r].actual
        /\ sess'[r].source = sess[r].source /\ sess'[r].settled = sess[r].settled
        /\ sess'[r].fundingSettled = sess[r].fundingSettled
    BY <2>2 DEF Session
  <2>4. \/ funds' = funds /\ sess'[r].feePaid = 0
        \/ funds' = funds + sess[r].fee /\ sess'[r].feePaid = sess[r].fee
    BY <1>e, <2>1, <2>2 DEF ChargeWallet, ChargeSub, Session
  <2>5. Held(r)' = Held(r) /\ Held(r) \in Int
    BY <1>e, <2>1, <2>3
  <2> HIDE DEF Held
  <2>6. /\ funds = Held(r)
        /\ sess[r].source = "wallet" => sess[r].consumed = sess[r].preConsumed
    BY <1>e, <2>1, <2>5
  <2>7. funds' = Held(r)' + sess'[r].feePaid
    BY <1>e, <2>4, <2>5, <2>6
  <2>8. QED
    BY <1>e, <2>1, <2>3, <2>6, <2>7
<1>13. CASE FeeToken(r)
  BY <1>13, <1>e DEF FeeToken
<1>14. CASE RefundFunding(r)
  <2>1. /\ refund[r] = "funding" /\ UNCHANGED pc /\ pc[r] \in Closing
        /\ ~sess[r].settled /\ ~sess[r].fundingSettled
    BY <1>14 DEF RefundFunding, Flags
  <2>2. /\ funds = sess[r].preConsumed + sess[r].feePaid
        /\ sess[r].source = "wallet" => sess[r].consumed = sess[r].preConsumed
    BY <1>e, <2>1
  <2>3. sess' = sess
    BY <1>14, <1>h DEF RefundFunding
  <2>4. CASE /\ sess[r].source = "wallet" /\ UNCHANGED subscription
             /\ ChargeWallet(r, IF sess[r].consumed <= 0 THEN 0 ELSE -sess[r].consumed)
             /\ refund' = [refund EXCEPT ![r] = "extra"]
    <3>1. funds' = sess[r].feePaid
      BY <1>e, <2>2, <2>4 DEF ChargeWallet
    <3>2. QED
      BY <1>e, <2>1, <2>2, <2>3, <2>4, <3>1
  <2>5. CASE /\ sess[r].source = "subscription" /\ UNCHANGED wallet
             /\ ChargeSub(r, -sess[r].subPreConsumed)
             /\ refund' = [refund EXCEPT ![r] = "mark"]
    <3>1. funds' = sess[r].extraReserved + sess[r].feePaid
      BY <1>e, <2>2, <2>5 DEF ChargeSub, Amounts
    <3>2. QED
      BY <1>e, <2>1, <2>3, <2>5, <3>1
  <2>6. QED
    BY <1>14, <1>h, <2>4, <2>5 DEF RefundFunding
<1>15. CASE RefundMark(r)
  BY <1>15, <1>e, <1>h DEF RefundMark, Flags
<1>16. CASE RefundExtra(r)
  <2>1. /\ refund[r] = "extra" /\ refund'[r] = "token" /\ UNCHANGED <<pc, sess>>
        /\ pc[r] \in Closing /\ ~sess[r].settled /\ ~sess[r].fundingSettled
        /\ UNCHANGED wallet
    BY <1>16 DEF RefundExtra, Flags
  <2>2. \/ /\ sess[r].source = "subscription" /\ ChargeSub(r, -sess[r].extraReserved)
        \/ /\ sess[r].source # "subscription" /\ UNCHANGED subscription
    BY <1>16, <1>h DEF RefundExtra
  <2>3. funds = (IF sess[r].source = "subscription" THEN sess[r].extraReserved ELSE 0)
                + sess[r].feePaid
    BY <2>1
  <2>4. funds' = sess[r].feePaid
    BY <1>e, <2>1, <2>2, <2>3 DEF ChargeSub
  <2>5. QED
    BY <1>e, <2>1, <2>4
<1>17. CASE RefundToken(r)
  BY <1>17, <1>e DEF RefundToken, Flags
<1>18. QED
  BY <1>1, <1>2, <1>3, <1>4, <1>5, <1>6, <1>7, <1>8, <1>9, <1>10, <1>11, <1>12, <1>13, <1>14, <1>15, <1>16, <1>17
  DEF Handler, RefundGoroutine

\* The amount of Charging is what the funding source holds without the fee,
\* and a request that is released holds nothing.
AmountIsHeld(r) ==
    /\ FundingAmount[r] = Held(r) /\ Held(r) \in Nat
    /\ FundingPhase[r] \in {"open", "charged", "released"}
    /\ FundingPhase[r] = "released" => Held(r) = 0

\* What Charging calls the amount of a request is what Billing holds for it.
LEMMA HeldAmounts ==
    ASSUME TypeOK, NEW r \in Requests, Good(r), FundingLedger(r)
    PROVE  AmountIsHeld(r)
<1>0. /\ sess[r] \in Session /\ walletDebit[r] \in Int /\ subDebit[r] \in Int
      /\ Flags(r) /\ Amounts(r)
  BY DEF TypeOK, Good
<1>1. Held(r) \in Nat
  BY <1>0, SessionFields DEF Held, Amounts
<1>2. FundingAmount[r] = Held(r)
  BY <1>0, <1>1, SessionFields DEF FundingLedger, FundingAmount
<1>3. FundingPhase[r] \in {"open", "charged", "released"}
  BY DEF FundingPhase
<1>4. ASSUME FundingPhase[r] = "released"
      PROVE  Held(r) = 0
  <2>1. ~sess[r].settled /\ ~sess[r].fundingSettled
    BY <1>4 DEF FundingPhase
  <2>2. CASE sess[r].refunded
    <3>1. refund[r] \in {"token", "finished"} /\ pc[r] \in Closing
      BY <1>0, <1>4, <2>1, <2>2 DEF FundingPhase, Flags
    <3>2. QED
      BY <2>1, <3>1 DEF Held, Opening, Reserving, Closing
  <2>3. CASE ~sess[r].refunded
    <3>1. pc[r] = "done" /\ (sess[r].source = "none" \/ ~(sess[r].preConsumed > 0))
      BY <1>4, <2>1, <2>3 DEF FundingPhase
    <3>2. sess[r].preConsumed = 0
      BY <1>0, <3>1, SessionFields DEF Amounts
    <3>3. refund[r] = "none"
      BY <1>0, <2>3 DEF Flags
    <3>4. QED
      BY <2>1, <3>1, <3>2, <3>3 DEF Held, Opening, Reserving
  <2>4. QED
    BY <2>2, <2>3
<1>5. QED
  BY <1>1, <1>2, <1>3, <1>4 DEF AmountIsHeld

\* Once a request is closed, no step of its handler and none of its refund
\* goroutine opens it again or moves what it holds.
LEMMA ClosedStays ==
    ASSUME TypeOK, NEW r \in Requests, Good(r), Good(r)',
           FundingPhase[r] # "open",
           StartRequest(r) \/ Handler(r) \/ RefundGoroutine(r)
    PROVE  FundingPhase'[r] = FundingPhase[r] /\ Held(r)' = Held(r)
<1>0. /\ pc \in [Requests -> HandlerStages] /\ refund \in [Requests -> RefundStages]
      /\ sess \in [Requests -> Session] /\ sess[r] \in Session
      /\ Flags(r)
  BY DEF TypeOK, Good
<1>1. /\ sess[r].settled \in BOOLEAN /\ sess[r].fundingSettled \in BOOLEAN
      /\ sess[r].refunded \in BOOLEAN
  BY <1>0, SessionFields
<1>2. CASE sess[r].settled \/ sess[r].fundingSettled
  <2>1. /\ pc[r] \in {"settleToken", "answered", "failing", "feeFunding",
                      "feeToken", "done"}
        /\ refund[r] = "none"
    BY <1>0, <1>1, <1>2 DEF Flags, Closing
  <2>2. ~NeedsRefund(sess[r])
    BY <1>2 DEF NeedsRefund
  <2>3. SettleToken(r) \/ Answer(r) \/ Refund(r) \/ FeeFunding(r) \/ FeeToken(r)
    BY <2>1 DEF Handler, RefundGoroutine, StartRequest, OpenLate, OpenWallet,
      PreConsumeToken, PreConsumeFunding, RollbackToken, Reserve, ReserveToken,
      RollbackReserve, Settle, UpstreamFails, RefundFunding, RefundMark,
      RefundExtra, RefundToken
  <2>4. /\ sess'[r].settled \/ sess'[r].fundingSettled
        /\ sess'[r].actual = sess[r].actual
        /\ pc'[r] \notin Opening \cup Reserving
    BY <1>0, <1>2, <2>2, <2>3
    DEF SettleToken, Answer, Refund, FeeFunding, FeeToken, Goto, Session,
        Opening, Reserving
  <2>5. FundingPhase[r] = "charged" /\ FundingPhase'[r] = "charged"
    BY <1>2, <2>4 DEF FundingPhase
  <2>6. Held(r) = sess[r].actual /\ Held(r)' = sess'[r].actual
    BY <1>2, <2>1, <2>4 DEF Held, Opening, Reserving
  <2>7. QED
    BY <2>4, <2>5, <2>6
<1>3. CASE ~sess[r].settled /\ ~sess[r].fundingSettled /\ sess[r].refunded
  <2>1. refund[r] \in {"token", "finished"} /\ pc[r] \in Closing
    BY <1>0, <1>3 DEF FundingPhase, Flags
  <2>2. FeeFunding(r) \/ FeeToken(r) \/ RefundToken(r)
    BY <2>1 DEF Closing, Handler, RefundGoroutine, StartRequest, OpenLate, OpenWallet,
      PreConsumeToken, PreConsumeFunding, RollbackToken, Reserve, ReserveToken,
      RollbackReserve, Settle, SettleToken, Answer, Refund, UpstreamFails,
      RefundFunding, RefundMark, RefundExtra
  <2>3. /\ ~sess'[r].settled /\ ~sess'[r].fundingSettled /\ sess'[r].refunded
        /\ refund'[r] \in {"token", "finished"} /\ pc'[r] \in Closing
    BY <1>0, <1>3, <2>1, <2>2
    DEF FeeFunding, FeeToken, RefundToken, Goto, Session, Closing
  <2>4. FundingPhase[r] = "released" /\ FundingPhase'[r] = "released"
    BY <1>3, <2>1, <2>3 DEF FundingPhase
  <2>5. Held(r) = 0 /\ Held(r)' = 0
    BY <1>3, <2>1, <2>3 DEF Held, Opening, Reserving, Closing
  <2>6. QED
    BY <2>4, <2>5
<1>4. CASE ~sess[r].settled /\ ~sess[r].fundingSettled /\ ~sess[r].refunded
  <2>1. pc[r] = "done" /\ refund[r] = "none"
    BY <1>0, <1>4 DEF FundingPhase, Flags
  <2>2. QED
    BY <2>1 DEF Handler, RefundGoroutine, StartRequest, OpenLate, OpenWallet,
      PreConsumeToken, PreConsumeFunding, RollbackToken, Reserve, ReserveToken,
      RollbackReserve, Settle, SettleToken, Answer, Refund, UpstreamFails,
      FeeFunding, FeeToken, RefundFunding, RefundMark, RefundExtra, RefundToken
<1>5. QED
  BY <1>1, <1>2, <1>3, <1>4

-----------------------------------------------------------------------------
(* The inductive invariants and what follows from them. *)

AllSided == \A r \in Requests : Sided(r)
AllAbove == \A r \in Requests : Floor(r)
AllFunded == \A r \in Requests : FundingLedger(r)
AllHeld == \A r \in Requests : AmountIsHeld(r)

\* A step of r moves r's own entries only.
LEMMA OthersStay ==
    ASSUME TypeOK, AllGood, NEW r \in Requests,
           StartRequest(r) \/ Handler(r) \/ RefundGoroutine(r),
           NEW q \in Requests \ {r}
    PROVE  /\ pc'[q] = pc[q] /\ refund'[q] = refund[q] /\ sess'[q] = sess[q]
           /\ walletDebit'[q] = walletDebit[q] /\ tokenDebit'[q] = tokenDebit[q]
           /\ subDebit'[q] = subDebit[q]
  BY TypeStep, CountersStep DEF Others

\* The steps that are not a request's leave every request alone.
LEMMA OtherSteps ==
    ASSUME [Next]_vars,
           ~ \E r \in Requests : StartRequest(r) \/ Handler(r) \/ RefundGoroutine(r)
    PROVE  UNCHANGED <<pc, sess, refund, walletDebit, tokenDebit, subDebit>>
<1>1. ASSUME NEW r \in Requests, Metering(r)
      PROVE  UNCHANGED <<pc, sess, refund, walletDebit, tokenDebit, subDebit>>
  BY <1>1 DEF Metering, Connect, PreWssConsumeQuota, MeterFunding, MeterToken,
     balances, wallet, token, subscription
<1>2. SubscriptionEnds \/ PeriodEnds \/ ResetDueSubscriptions \/ AdminReset =>
          UNCHANGED <<pc, sess, refund, walletDebit, tokenDebit, subDebit>>
  BY DEF SubscriptionEnds, PeriodEnds, ResetDueSubscriptions, AdminReset, ResetUsage,
     balances, wallet, token, subscription
<1>3. UNCHANGED vars =>
          UNCHANGED <<pc, sess, refund, walletDebit, tokenDebit, subDebit>>
  BY DEF vars
<1>4. QED
  BY <1>1, <1>2, <1>3 DEF Next, AllFinished

\* Sided holds of every request in every behaviour.
LEMMA SidedInvariant == Spec => [](TypeOK /\ AllGood /\ AllMetered /\ AllSided)
<1>1. Init => AllSided
  BY DEF Init, AllSided, Sided, NoSession
<1>2. ASSUME TypeOK, AllGood, AllSided, [Next]_vars PROVE AllSided'
  <2>1. ASSUME NEW r \in Requests,
               StartRequest(r) \/ Handler(r) \/ RefundGoroutine(r)
        PROVE  AllSided'
    <3>1. Sided(r)'
      BY <1>2, <2>1, SideStep DEF AllSided, AllGood
    <3>2. ASSUME NEW q \in Requests \ {r} PROVE Sided(q)'
      BY <1>2, <2>1, OthersStay DEF AllSided, Sided
    <3>3. QED
      BY <3>1, <3>2 DEF AllSided
  <2>2. CASE ~ \E r \in Requests :
                 StartRequest(r) \/ Handler(r) \/ RefundGoroutine(r)
    BY <1>2, <2>2, OtherSteps DEF AllSided, Sided
  <2>3. QED
    BY <2>1, <2>2
<1>3. QED
  BY <1>1, <1>2, InvariantInit, InvariantStep, PTL DEF Spec

\* A request is never charged on both funding sources, whatever fallbacks it
\* went through, image or not and whatever writes failed; the metering of a
\* realtime conversation charges the same source.
THEOREM OneFundingSourceHolds == Spec => []OneFundingSource
<1>1. AllSided /\ AllMetered => OneFundingSource
  <2> SUFFICES ASSUME AllSided, AllMetered, NEW r \in Requests
               PROVE  /\ walletDebit[r] # 0 \/ metered[r].wallet # 0 =>
                             sess[r].source # "subscription"
                      /\ subDebit[r] # 0 \/ metered[r].sub # 0 =>
                             sess[r].source = "subscription"
    BY DEF OneFundingSource
  <2>1. Sided(r) /\ MeterLedger(r)
    BY DEF AllSided, AllMetered
  <2>2. QED
    BY <2>1 DEF Sided, MeterLedger
<1>2. QED
  BY <1>1, SidedInvariant, PTL

\* So does Floor, when a marked refund is never run again.
LEMMA FloorInvariant ==
    ASSUME "refundMark" \notin FaultPoints
    PROVE  Spec => [](TypeOK /\ AllGood /\ AllMetered /\ AllSided /\ AllAbove)
<1>1. Init => AllAbove
  BY DEF Init, AllAbove, Floor, TokenFloor, Held, NoSession, Opening
<1>2. ASSUME TypeOK, AllGood, AllSided, AllAbove, [Next]_vars PROVE AllAbove'
  <2>1. ASSUME NEW r \in Requests,
               StartRequest(r) \/ Handler(r) \/ RefundGoroutine(r)
        PROVE  AllAbove'
    <3>1. Floor(r)'
      BY <1>2, <2>1, FloorStep DEF AllAbove, AllSided, AllGood
    <3>2. ASSUME NEW q \in Requests \ {r} PROVE Floor(q)'
      BY <1>2, <2>1, OthersStay DEF AllAbove, Floor, TokenFloor, Held
    <3>3. QED
      BY <3>1, <3>2 DEF AllAbove
  <2>2. CASE ~ \E r \in Requests :
                 StartRequest(r) \/ Handler(r) \/ RefundGoroutine(r)
    BY <1>2, <2>2, OtherSteps DEF AllAbove, Floor, TokenFloor, Held
  <2>3. QED
    BY <2>1, <2>2
<1>3. QED
  BY <1>1, <1>2, SidedInvariant, PTL DEF Spec

\* No sequence of rollbacks, settlements and refunds returns more to a wallet,
\* a subscription or a token than the request has taken, image or not, for
\* every failing write but the commit that marks a subscription refund as done
\* (refundWithRetry then gives the same amount back again).
THEOREM NoOverRefundHolds ==
    ASSUME "refundMark" \notin FaultPoints
    PROVE  Spec => []NoOverRefund
<1>1. TypeOK /\ AllGood /\ AllSided /\ AllAbove => NoOverRefund
  <2> SUFFICES ASSUME TypeOK, AllGood, AllSided, AllAbove, NEW r \in Requests
               PROVE  walletDebit[r] >= 0 /\ tokenDebit[r] >= 0 /\ subDebit[r] >= 0
    BY DEF NoOverRefund
  <2>1. /\ sess[r] \in Session /\ walletDebit[r] \in Int /\ subDebit[r] \in Int
        /\ tokenDebit[r] \in Int /\ Amounts(r) /\ Sided(r) /\ Floor(r)
    BY DEF TypeOK, AllGood, Good, AllSided, AllAbove
  <2>2. Held(r) \in Nat /\ TokenFloor(r) \in Nat
    BY <2>1, SessionFields DEF Held, TokenFloor, Amounts
  <2>3. walletDebit[r] + subDebit[r] >= 0 /\ tokenDebit[r] >= 0
    BY <2>1, <2>2 DEF Floor
  <2>4. walletDebit[r] = 0 \/ subDebit[r] = 0
    BY <2>1 DEF Sided
  <2>5. QED
    BY <2>1, <2>3, <2>4
<1>2. QED
  BY <1>1, FloorInvariant, PTL

\* And FundingLedger, where FundingExact leaves out what breaks it.
LEMMA FundingInvariant ==
    ASSUME FundingExact
    PROVE  Spec => [](TypeOK /\ AllGood /\ AllSided /\ AllFunded)
<1>1. Init => AllFunded
  BY DEF Init, AllFunded, FundingLedger, Held, NoSession, Opening
<1>2. ASSUME TypeOK, AllGood, AllSided, AllFunded, [Next]_vars PROVE AllFunded'
  <2>1. ASSUME NEW r \in Requests,
               StartRequest(r) \/ Handler(r) \/ RefundGoroutine(r)
        PROVE  AllFunded'
    <3>1. FundingLedger(r)'
      BY <1>2, <2>1, FundingStep DEF AllFunded, AllSided, AllGood
    <3>2. ASSUME NEW q \in Requests \ {r} PROVE FundingLedger(q)'
      BY <1>2, <2>1, OthersStay DEF AllFunded, FundingLedger, Held
    <3>3. QED
      BY <3>1, <3>2 DEF AllFunded
  <2>2. CASE ~ \E r \in Requests :
                 StartRequest(r) \/ Handler(r) \/ RefundGoroutine(r)
    BY <1>2, <2>2, OtherSteps DEF AllFunded, FundingLedger, Held
  <2>3. QED
    BY <2>1, <2>2
<1>3. QED
  BY <1>1, <1>2, SidedInvariant, PTL DEF Spec

\* A step of Billing is a step of Charging, or leaves it alone.
LEMMA ChargingStep ==
    ASSUME TypeOK, AllGood, AllHeld, AllGood', AllHeld', [Next]_vars
    PROVE  [Promise!ChargingNext]_<<FundingPhase, FundingAmount>>
<1>1. ASSUME NEW r \in Requests,
             StartRequest(r) \/ Handler(r) \/ RefundGoroutine(r)
      PROVE  Promise!ChargingNext \/ UNCHANGED <<FundingPhase, FundingAmount>>
  <2>1. ASSUME NEW q \in Requests \ {r}
        PROVE  FundingPhase'[q] = FundingPhase[q] /\ FundingAmount'[q] = FundingAmount[q]
    BY <1>1, <2>1, OthersStay DEF FundingPhase, FundingAmount
  <2>2. /\ FundingPhase = [q \in Requests |-> FundingPhase[q]]
        /\ FundingPhase' = [q \in Requests |-> FundingPhase'[q]]
        /\ FundingAmount = [q \in Requests |-> FundingAmount[q]]
        /\ FundingAmount' = [q \in Requests |-> FundingAmount'[q]]
    BY DEF FundingPhase, FundingAmount
  <2>3. /\ FundingAmount'[r] = Held(r)' /\ FundingAmount'[r] \in Nat
        /\ FundingPhase'[r] \in {"open", "charged", "released"}
        /\ FundingPhase'[r] = "released" => FundingAmount'[r] = 0
    BY DEF AllHeld, AmountIsHeld
  <2>4. FundingAmount[r] = Held(r)
    BY DEF AllHeld, AmountIsHeld
  <2>5. /\ FundingPhase' = [FundingPhase EXCEPT ![r] = FundingPhase'[r]]
        /\ FundingAmount' = [FundingAmount EXCEPT ![r] = FundingAmount'[r]]
    BY <2>1, <2>2
  <2>6. CASE FundingPhase[r] # "open"
    <3>1. FundingPhase'[r] = FundingPhase[r] /\ FundingAmount'[r] = FundingAmount[r]
      BY <1>1, <2>3, <2>4, <2>6, ClosedStays DEF AllGood
    <3>2. QED
      BY <2>2, <2>5, <3>1
  <2>7. CASE FundingPhase[r] = "open"
    <3>1. CASE FundingPhase'[r] = "open"
      <4>1. FundingPhase' = FundingPhase
        BY <2>2, <2>5, <2>7, <3>1
      <4>2. Promise!Hold(r)
        BY <2>3, <2>5, <2>7, <4>1 DEF Promise!Hold, Promise!Moves
      <4>3. QED
        BY <4>2 DEF Promise!ChargingNext
    <3>2. CASE FundingPhase'[r] = "charged"
      <4>1. Promise!Charge(r)
        BY <2>3, <2>5, <2>7, <3>2 DEF Promise!Charge, Promise!Moves
      <4>2. QED
        BY <4>1 DEF Promise!ChargingNext
    <3>3. CASE FundingPhase'[r] = "released"
      <4>1. Promise!Release(r)
        BY <2>3, <2>5, <2>7, <3>3 DEF Promise!Release
      <4>2. QED
        BY <4>1 DEF Promise!ChargingNext
    <3>4. QED
      BY <2>3, <3>1, <3>2, <3>3
  <2>8. QED
    BY <2>6, <2>7
<1>2. CASE ~ \E r \in Requests :
               StartRequest(r) \/ Handler(r) \/ RefundGoroutine(r)
  BY <1>2, OtherSteps DEF FundingPhase, FundingAmount
<1>3. QED
  BY <1>1, <1>2

\* Billing implements Charging: every request is closed once, by a charge or
\* by a release, and nothing that runs later for it (the deferred Refund, the
\* refund goroutine, a fee) moves its funding again.  Failing writes are
\* allowed but for those after which the code itself reports, and leaves, a
\* wrong funding balance; image requests are left out because their second
\* reservation overwrites WalletFunding.consumed.
THEOREM BillingImplementsCharging ==
    ASSUME FundingExact
    PROVE  Spec => ImplementsCharging
<1>1. Init => Promise!ChargingInit
  BY DEF Init, Promise!ChargingInit, FundingPhase, FundingAmount, NoSession
<1>2. Spec => [](TypeOK /\ AllGood /\ AllSided /\ AllFunded)
  BY FundingInvariant
<1>3. TypeOK /\ AllGood /\ AllFunded => AllHeld
  BY HeldAmounts DEF AllGood, AllFunded, AllHeld
<1>4. /\ TypeOK /\ AllGood /\ AllHeld /\ AllGood' /\ AllHeld'
      /\ [Next]_vars
      => [Promise!ChargingNext]_<<FundingPhase, FundingAmount>>
  BY ChargingStep
<1>5. QED
  BY <1>1, <1>2, <1>3, <1>4, PTL DEF Spec, ImplementsCharging, Promise!ChargingSpec
=============================================================================
