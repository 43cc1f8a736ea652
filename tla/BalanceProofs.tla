--------------------------- MODULE BalanceProofs ---------------------------
(***************************************************************************)
(* The three balances of Billing as sums over its requests: what sessions  *)
(* and fees have asked a balance for is missing there (metering takes      *)
(* more, a reset of the subscription gives back), and the reservations     *)
(* that were checked against a balance are covered by it.                  *)
(*                                                                         *)
(* SumFunction is a fold over a finite set.  The first part shows by       *)
(* induction over subsets what a proof needs of it: a sum of zeros, of     *)
(* larger terms, and after one term has changed.                           *)
(***************************************************************************)
EXTENDS FundingProofs, FiniteSetTheorems, WellFoundedInduction

-----------------------------------------------------------------------------
(* Sums. *)

\* A set of naturals that is not empty has a least member.
LEMMA Least ==
    ASSUME NEW T, T \subseteq Nat, T # {}
    PROVE  \E n \in T : \A m \in T : n <= m
<1> DEFINE R == OpToRel(<, Nat)
<1>1. IsWellFoundedOn(R, Nat)
  BY NatLessThanWellFounded
<1>2. \A m, n \in Nat : m < n => <<m, n>> \in R
  BY DEF OpToRel
<1> HIDE DEF R
<1>3. PICK n \in T : \A m \in T : ~(<<m, n>> \in R)
  BY <1>1, WFMin
<1>4. ASSUME NEW m \in T PROVE n <= m
  <2>1. m \in Nat /\ n \in Nat
    OBVIOUS
  <2>2. ~(m < n)
    BY <1>2, <1>3, <2>1
  <2>3. QED
    BY <2>1, <2>2
<1>5. QED
  BY <1>4

\* The recursion by which SumFunction is defined.
Pick(s) == CHOOSE x \in s : TRUE
SumStep(g, f, s) == IF s = {} THEN 0 ELSE f[Pick(s)] + g[s \ {Pick(s)}]
SumsTo(g, f, U) == g = [s \in U |-> SumStep(g, f, s)]
Sums(f) == CHOOSE g : SumsTo(g, f, SUBSET DOMAIN f)

LEMMA SumIsSums ==
    ASSUME NEW f
    PROVE  SumFunction(f) = Sums(f)[DOMAIN f]
  BY Zenon DEF SumFunction, SumFunctionOnSet, FoldFunctionOnSet, MapThenFoldSet,
     Sums, SumsTo, SumStep, Pick

\* The subsets of D with at most n members.
Small(D, n) == {s \in SUBSET D : Cardinality(s) <= n}

\* A set that loses one of its members is smaller.
LEMMA PickFirst ==
    ASSUME NEW D, IsFiniteSet(D), NEW s \in SUBSET D
    PROVE  /\ Cardinality(s) \in Nat
           /\ s # {} => /\ Pick(s) \in s /\ s \ {Pick(s)} \in SUBSET D
                        /\ Cardinality(s \ {Pick(s)}) = Cardinality(s) - 1
           /\ s = {} => Cardinality(s) = 0
           /\ Cardinality(s) = 0 => s = {}
<1>1. IsFiniteSet(s)
  BY FS_Subset
<1>2. Cardinality(s) \in Nat
  BY <1>1, FS_CardinalityType
<1>3. Cardinality(s) = 0 <=> s = {}
  BY <1>1, FS_EmptySet
<1>4. s # {} => Pick(s) \in s
  BY DEF Pick
<1>5. s # {} => Cardinality(s \ {Pick(s)}) = Cardinality(s) - 1
  BY <1>1, <1>4, FS_RemoveElement
<1>6. QED
  BY <1>2, <1>3, <1>4, <1>5

\* The recursion has a solution.
LEMMA SumsExist ==
    ASSUME NEW D, IsFiniteSet(D), NEW f
    PROVE  \E g : SumsTo(g, f, SUBSET D)
<1> DEFINE N == Cardinality(D)
           T == {m \in 0..N : ~ \E g : SumsTo(g, f, Small(D, m))}
<1>n. N \in Nat
  BY FS_CardinalityType
<1>1. ASSUME NEW m \in T, \A j \in T : m <= j PROVE FALSE
  <2>1. m \in 0..N /\ ~ \E g : SumsTo(g, f, Small(D, m))
    OBVIOUS
  <2>2. m # 0
    <3> DEFINE g == [s \in Small(D, 0) |-> 0]
    <3>1. ASSUME NEW s \in Small(D, 0) PROVE s = {}
      <4>1. s \in SUBSET D /\ Cardinality(s) <= 0
        BY DEF Small
      <4>2. Cardinality(s) \in Nat /\ (Cardinality(s) = 0 => s = {})
        BY <4>1, PickFirst
      <4>3. QED
        BY <4>1, <4>2
    <3>2. SumsTo(g, f, Small(D, 0))
      BY <3>1 DEF SumsTo, SumStep
    <3>3. QED
      BY <2>1, <3>2
  <2>3. m - 1 \in 0..N /\ m - 1 < m
    BY <1>n, <2>1, <2>2
  <2>4. m - 1 \notin T
    <3> HIDE DEF T
    <3>1. m - 1 \in T => m <= m - 1
      BY <1>1
    <3>2. QED
      BY <2>1, <2>3, <3>1
  <2>5. PICK f1 : SumsTo(f1, f, Small(D, m - 1))
    BY <2>3, <2>4
  <2> HIDE DEF T
  <2> DEFINE g == [s \in Small(D, m) |-> SumStep(f1, f, s)]
  <2>6. ASSUME NEW s \in Small(D, m - 1) PROVE g[s] = f1[s]
    <3>1. s \in Small(D, m)
      <4>1. Cardinality(s) \in Nat /\ Cardinality(s) <= m - 1 /\ s \in SUBSET D
        BY PickFirst DEF Small
      <4>2. QED
        BY <1>n, <2>1, <4>1 DEF Small
    <3>2. f1[s] = SumStep(f1, f, s)
      BY <2>5 DEF SumsTo
    <3>3. QED
      BY <3>1, <3>2
  <2> HIDE DEF g
  <2>7. ASSUME NEW s \in Small(D, m) PROVE SumStep(g, f, s) = SumStep(f1, f, s)
    <3>1. CASE s = {}
      BY <3>1 DEF SumStep
    <3>2. CASE s # {}
      <4>1. s \in SUBSET D /\ Cardinality(s) <= m
        BY DEF Small
      <4>2. s \ {Pick(s)} \in SUBSET D /\ Cardinality(s \ {Pick(s)}) <= m - 1
        BY <1>n, <2>1, <3>2, <4>1, PickFirst
      <4>3. s \ {Pick(s)} \in Small(D, m - 1)
        BY <4>2 DEF Small
      <4>4. QED
        BY <2>6, <3>2, <4>3 DEF SumStep
    <3>3. QED
      BY <3>1, <3>2
  <2>8. g = [s \in Small(D, m) |-> SumStep(f1, f, s)]
    BY DEF g
  <2>9. SumsTo(g, f, Small(D, m))
    BY <2>7, <2>8 DEF SumsTo
  <2>10. QED
    BY <2>1, <2>9
<1>2. T = {}
  <2>1. T \subseteq Nat
    OBVIOUS
  <2> HIDE DEF T
  <2>2. QED
    BY <1>1, <2>1, Least
<1>3. \E g : SumsTo(g, f, Small(D, N))
  BY <1>n, <1>2
<1>4. Small(D, N) = SUBSET D
  <2>1. ASSUME NEW s \in SUBSET D PROVE Cardinality(s) <= N
    BY FS_Subset
  <2>2. QED
    BY <2>1 DEF Small
<1>5. QED
  BY <1>3, <1>4

\* So Sums(f) satisfies it.
LEMMA SumsStep ==
    ASSUME NEW D, IsFiniteSet(D), NEW f, D = DOMAIN f, NEW s \in SUBSET D
    PROVE  Sums(f)[s] = SumStep(Sums(f), f, s)
<1>1. SumsTo(Sums(f), f, SUBSET D)
  BY SumsExist DEF Sums
<1>2. QED
  BY <1>1 DEF SumsTo

\* Induction over the subsets of a finite set: a family Bad of them is empty
\* if it holds no set s without holding s less the member picked from it.
LEMMA SubsetInduction ==
    ASSUME NEW D, IsFiniteSet(D), NEW Bad \in SUBSET SUBSET D, {} \notin Bad,
           \A s \in Bad : s # {} => s \ {Pick(s)} \in Bad
    PROVE  Bad = {}
<1> DEFINE T == {n \in Nat : \E s \in Bad : Cardinality(s) = n}
<1>1. ASSUME NEW n \in T, \A m \in T : n <= m PROVE FALSE
  <2>1. PICK s \in Bad : Cardinality(s) = n
    OBVIOUS
  <2>2. s # {} /\ s \in SUBSET D
    OBVIOUS
  <2>3. /\ s \ {Pick(s)} \in Bad /\ s \ {Pick(s)} \in SUBSET D
        /\ Cardinality(s \ {Pick(s)}) = n - 1
    BY <2>1, <2>2, PickFirst
  <2>4. n - 1 \in Nat /\ n \in Nat
    BY <2>1, <2>2, <2>3, PickFirst
  <2>5. n - 1 \in T
    BY <2>3, <2>4
  <2> HIDE DEF T
  <2>6. n <= n - 1
    BY <1>1, <2>5
  <2>7. QED
    BY <2>4, <2>6
<1>2. T = {}
  <2>1. T \subseteq Nat
    OBVIOUS
  <2> HIDE DEF T
  <2>2. QED
    BY <1>1, <2>1, Least
<1>3. ASSUME NEW s \in Bad PROVE FALSE
  <2>1. Cardinality(s) \in Nat
    BY PickFirst
  <2>2. QED
    BY <1>2, <2>1
<1>4. QED
  BY <1>3

\* A sum of integers is an integer, and a sum of larger terms is larger.
LEMMA SumOrder ==
    ASSUME NEW D, IsFiniteSet(D), NEW f \in [D -> Int], NEW g \in [D -> Int],
           \A x \in D : f[x] <= g[x]
    PROVE  /\ SumFunction(f) \in Int /\ SumFunction(g) \in Int
           /\ SumFunction(f) <= SumFunction(g)
<1> DEFINE F == Sums(f)
           G == Sums(g)
           Fine(s) == F[s] \in Int /\ G[s] \in Int /\ F[s] <= G[s]
           Bad == {s \in SUBSET D : ~Fine(s)}
<1>0. DOMAIN f = D /\ DOMAIN g = D
  OBVIOUS
<1>1. ASSUME NEW s \in SUBSET D
      PROVE  F[s] = SumStep(F, f, s) /\ G[s] = SumStep(G, g, s)
  BY <1>0, SumsStep
<1> HIDE DEF F, G
<1>2. Fine({})
  BY <1>1 DEF SumStep
<1>3. ASSUME NEW s \in SUBSET D, s # {}, Fine(s \ {Pick(s)}) PROVE Fine(s)
  <2> DEFINE x == Pick(s)
             t == s \ {x}
  <2>1. x \in s /\ x \in D
    BY <1>3, PickFirst
  <2>2. F[s] = f[x] + F[t] /\ G[s] = g[x] + G[t]
    BY <1>1, <1>3 DEF SumStep
  <2>3. f[x] \in Int /\ g[x] \in Int /\ f[x] <= g[x]
    BY <2>1
  <2> HIDE DEF x
  <2>4. QED
    BY <1>3, <2>2, <2>3 DEF x
<1>4. Bad = {}
  <2>1. Bad \in SUBSET SUBSET D /\ {} \notin Bad
    BY <1>2
  <2>2. \A s \in Bad : s # {} => s \ {Pick(s)} \in Bad
    BY <1>3
  <2> HIDE DEF Bad
  <2>3. QED
    BY <2>1, <2>2, SubsetInduction
<1>5. Fine(D)
  BY <1>4
<1>6. SumFunction(f) = F[D] /\ SumFunction(g) = G[D]
  BY <1>0, SumIsSums DEF F, G
<1>7. QED
  BY <1>5, <1>6

\* A sum after one of its terms has changed.
LEMMA SumExcept ==
    ASSUME NEW D, IsFiniteSet(D), NEW f \in [D -> Int], NEW g \in [D -> Int],
           NEW r \in D, \A x \in D : x # r => g[x] = f[x]
    PROVE  SumFunction(g) = SumFunction(f) + g[r] - f[r]
<1> DEFINE F == Sums(f)
           G == Sums(g)
           Fine(s) == /\ F[s] \in Int /\ G[s] \in Int
                      /\ G[s] = IF r \in s THEN F[s] + g[r] - f[r] ELSE F[s]
           Bad == {s \in SUBSET D : ~Fine(s)}
<1>0. DOMAIN f = D /\ DOMAIN g = D
  OBVIOUS
<1>1. ASSUME NEW s \in SUBSET D
      PROVE  F[s] = SumStep(F, f, s) /\ G[s] = SumStep(G, g, s)
  BY <1>0, SumsStep
<1> HIDE DEF F, G
<1>2. Fine({})
  BY <1>1 DEF SumStep
<1>3. ASSUME NEW s \in SUBSET D, s # {}, Fine(s \ {Pick(s)}) PROVE Fine(s)
  <2> DEFINE x == Pick(s)
             t == s \ {x}
  <2>1. x \in s /\ x \in D
    BY <1>3, PickFirst
  <2>2. F[s] = f[x] + F[t] /\ G[s] = g[x] + G[t]
    BY <1>1, <1>3 DEF SumStep
  <2>3. /\ f[x] \in Int /\ g[x] \in Int /\ f[r] \in Int /\ g[r] \in Int
        /\ x # r => g[x] = f[x]
    BY <2>1
  <2>4. r \in t <=> r \in s /\ r # x
    OBVIOUS
  <2>5. Fine(t)
    BY <1>3
  <2> HIDE DEF x, t
  <2>6. CASE r = x
    BY <2>1, <2>2, <2>3, <2>4, <2>5, <2>6
  <2>7. CASE r # x
    BY <2>1, <2>2, <2>3, <2>4, <2>5, <2>7
  <2>8. QED
    BY <2>6, <2>7
<1>4. Bad = {}
  <2>1. Bad \in SUBSET SUBSET D /\ {} \notin Bad
    BY <1>2
  <2>2. \A s \in Bad : s # {} => s \ {Pick(s)} \in Bad
    BY <1>3
  <2> HIDE DEF Bad
  <2>3. QED
    BY <2>1, <2>2, SubsetInduction
<1>5. Fine(D)
  BY <1>4
<1>6. SumFunction(f) = F[D] /\ SumFunction(g) = G[D]
  BY <1>0, SumIsSums DEF F, G
<1>7. QED
  BY <1>5, <1>6

\* A sum of zeros.
LEMMA SumZero ==
    ASSUME NEW D, IsFiniteSet(D), NEW f \in [D -> Int], \A x \in D : f[x] = 0
    PROVE  SumFunction(f) = 0
<1> DEFINE F == Sums(f)
           Fine(s) == F[s] = 0
           Bad == {s \in SUBSET D : ~Fine(s)}
<1>0. DOMAIN f = D
  OBVIOUS
<1>1. ASSUME NEW s \in SUBSET D
      PROVE  F[s] = SumStep(F, f, s)
  BY <1>0, SumsStep
<1> HIDE DEF F
<1>2. Fine({})
  BY <1>1 DEF SumStep
<1>3. ASSUME NEW s \in SUBSET D, s # {}, Fine(s \ {Pick(s)}) PROVE Fine(s)
  <2> DEFINE x == Pick(s)
             t == s \ {x}
  <2>1. x \in s /\ x \in D
    BY <1>3, PickFirst
  <2>2. F[s] = f[x] + F[t] /\ f[x] = 0
    BY <1>1, <1>3, <2>1 DEF SumStep
  <2>3. QED
    BY <1>3, <2>2
<1>4. Bad = {}
  <2>1. Bad \in SUBSET SUBSET D /\ {} \notin Bad
    BY <1>2
  <2>2. \A s \in Bad : s # {} => s \ {Pick(s)} \in Bad
    BY <1>3
  <2> HIDE DEF Bad
  <2>3. QED
    BY <2>1, <2>2, SubsetInduction
<1>5. Fine(D)
  BY <1>4
<1>6. SumFunction(f) = F[D]
  BY <1>0, SumIsSums DEF F
<1>7. QED
  BY <1>5, <1>6

-----------------------------------------------------------------------------
(* A balance and its debits. *)

\* What is missing on the wallet and on the token is what r has asked for.
WalletKept(r) == userQuota' + walletDebit'[r] = userQuota + walletDebit[r]
TokenKept(r) ==
    /\ tokenRemain' + tokenDebit'[r] = tokenRemain + tokenDebit[r]
    /\ r \in Playground => tokenDebit'[r] = tokenDebit[r]

\* The usage moves with what r has asked for, from where it stood or, with a
\* new period, from zero, and not above the total.
UsageKept(r) ==
    /\ \/ /\ subUsed' = NewUsed(SubDebits'[r] - SubDebits[r])
          /\ carried' = carried
       \/ /\ subUsed' = SubDebits'[r] - SubDebits[r]
          /\ carried' = SubDebits
    /\ SubTotal > 0 /\ subUsed <= SubTotal => subUsed' <= SubTotal

LEMMA WalletMoves ==
    ASSUME TypeOK, NEW r \in Requests, NEW n \in Int,
           UNCHANGED wallet \/ ChargeWallet(r, n)
    PROVE  WalletKept(r)
  BY DEF TypeOK, ChargeWallet, WalletKept, wallet

LEMMA TokenMoves ==
    ASSUME TypeOK, NEW r \in Requests, NEW n \in Int,
           UNCHANGED token \/ ChargeToken(r, n)
    PROVE  TokenKept(r)
  BY DEF TypeOK, ChargeToken, TokenKept, token

LEMMA UsageMoves ==
    ASSUME TypeOK, NEW r \in Requests, NEW n \in Int, metered' = metered,
           \/ UNCHANGED <<subscription, period>>
           \/ /\ ChargeSub(r, n) /\ UNCHANGED period
              /\ CanChargeSub(n) \/ n <= 0
           \/ SubscriptionPreConsume(r, n) /\ n >= 0
    PROVE  UsageKept(r)
<1>0. /\ subUsed \in Nat /\ subDebit[r] \in Int /\ subDebit \in [Requests -> Int]
      /\ SubTotal \in Nat /\ metered[r].sub \in Nat
  BY AmountsAssumption DEF TypeOK
<1>m. subDebit'[r] \in Int => SubDebits'[r] - SubDebits[r] = subDebit'[r] - subDebit[r]
  BY <1>0 DEF SubDebits
<1>1. CASE UNCHANGED <<subscription, period>>
  <2>1. SubDebits'[r] - SubDebits[r] = 0 /\ subUsed' = subUsed /\ carried' = carried
    BY <1>0, <1>1, <1>m DEF subscription, period
  <2>2. NewUsed(0) = subUsed
    BY <1>0 DEF NewUsed
  <2>3. QED
    BY <2>1, <2>2 DEF UsageKept
<1>2. CASE ChargeSub(r, n) /\ UNCHANGED period /\ (CanChargeSub(n) \/ n <= 0)
  <2>1. subUsed' = NewUsed(n) /\ SubDebits'[r] - SubDebits[r] = n /\ carried' = carried
    BY <1>0, <1>2, <1>m DEF ChargeSub, period
  <2>2. ASSUME SubTotal > 0, subUsed <= SubTotal
        PROVE  NewUsed(n) <= SubTotal
    <3>1. CASE n <= 0
      BY <1>0, <2>2, <3>1 DEF NewUsed
    <3>2. CASE CanChargeSub(n) /\ n > 0
      BY <1>0, <2>2, <3>2 DEF CanChargeSub
    <3>3. QED
      BY <1>2, <3>1, <3>2
  <2>3. QED
    BY <2>1, <2>2 DEF UsageKept
<1>3. CASE SubscriptionPreConsume(r, n) /\ n >= 0
  <2>1. /\ subUsed' = UsedNow + n /\ SubDebits'[r] - SubDebits[r] = n
        /\ carried' = IF resetDue THEN SubDebits ELSE carried
        /\ SubTotal = 0 \/ SubTotal - UsedNow >= n
    BY <1>0, <1>3, <1>m DEF SubscriptionPreConsume, CanPreConsumeSub
  <2>2. UsedNow \in Nat /\ (SubTotal > 0 => subUsed' <= SubTotal)
    BY <1>0, <2>1 DEF UsedNow
  <2>3. CASE resetDue
    <3>1. subUsed' = n
      BY <2>1, <2>3 DEF UsedNow
    <3>2. QED
      BY <2>1, <2>2, <2>3, <3>1 DEF UsageKept
  <2>4. CASE ~resetDue
    <3>1. subUsed' = NewUsed(n)
      BY <1>0, <1>3, <2>1, <2>4 DEF UsedNow, NewUsed
    <3>2. QED
      BY <2>1, <2>2, <2>4, <3>1 DEF UsageKept
  <2>5. QED
    BY <2>3, <2>4
<1>4. QED
  BY <1>1, <1>2, <1>3

\* So does a step of the metering of r, which leaves the other requests alone.
LEMMA MeterUsage ==
    ASSUME TypeOK, NEW r \in Requests, Metering(r)
    PROVE  UsageKept(r)
<1>0. /\ subUsed \in Nat /\ subDebit[r] \in Int /\ SubTotal \in Nat
      /\ metered \in [Requests -> [wallet: Nat, sub: Nat, token: Nat]]
      /\ metered[r] \in [wallet: Nat, sub: Nat, token: Nat]
      /\ metered[r].sub \in Nat /\ meter \in [Requests -> [Callers -> Call]]
  BY AmountsAssumption DEF TypeOK
<1>1. subDebit' = subDebit /\ carried' = carried
  BY DEF Metering, Connect, PreWssConsumeQuota, MeterFunding, MeterToken,
     balances, subscription, period
<1>2. ASSUME NEW n \in Nat, subUsed' = NewUsed(n), CanChargeSub(n),
             metered'[r].sub = metered[r].sub + n
      PROVE  UsageKept(r)
  <2>1. SubDebits'[r] - SubDebits[r] = n
    BY <1>0, <1>1, <1>2 DEF SubDebits
  <2>2. SubTotal > 0 /\ subUsed <= SubTotal => NewUsed(n) <= SubTotal
    BY <1>0, <1>2 DEF CanChargeSub, NewUsed
  <2>3. QED
    BY <1>1, <1>2, <2>1, <2>2 DEF UsageKept
<1>3. ASSUME subUsed' = subUsed, metered'[r].sub = metered[r].sub
      PROVE  UsageKept(r)
  <2>1. NewUsed(0) = subUsed /\ CanChargeSub(0) /\ metered'[r].sub = metered[r].sub + 0
    BY <1>0, <1>3 DEF NewUsed, CanChargeSub
  <2>2. QED
    BY <1>2, <1>3, <2>1
<1>4. ASSUME NEW c \in Callers, MeterFunding(r, c) PROVE UsageKept(r)
  <2> DEFINE q == meter[r][c].quota
  <2>1. q \in Nat
    BY <1>0 DEF Call
  <2>2. \/ /\ CanChargeSub(q) /\ subUsed' = NewUsed(q)
           /\ metered' = [metered EXCEPT ![r].sub = @ + q]
        \/ subUsed' = subUsed /\ metered' = [metered EXCEPT ![r].wallet = @ + q]
        \/ subUsed' = subUsed /\ metered' = metered
    BY <1>4 DEF MeterFunding
  <2> HIDE DEF q
  <2>3. \/ /\ CanChargeSub(q) /\ subUsed' = NewUsed(q)
           /\ metered'[r].sub = metered[r].sub + q
        \/ subUsed' = subUsed /\ metered'[r].sub = metered[r].sub
    BY <1>0, <2>2
  <2>4. QED
    BY <1>2, <1>3, <2>1, <2>3
<1>5. ASSUME NEW c \in Callers, MeterToken(r, c) PROVE UsageKept(r)
  <2>1. /\ subUsed' = subUsed
        /\ \/ metered' = metered
           \/ metered' = [metered EXCEPT ![r].token = @ + meter[r][c].quota]
    BY <1>5 DEF MeterToken, subscription
  <2>2. metered'[r].sub = metered[r].sub
    BY <1>0, <2>1
  <2>3. QED
    BY <1>3, <2>1, <2>2
<1>6. ASSUME NEW c \in Callers, PreWssConsumeQuota(r, c) PROVE UsageKept(r)
  BY <1>3, <1>6 DEF PreWssConsumeQuota, balances, subscription
<1>7. CASE Connect(r)
  BY <1>3, <1>7 DEF Connect, balances, subscription
<1>8. QED
  BY <1>4, <1>5, <1>6, <1>7 DEF Metering

\* Every step of a request moves amounts between a balance and its own debit.
LEMMA BalanceStep ==
    ASSUME TypeOK, NEW r \in Requests, Good(r),
           StartRequest(r) \/ Handler(r) \/ RefundGoroutine(r)
    PROVE  WalletKept(r) /\ TokenKept(r) /\ UsageKept(r)
<1>0. sess[r] \in Session /\ Amounts(r)
  BY DEF TypeOK, Good
<1>f. /\ sess[r].amount \in Nat /\ sess[r].tokenConsumed \in Nat
      /\ sess[r].consumed \in Int /\ sess[r].delta \in Int /\ sess[r].fee \in Nat
      /\ sess[r].subPreConsumed \in Nat /\ sess[r].extraReserved \in Nat
      /\ sess[r].preConsumed \in Nat
  BY <1>0, SessionFields
<1>a. /\ sess[r].amount \in Int /\ sess[r].tokenConsumed \in Int
      /\ sess[r].consumed \in Int /\ sess[r].delta \in Int /\ sess[r].fee \in Int
      /\ -sess[r].delta \in Int /\ -sess[r].tokenConsumed \in Int
      /\ -sess[r].subPreConsumed \in Int /\ -sess[r].subPreConsumed <= 0
      /\ -sess[r].extraReserved \in Int /\ -sess[r].extraReserved <= 0
      /\ \A q \in Quotas : q - sess[r].preConsumed \in Int
  BY <1>f, AmountsAssumption
<1>b. 0 \in Int
  OBVIOUS
<1>1. UNCHANGED wallet => WalletKept(r)
  BY <1>b, WalletMoves
<1>2. UNCHANGED token => TokenKept(r)
  BY <1>b, TokenMoves
<1>m. metered' = metered
  BY MeteringStays DEF metering
<1>3. UNCHANGED <<subscription, period>> => UsageKept(r)
  BY <1>b, <1>m, UsageMoves
<1>4. CASE StartRequest(r) \/ OpenLate(r) \/ OpenWallet(r) \/ Answer(r)
           \/ UpstreamFails(r) \/ Refund(r) \/ RefundMark(r)
  <2>1. UNCHANGED <<balances, period>>
    BY <1>4 DEF StartRequest, OpenLate, OpenWallet, Answer, UpstreamFails, Refund, RefundMark,
       rest
  <2>2. QED
    BY <1>1, <1>2, <1>3, <2>1 DEF balances
<1>5. CASE PreConsumeToken(r) \/ RollbackToken(r) \/ ReserveToken(r)
           \/ SettleToken(r) \/ FeeToken(r) \/ RefundToken(r)
  <2>1. UNCHANGED <<wallet, subscription, period>>
    BY <1>5 DEF PreConsumeToken, RollbackToken, ReserveToken, SettleToken, FeeToken, RefundToken,
       rest
  <2>2. \E n \in Int : UNCHANGED token \/ ChargeToken(r, n)
    BY <1>5, <1>a DEF PreConsumeToken, RollbackToken, ReserveToken, SettleToken, FeeToken, RefundToken
  <2>3. QED
    BY <1>1, <1>3, <2>1, <2>2, TokenMoves
<1>6. CASE PreConsumeFunding(r)
  <2>1. /\ UNCHANGED token
        /\ \E n \in Int : UNCHANGED wallet \/ ChargeWallet(r, n)
        /\ \/ UNCHANGED <<subscription, period>>
           \/ SubscriptionPreConsume(r, sess[r].amount)
    BY <1>6, <1>a DEF PreConsumeFunding, WalletPreConsume, SubscriptionPreConsume
  <2>2. UsageKept(r)
    BY <1>f, <1>a, <1>m, <2>1, UsageMoves
  <2>3. QED
    BY <1>2, <2>1, <2>2, WalletMoves
<1>7. CASE Reserve(r) \/ Settle(r)
  <2>1. /\ UNCHANGED token
        /\ \E n \in Int : UNCHANGED wallet \/ ChargeWallet(r, n)
        /\ UNCHANGED period
        /\ \E n \in Int : \/ UNCHANGED subscription
                          \/ ChargeSub(r, n) /\ CanChargeSub(n)
    <3>1. CASE Reserve(r)
      BY <1>a, <3>1 DEF Reserve, WalletPreConsume, rest
    <3>2. CASE Settle(r)
      <4>1. \A q \in Quotas : [sess[r] EXCEPT !.actual = q].preConsumed = sess[r].preConsumed
        BY <1>0 DEF Session
      <4>2. QED
        BY <1>a, <3>2, <4>1 DEF Settle, rest
    <3>3. QED
      BY <1>7, <3>1, <3>2
  <2>2. QED
    BY <1>2, <1>m, <2>1, WalletMoves, UsageMoves
<1>8. CASE RollbackReserve(r)
  <2>0. -sess[r].delta <= 0
    BY <1>0, <1>8 DEF RollbackReserve, Amounts, Reserving
  <2>1. /\ UNCHANGED token
        /\ UNCHANGED wallet \/ ChargeWallet(r, -sess[r].delta)
        /\ UNCHANGED period
        /\ UNCHANGED subscription \/ ChargeSub(r, -sess[r].delta)
    BY <1>8 DEF RollbackReserve, rest
  <2>2. QED
    BY <1>2, <1>a, <1>m, <2>0, <2>1, WalletMoves, UsageMoves
<1>9. CASE FeeFunding(r)
  <2>1. /\ UNCHANGED token /\ UNCHANGED period
        /\ UNCHANGED wallet \/ ChargeWallet(r, sess[r].fee)
        /\ \/ UNCHANGED subscription
           \/ ChargeSub(r, sess[r].fee) /\ CanChargeSub(sess[r].fee)
    BY <1>9 DEF FeeFunding, FeeOnSubscription, rest
  <2>2. QED
    BY <1>2, <1>a, <1>m, <2>1, WalletMoves, UsageMoves
<1>10. CASE RefundFunding(r)
  <2>0. (IF sess[r].consumed <= 0 THEN 0 ELSE -sess[r].consumed) \in Int
    BY <1>a
  <2>1. /\ UNCHANGED token
        /\ \/ UNCHANGED wallet
           \/ ChargeWallet(r, IF sess[r].consumed <= 0 THEN 0 ELSE -sess[r].consumed)
        /\ UNCHANGED period
        /\ UNCHANGED subscription \/ ChargeSub(r, -sess[r].subPreConsumed)
    BY <1>10 DEF RefundFunding, rest
  <2>2. QED
    BY <1>2, <1>a, <1>m, <2>0, <2>1, WalletMoves, UsageMoves
<1>11. CASE RefundExtra(r)
  <2>1. /\ UNCHANGED token /\ UNCHANGED wallet /\ UNCHANGED period
        /\ UNCHANGED subscription \/ ChargeSub(r, -sess[r].extraReserved)
    BY <1>11 DEF RefundExtra, rest
  <2>2. QED
    BY <1>1, <1>2, <1>a, <1>m, <2>1, UsageMoves
<1>12. QED
  BY <1>4, <1>5, <1>6, <1>7, <1>8, <1>9, <1>10, <1>11 DEF Handler, RefundGoroutine

\* What is left of the balances is at most what there was without the debits
\* (metering takes more); the playground takes nothing from a token.
Conserved ==
    /\ userQuota + SumFunction(walletDebit) <= InitUserQuota
    /\ tokenRemain + SumFunction(tokenDebit) <= InitTokenQuota
    /\ \A r \in Playground : tokenDebit[r] = 0
    /\ UsageIsSumOfRequests
    /\ SubTotal > 0 => subUsed <= SubTotal

LEMMA ConservedInit ==
    ASSUME Init
    PROVE  Conserved
<1> DEFINE Z == [r \in Requests |-> 0]
<1>1. SumFunction(Z) = 0
  BY RequestsAssumption, SumZero
<1>2. walletDebit = Z /\ tokenDebit = Z /\ subUsed = 0
  BY DEF Init
<1>3. SubDebits = Z /\ [r \in Requests |-> SubDebits[r] - carried[r]] = Z
  BY DEF Init, SubDebits
<1> HIDE DEF Z
<1>4. UsageIsSumOfRequests
  BY <1>1, <1>2, <1>3 DEF UsageIsSumOfRequests
<1>5. \A r \in Playground : Z[r] = 0
  BY RequestsAssumption DEF Z
<1>6. QED
  BY <1>1, <1>2, <1>4, <1>5, AmountsAssumption DEF Init, Conserved

\* A sum of amounts that are not negative is not negative.
LEMMA SumNatural ==
    ASSUME NEW f \in [Requests -> Int], \A r \in Requests : f[r] >= 0
    PROVE  SumFunction(f) \in Int /\ SumFunction(f) >= 0
<1> DEFINE Z == [q \in Requests |-> 0]
<1>1. SumFunction(Z) = 0
  BY RequestsAssumption, SumZero
<1>2. Z \in [Requests -> Int] /\ \A q \in Requests : Z[q] <= f[q]
  OBVIOUS
<1> HIDE DEF Z
<1>3. SumFunction(Z) <= SumFunction(f) /\ SumFunction(f) \in Int
  BY <1>2, RequestsAssumption, SumOrder
<1>4. QED
  BY <1>1, <1>3

\* What r asks the subscription for moves both bounds of the usage with it: a
\* refund is cut off only below zero, where the sum never goes, as no request
\* has given back more than it took.
LEMMA UsageBounds ==
    ASSUME TypeOK, TypeOK', NoOverRefund, NoOverRefund', UsageIsSumOfRequests,
           NEW r \in Requests, UsageKept(r),
           \A q \in Requests : q # r => SubDebits'[q] = SubDebits[q]
    PROVE  UsageIsSumOfRequests'
<1> DEFINE D == SubDebits
           E == SubDebits'
           L == [q \in Requests |-> SubDebits[q] - carried[q]]
           M == [q \in Requests |-> SubDebits'[q] - carried'[q]]
           n == E[r] - D[r]
<1>1. /\ D \in [Requests -> Int] /\ \A q \in Requests : D[q] >= 0
      /\ carried \in [Requests -> Int] /\ subUsed \in Nat
  <2>1. \A q \in Requests : subDebit[q] \in Nat /\ metered[q].sub \in Nat
    BY DEF TypeOK, NoOverRefund
  <2>2. QED
    BY <2>1 DEF SubDebits, TypeOK
<1>2. /\ E \in [Requests -> Int] /\ \A q \in Requests : E[q] >= 0
      /\ carried' \in [Requests -> Int] /\ subUsed' \in Nat
  <2>1. \A q \in Requests : subDebit'[q] \in Nat /\ metered'[q].sub \in Nat
    BY DEF TypeOK, NoOverRefund
  <2>2. QED
    BY <2>1 DEF SubDebits, TypeOK
<1>3. L \in [Requests -> Int] /\ M \in [Requests -> Int]
  BY <1>1, <1>2
<1>4. /\ SumFunction(D) \in Int /\ SumFunction(D) >= 0
      /\ SumFunction(E) \in Int /\ SumFunction(E) >= 0
  BY <1>1, <1>2, SumNatural
<1>5. SumFunction(E) = SumFunction(D) + E[r] - D[r]
  BY <1>1, <1>2, RequestsAssumption, SumExcept
<1>6. SumFunction(L) <= subUsed /\ subUsed <= SumFunction(D)
  BY DEF UsageIsSumOfRequests
<1>7. SumFunction(L) \in Int /\ SumFunction(M) \in Int
  <2>1. ASSUME NEW f \in [Requests -> Int] PROVE SumFunction(f) \in Int
    <3>1. \A x \in Requests : f[x] <= f[x]
      OBVIOUS
    <3>2. QED
      BY <3>1, RequestsAssumption, SumOrder
  <2>2. QED
    BY <1>3, <2>1
<1>8. n \in Int /\ E[r] \in Int /\ D[r] \in Int
  BY <1>1, <1>2
<1>9. SumFunction(M) <= subUsed' /\ subUsed' <= SumFunction(E)
  <2>1. CASE subUsed' = NewUsed(n) /\ carried' = carried
    <3>1. \A q \in Requests : q # r => M[q] = L[q]
      BY <2>1
    <3>2. SumFunction(M) = SumFunction(L) + M[r] - L[r]
      BY <1>3, <3>1, RequestsAssumption, SumExcept
    <3>3. M[r] - L[r] = n /\ M[r] \in Int /\ L[r] \in Int
      BY <1>1, <1>2, <2>1
    <3>4. subUsed' = IF subUsed + n > 0 THEN subUsed + n ELSE 0
      BY <2>1 DEF NewUsed
    <3> HIDE DEF D, E, L, M
    <3>5. SumFunction(M) = SumFunction(L) + n /\ SumFunction(E) = SumFunction(D) + n
      BY <1>4, <1>5, <1>7, <1>8, <3>2, <3>3
    <3> HIDE DEF n
    <3>6. QED
      BY <1>1, <1>4, <1>6, <1>7, <1>8, <3>4, <3>5
  <2>2. CASE subUsed' = n /\ carried' = SubDebits
    <3> DEFINE Z == [q \in Requests |-> 0]
    <3>1. Z \in [Requests -> Int] /\ SumFunction(Z) = 0
      BY RequestsAssumption, SumZero
    <3>2. Z[r] = 0 /\ \A q \in Requests : q # r => M[q] = Z[q]
      BY <1>1, <2>2
    <3>3. M[r] = n
      BY <2>2
    <3> HIDE DEF Z, D, E, L, M
    <3>4. SumFunction(M) = SumFunction(Z) + M[r] - Z[r]
      BY <1>3, <3>1, <3>2, RequestsAssumption, SumExcept
    <3>5. SumFunction(E) = SumFunction(D) + n /\ SumFunction(M) = n
      BY <1>4, <1>5, <1>8, <3>1, <3>2, <3>3, <3>4
    <3> HIDE DEF n
    <3>6. QED
      BY <1>4, <1>8, <2>2, <3>5
  <2>3. QED
    BY <2>1, <2>2 DEF UsageKept
<1>10. QED
  BY <1>9 DEF UsageIsSumOfRequests

\* A reset starts again from zero, and from what was asked for until then.
LEMMA ResetBounds ==
    ASSUME TypeOK, NoOverRefund, UsageIsSumOfRequests, ResetUsage
    PROVE  UsageIsSumOfRequests'
<1>1. \A q \in Requests : subDebit[q] \in Nat /\ metered[q].sub \in Nat
  BY DEF TypeOK, NoOverRefund
<1>2. SubDebits \in [Requests -> Int] /\ \A q \in Requests : SubDebits[q] >= 0
  BY <1>1 DEF SubDebits
<1>3. subUsed' = 0 /\ carried' = SubDebits /\ SubDebits' = SubDebits
  BY DEF ResetUsage, SubDebits, metering
<1> DEFINE M == [q \in Requests |-> SubDebits'[q] - carried'[q]]
<1>4. M \in [Requests -> Int] /\ \A q \in Requests : M[q] = 0
  BY <1>2, <1>3
<1> HIDE DEF M
<1>5. SumFunction(M) = 0
  BY <1>4, RequestsAssumption, SumZero
<1>6. 0 <= SumFunction(SubDebits')
  BY <1>2, <1>3, SumNatural
<1>7. QED
  BY <1>3, <1>5, <1>6 DEF UsageIsSumOfRequests, M

LEMMA ConservedStep ==
    ASSUME TypeOK, AllGood, AllMetered, NoOverRefund, Conserved,
           TypeOK', NoOverRefund', [Next]_vars
    PROVE  Conserved'
<1>0. IsFiniteSet(Requests)
  BY RequestsAssumption
<1>t. /\ userQuota \in Int /\ tokenRemain \in Int /\ subUsed \in Nat
      /\ walletDebit \in [Requests -> Int] /\ tokenDebit \in [Requests -> Int]
      /\ subDebit \in [Requests -> Int]
  BY DEF TypeOK
<1>u. /\ userQuota' \in Int /\ tokenRemain' \in Int /\ subUsed' \in Nat
      /\ walletDebit' \in [Requests -> Int] /\ tokenDebit' \in [Requests -> Int]
      /\ subDebit' \in [Requests -> Int]
  BY DEF TypeOK
<1>s. SumFunction(walletDebit) \in Int /\ SumFunction(tokenDebit) \in Int
  BY <1>t, SumNatural DEF NoOverRefund
<1>c. /\ userQuota + SumFunction(walletDebit) <= InitUserQuota
      /\ tokenRemain + SumFunction(tokenDebit) <= InitTokenQuota
      /\ \A r \in Playground : tokenDebit[r] = 0
      /\ UsageIsSumOfRequests
      /\ SubTotal > 0 => subUsed <= SubTotal
  BY DEF Conserved
<1>1. ASSUME NEW r \in Requests,
             StartRequest(r) \/ Handler(r) \/ RefundGoroutine(r)
      PROVE  Conserved'
  <2>1. WalletKept(r) /\ TokenKept(r) /\ UsageKept(r)
    BY <1>1, BalanceStep DEF AllGood
  <2>2. \A q \in Requests : q # r =>
          /\ walletDebit'[q] = walletDebit[q] /\ tokenDebit'[q] = tokenDebit[q]
          /\ subDebit'[q] = subDebit[q]
    BY <1>1, OthersStay
  <2>3. SumFunction(walletDebit') = SumFunction(walletDebit) + walletDebit'[r] - walletDebit[r]
    BY <1>0, <1>t, <1>u, <2>2, SumExcept
  <2>4. SumFunction(tokenDebit') = SumFunction(tokenDebit) + tokenDebit'[r] - tokenDebit[r]
    BY <1>0, <1>t, <1>u, <2>2, SumExcept
  <2>5. UsageIsSumOfRequests'
    <3>1. metered' = metered
      BY <1>1, MeteringStays DEF metering
    <3>2. \A q \in Requests : q # r => SubDebits'[q] = SubDebits[q]
      BY <2>2, <3>1 DEF SubDebits
    <3>3. QED
      BY <1>c, <2>1, <3>2, UsageBounds
  <2>6. /\ walletDebit[r] \in Int /\ walletDebit'[r] \in Int
        /\ tokenDebit[r] \in Int /\ tokenDebit'[r] \in Int
    BY <1>t, <1>u
  <2>7. userQuota' + SumFunction(walletDebit') <= InitUserQuota
    BY <1>c, <1>s, <1>t, <1>u, <2>1, <2>3, <2>6, AmountsAssumption DEF WalletKept
  <2>8. tokenRemain' + SumFunction(tokenDebit') <= InitTokenQuota
    BY <1>c, <1>s, <1>t, <1>u, <2>1, <2>4, <2>6, AmountsAssumption DEF TokenKept
  <2>9. SubTotal > 0 => subUsed' <= SubTotal
    BY <1>c, <2>1 DEF UsageKept
  <2>10. \A q \in Playground : tokenDebit'[q] = 0
    BY <1>c, <2>1, <2>2, RequestsAssumption DEF TokenKept
  <2>11. QED
    BY <2>5, <2>7, <2>8, <2>9, <2>10 DEF Conserved
<1>2. ASSUME userQuota' <= userQuota, tokenRemain' <= tokenRemain,
             UNCHANGED <<walletDebit, tokenDebit>>, UsageIsSumOfRequests',
             SubTotal > 0 => subUsed' <= SubTotal
      PROVE  Conserved'
  <2>1. /\ userQuota' + SumFunction(walletDebit') <= InitUserQuota
        /\ tokenRemain' + SumFunction(tokenDebit') <= InitTokenQuota
    BY <1>2, <1>c, <1>s, <1>t, <1>u, AmountsAssumption
  <2>2. QED
    BY <1>2, <1>c, <2>1 DEF Conserved
<1>3. ASSUME NEW r \in Requests, Metering(r)
      PROVE  Conserved'
  <2>1. /\ MeterMoves(r)
        /\ \A q \in Requests \ {r} : metered'[q] = metered[q]
    BY <1>3, MeteringStep DEF AllMetered
  <2>2. /\ UNCHANGED <<walletDebit, tokenDebit, subDebit>>
        /\ userQuota' <= userQuota /\ tokenRemain' <= tokenRemain
    BY <2>1 DEF MeterMoves
  <2>3. UsageKept(r)
    BY <1>3, MeterUsage
  <2>4. \A q \in Requests : q # r => SubDebits'[q] = SubDebits[q]
    BY <2>1, <2>2 DEF SubDebits
  <2>5. UsageIsSumOfRequests'
    BY <1>c, <2>3, <2>4, UsageBounds
  <2>6. SubTotal > 0 => subUsed' <= SubTotal
    BY <1>c, <2>3 DEF UsageKept
  <2>7. QED
    BY <1>2, <2>2, <2>5, <2>6
<1>4. CASE ResetDueSubscriptions \/ AdminReset
  <2>1. ResetUsage
    BY <1>4 DEF ResetDueSubscriptions, AdminReset
  <2>2. /\ UNCHANGED <<userQuota, tokenRemain, walletDebit, tokenDebit>>
        /\ subUsed' = 0
    BY <2>1 DEF ResetUsage, wallet, token
  <2>3. UsageIsSumOfRequests'
    BY <1>c, <2>1, ResetBounds
  <2>4. userQuota' <= userQuota /\ tokenRemain' <= tokenRemain
        /\ (SubTotal > 0 => subUsed' <= SubTotal)
    BY <1>t, <2>2, AmountsAssumption
  <2>5. QED
    BY <1>2, <2>2, <2>3, <2>4
<1>5. CASE SubscriptionEnds \/ PeriodEnds \/ UNCHANGED vars
  <2>1. UNCHANGED <<userQuota, tokenRemain, walletDebit, tokenDebit, subUsed, subDebit,
                    carried, metered>>
    BY <1>5 DEF SubscriptionEnds, PeriodEnds, vars, balances, wallet, token, subscription,
       period, metering
  <2>2. UsageIsSumOfRequests'
    <3>1. SubDebits' = SubDebits
      BY <2>1 DEF SubDebits
    <3>2. QED
      BY <1>c, <2>1, <3>1 DEF UsageIsSumOfRequests
  <2>3. userQuota' <= userQuota /\ tokenRemain' <= tokenRemain
    BY <1>t, <2>1
  <2>4. QED
    BY <1>2, <1>c, <2>1, <2>2, <2>3
<1>6. QED
  BY <1>1, <1>3, <1>4, <1>5 DEF Next, AllFinished

-----------------------------------------------------------------------------
(* Reservations that were checked. *)

Lesser(a, b) == IF a < b THEN a ELSE b

\* What r holds of the wallet through a checked reservation: the image
\* request's reservation under way counts from the moment it was checked.
WalletCovered(r) ==
    LET s == sess[r] IN
    IF s.source # "wallet" THEN 0
    ELSE Lesser(walletDebit[r] - s.feePaid,
                IF r \notin Image THEN s.preConsumed - s.extraReserved
                ELSE IF pc[r] = "reserveToken" THEN s.preConsumed + s.delta
                ELSE s.preConsumed)

\* What r holds of the token: a fee counts once the token is charged with it.
TokenCovered(r) ==
    Lesser(tokenDebit[r] - (IF pc[r] = "feeToken" THEN 0 ELSE sess[r].feePaid),
           sess[r].tokenConsumed)

\* A step that raises what r holds of the wallet has checked the balance.
LEMMA WalletChecked ==
    ASSUME TypeOK, NEW r \in Requests, Good(r), Sided(r), Floor(r),
           StartRequest(r) \/ Handler(r) \/ RefundGoroutine(r)
    PROVE  WalletCovered(r)' <= WalletCovered(r) \/ userQuota' >= 0
<1>0. /\ pc \in [Requests -> HandlerStages] /\ refund \in [Requests -> RefundStages]
      /\ sess \in [Requests -> Session] /\ sess[r] \in Session
      /\ walletDebit \in [Requests -> Int] /\ subDebit \in [Requests -> Int]
      /\ userQuota \in Int
      /\ Flags(r) /\ Amounts(r)
  BY DEF TypeOK, Good
<1>d. walletDebit[r] \in Int /\ subDebit[r] \in Int
  BY <1>0
<1>e. /\ sess[r].delta \in Int /\ sess[r].preConsumed \in Nat
      /\ sess[r].amount \in Nat /\ sess[r].fee \in Nat /\ sess[r].feePaid \in Nat
      /\ sess[r].consumed \in Int /\ sess[r].extraReserved \in Nat
      /\ sess[r].source \in {"none", "wallet", "subscription"}
  BY <1>0, SessionFields
<1>r. ASSUME pc[r] = "relaying", sess[r].source = "wallet"
      PROVE  walletDebit[r] - sess[r].feePaid >= sess[r].preConsumed /\ sess[r].feePaid = 0
  <2>1. subDebit[r] = 0 /\ sess[r].feePaid = 0
    BY <1>0, <1>r DEF Sided, Amounts
  <2>2. walletDebit[r] + subDebit[r] >= sess[r].preConsumed
    <3>1. refund[r] = "none" /\ ~sess[r].settled /\ ~sess[r].fundingSettled
      BY <1>0, <1>r, SessionFields DEF Flags, Closing
    <3>2. QED
      BY <1>r, <3>1 DEF Floor, Held, Opening, Reserving
  <2>3. QED
    BY <1>d, <1>e, <2>1, <2>2
<1> USE <1>0, <1>d, <1>e
<1> USE DEF WalletCovered, Lesser, Opening, Reserving, Closing, Goto, balances, wallet, subscription
<1>1. CASE StartRequest(r) \/ OpenLate(r) \/ OpenWallet(r) \/ RollbackToken(r)
  <2>1. /\ walletDebit[r] = 0 /\ sess[r].preConsumed = 0 /\ sess[r].extraReserved = 0
        /\ sess[r].feePaid = 0 /\ pc[r] \in Opening \cup {"relaying"}
    BY <1>1 DEF StartRequest, OpenLate, OpenWallet, RollbackToken, Sided, Amounts
  <2>2. /\ Fresh(r)' /\ UNCHANGED <<wallet, subscription>>
    BY <1>1, OpeningStep
  <2>3. WalletCovered(r) = 0
    BY <2>1
  <2>4. WalletCovered(r)' = 0
    BY <2>1, <2>2 DEF Fresh, Empty
  <2>5. QED
    BY <2>3, <2>4
<1>2. CASE PreConsumeToken(r)
  BY <1>2 DEF PreConsumeToken, Reject, Session, Amounts, Sided
<1>3. CASE PreConsumeFunding(r)
  <2>1. /\ walletDebit[r] = 0 /\ sess[r].preConsumed = 0 /\ sess[r].extraReserved = 0
        /\ sess[r].feePaid = 0 /\ pc[r] = "preFunding"
    BY <1>3 DEF PreConsumeFunding, Sided, Amounts
  <2>2. WalletCovered(r) = 0
    BY <2>1
  <2>3. /\ sess'[r].feePaid = 0 /\ sess'[r].source = sess[r].source
        /\ sess'[r].preConsumed \in Nat /\ sess'[r].extraReserved = 0
        /\ pc'[r] \in {"relaying", "rollbackToken"}
    BY <1>3, <2>1 DEF PreConsumeFunding, Session
  <2>4. \/ UNCHANGED wallet
        \/ CanReserveWallet(sess[r].amount) /\ ChargeWallet(r, sess[r].amount)
    BY <1>3 DEF PreConsumeFunding, WalletPreConsume, SubscriptionPreConsume
  <2>5. walletDebit'[r] = 0 \/ userQuota' >= 0
    BY <2>1, <2>4 DEF CanReserveWallet, ChargeWallet
  <2>6. walletDebit'[r] = 0 => WalletCovered(r)' <= 0
    BY <2>3
  <2>7. QED
    BY <2>2, <2>5, <2>6
<1>4. CASE Reserve(r)
  <2>1. /\ pc[r] = "relaying" /\ pc'[r] \in {"reserveToken", "failing"}
        /\ sess'[r].feePaid = sess[r].feePaid /\ sess'[r].source = sess[r].source
        /\ sess'[r].preConsumed = sess[r].preConsumed
        /\ sess'[r].extraReserved = sess[r].extraReserved
    BY <1>4 DEF Reserve, Session
  <2>2. CASE sess[r].source # "wallet"
    BY <2>1, <2>2
  <2>3. CASE sess[r].source = "wallet" /\ r \notin Image
    <3>1. WalletCovered(r) = sess[r].preConsumed - sess[r].extraReserved
      BY <1>r, <2>1, <2>3
    <3>2. walletDebit'[r] \in Int
      <4>1. Handler(r)
        BY <1>4 DEF Handler
      <4>2. QED
        BY <4>1, CountersStep DEF Counters
    <3>3. WalletCovered(r)' <= sess[r].preConsumed - sess[r].extraReserved
      BY <1>r, <2>1, <2>3, <3>2
    <3>4. QED
      BY <3>1, <3>3
  <2>4. CASE sess[r].source = "wallet" /\ r \in Image
    <3>1. PICK target \in Quotas :
             /\ target > sess[r].preConsumed
             /\ \/ /\ CanReserveWallet(target - sess[r].preConsumed)
                   /\ ChargeWallet(r, target - sess[r].preConsumed)
                \/ UNCHANGED wallet /\ pc'[r] = "failing"
      <4>1. PICK target \in Quotas :
             /\ ~ReserveSkips(sess[r], r, target)
             /\ \/ /\ CanReserveWallet(target - sess[r].preConsumed)
                   /\ ChargeWallet(r, target - sess[r].preConsumed)
                \/ UNCHANGED wallet /\ Goto(r, "failing")
        BY <1>4, <2>4 DEF Reserve, WalletPreConsume
      <4>2. target > sess[r].preConsumed
        BY <4>1, AmountsAssumption DEF ReserveSkips
      <4>3. QED
        BY <4>1, <4>2
    <3>2. CASE UNCHANGED wallet /\ pc'[r] = "failing"
      BY <2>1, <2>4, <3>2
    <3>3. CASE /\ CanReserveWallet(target - sess[r].preConsumed)
               /\ ChargeWallet(r, target - sess[r].preConsumed)
      BY <3>1, <3>3, AmountsAssumption DEF CanReserveWallet, ChargeWallet
    <3>4. QED
      BY <3>1, <3>2, <3>3
  <2>5. QED
    BY <2>2, <2>3, <2>4
<1>5. CASE ReserveToken(r)
  BY <1>5 DEF ReserveToken, Session, Amounts
<1>6. CASE RollbackReserve(r)
  <2>1. /\ pc[r] = "rollbackReserve" /\ pc'[r] = "failing"
        /\ sess'[r].feePaid = sess[r].feePaid /\ sess'[r].source = sess[r].source
        /\ sess'[r].preConsumed = sess[r].preConsumed
        /\ sess'[r].extraReserved = sess[r].extraReserved
    BY <1>6 DEF RollbackReserve, RolledBack, Session
  <2>2. UNCHANGED wallet \/ ChargeWallet(r, -sess[r].delta)
    BY <1>6 DEF RollbackReserve
  <2>3. walletDebit'[r] \in Int /\ walletDebit'[r] <= walletDebit[r]
    BY <2>1, <2>2 DEF ChargeWallet, Amounts
  <2>4. QED
    BY <2>1, <2>3
<1>7. CASE Settle(r)
  <2>1. /\ pc'[r] \in {"answered", "settleToken"} /\ sess'[r].source = sess[r].source
        /\ sess'[r].preConsumed = sess[r].preConsumed
        /\ sess'[r].extraReserved = sess[r].extraReserved
        /\ sess'[r].feePaid = sess[r].feePaid
    BY <1>7, SettleStep
  <2>2. walletDebit'[r] \in Int /\ pc[r] = "relaying"
    <3>1. Handler(r)
      BY <1>7 DEF Handler
    <3>2. QED
      BY <1>7, <3>1, CountersStep DEF Counters, Settle
  <2>3. CASE sess[r].source # "wallet"
    BY <2>1, <2>3
  <2>4. CASE sess[r].source = "wallet"
    <3>1. walletDebit[r] - sess[r].feePaid >= sess[r].preConsumed
      BY <1>r, <2>2, <2>4
    <3>2. QED
      BY <2>1, <2>2, <2>4, <3>1
  <2>5. QED
    BY <2>3, <2>4
<1>8. CASE SettleToken(r)
  BY <1>8 DEF SettleToken, Session
<1>9. CASE Answer(r)
  BY <1>9 DEF Answer
<1>10. CASE UpstreamFails(r)
  BY <1>10 DEF UpstreamFails, Session
<1>11. CASE Refund(r)
  BY <1>11 DEF Refund, Session
<1>12. CASE FeeFunding(r)
  BY <1>12 DEF FeeFunding, FeeOnSubscription, ChargeWallet, ChargeSub, Session, Amounts
<1>13. CASE FeeToken(r)
  BY <1>13 DEF FeeToken
<1>14. CASE RefundFunding(r)
  BY <1>14 DEF RefundFunding, ChargeWallet, ChargeSub, Session, Flags
<1>15. CASE RefundMark(r)
  <2>1. /\ sess'[r].feePaid = sess[r].feePaid /\ sess'[r].source = sess[r].source
        /\ sess'[r].preConsumed = sess[r].preConsumed
        /\ sess'[r].extraReserved = sess[r].extraReserved
        /\ sess'[r].delta = sess[r].delta
        /\ pc'[r] = pc[r] /\ UNCHANGED wallet
    BY <1>15 DEF RefundMark, Session
  <2>2. QED
    BY <2>1
<1>16. CASE RefundExtra(r)
  BY <1>16 DEF RefundExtra, ChargeSub, Flags
<1>17. CASE RefundToken(r)
  BY <1>17 DEF RefundToken
<1>18. QED
  BY <1>1, <1>2, <1>3, <1>4, <1>5, <1>6, <1>7, <1>8, <1>9, <1>10, <1>11, <1>12, <1>13, <1>14, <1>15, <1>16, <1>17
  DEF Handler, RefundGoroutine

\* A step that raises what r holds of the token has checked the balance.
LEMMA TokenChecked ==
    ASSUME TypeOK, NEW r \in Requests, Good(r), Sided(r), Floor(r), ~TokenUnlimited,
           r \in Playground => tokenDebit[r] = 0,
           StartRequest(r) \/ Handler(r) \/ RefundGoroutine(r)
    PROVE  TokenCovered(r)' <= TokenCovered(r) \/ tokenRemain' >= 0
<1>0. /\ pc \in [Requests -> HandlerStages] /\ refund \in [Requests -> RefundStages]
      /\ sess \in [Requests -> Session] /\ sess[r] \in Session
      /\ tokenDebit \in [Requests -> Int]
      /\ tokenRemain \in Int
      /\ Flags(r) /\ Amounts(r)
  BY DEF TypeOK, Good
<1>d. tokenDebit[r] \in Int
  BY <1>0
<1>e. /\ sess[r].delta \in Int /\ sess[r].preConsumed \in Nat
      /\ sess[r].tokenConsumed \in Nat
      /\ sess[r].amount \in Nat /\ sess[r].fee \in Nat /\ sess[r].feePaid \in Nat
  BY <1>0, SessionFields
<1>f. tokenDebit[r] >= 0
  BY <1>d, <1>e DEF Floor, TokenFloor
<1> USE <1>0, <1>d, <1>e
<1> USE DEF TokenCovered, Lesser, Opening, Reserving, Closing, Goto, balances, token
<1>1. CASE StartRequest(r) \/ OpenLate(r) \/ OpenWallet(r)
  <2>1. UNCHANGED token /\ sess[r].tokenConsumed = 0 /\ sess[r].feePaid = 0
    BY <1>1 DEF StartRequest, OpenLate, OpenWallet, Amounts
  <2>2. sess'[r].feePaid = 0 /\ sess'[r].tokenConsumed = 0
    BY <1>1, OpeningStep DEF Fresh, Empty
  <2>3. QED
    BY <1>f, <2>1, <2>2
<1>2. CASE PreConsumeToken(r)
  <2>1. sess[r].tokenConsumed = 0 /\ sess[r].feePaid = 0 /\ pc[r] = "preToken"
    BY <1>2 DEF PreConsumeToken, Amounts
  <2>2. TokenCovered(r) = 0
    BY <1>f, <2>1
  <2>3. /\ sess'[r].feePaid = 0 /\ pc'[r] \in {"preFunding", "failing"}
        /\ \/ UNCHANGED token /\ sess'[r].tokenConsumed = 0
           \/ /\ CanReserveToken(r, sess[r].amount) /\ ChargeToken(r, sess[r].amount)
              /\ sess'[r].tokenConsumed = sess[r].amount
    BY <1>2, <2>1 DEF PreConsumeToken, Reject, Session
  <2>4. CASE UNCHANGED token /\ sess'[r].tokenConsumed = 0
    BY <2>2, <2>3, <2>4
  <2>5. CASE /\ CanReserveToken(r, sess[r].amount) /\ ChargeToken(r, sess[r].amount)
             /\ sess'[r].tokenConsumed = sess[r].amount
    <3>1. CASE r \in Playground
      BY <2>2, <2>3, <2>5, <3>1 DEF ChargeToken
    <3>2. CASE r \notin Playground
      BY <2>2, <2>3, <2>5, <3>2 DEF ChargeToken, CanReserveToken
    <3>3. QED
      BY <3>1, <3>2
  <2>6. QED
    BY <2>3, <2>4, <2>5
<1>3. CASE PreConsumeFunding(r)
  BY <1>3 DEF PreConsumeFunding, Session
<1>4. CASE Reserve(r)
  BY <1>4 DEF Reserve, Session
<1>5. CASE ReserveToken(r)
  BY <1>5 DEF ReserveToken, Session, Amounts, ChargeToken, CanReserveToken
<1>6. CASE RollbackReserve(r)
  BY <1>6 DEF RollbackReserve, RolledBack, Session
<1>7. CASE Settle(r)
  <2>1. pc'[r] \in {"answered", "settleToken"}
        /\ sess'[r].tokenConsumed = sess[r].tokenConsumed
        /\ sess'[r].feePaid = sess[r].feePaid /\ UNCHANGED token
    BY <1>7, SettleStep DEF Settle
  <2>2. QED
    BY <1>7, <2>1
<1>8. CASE SettleToken(r)
  <2>1. /\ pc[r] = "settleToken" /\ pc'[r] = "answered"
        /\ sess'[r].tokenConsumed = sess[r].tokenConsumed
        /\ sess'[r].feePaid = sess[r].feePaid
        /\ UNCHANGED token \/ ChargeToken(r, sess[r].delta)
    BY <1>8 DEF SettleToken, Session
  <2>2. /\ sess[r].feePaid = 0
        /\ r \notin Playground => tokenDebit[r] >= sess[r].tokenConsumed
    BY <2>1, SessionFields DEF Floor, TokenFloor, Amounts, Flags
  <2>3. CASE UNCHANGED token
    BY <2>1, <2>3
  <2>4. CASE r \notin Playground /\ ChargeToken(r, sess[r].delta)
    BY <2>1, <2>2, <2>4 DEF ChargeToken
  <2>5. QED
    BY <2>1, <2>3, <2>4 DEF ChargeToken
<1>9. CASE Answer(r)
  BY <1>9 DEF Answer
<1>10. CASE UpstreamFails(r)
  BY <1>10 DEF UpstreamFails, Session
<1>11. CASE Refund(r)
  BY <1>11 DEF Refund, Session
<1>12. CASE FeeFunding(r)
  <2>1. pc[r] = "feeFunding" /\ UNCHANGED token /\ sess[r].feePaid = 0
    BY <1>12 DEF FeeFunding, Amounts
  <2>2. /\ sess'[r].tokenConsumed = sess[r].tokenConsumed
        /\ \/ pc'[r] = "feeToken"
           \/ pc'[r] = "done" /\ sess'[r].feePaid = 0
    BY <1>12, <2>1 DEF FeeFunding, Session
  <2>3. QED
    BY <2>1, <2>2
<1>13. CASE FeeToken(r)
  BY <1>13 DEF FeeToken, ChargeToken, Amounts
<1>14. CASE RefundFunding(r)
  BY <1>14 DEF RefundFunding, Session
<1>15. CASE RefundMark(r)
  BY <1>15 DEF RefundMark, Session
<1>16. CASE RefundExtra(r)
  BY <1>16 DEF RefundExtra
<1>17. CASE RefundToken(r)
  BY <1>17 DEF RefundToken, ChargeToken
<1>18. CASE RollbackToken(r)
  <2>1. /\ pc[r] = "rollbackToken" /\ sess[r].feePaid = 0
        /\ UNCHANGED token \/ ChargeToken(r, -sess[r].tokenConsumed)
    BY <1>18 DEF RollbackToken, Amounts
  <2>2. sess'[r].feePaid = 0 /\ sess'[r].tokenConsumed = 0
    BY <1>18, OpeningStep DEF Fresh, Empty
  <2>3. tokenDebit'[r] \in Int
    BY <2>1 DEF ChargeToken
  <2>4. TokenCovered(r) \in Int /\ TokenCovered(r) >= 0
    BY <1>f, <2>1
  <2>5. TokenCovered(r)' \in Int /\ TokenCovered(r)' <= 0
    BY <2>2, <2>3
  <2> HIDE DEF TokenCovered
  <2>6. QED
    BY <2>4, <2>5
<1>19. QED
  BY <1>1, <1>2, <1>3, <1>4, <1>5, <1>6, <1>7, <1>8, <1>9, <1>10, <1>11, <1>12, <1>13, <1>14, <1>15, <1>16, <1>17, <1>18
  DEF Handler, RefundGoroutine

-----------------------------------------------------------------------------
(* The inductive invariant and what follows from it. *)

WalletsCovered == [r \in Requests |-> WalletCovered(r)]
TokensCovered == [r \in Requests |-> TokenCovered(r)]

\* What was checked is covered by what the user and the token had.
Covered ==
    /\ SumFunction(WalletsCovered) <= InitUserQuota
    /\ TokenUnlimited \/ SumFunction(TokensCovered) <= InitTokenQuota

\* A checked reservation is part of what its request has asked for.
CoveredParts ==
    /\ WalletsCovered \in [Requests -> Int] /\ TokensCovered \in [Requests -> Int]
    /\ \A r \in Requests : /\ WalletsCovered[r] <= walletDebit[r]
                           /\ TokensCovered[r] <= tokenDebit[r]

LEMMA CoveredTerms ==
    ASSUME TypeOK, NoOverRefund
    PROVE  CoveredParts
<1>1. ASSUME NEW r \in Requests
      PROVE  /\ WalletCovered(r) \in Int /\ TokenCovered(r) \in Int
             /\ WalletCovered(r) <= walletDebit[r] /\ TokenCovered(r) <= tokenDebit[r]
  <2>1. /\ sess[r] \in Session /\ walletDebit[r] \in Int /\ tokenDebit[r] \in Int
        /\ walletDebit[r] >= 0
    BY DEF TypeOK, NoOverRefund
  <2>2. /\ sess[r].feePaid \in Nat /\ sess[r].preConsumed \in Nat
        /\ sess[r].extraReserved \in Nat /\ sess[r].delta \in Int
        /\ sess[r].tokenConsumed \in Nat
    BY <2>1, SessionFields
  <2>3. WalletCovered(r) \in Int /\ WalletCovered(r) <= walletDebit[r]
    BY <2>1, <2>2 DEF WalletCovered, Lesser
  <2>4. TokenCovered(r) \in Int /\ TokenCovered(r) <= tokenDebit[r]
    BY <2>1, <2>2 DEF TokenCovered, Lesser
  <2>5. QED
    BY <2>3, <2>4
<1>2. QED
  BY <1>1 DEF CoveredParts, WalletsCovered, TokensCovered

LEMMA CoveredInit ==
    ASSUME Init
    PROVE  Covered
<1>1. WalletsCovered \in [Requests -> Int] /\ \A r \in Requests : WalletsCovered[r] = 0
  BY DEF Init, WalletsCovered, WalletCovered, NoSession
<1>2. TokensCovered \in [Requests -> Int] /\ \A r \in Requests : TokensCovered[r] = 0
  BY DEF Init, TokensCovered, TokenCovered, Lesser, NoSession
<1>3. SumFunction(WalletsCovered) = 0 /\ SumFunction(TokensCovered) = 0
  BY <1>1, <1>2, RequestsAssumption, SumZero
<1>4. QED
  BY <1>3, AmountsAssumption DEF Covered

\* A step that raises a checked reservation leaves a balance that is not
\* negative, so the debits together are covered, and with them the
\* reservations; any other step lowers them.
LEMMA CoveredStep ==
    ASSUME TypeOK, AllGood, AllSided, AllAbove, CoveredParts, Conserved, Covered,
           TypeOK', CoveredParts', Conserved', [Next]_vars
    PROVE  Covered'
<1>0. IsFiniteSet(Requests)
  BY RequestsAssumption
<1>c. /\ WalletsCovered \in [Requests -> Int] /\ TokensCovered \in [Requests -> Int]
      /\ walletDebit' \in [Requests -> Int] /\ tokenDebit' \in [Requests -> Int]
      /\ userQuota' \in Int /\ tokenRemain' \in Int
  BY DEF CoveredParts, TypeOK
<1>d. /\ WalletsCovered' \in [Requests -> Int] /\ TokensCovered' \in [Requests -> Int]
      /\ \A q \in Requests : /\ WalletsCovered'[q] <= walletDebit'[q]
                             /\ TokensCovered'[q] <= tokenDebit'[q]
  BY DEF CoveredParts
<1>1. ASSUME NEW r \in Requests,
             StartRequest(r) \/ Handler(r) \/ RefundGoroutine(r)
      PROVE  Covered'
  <2>1. \A q \in Requests : q # r =>
          WalletsCovered'[q] = WalletsCovered[q] /\ TokensCovered'[q] = TokensCovered[q]
    BY <1>1, OthersStay DEF WalletsCovered, TokensCovered, WalletCovered, TokenCovered
  <2>2. SumFunction(WalletsCovered') <= InitUserQuota
    <3>1. CASE WalletCovered(r)' <= WalletCovered(r)
      <4>1. \A q \in Requests : WalletsCovered'[q] <= WalletsCovered[q]
        BY <1>c, <1>d, <2>1, <3>1 DEF WalletsCovered
      <4>2. /\ SumFunction(WalletsCovered') \in Int /\ SumFunction(WalletsCovered) \in Int
            /\ SumFunction(WalletsCovered') <= SumFunction(WalletsCovered)
        BY <1>0, <1>c, <1>d, <4>1, SumOrder
      <4>3. QED
        BY <4>2, AmountsAssumption DEF Covered
    <3>2. CASE userQuota' >= 0
      <4>1. /\ SumFunction(WalletsCovered') \in Int /\ SumFunction(walletDebit') \in Int
            /\ SumFunction(WalletsCovered') <= SumFunction(walletDebit')
        BY <1>0, <1>c, <1>d, SumOrder
      <4>2. userQuota' + SumFunction(walletDebit') <= InitUserQuota
        BY DEF Conserved
      <4>3. QED
        BY <1>c, <3>2, <4>1, <4>2, AmountsAssumption
    <3>3. QED
      BY <1>1, <3>1, <3>2, WalletChecked DEF AllGood, AllSided, AllAbove
  <2>3. ASSUME ~TokenUnlimited PROVE SumFunction(TokensCovered') <= InitTokenQuota
    <3>1. CASE TokenCovered(r)' <= TokenCovered(r)
      <4>1. \A q \in Requests : TokensCovered'[q] <= TokensCovered[q]
        BY <1>c, <1>d, <2>1, <3>1 DEF TokensCovered
      <4>2. /\ SumFunction(TokensCovered') \in Int /\ SumFunction(TokensCovered) \in Int
            /\ SumFunction(TokensCovered') <= SumFunction(TokensCovered)
        BY <1>0, <1>c, <1>d, <4>1, SumOrder
      <4>3. QED
        BY <2>3, <4>2, AmountsAssumption DEF Covered
    <3>2. CASE tokenRemain' >= 0
      <4>1. /\ SumFunction(TokensCovered') \in Int /\ SumFunction(tokenDebit') \in Int
            /\ SumFunction(TokensCovered') <= SumFunction(tokenDebit')
        BY <1>0, <1>c, <1>d, SumOrder
      <4>2. tokenRemain' + SumFunction(tokenDebit') <= InitTokenQuota
        BY DEF Conserved
      <4>3. QED
        BY <1>c, <3>2, <4>1, <4>2, AmountsAssumption
    <3>3. QED
      BY <1>1, <2>3, <3>1, <3>2, TokenChecked DEF AllGood, AllSided, AllAbove, Conserved
  <2>4. QED
    BY <2>2, <2>3 DEF Covered
<1>2. CASE ~ \E r \in Requests :
               StartRequest(r) \/ Handler(r) \/ RefundGoroutine(r)
  BY <1>2, OtherSteps DEF Covered, WalletsCovered, TokensCovered, WalletCovered, TokenCovered
<1>3. QED
  BY <1>1, <1>2

LEMMA BalanceInvariant ==
    ASSUME "refundMark" \notin FaultPoints
    PROVE  Spec => [](TypeOK /\ AllGood /\ NoOverRefund /\ Conserved /\ Covered)
<1>1. Spec => [](TypeOK /\ AllGood /\ AllMetered /\ AllSided /\ AllAbove)
  BY FloorInvariant
<1>2. Spec => []NoOverRefund
  BY NoOverRefundHolds
<1>3. Init => Conserved /\ Covered
  BY ConservedInit, CoveredInit
<1>4. TypeOK /\ NoOverRefund => CoveredParts
  BY CoveredTerms
<1>5. /\ TypeOK /\ AllGood /\ AllMetered /\ AllSided /\ AllAbove /\ CoveredParts
      /\ NoOverRefund /\ Conserved /\ Covered
      /\ TypeOK' /\ NoOverRefund' /\ CoveredParts' /\ [Next]_vars
      => (Conserved /\ Covered)'
  BY ConservedStep, CoveredStep
<1>6. QED
  BY <1>1, <1>2, <1>3, <1>4, <1>5, PTL DEF Spec

\* The usage of a subscription is at least what its requests have asked it for
\* since the last reset and at most what they have asked it for in all.  When
\* nothing was asked for before the reset the two are the same, and
\* PostConsumeUserSubscriptionDelta, which cuts amount_used off at zero, has
\* swallowed no part of a refund.
THEOREM UsageIsSum ==
    ASSUME "refundMark" \notin FaultPoints
    PROVE  Spec => []UsageIsSumOfRequests
<1>1. Conserved => UsageIsSumOfRequests
  BY DEF Conserved, UsageIsSumOfRequests
<1>2. QED
  BY <1>1, BalanceInvariant, PTL

\* The reservations that TryReserveUserQuota and TryReserveTokenQuota have
\* admitted are together covered by the balance, however the requests of the
\* user interleave and whatever their settlements take beyond it, and a
\* subscription is never used beyond its total.
THEOREM ReservationsAreCovered ==
    ASSUME "refundMark" \notin FaultPoints
    PROVE  Spec => []ReservationsCovered
<1>1. TypeOK /\ AllGood /\ NoOverRefund /\ Conserved /\ Covered => ReservationsCovered
  <2> SUFFICES ASSUME TypeOK, AllGood, NoOverRefund, Conserved, Covered
               PROVE  ReservationsCovered
    OBVIOUS
  <2> DEFINE min(a, b) == IF a < b THEN a ELSE b
             walletHeld == [r \in Requests |->
                 LET s == sess[r] IN
                 IF s.source # "wallet" THEN 0
                 ELSE min(walletDebit[r] - s.feePaid,
                          s.preConsumed
                             - (IF r \in Image THEN 0 ELSE s.extraReserved))]
             tokenHeld == [r \in Requests |->
                 min(tokenDebit[r] - sess[r].feePaid, sess[r].tokenConsumed)]
  <2>1. ASSUME NEW r \in Requests
        PROVE  /\ walletHeld[r] \in Int /\ tokenHeld[r] \in Int
               /\ walletHeld[r] <= WalletsCovered[r] /\ tokenHeld[r] <= TokensCovered[r]
    <3>1. /\ sess[r] \in Session /\ walletDebit[r] \in Int /\ tokenDebit[r] \in Int
          /\ pc[r] = "reserveToken" => sess[r].delta \in Nat
      BY DEF TypeOK, AllGood, Good, Amounts, Reserving
    <3>2. /\ sess[r].feePaid \in Nat /\ sess[r].preConsumed \in Nat
          /\ sess[r].extraReserved \in Nat /\ sess[r].tokenConsumed \in Nat
      BY <3>1, SessionFields
    <3>3. walletHeld[r] \in Int /\ walletHeld[r] <= WalletsCovered[r]
      BY <3>1, <3>2 DEF WalletsCovered, WalletCovered, Lesser
    <3>4. tokenHeld[r] \in Int /\ tokenHeld[r] <= TokensCovered[r]
      BY <3>1, <3>2 DEF TokensCovered, TokenCovered, Lesser
    <3>5. QED
      BY <3>3, <3>4
  <2>2. walletHeld \in [Requests -> Int] /\ tokenHeld \in [Requests -> Int]
    BY <2>1
  <2>3. WalletsCovered \in [Requests -> Int] /\ TokensCovered \in [Requests -> Int]
    BY CoveredTerms DEF CoveredParts
  <2> HIDE DEF walletHeld, tokenHeld
  <2>4. /\ SumFunction(walletHeld) \in Int /\ SumFunction(WalletsCovered) \in Int
        /\ SumFunction(walletHeld) <= SumFunction(WalletsCovered)
    BY <2>1, <2>2, <2>3, RequestsAssumption, SumOrder
  <2>5. /\ SumFunction(tokenHeld) \in Int /\ SumFunction(TokensCovered) \in Int
        /\ SumFunction(tokenHeld) <= SumFunction(TokensCovered)
    BY <2>1, <2>2, <2>3, RequestsAssumption, SumOrder
  <2>6. SumFunction(walletHeld) <= InitUserQuota
    BY <2>4, AmountsAssumption DEF Covered
  <2>7. TokenUnlimited \/ SumFunction(tokenHeld) <= InitTokenQuota
    BY <2>5, AmountsAssumption DEF Covered
  <2>8. SubTotal > 0 => subUsed <= SubTotal
    BY DEF Conserved
  <2>9. QED
    BY <2>6, <2>7, <2>8 DEF ReservationsCovered, walletHeld, tokenHeld
<1>2. QED
  BY <1>1, BalanceInvariant, PTL
=============================================================================
