------------------------- MODULE SharePools_proofs -------------------------
(***************************************************************************)
(* Proofs about the two pools that issue and burn shares by the same rule: *)
(* CreditDefaultSwap, for any accounts, amounts, durations, risk           *)
(* parameters and bounds, and LiquiditySyndicate, instantiated as Pool,    *)
(* for any accounts, amounts, risks, caps and bounds.                      *)
(***************************************************************************)
EXTENDS CreditDefaultSwap, NatArithmetic

IInv == TypeOK /\ NoOrphanReserves /\ EventPaysWhatItCan /\ BuyersListed

-----------------------------------------------------------------------------
(* Amounts *)

\* A deposit is issued no more shares than it pays for.
LEMMA IssuedNat ==
    ASSUME TypeOK, NEW amount \in Nat, amount > 0
    PROVE  /\ SharesIssued(amount) \in Nat
           /\ totalSellerShares = 0 => SharesIssued(amount) > 0
           /\ totalSellerShares > 0 /\ totalReservesUsd > 0
                => SharesIssued(amount) * totalReservesUsd <= amount * totalSellerShares
<1>1. totalSellerShares \in Nat /\ totalReservesUsd \in Nat
  BY DEF TypeOK
<1>2. CASE totalSellerShares = 0 \/ totalReservesUsd = 0
  BY <1>1, <1>2 DEF SharesIssued
<1>3. CASE ~(totalSellerShares = 0 \/ totalReservesUsd = 0)
  <2>1. amount * totalSellerShares \in Nat
    BY <1>1, ProductNat
  <2>2. SharesIssued(amount) = (amount * totalSellerShares) \div totalReservesUsd
    BY <1>3 DEF SharesIssued
  <2> QED BY <1>1, <1>3, <2>1, <2>2, QuotientNat
<1> QED BY <1>2, <1>3

\* A withdrawal pays no more than the burned shares are worth, and all of it at the end.
LEMMA WithdrawnNat ==
    ASSUME TypeOK, NEW shares \in Nat, shares > 0, shares <= totalSellerShares
    PROVE  /\ AmountWithdrawn(shares) \in Nat
           /\ AmountWithdrawn(shares) <= totalReservesUsd
           /\ AmountWithdrawn(shares) * totalSellerShares <= shares * totalReservesUsd
           /\ shares = totalSellerShares => AmountWithdrawn(shares) = totalReservesUsd
<1>1. totalSellerShares \in Nat /\ totalReservesUsd \in Nat /\ totalSellerShares > 0
  BY DEF TypeOK
<1>2. shares * totalReservesUsd \in Nat
  BY <1>1, ProductNat
<1>3. /\ AmountWithdrawn(shares) \in Nat
      /\ AmountWithdrawn(shares) * totalSellerShares <= shares * totalReservesUsd
      /\ shares * totalReservesUsd < (AmountWithdrawn(shares) + 1) * totalSellerShares
  BY <1>1, <1>2, QuotientNat DEF AmountWithdrawn
<1> HIDE DEF AmountWithdrawn
<1>4. AmountWithdrawn(shares) <= totalReservesUsd
  <2>1. shares * totalReservesUsd <= totalSellerShares * totalReservesUsd
    BY <1>1, ProductMonotone
  <2>2. AmountWithdrawn(shares) * totalSellerShares \in Nat
        /\ totalSellerShares * totalReservesUsd \in Nat
        /\ totalSellerShares * totalReservesUsd = totalReservesUsd * totalSellerShares
    BY <1>1, <1>3, ProductNat
  <2>3. AmountWithdrawn(shares) * totalSellerShares <= totalReservesUsd * totalSellerShares
    BY <1>2, <1>3, <2>1, <2>2
  <2> QED BY <1>1, <1>3, <2>3, ProductCancels
<1>5. ASSUME shares = totalSellerShares
      PROVE  AmountWithdrawn(shares) = totalReservesUsd
  <2>1. totalReservesUsd * totalSellerShares < (AmountWithdrawn(shares) + 1) * totalSellerShares
    BY <1>1, <1>3, <1>5
  <2>2. totalReservesUsd < AmountWithdrawn(shares) + 1
    <3>1. SUFFICES ASSUME AmountWithdrawn(shares) + 1 <= totalReservesUsd PROVE FALSE
      BY <1>1, <1>3
    <3>2. (AmountWithdrawn(shares) + 1) * totalSellerShares
              <= totalReservesUsd * totalSellerShares
      BY <1>1, <1>3, <3>1, ProductMonotone
    <3> QED BY <1>1, <1>3, <2>1, <3>2, ProductNat
  <2> QED BY <1>1, <1>3, <1>4, <2>2
<1> QED BY <1>3, <1>4, <1>5

LEMMA PremiumNat ==
    ASSUME TypeOK, NEW amount \in Nat
    PROVE  Premium(amount) \in Nat
<1>1. /\ risk.defaultIntensityBps \in Nat /\ 10000 - risk.expectedRecoveryRateBps \in Nat
      /\ risk.alphaBps \in Nat /\ risk.volatilityBps \in Nat
  <2>1. /\ risk.defaultIntensityBps \in 0 .. BASIS_POINTS_DIVISOR
        /\ risk.expectedRecoveryRateBps \in 0 .. BASIS_POINTS_DIVISOR
        /\ risk.alphaBps \in Nat /\ risk.volatilityBps \in Nat
    BY DEF TypeOK, Risk
  <2>2. \A x \in 0 .. BASIS_POINTS_DIVISOR : x \in Nat /\ 10000 - x \in Nat
    BY DEF BASIS_POINTS_DIVISOR
  <2> QED BY <2>1, <2>2
<1>2. risk.defaultIntensityBps * (10000 - risk.expectedRecoveryRateBps) \in Nat
  BY <1>1, ProductNat
<1>3. risk.alphaBps * risk.volatilityBps * risk.volatilityBps \in Nat
  BY <1>1, ProductNat
<1>4. CalculatePremiumRateBps \in Nat
  BY <1>2, <1>3, QuotientNat DEF CalculatePremiumRateBps, BASIS_POINTS_DIVISOR
<1>5. amount * CalculatePremiumRateBps \in Nat
  BY <1>4, ProductNat
<1>6. (amount * CalculatePremiumRateBps) \div 10000 \in Nat
  BY <1>5, QuotientNat
<1> QED BY <1>6 DEF Premium, BASIS_POINTS_DIVISOR
-----------------------------------------------------------------------------
(* What each action does to the invariant *)

\* Without a running event nothing is claimed about its progress.
LEMMA NoEventRunning ==
    ASSUME next' = 0 \/ next' = 1
    PROVE  EventPaysWhatItCan'
BY DEF EventPaysWhatItCan

LEMMA DepositKeeps ==
    ASSUME IInv, NEW a \in Accounts, NEW amount \in Deposits, DepositReserves(a, amount)
    PROVE  IInv'
<1> USE DEF IInv, DepositReserves
<1>1. amount \in Nat /\ amount > 0
  BY SwapAssumption
<1>2. /\ SharesIssued(amount) \in Nat
      /\ totalSellerShares = 0 => SharesIssued(amount) > 0
  BY <1>1, IssuedNat
<1>3. TypeOK'
  BY <1>1, <1>2 DEF TypeOK, cover
<1>4. NoOrphanReserves'
  BY <1>1, <1>2 DEF TypeOK, NoOrphanReserves
<1>5. EventPaysWhatItCan'
  BY NoEventRunning
<1>6. BuyersListed'
  BY DEF BuyersListed, cover
<1> QED BY <1>3, <1>4, <1>5, <1>6

LEMMA WithdrawKeeps ==
    ASSUME IInv, NEW a \in Accounts, NEW shares \in 1 .. sellerShares[a],
           WithdrawReserves(a, shares)
    PROVE  IInv'
<1> USE DEF IInv, WithdrawReserves
<1>1. /\ shares \in Nat /\ shares > 0 /\ shares <= totalSellerShares
      /\ totalSellerShares \in Nat /\ totalReservesUsd \in Nat
  BY DEF TypeOK
<1>2. /\ AmountWithdrawn(shares) \in Nat
      /\ AmountWithdrawn(shares) <= totalReservesUsd
      /\ shares = totalSellerShares => AmountWithdrawn(shares) = totalReservesUsd
  BY <1>1, WithdrawnNat
<1>3. TypeOK'
  BY <1>1, <1>2 DEF TypeOK, cover
<1>4. NoOrphanReserves'
  BY <1>1, <1>2 DEF NoOrphanReserves
<1>5. EventPaysWhatItCan'
  BY NoEventRunning
<1>6. BuyersListed'
  BY DEF BuyersListed, cover
<1> QED BY <1>3, <1>4, <1>5, <1>6

LEMMA BuyKeeps ==
    ASSUME IInv, NEW a \in Accounts, NEW amount \in Covers, NEW duration \in Durations,
           BuyProtection(a, amount, duration)
    PROVE  IInv'
<1> USE DEF IInv, BuyProtection
<1>1. amount \in Nat /\ amount > 0 /\ duration \in Nat
  BY SwapAssumption
<1>2. Premium(amount) \in Nat
  BY <1>1, PremiumNat
<1>3. protectionBuyers \in Seq(Accounts)
  BY DEF TypeOK
<1>4. activeProtections' \in [Accounts -> Protection]
  BY <1>1 DEF TypeOK, Protection
<1>5. TypeOK'
  BY <1>1, <1>2, <1>3, <1>4 DEF TypeOK
<1>6. NoOrphanReserves'
  BY <1>1 DEF TypeOK, NoOrphanReserves
<1>7. EventPaysWhatItCan'
  BY NoEventRunning
<1>8. \A b \in Accounts : activeProtections'[b].active => activeProtections[b].active \/ b = a
  BY DEF TypeOK
<1>9. BuyersListed'
  <2>1. CASE Listed(a)
    BY <1>8, <2>1 DEF BuyersListed, Listed
  <2>2. CASE ~Listed(a)
    <3>1. /\ Len(protectionBuyers') = Len(protectionBuyers) + 1
          /\ protectionBuyers'[Len(protectionBuyers) + 1] = a
          /\ \A i \in 1 .. Len(protectionBuyers) : protectionBuyers'[i] = protectionBuyers[i]
          /\ Len(protectionBuyers) \in Nat
      BY <1>3, <2>2
    <3>2. \A b \in Accounts : activeProtections'[b].active
             => \E i \in 1 .. Len(protectionBuyers') : protectionBuyers'[i] = b
      <4>1. TAKE b \in Accounts
      <4>2. HAVE activeProtections'[b].active
      <4>3. CASE b = a
        BY <3>1, <4>3
      <4>4. CASE activeProtections[b].active
        <5>1. PICK i \in 1 .. Len(protectionBuyers) : protectionBuyers[i] = b
          BY <4>4 DEF BuyersListed
        <5> QED BY <3>1, <5>1
      <4> QED BY <1>8, <4>2, <4>3, <4>4
    <3>3. \A i, j \in 1 .. Len(protectionBuyers') :
             protectionBuyers'[i] = protectionBuyers'[j] => i = j
      BY <2>2, <3>1 DEF BuyersListed, Listed
    <3> QED BY <3>2, <3>3 DEF BuyersListed
  <2> QED BY <2>1, <2>2
<1> QED BY <1>5, <1>6, <1>7, <1>9

\* One round of the event loop pays at most the buyer it stands at.
LEMMA SettleOnlyNext ==
    ASSUME TypeOK, SettleNext
    PROVE  /\ next \in 1 .. Len(protectionBuyers) /\ protectionBuyers[next] \in Accounts
           /\ totalReservesUsd' \in Nat /\ totalReservesUsd' <= totalReservesUsd
           /\ activeProtections' \in [Accounts -> Protection]
           /\ \A a \in Accounts :
                 /\ activeProtections'[a].active => activeProtections[a].active
                 /\ Covered(a)' => Covered(a)
                 /\ activeProtections'[a].coveredPrincipalUsd
                        = activeProtections[a].coveredPrincipalUsd
                 /\ a = protectionBuyers[next] /\ Covered(a)' => ~Settled(a)
<1> DEFINE b == protectionBuyers[next]
<1>1. next \in 1 .. Len(protectionBuyers) /\ b \in Accounts
  BY DEF TypeOK, SettleNext
<1>2. CASE Settled(b)
  <2>1. /\ activeProtections' = [activeProtections EXCEPT ![b].active = FALSE]
        /\ totalReservesUsd' = totalReservesUsd - activeProtections[b].coveredPrincipalUsd
        /\ block' = block
    BY <1>2 DEF SettleNext, SettleBuyer
  <2>2. /\ activeProtections \in [Accounts -> Protection]
        /\ activeProtections[b] \in Protection
        /\ totalReservesUsd \in Nat
    BY <1>1 DEF TypeOK
  <2>3. /\ totalReservesUsd >= activeProtections[b].coveredPrincipalUsd
        /\ activeProtections[b].coveredPrincipalUsd \in Nat
    BY <1>2, <2>2 DEF Settled, Protection
  <2>4. [activeProtections[b] EXCEPT !.active = FALSE] \in Protection
    BY <2>2 DEF Protection
  <2>5. activeProtections' \in [Accounts -> Protection]
    BY <1>1, <2>1, <2>2, <2>4
  <2>6. \A a \in Accounts :
           /\ activeProtections'[a].active => activeProtections[a].active
           /\ activeProtections'[a].expirationBlock = activeProtections[a].expirationBlock
           /\ activeProtections'[a].coveredPrincipalUsd
                 = activeProtections[a].coveredPrincipalUsd
    BY <1>1, <2>1, <2>2 DEF Protection
  <2>7. ~activeProtections'[b].active
    BY <1>1, <2>1, <2>2 DEF Protection
  <2> HIDE DEF b
  <2>8. \A a \in Accounts : Covered(a)' => Covered(a) /\ a # b
    BY <2>1, <2>6, <2>7 DEF Covered
  <2> QED BY <1>1, <2>1, <2>2, <2>3, <2>5, <2>6, <2>8 DEF b
<1>3. CASE ~Settled(b)
  <2>1. activeProtections' = activeProtections /\ totalReservesUsd' = totalReservesUsd
        /\ block' = block
    BY <1>3 DEF SettleNext, SettleBuyer
  <2> QED BY <1>1, <1>3, <2>1 DEF TypeOK, Covered
<1> QED BY <1>2, <1>3

LEMMA WithinBasisPoints ==
    ASSUME NEW x \in Nat, x <= BASIS_POINTS_DIVISOR
    PROVE  x \in 0 .. BASIS_POINTS_DIVISOR
BY DEF BASIS_POINTS_DIVISOR

LEMMA SettleKeeps ==
    ASSUME IInv, SettleNext
    PROVE  IInv'
<1>1. /\ TypeOK /\ NoOrphanReserves /\ EventPaysWhatItCan /\ BuyersListed
      /\ next \in 1 .. Len(protectionBuyers) /\ protectionBuyers[next] \in Accounts
      /\ totalReservesUsd \in Nat
      /\ totalReservesUsd' \in Nat /\ totalReservesUsd' <= totalReservesUsd
      /\ activeProtections' \in [Accounts -> Protection]
      /\ next' = next + 1
      /\ UNCHANGED <<risk, totalSellerShares, sellerShares, protectionBuyers, block>>
  BY SettleOnlyNext DEF IInv, SettleNext, NextRound, TypeOK
<1>2. \A a \in Accounts :
         /\ activeProtections'[a].active => activeProtections[a].active
         /\ Covered(a)' => Covered(a)
         /\ activeProtections'[a].coveredPrincipalUsd
                = activeProtections[a].coveredPrincipalUsd
         /\ activeProtections[a].coveredPrincipalUsd \in Nat
         /\ a = protectionBuyers[next] /\ Covered(a)' => ~Settled(a)
  BY <1>1, SettleOnlyNext DEF TypeOK, Protection
<1>3. TypeOK'
  BY <1>1 DEF TypeOK
<1>4. NoOrphanReserves'
  BY <1>1 DEF NoOrphanReserves
<1>5. EventPaysWhatItCan'
  <2>1. SUFFICES ASSUME NEW i \in 1 .. next, NEW b \in Accounts,
                        b = protectionBuyers[i], Covered(b)'
                 PROVE  activeProtections'[b].coveredPrincipalUsd > totalReservesUsd'
    <3>1. \A i \in 1 .. next : protectionBuyers[i] \in Accounts
      BY <1>1 DEF TypeOK
    <3>2. \A i \in 1 .. next : \A b \in Accounts :
             b = protectionBuyers[i] /\ Covered(b)'
                => activeProtections'[b].coveredPrincipalUsd > totalReservesUsd'
      BY <2>1
    <3>3. \A i \in 1 .. next' - 1 : i \in 1 .. next /\ protectionBuyers'[i] = protectionBuyers[i]
      BY <1>1
    <3> QED BY <3>1, <3>2, <3>3 DEF EventPaysWhatItCan, Covered
  <2>2. Covered(b)
    BY <1>2, <2>1
  <2>3. activeProtections[b].coveredPrincipalUsd > totalReservesUsd
    <3>1. CASE i = next
      BY <1>1, <1>2, <2>1, <2>2, <3>1 DEF Settled
    <3>2. CASE i \in 1 .. next - 1
      BY <1>1, <2>1, <2>2, <3>2 DEF EventPaysWhatItCan
    <3> QED BY <1>1, <3>1, <3>2
  <2> QED BY <1>1, <1>2, <2>3
<1>6. BuyersListed'
  BY <1>1, <1>2 DEF BuyersListed
<1> QED BY <1>3, <1>4, <1>5, <1>6 DEF IInv

LEMMA OthersKeep ==
    ASSUME IInv,
           \/ StartCreditEvent
           \/ EndCreditEvent
           \/ \E l \in Lambdas, r \in Recoveries, v \in Volatilities, s \in Alphas :
                 UpdateRiskParameters(l, r, v, s)
           \/ Mine
    PROVE  IInv'
<1>1. UNCHANGED <<pool, cover>> /\ (next' = 0 \/ next' = 1)
  BY DEF StartCreditEvent, EndCreditEvent, UpdateRiskParameters, Mine, pool, cover
<1>2. block' \in Nat /\ risk' \in Risk
  <2>1. block \in Nat /\ risk \in Risk
    BY DEF IInv, TypeOK
  <2>2. CASE StartCreditEvent \/ EndCreditEvent \/ Mine
    BY <2>1, <2>2 DEF StartCreditEvent, EndCreditEvent, Mine
  <2>3. ASSUME NEW l \in Lambdas, NEW r \in Recoveries, NEW v \in Volatilities,
               NEW s \in Alphas, UpdateRiskParameters(l, r, v, s)
        PROVE  block' \in Nat /\ risk' \in Risk
    <3>1. l \in Nat /\ r \in Nat /\ v \in Nat /\ s \in Nat
      BY SwapAssumption
    <3>2. l <= BASIS_POINTS_DIVISOR /\ r <= BASIS_POINTS_DIVISOR
      BY <2>3 DEF UpdateRiskParameters
    <3>3. l \in 0 .. BASIS_POINTS_DIVISOR /\ r \in 0 .. BASIS_POINTS_DIVISOR
      BY <3>1, <3>2, WithinBasisPoints
    <3>4. /\ block' = block
          /\ risk' = [defaultIntensityBps |-> l, expectedRecoveryRateBps |-> r,
                      volatilityBps |-> v, alphaBps |-> s]
      BY <2>3 DEF UpdateRiskParameters
    <3> QED BY <2>1, <3>1, <3>3, <3>4 DEF Risk
  <2> QED BY <2>2, <2>3
<1>3. TypeOK'
  BY <1>1, <1>2 DEF IInv, TypeOK, pool, cover
<1>4. NoOrphanReserves' /\ BuyersListed'
  BY <1>1 DEF IInv, NoOrphanReserves, BuyersListed, pool, cover
<1> QED BY <1>1, <1>3, <1>4, NoEventRunning DEF IInv

LEMMA Inductive ==
    ASSUME IInv, [Next]_vars
    PROVE  IInv'
<1>1. CASE UNCHANGED vars
  BY <1>1 DEF IInv, TypeOK, NoOrphanReserves, EventPaysWhatItCan, BuyersListed, Covered, vars
<1>2. CASE Next
  BY <1>2, DepositKeeps, WithdrawKeeps, BuyKeeps, SettleKeeps, OthersKeep DEF Next
<1> QED BY <1>1, <1>2

LEMMA Invariance == Spec => []IInv
<1>1. Init => IInv
  BY DEF Init, IInv, TypeOK, Risk, Protection, BASIS_POINTS_DIVISOR, NoOrphanReserves,
         EventPaysWhatItCan, BuyersListed
<1> QED BY <1>1, Inductive, PTL DEF Spec

-----------------------------------------------------------------------------
(* The shares of the sellers *)

\* One seller's shares and the total change together.
LEMMA SharesMoveTogether ==
    ASSUME TypeOK, TypeOK', SharesAddUp, NEW a \in Accounts,
           \A x \in Accounts : x # a => sellerShares'[x] = sellerShares[x],
           totalSellerShares' + sellerShares[a] = totalSellerShares + sellerShares'[a]
    PROVE  SharesAddUp'
<1> DEFINE f == sellerShares
           g == sellerShares'
<1>1. IsFiniteSet(Accounts)
  BY SwapAssumption
<1>2. /\ \A x \in Accounts : f[x] \in Nat /\ g[x] \in Nat
      /\ \A x \in Accounts : x # a => f[x] = g[x]
      /\ totalSellerShares \in Nat /\ totalSellerShares' \in Nat
      /\ totalSellerShares' + f[a] = totalSellerShares + g[a]
      /\ totalSellerShares = Total(f, Accounts)
  BY DEF TypeOK, SharesAddUp
<1> HIDE DEF f, g
<1>3. Total(g, Accounts) + f[a] = Total(f, Accounts) + g[a]
  BY <1>1, <1>2, TotalChanged
<1>4. Total(g, Accounts) \in Nat
  BY <1>1, <1>2, TotalNat
<1>5. totalSellerShares' = Total(g, Accounts)
  BY <1>2, <1>3, <1>4
<1> QED BY <1>5 DEF SharesAddUp, g

LEMMA SharesNext == IInv /\ IInv' /\ SharesAddUp /\ [Next]_vars => SharesAddUp'
<1> SUFFICES ASSUME IInv, IInv', SharesAddUp, [Next]_vars PROVE SharesAddUp'
  OBVIOUS
<1>t. TypeOK /\ TypeOK'
  BY DEF IInv
<1>1. ASSUME UNCHANGED <<totalSellerShares, sellerShares>> PROVE SharesAddUp'
  BY <1>1 DEF SharesAddUp
<1>2. ASSUME NEW a \in Accounts, NEW n \in Deposits, DepositReserves(a, n)
      PROVE  SharesAddUp'
  <2>1. n \in Nat /\ n > 0
    BY <1>2, SwapAssumption DEF DepositReserves
  <2>2. SharesIssued(n) \in Nat
    BY <1>t, <2>1, IssuedNat
  <2>3. /\ sellerShares' = [sellerShares EXCEPT ![a] = sellerShares[a] + SharesIssued(n)]
        /\ totalSellerShares' = totalSellerShares + SharesIssued(n)
    BY <1>2 DEF DepositReserves
  <2> HIDE DEF SharesIssued
  <2>4. /\ \A x \in Accounts : x # a => sellerShares'[x] = sellerShares[x]
        /\ totalSellerShares' + sellerShares[a] = totalSellerShares + sellerShares'[a]
    BY <1>t, <2>2, <2>3 DEF TypeOK
  <2> QED BY <1>t, <2>4, SharesMoveTogether
<1>3. ASSUME NEW a \in Accounts, NEW n \in 1 .. sellerShares[a], WithdrawReserves(a, n)
      PROVE  SharesAddUp'
  <2>1. /\ \A x \in Accounts : x # a => sellerShares'[x] = sellerShares[x]
        /\ totalSellerShares' + sellerShares[a] = totalSellerShares + sellerShares'[a]
    BY <1>t, <1>3 DEF WithdrawReserves, TypeOK
  <2> QED BY <1>t, <2>1, SharesMoveTogether
<1>4. CASE UNCHANGED vars
  BY <1>1, <1>4 DEF vars
<1>5. CASE Next
  <2>1. ASSUME NEW a \in Accounts, NEW n \in Covers, NEW d \in Durations, BuyProtection(a, n, d)
        PROVE  SharesAddUp'
    BY <1>1, <2>1 DEF BuyProtection
  <2>2. CASE \/ StartCreditEvent \/ SettleNext \/ EndCreditEvent \/ Mine
             \/ \E l \in Lambdas, r \in Recoveries, v \in Volatilities, s \in Alphas :
                   UpdateRiskParameters(l, r, v, s)
    BY <1>1, <2>2 DEF StartCreditEvent, SettleNext, EndCreditEvent, Mine, UpdateRiskParameters, pool
  <2> QED BY <1>2, <1>3, <1>5, <2>1, <2>2 DEF Next
<1> QED BY <1>4, <1>5

LEMMA SharesInvariance == Spec => []SharesAddUp
<1>1. Init => SharesAddUp
  <2> SUFFICES ASSUME Init PROVE SharesAddUp
    OBVIOUS
  <2>1. \A x \in Accounts : sellerShares[x] = 0
    BY DEF Init
  <2>2. Total(sellerShares, Accounts) = 0
    BY <2>1, SwapAssumption, TotalZero
  <2> QED BY <2>2 DEF Init, SharesAddUp
<1> QED BY <1>1, SharesNext, Invariance, PTL DEF Spec

-----------------------------------------------------------------------------
(* Theorems *)

\* The reserves never go below zero, whatever is deposited, covered or paid.
THEOREM TypeCorrect == Spec => []TypeOK
<1>1. IInv => TypeOK
  BY DEF IInv
<1> QED BY <1>1, Invariance, PTL

\* Whoever burns the last share takes all that is left, for any amounts and rounding.
THEOREM ReservesHaveOwners == Spec => []NoOrphanReserves
<1>1. IInv => NoOrphanReserves
  BY DEF IInv
<1> QED BY <1>1, Invariance, PTL

\* At every round of a credit event, for any list of buyers, the ones it has passed over
\* are those the remaining reserves cannot pay.
THEOREM EventIsGreedy == Spec => []EventPaysWhatItCan
<1>1. IInv => EventPaysWhatItCan
  BY DEF IInv
<1> QED BY <1>1, Invariance, PTL

\* No active protection is missing from the list of the event loop, or in it twice.
THEOREM ListComplete == Spec => []BuyersListed
<1>1. IInv => BuyersListed
  BY DEF IInv
<1> QED BY <1>1, Invariance, PTL

\* The sellers' shares add up to the total the contract keeps, for any accounts, deposits
\* and roundings.
THEOREM SellersShares == Spec => []SharesAddUp
BY SharesInvariance

\* No seller ever has more shares than totalSellerShares counts: the subtraction of
\* withdrawReserves cannot revert, so whoever holds shares can redeem them.
THEOREM SellersCanLeave ==
    Spec => [](\A a \in Accounts : sellerShares[a] <= totalSellerShares)
<1>1. TypeOK /\ SharesAddUp => \A a \in Accounts : sellerShares[a] <= totalSellerShares
  BY TotalPart, SwapAssumption DEF TypeOK, SharesAddUp
<1>2. IInv => TypeOK
  BY DEF IInv
<1> QED BY <1>1, <1>2, Invariance, SharesInvariance, PTL

\* For any amounts, premium rate and rounding, what a share is worth falls only in a step
\* that pays a protection.
THEOREM SharePriceKept == Spec => SharePriceFallsOnlyByPayout
<1> DEFINE Paid == \E a \in Accounts : activeProtections[a].active /\ ~activeProtections'[a].active
           Falls == totalReservesUsd * totalSellerShares' > totalReservesUsd' * totalSellerShares
<1>1. ASSUME IInv, [Next]_vars PROVE Falls => Paid
  <2>1. /\ TypeOK /\ NoOrphanReserves
        /\ totalReservesUsd \in Nat /\ totalSellerShares \in Nat
    BY <1>1 DEF IInv, TypeOK
  <2>2. ASSUME totalSellerShares' = totalSellerShares, totalReservesUsd' \in Nat,
               totalReservesUsd <= totalReservesUsd'
        PROVE  ~Falls
    <3>1. totalReservesUsd * totalSellerShares <= totalReservesUsd' * totalSellerShares
      BY <2>1, <2>2, ProductMonotone
    <3>2. /\ totalReservesUsd * totalSellerShares \in Nat
          /\ totalReservesUsd' * totalSellerShares \in Nat
      BY <2>1, <2>2, ProductNat
    <3> QED BY <2>2, <3>1, <3>2
  <2>3. ASSUME NEW a \in Accounts, NEW n \in Deposits, DepositReserves(a, n)
        PROVE  ~Falls
    <3> DEFINE issued == SharesIssued(n)
    <3>1. n \in Nat /\ n > 0
      BY <2>3, SwapAssumption DEF DepositReserves
    <3>2. /\ issued \in Nat
          /\ totalSellerShares > 0 /\ totalReservesUsd > 0
                => issued * totalReservesUsd <= n * totalSellerShares
      BY <2>1, <3>1, IssuedNat
    <3>3. /\ totalSellerShares' = totalSellerShares + issued
          /\ totalReservesUsd' = totalReservesUsd + n
      BY <2>3 DEF DepositReserves
    <3> HIDE DEF issued
    <3>4. CASE totalReservesUsd = 0
      BY <2>1, <3>1, <3>2, <3>3, <3>4, ProductNat
    <3>5. CASE totalReservesUsd > 0
      <4>1. totalSellerShares > 0
        BY <2>1, <3>5 DEF NoOrphanReserves
      <4>2. totalReservesUsd * (totalSellerShares + issued)
               <= (totalReservesUsd + n) * totalSellerShares
        BY <2>1, <3>1, <3>2, <3>5, <4>1, IssueKeepsPrice
      <4>3. /\ totalReservesUsd * (totalSellerShares + issued) \in Nat
            /\ (totalReservesUsd + n) * totalSellerShares \in Nat
        BY <2>1, <3>1, <3>2, ProductNat
      <4> QED BY <3>3, <4>2, <4>3
    <3> QED BY <2>1, <3>4, <3>5
  <2>4. ASSUME NEW a \in Accounts, NEW n \in 1 .. sellerShares[a], WithdrawReserves(a, n)
        PROVE  ~Falls
    <3> DEFINE amount == AmountWithdrawn(n)
    <3>1. n \in Nat /\ n > 0 /\ n <= totalSellerShares
      BY <2>1, <2>4 DEF WithdrawReserves, TypeOK
    <3>2. amount \in 0 .. totalReservesUsd /\ amount * totalSellerShares <= n * totalReservesUsd
      BY <2>1, <3>1, WithdrawnNat
    <3>3. /\ totalSellerShares' = totalSellerShares - n
          /\ totalReservesUsd' = totalReservesUsd - amount
      BY <2>4 DEF WithdrawReserves
    <3> HIDE DEF amount
    <3>4. n \in 0 .. totalSellerShares
      BY <2>1, <3>1
    <3>5. totalReservesUsd * (totalSellerShares - n)
             <= (totalReservesUsd - amount) * totalSellerShares
      BY <2>1, <3>2, <3>4, RedeemKeepsPrice
    <3>6. /\ totalSellerShares - n \in Nat /\ totalReservesUsd - amount \in Nat
          /\ totalReservesUsd * (totalSellerShares - n) \in Nat
          /\ (totalReservesUsd - amount) * totalSellerShares \in Nat
      BY <2>1, <3>2, <3>4, ProductNat
    <3> QED BY <3>3, <3>5, <3>6
  <2>5. ASSUME NEW a \in Accounts, NEW n \in Covers, NEW d \in Durations,
               BuyProtection(a, n, d)
        PROVE  ~Falls
    <3>1. Premium(n) \in Nat
      BY <2>1, PremiumNat, SwapAssumption
    <3> QED BY <2>1, <2>2, <2>5, <3>1 DEF BuyProtection
  <2>6. ASSUME SettleNext
        PROVE  Falls => Paid
    <3> DEFINE b == protectionBuyers[next]
    <3>1. b \in Accounts /\ totalSellerShares' = totalSellerShares
      BY <2>1, <2>6, SettleOnlyNext DEF SettleNext
    <3>2. CASE Settled(b)
      <4>1. activeProtections' = [activeProtections EXCEPT ![b].active = FALSE]
        BY <2>6, <3>2 DEF SettleNext, SettleBuyer
      <4>2. activeProtections \in [Accounts -> Protection] /\ activeProtections[b] \in Protection
        BY <2>1, <3>1 DEF TypeOK
      <4> HIDE DEF b
      <4>3. ~activeProtections'[b].active
        BY <3>1, <4>1, <4>2 DEF Protection
      <4> QED BY <3>1, <3>2, <4>3 DEF Settled, Covered
    <3>3. CASE ~Settled(b)
      BY <2>1, <2>2, <2>6, <3>1, <3>3 DEF SettleNext, SettleBuyer
    <3> QED BY <3>2, <3>3
  <2>7. CASE UNCHANGED pool
    BY <2>1, <2>2, <2>7 DEF pool
  <2>8. CASE UNCHANGED vars
    BY <2>7, <2>8 DEF vars, pool
  <2>9. CASE Next
    BY <2>3, <2>4, <2>5, <2>6, <2>7, <2>9
       DEF Next, StartCreditEvent, EndCreditEvent, UpdateRiskParameters, Mine
  <2> QED BY <1>1, <2>8, <2>9
<1>2. IInv /\ [Next]_vars =>
         (totalReservesUsd * totalSellerShares' > totalReservesUsd' * totalSellerShares
             => \E a \in Accounts : /\ activeProtections[a].active
                                    /\ ~activeProtections'[a].active)
  BY <1>1
<1> HIDE DEF Falls, Paid
<1> QED BY <1>2, Invariance, PTL DEF Spec, SharePriceFallsOnlyByPayout

\* Reserves leave other than to sellers only by the one full payment of a live protection,
\* which ends it.
THEOREM PayoutsEndCover == Spec => PayoutEndsCover
<1>1. ASSUME IInv, [Next]_vars, totalSellerShares' = totalSellerShares,
             totalReservesUsd' < totalReservesUsd
      PROVE  \E a \in Accounts :
                /\ Covered(a)
                /\ ~activeProtections'[a].active
                /\ totalReservesUsd - totalReservesUsd'
                      = activeProtections[a].coveredPrincipalUsd
  <2> DEFINE b == protectionBuyers[next]
  <2>1. TypeOK /\ totalReservesUsd \in Nat /\ totalSellerShares \in Nat
    BY <1>1 DEF IInv, TypeOK
  <2>2. SettleNext
    <3>1. ASSUME NEW a \in Accounts, NEW n \in Deposits, DepositReserves(a, n) PROVE FALSE
      BY <1>1, <2>1, <3>1, SwapAssumption DEF DepositReserves
    <3>2. ASSUME NEW a \in Accounts, NEW n \in 1 .. sellerShares[a], WithdrawReserves(a, n)
          PROVE  FALSE
      BY <1>1, <2>1, <3>2 DEF WithdrawReserves, TypeOK
    <3>3. ASSUME NEW a \in Accounts, NEW n \in Covers, NEW d \in Durations,
                 BuyProtection(a, n, d)
          PROVE  FALSE
      BY <1>1, <2>1, <3>3, PremiumNat, SwapAssumption DEF BuyProtection
    <3>4. ~UNCHANGED pool
      BY <1>1, <2>1 DEF pool
    <3> QED BY <1>1, <3>1, <3>2, <3>3, <3>4
            DEF Next, vars, pool, StartCreditEvent, EndCreditEvent, UpdateRiskParameters, Mine
  <2>3. b \in Accounts
    BY <2>1, <2>2, SettleOnlyNext
  <2>4. Settled(b)
    BY <1>1, <2>1, <2>2 DEF SettleNext, SettleBuyer
  <2>5. /\ activeProtections' = [activeProtections EXCEPT ![b].active = FALSE]
        /\ totalReservesUsd' = totalReservesUsd - activeProtections[b].coveredPrincipalUsd
    BY <2>2, <2>4 DEF SettleNext, SettleBuyer
  <2>6. /\ activeProtections \in [Accounts -> Protection]
        /\ activeProtections[b] \in Protection
        /\ activeProtections[b].coveredPrincipalUsd \in Nat
    BY <2>1, <2>3 DEF TypeOK, Protection
  <2> HIDE DEF b
  <2>7. ~activeProtections'[b].active
    BY <2>3, <2>5, <2>6 DEF Protection
  <2>8. totalReservesUsd - totalReservesUsd' = activeProtections[b].coveredPrincipalUsd
    BY <2>1, <2>5, <2>6
  <2> QED BY <2>3, <2>4, <2>7, <2>8 DEF Settled
<1>2. IInv /\ [Next]_vars =>
         (totalSellerShares' = totalSellerShares /\ totalReservesUsd' < totalReservesUsd
             => \E a \in Accounts :
                   /\ Covered(a)
                   /\ ~activeProtections'[a].active
                   /\ totalReservesUsd - totalReservesUsd'
                         = activeProtections[a].coveredPrincipalUsd)
  BY <1>1
<1> QED BY <1>2, Invariance, PTL DEF Spec, PayoutEndsCover

-----------------------------------------------------------------------------
(* The syndicate: what its theorems assume of its constants is its own assumption *)

CONSTANTS Endowment, Amounts, Burns, RiskBps, Caps, Surplus, MaxLoans
VARIABLES wallet, poolBalance, totalShares, shareBalance, expectedLossCapBps, loans
Pool == INSTANCE LiquiditySyndicate

\* The pool's module counts and adds up by the same operators as this one.
LEMMA SameSize == ASSUME NEW S PROVE Pool!Cardinality(S) = Cardinality(S)
BY DEF Pool!Cardinality, Cardinality

LEMMA SameTotal == ASSUME NEW f, NEW S PROVE Pool!Total(f, S) = Total(f, S)
BY DEF Pool!Total, Total, Pool!MapThenSumSet, MapThenSumSet,
       Pool!MapThenFoldSet, MapThenFoldSet

PoolInv == Pool!TypeOK /\ IsFiniteSet(DOMAIN loans)

Owed == [i \in DOMAIN loans |-> loans[i].principal]

\* The next id is that of no loan.
LEMMA NextIdIsNew ==
    ASSUME PoolInv
    PROVE  /\ Pool!nextLoanId \in Nat /\ Pool!nextLoanId \notin DOMAIN loans
           /\ DOMAIN loans = 0 .. Pool!nextLoanId - 1
<1>1. Pool!nextLoanId \in Nat /\ DOMAIN loans = 0 .. Pool!nextLoanId - 1
  BY SameSize, FS_CardinalityType DEF PoolInv, Pool!TypeOK, Pool!nextLoanId
<1> QED BY <1>1

\* A deposit is issued no more shares than it pays for.
LEMMA PoolIssued ==
    ASSUME PoolInv, NEW n \in Nat
    PROVE  /\ Pool!SharesToIssue(n) \in Nat
           /\ totalShares > 0 => Pool!SharesToIssue(n) * poolBalance <= n * totalShares
<1>1. totalShares \in Nat /\ poolBalance \in Nat /\ n * totalShares \in Nat
  BY ProductNat DEF PoolInv, Pool!TypeOK
<1>2. CASE totalShares = 0 \/ poolBalance = 0
  <2>1. Pool!SharesToIssue(n) = n
    BY <1>2 DEF Pool!SharesToIssue
  <2> QED BY <1>1, <1>2, <2>1
<1>3. CASE ~(totalShares = 0 \/ poolBalance = 0)
  <2>1. Pool!SharesToIssue(n) = (n * totalShares) \div poolBalance
    BY <1>3 DEF Pool!SharesToIssue
  <2> QED BY <1>1, <1>3, <2>1, QuotientNat
<1> QED BY <1>2, <1>3

\* Burned shares are paid no more than they are worth.
LEMMA PoolReturned ==
    ASSUME PoolInv, NEW n \in Nat, n > 0, n <= totalShares
    PROVE  /\ Pool!TokensToReturn(n) \in Nat
           /\ Pool!TokensToReturn(n) * totalShares <= n * poolBalance
<1>1. totalShares \in Nat /\ totalShares > 0 /\ n * poolBalance \in Nat
  BY ProductNat DEF PoolInv, Pool!TypeOK
<1> QED BY <1>1, QuotientNat DEF Pool!TokensToReturn

\* A loan is entered under a new id and owes its principal.
LEMMA LoanIssued ==
    ASSUME Pool!SyndicateAssumption, PoolInv, NEW a \in Accounts, NEW n \in Amounts,
           NEW pd \in RiskBps, NEW lgd \in RiskBps, Pool!IssueLoan(a, n, pd, lgd)
    PROVE  /\ DOMAIN loans' = DOMAIN loans \cup {Pool!nextLoanId}
           /\ \A i \in DOMAIN loans : loans'[i] = loans[i]
           /\ loans'[Pool!nextLoanId] \in Pool!Loan
           /\ loans'[Pool!nextLoanId].principal = n
           /\ loans'[Pool!nextLoanId].active = TRUE
           /\ loans'[Pool!nextLoanId].repaid = FALSE
<1> DEFINE l == [borrower |-> a, principal |-> n,
                 interestDue |-> (n * 1200) \div Pool!BASIS_POINTS_DIVISOR,
                 probabilityOfDefaultBps |-> pd, lossGivenDefaultBps |-> lgd,
                 active |-> TRUE, repaid |-> FALSE]
<1>1. loans' = [i \in DOMAIN loans \cup {Pool!nextLoanId} |->
                   IF i \in DOMAIN loans THEN loans[i] ELSE l]
  BY DEF Pool!IssueLoan
<1>2. n \in Nat /\ pd \in Nat /\ lgd \in Nat
  BY DEF Pool!SyndicateAssumption
<1>3. (n * 1200) \div Pool!BASIS_POINTS_DIVISOR \in Nat
  BY <1>2, QuotientNat, ProductNat DEF Pool!BASIS_POINTS_DIVISOR
<1>4. l \in Pool!Loan /\ l.principal = n /\ l.active = TRUE /\ l.repaid = FALSE
  BY <1>2, <1>3 DEF Pool!Loan
<1> HIDE DEF l
<1> QED BY <1>1, <1>4, NextIdIsNew

\* A repaid loan is closed, and nothing else changes about it.
LEMMA LoanRepaid ==
    ASSUME PoolInv, NEW a \in Accounts, NEW id \in DOMAIN loans, NEW s \in Nat,
           Pool!RepayLoan(a, id, s)
    PROVE  /\ DOMAIN loans' = DOMAIN loans
           /\ \A i \in DOMAIN loans : i # id => loans'[i] = loans[i]
           /\ loans'[id] \in Pool!Loan /\ loans'[id].principal = loans[id].principal
           /\ loans'[id].active = FALSE /\ loans'[id].repaid = TRUE
           /\ loans[id].active
<1>1. loans' = [loans EXCEPT ![id] = Pool!Settled(@)] /\ loans[id].active
  BY DEF Pool!RepayLoan
<1>2. loans[id] \in Pool!Loan
  BY DEF PoolInv, Pool!TypeOK
<1>3. /\ Pool!Settled(loans[id]) \in Pool!Loan
      /\ Pool!Settled(loans[id]).principal = loans[id].principal
      /\ Pool!Settled(loans[id]).active = FALSE /\ Pool!Settled(loans[id]).repaid = TRUE
  BY <1>2 DEF Pool!Settled, Pool!Loan
<1> QED BY <1>1, <1>3

LEMMA PoolInvKept ==
    ASSUME Pool!SyndicateAssumption, PoolInv, [Pool!Next]_(Pool!vars)
    PROVE  PoolInv'
<1>t. /\ wallet \in [Accounts -> Nat] /\ poolBalance \in Nat /\ totalShares \in Nat
      /\ shareBalance \in [Accounts -> Nat]
      /\ expectedLossCapBps \in 0 .. Pool!BASIS_POINTS_DIVISOR
      /\ DOMAIN loans = 0 .. Pool!nextLoanId - 1
      /\ \A i \in DOMAIN loans : loans[i] \in Pool!Loan /\ loans[i].repaid = ~loans[i].active
      /\ IsFiniteSet(DOMAIN loans)
  BY DEF PoolInv, Pool!TypeOK
<1>1. ASSUME NEW a \in Accounts, NEW n \in Nat, Pool!TransferFrom(a, n)
      PROVE  wallet' \in [Accounts -> Nat] /\ poolBalance' \in Nat
  BY <1>t, <1>1 DEF Pool!TransferFrom
<1>2. ASSUME NEW a \in Accounts, NEW n \in Nat, Pool!Transfer(a, n)
      PROVE  wallet' \in [Accounts -> Nat] /\ poolBalance' \in Nat
  BY <1>t, <1>2 DEF Pool!Transfer
<1>3. ASSUME NEW a \in Accounts, NEW n \in Amounts, Pool!Deposit(a, n)
      PROVE  PoolInv'
  <2>1. n \in Nat
    BY DEF Pool!SyndicateAssumption
  <2>2. Pool!SharesToIssue(n) \in Nat
    BY <2>1, PoolIssued
  <2>3. totalShares' \in Nat /\ shareBalance' \in [Accounts -> Nat]
    BY <1>t, <1>3, <2>2 DEF Pool!Deposit
  <2>4. wallet' \in [Accounts -> Nat] /\ poolBalance' \in Nat
    BY <1>1, <1>3, <2>1 DEF Pool!Deposit
  <2> QED BY <1>t, <1>3, <2>3, <2>4 DEF Pool!Deposit, PoolInv, Pool!TypeOK, Pool!nextLoanId
<1>4. ASSUME NEW a \in Accounts, NEW n \in Burns \cup {shareBalance[a]}, Pool!Withdraw(a, n)
      PROVE  PoolInv'
  <2>1. n \in Nat /\ n > 0 /\ n <= totalShares /\ n <= shareBalance[a]
    BY <1>t, <1>4 DEF Pool!SyndicateAssumption, Pool!Withdraw
  <2>2. Pool!TokensToReturn(n) \in Nat
    BY <2>1, PoolReturned
  <2>3. totalShares' \in Nat /\ shareBalance' \in [Accounts -> Nat]
    BY <1>t, <1>4, <2>1 DEF Pool!Withdraw
  <2>4. wallet' \in [Accounts -> Nat] /\ poolBalance' \in Nat
    BY <1>2, <1>4, <2>2 DEF Pool!Withdraw
  <2> QED BY <1>t, <1>4, <2>3, <2>4 DEF Pool!Withdraw, PoolInv, Pool!TypeOK, Pool!nextLoanId
<1>5. ASSUME NEW a \in Accounts, NEW n \in Amounts, NEW pd \in RiskBps, NEW lgd \in RiskBps,
             Pool!IssueLoan(a, n, pd, lgd)
      PROVE  PoolInv'
  <2>1. n \in Nat
    BY DEF Pool!SyndicateAssumption
  <2>2. wallet' \in [Accounts -> Nat] /\ poolBalance' \in Nat
    BY <1>2, <1>5, <2>1 DEF Pool!IssueLoan
  <2> DEFINE k == Pool!nextLoanId
  <2>3. k \in Nat /\ k \notin DOMAIN loans
    BY NextIdIsNew
  <2>4. /\ DOMAIN loans' = DOMAIN loans \cup {k}
        /\ \A i \in DOMAIN loans : loans'[i] = loans[i]
        /\ loans'[k] \in Pool!Loan /\ loans'[k].active = TRUE /\ loans'[k].repaid = FALSE
    BY <1>5, LoanIssued
  <2>5. IsFiniteSet(DOMAIN loans') /\ Pool!nextLoanId' = k + 1
    <3>1. k = Cardinality(DOMAIN loans) /\ Pool!nextLoanId' = Cardinality(DOMAIN loans')
      BY SameSize DEF Pool!nextLoanId
    <3> HIDE DEF k
    <3>2. /\ IsFiniteSet(DOMAIN loans \cup {k})
          /\ Cardinality(DOMAIN loans \cup {k}) = Cardinality(DOMAIN loans) + 1
      BY <1>t, <2>3, FS_AddElement
    <3> QED BY <2>4, <3>1, <3>2
  <2> HIDE DEF k
  <2>6. DOMAIN loans' = 0 .. Pool!nextLoanId' - 1
    BY <1>t, <2>3, <2>4, <2>5 DEF k
  <2>7. \A i \in DOMAIN loans' : loans'[i] \in Pool!Loan /\ loans'[i].repaid = ~loans'[i].active
    BY <1>t, <2>4
  <2> QED BY <1>t, <1>5, <2>2, <2>5, <2>6, <2>7
          DEF Pool!IssueLoan, PoolInv, Pool!TypeOK
<1>6. ASSUME NEW a \in Accounts, NEW id \in DOMAIN loans, NEW s \in Surplus,
             Pool!RepayLoan(a, id, s)
      PROVE  PoolInv'
  <2>1. s \in Nat /\ loans[id].principal \in Nat /\ loans[id].interestDue \in Nat
    BY <1>t DEF Pool!SyndicateAssumption, Pool!Loan
  <2>2. Pool!Repayment(loans[id], s) \in Nat
    BY <2>1 DEF Pool!Repayment
  <2>3. wallet' \in [Accounts -> Nat] /\ poolBalance' \in Nat
    BY <1>1, <1>6, <2>2 DEF Pool!RepayLoan
  <2>4. /\ DOMAIN loans' = DOMAIN loans
        /\ \A i \in DOMAIN loans : i # id => loans'[i] = loans[i]
        /\ loans'[id] \in Pool!Loan /\ loans'[id].active = FALSE /\ loans'[id].repaid = TRUE
    BY <1>6, <2>1, LoanRepaid
  <2>5. DOMAIN loans' = 0 .. Pool!nextLoanId' - 1
    BY <1>t, <2>4 DEF Pool!nextLoanId
  <2>6. \A i \in DOMAIN loans' : loans'[i] \in Pool!Loan /\ loans'[i].repaid = ~loans'[i].active
    BY <1>t, <2>4
  <2> QED BY <1>t, <1>6, <2>3, <2>4, <2>5, <2>6
          DEF Pool!RepayLoan, PoolInv, Pool!TypeOK
<1>7. ASSUME NEW c \in Caps, Pool!SetExpectedLossCap(c)
      PROVE  PoolInv'
  <2>1. c \in Nat
    BY DEF Pool!SyndicateAssumption
  <2> QED BY <1>t, <1>7, <2>1
          DEF Pool!SetExpectedLossCap, PoolInv, Pool!TypeOK, Pool!nextLoanId,
              Pool!BASIS_POINTS_DIVISOR
<1>8. CASE UNCHANGED Pool!vars
  BY <1>t, <1>8 DEF Pool!vars, PoolInv, Pool!TypeOK, Pool!nextLoanId
<1> QED BY <1>3, <1>4, <1>5, <1>6, <1>7, <1>8 DEF Pool!Next

LEMMA PoolInvariance == ASSUME Pool!SyndicateAssumption PROVE Pool!Spec => []PoolInv
<1>1. Pool!Init => PoolInv
  <2> SUFFICES ASSUME Pool!Init PROVE PoolInv
    OBVIOUS
  <2>1. DOMAIN loans = {}
    BY DEF Pool!Init
  <2>2. IsFiniteSet(DOMAIN loans) /\ Pool!nextLoanId = 0
    BY <2>1, SameSize, FS_EmptySet DEF Pool!nextLoanId
  <2>3. Endowment \in Nat
    BY DEF Pool!SyndicateAssumption
  <2> QED BY <2>1, <2>2, <2>3
          DEF Pool!Init, PoolInv, Pool!TypeOK, Pool!BASIS_POINTS_DIVISOR
<1>2. PoolInv /\ [Pool!Next]_(Pool!vars) => PoolInv'
  BY PoolInvKept
<1> QED BY <1>1, <1>2, PTL DEF Pool!Spec

-----------------------------------------------------------------------------
(* What the pool owns *)

\* The claims on the borrowers are counted in tokens.
LEMMA AssetsNat ==
    ASSUME PoolInv
    PROVE  /\ Pool!Outstanding \subseteq DOMAIN loans /\ IsFiniteSet(Pool!Outstanding)
           /\ \A i \in DOMAIN loans : Owed[i] \in Nat
           /\ Total(Owed, Pool!Outstanding) \in Nat
           /\ Pool!Assets = poolBalance + Total(Owed, Pool!Outstanding)
<1>1. Pool!Outstanding \subseteq DOMAIN loans /\ IsFiniteSet(DOMAIN loans)
  BY DEF Pool!Outstanding, PoolInv
<1>2. IsFiniteSet(Pool!Outstanding)
  BY <1>1, FS_Subset
<1>3. \A i \in DOMAIN loans : Owed[i] \in Nat
  BY DEF PoolInv, Pool!TypeOK, Pool!Loan, Owed
<1>4. Total(Owed, Pool!Outstanding) \in Nat
  BY <1>1, <1>2, <1>3, TotalNat
<1>5. Pool!Assets = poolBalance + Total(Owed, Pool!Outstanding)
  BY SameTotal DEF Pool!Assets, Owed
<1> QED BY <1>1, <1>2, <1>3, <1>4, <1>5

\* Where no loan changes, the pool owns more or less by its tokens alone.
LEMMA ClaimsKept ==
    ASSUME PoolInv, UNCHANGED loans
    PROVE  \E c \in Nat : Pool!Assets = poolBalance + c /\ Pool!Assets' = poolBalance' + c
<1>1. Pool!Outstanding' = Pool!Outstanding /\ Owed' = Owed
  BY DEF Pool!Outstanding, Owed
<1>2. Pool!Assets' = poolBalance' + Total(Owed', Pool!Outstanding')
  BY SameTotal DEF Pool!Assets, Owed
<1> QED BY <1>1, <1>2, AssetsNat

\* With no loan outstanding, it owns its tokens.
LEMMA NoClaims ==
    ASSUME NEW f, NEW p \in Nat
    PROVE  p + Total(f, {}) = p
<1>1. Total(f, {}) = 0
  BY TotalEmpty
<1>2. \A t \in {0} : p + t = p
  OBVIOUS
<1> QED BY <1>1, <1>2

\* A loan paid out is owed.
LEMMA DrawdownKeepsAssets ==
    ASSUME Pool!SyndicateAssumption, PoolInv, PoolInv', NEW a \in Accounts, NEW n \in Amounts,
           NEW pd \in RiskBps, NEW lgd \in RiskBps, Pool!IssueLoan(a, n, pd, lgd)
    PROVE  Pool!Assets' = Pool!Assets
<1> DEFINE k == Pool!nextLoanId
           out == Pool!Outstanding
<1>1. n \in Nat /\ poolBalance \in Nat /\ poolBalance' = poolBalance - n
  BY DEF Pool!SyndicateAssumption, PoolInv, Pool!TypeOK, Pool!IssueLoan, Pool!Transfer
<1>2. k \notin DOMAIN loans /\ out \subseteq DOMAIN loans /\ IsFiniteSet(out)
  BY NextIdIsNew, AssetsNat
<1>3. /\ DOMAIN loans' = DOMAIN loans \cup {k}
      /\ \A i \in DOMAIN loans : loans'[i] = loans[i]
      /\ loans'[k].principal = n /\ loans'[k].active = TRUE
  BY LoanIssued
<1>4. Pool!Outstanding' = out \cup {k}
  BY <1>3 DEF Pool!Outstanding
<1>5. Owed'[k] = n /\ \A i \in out : Owed'[i] = Owed[i]
  BY <1>2, <1>3 DEF Owed
<1>6. \A i \in out : Owed[i] \in Nat
  BY <1>2, AssetsNat
<1> HIDE DEF k, out
<1>7. IsFiniteSet(out \cup {k}) /\ (out \cup {k}) \ {k} = out
  BY <1>2, FS_AddElement
<1>8. Total(Owed', out \cup {k}) = Owed'[k] + Total(Owed', out)
  <2>1. \A i \in out \cup {k} : Owed'[i] \in Nat
    BY <1>1, <1>5, <1>6
  <2> QED BY <1>7, <2>1, TotalTake
<1>9. Total(Owed', out) = Total(Owed, out)
  BY <1>2, <1>5, TotalSame
<1>10. Pool!Assets' = poolBalance' + Total(Owed', Pool!Outstanding')
  BY SameTotal DEF Pool!Assets, Owed
<1>11. Total(Owed, out) \in Nat /\ Pool!Assets = poolBalance + Total(Owed, out)
  BY AssetsNat DEF out
<1> QED BY <1>1, <1>4, <1>5, <1>8, <1>9, <1>10, <1>11

\* A repayment brings at least the claim it ends.
LEMMA RepaymentCoversClaim ==
    ASSUME Pool!SyndicateAssumption, PoolInv, PoolInv', NEW a \in Accounts,
           NEW id \in DOMAIN loans, NEW s \in Surplus, Pool!RepayLoan(a, id, s)
    PROVE  Pool!Assets' \in Nat /\ Pool!Assets' >= Pool!Assets
<1> DEFINE out == Pool!Outstanding
<1>1. s \in Nat /\ loans[id].principal \in Nat /\ loans[id].interestDue \in Nat
  BY DEF Pool!SyndicateAssumption, PoolInv, Pool!TypeOK, Pool!Loan
<1>2. /\ poolBalance \in Nat
      /\ poolBalance' = poolBalance + loans[id].principal + loans[id].interestDue + s
  BY <1>1 DEF PoolInv, Pool!TypeOK, Pool!RepayLoan, Pool!TransferFrom, Pool!Repayment
<1>3. /\ DOMAIN loans' = DOMAIN loans
      /\ \A i \in DOMAIN loans : i # id => loans'[i] = loans[i]
      /\ loans'[id].principal = loans[id].principal
      /\ loans'[id].active = FALSE /\ loans[id].active
  BY <1>1, LoanRepaid
<1>4. id \in out /\ Pool!Outstanding' = out \ {id}
  BY <1>3 DEF Pool!Outstanding
<1>5. Owed[id] = loans[id].principal /\ \A i \in DOMAIN loans : Owed'[i] = Owed[i]
  BY <1>3 DEF Owed
<1>6. /\ out \subseteq DOMAIN loans /\ IsFiniteSet(out)
      /\ \A i \in out : Owed[i] \in Nat
  BY AssetsNat
<1>7. Pool!Assets' = poolBalance' + Total(Owed', Pool!Outstanding')
  BY SameTotal DEF Pool!Assets, Owed
<1>8. Pool!Assets = poolBalance + Total(Owed, out)
  BY AssetsNat
<1> HIDE DEF out
<1>9. IsFiniteSet(out \ {id}) /\ out \ {id} \subseteq DOMAIN loans
  BY <1>6, FS_Subset
<1>10. Total(Owed, out) = Owed[id] + Total(Owed, out \ {id})
  BY <1>4, <1>6, TotalTake
<1>11. Total(Owed', out \ {id}) = Total(Owed, out \ {id})
  BY <1>5, <1>9, TotalSame
<1>12. Total(Owed, out \ {id}) \in Nat
  <2>1. \A i \in out \ {id} : Owed[i] \in Nat
    BY <1>6
  <2> QED BY <1>9, <2>1, TotalNat
<1> QED BY <1>1, <1>2, <1>4, <1>5, <1>7, <1>8, <1>10, <1>11, <1>12

\* What one call does to the pool's value and to its shares.
LEMMA ValueStep ==
    ASSUME Pool!SyndicateAssumption, PoolInv, PoolInv', Pool!Assets' \in Nat,
           [Pool!Next]_(Pool!vars)
    PROVE  \/ /\ totalShares' = totalShares /\ Pool!Assets' >= Pool!Assets
           \/ /\ UNCHANGED loans
              /\ \E n \in Nat : /\ poolBalance' = poolBalance + n
                               /\ totalShares' = totalShares + Pool!SharesToIssue(n)
           \/ /\ UNCHANGED loans
              /\ \E n \in Nat : /\ n > 0 /\ n <= totalShares
                               /\ totalShares' = totalShares - n
                               /\ Pool!TokensToReturn(n) <= poolBalance
                               /\ poolBalance' = poolBalance - Pool!TokensToReturn(n)
<1>n. /\ totalShares \in Nat /\ poolBalance \in Nat /\ poolBalance' \in Nat
      /\ Pool!Assets \in Nat
  <2>1. totalShares \in Nat /\ poolBalance \in Nat /\ poolBalance' \in Nat
    BY DEF PoolInv, Pool!TypeOK
  <2> QED BY <2>1, AssetsNat
<1>1. ASSUME NEW a \in Accounts, NEW n \in Amounts, Pool!Deposit(a, n)
      PROVE  /\ UNCHANGED loans
             /\ \E m \in Nat : /\ poolBalance' = poolBalance + m
                              /\ totalShares' = totalShares + Pool!SharesToIssue(m)
  BY <1>1 DEF Pool!SyndicateAssumption, Pool!Deposit, Pool!TransferFrom
<1>2. ASSUME NEW a \in Accounts, NEW n \in Burns \cup {shareBalance[a]}, Pool!Withdraw(a, n)
      PROVE  /\ UNCHANGED loans
             /\ \E m \in Nat : /\ m > 0 /\ m <= totalShares
                              /\ totalShares' = totalShares - m
                              /\ Pool!TokensToReturn(m) <= poolBalance
                              /\ poolBalance' = poolBalance - Pool!TokensToReturn(m)
  <2>1. n \in Nat /\ n > 0 /\ n <= totalShares /\ totalShares' = totalShares - n
    BY <1>n, <1>2 DEF Pool!SyndicateAssumption, Pool!Withdraw, PoolInv, Pool!TypeOK
  <2>2. Pool!TokensToReturn(n) \in Nat
    BY <2>1, PoolReturned
  <2>3. /\ Pool!TokensToReturn(n) <= poolBalance
        /\ poolBalance' = poolBalance - Pool!TokensToReturn(n)
        /\ UNCHANGED loans
    BY <1>n, <1>2, <2>2 DEF Pool!Withdraw, Pool!Transfer
  <2> QED BY <2>1, <2>3
<1>3. ASSUME NEW a \in Accounts, NEW n \in Amounts, NEW pd \in RiskBps, NEW lgd \in RiskBps,
             Pool!IssueLoan(a, n, pd, lgd)
      PROVE  totalShares' = totalShares /\ Pool!Assets' >= Pool!Assets
  <2>1. Pool!Assets' = Pool!Assets
    BY <1>3, DrawdownKeepsAssets
  <2> QED BY <1>n, <1>3, <2>1 DEF Pool!IssueLoan
<1>4. ASSUME NEW a \in Accounts, NEW id \in DOMAIN loans, NEW s \in Surplus,
             Pool!RepayLoan(a, id, s)
      PROVE  totalShares' = totalShares /\ Pool!Assets' >= Pool!Assets
  <2>1. Pool!Assets' >= Pool!Assets
    BY <1>4, RepaymentCoversClaim
  <2> QED BY <1>4, <2>1 DEF Pool!RepayLoan
<1>5. ASSUME UNCHANGED <<poolBalance, totalShares, loans>>
      PROVE  totalShares' = totalShares /\ Pool!Assets' >= Pool!Assets
  BY <1>n, <1>5, ClaimsKept
<1>6. ASSUME NEW c \in Caps, Pool!SetExpectedLossCap(c)
      PROVE  UNCHANGED <<poolBalance, totalShares, loans>>
  BY <1>6 DEF Pool!SetExpectedLossCap
<1>7. CASE UNCHANGED Pool!vars
  BY <1>5, <1>7 DEF Pool!vars
<1> QED BY <1>1, <1>2, <1>3, <1>4, <1>5, <1>6, <1>7 DEF Pool!Next

PoolWorth == PoolInv /\ Pool!Assets \in Nat

LEMMA AssetsInvariance ==
    ASSUME Pool!SyndicateAssumption PROVE Pool!Spec => []PoolWorth
<1>1. PoolInv => PoolWorth
  BY AssetsNat DEF PoolInv, PoolWorth, Pool!TypeOK
<1> QED BY <1>1, PoolInvariance, PTL

\* What the pool owns shrinks only when shares are burned.
THEOREM SyndicateAssetsKept ==
    ASSUME Pool!SyndicateAssumption
    PROVE  Pool!Spec => Pool!AssetsLeaveOnlyToHolders
<1>1. ASSUME PoolWorth, PoolWorth', [Pool!Next]_(Pool!vars)
      PROVE  Pool!Assets' < Pool!Assets => totalShares' < totalShares
  <2>1. totalShares \in Nat /\ poolBalance \in Nat /\ poolBalance' \in Nat
    BY <1>1 DEF PoolWorth, PoolInv, Pool!TypeOK
  <2>3. ASSUME NEW n \in Nat, UNCHANGED loans, poolBalance' = poolBalance + n
        PROVE  Pool!Assets' >= Pool!Assets
    BY <1>1, <2>1, <2>3, ClaimsKept DEF PoolWorth
  <2>4. ASSUME NEW n \in Nat, n > 0, totalShares' = totalShares - n
        PROVE  totalShares' < totalShares
    BY <2>1, <2>4
  <2> QED BY <1>1, <2>3, <2>4, ValueStep DEF PoolWorth
<1>2. PoolWorth /\ PoolWorth' /\ [Pool!Next]_(Pool!vars)
      => (Pool!Assets' < Pool!Assets => totalShares' < totalShares)
  BY <1>1
<1> QED BY <1>2, AssetsInvariance, PTL DEF Pool!Spec, Pool!AssetsLeaveOnlyToHolders

\* With no loan outstanding, no call takes value from the shares that stay.
THEOREM SyndicateValueKept ==
    ASSUME Pool!SyndicateAssumption
    PROVE  Pool!Spec => Pool!ValueFallsOnlyWithLoansOut
<1>1. ASSUME PoolWorth, PoolWorth', [Pool!Next]_(Pool!vars), Pool!Outstanding = {}, totalShares # 0
      PROVE  Pool!Assets * totalShares' <= Pool!Assets' * totalShares
  <2>1. totalShares \in Nat /\ poolBalance \in Nat /\ poolBalance' \in Nat
    BY <1>1 DEF PoolWorth, PoolInv, Pool!TypeOK
  <2>2. Pool!Assets = poolBalance
    BY <1>1, <2>1, AssetsNat, NoClaims DEF PoolWorth
  <2>3. ASSUME UNCHANGED loans PROVE Pool!Assets' = poolBalance'
    <3>1. Pool!Outstanding' = {}
      BY <1>1, <2>3 DEF Pool!Outstanding
    <3>2. Pool!Assets' = poolBalance' + Total(Owed', Pool!Outstanding')
      BY SameTotal DEF Pool!Assets, Owed
    <3> QED BY <2>1, <3>1, <3>2, NoClaims
  <2>4. CASE totalShares' = totalShares /\ Pool!Assets' >= Pool!Assets
    BY <1>1, <2>1, <2>4, ProductMonotone DEF PoolWorth
  <2>5. ASSUME NEW n \in Nat, UNCHANGED loans, poolBalance' = poolBalance + n,
               totalShares' = totalShares + Pool!SharesToIssue(n)
        PROVE  Pool!Assets * totalShares' <= Pool!Assets' * totalShares
    <3> DEFINE s == Pool!SharesToIssue(n)
    <3>1. s \in Nat /\ s * poolBalance <= n * totalShares
      BY <1>1, <2>1, PoolIssued DEF PoolWorth
    <3>2. poolBalance * (totalShares + s) <= (poolBalance + n) * totalShares
      BY <2>1, <3>1, IssueKeepsPrice
    <3> QED BY <2>2, <2>3, <2>5, <3>2
  <2>6. ASSUME NEW n \in Nat, UNCHANGED loans, n > 0, n <= totalShares,
               totalShares' = totalShares - n, Pool!TokensToReturn(n) <= poolBalance,
               poolBalance' = poolBalance - Pool!TokensToReturn(n)
        PROVE  Pool!Assets * totalShares' <= Pool!Assets' * totalShares
    <3> DEFINE t == Pool!TokensToReturn(n)
    <3>1. t \in 0 .. poolBalance /\ t * totalShares <= n * poolBalance
      BY <1>1, <2>1, <2>6, PoolReturned DEF PoolWorth
    <3>2. n \in 0 .. totalShares
      BY <2>1, <2>6
    <3> HIDE DEF t
    <3>3. poolBalance * (totalShares - n) <= (poolBalance - t) * totalShares
      BY <2>1, <3>1, <3>2, RedeemKeepsPrice
    <3> QED BY <2>2, <2>3, <2>6, <3>3 DEF t
  <2> QED BY <1>1, <2>4, <2>5, <2>6, ValueStep DEF PoolWorth
<1>2. PoolWorth /\ PoolWorth' /\ [Pool!Next]_(Pool!vars)
      => (Pool!Outstanding = {} => Pool!Assets * totalShares' <= Pool!Assets' * totalShares
                                      \/ totalShares = 0)
  BY <1>1
<1> QED BY <1>2, AssetsInvariance, PTL DEF Pool!Spec, Pool!ValueFallsOnlyWithLoansOut

-----------------------------------------------------------------------------
(* The shares of the pool *)

LEMMA PoolSharesNext ==
    ASSUME Pool!SyndicateAssumption, PoolInv, PoolInv', Pool!SharesAddUp,
           [Pool!Next]_(Pool!vars)
    PROVE  Pool!SharesAddUp'
<1>t. /\ shareBalance \in [Accounts -> Nat] /\ shareBalance' \in [Accounts -> Nat]
      /\ totalShares \in Nat /\ totalShares' \in Nat
      /\ IsFiniteSet(Accounts)
      /\ totalShares = Total(shareBalance, Accounts)
  BY SameTotal DEF PoolInv, Pool!TypeOK, Pool!SyndicateAssumption, Pool!SharesAddUp,
       Pool!IsFiniteSet, IsFiniteSet
<1>1. ASSUME NEW a \in Accounts, totalShares' + shareBalance[a] = totalShares + shareBalance'[a],
             \A x \in Accounts : x # a => shareBalance'[x] = shareBalance[x]
      PROVE  totalShares' = Total(shareBalance', Accounts)
  <2>1. Total(shareBalance', Accounts) + shareBalance[a]
           = Total(shareBalance, Accounts) + shareBalance'[a]
    BY <1>t, <1>1, TotalChanged
  <2>2. Total(shareBalance', Accounts) \in Nat
    BY <1>t, TotalNat
  <2> QED BY <1>t, <1>1, <2>1, <2>2
<1>2. ASSUME NEW a \in Accounts, NEW n \in Amounts, Pool!Deposit(a, n)
      PROVE  totalShares' = Total(shareBalance', Accounts)
  <2>1. n \in Nat
    BY DEF Pool!SyndicateAssumption
  <2>2. Pool!SharesToIssue(n) \in Nat
    BY <2>1, PoolIssued
  <2>3. /\ totalShares' = totalShares + Pool!SharesToIssue(n)
        /\ shareBalance' = [shareBalance EXCEPT ![a] = @ + Pool!SharesToIssue(n)]
    BY <1>2 DEF Pool!Deposit
  <2>4. /\ shareBalance'[a] = shareBalance[a] + Pool!SharesToIssue(n)
        /\ shareBalance[a] \in Nat
        /\ \A x \in Accounts : x # a => shareBalance'[x] = shareBalance[x]
    BY <1>t, <2>3
  <2>5. totalShares' + shareBalance[a] = totalShares + shareBalance'[a]
    BY <1>t, <2>2, <2>3, <2>4
  <2> QED BY <1>1, <2>4, <2>5
<1>3. ASSUME NEW a \in Accounts, NEW n \in Burns \cup {shareBalance[a]}, Pool!Withdraw(a, n)
      PROVE  totalShares' = Total(shareBalance', Accounts)
  <2>1. n \in Nat
    BY <1>t DEF Pool!SyndicateAssumption
  <2>2. /\ totalShares' = totalShares - n
        /\ shareBalance' = [shareBalance EXCEPT ![a] = @ - n]
    BY <1>3 DEF Pool!Withdraw
  <2>3. /\ shareBalance'[a] = shareBalance[a] - n /\ shareBalance[a] \in Nat
        /\ \A x \in Accounts : x # a => shareBalance'[x] = shareBalance[x]
    BY <1>t, <2>2
  <2>4. totalShares' + shareBalance[a] = totalShares + shareBalance'[a]
    BY <1>t, <2>1, <2>2, <2>3
  <2> QED BY <1>1, <2>3, <2>4
<1>4. ASSUME UNCHANGED <<totalShares, shareBalance>>
      PROVE  totalShares' = Total(shareBalance', Accounts)
  BY <1>t, <1>4
<1>5. totalShares' = Total(shareBalance', Accounts)
  BY <1>2, <1>3, <1>4
     DEF Pool!Next, Pool!IssueLoan, Pool!RepayLoan, Pool!SetExpectedLossCap, Pool!vars
<1> QED BY <1>5, SameTotal DEF Pool!SharesAddUp

\* The shares of the providers add up to totalShares.
THEOREM SyndicateShares ==
    ASSUME Pool!SyndicateAssumption
    PROVE  Pool!Spec => []Pool!SharesAddUp
<1>1. Pool!Init => Pool!SharesAddUp
  <2> SUFFICES ASSUME Pool!Init PROVE Pool!SharesAddUp
    OBVIOUS
  <2>1. \A a \in Accounts : shareBalance[a] = 0
    BY DEF Pool!Init
  <2>2. IsFiniteSet(Accounts)
    BY DEF Pool!SyndicateAssumption, Pool!IsFiniteSet, IsFiniteSet
  <2>3. Total(shareBalance, Accounts) = 0
    BY <2>1, <2>2, TotalZero
  <2> QED BY <2>3, SameTotal DEF Pool!SharesAddUp, Pool!Init
<1>2. PoolInv /\ PoolInv' /\ Pool!SharesAddUp /\ [Pool!Next]_(Pool!vars) => Pool!SharesAddUp'
  BY PoolSharesNext
<1> QED BY <1>1, <1>2, PoolInvariance, PTL DEF Pool!Spec
=============================================================================
