---------------------- MODULE RwaCollateralVault_proofs ----------------------
(***************************************************************************)
(* Proofs about RwaCollateralVault for any accounts, assets, prices, LTV   *)
(* limits and amounts.                                                     *)
(***************************************************************************)
EXTENDS RwaCollateralVault, NatArithmetic

-----------------------------------------------------------------------------
(* Arithmetic of health and seizure *)

LEMMA HealthNat ==
    ASSUME NEW v \in Vault, NEW s \in RwaAsset, HealthDefined(v, s)
    PROVE  HealthFactor(v, s) \in Nat
<1> DEFINE value == (v.collateralShares * s.unitPriceUsd) \div s.totalShares
           allowed == (value * s.maxLtvBps) \div 10000
<1>1. CASE v.borrowedAmountUsd = 0
  BY <1>1 DEF HealthFactor, BASIS_POINTS_DIVISOR
<1>2. CASE v.borrowedAmountUsd # 0
  <2>1. /\ v.collateralShares \in Nat /\ v.borrowedAmountUsd \in Nat /\ v.borrowedAmountUsd > 0
        /\ s.totalShares \in Nat /\ s.totalShares > 0
        /\ s.unitPriceUsd \in Nat /\ s.maxLtvBps \in Nat
    BY <1>2 DEF Vault, RwaAsset, HealthDefined
  <2>2. value \in Nat
    BY <2>1, ProductNat, QuotientNat
  <2>3. allowed \in Nat
    <3> HIDE DEF value
    <3> QED BY <2>1, <2>2, ProductNat, QuotientNat
  <2>4. (allowed * 10000) \div v.borrowedAmountUsd \in Nat
    <3> HIDE DEF allowed
    <3> QED BY <2>1, <2>3, ProductNat, QuotientNat
  <2> QED BY <1>2, <2>4 DEF HealthFactor, BASIS_POINTS_DIVISOR
<1> QED BY <1>1, <1>2

\* More collateral, or less debt, never lowers the health factor.
LEMMA HealthMonotone ==
    ASSUME NEW v \in Vault, NEW w \in Vault, NEW s \in RwaAsset,
           v.collateralShares <= w.collateralShares,
           w.borrowedAmountUsd <= v.borrowedAmountUsd,
           Healthy(v, s)
    PROVE  Healthy(w, s)
<1> DEFINE value(x) == (x.collateralShares * s.unitPriceUsd) \div s.totalShares
           allowed(x) == (value(x) * s.maxLtvBps) \div 10000
<1>1. CASE w.borrowedAmountUsd = 0
  BY <1>1 DEF Healthy, HealthDefined, HealthFactor, BASIS_POINTS_DIVISOR
<1>2. CASE w.borrowedAmountUsd # 0
  <2>1. /\ v.collateralShares \in Nat /\ w.collateralShares \in Nat
        /\ v.borrowedAmountUsd \in Nat /\ w.borrowedAmountUsd \in Nat
        /\ w.borrowedAmountUsd > 0 /\ v.borrowedAmountUsd > 0
        /\ s.unitPriceUsd \in Nat /\ s.maxLtvBps \in Nat /\ s.totalShares \in Nat
    BY <1>2 DEF Vault, RwaAsset
  <2>2. s.totalShares > 0
    BY <2>1 DEF Healthy, HealthDefined
  <2>3. /\ v.collateralShares * s.unitPriceUsd \in Nat
        /\ w.collateralShares * s.unitPriceUsd \in Nat
        /\ v.collateralShares * s.unitPriceUsd <= w.collateralShares * s.unitPriceUsd
    BY <2>1, ProductNat, ProductMonotone
  <2>4. value(v) \in Nat /\ value(w) \in Nat /\ value(v) <= value(w)
    BY <2>1, <2>2, <2>3, QuotientNat, QuotientMonotone
  <2>5. allowed(v) \in Nat /\ allowed(w) \in Nat /\ allowed(v) <= allowed(w)
    <3> HIDE DEF value
    <3>1. value(v) * s.maxLtvBps \in Nat /\ value(w) * s.maxLtvBps \in Nat
          /\ value(v) * s.maxLtvBps <= value(w) * s.maxLtvBps
      BY <2>1, <2>4, ProductNat, ProductMonotone
    <3> QED BY <3>1, QuotientNat, QuotientMonotone
  <2>6. (allowed(v) * 10000) \div v.borrowedAmountUsd >= 10000
    BY <2>1 DEF Healthy, HealthFactor, BASIS_POINTS_DIVISOR
  <2>7. (allowed(w) * 10000) \div w.borrowedAmountUsd >= 10000
    <3> HIDE DEF allowed
    <3>1. allowed(v) * 10000 \in Nat /\ allowed(w) * 10000 \in Nat
          /\ allowed(v) * 10000 <= allowed(w) * 10000
      BY <2>5
    <3>2. (allowed(v) * 10000) \div v.borrowedAmountUsd
              <= (allowed(w) * 10000) \div v.borrowedAmountUsd
      BY <2>1, <3>1, QuotientMonotone
    <3>3. (allowed(w) * 10000) \div v.borrowedAmountUsd
              <= (allowed(w) * 10000) \div w.borrowedAmountUsd
      BY <2>1, <3>1, QuotientAntitone
    <3>4. /\ (allowed(v) * 10000) \div v.borrowedAmountUsd \in Nat
          /\ (allowed(w) * 10000) \div v.borrowedAmountUsd \in Nat
          /\ (allowed(w) * 10000) \div w.borrowedAmountUsd \in Nat
      BY <2>1, <3>1, QuotientNat
    <3> QED BY <2>6, <3>2, <3>3, <3>4
  <2> QED BY <1>2, <2>2, <2>7 DEF Healthy, HealthDefined, HealthFactor, BASIS_POINTS_DIVISOR
<1> QED BY <1>1, <1>2

LEMMA SeizedNat ==
    ASSUME NEW s \in RwaAsset, NEW amount \in Nat, s.unitPriceUsd > 0
    PROVE  /\ SharesSeized(s, amount) \in Nat
           /\ SharesSeized(s, amount) * (s.unitPriceUsd * 10000)
                  <= (amount * 11000) * s.totalShares
<1> DEFINE value == (amount * 11000) \div 10000
           seized == (value * s.totalShares) \div s.unitPriceUsd
<1>1. s.totalShares \in Nat /\ s.unitPriceUsd \in Nat
  BY DEF RwaAsset
<1>2. value \in Nat /\ value * 10000 <= amount * 11000
  OBVIOUS
<1> HIDE DEF value
<1>3. value * s.totalShares \in Nat
  BY <1>1, <1>2, ProductNat
<1>4. seized \in Nat /\ seized * s.unitPriceUsd <= value * s.totalShares
  BY <1>1, <1>3, QuotientNat
<1>5. SharesSeized(s, amount) = seized
  BY DEF SharesSeized, value, BASIS_POINTS_DIVISOR, LIQUIDATION_BONUS_BPS
<1> HIDE DEF seized
<1>6. (seized * s.unitPriceUsd) * 10000 <= (value * s.totalShares) * 10000
  <2>1. seized * s.unitPriceUsd \in Nat
    BY <1>1, <1>4, ProductNat
  <2> QED BY <1>3, <1>4, <2>1
<1>7. (value * 10000) * s.totalShares <= (amount * 11000) * s.totalShares
  <2>1. value * 10000 \in Nat /\ amount * 11000 \in Nat
    BY <1>2
  <2> QED BY <1>1, <1>2, <2>1, ProductMonotone
<1>8. /\ seized * (s.unitPriceUsd * 10000) = (seized * s.unitPriceUsd) * 10000
      /\ (value * s.totalShares) * 10000 = (value * 10000) * s.totalShares
  BY <1>1, <1>2, <1>4
<1>9. seized * (s.unitPriceUsd * 10000) <= (amount * 11000) * s.totalShares
  <2>1. /\ seized * (s.unitPriceUsd * 10000) \in Nat
        /\ (value * 10000) * s.totalShares \in Nat
        /\ (amount * 11000) * s.totalShares \in Nat
    BY <1>1, <1>2, <1>4, ProductNat
  <2> QED BY <1>6, <1>7, <1>8, <2>1
<1> QED BY <1>4, <1>5, <1>9

\* A vault that covers debt and bonus keeps its collateral per unit of debt when amount
\* of its debt is repaid for the shares that seizes.
LEMMA SeizureKeepsCoverage ==
    ASSUME NEW v \in Vault, NEW s \in RwaAsset, NEW amount \in Nat, s.unitPriceUsd > 0,
           CoversBonus(v, s), amount <= v.borrowedAmountUsd,
           SharesSeized(s, amount) <= v.collateralShares
    PROVE  (v.collateralShares - SharesSeized(s, amount)) * v.borrowedAmountUsd
               >= v.collateralShares * (v.borrowedAmountUsd - amount)
<1> DEFINE C == v.collateralShares
           D == v.borrowedAmountUsd
           P == s.unitPriceUsd
           T == s.totalShares
           x == SharesSeized(s, amount)
<1>1. C \in Nat /\ D \in Nat /\ P \in Nat /\ T \in Nat /\ x \in Nat
  BY SeizedNat DEF Vault, RwaAsset
<1>2. x * (P * 10000) <= (amount * 11000) * T
  BY SeizedNat
<1>3. C * P * 10000 >= D * T * 11000
  BY DEF CoversBonus, BASIS_POINTS_DIVISOR, LIQUIDATION_BONUS_BPS
<1> HIDE DEF C, D, P, T, x
<1>4. (x * (P * 10000)) * D <= ((amount * 11000) * T) * D
  <2>1. x * (P * 10000) \in Nat /\ (amount * 11000) * T \in Nat
    BY <1>1, ProductNat
  <2> QED BY <1>1, <1>2, <2>1, ProductMonotone
<1>5. (D * T * 11000) * amount <= (C * P * 10000) * amount
  <2>1. C * P * 10000 \in Nat /\ D * T * 11000 \in Nat
    BY <1>1, ProductNat
  <2> QED BY <1>1, <1>3, <2>1, ProductMonotone
<1>6. /\ (x * (P * 10000)) * D = (x * D) * (P * 10000)
      /\ ((amount * 11000) * T) * D = (D * T * 11000) * amount
      /\ (C * P * 10000) * amount = (C * amount) * (P * 10000)
  BY <1>1
<1>7. (x * D) * (P * 10000) <= (C * amount) * (P * 10000)
  <2>1. (x * D) * (P * 10000) \in Nat /\ (D * T * 11000) * amount \in Nat
        /\ (C * amount) * (P * 10000) \in Nat
    BY <1>1, ProductNat
  <2> QED BY <1>4, <1>5, <1>6, <2>1
<1>8. x * D <= C * amount
  <2>1. x * D \in Nat /\ C * amount \in Nat /\ P * 10000 \in Nat /\ P * 10000 > 0
    BY <1>1, ProductNat DEF P
  <2> QED BY <1>7, <2>1, ProductCancels
<1>9. /\ (C - x) * D = C * D - x * D
      /\ C * (D - amount) = C * D - C * amount
  BY <1>1
<1>10. (C - x) * D >= C * (D - amount)
  <2>1. C * D \in Nat /\ x * D \in Nat /\ C * amount \in Nat
    BY <1>1, ProductNat
  <2> QED BY <1>8, <1>9, <2>1
<1> QED BY <1>10 DEF C, D, x

-----------------------------------------------------------------------------
(* Types, and what holds of an asset nobody minted *)

LEMMA VaultUpdated ==
    ASSUME TypeOK, NEW u \in Accounts, NEW a \in AssetIds, NEW w \in Vault,
           vaults' = [vaults EXCEPT ![u][a] = w]
    PROVE  /\ vaults' \in [Accounts -> [AssetIds -> Vault]]
           /\ vaults'[u][a] = w
           /\ \A x \in Accounts, b \in AssetIds : x # u \/ b # a => vaults'[x][b] = vaults[x][b]
BY DEF TypeOK

LEMMA BalanceUpdated ==
    ASSUME NEW f \in [Accounts -> [AssetIds -> Nat]], NEW u \in Accounts, NEW a \in AssetIds,
           NEW n \in Nat
    PROVE  [f EXCEPT ![u][a] = n] \in [Accounts -> [AssetIds -> Nat]]
OBVIOUS

LEMMA VaultTyped ==
    ASSUME NEW v \in Vault, NEW c \in Nat, NEW d \in Nat
    PROVE  /\ [v EXCEPT !.collateralShares = c] \in Vault
           /\ [v EXCEPT !.borrowedAmountUsd = d] \in Vault
           /\ [v EXCEPT !.collateralShares = c, !.borrowedAmountUsd = d] \in Vault
BY DEF Vault

LEMMA Held ==
    ASSUME TypeOK, NEW u \in Accounts, NEW a \in AssetIds
    PROVE  /\ rwaAssets[a] \in RwaAsset
           /\ vaults[u][a] \in Vault
           /\ vaults[u][a].collateralShares \in Nat
           /\ vaults[u][a].borrowedAmountUsd \in Nat
           /\ balances[u][a] \in Nat
BY DEF TypeOK, Vault

\* What one transaction does to the vaults: at most one changes, into w.
Changes(u, a, w) ==
    /\ w \in Vault
    /\ vaults' = [vaults EXCEPT ![u][a] = w]
    /\ rwaAssets' = rwaAssets
    /\ balances' \in [Accounts -> [AssetIds -> Nat]]

LEMMA DepositChanges ==
    ASSUME TypeOK, NEW u \in Accounts, NEW a \in AssetIds, NEW n \in Nat,
           DepositCollateral(u, a, n)
    PROVE  Changes(u, a, [vaults[u][a] EXCEPT !.collateralShares = @ + n])
<1>1. balances[u][a] - n \in Nat /\ vaults[u][a].collateralShares + n \in Nat
  BY Held DEF DepositCollateral
<1>2. vaults' = [vaults EXCEPT ![u][a] =
                    [vaults[u][a] EXCEPT !.collateralShares = vaults[u][a].collateralShares + n]]
  BY Held DEF DepositCollateral, TypeOK, Vault
<1>3. balances' = [balances EXCEPT ![u][a] = balances[u][a] - n] /\ rwaAssets' = rwaAssets
  BY DEF DepositCollateral
<1> QED BY <1>1, <1>2, <1>3, BalanceUpdated, Held, VaultTyped DEF TypeOK, Changes

LEMMA WithdrawChanges ==
    ASSUME TypeOK, NEW u \in Accounts, NEW a \in AssetIds, NEW n \in Nat,
           WithdrawCollateral(u, a, n)
    PROVE  Changes(u, a, [vaults[u][a] EXCEPT !.collateralShares = @ - n])
<1>1. balances[u][a] + n \in Nat /\ vaults[u][a].collateralShares - n \in Nat
  BY Held DEF WithdrawCollateral
<1>2. vaults' = [vaults EXCEPT ![u][a] =
                    [vaults[u][a] EXCEPT !.collateralShares = vaults[u][a].collateralShares - n]]
  BY Held DEF WithdrawCollateral, TypeOK, Vault
<1>3. balances' = [balances EXCEPT ![u][a] = balances[u][a] + n] /\ rwaAssets' = rwaAssets
  BY DEF WithdrawCollateral
<1> QED BY <1>1, <1>2, <1>3, BalanceUpdated, Held, VaultTyped DEF TypeOK, Changes

LEMMA BorrowChanges ==
    ASSUME TypeOK, NEW u \in Accounts, NEW a \in AssetIds, NEW n \in Nat, Borrow(u, a, n)
    PROVE  Changes(u, a, [vaults[u][a] EXCEPT !.borrowedAmountUsd = @ + n])
<1>1. vaults[u][a].borrowedAmountUsd + n \in Nat
  BY Held
<1>2. vaults' = [vaults EXCEPT ![u][a] =
                    [vaults[u][a] EXCEPT !.borrowedAmountUsd = vaults[u][a].borrowedAmountUsd + n]]
  BY Held DEF Borrow, TypeOK, Vault
<1>3. balances' = balances /\ rwaAssets' = rwaAssets
  BY DEF Borrow
<1> QED BY <1>1, <1>2, <1>3, Held, VaultTyped DEF TypeOK, Changes

LEMMA RepayChanges ==
    ASSUME TypeOK, NEW u \in Accounts, NEW a \in AssetIds, NEW n \in Nat, Repay(u, a, n)
    PROVE  Changes(u, a, [vaults[u][a] EXCEPT !.borrowedAmountUsd = @ - n])
<1>1. vaults[u][a].borrowedAmountUsd - n \in Nat
  BY Held DEF Repay
<1>2. vaults' = [vaults EXCEPT ![u][a] =
                    [vaults[u][a] EXCEPT !.borrowedAmountUsd = vaults[u][a].borrowedAmountUsd - n]]
  BY Held DEF Repay, TypeOK, Vault
<1>3. balances' = balances /\ rwaAssets' = rwaAssets
  BY DEF Repay
<1> QED BY <1>1, <1>2, <1>3, Held, VaultTyped DEF TypeOK, Changes

LEMMA LiquidateChanges ==
    ASSUME TypeOK, NEW l \in Accounts, NEW u \in Accounts, NEW a \in AssetIds, NEW n \in Nat,
           Liquidate(l, u, a, n)
    PROVE  /\ Unhealthy(vaults[u][a], rwaAssets[a])
           /\ rwaAssets[a].unitPriceUsd > 0
           /\ n <= vaults[u][a].borrowedAmountUsd
           /\ SharesSeized(rwaAssets[a], n) \in Nat
           /\ SharesSeized(rwaAssets[a], n) <= vaults[u][a].collateralShares
           /\ Changes(u, a, [vaults[u][a] EXCEPT
                  !.collateralShares = @ - SharesSeized(rwaAssets[a], n),
                  !.borrowedAmountUsd = @ - n])
<1> DEFINE x == SharesSeized(rwaAssets[a], n)
<1>1. /\ Unhealthy(vaults[u][a], rwaAssets[a])
      /\ rwaAssets[a].unitPriceUsd > 0
      /\ n <= vaults[u][a].borrowedAmountUsd \div 2
      /\ x <= vaults[u][a].collateralShares
      /\ rwaAssets' = rwaAssets
      /\ balances' = [balances EXCEPT ![l][a] = @ + x]
      /\ vaults' = [vaults EXCEPT ![u][a].collateralShares = @ - x,
                                  ![u][a].borrowedAmountUsd = @ - n]
  BY DEF Liquidate
<1>2. x \in Nat
  BY <1>1, Held, SeizedNat
<1> HIDE DEF x
<1>3. n <= vaults[u][a].borrowedAmountUsd
  BY <1>1, Held
<1>4. /\ vaults[u][a].collateralShares - x \in Nat
      /\ vaults[u][a].borrowedAmountUsd - n \in Nat
      /\ balances[l][a] + x \in Nat
  BY <1>1, <1>2, <1>3, Held
<1>5. vaults' = [vaults EXCEPT ![u][a] =
                    [vaults[u][a] EXCEPT !.collateralShares = vaults[u][a].collateralShares - x,
                                         !.borrowedAmountUsd = vaults[u][a].borrowedAmountUsd - n]]
  BY <1>1, Held DEF TypeOK, Vault
<1>6. balances' \in [Accounts -> [AssetIds -> Nat]]
  BY <1>1, <1>4, BalanceUpdated DEF TypeOK
<1>7. Changes(u, a, [vaults[u][a] EXCEPT !.collateralShares = @ - x, !.borrowedAmountUsd = @ - n])
  BY <1>1, <1>4, <1>5, <1>6, Held, VaultTyped DEF Changes
<1> QED BY <1>1, <1>2, <1>3, <1>7 DEF x

-----------------------------------------------------------------------------
(* The kinds of transaction *)

\* A deposit into an active asset or a repayment.
Raised(v, w, s) ==
    /\ v.collateralShares <= w.collateralShares
    /\ w.borrowedAmountUsd <= v.borrowedAmountUsd
    /\ w.collateralShares # v.collateralShares => s.active

\* A withdrawal or a loan: the vault ends up healthy.
Lowered(v, w, s) ==
    /\ w.collateralShares <= v.collateralShares
    /\ v.borrowedAmountUsd <= w.borrowedAmountUsd
    /\ v.borrowedAmountUsd # w.borrowedAmountUsd => v.collateralShares > 0
    /\ Healthy(w, s)

Liquidated(v, w, s) ==
    /\ Unhealthy(v, s)
    /\ s.unitPriceUsd > 0
    /\ \E n \in Nat : /\ n <= v.borrowedAmountUsd
                      /\ SharesSeized(s, n) <= v.collateralShares
                      /\ w.collateralShares = v.collateralShares - SharesSeized(s, n)
                      /\ w.borrowedAmountUsd = v.borrowedAmountUsd - n

VaultMoves(u, a, w) ==
    /\ Changes(u, a, w)
    /\ \/ Raised(vaults[u][a], w, rwaAssets[a])
       \/ Lowered(vaults[u][a], w, rwaAssets[a])
       \/ Liquidated(vaults[u][a], w, rwaAssets[a])

LEMMA Moved ==
    ASSUME TypeOK, NEW u \in Accounts, NEW a \in AssetIds, NEW w \in Vault, VaultMoves(u, a, w)
    PROVE  /\ rwaAssets' = rwaAssets
           /\ vaults' \in [Accounts -> [AssetIds -> Vault]]
           /\ vaults'[u][a] = w
           /\ \A x \in Accounts, b \in AssetIds : x # u \/ b # a => vaults'[x][b] = vaults[x][b]
<1>1. vaults' = [vaults EXCEPT ![u][a] = w] /\ rwaAssets' = rwaAssets
  BY DEF VaultMoves, Changes
<1>2. vaults' \in [Accounts -> [AssetIds -> Vault]] /\ vaults'[u][a] = w
  BY <1>1, VaultUpdated
<1>3. \A x \in Accounts, b \in AssetIds : x # u \/ b # a => vaults'[x][b] = vaults[x][b]
  BY <1>1 DEF TypeOK
<1> QED BY <1>1, <1>2, <1>3

MovesAVault == \E u \in Accounts, a \in AssetIds, w \in Vault : VaultMoves(u, a, w)

Mints == \E a \in AssetIds, n \in MintShares, p \in Prices, ltv \in LtvLimits :
             MintRwaAsset(a, n, p, ltv)

Reprices == \E a \in AssetIds, p \in Prices : UpdateOraclePrice(a, p)

Transfers == \E u \in Accounts, to \in Accounts, a \in AssetIds : \E n \in 0 .. balances[u][a] :
                 TransferShares(u, to, a, n)

LEMMA Kinds ==
    ASSUME TypeOK, Next
    PROVE  Mints \/ Reprices \/ Transfers \/ MovesAVault
<1>1. PICK a \in AssetIds :
        \/ \E n \in MintShares, p \in Prices, ltv \in LtvLimits : MintRwaAsset(a, n, p, ltv)
        \/ \E p \in Prices : UpdateOraclePrice(a, p)
        \/ \E u \in Accounts :
              \/ \E to \in Accounts, n \in 0 .. balances[u][a] : TransferShares(u, to, a, n)
              \/ \E n \in 0 .. balances[u][a] : DepositCollateral(u, a, n)
              \/ \E n \in 0 .. vaults[u][a].collateralShares : WithdrawCollateral(u, a, n)
              \/ \E n \in Loans : Borrow(u, a, n)
              \/ \E n \in 0 .. vaults[u][a].borrowedAmountUsd : Repay(u, a, n)
              \/ \E b \in Accounts : \E n \in 0 .. vaults[b][a].borrowedAmountUsd :
                    Liquidate(u, b, a, n)
  BY DEF Next
<1>2. CASE \E n \in MintShares, p \in Prices, ltv \in LtvLimits : MintRwaAsset(a, n, p, ltv)
  BY <1>2 DEF Mints
<1>3. CASE \E p \in Prices : UpdateOraclePrice(a, p)
  BY <1>3 DEF Reprices
<1>4. ASSUME NEW u \in Accounts,
             \E to \in Accounts, n \in 0 .. balances[u][a] : TransferShares(u, to, a, n)
      PROVE  Transfers
  BY <1>4 DEF Transfers
<1>5. ASSUME NEW u \in Accounts, NEW n \in 0 .. balances[u][a], DepositCollateral(u, a, n)
      PROVE  MovesAVault
  <2> DEFINE v == vaults[u][a]
             w == [v EXCEPT !.collateralShares = @ + n]
  <2>1. n \in Nat /\ v \in Vault
    BY Held
  <2>2. Changes(u, a, w)
    BY <1>5, <2>1, DepositChanges
  <2>3. w \in Vault /\ w.collateralShares = v.collateralShares + n
        /\ w.borrowedAmountUsd = v.borrowedAmountUsd
    BY <2>1, <2>2 DEF Changes, Vault
  <2>4. Raised(v, w, rwaAssets[a])
    BY <1>5, <2>1, <2>3, Held DEF Raised, DepositCollateral
  <2> QED BY <2>2, <2>3, <2>4 DEF MovesAVault, VaultMoves
<1>6. ASSUME NEW u \in Accounts, NEW n \in 0 .. vaults[u][a].collateralShares,
             WithdrawCollateral(u, a, n)
      PROVE  MovesAVault
  <2> DEFINE v == vaults[u][a]
             w == [v EXCEPT !.collateralShares = @ - n]
  <2>1. n \in Nat /\ v \in Vault
    BY Held
  <2>2. Changes(u, a, w)
    BY <1>6, <2>1, WithdrawChanges
  <2>3. w \in Vault /\ w.collateralShares = v.collateralShares - n
        /\ w.borrowedAmountUsd = v.borrowedAmountUsd
    BY <2>1, <2>2 DEF Changes, Vault
  <2>4. vaults'[u][a] = w
    BY <2>2, <2>3, VaultUpdated DEF Changes
  <2>5. Lowered(v, w, rwaAssets[a])
    BY <1>6, <2>1, <2>3, <2>4, Held DEF Lowered, WithdrawCollateral
  <2> QED BY <2>2, <2>3, <2>5 DEF MovesAVault, VaultMoves
<1>7. ASSUME NEW u \in Accounts, NEW n \in Loans, Borrow(u, a, n) PROVE MovesAVault
  <2> DEFINE v == vaults[u][a]
             w == [v EXCEPT !.borrowedAmountUsd = @ + n]
  <2>1. n \in Nat /\ v \in Vault
    BY Held, VaultAssumption
  <2>2. Changes(u, a, w)
    BY <1>7, <2>1, BorrowChanges
  <2>3. w \in Vault /\ w.collateralShares = v.collateralShares
        /\ w.borrowedAmountUsd = v.borrowedAmountUsd + n
    BY <2>1, <2>2 DEF Changes, Vault
  <2>4. vaults'[u][a] = w
    BY <2>2, <2>3, VaultUpdated DEF Changes
  <2>5. Lowered(v, w, rwaAssets[a])
    BY <1>7, <2>1, <2>3, <2>4, Held DEF Lowered, Borrow
  <2> QED BY <2>2, <2>3, <2>5 DEF MovesAVault, VaultMoves
<1>8. ASSUME NEW u \in Accounts, NEW n \in 0 .. vaults[u][a].borrowedAmountUsd, Repay(u, a, n)
      PROVE  MovesAVault
  <2> DEFINE v == vaults[u][a]
             w == [v EXCEPT !.borrowedAmountUsd = @ - n]
  <2>1. n \in Nat /\ v \in Vault
    BY Held
  <2>2. Changes(u, a, w)
    BY <1>8, <2>1, RepayChanges
  <2>3. w \in Vault /\ w.collateralShares = v.collateralShares
        /\ w.borrowedAmountUsd = v.borrowedAmountUsd - n
    BY <2>1, <2>2 DEF Changes, Vault
  <2>4. Raised(v, w, rwaAssets[a])
    BY <2>1, <2>3, Held DEF Raised
  <2> QED BY <2>2, <2>3, <2>4 DEF MovesAVault, VaultMoves
<1>9. ASSUME NEW l \in Accounts, NEW u \in Accounts,
             NEW n \in 0 .. vaults[u][a].borrowedAmountUsd, Liquidate(l, u, a, n)
      PROVE  MovesAVault
  <2> DEFINE v == vaults[u][a]
             x == SharesSeized(rwaAssets[a], n)
             w == [v EXCEPT !.collateralShares = @ - x, !.borrowedAmountUsd = @ - n]
  <2>1. n \in Nat /\ v \in Vault
    BY Held
  <2>2. /\ Unhealthy(v, rwaAssets[a]) /\ rwaAssets[a].unitPriceUsd > 0
        /\ n <= v.borrowedAmountUsd /\ x <= v.collateralShares /\ Changes(u, a, w)
    BY <1>9, <2>1, LiquidateChanges
  <2> HIDE DEF x
  <2>3. w \in Vault /\ w.collateralShares = v.collateralShares - x
        /\ w.borrowedAmountUsd = v.borrowedAmountUsd - n
    BY <2>1, <2>2 DEF Changes, Vault
  <2>4. Liquidated(v, w, rwaAssets[a])
    BY <2>1, <2>2, <2>3 DEF Liquidated, x
  <2> QED BY <2>2, <2>3, <2>4 DEF MovesAVault, VaultMoves
<1> QED BY <1>1, <1>2, <1>3, <1>4, <1>5, <1>6, <1>7, <1>8, <1>9

-----------------------------------------------------------------------------
(* The inductive invariant *)

\* An active asset has its id, except id 0, and nobody has a vault before the mint.
VaultInv ==
    /\ TypeOK
    /\ \A a \in AssetIds \ {0} :
          /\ rwaAssets[a].active => rwaAssets[a].id # 0
          /\ rwaAssets[a].id = 0 => \A u \in Accounts : /\ vaults[u][a].collateralShares = 0
                                                        /\ vaults[u][a].borrowedAmountUsd = 0

LEMMA VaultInit == Init => VaultInv
BY DEF Init, VaultInv, TypeOK, RwaAsset, Vault

LEMMA VaultNext == VaultInv /\ [Next]_vars => VaultInv'
<1> SUFFICES ASSUME VaultInv, [Next]_vars PROVE VaultInv'
  OBVIOUS
<1>t. TypeOK
  BY DEF VaultInv
<1>1. CASE UNCHANGED vars
  BY <1>1 DEF vars, VaultInv, TypeOK
<1>2. CASE Mints
  <2>1. PICK a \in AssetIds, n \in MintShares, p \in Prices, ltv \in LtvLimits :
            MintRwaAsset(a, n, p, ltv)
    BY <1>2 DEF Mints
  <2>2. n \in Nat /\ p \in Nat /\ ltv \in Nat /\ a \in Nat
    BY VaultAssumption
  <2>3. [id |-> a, totalShares |-> n, unitPriceUsd |-> p, maxLtvBps |-> ltv, active |-> TRUE]
            \in RwaAsset
    BY <2>2 DEF RwaAsset
  <2>4. balances' \in [Accounts -> [AssetIds -> Nat]]
    BY <1>t, <2>1, <2>2, BalanceUpdated, VaultAssumption DEF MintRwaAsset, TypeOK
  <2>5. TypeOK'
    BY <1>t, <2>1, <2>3, <2>4 DEF MintRwaAsset, TypeOK
  <2>6. \A b \in AssetIds : b # a => rwaAssets'[b] = rwaAssets[b]
    BY <1>t, <2>1 DEF MintRwaAsset, TypeOK
  <2>7. rwaAssets'[a].id = a
    BY <1>t, <2>1 DEF MintRwaAsset, TypeOK
  <2>8. vaults' = vaults
    BY <2>1 DEF MintRwaAsset
  <2> QED BY <2>5, <2>6, <2>7, <2>8 DEF VaultInv
<1>3. CASE Reprices
  <2>1. PICK a \in AssetIds, p \in Prices : UpdateOraclePrice(a, p)
    BY <1>3 DEF Reprices
  <2>2. p \in Nat
    BY VaultAssumption
  <2>3. TypeOK' /\ vaults' = vaults
    <3>1. rwaAssets[a] \in RwaAsset
      BY <1>t DEF TypeOK
    <3>2. [rwaAssets[a] EXCEPT !.unitPriceUsd = p] \in RwaAsset
      BY <2>2, <3>1 DEF RwaAsset
    <3> QED BY <1>t, <2>1, <3>2 DEF UpdateOraclePrice, TypeOK
  <2>4. \A b \in AssetIds : /\ rwaAssets'[b].id = rwaAssets[b].id
                            /\ rwaAssets'[b].active = rwaAssets[b].active
    BY <1>t, <2>1 DEF UpdateOraclePrice, TypeOK, RwaAsset
  <2> QED BY <2>3, <2>4 DEF VaultInv
<1>4. CASE Transfers
  <2>1. PICK u \in Accounts, to \in Accounts, a \in AssetIds : \E n \in 0 .. balances[u][a] :
            TransferShares(u, to, a, n)
    BY <1>4 DEF Transfers
  <2>2. PICK n \in 0 .. balances[u][a] : TransferShares(u, to, a, n)
    BY <2>1
  <2>3. n \in Nat /\ balances[u][a] - n \in Nat
    BY <1>t, Held
  <2> DEFINE debited == [balances EXCEPT ![u][a] = balances[u][a] - n]
  <2>4. debited \in [Accounts -> [AssetIds -> Nat]]
    BY <1>t, <2>3, BalanceUpdated DEF TypeOK
  <2>5. balances' = [debited EXCEPT ![to][a] = debited[to][a] + n]
    BY <2>2 DEF TransferShares
  <2> HIDE DEF debited
  <2>6. debited[to][a] + n \in Nat
    BY <2>3, <2>4
  <2>7. balances' \in [Accounts -> [AssetIds -> Nat]]
    BY <2>4, <2>5, <2>6, BalanceUpdated
  <2>8. rwaAssets' = rwaAssets /\ vaults' = vaults
    BY <2>2 DEF TransferShares
  <2> QED BY <2>7, <2>8 DEF VaultInv, TypeOK
<1>5. CASE MovesAVault
  <2>1. PICK u \in Accounts, a \in AssetIds, w \in Vault : VaultMoves(u, a, w)
    BY <1>5 DEF MovesAVault
  <2>2. /\ vaults' \in [Accounts -> [AssetIds -> Vault]]
        /\ vaults'[u][a] = w
        /\ \A x \in Accounts, b \in AssetIds : x # u \/ b # a => vaults'[x][b] = vaults[x][b]
    BY <1>t, <2>1, Moved
  <2>3. TypeOK' /\ rwaAssets' = rwaAssets
    BY <1>t, <2>1, <2>2 DEF VaultMoves, Changes, TypeOK
  <2>4. CASE a = 0
    BY <2>2, <2>3, <2>4 DEF VaultInv
  <2>5. CASE a # 0 /\ rwaAssets[a].id = 0
    <3>1. /\ vaults[u][a].collateralShares = 0 /\ vaults[u][a].borrowedAmountUsd = 0
          /\ rwaAssets[a].active = FALSE
      BY <1>t, <2>5 DEF VaultInv, TypeOK, RwaAsset
    <3>2. w.collateralShares \in Nat /\ w.borrowedAmountUsd \in Nat
      BY DEF Vault
    <3>3. w.collateralShares = 0 /\ w.borrowedAmountUsd = 0
      <4>1. CASE Raised(vaults[u][a], w, rwaAssets[a])
        BY <3>1, <3>2, <4>1 DEF Raised
      <4>2. CASE Lowered(vaults[u][a], w, rwaAssets[a])
        BY <3>1, <3>2, <4>2 DEF Lowered
      <4>3. CASE Liquidated(vaults[u][a], w, rwaAssets[a])
        BY <3>1, <4>3 DEF Liquidated, Unhealthy, HealthFactor, BASIS_POINTS_DIVISOR
      <4> QED BY <2>1, <4>1, <4>2, <4>3 DEF VaultMoves
    <3> QED BY <2>2, <2>3, <3>3 DEF VaultInv
  <2>6. CASE a # 0 /\ rwaAssets[a].id # 0
    BY <2>2, <2>3, <2>6 DEF VaultInv
  <2> QED BY <2>4, <2>5, <2>6
<1> QED BY <1>t, <1>1, <1>2, <1>3, <1>4, <1>5, Kinds

-----------------------------------------------------------------------------
(* The shares of an asset add up *)

HeldBy(a) == [u \in Accounts |-> balances[u][a] + vaults[u][a].collateralShares]

\* Nothing was minted of an asset without an id.
UnmintedEmpty == \A a \in AssetIds \ {0} : rwaAssets[a].id = 0 => rwaAssets[a].totalShares = 0

SharesInv == TypeOK /\ UnmintedEmpty /\ SharesConserved

LEMMA HeldTyped ==
    ASSUME TypeOK, NEW a \in AssetIds
    PROVE  /\ HeldBy(a) \in [Accounts -> Nat]
           /\ HeldShares(a) = Total(HeldBy(a), Accounts)
           /\ HeldShares(a) \in Nat
<1>1. \A u \in Accounts : balances[u][a] + vaults[u][a].collateralShares \in Nat
  BY Held
<1>2. HeldBy(a) \in [Accounts -> Nat]
  BY <1>1 DEF HeldBy
<1>3. HeldShares(a) = Total(HeldBy(a), Accounts)
  BY DEF HeldShares, HeldBy
<1>4. Total(HeldBy(a), Accounts) \in Nat
  BY <1>2, TotalNat, VaultAssumption
<1> QED BY <1>2, <1>3, <1>4

\* Each account holds of an asset what it held before.
HoldingsKept(a) == \A u \in Accounts :
    balances'[u][a] + vaults'[u][a].collateralShares
        = balances[u][a] + vaults[u][a].collateralShares

LEMMA KeptHoldings ==
    ASSUME NEW a \in AssetIds, HoldingsKept(a)
    PROVE  HeldShares(a)' = HeldShares(a)
<1>1. [u \in Accounts |-> balances'[u][a] + vaults'[u][a].collateralShares]
        = [u \in Accounts |-> balances[u][a] + vaults[u][a].collateralShares]
  BY DEF HoldingsKept
<1> QED BY <1>1 DEF HeldShares

\* One account gives n shares of an asset to another, or to itself.
HoldingsMoved(a, y, z, n) ==
    LET m == [HeldBy(a) EXCEPT ![y] = HeldBy(a)[y] - n]
    IN n <= HeldBy(a)[y] /\ HeldBy(a)' = [m EXCEPT ![z] = m[z] + n]

LEMMA MovedHoldings ==
    ASSUME TypeOK, NEW a \in AssetIds, NEW y \in Accounts, NEW z \in Accounts, NEW n \in Nat,
           HoldingsMoved(a, y, z, n)
    PROVE  HeldShares(a)' = HeldShares(a)
<1> DEFINE m == [HeldBy(a) EXCEPT ![y] = HeldBy(a)[y] - n]
           g == [m EXCEPT ![z] = m[z] + n]
<1>1. HeldBy(a)' = g /\ n <= HeldBy(a)[y]
  BY DEF HoldingsMoved
<1>2. HeldBy(a) \in [Accounts -> Nat] /\ HeldShares(a) = Total(HeldBy(a), Accounts)
  BY HeldTyped
<1>3. HeldShares(a)' = Total(HeldBy(a)', Accounts)
  BY DEF HeldShares, HeldBy
<1>4. IsFiniteSet(Accounts)
  BY VaultAssumption
<1> DEFINE f == HeldBy(a)
<1>5. f \in [Accounts -> Nat] /\ n <= f[y]
  BY <1>1, <1>2
<1> HIDE DEF f
<1>6. /\ m \in [Accounts -> Nat] /\ m[y] + n = f[y]
      /\ \A x \in Accounts : x # y => f[x] = m[x]
  BY <1>5 DEF f
<1> HIDE DEF m
<1>7. /\ g \in [Accounts -> Nat] /\ g[z] = m[z] + n
      /\ \A x \in Accounts : x # z => m[x] = g[x]
  BY <1>6
<1> HIDE DEF g
<1>8. \A x \in Accounts : f[x] \in Nat /\ m[x] \in Nat /\ g[x] \in Nat
  BY <1>5, <1>6, <1>7
<1>9. Total(m, Accounts) + f[y] = Total(f, Accounts) + m[y]
  BY <1>4, <1>6, <1>8, TotalChanged
<1>10. Total(g, Accounts) + m[z] = Total(m, Accounts) + g[z]
  BY <1>4, <1>7, <1>8, TotalChanged
<1>11. Total(f, Accounts) \in Nat /\ Total(m, Accounts) \in Nat /\ Total(g, Accounts) \in Nat
  BY <1>4, <1>8, TotalNat
<1>12. Total(g, Accounts) = Total(f, Accounts)
  BY <1>6, <1>7, <1>8, <1>9, <1>10, <1>11
<1> QED BY <1>1, <1>2, <1>3, <1>12 DEF f, g

\* A step that keeps every register keeps their sums.
LEMMA SumsKept ==
    ASSUME SharesInv, TypeOK',
           \A a \in AssetIds : /\ rwaAssets'[a].id = rwaAssets[a].id
                               /\ rwaAssets'[a].totalShares = rwaAssets[a].totalShares,
           \A a \in AssetIds : HeldShares(a)' = HeldShares(a)
    PROVE  SharesInv'
BY DEF SharesInv, UnmintedEmpty, SharesConserved

LEMMA SharesInit == Init => SharesInv
<1> SUFFICES ASSUME Init PROVE SharesInv
  OBVIOUS
<1>1. TypeOK
  BY VaultInit DEF VaultInv
<1>2. ASSUME NEW a \in AssetIds PROVE HeldShares(a) = 0
  <2>1. \A u \in Accounts : HeldBy(a)[u] = 0
    BY DEF Init, HeldBy
  <2> QED BY <1>1, <2>1, HeldTyped, TotalZero, VaultAssumption
<1>3. \A a \in AssetIds : rwaAssets[a].totalShares = 0
  BY DEF Init
<1> QED BY <1>1, <1>2, <1>3 DEF SharesInv, UnmintedEmpty, SharesConserved

LEMMA MintKeepsSums ==
    ASSUME SharesInv, TypeOK', NEW a \in AssetIds, NEW n \in MintShares, NEW p \in Prices,
           NEW ltv \in LtvLimits, MintRwaAsset(a, n, p, ltv)
    PROVE  SharesInv'
<1>t. TypeOK /\ n \in Nat /\ owner \in Accounts /\ IsFiniteSet(Accounts)
  BY VaultAssumption DEF SharesInv
<1>1. /\ \A b \in AssetIds : b # a => rwaAssets'[b] = rwaAssets[b]
      /\ rwaAssets'[a].id = a
      /\ rwaAssets'[a].totalShares = n
      /\ rwaAssets[a].id = 0
      /\ vaults' = vaults
      /\ balances' = [balances EXCEPT ![owner][a] = n]
  BY <1>t DEF MintRwaAsset, TypeOK
<1>2. ASSUME NEW b \in AssetIds, b # a PROVE HeldShares(b)' = HeldShares(b)
  <2>1. \A u \in Accounts : balances'[u][b] = balances[u][b]
    BY <1>t, <1>1, <1>2 DEF TypeOK
  <2> QED BY <1>1, <2>1, KeptHoldings DEF HoldingsKept
<1>3. CASE a = 0
  BY <1>1, <1>2, <1>3 DEF SharesInv, UnmintedEmpty, SharesConserved
<1>4. CASE a # 0
  <2>1. HeldShares(a) = 0
    BY <1>1, <1>4 DEF SharesInv, UnmintedEmpty, SharesConserved
  <2>2. HeldBy(a) \in [Accounts -> Nat] /\ Total(HeldBy(a), Accounts) = 0
    BY <1>t, <2>1, HeldTyped
  <2>3. HeldBy(a)[owner] <= 0
    BY <1>t, <2>2, TotalPart
  <2>4. /\ HeldBy(a)[owner] = 0
        /\ balances[owner][a] + vaults[owner][a].collateralShares = 0
    BY <1>t, <2>2, <2>3 DEF HeldBy
  <2>5. vaults[owner][a].collateralShares = 0
    BY <1>t, <2>4, Held
  <2>6. HeldBy(a)'[owner] = n
    BY <1>t, <1>1, <2>5 DEF HeldBy, TypeOK
  <2>7. \A u \in Accounts : u # owner => HeldBy(a)[u] = HeldBy(a)'[u]
    BY <1>t, <1>1 DEF HeldBy, TypeOK
  <2>8. HeldBy(a)' \in [Accounts -> Nat] /\ HeldShares(a)' = Total(HeldBy(a)', Accounts)
    <3>1. \A u \in Accounts : balances'[u][a] + vaults'[u][a].collateralShares \in Nat
      BY DEF TypeOK, Vault
    <3> QED BY <3>1 DEF HeldBy, HeldShares
  <2> DEFINE f == HeldBy(a)
             g == HeldBy(a)'
  <2> HIDE DEF f, g
  <2>9. /\ f[owner] = 0 /\ g[owner] = n
        /\ \A u \in Accounts : f[u] \in Nat /\ g[u] \in Nat
        /\ \A u \in Accounts : u # owner => f[u] = g[u]
        /\ Total(f, Accounts) = 0
    BY <2>2, <2>4, <2>6, <2>7, <2>8 DEF f, g
  <2>10. Total(g, Accounts) + 0 = 0 + n
    BY <1>t, <2>9, TotalChanged
  <2>11. HeldShares(a)' = n
    <3>1. Total(g, Accounts) \in Nat
      BY <1>t, <2>9, TotalNat
    <3> QED BY <1>t, <2>8, <2>10, <3>1 DEF g
  <2> QED BY <1>1, <1>2, <1>4, <2>11 DEF SharesInv, UnmintedEmpty, SharesConserved
<1> QED BY <1>3, <1>4

\* Deposits, withdrawals, loans and repayments leave an account what it holds.
LEMMA OwnHoldings ==
    ASSUME TypeOK, NEW u \in Accounts, NEW a \in AssetIds, NEW n \in Nat,
           \/ DepositCollateral(u, a, n) \/ WithdrawCollateral(u, a, n)
           \/ Borrow(u, a, n) \/ Repay(u, a, n),
           NEW b \in AssetIds
    PROVE  HoldingsKept(b)
<1> SUFFICES ASSUME NEW x \in Accounts
             PROVE  balances'[x][b] + vaults'[x][b].collateralShares
                        = balances[x][b] + vaults[x][b].collateralShares
  BY DEF HoldingsKept
<1>1. /\ balances[x][b] \in Nat /\ vaults[x][b].collateralShares \in Nat
      /\ balances[u][a] \in Nat /\ vaults[u][a].collateralShares \in Nat
  BY Held
<1>2. CASE DepositCollateral(u, a, n)
  <2>1. /\ balances'[x][b] = IF x = u /\ b = a THEN balances[u][a] - n ELSE balances[x][b]
        /\ vaults'[x][b].collateralShares = IF x = u /\ b = a
                THEN vaults[u][a].collateralShares + n ELSE vaults[x][b].collateralShares
    BY <1>2 DEF DepositCollateral, TypeOK, Vault
  <2> QED BY <1>1, <2>1
<1>3. CASE WithdrawCollateral(u, a, n)
  <2>1. /\ balances'[x][b] = IF x = u /\ b = a THEN balances[u][a] + n ELSE balances[x][b]
        /\ vaults'[x][b].collateralShares = IF x = u /\ b = a
                THEN vaults[u][a].collateralShares - n ELSE vaults[x][b].collateralShares
    BY <1>3 DEF WithdrawCollateral, TypeOK, Vault
  <2> QED BY <1>1, <2>1
<1>4. CASE Borrow(u, a, n)
  <2>1. balances' = balances /\ vaults'[x][b].collateralShares = vaults[x][b].collateralShares
    BY <1>4 DEF Borrow, TypeOK, Vault
  <2> QED BY <2>1
<1>5. CASE Repay(u, a, n)
  <2>1. balances' = balances /\ vaults'[x][b].collateralShares = vaults[x][b].collateralShares
    BY <1>5 DEF Repay, TypeOK, Vault
  <2> QED BY <2>1
<1> QED BY <1>2, <1>3, <1>4, <1>5

\* A transfer moves the amount between free balances, also when the sender is the recipient.
LEMMA TransferredHoldings ==
    ASSUME TypeOK, NEW u \in Accounts, NEW to \in Accounts, NEW a \in AssetIds, NEW n \in Nat,
           TransferShares(u, to, a, n)
    PROVE  HoldingsMoved(a, u, to, n)
<1> DEFINE debited == [balances EXCEPT ![u][a] = balances[u][a] - n]
           m == [HeldBy(a) EXCEPT ![u] = HeldBy(a)[u] - n]
           g == [m EXCEPT ![to] = m[to] + n]
<1>1. n <= balances[u][a] /\ vaults' = vaults
      /\ balances' = [debited EXCEPT ![to][a] = debited[to][a] + n]
  BY DEF TransferShares
<1>2. \A x \in Accounts : /\ balances[x][a] \in Nat /\ vaults[x][a].collateralShares \in Nat
                          /\ HeldBy(a)[x] = balances[x][a] + vaults[x][a].collateralShares
  BY Held DEF HeldBy
<1>3. n <= HeldBy(a)[u]
  BY <1>1, <1>2
<1>4. \A x \in Accounts : balances'[x][a] = (IF x = u THEN balances[x][a] - n ELSE balances[x][a])
                                            + (IF x = to THEN n ELSE 0)
  BY <1>1, <1>2 DEF TypeOK
<1>5. \A x \in Accounts : g[x] = (IF x = u THEN HeldBy(a)[x] - n ELSE HeldBy(a)[x])
                                 + (IF x = to THEN n ELSE 0)
  BY <1>2 DEF HeldBy
<1>6. \A x \in Accounts : HeldBy(a)'[x] = balances'[x][a] + vaults'[x][a].collateralShares
  BY DEF HeldBy
<1> HIDE DEF m, g
<1>7. ASSUME NEW x \in Accounts PROVE HeldBy(a)'[x] = g[x]
  <2>1. vaults'[x][a].collateralShares = vaults[x][a].collateralShares
    BY <1>1
  <2>2. HeldBy(a)'[x] = balances'[x][a] + vaults[x][a].collateralShares
    BY <1>6, <2>1
  <2> QED BY <1>2, <1>4, <1>5, <2>2
<1>8. HeldBy(a)' = g
  <2>1. g = [x \in Accounts |-> g[x]]
    BY DEF g, m, HeldBy
  <2>2. HeldBy(a)' = [x \in Accounts |-> HeldBy(a)'[x]]
    BY DEF HeldBy
  <2> QED BY <1>7, <2>1, <2>2
<1> QED BY <1>3, <1>8 DEF HoldingsMoved, m, g

\* A liquidation moves the seized shares from the borrower's vault to the free balance of
\* the liquidator, who may be the borrower.
LEMMA SeizedHoldings ==
    ASSUME TypeOK, NEW l \in Accounts, NEW u \in Accounts, NEW a \in AssetIds, NEW n \in Nat,
           Liquidate(l, u, a, n)
    PROVE  HoldingsMoved(a, u, l, SharesSeized(rwaAssets[a], n))
<1> DEFINE s == SharesSeized(rwaAssets[a], n)
           m == [HeldBy(a) EXCEPT ![u] = HeldBy(a)[u] - s]
           g == [m EXCEPT ![l] = m[l] + s]
<1>1. /\ s \in Nat
      /\ s <= vaults[u][a].collateralShares
  BY LiquidateChanges
<1>2. /\ balances' = [balances EXCEPT ![l][a] = @ + s]
      /\ vaults' = [vaults EXCEPT ![u][a].collateralShares = @ - s,
                                  ![u][a].borrowedAmountUsd = @ - n]
  BY DEF Liquidate
<1> HIDE DEF s
<1>3. \A x \in Accounts : /\ balances[x][a] \in Nat /\ vaults[x][a].collateralShares \in Nat
                          /\ HeldBy(a)[x] = balances[x][a] + vaults[x][a].collateralShares
  BY Held DEF HeldBy
<1>4. s <= HeldBy(a)[u]
  BY <1>1, <1>3
<1>5. \A x \in Accounts : /\ balances'[x][a] = balances[x][a] + (IF x = l THEN s ELSE 0)
                          /\ vaults'[x][a].collateralShares = vaults[x][a].collateralShares
                                                            - (IF x = u THEN s ELSE 0)
  BY <1>1, <1>2, <1>3 DEF TypeOK, Vault
<1>6. \A x \in Accounts : g[x] = (IF x = u THEN HeldBy(a)[x] - s ELSE HeldBy(a)[x])
                                 + (IF x = l THEN s ELSE 0)
  BY <1>1, <1>3 DEF HeldBy
<1>7. \A x \in Accounts : HeldBy(a)'[x] = balances'[x][a] + vaults'[x][a].collateralShares
  BY DEF HeldBy
<1> HIDE DEF m, g
<1>8. \A x \in Accounts : HeldBy(a)'[x] = g[x]
  BY <1>1, <1>3, <1>5, <1>6, <1>7
<1>9. HeldBy(a)' = g
  <2>1. g = [x \in Accounts |-> g[x]]
    BY DEF g, m, HeldBy
  <2>2. HeldBy(a)' = [x \in Accounts |-> HeldBy(a)'[x]]
    BY DEF HeldBy
  <2> QED BY <1>8, <2>1, <2>2
<1> QED BY <1>4, <1>9 DEF HoldingsMoved, m, g, s

\* Where only asset a is touched, what everybody holds of another stays.
LEMMA OtherAssets ==
    ASSUME TypeOK, NEW u \in Accounts, NEW v \in Accounts, NEW a \in AssetIds, NEW n \in Nat,
           TransferShares(u, v, a, n) \/ Liquidate(u, v, a, n),
           NEW b \in AssetIds, b # a
    PROVE  HoldingsKept(b)
<1>1. CASE TransferShares(u, v, a, n)
  BY <1>1 DEF TransferShares, HoldingsKept, TypeOK
<1>2. CASE Liquidate(u, v, a, n)
  <2> DEFINE s == SharesSeized(rwaAssets[a], n)
  <2>1. /\ balances' = [balances EXCEPT ![u][a] = @ + s]
        /\ vaults' = [vaults EXCEPT ![v][a].collateralShares = @ - s,
                                    ![v][a].borrowedAmountUsd = @ - n]
    BY <1>2 DEF Liquidate
  <2> HIDE DEF s
  <2> QED BY <2>1 DEF HoldingsKept, TypeOK
<1> QED BY <1>1, <1>2

LEMMA SharesNext == SharesInv /\ TypeOK' /\ [Next]_vars => SharesInv'
<1> SUFFICES ASSUME SharesInv, TypeOK', [Next]_vars PROVE SharesInv'
  OBVIOUS
<1>t. TypeOK
  BY DEF SharesInv
<1>1. CASE UNCHANGED vars
  <2>1. \A a \in AssetIds : HeldShares(a)' = HeldShares(a)
    BY <1>1, KeptHoldings DEF vars, HoldingsKept
  <2> QED BY <1>1, <2>1, SumsKept DEF vars
<1>2. ASSUME NEW a \in AssetIds, NEW n \in MintShares, NEW p \in Prices, NEW ltv \in LtvLimits,
             MintRwaAsset(a, n, p, ltv)
      PROVE  SharesInv'
  BY <1>2, MintKeepsSums
<1>3. ASSUME NEW a \in AssetIds, NEW p \in Prices, UpdateOraclePrice(a, p)
      PROVE  SharesInv'
  <2>1. \A b \in AssetIds : HeldShares(b)' = HeldShares(b)
    BY <1>3, KeptHoldings DEF UpdateOraclePrice, HoldingsKept
  <2>2. \A b \in AssetIds : /\ rwaAssets'[b].id = rwaAssets[b].id
                            /\ rwaAssets'[b].totalShares = rwaAssets[b].totalShares
    BY <1>t, <1>3 DEF UpdateOraclePrice, TypeOK, RwaAsset
  <2> QED BY <2>1, <2>2, SumsKept
<1>4. ASSUME NEW u \in Accounts, NEW a \in AssetIds, NEW n \in Nat,
             \/ DepositCollateral(u, a, n) \/ WithdrawCollateral(u, a, n)
             \/ Borrow(u, a, n) \/ Repay(u, a, n)
      PROVE  SharesInv'
  <2>1. rwaAssets' = rwaAssets
    BY <1>4 DEF DepositCollateral, WithdrawCollateral, Borrow, Repay
  <2>2. \A b \in AssetIds : HeldShares(b)' = HeldShares(b)
    BY <1>t, <1>4, OwnHoldings, KeptHoldings
  <2> QED BY <2>1, <2>2, SumsKept
<1>5. ASSUME NEW u \in Accounts, NEW v \in Accounts, NEW a \in AssetIds, NEW n \in Nat,
             TransferShares(u, v, a, n) \/ Liquidate(u, v, a, n)
      PROVE  SharesInv'
  <2>1. rwaAssets' = rwaAssets
    BY <1>5 DEF TransferShares, Liquidate
  <2>2. HeldShares(a)' = HeldShares(a)
    <3>1. CASE TransferShares(u, v, a, n)
      BY <1>t, <3>1, TransferredHoldings, MovedHoldings
    <3>2. CASE Liquidate(u, v, a, n)
      <4>1. SharesSeized(rwaAssets[a], n) \in Nat
        BY <1>t, <3>2, LiquidateChanges
      <4> QED BY <1>t, <3>2, <4>1, SeizedHoldings, MovedHoldings
    <3> QED BY <1>5, <3>1, <3>2
  <2>3. \A b \in AssetIds : b # a => HeldShares(b)' = HeldShares(b)
    BY <1>t, <1>5, OtherAssets, KeptHoldings
  <2> QED BY <2>1, <2>2, <2>3, SumsKept
<1>6. CASE Next
  <2>1. \A u \in Accounts, a \in AssetIds :
            /\ \A n \in 0 .. balances[u][a] : n \in Nat
            /\ \A n \in 0 .. vaults[u][a].collateralShares : n \in Nat
            /\ \A n \in 0 .. vaults[u][a].borrowedAmountUsd : n \in Nat
    BY <1>t, Held
  <2>2. Loans \subseteq Nat
    BY VaultAssumption
  <2> QED BY <1>2, <1>3, <1>4, <1>5, <1>6, <2>1, <2>2 DEF Next
<1> QED BY <1>1, <1>6

\* Assets, balances and vaults stay in their types: no subtraction of the contract ever
\* goes below zero and no balance is lost to a failed division.
THEOREM TypeCorrect == Spec => []TypeOK
<1>1. VaultInv => TypeOK
  BY DEF VaultInv
<1> QED BY <1>1, VaultInit, VaultNext, PTL DEF Spec

\* The shares of a minted asset, those free and those in vaults, add up to what was minted,
\* for any set of accounts and any amounts.
THEOREM SharesAddUp == Spec => []SharesConserved
<1>1. VaultInv => TypeOK
  BY DEF VaultInv
<1>2. SharesInv => SharesConserved
  BY DEF SharesInv
<1> QED BY <1>1, <1>2, VaultInit, VaultNext, SharesInit, SharesNext, PTL DEF Spec

\* Only the oracle makes a healthy vault unhealthy, for any accounts, amounts, prices and
\* LTV limits, rounding included.
THEOREM OnlyTheOracle == Spec => OnlyOracleUnhealths
<1>1. ASSUME VaultInv, [Next]_vars, NEW u \in Accounts, NEW a \in AssetIds \ {0},
             Healthy(vaults[u][a], rwaAssets[a]), ~Healthy(vaults'[u][a], rwaAssets'[a])
      PROVE  rwaAssets'[a].unitPriceUsd # rwaAssets[a].unitPriceUsd
  <2>t. TypeOK
    BY <1>1 DEF VaultInv
  <2>0. vaults'[u][a] # vaults[u][a] \/ rwaAssets'[a] # rwaAssets[a]
    BY <1>1
  <2>1. CASE UNCHANGED vars
    BY <2>0, <2>1 DEF vars
  <2>2. CASE Mints
    <3>1. PICK b \in AssetIds, n \in MintShares, p \in Prices, ltv \in LtvLimits :
              MintRwaAsset(b, n, p, ltv)
      BY <2>2 DEF Mints
    <3>2. vaults' = vaults /\ \A c \in AssetIds : c # b => rwaAssets'[c] = rwaAssets[c]
      BY <2>t, <3>1 DEF MintRwaAsset, TypeOK
    <3>3. a = b /\ rwaAssets[a].id = 0
      BY <2>0, <3>1, <3>2 DEF MintRwaAsset
    <3>4. vaults'[u][a].borrowedAmountUsd = 0
      BY <1>1, <3>2, <3>3 DEF VaultInv
    <3> QED BY <1>1, <3>4 DEF Healthy, HealthDefined, HealthFactor, BASIS_POINTS_DIVISOR
  <2>3. CASE Reprices
    <3>1. PICK b \in AssetIds, p \in Prices : UpdateOraclePrice(b, p)
      BY <2>3 DEF Reprices
    <3>2. vaults' = vaults /\ rwaAssets' = [rwaAssets EXCEPT ![b].unitPriceUsd = p]
      BY <3>1 DEF UpdateOraclePrice
    <3>3. rwaAssets'[a] = [rwaAssets[a] EXCEPT !.unitPriceUsd = rwaAssets'[a].unitPriceUsd]
      BY <2>t, <3>2 DEF TypeOK, RwaAsset
    <3>4. rwaAssets'[a].unitPriceUsd = rwaAssets[a].unitPriceUsd => rwaAssets'[a] = rwaAssets[a]
      BY <2>t, <3>3 DEF TypeOK, RwaAsset
    <3> QED BY <2>0, <3>2, <3>4
  <2>4. CASE Transfers
    BY <2>0, <2>4 DEF Transfers, TransferShares
  <2>5. CASE MovesAVault
    <3>1. PICK x \in Accounts, b \in AssetIds, w \in Vault : VaultMoves(x, b, w)
      BY <2>5 DEF MovesAVault
    <3>2. /\ rwaAssets' = rwaAssets
          /\ vaults'[x][b] = w
          /\ \A y \in Accounts, c \in AssetIds : y # x \/ c # b => vaults'[y][c] = vaults[y][c]
      BY <2>t, <3>1, Moved
    <3>3. u = x /\ a = b
      BY <2>0, <3>2
    <3>4. ~Healthy(w, rwaAssets[a])
      BY <1>1, <3>2, <3>3
    <3>5. vaults[u][a] \in Vault /\ rwaAssets[a] \in RwaAsset
      BY <2>t, Held
    <3>6. CASE Raised(vaults[u][a], w, rwaAssets[a])
      BY <1>1, <3>4, <3>5, <3>6, HealthMonotone DEF Raised
    <3>7. CASE Lowered(vaults[u][a], w, rwaAssets[a])
      BY <3>4, <3>7 DEF Lowered
    <3>8. CASE Liquidated(vaults[u][a], w, rwaAssets[a])
      <4>1. HealthFactor(vaults[u][a], rwaAssets[a]) \in Nat
        BY <1>1, <3>5, HealthNat DEF Healthy
      <4> QED BY <1>1, <3>8, <4>1 DEF Liquidated, Unhealthy, Healthy, BASIS_POINTS_DIVISOR
    <3> QED BY <3>1, <3>3, <3>6, <3>7, <3>8 DEF VaultMoves
  <2> QED BY <1>1, <2>t, <2>1, <2>2, <2>3, <2>4, <2>5, Kinds
<1>2. VaultInv /\ [Next]_vars =>
          (\A u \in Accounts, a \in AssetIds \ {0} :
              /\ Healthy(vaults[u][a], rwaAssets[a])
              /\ ~Healthy(vaults'[u][a], rwaAssets'[a])
              => rwaAssets'[a].unitPriceUsd # rwaAssets[a].unitPriceUsd)
  BY <1>1
<1> QED BY <1>2, VaultInit, VaultNext, PTL DEF Spec, OnlyOracleUnhealths

\* A liquidation that comes while the collateral still covers debt and bonus never
\* lowers the collateral per unit of debt.
THEOREM CoverageKept == Spec => LiquidationKeepsCoverage
<1> DEFINE Kept(u, a) ==
        Unhealthy(vaults[u][a], rwaAssets[a]) /\ CoversBonus(vaults[u][a], rwaAssets[a])
            /\ vaults'[u][a].collateralShares < vaults[u][a].collateralShares
        => vaults'[u][a].collateralShares * vaults[u][a].borrowedAmountUsd
               >= vaults[u][a].collateralShares * vaults'[u][a].borrowedAmountUsd
<1>1. ASSUME VaultInv, [Next]_vars, NEW u \in Accounts, NEW a \in AssetIds \ {0},
             Unhealthy(vaults[u][a], rwaAssets[a]), CoversBonus(vaults[u][a], rwaAssets[a]),
             vaults'[u][a].collateralShares < vaults[u][a].collateralShares
      PROVE  vaults'[u][a].collateralShares * vaults[u][a].borrowedAmountUsd
                 >= vaults[u][a].collateralShares * vaults'[u][a].borrowedAmountUsd
  <2>t. TypeOK /\ vaults[u][a] \in Vault /\ rwaAssets[a] \in RwaAsset
        /\ vaults[u][a].collateralShares \in Nat /\ vaults[u][a].borrowedAmountUsd \in Nat
    BY <1>1, Held DEF VaultInv
  <2>0. vaults'[u][a] # vaults[u][a]
    BY <1>1, <2>t
  <2>1. CASE vaults' = vaults
    BY <2>0, <2>1
  <2>2. CASE MovesAVault
    <3>1. PICK x \in Accounts, b \in AssetIds, w \in Vault : VaultMoves(x, b, w)
      BY <2>2 DEF MovesAVault
    <3>2. /\ vaults'[x][b] = w
          /\ \A y \in Accounts, c \in AssetIds : y # x \/ c # b => vaults'[y][c] = vaults[y][c]
      BY <2>t, <3>1, Moved
    <3>3. u = x /\ a = b /\ w.collateralShares \in Nat /\ w.borrowedAmountUsd \in Nat
          /\ w.collateralShares < vaults[u][a].collateralShares
      BY <1>1, <2>0, <3>2 DEF Vault
    <3>4. CASE Raised(vaults[u][a], w, rwaAssets[a])
      BY <2>t, <3>3, <3>4 DEF Raised
    <3>5. CASE Lowered(vaults[u][a], w, rwaAssets[a])
      <4>1. Healthy(vaults[u][a], rwaAssets[a])
        BY <2>t, <3>5, HealthMonotone DEF Lowered
      <4>2. HealthFactor(vaults[u][a], rwaAssets[a]) \in Nat
        BY <1>1, <2>t, HealthNat DEF Unhealthy
      <4> QED BY <1>1, <4>1, <4>2 DEF Unhealthy, Healthy, BASIS_POINTS_DIVISOR
    <3>6. CASE Liquidated(vaults[u][a], w, rwaAssets[a])
      <4>1. PICK n \in Nat :
                /\ n <= vaults[u][a].borrowedAmountUsd
                /\ SharesSeized(rwaAssets[a], n) <= vaults[u][a].collateralShares
                /\ w.collateralShares = vaults[u][a].collateralShares
                                            - SharesSeized(rwaAssets[a], n)
                /\ w.borrowedAmountUsd = vaults[u][a].borrowedAmountUsd - n
        BY <3>6 DEF Liquidated
      <4>2. rwaAssets[a].unitPriceUsd > 0
        BY <3>6 DEF Liquidated
      <4> QED BY <1>1, <2>t, <3>2, <3>3, <4>1, <4>2, SeizureKeepsCoverage
    <3> QED BY <3>1, <3>3, <3>4, <3>5, <3>6 DEF VaultMoves
  <2>3. CASE Mints \/ Reprices \/ Transfers \/ UNCHANGED vars
    BY <2>1, <2>3 DEF Mints, Reprices, Transfers, MintRwaAsset, UpdateOraclePrice,
       TransferShares, vars
  <2> QED BY <1>1, <2>t, <2>2, <2>3, Kinds
<1>2. VaultInv /\ [Next]_vars => \A u \in Accounts, a \in AssetIds \ {0} : Kept(u, a)
  BY <1>1
<1> QED BY <1>2, VaultInit, VaultNext, PTL DEF Spec, LiquidationKeepsCoverage
=============================================================================
