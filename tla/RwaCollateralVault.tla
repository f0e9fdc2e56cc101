-------------------------- MODULE RwaCollateralVault --------------------------
(***************************************************************************)
(* The collateral vault contract                                           *)
(* (src/contracts/solidity/RwaCollateralVault.sol).  A transaction is      *)
(* atomic and a failed require leaves no trace, so each external function  *)
(* is one action whose guard is the conjunction of its requires, and any   *)
(* account may call any function between any two calls of another.         *)
(* Integers are unsigned and every division truncates; a subtraction that  *)
(* would go below zero and a division by zero revert.  Amounts stay far    *)
(* below 2^256, where the compiler's overflow check would revert.          *)
(***************************************************************************)
EXTENDS Naturals, Sums

CONSTANTS
    Accounts,        \* every address that calls the contract
    owner,           \* the deployer
    AssetIds,        \* asset ids used
    MintShares,      \* totalShares of a mint
    Prices,          \* what the oracle may say an asset is worth
    LtvLimits,       \* maxLtvBps of a mint
    Loans            \* amounts borrow is called with

ASSUME VaultAssumption ==
    /\ IsFiniteSet(Accounts)      \* an address has 160 bits
    /\ owner \in Accounts
    /\ AssetIds \subseteq Nat
    /\ MintShares \subseteq Nat
    /\ Prices \subseteq Nat
    /\ LtvLimits \subseteq Nat
    /\ Loans \subseteq Nat

BASIS_POINTS_DIVISOR == 10000
LIQUIDATION_BONUS_BPS == 1000

VARIABLES
    rwaAssets,   \* id -> asset
    balances,    \* account -> id -> free shares
    vaults       \* account -> id -> collateral and debt

vars == <<rwaAssets, balances, vaults>>

RwaAsset == [id : Nat, totalShares : Nat, unitPriceUsd : Nat, maxLtvBps : Nat,
             active : BOOLEAN]
Vault == [collateralShares : Nat, borrowedAmountUsd : Nat]

TypeOK ==
    /\ rwaAssets \in [AssetIds -> RwaAsset]
    /\ balances \in [Accounts -> [AssetIds -> Nat]]
    /\ vaults \in [Accounts -> [AssetIds -> Vault]]

Init ==
    /\ rwaAssets = [a \in AssetIds |-> [id |-> 0, totalShares |-> 0, unitPriceUsd |-> 0,
                                        maxLtvBps |-> 0, active |-> FALSE]]
    /\ balances = [u \in Accounts |-> [a \in AssetIds |-> 0]]
    /\ vaults = [u \in Accounts |-> [a \in AssetIds |->
                    [collateralShares |-> 0, borrowedAmountUsd |-> 0]]]

-----------------------------------------------------------------------------
(* getHealthFactor of a vault holding v against an asset s *)

HealthFactor(v, s) ==
    IF v.borrowedAmountUsd = 0 THEN BASIS_POINTS_DIVISOR
    ELSE LET value == (v.collateralShares * s.unitPriceUsd) \div s.totalShares
             allowed == (value * s.maxLtvBps) \div BASIS_POINTS_DIVISOR
         IN (allowed * BASIS_POINTS_DIVISOR) \div v.borrowedAmountUsd

\* Otherwise the call of getHealthFactor divides by zero and reverts.
HealthDefined(v, s) == v.borrowedAmountUsd = 0 \/ s.totalShares > 0

Healthy(v, s) == HealthDefined(v, s) /\ HealthFactor(v, s) >= BASIS_POINTS_DIVISOR

Unhealthy(v, s) == HealthDefined(v, s) /\ HealthFactor(v, s) < BASIS_POINTS_DIVISOR

-----------------------------------------------------------------------------
MintRwaAsset(a, shares, price, ltv) ==
    /\ rwaAssets[a].id = 0
    /\ ltv <= BASIS_POINTS_DIVISOR
    /\ rwaAssets' = [rwaAssets EXCEPT ![a] =
          [id |-> a, totalShares |-> shares, unitPriceUsd |-> price, maxLtvBps |-> ltv,
           active |-> TRUE]]
    /\ balances' = [balances EXCEPT ![owner][a] = shares]
    /\ UNCHANGED vaults

TransferShares(sender, to, a, amount) ==
    /\ balances[sender][a] >= amount
    /\ LET debited == [balances EXCEPT ![sender][a] = @ - amount]
       IN balances' = [debited EXCEPT ![to][a] = @ + amount]
    /\ UNCHANGED <<rwaAssets, vaults>>

DepositCollateral(sender, a, amount) ==
    /\ rwaAssets[a].active
    /\ balances[sender][a] >= amount
    /\ balances' = [balances EXCEPT ![sender][a] = @ - amount]
    /\ vaults' = [vaults EXCEPT ![sender][a].collateralShares = @ + amount]
    /\ UNCHANGED rwaAssets

\* Variant for mutation: the health is checked before the shares leave.
WithdrawCollateralCheckedFirst(sender, a, amount) ==
    /\ vaults[sender][a].collateralShares >= amount
    /\ Healthy(vaults[sender][a], rwaAssets[a])
    /\ vaults' = [vaults EXCEPT ![sender][a].collateralShares = @ - amount]
    /\ balances' = [balances EXCEPT ![sender][a] = @ + amount]
    /\ UNCHANGED rwaAssets

WithdrawCollateral(sender, a, amount) ==
    /\ vaults[sender][a].collateralShares >= amount
    /\ vaults' = [vaults EXCEPT ![sender][a].collateralShares = @ - amount]
    /\ Healthy(vaults'[sender][a], rwaAssets[a])
    /\ balances' = [balances EXCEPT ![sender][a] = @ + amount]
    /\ UNCHANGED rwaAssets

Borrow(sender, a, amount) ==
    /\ vaults[sender][a].collateralShares > 0
    /\ vaults' = [vaults EXCEPT ![sender][a].borrowedAmountUsd = @ + amount]
    /\ Healthy(vaults'[sender][a], rwaAssets[a])
    /\ UNCHANGED <<rwaAssets, balances>>

\* Anybody may repay anybody's debt.
Repay(borrower, a, amount) ==
    /\ vaults[borrower][a].borrowedAmountUsd >= amount
    /\ vaults' = [vaults EXCEPT ![borrower][a].borrowedAmountUsd = @ - amount]
    /\ UNCHANGED <<rwaAssets, balances>>

UpdateOraclePrice(a, price) ==
    /\ rwaAssets[a].id # 0
    /\ rwaAssets' = [rwaAssets EXCEPT ![a].unitPriceUsd = price]
    /\ UNCHANGED <<balances, vaults>>

\* Variant for mutation: the seized shares are rounded up.
SharesSeizedRoundedUp(s, amount) ==
    LET value == (amount * (BASIS_POINTS_DIVISOR + LIQUIDATION_BONUS_BPS))
                    \div BASIS_POINTS_DIVISOR
    IN (value * s.totalShares + s.unitPriceUsd - 1) \div s.unitPriceUsd

SharesSeized(s, amount) ==
    LET value == (amount * (BASIS_POINTS_DIVISOR + LIQUIDATION_BONUS_BPS))
                    \div BASIS_POINTS_DIVISOR
    IN (value * s.totalShares) \div s.unitPriceUsd

\* Variant for mutation: the seized shares are never taken from the vault.
LiquidateKeepsCollateral(sender, borrower, a, amount) ==
    LET v == vaults[borrower][a]
        s == rwaAssets[a]
        seized == SharesSeized(s, amount)
    IN
    /\ Unhealthy(v, s)
    /\ amount <= v.borrowedAmountUsd \div 2
    /\ amount > 0
    /\ s.unitPriceUsd > 0
    /\ v.collateralShares >= seized
    /\ vaults' = [vaults EXCEPT ![borrower][a].borrowedAmountUsd = @ - amount]
    /\ balances' = [balances EXCEPT ![sender][a] = @ + seized]
    /\ UNCHANGED rwaAssets

\* A price of zero makes the seizure divide by zero: the call reverts.
Liquidate(sender, borrower, a, amount) ==
    LET v == vaults[borrower][a]
        s == rwaAssets[a]
        seized == SharesSeized(s, amount)
    IN
    /\ Unhealthy(v, s)
    /\ amount <= v.borrowedAmountUsd \div 2
    /\ amount > 0
    /\ s.unitPriceUsd > 0
    /\ v.collateralShares >= seized
    /\ vaults' = [vaults EXCEPT ![borrower][a].collateralShares = @ - seized,
                                ![borrower][a].borrowedAmountUsd = @ - amount]
    /\ balances' = [balances EXCEPT ![sender][a] = @ + seized]
    /\ UNCHANGED rwaAssets

-----------------------------------------------------------------------------
Next ==
    \E a \in AssetIds :
        \/ \E n \in MintShares, p \in Prices, ltv \in LtvLimits : MintRwaAsset(a, n, p, ltv)
        \/ \E p \in Prices : UpdateOraclePrice(a, p)
        \/ \E u \in Accounts :
              \/ \E to \in Accounts, n \in 0 .. balances[u][a] : TransferShares(u, to, a, n)
              \/ \E n \in 0 .. balances[u][a] : DepositCollateral(u, a, n)
              \/ \E n \in 0 .. vaults[u][a].collateralShares : WithdrawCollateral(u, a, n)
              \/ \E n \in Loans : Borrow(u, a, n)
              \/ \E n \in 0 .. vaults[u][a].borrowedAmountUsd : Repay(u, a, n)
              \/ \E b \in Accounts : \E n \in 0 .. vaults[b][a].borrowedAmountUsd :
                    Liquidate(u, b, a, n)

Spec == Init /\ [][Next]_vars

-----------------------------------------------------------------------------
(* Properties *)

HeldShares(a) ==
    Total([u \in Accounts |-> balances[u][a] + vaults[u][a].collateralShares], Accounts)

\* No transfer, deposit, withdrawal or liquidation creates or destroys shares: those
\* held freely and those in vaults add up to what was minted.
SharesConserved ==
    \A a \in AssetIds \ {0} : HeldShares(a) = rwaAssets[a].totalShares

\* Only the oracle makes a healthy vault unhealthy: no call of the borrower, of a
\* liquidator or of anybody else, and no truncation, pushes a vault over its limit.
OnlyOracleUnhealths ==
    [][\A u \in Accounts, a \in AssetIds \ {0} :
          /\ Healthy(vaults[u][a], rwaAssets[a])
          /\ ~Healthy(vaults'[u][a], rwaAssets'[a])
          => rwaAssets'[a].unitPriceUsd # rwaAssets[a].unitPriceUsd]_vars

\* The collateral of v is worth at least its debt with the liquidation bonus on top.
CoversBonus(v, s) ==
    v.collateralShares * s.unitPriceUsd * BASIS_POINTS_DIVISOR
        >= v.borrowedAmountUsd * s.totalShares * (BASIS_POINTS_DIVISOR + LIQUIDATION_BONUS_BPS)

\* A liquidation of a vault that can still pay the bonus never lowers its collateral
\* per unit of debt: liquidating "protects investor capital" as long as it comes in time.
LiquidationKeepsCoverage ==
    [][\A u \in Accounts, a \in AssetIds \ {0} :
          LET v == vaults[u][a]
              w == vaults'[u][a]
          IN Unhealthy(v, rwaAssets[a]) /\ CoversBonus(v, rwaAssets[a])
                /\ w.collateralShares < v.collateralShares
             => w.collateralShares * v.borrowedAmountUsd
                    >= v.collateralShares * w.borrowedAmountUsd]_vars

\* "Asset ID already exists.": an asset is minted once, its shares never change.
MintedOnce ==
    [][\A a \in AssetIds : rwaAssets[a].active
          => rwaAssets'[a].totalShares = rwaAssets[a].totalShares]_vars
=============================================================================
