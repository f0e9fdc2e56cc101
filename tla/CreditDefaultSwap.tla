--------------------------- MODULE CreditDefaultSwap ---------------------------
(***************************************************************************)
(* The protection pool contract                                            *)
(* (src/contracts/solidity/CreditDefaultSwap.sol).  Each external function *)
(* is one action guarded by its requires and by the compiler's checks: a   *)
(* subtraction below zero and a division by zero revert.  The loop of      *)
(* triggerCreditEvent takes one step per buyer of the list, and while it   *)
(* runs no other transaction does.  Sellers and buyers are the same        *)
(* accounts; only the owner settles an event or sets the risk parameters.  *)
(***************************************************************************)
EXTENDS Integers, Sequences, Sums

CONSTANTS
    Accounts,        \* every address that calls the contract
    Deposits,        \* amounts of depositReserves
    Covers,          \* amounts of buyProtection
    Durations,       \* durationBlocks of buyProtection
    Lambdas, Recoveries, Volatilities, Alphas,   \* what updateRiskParameters sets
    MaxReserves,     \* bound: no call takes the reserves above it
    MaxShares,       \* bound: no deposit takes the shares above it
    MaxBlock         \* bound on the chain's height

ASSUME SwapAssumption ==
    /\ IsFiniteSet(Accounts)      \* an address has 160 bits
    /\ Deposits \subseteq Nat
    /\ Covers \subseteq Nat
    /\ Durations \subseteq Nat
    /\ Lambdas \subseteq Nat
    /\ Recoveries \subseteq Nat
    /\ Volatilities \subseteq Nat
    /\ Alphas \subseteq Nat
    /\ MaxReserves \in Nat /\ MaxShares \in Nat /\ MaxBlock \in Nat

BASIS_POINTS_DIVISOR == 10000

VARIABLES
    risk,                \* the four premium parameters
    totalReservesUsd,
    totalSellerShares,
    sellerShares,        \* account -> shares
    activeProtections,   \* account -> the last protection it bought
    protectionBuyers,    \* accounts in the order of their first purchase
    block,               \* block.number
    next                 \* index of the loop of a running credit event, 0 if none runs

vars == <<risk, totalReservesUsd, totalSellerShares, sellerShares, activeProtections,
          protectionBuyers, block, next>>

pool == <<totalReservesUsd, totalSellerShares, sellerShares>>
cover == <<activeProtections, protectionBuyers>>

Risk == [defaultIntensityBps : 0 .. BASIS_POINTS_DIVISOR,
         expectedRecoveryRateBps : 0 .. BASIS_POINTS_DIVISOR,
         volatilityBps : Nat, alphaBps : Nat]
Protection == [coveredPrincipalUsd : Nat, expirationBlock : Nat, active : BOOLEAN]

TypeOK ==
    /\ risk \in Risk
    /\ totalReservesUsd \in Nat
    /\ totalSellerShares \in Nat
    /\ sellerShares \in [Accounts -> Nat]
    /\ activeProtections \in [Accounts -> Protection]
    /\ protectionBuyers \in Seq(Accounts)
    /\ block \in Nat
    /\ next \in 0 .. Len(protectionBuyers) + 1

Init ==
    /\ risk = [defaultIntensityBps |-> 300, expectedRecoveryRateBps |-> 4000,
               volatilityBps |-> 1500, alphaBps |-> 800]
    /\ totalReservesUsd = 0
    /\ totalSellerShares = 0
    /\ sellerShares = [a \in Accounts |-> 0]
    /\ activeProtections = [a \in Accounts |->
          [coveredPrincipalUsd |-> 0, expirationBlock |-> 0, active |-> FALSE]]
    /\ protectionBuyers = <<>>
    /\ block = 0
    /\ next = 0

-----------------------------------------------------------------------------
(* Sellers: depositReserves and withdrawReserves *)

\* Variant for mutation: the shares of a deposit are rounded up.
SharesIssuedRoundedUp(amount) ==
    IF totalSellerShares = 0 \/ totalReservesUsd = 0 THEN amount
    ELSE (amount * totalSellerShares + totalReservesUsd - 1) \div totalReservesUsd

SharesIssued(amount) ==
    IF totalSellerShares = 0 \/ totalReservesUsd = 0 THEN amount
    ELSE (amount * totalSellerShares) \div totalReservesUsd

DepositReserves(a, amount) ==
    /\ next = 0
    /\ amount > 0
    /\ totalReservesUsd + amount <= MaxReserves
    /\ totalSellerShares + SharesIssued(amount) <= MaxShares
    /\ sellerShares' = [sellerShares EXCEPT ![a] = @ + SharesIssued(amount)]
    /\ totalSellerShares' = totalSellerShares + SharesIssued(amount)
    /\ totalReservesUsd' = totalReservesUsd + amount
    /\ UNCHANGED <<risk, cover, block, next>>

\* Variant for mutation: the division comes first.
AmountWithdrawnDivided(shares) == shares * (totalReservesUsd \div totalSellerShares)

AmountWithdrawn(shares) == (shares * totalReservesUsd) \div totalSellerShares

WithdrawReserves(a, shares) ==
    /\ next = 0
    /\ shares > 0 /\ sellerShares[a] >= shares
    /\ totalSellerShares >= shares
    /\ sellerShares' = [sellerShares EXCEPT ![a] = @ - shares]
    /\ totalSellerShares' = totalSellerShares - shares
    /\ totalReservesUsd' = totalReservesUsd - AmountWithdrawn(shares)
    /\ UNCHANGED <<risk, cover, block, next>>

-----------------------------------------------------------------------------
(* Buyers: buyProtection *)

CalculatePremiumRateBps ==
    (risk.defaultIntensityBps * (BASIS_POINTS_DIVISOR - risk.expectedRecoveryRateBps))
            \div BASIS_POINTS_DIVISOR
        + (risk.alphaBps * risk.volatilityBps * risk.volatilityBps)
            \div (BASIS_POINTS_DIVISOR * BASIS_POINTS_DIVISOR)

Premium(amount) == (amount * CalculatePremiumRateBps) \div BASIS_POINTS_DIVISOR

\* Variant for mutation: found starts true once the list is not empty.
ListedIfAny(a) == protectionBuyers # <<>>

Listed(a) == \E i \in 1 .. Len(protectionBuyers) : protectionBuyers[i] = a

\* A second purchase replaces the first one, whose premium is spent.
BuyProtection(a, amount, duration) ==
    /\ next = 0
    /\ amount > 0
    /\ totalReservesUsd >= amount
    /\ totalReservesUsd + Premium(amount) <= MaxReserves
    /\ totalReservesUsd' = totalReservesUsd + Premium(amount)
    /\ activeProtections' = [activeProtections EXCEPT ![a] =
          [coveredPrincipalUsd |-> amount, expirationBlock |-> block + duration,
           active |-> TRUE]]
    /\ protectionBuyers' = IF Listed(a) THEN protectionBuyers
                                        ELSE Append(protectionBuyers, a)
    /\ UNCHANGED <<risk, totalSellerShares, sellerShares, block, next>>

-----------------------------------------------------------------------------
(* The owner: triggerCreditEvent, one loop round per step, and updateRiskParameters *)

StartCreditEvent ==
    /\ next = 0
    /\ next' = 1
    /\ UNCHANGED <<risk, pool, cover, block>>

\* a holds cover that has not expired and has not been paid.
Covered(a) ==
    activeProtections[a].active /\ block <= activeProtections[a].expirationBlock

Settled(a) == Covered(a) /\ totalReservesUsd >= activeProtections[a].coveredPrincipalUsd

\* Variant for mutation: a paid protection stays active.
SettleBuyerStaysActive(a) ==
    /\ totalReservesUsd' = IF Settled(a)
          THEN totalReservesUsd - activeProtections[a].coveredPrincipalUsd
          ELSE totalReservesUsd
    /\ UNCHANGED activeProtections

SettleBuyer(a) ==
    /\ totalReservesUsd' = IF Settled(a)
          THEN totalReservesUsd - activeProtections[a].coveredPrincipalUsd
          ELSE totalReservesUsd
    /\ activeProtections' = IF Settled(a)
          THEN [activeProtections EXCEPT ![a].active = FALSE] ELSE activeProtections

\* Variant for mutation: the loop ends at the first buyer it cannot pay.
NextRoundBreaks ==
    LET a == protectionBuyers[next]
    IN IF Covered(a) /\ ~Settled(a) THEN Len(protectionBuyers) + 1 ELSE next + 1

NextRound == next + 1

SettleNext ==
    /\ next \in 1 .. Len(protectionBuyers)
    /\ SettleBuyer(protectionBuyers[next])
    /\ next' = NextRound
    /\ UNCHANGED <<risk, totalSellerShares, sellerShares, protectionBuyers, block>>

EndCreditEvent ==
    /\ next = Len(protectionBuyers) + 1
    /\ next' = 0
    /\ UNCHANGED <<risk, pool, cover, block>>

UpdateRiskParameters(lambda, recovery, volatility, alpha) ==
    /\ next = 0
    /\ recovery <= BASIS_POINTS_DIVISOR
    /\ lambda <= BASIS_POINTS_DIVISOR
    /\ risk' = [defaultIntensityBps |-> lambda, expectedRecoveryRateBps |-> recovery,
                volatilityBps |-> volatility, alphaBps |-> alpha]
    /\ UNCHANGED <<pool, cover, block, next>>

\* The chain grows between transactions.
Mine ==
    /\ next = 0
    /\ block < MaxBlock
    /\ block' = block + 1
    /\ UNCHANGED <<risk, pool, cover, next>>

-----------------------------------------------------------------------------
Next ==
    \/ \E a \in Accounts :
          \/ \E n \in Deposits : DepositReserves(a, n)
          \/ \E n \in 1 .. sellerShares[a] : WithdrawReserves(a, n)
          \/ \E n \in Covers, d \in Durations : BuyProtection(a, n, d)
    \/ StartCreditEvent
    \/ SettleNext
    \/ EndCreditEvent
    \/ \E l \in Lambdas, r \in Recoveries, v \in Volatilities, s \in Alphas :
          UpdateRiskParameters(l, r, v, s)
    \/ Mine

Spec == Init /\ [][Next]_vars

-----------------------------------------------------------------------------
(* Properties *)

\* The shares of the sellers add up to totalSellerShares: nobody can withdraw a part of
\* the pool that belongs to others, and the last seller can always withdraw.
SharesAddUp == totalSellerShares = Total(sellerShares, Accounts)

\* Reserves always have owners: when the last share is burned the last seller has taken
\* everything, rounding included, and premiums are only ever paid into an owned pool.
NoOrphanReserves == totalSellerShares = 0 => totalReservesUsd = 0

\* What a share is worth falls only when a protection is paid: no deposit, withdrawal or
\* purchase, however it rounds, takes value from the remaining sellers.
SharePriceFallsOnlyByPayout ==
    [][totalReservesUsd * totalSellerShares' > totalReservesUsd' * totalSellerShares
          => \E a \in Accounts : /\ activeProtections[a].active
                                 /\ ~activeProtections'[a].active]_vars

\* Reserves that leave without shares being burned pay exactly one protection that has
\* not expired, in full, and that protection cannot be paid again.
PayoutEndsCover ==
    [][totalSellerShares' = totalSellerShares /\ totalReservesUsd' < totalReservesUsd
          => \E a \in Accounts :
                /\ Covered(a)
                /\ ~activeProtections'[a].active
                /\ totalReservesUsd - totalReservesUsd'
                      = activeProtections[a].coveredPrincipalUsd]_vars

\* A credit event passes over a covered buyer only when the reserves cannot pay him, and
\* then they cannot pay him at the end of the event either.
EventPaysWhatItCan ==
    \A i \in 1 .. next - 1 :
        Covered(protectionBuyers[i])
            => activeProtections[protectionBuyers[i]].coveredPrincipalUsd > totalReservesUsd

\* Every active protection is in the list the event loop walks, once.
BuyersListed ==
    /\ \A a \in Accounts : activeProtections[a].active
          => \E i \in 1 .. Len(protectionBuyers) : protectionBuyers[i] = a
    /\ \A i, j \in 1 .. Len(protectionBuyers) :
          protectionBuyers[i] = protectionBuyers[j] => i = j

\* "Insufficient pool reserves to guarantee protection.": the reserves cover all the
\* protection sold.
CoverGuaranteed ==
    next = 0 => MapThenSumSet(LAMBDA a : activeProtections[a].coveredPrincipalUsd,
                              {a \in Accounts : Covered(a)}) <= totalReservesUsd
=============================================================================
