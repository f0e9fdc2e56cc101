--------------------------- MODULE LiquiditySyndicate ---------------------------
(***************************************************************************)
(* The lending pool contract                                               *)
(* (src/contracts/solidity/LiquiditySyndicate.sol) over an ERC-20 token,   *)
(* of which the contract uses balanceOf, transfer and transferFrom: a      *)
(* transfer moves tokens the sender has, and otherwise the call reverts.   *)
(* Each external function is one action guarded by its requires.  The      *)
(* owner issues loans and sets the cap; anybody may repay a loan.          *)
(***************************************************************************)
EXTENDS Integers, Sums

CONSTANTS
    Accounts,        \* liquidity providers and borrowers
    Endowment,       \* tokens of an account at the start
    Amounts,         \* amounts of deposit and of loans
    Burns,           \* amounts of withdraw, besides all the caller's shares
    RiskBps,         \* probabilities of default and losses given default, in bps
    Caps,            \* caps the owner may set
    Surplus,         \* how much above the interest due a repayment may be
    MaxLoans,        \* bound on the loans issued
    MaxShares        \* bound: no deposit takes the shares above it

ASSUME SyndicateAssumption ==
    /\ IsFiniteSet(Accounts)
    /\ Endowment \in Nat
    /\ Amounts \subseteq Nat
    /\ Burns \subseteq Nat
    /\ RiskBps \subseteq Nat
    /\ Caps \subseteq Nat
    /\ Surplus \subseteq Nat
    /\ MaxLoans \in Nat /\ MaxShares \in Nat

BASIS_POINTS_DIVISOR == 10000

VARIABLES
    wallet,               \* account -> tokens
    poolBalance,          \* tokens of the contract
    totalShares,
    shareBalance,         \* account -> shares
    expectedLossCapBps,
    loans                 \* the loans issued, by id

vars == <<wallet, poolBalance, totalShares, shareBalance, expectedLossCapBps, loans>>

Loan == [borrower : Accounts, principal : Nat, interestDue : Nat,
         probabilityOfDefaultBps : Nat, lossGivenDefaultBps : Nat,
         active : BOOLEAN, repaid : BOOLEAN]

nextLoanId == Cardinality(DOMAIN loans)

TypeOK ==
    /\ wallet \in [Accounts -> Nat]
    /\ poolBalance \in Nat
    /\ totalShares \in Nat
    /\ shareBalance \in [Accounts -> Nat]
    /\ expectedLossCapBps \in 0 .. BASIS_POINTS_DIVISOR
    /\ DOMAIN loans = 0 .. nextLoanId - 1
    /\ \A i \in DOMAIN loans : loans[i] \in Loan /\ loans[i].repaid = ~loans[i].active

Init ==
    /\ wallet = [a \in Accounts |-> Endowment]
    /\ poolBalance = 0
    /\ totalShares = 0
    /\ shareBalance = [a \in Accounts |-> 0]
    /\ expectedLossCapBps = 500
    /\ loans = [i \in {} |-> 0]

-----------------------------------------------------------------------------
(* The token *)

TransferFrom(a, amount) ==
    /\ wallet[a] >= amount
    /\ wallet' = [wallet EXCEPT ![a] = @ - amount]
    /\ poolBalance' = poolBalance + amount

Transfer(a, amount) ==
    /\ poolBalance >= amount
    /\ wallet' = [wallet EXCEPT ![a] = @ + amount]
    /\ poolBalance' = poolBalance - amount

-----------------------------------------------------------------------------
(* Liquidity providers *)

\* Variant for mutation: the shares are rounded up.
SharesToIssueRoundedUp(amount) ==
    IF totalShares = 0 \/ poolBalance = 0 THEN amount
    ELSE (amount * totalShares + poolBalance - 1) \div poolBalance

SharesToIssue(amount) ==
    IF totalShares = 0 \/ poolBalance = 0 THEN amount
    ELSE (amount * totalShares) \div poolBalance

Deposit(a, amount) ==
    /\ amount > 0
    /\ totalShares + SharesToIssue(amount) <= MaxShares
    /\ TransferFrom(a, amount)
    /\ shareBalance' = [shareBalance EXCEPT ![a] = @ + SharesToIssue(amount)]
    /\ totalShares' = totalShares + SharesToIssue(amount)
    /\ UNCHANGED <<expectedLossCapBps, loans>>

TokensToReturn(shares) == (shares * poolBalance) \div totalShares

Withdraw(a, shares) ==
    /\ shares > 0 /\ shareBalance[a] >= shares
    /\ totalShares >= shares
    /\ shareBalance' = [shareBalance EXCEPT ![a] = @ - shares]
    /\ totalShares' = totalShares - shares
    /\ Transfer(a, TokensToReturn(shares))
    /\ UNCHANGED <<expectedLossCapBps, loans>>

-----------------------------------------------------------------------------
(* Loans *)

\* expectedLossValue is stored but never read; elPercentageBps decides.
ElPercentageBps(pd, lgd) == (pd * lgd) \div BASIS_POINTS_DIVISOR

IssueLoan(borrower, loanAmount, pd, lgd) ==
    /\ nextLoanId < MaxLoans
    /\ loanAmount > 0
    /\ ElPercentageBps(pd, lgd) <= expectedLossCapBps
    /\ loans' = [i \in DOMAIN loans \cup {nextLoanId} |->
          IF i \in DOMAIN loans THEN loans[i]
          ELSE [borrower |-> borrower, principal |-> loanAmount,
                interestDue |-> (loanAmount * 1200) \div BASIS_POINTS_DIVISOR,
                probabilityOfDefaultBps |-> pd, lossGivenDefaultBps |-> lgd,
                active |-> TRUE, repaid |-> FALSE]]
    /\ Transfer(borrower, loanAmount)
    /\ UNCHANGED <<totalShares, shareBalance, expectedLossCapBps>>

Settled(l) == [l EXCEPT !.active = FALSE, !.repaid = TRUE]

\* Variant for mutation: only the interest is pulled from the payer.
RepaymentInterestOnly(l, surplus) == l.interestDue + surplus

\* principalPayment is the principal, interestPayment at least the interest due.
Repayment(l, surplus) == l.principal + l.interestDue + surplus

RepayLoan(payer, id, surplus) ==
    /\ loans[id].active /\ ~loans[id].repaid
    /\ TransferFrom(payer, Repayment(loans[id], surplus))
    /\ loans' = [loans EXCEPT ![id] = Settled(@)]
    /\ UNCHANGED <<totalShares, shareBalance, expectedLossCapBps>>

SetExpectedLossCap(newCapBps) ==
    /\ newCapBps <= BASIS_POINTS_DIVISOR
    /\ expectedLossCapBps' = newCapBps
    /\ UNCHANGED <<wallet, poolBalance, totalShares, shareBalance, loans>>

-----------------------------------------------------------------------------
Next ==
    \/ \E a \in Accounts, n \in Amounts : Deposit(a, n)
    \/ \E a \in Accounts : \E n \in Burns \cup {shareBalance[a]} : Withdraw(a, n)
    \/ \E a \in Accounts, n \in Amounts, pd, lgd \in RiskBps : IssueLoan(a, n, pd, lgd)
    \/ \E a \in Accounts, id \in DOMAIN loans, s \in Surplus : RepayLoan(a, id, s)
    \/ \E cap \in Caps : SetExpectedLossCap(cap)

Spec == Init /\ [][Next]_vars

-----------------------------------------------------------------------------
(* Properties *)

Outstanding == {i \in DOMAIN loans : loans[i].active}

\* What the pool owns: its tokens and the principal its borrowers owe it.
Assets == poolBalance + Total([i \in DOMAIN loans |-> loans[i].principal], Outstanding)

\* The shares of the providers add up to totalShares: the last provider can withdraw.
SharesAddUp == totalShares = Total(shareBalance, Accounts)

\* With no loan outstanding, no deposit, withdrawal or drawdown, however it rounds, takes
\* value from the shares of the others.
ValueFallsOnlyWithLoansOut ==
    [][Outstanding = {} => Assets * totalShares' <= Assets' * totalShares
                              \/ totalShares = 0]_vars

\* What the pool owns shrinks only when shares are burned: a drawdown turns tokens into a
\* claim, and the claim ends only by a payment that replaces it.
AssetsLeaveOnlyToHolders == [][Assets' < Assets => totalShares' < totalShares]_vars
=============================================================================
