SPECIFICATION Spec
CONSTANTS
  Accounts = {a1, a2}
  Endowment = 9
  Amounts = {2, 9}
  Burns = {1}
  RiskBps = {2000}
  Caps = {300}
  Surplus = {0}
  MaxLoans = 2
  MaxShares = 11
PROPERTIES ValueFallsOnlyWithLoansOut AssetsLeaveOnlyToHolders
