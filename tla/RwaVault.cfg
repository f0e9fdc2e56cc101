SPECIFICATION Spec
CONSTANTS
  Accounts = {own, bob}
  owner = own
  AssetIds = {1}
  MintShares = {5}
  Prices = {4, 7, 13}
  LtvLimits = {7000, 10000}
  Loans = {1, 2, 3, 5}
INVARIANT SharesConserved
PROPERTIES OnlyOracleUnhealths LiquidationKeepsCoverage
