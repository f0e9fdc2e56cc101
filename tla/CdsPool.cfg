SPECIFICATION Spec
CONSTANTS
  Accounts = {a1, a2}
  Deposits = {2, 3}
  Covers = {2, 3}
  Durations = {1}
  Lambdas = {300, 10000}
  Recoveries = {4000}
  Volatilities = {1500}
  Alphas = {800}
  MaxReserves = 6
  MaxShares = 6
  MaxBlock = 2
INVARIANTS NoOrphanReserves EventPaysWhatItCan BuyersListed
PROPERTIES SharePriceFallsOnlyByPayout PayoutEndsCover
