SPECIFICATION Spec
CONSTANTS
  Accounts = {own, bob}
  owner = own
  AssetIds = {0, 1}
  MintShares = {3, 5}
  Prices = {7}
  LtvLimits = {7000}
  Loans = {1, 2}
PROPERTY MintedOnce
