SPECIFICATION LiveSpec
CONSTANTS
  Transactions = {x1, x2}
  Tasks = {k1, k2, k3}
  MaxPermits = 2
  BatchSize = 2
  MaxMessages = 4
  MaxCrashes = 1
  Expiry = TRUE
CHECK_DEADLOCK FALSE
INVARIANTS PermitsConserved CachedIsTaken
PROPERTY TasksFinish
