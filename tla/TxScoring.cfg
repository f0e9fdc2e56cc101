SPECIFICATION Spec
CONSTANTS
  Processes = {p1}
  Requests = {r1, r2, r3}
  Transactions = {t1, t2}
  HighValue = {t2}
  ScoreTriples <- MCScoreTriples
  CacheLimit = 1
  Evicted = 1
  threshold = 2
  RecoveryTimeout = 1
SYMMETRY Symmetry
INVARIANT ApprovalBacked
PROPERTIES RetryRecognised AnswerCached
CHECK_DEADLOCK FALSE
