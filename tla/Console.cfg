SPECIFICATION Spec
CONSTANTS
  None = None
  MaxRuns = 3
  MaxChainedRuns = 4
  Cases = {a, b}
  Steps = {s, t}
  MaxSteps = 2
  MaxRounds = 2
  ListLength = 2
  Equities = {0, 70, 100}
  Files = {x}
  Processes = {w1, w2}
  NewFilings = {n}
  Nets <- MCNets
  RowLimit = 2
  MaxItems = 3
  MaxNotices = 3
  BellLength = 1
  SeedCount = 2
  PageSize = 2
  FeedLength = 2
  MaxExpanded = 2
  TickerLength = 2
INVARIANTS PanelOK SpinnersHonest ResultOfLastRun LogInOrder NothingLeftWaiting PlaybookCompleteMeansRun FiledUnderOwnMark AssessedAsPreviewed ChargedOnce NoTimerLeaks ApprovalShown
PROPERTIES ResultsGoForward DecisionsSurvivePolls DecidedItemsKept EveryRunEnds
CHECK_DEADLOCK FALSE
