CONSTANTS
    Invs = {i1}
    Requests = {a1, a2}
SPECIFICATION FairSpec
INVARIANTS TypeOK FreezeOnlyAuthorised PendingMeansWaiting ClearedNeverFrozen
PROPERTIES ReopenedOnlyByFailureOrApproval ImplementsFreezeAuthority RemediatingResolves
CHECK_DEADLOCK FALSE
