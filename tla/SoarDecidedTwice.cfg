CONSTANTS
    Invs = {i1}
    Requests = {a1, a2}
SPECIFICATION Spec
PROPERTY DecideOnlyPending
CHECK_DEADLOCK FALSE
