\* A trigger while Django is not importable yet.
SPECIFICATION Spec
CONSTANTS
    N         = 2
    Kind      <- BuiltIn
    Requests  <- FireRequests
    ColdStart = TRUE
    Commands  = {c1}
    Ids       = {x}
INVARIANT FiresTheOwner
CHECK_DEADLOCK FALSE
