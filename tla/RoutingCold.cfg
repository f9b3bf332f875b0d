\* Django may not be importable, at the start or later.
SPECIFICATION Spec
CONSTANTS
    N         = 2
    Kind      <- BuiltIn
    Requests  <- ColdRequests
    ColdStart = TRUE
    Commands  = {c1, c2}
    Ids       = {x}
SYMMETRY CommandSymmetry
PROPERTY AdvertisedIsKept
CHECK_DEADLOCK FALSE
