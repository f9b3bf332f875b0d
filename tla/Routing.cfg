\* Every operation over the built-in sources between two injected ones.
SPECIFICATION Spec
CONSTANTS
    N         = 4
    Kind      <- Mixed
    Requests  <- AnyRequests
    ColdStart = FALSE
    Commands  = {c1}
    Ids       = {x}
INVARIANTS
    TypeOK
    AtMostOneSource
    AnswersCoverEffects
    FiresTheOwner
    InventoryComplete
CHECK_DEADLOCK FALSE
