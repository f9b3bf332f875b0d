\* Names, identities, creations and refusals over two rows and a free key.
SPECIFICATION Spec
CONSTANTS
    Sessions  = {s1, s2}
    first = s1
    retry = s2
    p1 = p1
    p2 = p2
    p3 = p3
    a  = a
    b  = b
    d1 = d1
    d2 = d2
    NoPk      = NoPk
    NoName    = NoName
    NoRow     = NoRow
    NoSession = NoSession
    Pks       <- ThreePks
    Names     <- TwoNames
    Defs      <- OneDef
    Requests  <- NameRequests
    Table     <- TwoRows
    AsPk      <- BIsP1
    MaxRuns   = 0
SYMMETRY SessionSymmetry
INVARIANTS
    AnswersAreFinal
PROPERTIES
    ExactIdentity
    SeemsAtomic
CHECK_DEADLOCK FALSE
