\* An update that times out is retried while the first attempt is still running.
SPECIFICATION RetrySpec
CONSTANTS
    Sessions  = {first, retry}
    first = first
    retry = retry
    p1 = p1
    p2 = p2
    p3 = p3
    a  = a
    b  = b
    d1 = d1
    d2 = d2
    NoPk      = NoPk
    NoName    = NoName
    NoRow     = NoRow
    NoSession = NoSession
    Pks       <- OnePk
    Names     <- OneName
    Defs      <- TwoDefs
    Requests  <- RetryRequests
    Table     <- OneRow
    AsPk      <- NoNumber
    MaxRuns   = 1
PROPERTY RetryIsSafe
CHECK_DEADLOCK FALSE
