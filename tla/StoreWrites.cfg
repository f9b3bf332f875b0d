\* Two concurrent writers of one row beside the administration site and Beat.
\* No symmetry, for the sake of EverySessionEnds.
SPECIFICATION FairSpec
CONSTANTS
    Sessions  = {s1, s2}
    first = s1
    retry = s2
    p1 = p1
    p2 = p2
    p3 = p3
    a  = a
    b  = b
    d1 = d1
    d2 = d2
    NoPk      = NoPk
    NoName    = NoName
    NoRow     = NoRow
    NoSession = NoSession
    Pks       <- OnePk
    Names     <- OneName
    Defs      <- TwoDefs
    Requests  <- WriteRequests
    Table     <- OneRow
    AsPk      <- NoNumber
    MaxRuns   = 1
INVARIANTS
    TypeOK
PROPERTIES
    CasCommitsOnExpected
    NoLostUpdates
    OnlyPlainUpdateUndoes
    EverySessionEnds
CHECK_DEADLOCK FALSE
