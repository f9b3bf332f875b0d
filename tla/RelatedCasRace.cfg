\* A native edit while a shared row is edited in place.
SPECIFICATION Spec
CONSTANTS
    Sessions = {s1}
    p1 = p1
    p2 = p2
    p3 = p3
    r1 = r1
    r2 = r2
    r3 = r3
    r4 = r4
    a  = a
    b  = b
    daily = daily
    dawn  = dawn
    noon  = noon
    noonCET = noonCET
    blanks = blanks
    Empty = Empty
    EveryMinute = EveryMinute
    NoId      = NoId
    NoPlace   = NoPlace
    NoSession = NoSession
    Site      = Site
    Naive     = Naive
    FiveFields = {daily, blanks, EveryMinute}
    Timestamps = {noon, noonCET}
    Canonical <- FewCanonical
    RoundedQueries = FALSE
    MicrosPerSecond = 4
    MaxEvery  = 100
    MaxEdits  = 1
    Pks      = {p1, p2, p3}
    Rids     = {r1, r2, r3, r4}
    Texts    <- FewTexts
    ArgTexts <- FewArgs
    Values   <- FewValues
    Tasks    <- SharedTasks
    Related  <- SharedRelated
    Entries  <- TwoEntries
    Requests <- NativeRequests
PROPERTY NoEditIsOverwritten
CHECK_DEADLOCK FALSE
