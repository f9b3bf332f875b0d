\* More calls than threads, so that calls time out while queued.  No symmetry,
\* for the sake of the temporal properties.
SPECIFICATION FairSpec
CONSTANTS
    c1 = c1
    c2 = c2
    c3 = c3
    c4 = c4
    w1 = w1
    w2 = w2
    Calls   <- FourCalls
    Workers <- TwoWorkers
    NoCall  = NoCall
INVARIANTS
    TypeOK
    LateEffectsBounded
    CancelledNeverLands
    AnswersAreTrue
    QueueIsExact
PROPERTIES
    EveryCallAnswered
    PoolRecovers
    KeepsPromise
CHECK_DEADLOCK FALSE
