\* A parent with two threads that fork, a child with two and a grandchild.
SPECIFICATION FairSpec
CONSTANTS
    t1 = t1
    t2 = t2
    u1 = u1
    u2 = u2
    v1 = v1
    NoThread = NoThread
    parent = parent
    child = child
    grandchild = grandchild
    Procs   <- Family
    Threads <- FamilyThreads
    Home    <- FamilyHome
    Root    = parent
INVARIANTS
    TypeOK
    OnePoolPerProcess
    PoolIsLocal
    LocksAreNotOrphaned
PROPERTY CallersGetAPool
CHECK_DEADLOCK FALSE
