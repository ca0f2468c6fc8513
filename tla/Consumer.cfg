\* Two transport threads and the expire worker; one subscription and two unsubscriptions, of which one may fail.
SPECIFICATION Spec
CONSTANTS
    TicksPerMs = 1
    MaxTtl = 1
    NANOSECONDS_PER_SECOND = 10
    UInt32Size = 4
    Topics <- MCTopics
    Entities <- MCEntities
    Options <- MCOptions
    Levels = {4, 5}
    Ttls = {1, 2}
    Contents <- MCContents
    Threads = {t1, t2}
    MaxRequests = 3
INVARIANTS
    TypeOK
    NothingLeft
    SilentAfterUnsubscribe
    OldRequestRetired
    AsksAsWished
SYMMETRY ThreadSymmetry
CHECK_DEADLOCK FALSE
