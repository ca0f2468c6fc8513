\* One transport thread.
SPECIFICATION Spec
CONSTANTS
    TicksPerMs = 1
    MaxTtl = 1
    NANOSECONDS_PER_SECOND = 10
    UInt32Size = 4
    Topics <- MCTopics
    Entities <- MCEntities
    Options <- MCOptions
    Levels = {5}
    Ttls = {1}
    Contents <- MCContents
    Threads = {t1}
    MaxRequests = 2
INVARIANTS
    MembersOutliveCallbacks
CHECK_DEADLOCK FALSE
