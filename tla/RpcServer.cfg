\* Two transport threads, with and without a TTL and an expected format.
SPECIFICATION Spec
CONSTANTS
    TicksPerMs = 2
    MaxTtl = 3
    Methods <- MCMethods
    ServerTtls = {{}, {1}, {4}}
    ServerFormats = {{}, {2}}
    Incoming <- MCIncoming
    PayloadChoices = {{}, {2}}
    Threads = {t1, t2}
    MaxTime = 4
    MaxReplies = 2
INVARIANTS
    TypeOK
    ListenerOutlived
    RepliesMatch
    NoTtlNoLoss
SYMMETRY ThreadSymmetry
CHECK_DEADLOCK FALSE
