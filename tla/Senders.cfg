\* One builder, one TTL on each side of the builder's limit; the low part of the
\* timestamp wraps while the clock runs.
SPECIFICATION Spec
CONSTANTS
    TicksPerMs = 2
    MaxTtl = 2
    Uris <- MCUris
    Ttls = {0, 1, 3}
    Levels = {4, 5, 8}
    Formats = {2, 9}
    Foreign <- MCForeign
    Objects = {p1, p2}
    Randoms <- MCRandoms
    StartTime = 30
    MaxTime = 35
    TimeHigh = 16
    TimeLow = 16
    RandomA = 16
    RandomBHigh = 64
    Half = 256
    Widths <- MCWidths
    PartSize = 1
INVARIANTS
    TypeOK
    BuiltIsAccepted
    StaleIsRefused
    RemainingTime
    ResponseMatchesRequest
    PayloadIntact
    AcceptedAtOnce
    IdsSurvive
    SameSpelling
    UrisSurvive
    DamageIsNoticed
SYMMETRY ObjectSymmetry
CHECK_DEADLOCK FALSE
