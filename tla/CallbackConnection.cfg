\* Three callers whose callbacks may throw; overwritten and reset handles.
SPECIFICATION FairSpec
CONSTANTS
    Callers = {c1, c2, c3}
    MayThrow = TRUE
INVARIANTS
    TypeOK
    NoCallbackAfterReset
    CleanupAfterDrain
PROPERTIES
    DisconnectIsFinal
    ImplementsGate
    CallsReturn
    QuietResetReturns
\* Every handle may have been released: the system may stop.
CHECK_DEADLOCK FALSE
