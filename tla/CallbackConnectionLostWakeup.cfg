\* One caller, no exceptions: can a reset() wait for ever?
SPECIFICATION FairSpec
CONSTANTS
    Callers = {c1}
    MayThrow = FALSE
PROPERTIES
    ResetReturns
CHECK_DEADLOCK FALSE
