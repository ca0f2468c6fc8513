\* One client with two requests.
SPECIFICATION Spec
CONSTANTS
    k1 = k1
    k2 = k2
    r1 = r1
    r2 = r2
    Clients <- OneClient
    Requests <- TwoRequests
    ClientOf <- BothOnOne
    Nested <- NoNesting
    Ttl <- TtlOne
    Answers = {"message", "commstatus"}
    Released <- TwoRequests
    MayExit = TRUE
    Threads = {t1}
    Worker = Worker
    Main = Main
    MaxTime = 2
SYMMETRY RequestSymmetry
INVARIANTS
    TypeOK
    OnceOnly
    Tracked
    SettledOnDestroy
    ListenersReleased
PROPERTIES
    KeepsPromises
CHECK_DEADLOCK FALSE
