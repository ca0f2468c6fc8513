\* Two clients: does the destructor of one release its listeners?
SPECIFICATION Spec
CONSTANTS
    k1 = k1
    k2 = k2
    r1 = r1
    r2 = r2
    Clients <- TwoClients
    Requests <- TwoRequests
    ClientOf <- OneOnEach
    Nested <- NoNesting
    Ttl <- TtlTwo
    Answers = {"message"}
    Released = {}
    MayExit = FALSE
    Threads = {t1}
    Worker = Worker
    Main = Main
    MaxTime = 2
INVARIANTS
    ListenersReleased
CHECK_DEADLOCK FALSE
