\* The callback of a request on one client invokes the other client.
SPECIFICATION FairSpec
CONSTANTS
    k1 = k1
    k2 = k2
    r1 = r1
    r2 = r2
    Clients <- TwoClients
    Requests <- TwoRequests
    ClientOf <- OneOnEach
    Nested <- Follow
    Ttl <- TtlTwo
    Answers = {"message"}
    Released = {}
    MayExit = FALSE
    Threads = {t1}
    Worker = Worker
    Main = Main
    MaxTime = 2
PROPERTIES
    Completion
CHECK_DEADLOCK FALSE
