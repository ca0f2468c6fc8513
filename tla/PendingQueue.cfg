\* One RpcClient: scrub() empties the queue, all order is the heap's.
SPECIFICATION Spec
CONSTANTS
    Instances = {1}
    Whens = {1, 2, 3, 4}
    MaxPending = 7
INVARIANTS
    TypeOK
PROPERTIES
    ImplementsQueue
