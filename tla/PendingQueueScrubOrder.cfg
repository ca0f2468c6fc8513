\* Two RpcClients: is the top still the earliest after a scrub()?
SPECIFICATION Spec
CONSTANTS
    Instances = {1, 2}
    Whens = {1, 2, 3}
    MaxPending = 4
INVARIANTS
    TopIsEarliest
