SPECIFICATION Spec
CONSTANTS
    Requests = {r1, r2}
    alice = alice
    bob = bob
    s1 = s1
    Hashes = {alice, bob}
    Sessions = {s1}
    Menu <- AnonymousMenu
    NoHash = NoHash
    Synthetic = Synthetic
    BatchSize = 2
    MaxCalls = 4
INVARIANTS
    ErasureIsComplete
CHECK_DEADLOCK FALSE
