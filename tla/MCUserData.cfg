SPECIFICATION FairSpec
CONSTANTS
    Requests = {r1, r2}
    alice = alice
    bob = bob
    s1 = s1
    Hashes = {alice, bob}
    Sessions = {s1}
    Menu <- MCMenu
    NoHash = NoHash
    Synthetic = Synthetic
    BatchSize = 2
    MaxCalls = 4
INVARIANTS
    TypeOK
    ErasureIsThorough
    AcceptedIsStored
PROPERTIES
    OnlyItsErasureForgets
    RequestsReturn
CHECK_DEADLOCK FALSE
