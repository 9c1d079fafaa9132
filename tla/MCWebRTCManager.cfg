SPECIFICATION Spec
CONSTANTS
    Threads = {t1, t2, t3}
    alice = alice
    bob = bob
    s1 = s1
    s2 = s2
    Sessions = {s1}
    Peers = {alice, bob}
    Candidates = {c1}
    Calls <- AllCalls
    ICECap = 1
    TTL = 1
    MaxTime = 2
    NoThread = NoThread
    NoSession = NoSession
    NoPeer = NoPeer
SYMMETRY ThreadSymmetry
INVARIANTS
    TypeOK
    LockDiscipline
    HandshakeShape
    NoTerminalLeak
PROPERTIES
    StateNeverRegresses
    PartiesAreStable
    LifecycleSpec
CHECK_DEADLOCK FALSE
