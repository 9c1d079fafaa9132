SPECIFICATION FairSpec
CONSTANTS
    Threads = {t1, t2}
    alice = alice
    bob = bob
    s1 = s1
    s2 = s2
    Sessions = {s1, s2}
    Peers = {alice, bob}
    Candidates = {c1}
    Calls <- HandshakeCalls
    ICECap = 1
    TTL = 1
    MaxTime = 2
    NoThread = NoThread
    NoSession = NoSession
    NoPeer = NoPeer
INVARIANTS
    NoStaleLookup
PROPERTIES
    CallsReturn
