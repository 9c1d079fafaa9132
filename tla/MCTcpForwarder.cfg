SPECIFICATION FairSpec
CONSTANTS
    MaxFlows = 2
    MaxBytes <- MCMaxBytes
    SynWindow = 1
    Windows = {2}
    Modulus = 5
    Start = 3
INVARIANTS
    TypeOK
    NoOverrun
    AckIsTaken
    ResetOnce
PROPERTIES
    ClosedIsSilent
    BlockedReaderReturns
CHECK_DEADLOCK FALSE
