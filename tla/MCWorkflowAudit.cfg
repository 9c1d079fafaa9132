SPECIFICATION Spec
CONSTANTS
    Tree <- MCTree
    Part <- MCPart
    Readable <- MCReadable
    Commentable <- MCCommentable
    Sources <- MCSources
    Unchecked <- MCUnchecked
    CodeOnly <- MCCodeOnly
    MaxEdits = 1
INVARIANTS
    TypeOK
    LossIsReported
    BannedIsReported
    UnreadableIsReported
    SourcesNeverCrash
    FindingsAreTrue
    
CHECK_DEADLOCK FALSE
