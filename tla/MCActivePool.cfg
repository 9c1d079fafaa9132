SPECIFICATION FairSpec
CONSTANTS
    Callers = {c1, c2, sweeper}
    Sweeper = sweeper
    Hashes = {alice}
    Operators = {o1}
    Countries = {}
    Apps = {}
    Blank = Blank
    TTLs = {1}
    ScanLimit = 1
    MaxTime = 2
    MaxSerial = 3
    Nothing = Nothing
INVARIANTS
    TypeOK
    HandedOnce
    DeleteIsThorough
PROPERTIES
    ExpiredLeave
    RoomSpec
