SPECIFICATION FairSpec
CONSTANTS
    b1 = b1
    b2 = b2
    Books = {b1, b2}
    NoBook = NoBook
    NoSession = NoSession
    NoAction = NoAction
    NoPosition = NoPosition
    LastChapter = 2
    MaxPages = 2
    MinReport = 1
    AfterSuccess = 0
    AfterFailure = 1
    GapLimit = 1
    MaxTime = 2
    MaxEvents = 4
INVARIANTS TypeOK SecondsKept WhereYouWere
PROPERTIES LoadingEnds
CHECK_DEADLOCK FALSE
