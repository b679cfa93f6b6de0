SPECIFICATION Spec
CONSTANTS
    b1 = b1
    b2 = b2
    Books = {b1, b2}
    NoBook = NoBook
    NoSession = NoSession
    NoAction = NoAction
    NoPosition = NoPosition
    LastChapter = 2
    MaxPages = 2
    MinReport = 1
    AfterSuccess = 1
    AfterFailure = 2
    GapLimit = 1
    MaxTime = 4
    MaxEvents = 5
INVARIANTS ReportedIsRead
CHECK_DEADLOCK FALSE
