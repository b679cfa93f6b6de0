CONSTANTS
    Books = {b1}
    Pids = {p1}
    NoBook = NoBook
    NoDocument = NoDocument
    NoJob = NoJob
    Auth = Auth
    MaxPolls = 1
    MaxEvents = 2
SPECIFICATION FairSpec
CHECK_DEADLOCK FALSE
PROPERTIES
    ChildrenReaped
    KeepsReporting
