CONSTANTS
    Books = {b1}
    Pids = {p1, p2}
    NoBook = NoBook
    NoDocument = NoDocument
    NoJob = NoJob
    Auth = Auth
    MaxPolls = 1
    MaxEvents = 3
SPECIFICATION Spec
SYMMETRY Symmetry
CHECK_DEADLOCK FALSE
INVARIANTS
    TypeOK
    OneContinuation
    ChildrenAccounted
    StatusTellsTruth
    OutcomeMerged
    RunsWhenDue
