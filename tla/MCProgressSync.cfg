SPECIFICATION Spec
CONSTANTS
    b1 = b1
    b2 = b2
    Books = {b1, b2}
    NoBook = NoBook
    Documents <- MCDocuments
    NoDocument = NoDocument
    Whole = Whole
    Unmapped = Unmapped
    Unknown = Unknown
    LastPosition = 2
    ChapterLength = 2
    Threshold = 1
    Attempts = 2
    Configs <- MCConfigs
    AwayWhen = {"closed"}
    MaxEvents = 4
INVARIANTS TypeOK AboutThisDocument FlagsMatchTasks
PROPERTIES CloseUploads
CHECK_DEADLOCK FALSE
