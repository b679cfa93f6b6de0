SPECIFICATION FairSpec
CONSTANTS
    j1 = j1
    j2 = j2
    Jobs = {j1, j2}
    Chapters = 2
    Batches = 1
    Retries = 2
    PowerWorks = {TRUE, FALSE}
INVARIANTS GuardMeansWork EveryChapterAccounted OutcomeOnce
PROPERTIES CancelStops GuardIsASet EveryDownloadEnds
CHECK_DEADLOCK FALSE
