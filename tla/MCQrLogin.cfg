SPECIFICATION FairSpec
CONSTANTS
    MaxFaults = 2
INVARIANTS
    QrFileIsRemoved
PROPERTIES
    Ends
CHECK_DEADLOCK FALSE
