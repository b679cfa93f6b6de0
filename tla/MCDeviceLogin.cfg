SPECIFICATION FairSpec
CONSTANTS
    MaxLogins = 4
INVARIANTS
    ShownIsPolled
PROPERTIES
    StoredIsThisLogin
    ShownGoesAway
CHECK_DEADLOCK FALSE
