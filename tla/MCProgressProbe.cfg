SPECIFICATION Spec
CONSTANTS
    Uids = {c1}
    NoValue = NoValue
    FieldSets <- MCFieldSets
    MaxOffset = 1
    ProbeDistance = 1
    MaxMoves = 1
INVARIANTS
    ProbeIsTakenBack
    AlarmMeansMoved
PROPERTIES
    KeepsPromise
    Ends
CHECK_DEADLOCK FALSE
