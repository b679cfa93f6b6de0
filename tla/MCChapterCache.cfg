SPECIFICATION FairSpec
CONSTANTS
    LastChapter = 2
    MaxEvents = 4
INVARIANTS CountedIsCached DoneIsCached
PROPERTIES CachedStays CancelStops ClearedIsGone TaskEnds
CHECK_DEADLOCK FALSE
