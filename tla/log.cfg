CONSTANTS
    Loggers = {l1, l2}
    Capacity = 3
    MaxEntries = 8
    Clearing = {TRUE, FALSE}
    None = None
SPECIFICATION FairSpec
INVARIANTS Bounded OldestGoFirst
PROPERTIES PurgeEnds
CHECK_DEADLOCK FALSE
