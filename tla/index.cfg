CONSTANTS
    MaxFile = 3
    Requests = {r1}
    MaxRequests = 3
    MayAge = TRUE
    MayGrow = TRUE
    Pruner = Pruner
    None = None
SPECIFICATION FairSpec
INVARIANTS IndexIsOneWalk
PROPERTIES SelectedAreFound DiesByOverlap OldAreRemoved
CHECK_DEADLOCK FALSE
