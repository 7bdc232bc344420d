CONSTANTS
    Connections = {c1, c2, c3}
    Objects = {o1, o2, o3}
    Notifiers = {n1, n2}
    None = None
SPECIFICATION FairSpec
INVARIANTS DropIsSafe LiveStaySubscribed SlotsAreOpen
PROPERTIES GoneAreReleased
CHECK_DEADLOCK FALSE
