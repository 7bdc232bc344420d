CONSTANTS
    Groups = {1, 2}
    Requests = {r1, r2}
    Collectors = {c1, c2, c3}
    Forms <- RunForms
    Operations <- Control
    NoRow = NoRow
SPECIFICATION FairSpec
INVARIANTS NoPhantomRunning BootResetsStatus
PROPERTIES StopEndsCollection
