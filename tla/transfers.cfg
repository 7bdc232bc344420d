CONSTANTS
    Files <- MCFiles
    Dirs <- MCDirs
    Root = "."
    Parent <- MCParent
    Rank <- MCRank
    Installations <- All
    MaxUploads = 3
    MaxPackets = 1
    MaxFaults = 1
    None = None
SPECIFICATION FairSpec
INVARIANTS SentAtMostOnce DoneWasSentWhole SentInSequence AnnouncedSize
PROPERTIES Delivers
CHECK_DEADLOCK FALSE
