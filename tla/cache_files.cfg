CONSTANTS
    Interval = 2
    Consoles = {TRUE, FALSE}
    MaxMinute = 4
    MaxMessages = 3
    MaxStarts = 2
    MaxTroubles = 2
    None = None
SPECIFICATION Spec
INVARIANTS KeepsEveryMessage KeepsOrder FiledByTime Framed
PROPERTY LosesOnlyTheLast
CHECK_DEADLOCK FALSE
