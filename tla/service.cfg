CONSTANTS
    Commands = {c1, c2}
    Nil = Nil
SPECIFICATION ServiceFairSpec
INVARIANTS AllOrNothing
PROPERTIES StopEnds
