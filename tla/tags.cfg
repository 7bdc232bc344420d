CONSTANTS
    a = a
    b = b
    Names = {a, b}
    Groups = {1, 2}
    Default = 1
    GroupIds = {0, 1, 2, 3}
    Imports <- Files
    Ids = {1, 2, 3}
    Operators = {o1}
    Requests = {r1, r2}
    MaxAsked = 3
    NoRow = NoRow
SPECIFICATION Spec
SYMMETRY Symmetry
INVARIANTS AsAsked
PROPERTIES NoTagIsLost
CHECK_DEADLOCK FALSE
