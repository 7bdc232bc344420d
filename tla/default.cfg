CONSTANTS
    Groups = {1, 2, 3}
    Requests = {r1}
    Collectors = {c1}
    Forms <- DefaultForms
    Operations <- Administer
    NoRow = NoRow
SPECIFICATION Spec
INVARIANTS SingleDefault
PROPERTIES ListLeavesOneDefault
