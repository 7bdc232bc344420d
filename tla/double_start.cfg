CONSTANTS
    Groups = {1}
    Requests = {r1, r2}
    Collectors = {c1, c2}
    Forms <- OneForm
    Operations <- Control
    NoRow = NoRow
SPECIFICATION Spec
INVARIANTS AtMostOneCollector
SYMMETRY Symmetry
