SPECIFICATION Spec
CONSTANTS
    Names = {k1, k2}
    Pairs = {p1, p2, p3, p4}
    Reqs = {r1, r2}
    Free = free
    Deletes = TRUE
    Faults = TRUE
    MaxCrashes = 1
SYMMETRY Symmetry
INVARIANT KeyTableOK
PROPERTIES SealsWithCurrentKey ImplementsCatalog
