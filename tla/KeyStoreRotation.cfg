SPECIFICATION Spec
CONSTANTS
    Names = {k1}
    Pairs = {p1, p2, p3, p4}
    Reqs = {r1, r2, r3}
    Free = free
    Deletes = FALSE
    Faults = FALSE
    MaxCrashes = 1
SYMMETRY Symmetry
INVARIANT EnvelopeFindsItsKey
