SPECIFICATION Spec
CONSTANTS
    MaxEdits = 3
    MaxLeases = 2
    MaxMasters = 2
    Rows = {k1, k2}
    Secrets = {s1, s2}
    Randoms = {r1, r2}
    Nonces = {n1, n2}
    Aads = {a1, a2}
    Plaintexts = {t1, t2}
    Bytes = {0, 1}
INVARIANTS
    ClosedBeforeShred
    PinValid
PROPERTIES
    EditsKept
