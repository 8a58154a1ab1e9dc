SPECIFICATION Spec
SYMMETRY Symmetry
CONSTANTS
    Clients = {i1, i2}
    VIPs = {i2}
    Challenges = {c1}
    Requests = {r1, r2}
    Second = 2
    TTL = 4
    PassTTL = 2
    MaxLag = 1
    MaxClock = 9
    None = None
INVARIANTS
    UsedOnce
    PassEarned
CHECK_DEADLOCK FALSE
