SPECIFICATION Spec
CONSTANTS
    Requests = {r1, r2}
    Costs = {1, 3}
    Capacity = 4
    Refill = 2
    Modes <- ModesInForce
    Slack = 1
    MaxLag = 1
    FallbackBurst = 3
    FallbackRefill = 2
    MaxIdentities = 2
    MaxClock = 4
    None = None
SYMMETRY RequestSymmetry
CHECK_DEADLOCK FALSE
INVARIANTS
    PaidFor
    RetryKept
