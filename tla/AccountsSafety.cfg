SPECIFICATION Spec
SYMMETRY Symmetry
CONSTANTS
    Names = {n1, n2}
    Tokens = {t1}
    ApiKeys = {k1}
    Reqs = {r1, r2}
    MaxAttempts = 1
    None = None
    Characters = {x, bar}
    Separator = bar
    Null = Null
    Grain = 2
INVARIANTS
    ThrottleBound
    CredentialsLive
    AdminKept
