SPECIFICATION Spec
SYMMETRY Symmetry
CONSTANTS
    Users = {alice}
    Admins = {}
    Keys = {k1}
    LeaseId = {l1, l2}
    Reqs = {r1, r2}
    TTLs = {1}
    Exclusive = TRUE
    RequireCheckout = TRUE
    Webhook = TRUE
    Faults = TRUE
    MaxTime = 3
    MaxCrashes = 1
INVARIANTS
    OneAlertEach
    OnTimeNeverEscalated
    DataKeyLeased
PROPERTY LeaseLifecycle
