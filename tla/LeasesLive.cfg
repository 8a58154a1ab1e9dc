SPECIFICATION Spec

CONSTANTS
    Users = {alice}
    Admins = {}
    Keys = {k1}
    LeaseId = {l1, l2}
    Reqs = {r1}
    TTLs = {1}
    Exclusive = FALSE
    RequireCheckout = FALSE
    Webhook = TRUE
    Faults = TRUE
    MaxTime = 3
    MaxCrashes = 1
PROPERTIES OverdueHandled ImplementsContract
