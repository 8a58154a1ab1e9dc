SPECIFICATION TabSpec
CONSTANTS
    Users = {adm, emp}
    Admins = {adm}
    Changers = {adm, emp}
    Listers = {adm}
    Filters = {f1, f2}
    Tokens = {t1, t2}
    Slots = {s1, s2}
    Timer = timer
    MaxSecrets = 2
    MaxClicks = 3
    None = None
INVARIANTS
    TabTypeOK
    IdentityShown
    SecondFactorKept
    OwnChangesShown
PROPERTIES
    MonitorSettles
    RequestsSettle
CHECK_DEADLOCK FALSE
