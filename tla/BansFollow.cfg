SPECIFICATION Spec
CONSTANTS
    Requests = {r1, r2}
    Base = 2
    Factor = 3
    Unit = 2
    MaxBan = 4
    Window = 4
    MaxStrikes = 3
    Addresses = {a1, a2, p1, p2}
    Trusted = {p1, p2}
    Hops = 2
    Headers <- ShortHeaders
    Hosts = {h1, h2}
INVARIANTS
    StrikesTimed
PROPERTIES
    StrikesForgotten
    LetInAgain
    KernelFollows
