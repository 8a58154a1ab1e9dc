SPECIFICATION Spec
CONSTANTS
    Tasks = {t1, t2}
    Threshold = 3
    Reset = 2
    FailOpen = TRUE
    MaxFailures = 5
    Environments = {production, development}
    Production = {production}
    Items = {net1, net2, word}
    Networks = {net1, net2}
INVARIANTS
    OpensOnStreak
    OutageLoad
    FallbackOnlyFirst
PROPERTIES
    OpensApart
    Answered
    Recovers
