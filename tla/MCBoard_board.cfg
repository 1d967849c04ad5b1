SPECIFICATION MCSpec
CONSTANTS
    App = {1, 2}
    Proc = {p1}
    Targets = {"screening", "rejected"}
    MaxNow = 5
    Tab = {t1, t2}
    Limit = 1
    Ttl = 1
    Meeting = 1
    PER_SOURCE_LIMIT = 1
    MaxAttempts = 2
SYMMETRY Symmetry
INVARIANTS
    StalledIsTrue
    ViewsAgree
    DismissalHolds
CHECK_DEADLOCK FALSE
