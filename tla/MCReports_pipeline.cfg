SPECIFICATION Spec
CONSTANTS
    App = {a1}
    Proc = {p1, p2}
    Targets = {"interview", "offer", "hired", "rejected"}
    MaxNow = 8
    DayLength = 2
    MIN_N = 3
SYMMETRY Symmetry
INVARIANTS
    ClockFollowsStage
    ReportIsTrue
    DecisionIsKeptBack
CHECK_DEADLOCK FALSE
