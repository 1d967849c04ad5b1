SPECIFICATION MCSpec
CONSTANTS
    i1 = i1
    i2 = i2
    i3 = i3
    i4 = i4
    a1 = a1
    a2 = a2
    a3 = a3
    Proc = {p1, p2}
    Interview = {i1, i2, i3, i4}
    App = {a1, a2, a3}
    AppOf <- Apps
    Dur <- Durations
    Slot = {1, 3, 5}
    MAX_INTERVIEW_MINUTES = 4
    None = None
    Ops <- AllOps
    MaxMoves = 1
    MaxAborts = 1
    Start = {3, 4}
    DAY = 2
    MaxNow = 4
    MaxSeq = 1
    MaxFaults = 1
SYMMETRY Symmetry
INVARIANTS
    TypeOK
    NoOverlap
    CalendarAgrees
    CardIsWithdrawn
    InvitationsHold
PROPERTIES
    SubmittedIsKept
CHECK_DEADLOCK FALSE
