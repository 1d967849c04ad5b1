SPECIFICATION Spec
CONSTANTS
    Req = {q1, q2}
    Worker = {w1}
    None = None
    Ops <- AllOps
    MAX_ATTEMPTS = 2
    MaxJobs = 1
    MaxFaults = 1
SYMMETRY Symmetry
INVARIANTS
    TypeOK
PROPERTIES
    CancelledNeverSent
    WithdrawTakesBack
    ImplementsPromise
