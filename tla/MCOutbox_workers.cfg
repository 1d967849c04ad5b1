SPECIFICATION FairSpec
CONSTANTS
    Req = {q1, q2}
    Worker = {w1, w2}
    None = None
    Ops <- OpsDeliver
    MAX_ATTEMPTS = 2
    MaxJobs = 1
    MaxFaults = 1
INVARIANTS
    ProviderAsLogged
PROPERTIES
    NeverEarly
    EveryMailSettles
