SPECIFICATION FairSpec
CONSTANTS
    Source = {s1}
    Endpoint = {e1}
    Worker = {w1, w2}
    MAX_ATTEMPTS = 3
    MaxJobs = 2
    MaxCrashes = 1
INVARIANTS
    LogIsTrue
PROPERTIES
    SettledStaysSettled
    EveryDeliverySettles
CHECK_DEADLOCK FALSE
