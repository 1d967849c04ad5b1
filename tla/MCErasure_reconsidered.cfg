SPECIFICATION Spec
CONSTANTS
    a1 = a1
    a2 = a2
    ann = ann
    backend = backend
    worker = worker
    Proc = {backend, worker}
    Duty <- Duties
    App = {a1, a2}
    Cand = {c1}
    Email = {ann}
    OwnerOf <- OnePerson
    EmailOf <- OneEmail
    None = None
    Movers = {a1}
    DumpEarly = FALSE
    MaxRestores = 1
    MaxFaults = 1
PROPERTIES
    ReconsideredIsKept
CHECK_DEADLOCK FALSE
