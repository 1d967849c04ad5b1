SPECIFICATION MCSpec
CONSTANTS
    u1 = u1
    u2 = u2
    u3 = u3
    e1 = e1
    e2 = e2
    User = {u1, u2, u3}
    Email = {e1, e2}
    Invite = {i1, i2}
    Request = {r1, r2}
    MaxRequests = 3
    t1 = t1
    a1 = a1
    n1 = n1
    Template = {t1, t2, t3}
    Letter = {q1}
    Clerk = {p1, p2}
    Address = {a1, a2}
    Company = {n1, n2}
    Texts <- SomeTexts
    Ops <- SomeOps
    Kinds = {"rejection", "quiz_reminder"}
    CAP_PER_KIND = 2
    MAX_ATTEMPTS = 2
    MaxDesk = 3
SYMMETRY Symmetry
INVARIANTS
    AccountsHold
    SessionsEnd
    LettersHold
CHECK_DEADLOCK FALSE
