SPECIFICATION Spec
CONSTANTS
    q1 = q1
    q2 = q2
    q3 = q3
    python = python
    sql = sql
    Visitor = {v1, v2}
    Admin = {b1, b2}
    Job = {j1, j2}
    Email = {e1, e2}
    Screening = {s1}
    Required = {s1}
    Question = {q1, q2, q3}
    Tag = {python, sql}
    TagsOf <- Tags
    Listed = {q1}
    QuizCount = 2
    APPLICATIONS = 1
    EMAILS = 1
    ACTIVE_JOBS = 1
    Edits <- All
    MaxSubmits = 2
    MaxEvents = 2
SYMMETRY Symmetry
INVARIANTS
    TypeOK
    LimitsHold
    AcceptedIsAnswered
    DrawIsFair
CHECK_DEADLOCK FALSE
