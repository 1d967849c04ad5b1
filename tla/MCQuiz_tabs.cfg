SPECIFICATION MCSpec
CONSTANTS
    Tab = {c1, c2}
    Staff = {s1}
    N = 2
    AutoLink = TRUE
    Ops <- AllButReissue
    MaxAttempts = 2
    MaxCrashes = 0
INVARIANTS
    TypeOK
    QuestionsServed
PROPERTIES
    AnswersAreKept
SYMMETRY Symmetry
CHECK_DEADLOCK FALSE
