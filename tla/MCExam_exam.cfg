SPECIFICATION ExamSpec
CONSTANTS
    Tab = {c1}
    Staff = {s1}
    N = 2
    AutoLink = FALSE
    Ops <- Everything
    MaxAttempts = 2
    MaxCrashes = 1
INVARIANTS
    OneTabExam
PROPERTIES
    ImplementsExam
    QuizEnds
CHECK_DEADLOCK FALSE
