-------------------------------- MODULE Exam --------------------------------
(***************************************************************************)
(* What a quiz attempt promises a candidate who sends one request at a     *)
(* time: its N questions are asked one after the other, each is answered   *)
(* at most once or missed, and the score, given once when all have been    *)
(* asked, is the number of right answers.  Re-issues, extra time, reviews  *)
(* and telemetry do not show in it.                                        *)
(***************************************************************************)
EXTENDS Integers

CONSTANT N
VARIABLES
    asked,    \* questions asked so far
    open,     \* the last one still waits for its answer
    points,   \* right answers
    score     \* -1 until the exam is closed

vars == <<asked, open, points, score>>

Running == score = -1

Init == asked = 0 /\ open = FALSE /\ points = 0 /\ Running

\* A question still open when the next one is asked is missed.
Ask ==
    /\ Running /\ asked < N
    /\ asked' = asked + 1
    /\ open' = TRUE
    /\ UNCHANGED <<points, score>>

Answer ==
    /\ Running /\ open
    /\ open' = FALSE
    /\ points' \in {points, points + 1}
    /\ UNCHANGED <<asked, score>>

Close ==
    /\ Running /\ asked = N
    /\ score' = points
    /\ open' = FALSE
    /\ UNCHANGED <<asked, points>>

Next == Ask \/ Answer \/ Close

Spec == Init /\ [][Next]_vars
=============================================================================
