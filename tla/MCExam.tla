------------------------------- MODULE MCExam -------------------------------
(***************************************************************************)
(* One candidate, one tab: the instance in which an attempt is an exam.    *)
(***************************************************************************)
EXTENDS Quiz, TLC

Everything == {"next", "answer", "reissue", "events", "grant", "dismiss", "ask"}

\* The candidate takes the quiz, the team re-issues it.
ExamNext ==
    /\ Next
    /\ \A p \in Proc : req'[p].pc # "idle" => req'[p].op \in {"next", "answer", "reissue"}

ExamSpec == Init /\ [][ExamNext]_vars /\ Fairness
=============================================================================
