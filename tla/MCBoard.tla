------------------------------ MODULE MCBoard ------------------------------
(***************************************************************************)
(* Instances of Board for TLC.  One run plays two scenes: the candidates'  *)
(* quizzes and interviews while stages move, nobody at the dashboard; and  *)
(* two dashboard requests while interviews come and go and roles stall.    *)
(***************************************************************************)
EXTENDS Board, TLC

VARIABLE scene

MCInit ==
    /\ BoardInit
    /\ scene \in {"candidates", "dashboard"}
    /\ scene = "dashboard" => ~job.quiz

\* One application, whose stage is moved without reason or mail.
OneCandidate ==
    /\ UNCHANGED tab /\ job'.quiz = job.quiz
    /\ \A a \in App \ {1} : quiz'[a] = quiz[a] /\ interview'[a] = interview[a]
    /\ \A p \in Proc :
         /\ op'[p].kind \in {"none", "patch", "withdraw"}
         /\ op'[p].apps \subseteq {1} /\ op'[p].why # "picked" /\ ~op'[p].hold

\* No stage moves and no interview is booked; it ends when the role can stall.
Dashboard ==
    /\ UNCHANGED reqVars /\ now' <= 3
    /\ \A a \in App : interview'[a].status # "booked"

MCNext ==
    /\ BoardNext
    /\ UNCHANGED scene
    /\ IF scene = "candidates" THEN OneCandidate ELSE Dashboard

MCSpec == MCInit /\ [][MCNext]_<<allVars, scene>>

Symmetry == Permutations(Tab)
=============================================================================
