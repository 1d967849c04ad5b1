------------------------------ MODULE MCIntake ------------------------------
(***************************************************************************)
(* Instances of Intake for TLC.                                            *)
(***************************************************************************)
EXTENDS Intake, TLC

CONSTANTS q1, q2, q3, python, sql

\* A question for each tag and one for both.
Tags == (q1 :> {python}) @@ (q2 :> {python, sql}) @@ (q3 :> {sql})

All == {"publish", "close", "delete", "form", "quiz", "block", "retire", "unlist"}

Symmetry == Permutations(Visitor) \cup Permutations(Admin)
            \cup Permutations(Job) \cup Permutations(Email)
=============================================================================
