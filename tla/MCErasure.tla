----------------------------- MODULE MCErasure -----------------------------
(***************************************************************************)
(* Instances of Erasure for TLC.                                           *)
(***************************************************************************)
EXTENDS Erasure

CONSTANTS a1, a2, ann, backend, worker

\* One person with two applications.
OnePerson == [a \in App |-> ann]
OneEmail == [c \in Cand |-> ann]

\* The operator replays the tombstones from the backend's container.
Duties == [p \in Proc |-> IF p = worker THEN {"purge"} ELSE Op \ {"purge"}]
=============================================================================
