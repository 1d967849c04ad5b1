----------------------------- MODULE MCReports -----------------------------
(***************************************************************************)
(* Instances of Reports for TLC.                                           *)
(***************************************************************************)
EXTENDS Reports, TLC

Symmetry == Permutations(Proc) \cup Permutations(App)
=============================================================================
