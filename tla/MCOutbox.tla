------------------------------ MODULE MCOutbox ------------------------------
(***************************************************************************)
(* Instances of Outbox for TLC: which requests each run admits.            *)
(***************************************************************************)
EXTENDS Outbox, TLC

Patch(s, m) == [route |-> "patch", target |-> s, mail |-> m]
Bulk(s, m) == [route |-> "bulk", target |-> s, mail |-> m]
\* A held mail and one to be sent at once, in any number of attempts.
OpsDeliver == {Patch("rejected", "held"), Bulk("interview", "now")}

Symmetry == Permutations(Req) \cup Permutations(Worker)
=============================================================================
