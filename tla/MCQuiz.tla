------------------------------- MODULE MCQuiz -------------------------------
(***************************************************************************)
(* The instance of Quiz for TLC with two tabs.  One run plays two scenes:  *)
(* two tabs race through one attempt while telemetry comes in; and one tab *)
(* goes on while a member of the team grants extra time or dismisses flags *)
(* and a new link is asked for.                                            *)
(***************************************************************************)
EXTENDS Quiz, TLC

VARIABLE scene

AllButReissue == {"next", "answer", "events", "grant", "dismiss", "ask"}

OpsOf == [race |-> {"next", "answer", "events"},
          team |-> {"next", "grant", "dismiss", "ask"}]

MCInit == Init /\ scene \in {"race", "team"}

MCNext ==
    /\ Next
    /\ UNCHANGED scene
    /\ \A p \in Proc : req'[p].pc # "idle" => req'[p].op \in OpsOf[scene]
    /\ scene = "team" => Cardinality({c \in Tab : req'[c].pc # "idle"}) <= 1

MCSpec == MCInit /\ [][MCNext]_<<vars, scene>>

Symmetry == Permutations(Tab) \cup Permutations(Staff)
=============================================================================
