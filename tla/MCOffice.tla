------------------------------ MODULE MCOffice ------------------------------
(***************************************************************************)
(* What a team does on its settings pages, for TLC, in one run of seven    *)
(* scenes.  Four are of module Team: roles and removals of a team of two;  *)
(* the interviews of a team of two beside removals; invites of a company   *)
(* just registered; the sessions of a team of two.  Three are of module    *)
(* Letters: a held mail of a candidate whose address is corrected; the     *)
(* default templates of a kind; a mail of every kind while its template    *)
(* and the company change.  The module that a scene is not about keeps     *)
(* still.                                                                  *)
(***************************************************************************)
EXTENDS Office, TLC

CONSTANTS u1, u2, u3, e1, e2, t1, a1, n1

VARIABLE scene

Words == INSTANCE Mails

SomeTexts == {Words!Text("one", {"candidate_name"}), Words!Text("two", {"assessment_thanks"}),
          Words!Text("three", {"valid_until"})}

OpFor(kind, ref, edit, held, again) ==
    [kind |-> kind, ref |-> ref, edit |-> edit, held |-> held, again |-> again]

Held == OpFor("rejection", "default", FALSE, TRUE, FALSE)

\* Templates by name, by default and built in; edited, held and mailed again.
SomeOps ==
    {Held, [Held EXCEPT !.ref = t1], [Held EXCEPT !.again = TRUE], [Held EXCEPT !.edit = TRUE],
     OpFor("message", "builtin", TRUE, FALSE, FALSE)}
      \cup {OpFor(kind, "default", FALSE, FALSE, FALSE) : kind \in {"quiz_reminder", "quiz_invite"}}
      \cup {OpFor(kind, "builtin", FALSE, FALSE, FALSE) :
              kind \in Words!Account \cup {"stage_advance", "application_received", "scorecard_request"}}

OpsOf == [admins     |-> {"update", "anonymize"},
          interviews |-> {"anonymize", "interview", "book"},
          invites    |-> {"create", "invite", "resend", "revoke", "accept", "anonymize"},
          sessions   |-> {"update", "signout"}]

DeskOf == [held     |-> {"correct"},
           defaults |-> {"create", "delete", "default", "reset"},
           kinds    |-> {"update", "delete", "default", "reset"}]
DeskRequests == [held |-> 2, defaults |-> 3, kinds |-> 1]

TeamScene == DOMAIN OpsOf
LetterScene == DOMAIN DeskOf

\* An admin and whoever it has created, both signed in.
TwoUsers == \E role \in Role :
    Start([v \in User |-> CASE v = u1 -> Member(e1, "admin") [] v = u2 -> Member(e2, role)
                             [] OTHER -> Nobody])

TeamStill == TwoUsers /\ user[u2].role = "member"
LettersStill ==
    /\ template[t1] = [kind |-> "rejection", text |-> Words!Text("one", {"candidate_name"}), default |-> TRUE]
    /\ pending = 0
    /\ \A q \in Letter : post[q].op = Held

LettersInit ==
    /\ L!Init
    /\ company = n1 /\ address = a1 /\ L!Exists(t1)
    /\ IF scene \in TeamScene THEN LettersStill
       ELSE /\ pending = DeskRequests[scene]
            /\ template[t1].text.words = "one"
            /\ scene = "held" => template[t1].default /\ \A q \in Letter : post[q].op = Held
            /\ scene = "defaults" => template[t1].kind = "rejection"
                                     /\ \A q \in Letter : post[q].op.kind = "message"

MCInit ==
    /\ scene \in TeamScene \cup LetterScene
    /\ IF scene = "invites" THEN Init ELSE IF scene \in TeamScene THEN TwoUsers ELSE TeamStill
    /\ LettersInit

TeamNext ==
    /\ scene \in TeamScene
    /\ Next
    /\ \A r \in Request : req'[r].op \in OpsOf[scene] \cup {"idle"}
    /\ scene # "sessions" => UNCHANGED links
    /\ scene = "invites" => issued' \subseteq issued \cup (User \X {0})
    /\ UNCHANGED <<scene, letters>>

LettersNext ==
    /\ scene \in LetterScene
    /\ L!Next
    /\ \A p \in Clerk : /\ desk'[p].op \in DeskOf[scene] \cup {"idle"}
                       /\ desk'[p].op = "create" =>
                            desk'[p].on = "rejection" /\ desk'[p].new.words = "one"
    /\ scene = "defaults" => UNCHANGED <<post, company>>
    /\ scene = "held" => UNCHANGED company
    /\ UNCHANGED <<scene, vars>>

MCNext == TeamNext \/ LettersNext

MCSpec == MCInit /\ [][MCNext]_<<vars, scene, letters>>

Symmetry == Permutations(Request) \cup Permutations(Clerk)
=============================================================================
