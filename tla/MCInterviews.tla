---------------------------- MODULE MCInterviews ----------------------------
(***************************************************************************)
(* The instances of Interviews and Invitations for TLC, one run of four    *)
(* scenes.  In two of module Interviews, times are quarters of an hour:    *)
(* two requests book, move and cancel a short and a long interview of two  *)
(* applications, the long one not at the last start; and two requests work *)
(* on the scorecard of one application with two interviews, one of them    *)
(* ending early.  In two of module Invitations, times are half days: the   *)
(* mails of two requests reach the calendars in any order, while the time  *)
(* stands still; and the reminders of a booking that is moved, cancelled   *)
(* or erased by one request after the other, with a failure.  The module a *)
(* scene is not about keeps still.                                         *)
(***************************************************************************)
EXTENDS Meetings, TLC

CONSTANTS i1, i2, i3, i4, a1, a2, a3

VARIABLE scene

Apps == (i1 :> a1) @@ (i2 :> a2) @@ (i3 :> a3) @@ (i4 :> a3)
Durations == (i1 :> 1) @@ (i2 :> 4) @@ (i3 :> 1) @@ (i4 :> 1)

AllOps == {"create", "book", "move", "cancel", "ask", "submit", "decline", "dismiss"}

OpsOf == [bookings   |-> {"create", "book", "move", "cancel"},
          scorecards |-> AllOps \ {"move"}]
AppsOf == [bookings |-> {a1, a2}, scorecards |-> {a3}]

MCInit == Init /\ V!Init /\ scene \in {"bookings", "scorecards", "calendars", "reminders"}

InterviewsNext ==
    /\ scene \in {"bookings", "scorecards"}
    /\ Next
    /\ UNCHANGED <<scene, invitations>>
    /\ \A p \in Proc : req'[p].pc # "idle" =>
         /\ req'[p].op \in OpsOf[scene]
         /\ req'[p].app \in AppsOf[scene]
         /\ scene = "scorecards" => req'[p].want \in {NoStart, 1}
    /\ scene = "bookings" =>
         /\ UNCHANGED aborts
         /\ \A p \in Proc : req'[p].app = a2 => req'[p].want # 5

\* What crosses is the subject of Interviews, and is not followed further here.
InvitationsNext ==
    /\ scene \in {"calendars", "reminders"}
    /\ ~overlapped
    /\ V!Next
    /\ UNCHANGED <<scene, vars>>
    /\ scene = "calendars" => UNCHANGED <<now, faults>>
    /\ scene = "reminders" =>
         /\ Cardinality({p \in Proc : task'[p] # V!Resting}) <= 1
         /\ outbox # {} => outbox' \subseteq outbox /\ outbox' # outbox

MCNext == InterviewsNext \/ InvitationsNext

MCSpec == MCInit /\ [][MCNext]_<<vars, scene, invitations>>

Symmetry == Permutations(Proc)
=============================================================================
