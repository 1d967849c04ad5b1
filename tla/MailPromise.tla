---------------------------- MODULE MailPromise ----------------------------
(***************************************************************************)
(* What the email outbox promises, one mail at a time and without any of   *)
(* its machinery (jobs, locks, workers, sweeper, requests): a mail that    *)
(* was accepted is pending; while it is pending it may be handed to the    *)
(* transport, and once settled (sent, or dropped because it failed, was    *)
(* suppressed or was cancelled) it is never handed over again.  A mail is  *)
(* settled as sent only after a hand-over.  The provider may report back   *)
(* about a mail it really received.                                        *)
(*                                                                         *)
(* The specification Outbox is shown to implement this one.                *)
(***************************************************************************)
EXTENDS Naturals

CONSTANT Mail    \* mails that may ever be queued

VARIABLES
    life,        \* life[m]: where mail m is in its life
    handed       \* handed[m]: how often the provider accepted mail m

vars == <<life, handed>>

Life == {"none", "pending", "sent", "dropped", "returned"}

Init ==
    /\ life = [m \in Mail |-> "none"]
    /\ handed = [m \in Mail |-> 0]

\* A request decided to mail somebody: the row is durable from now on.
Accept(m) ==
    /\ life[m] = "none"
    /\ life' = [life EXCEPT ![m] = "pending"]
    /\ UNCHANGED handed

\* The provider accepted the mail; the row does not know it yet.
HandOver(m) ==
    /\ life[m] = "pending"
    /\ handed' = [handed EXCEPT ![m] = @ + 1]
    /\ UNCHANGED life

Settle(m) ==
    /\ life[m] = "pending"
    /\ handed[m] > 0
    /\ life' = [life EXCEPT ![m] = "sent"]
    /\ UNCHANGED handed

\* One cancel may take several held mails of an application at once.
Drop(S) ==
    /\ S # {}
    /\ \A m \in S : life[m] = "pending"
    /\ life' = [m \in Mail |-> IF m \in S THEN "dropped" ELSE life[m]]
    /\ UNCHANGED handed

\* A bounce or a complaint, about a mail that did go out.
Return(m) ==
    /\ handed[m] > 0
    /\ life' = [life EXCEPT ![m] = "returned"]
    /\ UNCHANGED handed

Next ==
    \/ \E m \in Mail : Accept(m) \/ HandOver(m) \/ Settle(m) \/ Return(m)
    \/ \E S \in SUBSET Mail : Drop(S)

Spec == Init /\ [][Next]_vars
=============================================================================
