------------------------------- MODULE Office -------------------------------
(***************************************************************************)
(* The settings pages of a company: its team (module Team) beside its      *)
(* letters (module Letters).  The two share no table: what Letters calls   *)
(* left and crossed, Team has as variables of its own.                     *)
(***************************************************************************)
EXTENDS Team

CONSTANTS Template, Letter, Clerk, Address, Company, Texts, Ops, Kinds, CAP_PER_KIND,
          MAX_ATTEMPTS, MaxDesk

VARIABLES template, company, address, moved, row, post, shown, desk, pending, chosen, overtaken,
          unseen, crowded

letters == <<template, company, address, moved, row, post, shown, desk, pending,
             chosen, overtaken, unseen, crowded>>

L == INSTANCE Letters WITH left <- pending, crossed <- unseen

ASSUME LettersAreSound == L!LettersConstants

\* What the recruiter was shown is what is sent (module Letters).
LettersHold == L!LettersHold
=============================================================================
