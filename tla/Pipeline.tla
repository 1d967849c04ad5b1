------------------------------ MODULE Pipeline ------------------------------
(***************************************************************************)
(* The stage of the applications of one job, and the history it leaves:    *)
(*   services/applications.py  stamp_decision, move_stage, set_stage,      *)
(*                             bulk_set_stage, bulk_reject                 *)
(*   api/applications.py       set_stage, bulk_stage, bulk_reject          *)
(*   api/public.py             withdraw_application                        *)
(*   services/activity.py      record                                      *)
(*                                                                         *)
(* A request opens its transaction (its first query finds the caller),     *)
(* loads the applications it is to move, and commits.  Rows are not locked:*)
(* of each loaded row the commit writes the columns that differ from what  *)
(* was loaded, over whatever another request committed meanwhile.  The     *)
(* history row written along is stamped with the transaction's start.      *)
(*                                                                         *)
(* What module Outbox has of the rejection mail is one bit here: it is     *)
(* still scheduled, or not.                                                *)
(***************************************************************************)
EXTENDS Naturals, Sequences, FiniteSets

CONSTANTS
    App,        \* applications of the job
    Proc,       \* API processes
    Targets,    \* the stages the team moves to in a run
    MaxNow      \* bound: moments (requests begun, transactions committed)

FUNNEL_ORDER == <<"new", "screening", "interview", "offer", "hired">>
OUTCOMES == {"rejected", "withdrawn"}
Stage == {FUNNEL_ORDER[i] : i \in DOMAIN FUNNEL_ORDER} \cup OUTCOMES

\* The stages that end an application: they start its retention clock.
TERMINAL_STAGES == OUTCOMES \cup {"hired"}
REASON_STAGES == OUTCOMES

ASSUME TargetsAreStages == Targets \subseteq Stage
ASSUME TimeIsBounded == MaxNow \in Nat

Never == 0      \* a NULL timestamp; the first moment is 1

\* The payloads: a PATCH of one application, a bulk move (never to withdrawn),
\* a bulk rejection (a bulk move to rejected is one), the candidate's withdrawal.  A rejection may carry a
\* reason and a mail held back; a withdrawal has its own reason.
Request ==
    [kind : {"patch"}, apps : {{a} : a \in App}, to : Targets \ {"rejected"},
     why : {"none"}, hold : {FALSE}]
      \cup [kind : {"bulk"}, apps : SUBSET App \ {{}}, to : Targets \ OUTCOMES,
            why : {"none"}, hold : {FALSE}]
      \cup [kind : {"patch"}, apps : {{a} : a \in App}, to : Targets \cap {"rejected"},
            why : {"none", "picked"}, hold : BOOLEAN]
      \cup [kind : {"reject"}, apps : SUBSET App \ {{}}, to : Targets \cap {"rejected"},
            why : {"none", "picked"}, hold : BOOLEAN]
      \cup [kind : {"withdraw"}, apps : {{a} : a \in App}, to : {"withdrawn"},
            why : {"withdrew"}, hold : {FALSE}]

VARIABLES
    now,        \* the clock: every begin and every commit is a moment of its own
    row,        \* applications: stage, decided_at, stage_changed_at, rejection_reason
    log,        \* activity_log: the stage.changed rows of each application
    held,       \* applications whose rejection mail is still scheduled
    pc, op,     \* control state and payload of each request
    start,      \* created_at its history rows get: when its transaction began
    got,        \* the rows it loaded, of the applications it will move
    was,        \* history: the stages each application was in, as committed
    crossed     \* history: applications with moves that overlapped in time

reqVars == <<pc, op, start, got>>
vars == <<now, row, log, held, reqVars, was, crossed>>

Row == [stage : Stage, decided : Nat, changed : Nat, reason : {"none", "picked", "withdrew"}]
Entry == [at : Nat, from : Stage, to : Stage]
Visit == [stage : Stage, at : Nat, begun : Nat]
NoOp == [kind |-> "none", apps |-> {}, to |-> "new", why |-> "none", hold |-> FALSE]

\* An application is created new, at moment 1.
Init ==
    /\ now = 2
    /\ row = [a \in App |-> [stage |-> "new", decided |-> Never, changed |-> 1, reason |-> "none"]]
    /\ log = [a \in App |-> {}]
    /\ held = {}
    /\ pc = [p \in Proc |-> "idle"]
    /\ op = [p \in Proc |-> NoOp]
    /\ start = [p \in Proc |-> Never]
    /\ got = [p \in Proc |-> <<>>]
    /\ was = [a \in App |-> <<[stage |-> "new", at |-> 1, begun |-> 1]>>]
    /\ crossed = {}
-----------------------------------------------------------------------------
(***************************************************************************)
(* move_stage, as an UPDATE: old is the row loaded, cur the row committed. *)
(***************************************************************************)
\* A column is written when it differs from the loaded value.
Column(old, new, cur) == IF new = old THEN cur ELSE new

\* Mutant of DecidedAt: reopening leaves the clock running.
DecidedForGood(old, to) == IF to \in TERMINAL_STAGES THEN now ELSE old.decided
\* stamp_decision
DecidedAt(old, to) == IF to \in TERMINAL_STAGES THEN now ELSE Never

ReasonFor(old, to, why) ==
    IF to \in REASON_STAGES THEN why
    ELSE IF old.stage \in REASON_STAGES THEN "none"
    ELSE old.reason

Moved(cur, old, to, why) ==
    [stage   |-> to,
     decided |-> Column(old.decided, DecidedAt(old, to), cur.decided),
     changed |-> now,
     reason  |-> Column(old.reason, ReasonFor(old, to, why), cur.reason)]

\* The rows a request selects: single routes look the stage over after loading
\* it, the bulk routes in the WHERE clause.  A decided application cannot be
\* withdrawn, save one whose rejection mail has not gone out.
Movable(o) ==
    {a \in o.apps :
        /\ row[a].stage # o.to
        /\ o.kind \in {"bulk", "reject"} => row[a].stage # "withdrawn"
        /\ o.kind = "withdraw" =>
              /\ row[a].stage # "hired"
              /\ row[a].stage = "rejected" => a \in held}
-----------------------------------------------------------------------------
(***************************************************************************)
(* A request.                                                              *)
(***************************************************************************)
\* The request ends; its session is closed.
Done(p) ==
    /\ pc' = [pc EXCEPT ![p] = "idle"]
    /\ op' = [op EXCEPT ![p] = NoOp]
    /\ start' = [start EXCEPT ![p] = Never]
    /\ got' = [got EXCEPT ![p] = <<>>]

Begin(p, o) ==
    /\ pc[p] = "idle"
    /\ now < MaxNow
    /\ now' = now + 1
    /\ pc' = [pc EXCEPT ![p] = "begun"]
    /\ op' = [op EXCEPT ![p] = o]
    /\ start' = [start EXCEPT ![p] = now]
    /\ UNCHANGED <<row, log, held, got, was, crossed>>

\* Nothing to move: nothing is written (200, or a 409 for a withdrawal).
LoadNothing(p) ==
    /\ pc[p] = "begun"
    /\ Movable(op[p]) = {}
    /\ Done(p)
    /\ UNCHANGED <<now, row, log, held, was, crossed>>

Load(p) ==
    /\ pc[p] = "begun"
    /\ Movable(op[p]) # {}
    /\ got' = [got EXCEPT ![p] = [a \in Movable(op[p]) |-> row[a]]]
    /\ pc' = [pc EXCEPT ![p] = "loaded"]
    /\ UNCHANGED <<now, row, log, held, op, start, was, crossed>>

\* Mail again: a PATCH of a rejected application to rejected queues the mail
\* only, unless one is scheduled (or, in module Outbox, was queued or sent: 409).
MailAgain(p) ==
    /\ pc[p] = "begun"
    /\ op[p].kind = "patch" /\ op[p].to = "rejected"
    /\ op[p].hold /\ op[p].why = "none"
    /\ \A a \in op[p].apps : row[a].stage = "rejected" /\ a \notin held
    /\ got' = [got EXCEPT ![p] = [a \in op[p].apps |-> row[a]]]
    /\ pc' = [pc EXCEPT ![p] = "mail"]
    /\ UNCHANGED <<now, row, log, held, op, start, was, crossed>>

\* A withdrawal that found the mail scheduled cancels it along; when the worker
\* released it meanwhile, everything is rolled back (409).
TooLate(p) ==
    /\ op[p].kind = "withdraw"
    /\ \E a \in DOMAIN got[p] : got[p][a].stage = "rejected" /\ a \notin held

Rollback(p) ==
    /\ pc[p] = "loaded"
    /\ TooLate(p)
    /\ Done(p)
    /\ UNCHANGED <<now, row, log, held, was, crossed>>

\* The history row of one move.
Recorded(p, a) == [at |-> start[p], from |-> got[p][a].stage, to |-> op[p].to]

\* Mutant of History: bulk_reject records its summary only, not a row per application.
HistorySummary(p) ==
    [a \in App |-> IF a \in DOMAIN got[p] /\ op[p].kind # "reject"
                   THEN log[a] \cup {Recorded(p, a)} ELSE log[a]]
\* The history after the commit of request p.
History(p) ==
    [a \in App |-> IF a \in DOMAIN got[p] THEN log[a] \cup {Recorded(p, a)} ELSE log[a]]

\* One transaction moves every loaded row and records each move.  What the
\* routes do with the mail after the commit follows in its own transaction.
Commit(p) ==
    /\ pc[p] = "loaded"
    /\ ~TooLate(p)
    /\ now < MaxNow
    /\ now' = now + 1
    /\ row' = [a \in App |-> IF a \in DOMAIN got[p]
                             THEN Moved(row[a], got[p][a], op[p].to, op[p].why) ELSE row[a]]
    /\ log' = History(p)
    /\ held' = IF op[p].kind = "withdraw" THEN held \ op[p].apps ELSE held
    /\ was' = [a \in App |->
                  IF a \in DOMAIN got[p]
                  THEN Append(was[a], [stage |-> op[p].to, at |-> now, begun |-> start[p]])
                  ELSE was[a]]
    /\ crossed' = crossed \cup {a \in DOMAIN got[p] : was[a][Len(was[a])].at > start[p]}
    /\ IF op[p].kind = "withdraw" THEN Done(p)
       ELSE pc' = [pc EXCEPT ![p] = "mail"] /\ UNCHANGED <<op, start, got>>

\* Moved to rejected: the mail is queued, held back or at once.  Moved to
\* another stage: a mail still held is cancelled; the single route does so only
\* for an application it found rejected.
Mail(p) ==
    /\ pc[p] = "mail"
    /\ LET S == DOMAIN got[p]
       IN  held' = IF op[p].to = "rejected"
                     THEN IF op[p].hold THEN held \cup S ELSE held
                   ELSE held \ {a \in S : op[p].kind = "patch" => got[p][a].stage = "rejected"}
    /\ Done(p)
    /\ UNCHANGED <<now, row, log, was, crossed>>

\* The worker delivers a held mail, or drops it (module Outbox).
Release(a) ==
    /\ a \in held
    /\ held' = held \ {a}
    /\ UNCHANGED <<now, row, log, reqVars, was, crossed>>

Next ==
    \/ \E p \in Proc :
          \/ \E o \in Request : Begin(p, o)
          \/ LoadNothing(p) \/ Load(p) \/ MailAgain(p) \/ Rollback(p) \/ Commit(p) \/ Mail(p)
    \/ \E a \in App : Release(a)

Spec == Init /\ [][Next]_vars
-----------------------------------------------------------------------------
TypeOK ==
    /\ now \in Nat /\ now >= 2
    /\ row \in [App -> Row]
    /\ log \in [App -> SUBSET Entry]
    /\ held \subseteq App
    /\ pc \in [Proc -> {"idle", "begun", "loaded", "mail"}]
    /\ op \in [Proc -> Request \cup {NoOp}]
    /\ start \in [Proc -> Nat]
    /\ DOMAIN got = Proc
    /\ \A p \in Proc : DOMAIN got[p] \subseteq App /\ \A a \in DOMAIN got[p] : got[p][a] \in Row
    /\ was \in [App -> Seq(Visit)]
    /\ crossed \subseteq App

\* A decided application always has its retention clock running, whatever
\* requests crossed; and one nobody is deciding on has neither a clock nor a
\* reason, unless two of its moves overlapped.
ClockFollowsStage ==
    \A a \in App :
      /\ row[a].stage \in TERMINAL_STAGES => row[a].decided # Never
      /\ a \notin crossed =>
           /\ row[a].stage \notin TERMINAL_STAGES => row[a].decided = Never
           /\ row[a].stage \notin REASON_STAGES => row[a].reason = "none"
           /\ row[a].changed = was[a][Len(was[a])].at
-----------------------------------------------------------------------------
(***************************************************************************)
(* What the proofs need besides.                                           *)
(***************************************************************************)
LastMove(a) == was[a][Len(was[a])]

\* The past is over: nothing loaded, written or begun is stamped with a moment
\* still to come.
PastIsOver ==
    /\ \A a \in App :
          /\ row[a].decided < now /\ row[a].changed < now
          /\ \A i \in DOMAIN was[a] :
               /\ was[a][i].begun <= was[a][i].at /\ was[a][i].at < now
               /\ i # 1 => was[a][i].begun < was[a][i].at
    /\ \A p \in Proc :
          /\ start[p] < now
          /\ \A a \in DOMAIN got[p] : got[p][a].decided < now

\* The history of an application starts when it was created and ends where it is.
HistoryIsWhole ==
    \A a \in App :
      /\ was[a] # <<>>
      /\ was[a][1] = [stage |-> "new", at |-> 1, begun |-> 1]
      /\ row[a].stage = LastMove(a).stage

\* The rows of activity_log are the moves there were, from a stage there was.
LogIsHistory ==
    \A a \in App :
      /\ \A i \in DOMAIN was[a] \ {1} :
           \E e \in log[a] : e.at = was[a][i].begun /\ e.to = was[a][i].stage
      /\ \A e \in log[a] :
           /\ e.from # e.to
           /\ \E i \in DOMAIN was[a] : e.from = was[a][i].stage
           /\ \E i \in DOMAIN was[a] : e.at = was[a][i].begun /\ e.to = was[a][i].stage

\* Where no moves overlapped, each was begun after the one before, and is
\* recorded as leaving the stage that one led to.
MovesAreChained ==
    \A a \in App \ crossed :
      /\ \A i, j \in DOMAIN was[a] : i < j => was[a][i].at <= was[a][j].begun
      /\ \A e \in log[a] : \E i \in DOMAIN was[a] \ {1} :
           e = [at |-> was[a][i].begun, from |-> was[a][i - 1].stage, to |-> was[a][i].stage]

\* What a request loaded is a stage the application was in and not the one it
\* moves it to; and it is what the row still holds, unless another move was
\* committed since the request began.
CopyIsCurrent ==
    \A p \in Proc : pc[p] = "loaded" =>
      /\ op[p] \in Request
      /\ \A a \in DOMAIN got[p] :
           /\ got[p][a].stage # op[p].to
           /\ \E i \in DOMAIN was[a] : got[p][a].stage = was[a][i].stage
           /\ LastMove(a).at <= start[p] => got[p][a] = row[a]

\* The inductive invariant.
IInv ==
    /\ TypeOK /\ PastIsOver /\ HistoryIsWhole /\ LogIsHistory /\ MovesAreChained
    /\ CopyIsCurrent /\ ClockFollowsStage
=============================================================================
