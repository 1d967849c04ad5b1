------------------------------- MODULE Outbox -------------------------------
(***************************************************************************)
(* The email outbox and the delayed rejection of one application:          *)
(*   api/applications.py   set_stage, bulk_stage, bulk_reject              *)
(*   api/public.py         withdraw_application, application_status        *)
(*   services/outbox.py    queue_email, stuck_rows, due_scheduled_rows     *)
(*   services/scheduled_emails.py   the cancels of a held mail             *)
(*   services/suppression.py        apply_events                           *)
(*   worker.py             deliver_email, sweep_outbox                     *)
(*                                                                         *)
(* A request runs in one API process and commits several transactions one  *)
(* after the other; it may be killed between two of them (Abort).  A       *)
(* delivery job holds the row lock (SELECT .. FOR UPDATE) from its first   *)
(* read to its commit; it may be killed too, and its transaction is then   *)
(* rolled back (WorkerCrash).  Committed state is what the variables       *)
(* stage and rows show: what a transaction has not committed yet lives in  *)
(* the control state of its process.                                       *)
(***************************************************************************)
EXTENDS Naturals

CONSTANTS
    Req,            \* requests that move the stage; each queues at most one mail
    Worker,         \* concurrent executions of deliver_email
    None,           \* nobody
    Ops,            \* the requests a run admits, a subset of AllOps
    MAX_ATTEMPTS,   \* outbox.MAX_ATTEMPTS
    MaxJobs,        \* bound: delivery jobs of one mail waiting in redis
    MaxFaults       \* bound: processes killed and provider answers lost in a behaviour

Stage == {"interview", "hired", "rejected", "withdrawn"}

\* "interview" stands for every open stage.  A mail goes with a move to
\* interview (stage_advance) or to rejected (rejection, at once or held).
AllOps ==
    [route : {"patch"}, target : {"hired", "withdrawn"}, mail : {"none"}]
      \cup [route : {"patch", "bulk"}, target : {"interview"}, mail : {"none", "now"}]
      \cup [route : {"patch", "bulk"}, target : {"rejected"}, mail : {"none", "now", "held"}]
      \cup [route : {"bulk"}, target : {"hired"}, mail : {"none"}]
      \cup [route : {"withdraw"}, target : {"withdrawn"}, mail : {"none"}]

ASSUME NoneIsNobody == None \notin Req /\ None \notin Worker
ASSUME OpsAreRequests == Ops \subseteq AllOps
ASSUME BoundsAreNatural ==
    MAX_ATTEMPTS \in Nat \ {0} /\ MaxJobs \in Nat \ {0} /\ MaxFaults \in Nat

VARIABLES
    stage,       \* applications.stage, as committed
    appLock,     \* the request whose open transaction updated the application row
    rows,        \* email_outbox: rows[q] is the mail request q queued
    due,         \* due[q]: send_after of mail q has passed
    lock,        \* lock[q]: the delivery that holds row q FOR UPDATE
    jobs,        \* jobs[q]: deliver_email jobs for row q waiting in redis
    suppressed,  \* the candidate's address is on the suppression list
    pc, op,      \* control state and payload of each request
    seen,        \* the stage request q loaded
    todo,        \* the rows its cancel statement matched when it started
    wpc, wrow,   \* control state and row of each delivery
    calls,       \* history: provider calls made for mail q
    delivered,   \* history: provider calls that were accepted
    revoked,     \* history: mails taken back by a committed cancel
    faults       \* processes killed and provider answers lost so far

reqVars == <<pc, op, seen, todo>>
wrkVars == <<wpc, wrow, lock>>
history == <<calls, delivered, revoked>>
vars == <<stage, appLock, rows, due, jobs, suppressed, reqVars, wrkVars, history, faults>>

Status == {"none", "queued", "scheduled", "sent", "failed", "suppressed", "bounced", "cancelled"}
Live == {"queued", "scheduled"}
Kind == {"stage_advance", "rejection"}
Row == [status : Status, kind : Kind, held : BOOLEAN, attempts : Nat]
NoRow == [status |-> "none", kind |-> "rejection", held |-> FALSE, attempts |-> 0]

Free(q) == lock[q] = None

\* Mutant of HeldRejection: the cancel forgets to look at the status.
HeldRejectionAny(q) == rows[q].kind = "rejection" /\ rows[q].status # "none"

\* A rejection with send_after that has not settled: what cancel_for_application
\* selects (a scheduled row, or a released row waiting for a retry).
HeldRejection(q) ==
    /\ rows[q].kind = "rejection"
    /\ \/ rows[q].status = "scheduled"
       \/ rows[q].status = "queued" /\ rows[q].held

\* Mutant of Deliverable: send_after is not looked at.
DeliverableEarly(q) == rows[q].status \in Live

\* What a delivery may send: queued, or scheduled and no longer early.
Deliverable(q) ==
    \/ rows[q].status = "queued"
    \/ rows[q].status = "scheduled" /\ due[q]

ScheduledRejection == \E q \in Req : rows[q].kind = "rejection" /\ rows[q].status = "scheduled"

RejectionQueuedOrSent ==
    \E q \in Req : rows[q].kind = "rejection" /\ rows[q].status \in {"queued", "sent"}

SetStatus(S, s) == [q \in Req |-> IF q \in S THEN [rows[q] EXCEPT !.status = s] ELSE rows[q]]

Init ==
    /\ stage = "interview"
    /\ appLock = None
    /\ rows = [q \in Req |-> NoRow]
    /\ due = [q \in Req |-> FALSE]
    /\ jobs = [q \in Req |-> 0]
    /\ suppressed = FALSE
    /\ pc = [q \in Req |-> "idle"]
    /\ op \in [Req -> Ops]
    /\ seen = [q \in Req |-> stage]
    /\ todo = [q \in Req |-> {}]
    /\ wpc = [w \in Worker |-> "idle"]
    /\ wrow = [w \in Worker |-> None]
    /\ lock = [q \in Req |-> None]
    /\ calls = [q \in Req |-> 0]
    /\ delivered = [q \in Req |-> 0]
    /\ revoked = {}
    /\ faults = 0
-----------------------------------------------------------------------------
(***************************************************************************)
(* Requests that move the stage.                                           *)
(***************************************************************************)
Goto(q, l) == pc' = [pc EXCEPT ![q] = l]

AfterMove(q) == IF op[q].mail # "none" THEN "queue" ELSE "done"

\* The application is loaded and the early returns are taken: bulk skips a row
\* already there and a withdrawn one; the single route treats a rejected row
\* with a mail wish as "mail again"; a withdrawal is refused once hired, and
\* looks for a held mail when rejected.
Load(q) ==
    /\ pc[q] = "idle"
    /\ seen' = [seen EXCEPT ![q] = stage]
    /\ Goto(q, CASE op[q].route = "patch" ->
                      IF stage # op[q].target THEN "move"
                      ELSE IF stage = "rejected" /\ op[q].mail # "none" THEN "again"
                      ELSE "done"
                 [] op[q].route = "bulk" ->
                      IF stage \in {op[q].target, "withdrawn"} THEN "done" ELSE "move"
                 [] op[q].route = "withdraw" ->
                      IF stage = "interview" THEN "move"
                      ELSE IF stage = "rejected" THEN "held?"
                      ELSE "done")
    /\ UNCHANGED <<stage, appLock, rows, due, jobs, suppressed, op, todo, wrkVars, history, faults>>

\* Mail again: 409 while a rejection is scheduled, queued or sent.
MailAgain(q) ==
    /\ pc[q] = "again"
    /\ Goto(q, IF ScheduledRejection \/ RejectionQueuedOrSent THEN "done" ELSE "queue")
    /\ UNCHANGED <<stage, appLock, rows, due, jobs, suppressed, op, seen, todo, wrkVars, history, faults>>

\* Withdrawal of a rejected application: 409 unless its mail is still scheduled.
CheckHeld(q) ==
    /\ pc[q] = "held?"
    /\ Goto(q, IF ScheduledRejection THEN "flush" ELSE "done")
    /\ UNCHANGED <<stage, appLock, rows, due, jobs, suppressed, op, seen, todo, wrkVars, history, faults>>

\* The stage is committed.  Leaving rejected (single route) or entering any
\* other stage (bulk) still has the held mail to cancel, in its own commit.
SetStage(q) ==
    /\ pc[q] = "move"
    /\ appLock = None
    /\ stage' = op[q].target
    /\ Goto(q, CASE op[q].route = "withdraw" -> "done"
                 [] op[q].route = "patch" ->
                      IF seen[q] = "rejected" THEN "select" ELSE AfterMove(q)
                 [] op[q].route = "bulk" ->
                      IF op[q].target # "rejected" THEN "select" ELSE AfterMove(q))
    /\ UNCHANGED <<appLock, rows, due, jobs, suppressed, op, seen, todo, wrkVars, history, faults>>

\* cancel_for_application starts: the statement's snapshot of matching rows.
SelectHeld(q) ==
    /\ pc[q] = "select"
    /\ todo' = [todo EXCEPT ![q] = {r \in Req : HeldRejection(r)}]
    /\ Goto(q, "cancel")
    /\ UNCHANGED <<stage, appLock, rows, due, jobs, suppressed, op, seen, wrkVars, history, faults>>

\* A withdrawal does both in one transaction: the stage move is flushed (the
\* application row is locked, nothing is visible yet), then the rows selected.
FlushWithdraw(q) ==
    /\ pc[q] = "flush"
    /\ appLock = None
    /\ appLock' = q
    /\ todo' = [todo EXCEPT ![q] = {r \in Req : HeldRejection(r)}]
    /\ Goto(q, "cancel")
    /\ UNCHANGED <<stage, rows, due, jobs, suppressed, op, seen, wrkVars, history, faults>>

\* Mutants of CancelRows: the rows are not read again; their locks are not waited for.
CancelRowsBlind(q, S) ==
    /\ pc[q] = "cancel"
    /\ \A r \in todo[q] : Free(r)
    /\ S = todo[q]
    /\ todo' = [todo EXCEPT ![q] = {}]
CancelRowsAtOnce(q, S) ==
    /\ pc[q] = "cancel"
    /\ S = {r \in todo[q] : HeldRejection(r)}
    /\ todo' = [todo EXCEPT ![q] = {}]

\* Every selected row is locked in turn (waiting for the delivery that holds
\* it) and read again: those that still match are cancelled.
CancelRows(q, S) ==
    /\ pc[q] = "cancel"
    /\ \A r \in todo[q] : Free(r)
    /\ S = {r \in todo[q] : HeldRejection(r)}
    /\ todo' = [todo EXCEPT ![q] = {}]

CancelHeld(q) ==
    \E S \in SUBSET Req :
      /\ op[q].route # "withdraw"
      /\ CancelRows(q, S)
      /\ rows' = SetStatus(S, "cancelled")
      /\ revoked' = revoked \cup S
      /\ Goto(q, AfterMove(q))
      /\ UNCHANGED <<stage, appLock, due, jobs, suppressed, op, seen, wrkVars, calls, delivered, faults>>

\* The withdrawal's commit, or its rollback and 409 when no row was left to cancel.
CommitWithdraw(q) ==
    \E S \in SUBSET Req :
      /\ op[q].route = "withdraw"
      /\ CancelRows(q, S)
      /\ rows' = SetStatus(S, "cancelled")
      /\ revoked' = revoked \cup S
      /\ stage' = IF S = {} THEN stage ELSE "withdrawn"
      /\ appLock' = None
      /\ Goto(q, "done")
      /\ UNCHANGED <<due, jobs, suppressed, op, seen, wrkVars, calls, delivered, faults>>

\* queue_email: the row is committed first ...
QueueEmail(q) ==
    /\ pc[q] = "queue"
    /\ rows' = [rows EXCEPT ![q] =
                  [status |-> IF op[q].mail = "held" THEN "scheduled" ELSE "queued",
                   kind |-> IF op[q].target = "rejected" THEN "rejection" ELSE "stage_advance",
                   held |-> op[q].mail = "held",
                   attempts |-> 0]]
    /\ Goto(q, "enqueue")
    /\ UNCHANGED <<stage, appLock, due, jobs, suppressed, op, seen, todo, wrkVars, history, faults>>

\* ... and its job enqueued second, unless redis is down: then it is lost.
Enqueue(q) ==
    /\ pc[q] = "enqueue"
    /\ \/ jobs[q] < MaxJobs /\ jobs' = [jobs EXCEPT ![q] = @ + 1]
       \/ UNCHANGED jobs
    /\ Goto(q, "done")
    /\ UNCHANGED <<stage, appLock, rows, due, suppressed, op, seen, todo, wrkVars, history, faults>>

\* The API process is killed: an open transaction is rolled back.
Abort(q) ==
    /\ faults < MaxFaults
    /\ pc[q] \notin {"idle", "done"}
    /\ faults' = faults + 1
    /\ appLock' = IF appLock = q THEN None ELSE appLock
    /\ todo' = [todo EXCEPT ![q] = {}]
    /\ Goto(q, "done")
    /\ UNCHANGED <<stage, rows, due, jobs, suppressed, op, seen, wrkVars, history>>
-----------------------------------------------------------------------------
(***************************************************************************)
(* The recruiter's cancel button, the provider's events, the clock.        *)
(***************************************************************************)
\* cancel: FOR UPDATE, 409 unless still scheduled.
CancelScheduled(q) ==
    /\ Free(q)
    /\ rows[q].status = "scheduled"
    /\ rows' = SetStatus({q}, "cancelled")
    /\ revoked' = revoked \cup {q}
    /\ UNCHANGED <<stage, appLock, due, jobs, suppressed, reqVars, wrkVars, calls, delivered, faults>>

\* Mutant of ApplyEvents: the event's own name is stored as the status.
ApplyEventsVerbatim(q) ==
    /\ delivered[q] > 0
    /\ Free(q)
    /\ rows' = SetStatus({q}, "complained")
    /\ suppressed' = TRUE
    /\ UNCHANGED <<stage, appLock, due, jobs, reqVars, wrkVars, history, faults>>

\* A hard bounce or a complaint about a mail the provider accepted: the address
\* is suppressed and the row annotated, whatever its status (the UPDATE waits
\* for the row lock).
ApplyEvents(q) ==
    /\ delivered[q] > 0
    /\ Free(q)
    /\ rows' = SetStatus({q}, "bounced")
    /\ suppressed' = TRUE
    /\ UNCHANGED <<stage, appLock, due, jobs, reqVars, wrkVars, history, faults>>

\* send_after passes.
Tick(q) ==
    /\ rows[q].status = "scheduled"
    /\ ~due[q]
    /\ due' = [due EXCEPT ![q] = TRUE]
    /\ UNCHANGED <<stage, appLock, rows, jobs, suppressed, reqVars, wrkVars, history, faults>>

\* Mutant of SweepOutbox: only stuck rows are swept, not the overdue scheduled ones.
SweepStuckOnly(q) ==
    /\ rows[q].status = "queued"
    /\ jobs[q] < MaxJobs
    /\ jobs' = [jobs EXCEPT ![q] = @ + 1]
    /\ UNCHANGED <<stage, appLock, rows, due, suppressed, reqVars, wrkVars, history, faults>>

\* The sweeper: any queued row (old enough sooner or later) and any overdue
\* scheduled one gets a further job.
SweepOutbox(q) ==
    /\ Deliverable(q)
    /\ jobs[q] < MaxJobs
    /\ jobs' = [jobs EXCEPT ![q] = @ + 1]
    /\ UNCHANGED <<stage, appLock, rows, due, suppressed, reqVars, wrkVars, history, faults>>
-----------------------------------------------------------------------------
(***************************************************************************)
(* deliver_email: one job, one row, one transaction.                       *)
(***************************************************************************)
\* The row is not queued, or scheduled and not due: the job is used up.
TakeStale(q) ==
    /\ jobs[q] > 0
    /\ Free(q)
    /\ ~Deliverable(q)
    /\ jobs' = [jobs EXCEPT ![q] = @ - 1]
    /\ UNCHANGED <<stage, appLock, rows, due, suppressed, reqVars, wrkVars, history, faults>>

\* FOR UPDATE.  The release to queued is not committed yet: rows keeps scheduled.
Take(w, q) ==
    /\ wpc[w] = "idle"
    /\ jobs[q] > 0
    /\ Free(q)
    /\ Deliverable(q)
    /\ jobs' = [jobs EXCEPT ![q] = @ - 1]
    /\ lock' = [lock EXCEPT ![q] = w]
    /\ wpc' = [wpc EXCEPT ![w] = "taken"]
    /\ wrow' = [wrow EXCEPT ![w] = q]
    /\ UNCHANGED <<stage, appLock, rows, due, suppressed, reqVars, history, faults>>

Step(w, l) == wpc' = [wpc EXCEPT ![w] = l] /\ UNCHANGED <<wrow, lock>>

\* The end of the transaction, by commit or by rollback.
Release(w) ==
    /\ wpc' = [wpc EXCEPT ![w] = "idle"]
    /\ wrow' = [wrow EXCEPT ![w] = None]
    /\ lock' = [lock EXCEPT ![wrow[w]] = None]

\* A held rejection is sent only if the application is (still) rejected; the
\* stage is read without a lock.  Otherwise cancel_locked commits.
CheckStage(w) ==
    /\ wpc[w] = "taken"
    /\ LET q == wrow[w]
           guarded == rows[q].kind = "rejection" /\ rows[q].held
       IN \/ /\ guarded => stage = "rejected"
             /\ Step(w, "staged")
             /\ UNCHANGED <<rows, revoked>>
          \/ /\ guarded /\ stage # "rejected"
             /\ rows' = SetStatus({q}, "cancelled")
             /\ revoked' = revoked \cup {q}
             /\ Release(w)
    /\ UNCHANGED <<stage, appLock, due, jobs, suppressed, reqVars, calls, delivered, faults>>

\* No provider configured, or the address suppressed: settled without a call.
CheckAddress(w) ==
    /\ wpc[w] = "staged"
    /\ \/ /\ rows' = SetStatus({wrow[w]}, "failed")
          /\ Release(w)
       \/ /\ suppressed
          /\ rows' = SetStatus({wrow[w]}, "suppressed")
          /\ Release(w)
       \/ /\ ~suppressed
          /\ Step(w, "cleared")
          /\ UNCHANGED rows
    /\ UNCHANGED <<stage, appLock, due, jobs, suppressed, reqVars, history, faults>>

\* The provider takes the mail and send() returns.
Accepts(w) ==
    /\ delivered' = [delivered EXCEPT ![wrow[w]] = @ + 1]
    /\ Step(w, "accepted")
    /\ UNCHANGED faults

\* It cannot be reached or rejects the mail, and send() raises.
Rejects(w) == Step(w, "raised") /\ UNCHANGED <<delivered, faults>>

\* It takes the mail, but its answer does not arrive in time, and send() raises.
AnswerLost(w) ==
    /\ faults < MaxFaults /\ faults' = faults + 1
    /\ delivered' = [delivered EXCEPT ![wrow[w]] = @ + 1]
    /\ Step(w, "raised")

\* The provider call: it returns, or it raises.
Dispatch(w) ==
    /\ wpc[w] = "cleared"
    /\ calls' = [calls EXCEPT ![wrow[w]] = @ + 1]
    /\ Accepts(w) \/ Rejects(w) \/ AnswerLost(w)
    /\ UNCHANGED <<stage, appLock, rows, due, jobs, suppressed, reqVars, revoked>>

\* An attempt of row q is over: it is counted and its outcome noted.
Attempted(q, s) ==
    [r \in Req |-> IF r = q THEN [rows[r] EXCEPT !.status = s, !.attempts = @ + 1] ELSE rows[r]]

\* Mutant of CommitSent: the status is not changed.
CommitSentForgetful(w) ==
    /\ wpc[w] = "accepted"
    /\ rows' = Attempted(wrow[w], "queued")
    /\ Release(w)
    /\ UNCHANGED <<stage, appLock, due, jobs, suppressed, reqVars, history, faults>>

CommitSent(w) ==
    /\ wpc[w] = "accepted"
    /\ rows' = Attempted(wrow[w], "sent")
    /\ Release(w)
    /\ UNCHANGED <<stage, appLock, due, jobs, suppressed, reqVars, history, faults>>

\* Mutant of Parked: an attempt too many.
ParkedLate(q) == rows[q].attempts >= MAX_ATTEMPTS

\* The attempt under way is the last one.
Parked(q) == rows[q].attempts + 1 >= MAX_ATTEMPTS

\* The failed attempt is counted; the last one parks the row, an earlier one
\* raises Retry: the job comes back, unless arq has tried it max_tries times.
CommitFailure(w) ==
    /\ wpc[w] = "raised"
    /\ LET q == wrow[w]
       IN /\ rows' = Attempted(q, IF Parked(q) THEN "failed" ELSE "queued")
          /\ \/ UNCHANGED jobs
             \/ ~Parked(q) /\ jobs[q] < MaxJobs /\ jobs' = [jobs EXCEPT ![q] = @ + 1]
    /\ Release(w)
    /\ UNCHANGED <<stage, appLock, due, suppressed, reqVars, history, faults>>

\* The worker process is killed: rollback; arq runs the job again, unless it
\* has tried it max_tries times.
WorkerCrash(w) ==
    /\ faults < MaxFaults
    /\ wpc[w] # "idle"
    /\ faults' = faults + 1
    /\ \/ UNCHANGED jobs
       \/ jobs[wrow[w]] < MaxJobs /\ jobs' = [jobs EXCEPT ![wrow[w]] = @ + 1]
    /\ Release(w)
    /\ UNCHANGED <<stage, appLock, rows, due, suppressed, reqVars, history>>
-----------------------------------------------------------------------------
Request(q) ==
    \/ Load(q) \/ MailAgain(q) \/ CheckHeld(q) \/ SetStage(q) \/ SelectHeld(q)
    \/ FlushWithdraw(q) \/ CancelHeld(q) \/ CommitWithdraw(q) \/ QueueEmail(q) \/ Enqueue(q)

Delivery(w) ==
    \/ \E q \in Req : Take(w, q)
    \/ CheckStage(w) \/ CheckAddress(w) \/ Dispatch(w) \/ CommitSent(w) \/ CommitFailure(w)

\* Every request is over, every mail settled, every job used up.
Quiescent ==
    /\ \A q \in Req : pc[q] = "done" /\ jobs[q] = 0 /\ rows[q].status \notin Live
    /\ \A w \in Worker : wpc[w] = "idle"
    /\ UNCHANGED vars

Next ==
    \/ \E q \in Req : Request(q)
    \/ \E q \in Req : Abort(q)
    \/ \E q \in Req : CancelScheduled(q)
    \/ \E q \in Req : ApplyEvents(q)
    \/ \E q \in Req : Tick(q)
    \/ \E q \in Req : SweepOutbox(q)
    \/ \E q \in Req : TakeStale(q)
    \/ \E w \in Worker : Delivery(w)
    \/ \E w \in Worker : WorkerCrash(w)
    \/ Quiescent

Spec == Init /\ [][Next]_vars

\* Time passes, the sweeper's cron fires every ten minutes, arq runs the jobs it
\* has, and a running request or delivery goes on until it ends or is killed.
Fairness ==
    /\ \A q \in Req : WF_vars(Request(q)) /\ WF_vars(Tick(q))
    /\ \A q \in Req : WF_vars(SweepOutbox(q)) /\ WF_vars(TakeStale(q))
    /\ \A w \in Worker : WF_vars(Delivery(w))

FairSpec == Spec /\ Fairness
-----------------------------------------------------------------------------
(***************************************************************************)
(* Properties.                                                             *)
(***************************************************************************)
\* Type invariant of every variable of the outbox model.
TypeOK ==
    /\ stage \in Stage
    /\ appLock \in Req \cup {None}
    /\ rows \in [Req -> Row]
    /\ due \in [Req -> BOOLEAN]
    /\ lock \in [Req -> Worker \cup {None}]
    /\ jobs \in [Req -> 0 .. MaxJobs]
    /\ suppressed \in BOOLEAN
    /\ pc \in [Req -> {"idle", "move", "again", "held?", "flush", "select", "cancel",
                       "queue", "enqueue", "done"}]
    /\ op \in [Req -> Ops]
    /\ seen \in [Req -> Stage]
    /\ todo \in [Req -> SUBSET Req]
    /\ wpc \in [Worker -> {"idle", "taken", "staged", "cleared", "accepted", "raised"}]
    /\ wrow \in [Worker -> Req \cup {None}]
    /\ calls \in [Req -> Nat]
    /\ delivered \in [Req -> Nat]
    /\ revoked \subseteq Req
    /\ faults \in 0 .. MaxFaults

\* While a delivery is under way its row is locked by it alone and stays
\* deliverable: no cancel, sweep, bounce or second job changes it under the
\* provider call (worker.py: "a concurrent cancel must not race this release").
LockDiscipline ==
    /\ \A w \in Worker : wpc[w] = "idle" <=> wrow[w] = None
    /\ \A w \in Worker, q \in Req : lock[q] = w <=> wrow[w] = q
    /\ \A w \in Worker : wpc[w] # "idle" => Deliverable(wrow[w])

\* The retry budget lives on the row, not in the jobs: whatever duplicates the
\* sweeper adds, a mail costs at most MAX_ATTEMPTS provider calls, plus one for
\* each delivery that was killed before its count was committed.
CallBound == \A q \in Req : calls[q] <= MAX_ATTEMPTS + faults

\* At most once, short of faults: the provider accepts a mail a second time only
\* after a delivery was killed between the call and its commit, or an answer lost.
AcceptedOnce == \A q \in Req : delivered[q] <= 1 + faults

\* The delivery trail does not lie: a row says sent only if the provider took it.
SentWasAccepted == \A q \in Req : rows[q].status = "sent" => delivered[q] > 0

\* The status of a row and what the provider did agree: it is sent only if the
\* provider took it, and the provider did not take it again.
AcceptedAsLogged == AcceptedOnce /\ SentWasAccepted

\* What the row counts and says is what the provider was asked and did, short of
\* deliveries that were killed before their commit.
ProviderAsLogged == CallBound /\ AcceptedAsLogged

\* A held mail is never handed to the provider before its send_after, retries,
\* duplicate jobs and restarts included.
NeverEarly ==
    [][\A q \in Req : calls'[q] # calls[q] => (rows[q].held => due[q])]_vars

\* "A cancelled row is never sent": once any cancel has committed (the button, an
\* un-reject, a withdrawal, the worker's stage guard) no provider call follows.
CancelledNeverSent ==
    [][\A q \in Req : calls'[q] # calls[q] => q \notin revoked]_vars

\* A decision the withdrawal has seen it gets past only by taking back the
\* rejection's mail, not gone out: without a fault the provider has not seen it.
\* One that loaded the application open looks no further, and writes over a
\* decision committed since (public.py: "Decided applications stay decided").
WithdrawTakesBack ==
    [][\A q \in Req : op[q].route = "withdraw" /\ pc[q] # pc'[q] /\ stage' # stage
         => \/ seen[q] = "interview"
            \/ \E r \in revoked' \ revoked : rows[r].held /\ delivered[r] <= faults]_vars

\* Late beats lost: every mail that was queued settles, although its job may be
\* lost, its deliveries killed and its attempts fail.
EveryMailSettles ==
    \A q \in Req : rows[q].status \in Live ~> rows[q].status \notin Live

(***************************************************************************)
(* The inductive invariant behind the safety properties.                   *)
(***************************************************************************)
InCall(q) == \E w \in Worker : wrow[w] = q /\ wpc[w] \in {"accepted", "raised"}
InAccepted(q) == \E w \in Worker : wrow[w] = q /\ wpc[w] = "accepted"

\* A request that has not queued its mail has no row, and a row that does not
\* exist has no history.
RowsAreQueuedOnce ==
    \A q \in Req :
        /\ pc[q] \notin {"enqueue", "done"} => rows[q].status = "none"
        /\ rows[q].status = "none" =>
             rows[q] = NoRow /\ delivered[q] = 0 /\ calls[q] = 0 /\ q \notin revoked

HoldInv ==
    \A q \in Req :
        /\ rows[q].status = "scheduled" => rows[q].held
        /\ rows[q].status = "queued" /\ rows[q].held => due[q]

AttemptInv ==
    \A q \in Req :
        /\ rows[q].attempts <= MAX_ATTEMPTS
        /\ rows[q].status \in Live => rows[q].attempts < MAX_ATTEMPTS

\* A provider call is counted on the row, still in flight, or a fault explains it.
CallInv ==
    \A q \in Req :
        \/ calls[q] <= rows[q].attempts + faults
        \/ InCall(q) /\ calls[q] <= rows[q].attempts + faults + 1

\* So is an accepted one; a settled row has at most one that no fault explains.
DeliveredInv ==
    /\ \A q \in Req : rows[q].status \in Live =>
         \/ delivered[q] <= faults
         \/ InAccepted(q) /\ delivered[q] <= faults + 1
    /\ \A w \in Worker : wpc[w] = "accepted" => delivered[wrow[w]] > 0

RevokedInv == \A q \in revoked : rows[q].status \in {"cancelled", "bounced"}

\* Only a withdrawal about to commit holds the application row; one that moves
\* it without looking at the mails has seen it open.
AppLockInv ==
    /\ \A q \in Req : pc[q] \in {"held?", "flush"} => op[q].route = "withdraw"
    /\ \A q \in Req : pc[q] = "move" /\ op[q].route = "withdraw" => seen[q] = "interview"
    /\ appLock # None => pc[appLock] = "cancel" /\ op[appLock].route = "withdraw"

IInv ==
    /\ TypeOK /\ LockDiscipline /\ RowsAreQueuedOnce /\ HoldInv /\ AttemptInv /\ CallInv
    /\ DeliveredInv /\ AcceptedOnce /\ SentWasAccepted /\ RevokedInv /\ AppLockInv

\* The outbox implements what it promises for each mail.
LifeOf(s) ==
    CASE s = "none" -> "none"
      [] s \in Live -> "pending"
      [] s = "sent" -> "sent"
      [] s \in {"failed", "suppressed", "cancelled"} -> "dropped"
      [] s = "bounced" -> "returned"

Promise == INSTANCE MailPromise WITH
    Mail <- Req,
    life <- [q \in Req |-> LifeOf(rows[q].status)],
    handed <- delivered

ImplementsPromise == Promise!Spec
=============================================================================
