# Ganek: verification project

TLA+ models, TLC runs and TLAPS proofs about the backend of Ganek
(`src/backend/app`), an applicant tracking system: FastAPI handlers over an async
SQLAlchemy session (PostgreSQL, READ COMMITTED), an arq worker fed through redis, an
object store for CVs, and mail, calendar and webhook receivers outside.

1. [How the program runs, and how it is modelled](#1-how-the-program-runs-and-how-it-is-modelled)
2. [Inventory](#2-inventory)
3. [Modules](#3-modules)
4. [The models and the code](#4-the-models-and-the-code)
5. [Runs](#5-runs)
6. [Fairness](#6-fairness)
7. [Proofs](#7-proofs)
8. [What the models disagree with](#8-what-the-models-disagree-with)
9. [Plan](#9-plan)

`PROJECT.json` beside this file is the index: every definition with the lines it
models, every run with its properties, one seeded bug per property that TLC must
catch, the hazards by line and the theorems.

To repeat the work, in this directory:

    tlc -workers 2 -config MCOutbox_requests.cfg MCOutbox      # a run of Outbox
    tlc -workers 2 -config MCQuiz_tabs.cfg MCQuiz              # a run of Quiz
    tlc -workers 2 -config MCWebhooks_deliveries.cfg Webhooks  # a run of Webhooks
    tlc -workers 2 -config MCInterviews_interviews.cfg MCInterviews
    tlapm OutboxProofs.tla                                     # a proof module

## 1. How the program runs, and how it is modelled

* **Requests.** A request runs in an API process. Its handler loads rows into the
  session, decides on the loaded copies and commits; the session keeps its copies after
  a commit (`expire_on_commit=False`, `core/db.py`), so whatever it loaded stays what it
  decides on. Several handlers commit more than once. In the models a request has a
  program counter, the values it loaded, and one action for each stretch of code
  between two points at which another process can be seen: a commit, a statement that
  waits for a lock, a read that a later statement decides on.
* **Statements and locks.** A statement sees what is committed when it starts. A row
  lock (`SELECT .. FOR UPDATE`, or the one an `UPDATE` or `DELETE` takes) is held to the
  end of the transaction, and a statement that had to wait looks at the row again.
  SQLAlchemy flushes before a query (autoflush), so a row is sometimes locked earlier
  than its commit; and it writes only the columns that differ from the loaded copy.
* **Jobs.** arq runs a job in a worker process at least once as long as redis keeps it,
  up to `max_tries` times, and never if redis was down when it was enqueued:
  `core/queue.py` swallows that error. Crons of the worker sweep for rows whose job
  got lost.
* **Failures.** A process may be killed between any two steps, and its open transaction
  is then rolled back; a call to redis, the bucket or a provider may fail, or be answered
  without the answer arriving. Each model bounds the number of failures (`MaxCrashes`,
  `MaxFaults`, `MaxAborts`, `MaxEvents`).
* **Time** is a number only where the code does arithmetic on it (`Pipeline`, `Reports`,
  `Board`, `Interviews`, `Invitations`); elsewhere a deadline has passed or it has not, and
  the step in which it passes can come anywhere.
* **Overlaps.** Most of the program takes no lock, so much of what it promises holds only
  of requests that do not overlap. Those models keep a history of the overlaps
  (`crossed`, `over`, `overtaken`, `alone`), set by the steps that cause them, and their
  properties say what holds in spite of any overlap and what holds without.

## 2. Inventory

| component | state it keeps | operations | talks to |
| --- | --- | --- | --- |
| Email outbox (`services/outbox.py`, `worker.py`, `services/scheduled_emails.py`, `services/suppression.py`) | `email_outbox` rows: status, `send_after`, attempts; the suppression list | queue, deliver, retry, hold, cancel, sweep, apply provider events | requests that move a stage; redis; the mail provider |
| Letters (`services/email_templates.py`, `services/email_render.py`, `services/email.py`) | `email_templates` rows, one default of a kind | edit, choose the default, preview, resolve, render, send, show to the team | outbox; whoever mails a candidate |
| Pipeline stages (`services/applications.py`, `api/applications.py`, `api/public.py`) | `applications.stage`, its clocks and reason; the `stage.changed` rows of the activity log | PATCH, bulk move, bulk reject, withdraw | outbox, webhooks, quiz, reports |
| Reports (`services/reports.py`), status page | nothing of their own | funnel, time in stage, time to hire; the stage a candidate is shown | the activity log |
| Board and dashboard queue (`services/pipeline_signals.py`, `services/queue.py`) | the item keys a user dismissed | board status, whom an application waits on, list, dismiss | stages, quiz, interviews |
| Applying (`api/public.py`, `services/screening.py`) | applications, candidates, answers | challenge, guards, validate, insert, draw the quiz, confirm | quotas; jobs; quiz; outbox |
| Quotas, rate limits, challenges (`services/quotas.py`, `core/ratelimit.py`, `core/challenge.py`) | fixed-window counters in redis or the process's memory, used challenges | count, refuse, record a breach once | applying; publishing |
| Jobs (`services/jobs.py`), question choice (`services/quiz.py`, `services/questions.py`) | status, form and quiz of a job; the bank, blocked and retired questions | publish, close, delete, edit; pool, stratified sample, questionnaire | applying |
| Quiz attempts (`services/quiz.py`, `api/public.py`) | `quiz_attempts`, `attempt_answers`: the frozen questions, status, deadlines, score, `integrity` | serve, answer, expire, finalize, telemetry, request a link, re-issue, extra time, dismiss flags | the candidate's tabs; the team; outbox; webhooks |
| Outbound webhooks (`services/webhooks.py`, `worker.py`) | `webhook_endpoints`, `webhook_deliveries` | register, delete, test, emit, deliver, retry, sweep | whatever commits an event; erasure; the receiver |
| Interviews (`services/interviews.py`) | `interviews`: slot, status, calendar sequence | offer slots, book, reschedule, cancel | an advisory lock per interviewer; outbox |
| Interview mails, calendars, reminders (`api/public.py`, `services/ics.py`, `worker.py`) | reminder jobs; nothing else of their own | mail either side of a change, remind | interviews; outbox; the calendars of both sides |
| Scorecards (`services/scorecards.py`) | timestamps from which a state is derived | request, submit, decline, dismiss, reopen, nudge | interviews, dashboard |
| Erasure, retention, tombstones (`services/erasure.py`, `services/retention.py`, `services/tombstones.py`, `scripts/`) | tombstones; nothing else of its own | erase, purge what has expired, sweep stored CVs, back up, restore, replay | every table of a candidate; the object store |
| Accounts, invites, sessions (`services/users.py`, `services/invites.py`, `services/auth.py`) | users with role and token version, invites | sign in and out, change roles, remove, invite, accept, reset a password | interviews |
| Worker crons (`worker.py`) | the day a daily job last ran (`_claim_run`) | sweep, remind, purge | all of the above |
| MFA, OAuth, lockout and codes; mail layout and transport; subject access; tenancy, settings, API keys, demo data; views, activity log | their own tables | CRUD, queries, calls to outside | - |
| Frontend, docs, deployment | - | a client of the API | - |

**How they interact.** A stage move, a finished quiz or a booked interview commits
first, and only then queues its mail (`queue_email`) and emits its webhook
(`emit_application_event`), each in transactions of its own; the job that does the
work is enqueued after that commit. So every edge between two components can be cut by
a kill, and every consumer works on rows that may have moved on since.

**What is hard, and what would make it correct.**

* *Outbox.* A held rejection (`send_after`) must be cancellable until it goes out while
  the deferred job, the sweeper and a retry all compete to send it. Correct: a
  cancelled mail is never sent, none goes out early, one row is handed to the provider
  at most once unless a worker dies in the call, the attempt budget holds whatever
  duplicates exist, and no mail is forgotten.
* *Letters.* A recruiter previews a text, then a request checks, moves and queues while
  others edit templates and settings. Correct: what was shown is what goes out, to the
  right address; nobody on the team reads a link that is the candidate's own.
* *Stages, reports.* Withdrawal, un-reject and bulk moves decide on a stage loaded
  earlier and write the columns that differ. Correct: a withdrawal gets past a rejection
  it has seen only by taking back its unsent mail; the retention clock runs exactly for decided
  applications; the report computed from the log is true of what happened; a held
  decision does not show.
* *Board.* Five places compute from the same rows whether a link has lapsed. Correct:
  they agree; a role is stalled exactly when nothing moved; what a user dismissed stays
  hidden until it is resolved.
* *Applying.* Many calls to redis and several commits, the job edited and closed between
  them. Correct: limits are passed only by what overlaps, who is accepted is told so, a
  sample is as large and as broad as it can be.
* *Quiz.* Two tabs, deadlines that pass during a request, and a team that re-issues at
  the same time, with no lock and no unique constraint on (attempt, question). Correct:
  questions in the frozen order without a gap, a score only when all were served, no
  answer lost; and for a candidate who sends one request at a time a proper exam.
* *Webhooks.* A delivery job decides on a copy loaded before the row was locked, while
  endpoints are deleted and applications erased. Correct: the log says what was tried and,
  where jobs do not overlap, what was answered; nothing is posted of a row or an endpoint
  that is gone; a settled delivery stays settled, and each one settles.
* *Interviews.* Slots computed before the lock, a cancel that takes none. Correct: no
  two booked interviews of an interviewer overlap, the calendar mails can be put in order
  by their sequence numbers.
* *Calendars and reminders.* Mails of several changes arrive in any order; a reminder is
  queued before the booking commits. Correct: both calendars end up at the time that is
  booked, and both sides are reminded of that time, once.
* *Scorecards.* A state read off timestamps that several requests set, each from a copy
  it loaded. Correct: a cancelled interview withdraws the request it made, a submitted
  card stays submitted.
* *Erasure.* Purges and CV sweeps act on lists read earlier; a restore brings back what
  was erased. Correct: nobody is purged who was reconsidered, nothing of an erased
  candidate remains or comes back, and no submitted CV is swept.
* *Accounts.* Counts and loads without a lock. Correct: an admin remains, an invite makes
  one account, an ended session stays ended.

Each of these is spelled out by line under "hazards" in `PROJECT.json`.

## 3. Modules

| module | what it is |
| --- | --- |
| `MailPromise` | abstract: what the outbox promises for each mail |
| `Outbox` | the email outbox, the delayed rejection and the requests that move the stage |
| `MCOutbox` | the request mixes the TLC runs admit |
| `OutboxProofs` | the inductive invariant of `Outbox`, the theorems that follow, and that `Outbox` implements `MailPromise` |
| `Exam` | abstract: what a quiz attempt promises a candidate with one tab |
| `Quiz` | the attempts of one application, the candidate's tabs and the team |
| `MCQuiz`, `MCExam` | two racing tabs or a tab and the team; one tab and a re-issuing team |
| `QuizProofs` | the inductive invariant of `Quiz`, the theorems that follow, and that `Quiz` implements `Exam` |
| `Webhooks` | endpoints, emission, deliveries and the erasure of deliveries |
| `WebhooksProofs` | the inductive invariant of `Webhooks` and the theorems that follow |
| `Interviews` | the interviews of one interviewer, their calendar mails and the scorecards they request |
| `Invitations` | the mails, calendars and reminders of one interview |
| `MCInterviews` | four scenes: bookings, scorecards (`Interviews`); calendars, reminders (`Invitations`) |
| `Meetings` | `Interviews` beside an instance of `Invitations` |
| `InterviewsProofs` | the inductive invariants of `Interviews` and `Invitations` and the theorems that follow |
| `Erasure`, `MCErasure` | an application's data from upload to erasure, backup and restore |
| `ErasureProofs` | the inductive invariant of `Erasure` and the theorems that follow |
| `Intake`, `MCIntake` | from a published job to an application with its quiz and mail |
| `IntakeProofs` | the inductive invariant of `Intake` and the theorems that follow |
| `Pipeline` | the stage moves and the history they leave |
| `Reports`, `MCReports` | extends `Pipeline`: what is computed from that history |
| `Board`, `MCBoard` | extends `Pipeline`: what the team is shown, with quizzes and interviews going on |
| `BoardProofs` | the inductive invariants of `Pipeline` and `Board` and the theorems about both and `Reports` |
| `Team` | accounts, invites and sessions of one company |
| `Mails` | what the mails are made of: payloads, senders, rendering; used by `Letters` and `Invitations` |
| `Letters` | templates, previews, the snapshot a mail takes, the desk that edits beside them |
| `Office` | `Team` beside an instance of `Letters` |
| `TeamProofs` | the inductive invariants of `Team` and `Letters` and the theorems that follow |
| `MCOffice` | seven scenes: admins, interviews, invites, sessions (`Team`); held, defaults, kinds (`Letters`) |

`Pipeline` is extended by `Reports` and `Board`, `Mails` by `Letters` and `Invitations`.
`Office` and `Meetings` put an instance of one component beside another, with variables of
its own: the two settings pages of a company share no table, and what `Invitations` says of
one interview `Interviews` says of all. The runs and the proofs work on these two.
Where two modules meet the same code they divide it: `Outbox` has the routes of
`Pipeline` step by step as far as the mail goes; `Letters` has what a mail says and
`Outbox` when it is sent; `Interviews` has what crossing requests do to a booking and
`Invitations` what the mails of one change after the other do to the calendars. An MC
module with several scenes plays one module while the others keep still; the scenes
share a run because they answer questions about one part of the program.

Operators named as a mutant of another one (their comment says so) are seeded bugs;
no action uses them.

## 4. The models and the code

### Outbox

One application and one mail per request, `rows[q]`. The requests are those of
`api/applications.py` and `api/public.py`: `op[q]` holds the route (`patch` is `set_stage`,
`bulk` is `bulk_stage` and `bulk_reject`, `withdraw`), the target stage and the mail
asked for (`none`, `now`, `held` with a `send_after`).

| actions | code |
| --- | --- |
| `Load`, `MailAgain`, `SetStage`, `SelectHeld`, `CancelHeld`, `QueueEmail`, `Enqueue` | PATCH stage and the bulk routes: load and refuse; a rejected candidate may be mailed again; commit the stage; the un-reject selects the held mails, waits for their locks, cancels and commits; insert the mail; enqueue its job, which redis may lose |
| `CheckHeld`, `FlushWithdraw`, `CommitWithdraw` | `withdraw_application`: a scheduled rejection lets a withdrawal through; the stage is flushed (row lock), the mails cancelled, all in one commit |
| `CancelScheduled` | the cancel button |
| `Take`, `TakeStale`, `CheckStage`, `CheckAddress`, `Dispatch`, `CommitSent`, `CommitFailure` | `deliver_email` under `FOR UPDATE`; the row is locked from `Take` to the commit |
| `Accepts`, `Rejects`, `AnswerLost` | what a provider call comes to: `send` returns; it raises; it raises although the provider took the mail (a timeout of `_http_post_json`, a broken SMTP session), and the retry sends again |
| `SweepOutbox`, `Tick` | `sweep_outbox` with `stuck_rows` and `due_scheduled_rows`; `send_after` passes |
| `ApplyEvents` | `apply_events`: a bounce or complaint the provider reports |
| `Abort`, `WorkerCrash` | a process is killed |

`interview` stands for all open stages: the code tells only rejected, withdrawn, hired
and the rest apart. `calls`, `delivered` and `revoked` are history: provider calls,
accepted calls, mails taken back. `ImplementsPromise` maps a row's status to the
promised life (`LifeOf`: queued and scheduled are pending; failed, suppressed and
cancelled are dropped) and `delivered` to `handed`.

### Quiz

All attempts of one application. `att[a]` is the attempt of rank `a` in `created_at`;
the rank is taken when the inserting request begins (`now()` is the start of the
transaction), which is why two re-issues can commit in either order. `rows[a]` are its
answers in the order served; questions are named by their place in `question_ids`.

| actions | code |
| --- | --- |
| `LoadNext`, `Expire`, `ReadAnswers`, `ReturnOpen`, `ServeNext`, `ReadScore`, `Finalize` | `quiz_next` and `current_or_next_question`: TTL check, IN_PROGRESS flushed before the answers are read, missed deadlines resolved, the open question returned or the next one inserted, `_finalize` |
| `LoadSubmit`, `Submit` | `submit_answer` |
| `LoadEvents`, `LoadDismiss`, `WriteNote` | telemetry and the review: both write the whole `integrity` value |
| `LoadAsk`, `RefuseAsk`, `AutoReissue`, `AskTeam` | `quiz_request_reissue` |
| `LoadReissue`, `LoadGrant`, `LoadGrantReissue`, `GrantExtra`, `Reissue` | the team's re-issue and extra time |
| `Lapse`, `Deadline` | `expires_at` and `deadline_at` pass |
| `Crash` | a request ends early |

What decides the races is modelled as the libraries do it. `Free`: the first `/next` of
an attempt updates its row when it flushes and keeps that lock to its commit; nothing
else locks. `CommitStarted` writes the status only if it differs from the loaded one,
whatever the row holds by now. `_finalize` selects the answers again, but rows already
in the session keep the attributes they were loaded with (`FinalScore`). The keys of
`integrity` are a set and a writer puts back its own copy. `ImplementsExam` maps each
attempt: `asked` is the number of rows, `open` whether one is unanswered, `points` the
right answers. `OneTabExam` and `ImplementsExam` are promises to a candidate who sends
one request at a time.

### Webhooks

Deliveries of one company: a row per `<<source, endpoint>>`, a source being a request
that emits one event of the application or a sample.

| actions | code |
| --- | --- |
| `CreateEndpoint`, `DeleteEndpoint` | `create_endpoint`; `delete_endpoint`, whose cascade waits for rows under delivery |
| `Cause`, `ChooseEndpoints`, `ChooseSample`, `QueueRows`, `QueueFails`, `Enqueue`, `RefreshFails`, `RequestDies` | the causing commit, then `emit_application_event` or `queue_test`, and `_queue`: one commit for all rows, which fails as a whole if an endpoint is gone; then refresh and enqueue, row by row |
| `Take`, `TakeStale`, `Flush`, `FlushFails`, `Deliver`, `Commit`, `WorkerDies` | `deliver_webhook` and `deliver` |
| `Age`, `SweepWebhooks` | `updated_at` gets old; `sweep_webhooks` |
| `EraseRows`, `EraseCommit`, `EraseDies` | the part of `erase_application` that removes deliveries |

`deliver_webhook` reads its row without a lock and adds one to the copy's counter;
`db.get(endpoint)` in `deliver` flushes that, so the row is locked from before the POST to
the commit (`Held`), yet what is decided on is the copy (`wrk[w].attempts`). If the row is
gone at the flush, SQLAlchemy's row-count check ends the job (`FlushFails`). A retry
writes the counter and leaves the status column alone (`Outcome`), so a stale job can lower the
counter or turn a delivered row into a failed one, but cannot queue it again. History: what was tried
(`tries`), what the receiver took (`accepted`) and the jobs were told of it (`answered`), the
deliveries two jobs had at a time or one was killed with its 2xx (`doubled`), and those queued
after the DELETE of the erasure (`late`). `LogIsTrue` says of the log what it can: a delivered
row was accepted; a parked one tried `MAX_ATTEMPTS` times and, unless `doubled`, never
answered with a 2xx; a row is posted only while it and its endpoint are there; and once an
application is erased only `late` deliveries are left of it.

### Interviews

The interviews of one interviewer, of any applications, and that interviewer's
scorecard on each application. A slot is a number, 0 is no time; durations are in the
same unit (the runs take quarters of an hour).

| actions | code |
| --- | --- |
| `LoadCreate`, `Insert` | `create_interview`: a check, then an insert that the partial unique index may refuse |
| `LoadBook`, `LoadMove`, `CheckSlots`, `Lock`, `Flush`, `CommitBook`, `CommitMove` | `book` and `reschedule`: load, compute the free slots, take the advisory lock and re-read the status, look for a conflict, flush, commit |
| `LoadCancel`, `FlushCancel`, `CommitCancel` | `candidate_cancel` and `cancel_interview`: no advisory lock; the flush is that of the query for the open scorecards |
| `QueueMail` | the interviewer's mail of a committed change, with its sequence |
| `LoadAsk`, `Ask`, `LoadAnswer`, `Answer` | scorecards requested, submitted, declined and dismissed by hand |
| `Abort` | a lock timeout, an error or a kill |

The conflict check reads other rows afresh, but a row that the session holds keeps its
loaded attributes, so an interview that is moved conflicts with its own old time
(`SeenStart`), and cannot be moved to an overlapping slot. The `UPDATE` of the interview
is flushed by the next query, which locks the row before the scorecards are read
(`RowFree`): that is what orders a booking and a cancel of one interview.
`ics_sequence = 0` in `book` writes nothing, since a pending interview was loaded with 0.
`Reopened` writes of a scorecard what differs from the loaded row, whatever the row is
by now. `disturbed` and `asked` are history: interviews two requests were at, or whose
mail was lost; applications with a scorecard requested by hand.

### Invitations

One interview, its two sides (the candidate, the interviewer), and the mails on their
way. A request loads the interview (`BeginCreate`, `BeginBook`, `BeginMove`,
`BeginCancel`, `BeginErase`), commits its change (`Commit`, with `QueueReminder` before it:
the job of the reminder is in redis before the booking is in the database), and then
queues its mails, each in a commit of its own (`QueueMail`); a kill (`Abort`) leaves the
rest unqueued. `Deliver` takes any mail of the outbox; `Received` is what a calendar makes
of it, an external rule: the event of the highest sequence stands (RFC 5545).
`Download` is the file of the booking page. `StartReminder`, `SendReminder` and
`ReminderFails` are `send_interview_reminder`, which reads the interview again and does
nothing unless it is still booked for that time.

History: when the booked time was committed to (`arranged`), what took the interview off
(`ended`), sides that miss a mail (`lost`), and whether two requests overlapped
(`crossed`), which is where `Interviews` takes over.

### Letters and Mails

`Mails` is the vocabulary: a text is its words and the placeholders it names, a payload
what a sender is called with, a mail has words, a link and a calendar part. Each sender
of `services/email.py` is an operator from payload to mail, each `_.._kwargs` function one
from company and address to payload; `MaskCapabilityLinks` is what the team reads later.

`Letters` has a letter for each request that mails: `Preview`, `Load`, `CheckTemplate`,
`Move`, `QueueEmail` (which copies the text into the row), `Deliver` for every attempt,
`Kill`. The desk edits templates, their default, the company and the candidate's address
meanwhile, each request a load and a commit. History: letters after whose preview
something they are made of changed (`overtaken`), mails a correction of the address could
not see (`crossed`), kinds of which two templates were created at a time (`crowded`), and
what the last answered request made the default (`chosen`).

### Pipeline, Reports, Board

`Pipeline`: `Begin` opens the transaction, whose start is the `created_at` of the history
row; `Load` reads the rows the route selects; `Commit` writes of each row the columns that
differ from what was loaded, over whatever is there (`Moved`), and the history row;
`Mail`, `MailAgain` and `Release` hold, repeat and release the rejection mail. `was` is the
true history, the stages as committed; `log` is what the code keeps. Applications whose
moves overlapped are `crossed`.

`Reports` computes from `log` what `reports.py` computes (`ReachedRank`, `LeftFrom`,
`CompletedStays`, `Funnel`, `TimeToHire`) and what `application_status` shows (`ShownStage`).
The query's `ORDER BY created_at` is `Events`: the row at place i is the one up to which
there are i rows (`Place`). A row bears the moment its transaction began, a transaction
writes at most one row of an application, and in the model no two begin at one moment, so no
two rows of a history bear the same one. `ReportIsTrue` compares with `was`.

`Board` adds the attempts and interviews of each application, one step per committed
change, and the clock's ticks are the days of `stage_limit`. `WaitingOn`, `Movement`,
`Status` are `pipeline_signals.py`; `DerivedItems`, `VisibleItems`, `Dismiss` are `queue.py`:
a dashboard request loads its user (`LoadUser`) with the dismissed keys, and writes back
the list pruned or extended when that changes it. `ListedAs`, `ReportLine`,
`TimelineExpired`, `Remindable` are the other places that judge a link.

### Intake

Visitors and the team's requests on jobs. A submission goes through `Submit` (the job is
loaded), `ClaimChallenge`, `GuardEmails`, `GuardApplications`, `FlagBreach` and
`RecordBreach`, `CheckAnswers`, `InsertApplication`, `CreateAttempt`, `QueueMail`,
`CountMail`; `Kill` ends it anywhere. The team loads a job and then publishes
(`CountActive`, `Publish`), closes, deletes or edits it, blocks and retires questions. A
counter is in redis until a call fails and in the process's memory for good after it
(`Store`, `broken`). `Samples` is the set of samples `stratified_sample` may return: in
each round every tag gives one of its questions while there is room. `abreast` is the most
requests that had passed a check at one time, `cut` the applications whose request ended
early.

### Erasure

`Upload`, `LoadApply` and `Insert` bring an application with its CV; `StampDecision` starts and stops
its clock. An eraser (`BeginErase`, `BeginPurge`, `BeginReplay`) keeps what it selected,
deletes the objects one call at a time (`DeleteObject`, `DeleteFails`) and the rows in one
commit (`CommitErase`, `RollBack`); the purge then finds orphaned candidates, reads the
referenced keys and sweeps the bucket (`FindOrphans`, `ReadRefs`, `SweepCvs`,
`SweepFails`). `TakeBackup`, `Restore` and `Merge` are the scripts: a restore puts the
tombstones aside, loads the dump and the tarball, merges the tombstones back, and the
replay erases again what they name. History: what any eraser deleted (`erased`); of that what
has no tombstone, because it went with its candidate's row or a restore lost it (`lost`); and
what the last replay skipped at a storage error (`missed`). `ErasedStaysErased` speaks of the
applications in `erased` and in neither of the others, one by one; of candidate rows it says
nothing.

### Team

A request authenticates its caller and loads its row (`LoadUpdate`, `LoadAnonymize`,
`LoadInterview`, `LoadCreate`, `LoadInvite`, `LoadSignOut`, `LoadReset`), counts (active
admins, accounts of an address), and commits (`UpdateUser`, `Anonymize`, `CreateUser`,
`AcceptInvite`, `CreateInvite`, `ResendInvite`, `RevokeInvite`, `SetVersion`,
`RequestInterview`, `BookInterview`). A session carries the token version its user had. `over`
notes of a request under way which tables others have committed to since it loaded
(`Touched`: an account's row, or the active admins besides), and `crossed` that it committed
nevertheless.

Of each user one interview is followed, because a removal asks for those ahead (`Upcoming`:
not cancelled, and without a time or at one to come). It is requested, booked by the candidate
(`LoadBook`, `BookInterview`, which writes over a cancel it has not seen), comes to lie in the
past and is still booked (`PassInterview`), is moved from there or from ahead
(`MoveInterview`, which asks neither for the old time nor for its interviewer), or is cancelled
(`CancelInterview`). `returned` has the removed users whose past interview was moved ahead. That
an erased application takes its interview along is left out: it could only take one away.

## 5. Runs

"Distinct" is the number of distinct states TLC visits.

| run | instance | distinct | what it shows |
| --- | --- | --- | --- |
| `requests` | 2 requests of every route and kind, 1 worker, 2 attempts, 1 fault | 962 429 | `TypeOK`, `WithdrawTakesBack`, `CancelledNeverSent`, `ImplementsPromise` |
| `workers` | 2 mails, 2 workers, 2 attempts, 1 fault, fair | 366 105 | `ProviderAsLogged`, `NeverEarly`, and `EveryMailSettles` (liveness) |
| `tabs` | 2 questions, 2 attempts; 2 tabs with telemetry, or 1 tab and the team | 1 204 524 | `TypeOK`, `QuestionsServed`, `AnswersAreKept` under any concurrency |
| `exam` | 1 tab, 1 team member who re-issues, 2 questions, 2 attempts, 1 kill, fair | 170 420 | `OneTabExam`, `ImplementsExam`, and `QuizEnds` (liveness) |
| `deliveries` | 1 source, 1 endpoint, 2 workers, 3 attempts, 2 waiting jobs, 1 kill, fair | 107 839 | `LogIsTrue`, `SettledStaysSettled`, and `EveryDeliverySettles` (liveness) |
| `interviews` | bookings: 2 requests, a short and a long interview of 2 applications, 3 starts; scorecards: 2 interviews of 1 application, 1 early end; calendars: 2 requests, mails in any order; reminders: 1 request after the other, 5 moments, 1 fault | 1 376 874 | `TypeOK`, `NoOverlap`, `CalendarAgrees`, `CardIsWithdrawn`, `InvitationsHold`, `SubmittedIsKept` |
| `erasure` | 2 applications of 1 person, the API and the worker, 1 restore, 1 fault, fair | 368 875 | `TypeOK`, `ErasedStaysErased`, `CvIsKept`, and `ExpiredIsPurged`, `NothingIsLeft` (liveness) |
| `reconsidered` | the same without fairness | - | refutes `ReconsideredIsKept`, section 8 |
| `intake` | 2 visitors, 2 requests of the team, 2 jobs, 2 emails, 3 questions of 2 tags, limits of 1, 2 submissions, 2 events | 801 743 | `TypeOK`, `LimitsHold`, `AcceptedIsAnswered`, `DrawIsFair` |
| `pipeline` | 1 application, 2 requests, 4 target stages, 8 moments in days of 2 | 768 972 | `ClockFollowsStage`, `ReportIsTrue`, `DecisionIsKeptBack` |
| `board` | 2 applications, 1 request, 5 moments, 2 attempts; or 2 dashboard requests | 633 998 | `StalledIsTrue`, `ViewsAgree`, `DismissalHolds` |
| `office` | 3 users, 2 addresses, 2 invites, 2 requests at a time, 3 in all; 1 letter, 3 templates, 2 clerks, 3 requests of the desk | 343 478 | `AccountsHold`, `SessionsEnd`, `LettersHold` |

Every property of a passing run has a seeded bug in `PROJECT.json` ("mutants"): one mapped
definition changed the way a plausible bug would change it, under which TLC must find the
property violated in the run's own instance. In a module, operators whose comment says
"Mutant of .." are these bugs; no action uses them.

**Why the bounds are enough.** A race over one row needs two actors and the row; the
mails, attempts and deliveries of different candidates share nothing in these models.
Two attempts of a mail give a first failure, a retry and the parking; three of a
webhook also tell a stale counter that is one behind from one that is two behind. Two
questions give an order, a last one and a question missed before another is asked. Two
quiz attempts give an old link and a new one. Two interviews, one of four times the
other's length, overlap from either side; `MaxMoves` bounds the sequence a reschedule may
load, so that it is 1: two reschedules that have loaded one number are what it takes to
mail two times under it.
`MaxJobs` bounds only the jobs waiting at the same time: a sweep adds one whenever there
is room, so a mail or a delivery can be run any number of times. One fault may hit any
process anywhere. In `pipeline`, two moves begin, load and commit in any order within
eight moments, and a third follows them; four stages give an order of ranks, a stage left
and come back to, and both ends. In `board`, limits of one moment let a role stall and
move again, and a link lapse and be replaced; a source limit of one makes an item be
pushed out by another. In `intake`, two visitors pass a check at one time under a limit of
one; three questions of two tags with one shared tell a fair sample from a greedy one. In
`office`, an admin, a member and a third to be made give every removal; a template beside
two to be created reaches the cap of two and passes it. In `interviews`, five half days
and reminders two before the start give a booking well before, within and at the day.
The safety properties of all these models are proved for every value of the constants
(section 7), so the instances matter only for liveness and for the one refuted property.

`CHECK_DEADLOCK FALSE` stands where the system may come to rest: a quiz nobody opens, a
company that registers no endpoint, interviews all cancelled, bounds on time or on
requests used up. `Outbox` names that state (`Quiescent`) and is checked for deadlock.

Symmetry is used for requests and workers, tabs and team, in runs without liveness.

## 6. Fairness

* `Outbox`: time passes (`Tick`), the sweeper's cron fires (`SweepOutbox`, every ten
  minutes), arq runs the jobs it holds (`Delivery`, `TakeStale`), and a request that has
  begun runs on unless it is killed. Nothing is assumed of users: no request need come.
* `Quiz`: a request that has begun runs on (weak); the deadline of a served question passes (weak);
  and the candidate keeps asking for the next question, strongly fair because an open
  request of the same tab or a question still running disables the call again and
  again. That is what the quiz page does: it polls at the deadline. Nothing is
  assumed of answers or of the team.
* `Webhooks`: as in `Outbox`, `Age` being the five minutes of `stuck_deliveries`, and an
  erasure under way ends. Nothing is assumed of admins or of the requests that emit.

* `Erasure`: a process that has begun goes on until it ends, fails or is killed, the
  nightly purge among them starts again (`Proceed`), an uploaded CV gets older than the grace
  (`AgeCv`), and an operator who has begun a restore finishes it (`Merge`). Nothing is
  assumed of who applies, decides or asks to be erased, nor of the retention window.

Each is what keeps the process itself alive (asyncio, arq, the clock); no fairness
makes a provider answer or a lost job come back.

## 7. Proofs

19 053 obligations in eight modules, checked by `tlapm` from nothing: `OutboxProofs` 1358,
`QuizProofs` 2570, `WebhooksProofs` 1218, `InterviewsProofs` 3952, `ErasureProofs` 777,
`IntakeProofs` 3068, `BoardProofs` 3073, `TeamProofs` 3037.

**Assumptions.** `Outbox`: `NoneIsNobody` (the value for "nobody" is no request and no
worker), `OpsAreRequests` (a run admits a subset of the requests there are),
`BoundsAreNatural`. `Quiz`: `SizesArePositive`, `AutoIsASwitch`. `Webhooks`:
`SomethingToDeliver`, `BoundsAreNumbers`. `Interviews`: `SomethingToBook`, `AppOfIsAnApp`,
`SlotsAreTimes` (0 is no time), `NoneIsNoInterview`, `BoundsAreNatural`, and
`DurationsAreCapped`, which is the validation of `InterviewCreate`. `Erasure`: every process
has its duties, every application a person and every candidate row an email
(`PersonsHaveEmails`), ids differ. `Intake`: limits are at least one (`LimitsAreOn`; a limit
of zero switches a guard off in the code), and tables, requests and tags are finite
(`TablesAreFinite`), because the properties count them. `Pipeline` and `Board`:
`TargetsAreStages`, applications are numbered (`AppsAreOrdered`, their order in lists), and
limits are numbers. `Reports`: a day has moments (`DaysHaveMoments`), a median needs values
(`MedianNeedsValues`), and applications are finitely many (`AppsAreFinite`), because a funnel
counts them. `Team`: two reserved names are not addresses. `Letters` (`LettersAreSound`):
templates are finitely many, because the cap of a kind counts them, `Kinds` are kinds of a
stage, the cap is positive, operations are well formed. `Invitations` (`InvitationsAreSound`):
starts are positive, and `DAY` is a number. The sets of requests,
workers, tabs, endpoints, interviews, users and starts are otherwise arbitrary, and the bounds any natural numbers: a behaviour with more
kills or jobs than a bound is one of a larger bound.

**`OutboxProofs`.** `IInv` strengthens the properties where they are not inductive:
* `LockDiscipline` ties the lock on a row to the one delivery that works on it, and says
  the row is still deliverable; from it follows that a cancel cannot slip under a
  provider call, and `CancelledNeverSent` with it (`CancelIsFinal`).
* The bound on calls needs to know where a call is that no row counts yet: in the
  delivery under way, or in one that was killed (`CallInv`, `DeliveredInv`, `InCall`).
  `CallsBounded` and `AcceptedAtMostOnce` are its consequences for settled rows.
* `HoldInv`: a row leaves `scheduled` for `queued` only once its time has come, so a retry
  of a held mail is not early (`HoldIsKept`).
* `AppLockInv`: only a withdrawal keeps the application row locked between two steps,
  and one that does not look at the mails has seen the stage open; with
  `HeldRejection` it gives `WithdrawalTakesBack`, for every withdrawal.
* `Refinement` proves `Spec => Promise!Spec` step by step from the same invariant: a
  commit of sent is a `Settle` because `DeliveredInv` knows of a call, cancels of several
  rows at once are one `Drop`, most other steps stutter.

**`QuizProofs`.** Rows are only appended, so what a request read is still there
(`SeenIsPast`), and the question it inserts is the smallest it has not seen: behind
another tab's rows it may be a duplicate, never a gap (`OrderIsServed`). A request that
scores has seen a row of every question (`ScorerSawAll`, `ScoreIsComplete`). That a
pending attempt is unseen needs `LoadedIsBorn` (a request that found the attempt started
never finds it pending later) and `RanksAreOwn` (the rank of a re-issue is not taken by
another), theorem `PendingUnseen`. `AnswersKept` is an action property from the same
invariant.

`OneTabExam` is false of two racing tabs, so `OneTabIsAnExam` has a hypothesis, `OneTab`:
the candidate has at most one request at a time, while any number of the team's run beside
it. It speaks of behaviours and not of the constants, so `Tab` may have any number of
elements. Its invariant `OneTabIInv` says that rows stand at their questions' places, that
only the last may be open, and that what the candidate's only request has read is still so
when it commits: whatever the team does in between touches other columns or another
attempt. From it `ExamImplemented` maps every step to a step of `Exam` or a stutter. The
attempt to prove it found two arms of a `CASE` in the model that overlapped, where TLC takes
the first and the logic either; the definition now says which.

**`WebhooksProofs`.** The counter is never ahead of the attempts made, on the row or on a
job's copy (`CounterIsReal`, `CopyIsReal`): stale writes only ever lower it, so
parking needs `MAX_ATTEMPTS` real attempts (`FailedTried`). `RowsAreRegistered` is the
foreign key, and `ErasedAreLocked` says a row being erased is not being posted;
`PostsExist` follows for endpoints and rows alike. `RowsComeOnce` makes a key's first
insert its only one, without which `SettledForGood` would not be inductive.
`AnswersAreKept` follows a 2xx from the job that has it to the row, which no other job can
write unless two had it (`SettledTruly`); `RestIsLate` says that what the DELETE has not
found was queued after it, so that the erasure leaves nothing else (`LogIsTrueAlways`).

**`InterviewsProofs`.** A step changes the record of one request, so the invariant is
split into the tables and what one record must satisfy given them (`Sound`); the steps
that leave the tables alone share one lemma (`Moves`).
* `NoDoubleBooking` rests on `WantIsClear`: what a flushed booking is about to commit
  overlaps nothing booked, which the advisory lock (`LocksAreExclusive`) keeps true to its
  commit. The fixed look-back of the conflict query is enough because no interview is
  longer than it (`DurationsAreCapped`): a shorter window misses a long interview.
* `MovesOrdered` needs where a sequence number is between its commit and its mail:
  current under the lock, never ahead of the row afterwards, and nobody else's
  (`SeqIsCurrent`, `SeqIsOwn`).
* `CalendarsAgree` follows the words said of an interview to the interviewer's calendar.
  A word is in the mails, or in a request that has committed and not yet queued; a commit
  adds one, queueing moves one. Of an interview that only one request at a time has
  changed, the last of them by sequence says what the row says (`CalendarIInv`).
* `CardWithdrawn` follows from `CopyIsCurrent`: the row lock of the flush keeps what a
  booking or a cancel has read of the scorecard good enough for what it writes, as long
  as nobody requests by hand. `SubmittedForGood` needs that rows are never removed
  (`CopyIsThere`), or an insert could replace a submitted card.

* Of `Invitations`, `CalendarsAndReminders` (`InvitationsHold`). `CalendarsFit` speaks of the
  mails on their way (`Coming`), those queued and those a request has still to queue: none is
  ahead of the row, one level with it says what the row says, and a cancel is one above a row
  that is off; and unless a mail was lost, the last change has reached each side or is among
  them (`LastIsComing`). So when nothing is on its way the calendars are right, in whatever
  order the mails came. For reminders, the job of a change that is not committed yet waits
  until it is due (`ReminderWaits`), and one that was sent or is being sent is not waiting
  (`RemindedOnce`): a job that is due after the commit finds the booked time.

**`ErasureProofs`.** A dump is consistent and what is kept is live
(`BackupIsConsistent`, `KeptAreLive`); an erased application that is not `lost` has its
tombstone in the table or put aside (`TombstonesAreKept`), and an id not given out yet has none
(`NewIsUnmarked`). What a process in between knows is sound (`Sound`): a replay has found all
that live in spite of a tombstone, from which `ErasedForGood` follows for all it has not
skipped, however old the dump is; and a sweep goes
only for what was old when its run began, which no submission on a fresh upload refers to
(`CvsAreKept`).

**`IntakeProofs`.** The invariant says what a request carries at each point (`Carries`),
that an application has the one request that completes it (`AppsAreWhole`), and what the
counters tell (`CountersTell`). The limits are not inductive by themselves: one must count
who has passed a check and not yet been counted (`Counted`, `Passed`, `Paid`, `Publishing`),
and prove that each step moves at most one request between these sets; four lemmas say
which steps leave applications, counters or the team alone. `DrawsAreFair` is an induction over the rounds
of a sample, for any bank. The library's induction theorem takes an operator, which no
backend here can instantiate, so the proof takes a least counterexample instead, from the
well-foundedness of the strict subset order on finite sets.

**`BoardProofs`.** `CopyIsCurrent` says that what a request loaded is what the row holds
unless another move was committed since the request began, and `PastIsOver` that no
history row is stamped later than now; `ClocksFollowStages` follows. `LogIsHistory` and
`MovesAreChained` tie the log to the true history of applications whose moves did not
overlap, from which come `DecisionsAreKeptBack` and, with `Board`'s clock,
`StalledRolesAreTrue`. `ReportsAreTrue` needs besides that the rows of a history are apart,
and those of the requests under way will be (`EntriesApart`): then the rows by place are the
moves in their order (`EventsAreMoves`), walking back over outcomes ends at the stage left
(`LeftIsTrue`), and the stays found are those that ended (`StaysAreFound`). The sums of the
report are proved as counts: the days of a stay are the days from its entry to its end, which
no other stay has, so that together they are part of the application's age (`StaysFit`); those
the funnel tells of at one stage are nobody it tells of at another (`ToldOnce`). That a fold
over disjoint parts counts their union (`SumOfParts`) is an induction over finite sets, done
by a least counterexample as in `IntakeProofs`. That stays fit into the age holds in spite of
any overlap, since each runs from the row before to its own. Of the board itself, `OldLinksAreDead` (an attempt that was replaced
is over) gives `ViewsAlwaysAgree`; `AloneIsCurrent` (a request nobody overlaps with has the
user's own list) with `KeptIsLive` gives `DismissalsHold`. Here, too, an overlapping `CASE`
(`ForQuiz`) was found by the proof and replaced.

**`TeamProofs`.** A request that nobody has committed over still knows the tables
(`KnowsUser`, `KnowsInvite`, lemma `OthersKnow`): so a demotion that no other commit crossed
has counted the admins there are. An account's row is not what matters to that count: only a
commit that takes an active admin away is ("admins"), so `AdminRemains` excludes the removals
that cross one and no other overlap. A removal over which no interview was requested, booked or
moved still knows that none lies ahead, and a tombstone's interview is cancelled, over, or
`returned` (`InterviewersStay`). Versions only grow, but for crossed writes
(`VersionsGrow`), so a token of an earlier version is never good again; an invite that is
there has made no account (`InvitesAreUnused`).

Of `Letters`, `LettersAreHeld` (`LettersHold`). `LetterCarries` says what a letter under way
knows: what its sender was shown is what it would send now, unless a text or the company
changed since (`overtaken`), and its template was of its kind, so that between the check and
the queueing it can go but not turn into another. `RowCarries` says of a queued mail that its
payload has copied a text that was checked when it was written (`TemplatesValid`), and that
what is stored and sent of it is what was shown but for the link. `ClerkKnows` does the same
for a request of the desk: what it loaded still holds unless another committed over it, which
is what `OneDefault`, the cap and `DefaultsHold` need.

**Only model-checked.**
* Liveness (`EveryMailSettles`, `QuizEnds`, `EveryDeliverySettles`, `ExpiredIsPurged`,
  `NothingIsLeft`): TLAPS 1.4.5 reasons about neither `ENABLED` nor fairness.

Every invariant and every other action property of the passing runs is proved.

## 8. What the models disagree with

| run | the repository says | the code does |
| --- | --- | --- |
| `reconsidered` | services/applications.py:37 "a re-considered candidate must never be purged from a stale clock" | the purge deletes by the ids it selected; an un-reject that commits between its SELECT and its DELETE is not looked at again |

Each of the following was met while modelling; where a property is affected, it says so in
its hypothesis (a history such as `crossed`), and nothing else depends on it.

*Mail and stages.*
* The worker's stage guard reads the stage without a lock, and an un-reject commits its
  stage before it waits for the mail's row (worker.py:359 "never mail a candidate no longer
  rejected").
* The status page masks a rejection while its mail is `scheduled`; between the commit of the
  rejection and the queueing of that mail, and once a first attempt failed, it shows the
  decision before the mail (public.py:728-730). A second held mail hides it again.
* Two concurrent "mail again" requests both queue a rejection (api/applications.py:413). An
  answer of the provider that is lost makes the retry send the mail again.
* A withdrawal and a team's decision each decide on a loaded stage, so either may
  overwrite the other: a withdrawal that loaded the application open writes over a
  rejection or a hire committed since, its mail perhaps sent (public.py:790, against
  779-781 "Decided applications stay decided"; the first disjunct of
  `WithdrawTakesBack`, without which `requests` fails); a bulk move likewise
  (services/applications.py:640, against 622-623). Moves that cross may leave an open stage
  with a stale clock or reason (against services/applications.py:36-37).
* A template deleted between the check and the queueing leaves a moved stage, an error and
  no mail. A released held mail that waits for its retry is not readdressed
  (services/applications.py:574); corrections that cross may leave a held mail at the other
  address. Two choices of a default that cross a reset may leave none, two creations may pass the cap.
* The interview reminder and the quiz nudge do not look at the suppression list.

*Quiz.*
* Telemetry, scoring and extra time write back an `integrity` loaded before a review
  (quiz.py:381 "record the human review on the attempt", 446).
* Two requests for a new link at once each find no automatic link and both re-issue
  (public.py:636 "re-issues a fresh attempt once"). A `/next` that loaded an attempt before
  its re-issue writes its own status over `invalidated`, and the old link is alive again
  (self-hosting-gdpr-guide.md:301); so a completed attempt may not be the latest one, which
  services/queue.py:69-70 assumes.
* Two tabs can hold two open questions, or two rows of one question, counted twice in the
  score (README.md:30 is about one tab), and finalize twice (quiz.py:572).
* Extra time granted while the candidate starts changes the multiplier of a started
  quiz, which docs/api-embed.md:200 excludes.

*Webhooks.*
* A webhook may be posted more than `MAX_ATTEMPTS` times, and a stale job may show as
  failed what was delivered (`doubled`); an event is lost for every endpoint when one was deleted
  before its rows are inserted, or when the process dies after the causing commit
  (docs/api-embed.md:114 promises a delivery per subscribed endpoint).
* An event caused before an erasure commits may queue its delivery after the erasure's
  DELETE. It keeps the candidate's data, nothing refers to the application, and it is posted
  after the erasure's commit (erasure.py:150 "everything hanging off it"). `LogIsTrue` excludes
  these deliveries by name (`late`), and no others.

*Interviews.*
* Under the lock `book` re-checks only for BOOKED, and a cancel takes no lock: a booking that
  loaded the row before writes BOOKED over CANCELLED (models/interview.py:33 "Cancelled rows
  stay as history"; interviews.py:427). It then mails sequence 0 after higher ones while
  the row keeps its own (services/ics.py:4-7).
* A cancel decided on a pending copy while a booking commits mails no calendar cancel; a
  cancel may carry the sequence number of a concurrent reschedule.
* A cancel notice still in the outbox when its application is erased goes with it, and
  the event stays in the interviewer's calendar. After the candidate's own cancel the
  candidate's entry stays. A reminder job that is due at once may run before the booking
  commits, finds nothing booked, and is then lost.
* A scorecard requested by hand while its interview is booked and cancelled may stay
  open, linked to the cancelled interview (scorecards.md:24). The daily scorecard reminder
  works on rows it loaded before, and twice if it is run twice.

*Erasure.*
* A submission that loaded a candidate before the purge of orphans selects it may commit
  after it (retention.py:119 "RETURNING keeps the not-exists predicate atomic"). An
  application that arrives while its candidate is erased is deleted with the candidate's
  row, without a tombstone of its own, and a dump that holds it brings it back (`lost`;
  tombstones.py:8 "the erased people stay erased").
* restore.sh:34 saves an empty list when the database is not there; an interrupt between
  its steps 3 and 4, or a backend started before the merge, loses tombstones (`lost`) or lets
  what is erased be read until the replay. A storage error in the replay leaves its application
  live until somebody replays again (`missed`).

*Applying and jobs.*
* Two partial edits can leave a salary minimum above the maximum (jobs.py:118); two edits of
  the blocklist lose one; a job published meanwhile is deleted as a draft
  (services/jobs.py:149); a job deleted under a submission is answered 409 "already applied";
  two first submissions of one email at a time end one of them in an error 500; the limit
  of active jobs is a check, then an act. A process killed after the application's commit
  leaves it without quiz and mail, and the retry is refused as a duplicate.

*Reports and board.*
* A withdrawal begun before the rejection it saw stamps its history row earlier, and the
  report does not know from where the application left. `stats` lists a re-issued
  application twice, and counts a re-issued expired attempt as expired for ever, a lapsed
  unopened one not.
* Two reads of the queue lose each other's dismissals (queue.py:283-315). An item pushed out
  by the limit of its source is pruned from them and reappears. An abandoned attempt, or a
  pending interview nobody can book, counts as the candidate's turn for ever
  (pipeline_signals.py:79-112). At the very moment `expires_at` two of the views differ.

*Accounts.*
* Two removals or demotions that cross leave no active admin (users.py:87-88 "can never lock
  itself out"); a removed admin's tombstone that is switched on again counts as one.
* "A tombstone offers no slots" (users.py:182): an availability of None is the default hours
  (interviews.py:43-45), and an interview that is over stays booked, so a removal does not see
  it (users.py:158-173), while the candidate's link moves it to a time to come of the removed
  interviewer (interviews.py:473-493). A booking that loaded its interview before a cancel and
  commits after it and after the removal puts one ahead as well (interviews.py:409-447).
* Two requests that write one row's `token_version` across each other let an ended session
  validate again. An acceptance that crosses a revoke still makes an account; an interview
  request that crosses a removal leaves an interview with a tombstone.

## 9. Plan

Modelled, in this order: `Outbox` with its abstract specification and refinement, `Quiz`
with `Exam`, `Webhooks`, `Interviews` with the scorecards, `Erasure`, `Intake`, `Pipeline`
with `Reports` and `Board`, `Team`, `Mails` with `Letters` and `Invitations`. Of each the safety
properties are proved.

Next, in this order:
1. The quiz nudge and the scorecard reminder beside `Invitations`, and the daily claim
   `_claim_run`.
2. Lockout, login codes and MFA, should they come to share state with what `Team` models.

**Not modelled, and why.** MFA, OAuth, lockout and codes are checks by one request; what
they let in is in `Team`. Views, listings, statistics, subject access, tenancy and settings
are CRUD and queries. The object store, the mail providers and the calendars are outside: a
call to them returns, raises, or was carried out and raises. Which of the bodies, names and
payloads of mails matter is in `Mails`: the words as one value, placeholders, links,
recipients; layout and wording are left out. So are values that change by themselves between a
preview and its mail (`completed_assessment`, `days_left`, `expires_at`, the title of a job
that is renamed): `LettersHold` promises what was shown only where nothing it is made of
changed after the preview, and these would be such changes. A webhook payload is either the
application's or a sample, because erasure tells these apart. The frontend appears as the
tabs that call the endpoints.
