------------------------------- MODULE Intake -------------------------------
(***************************************************************************)
(* From the published job to the application and its quiz:                 *)
(*   api/public.py              _apply and what it calls                   *)
(*   core/challenge.py          the proof-of-work check                    *)
(*   core/ratelimit.py          fixed windows in redis or in memory        *)
(*   services/quotas.py         the guards of a company                    *)
(*   services/screening.py      build_answers                              *)
(*   services/applications.py   submit_application                         *)
(*   services/quiz.py           create_attempt, stratified_sample          *)
(*   api/jobs.py, services/jobs.py, services/questions.py   the team edits *)
(*                                                                         *)
(* A request works on the job and the company as it loaded them; every     *)
(* call to redis and every commit is a step of its own.  One backend       *)
(* process serves the requests: once redis has failed it counts in its     *)
(* memory for good.                                                        *)
(***************************************************************************)
EXTENDS Integers, Sequences, FiniteSets, SequencesExt

CONSTANTS
    Visitor,       \* requests under way at a time
    Admin,         \* requests of the team under way at a time
    Job,
    Email,
    Screening,     \* screening questions
    Required,      \* those an answer is required for
    Question,      \* the bank
    Tag,
    TagsOf,        \* the tags of each question
    Listed,        \* what the company's questionnaire refers to
    QuizCount,     \* quiz_config.question_count
    APPLICATIONS,  \* quota_applications_per_hour
    EMAILS,        \* quota_emails_per_day
    ACTIVE_JOBS,   \* quota_active_jobs
    Edits,         \* bound: what the team does
    MaxSubmits,    \* bound: submissions
    MaxEvents      \* bound: requests of the team, hours that pass, redis failures
                   \* and killed requests, taken together

ASSUME LimitsAreOn == APPLICATIONS \in Nat \ {0} /\ EMAILS \in Nat \ {0} /\ ACTIVE_JOBS \in Nat \ {0}
ASSUME TagsAreTags == TagsOf \in [Question -> SUBSET Tag] /\ Listed \subseteq Question
ASSUME RequiredAreAsked == Required \subseteq Screening
\* Rows of a table, requests under way, tags of a question: finitely many.
ASSUME TablesAreFinite ==
    /\ IsFiniteSet(Visitor) /\ IsFiniteSet(Admin) /\ IsFiniteSet(Job) /\ IsFiniteSet(Email)
    /\ IsFiniteSet(Question) /\ IsFiniteSet(Tag)
ASSUME CountsAreNatural == QuizCount \in Nat /\ MaxSubmits \in Nat /\ MaxEvents \in Nat

VARIABLES
    job,      \* status, screening questions, quiz of each job
    listed,   \* whether the questionnaire is there
    retired, blocked,   \* questions
    adm,      \* the team's requests
    req,      \* the visitors' requests
    app,      \* applications
    cands,    \* candidate rows
    issued,   \* challenges handed out
    used,     \* challenges redis has seen
    count,    \* the counters of this hour and day
    broken,   \* _redis_broken
    entries,  \* activity entries about an exceeded quota
    reliable, \* history: redis has answered every call
    burnt,    \* history: submissions counted
    admitted, \* history: submissions the guards let through this hour
    cut,      \* history: applications whose request ended early
    abreast,  \* history: the most requests that had passed a check at one time
    submits, events

work == <<job, listed, retired, blocked, adm>>
redis == <<issued, used, count, broken, reliable, burnt, admitted>>
vars == <<work, req, app, cands, redis, entries, cut, abreast, submits, events>>

Scope == {"emails", "applications"}
Limit == [emails |-> EMAILS, applications |-> APPLICATIONS]
Store == {"redis", "memory"}
Counter == Scope \cup {"emails logged", "applications logged"}
LoggedOf == [emails |-> "emails logged", applications |-> "applications logged"]

\* JobStatus, and a row that is deleted.
Status == {"draft", "published", "closed", "deleted"}
\* parse_quiz_config, as far as create_attempt tells configurations apart.
QuizKind == {"off", "tags", "list"}
\* validate_questions: a question comes once.
Forms == SUBSET Screening

NoApp == [st |-> "none", asked |-> {}, given |-> {}, pool |-> {}, drawn |-> {}, mail |-> "none"]
NoReq == [pc |-> "idle", key |-> <<>>, token |-> {}, given |-> {}, form |-> {}, quiz |-> "off",
          blocked |-> {}, found |-> FALSE, over |-> "none", res |-> "none"]
NoEdit == [pc |-> "idle", op |-> "none", job |-> {}, st |-> "none", blocked |-> {}]

Init ==
    /\ \E open \in SUBSET Job :
         /\ Cardinality(open) <= ACTIVE_JOBS
         /\ job = [j \in Job |-> [st |-> IF j \in open THEN "published" ELSE "draft",
                                 form |-> {}, quiz |-> "list"]]
    /\ listed = TRUE /\ retired = {} /\ blocked = {}
    /\ adm = [b \in Admin |-> NoEdit]
    /\ req = [v \in Visitor |-> NoReq]
    /\ app = [k \in Job \X Email |-> NoApp]
    /\ cands = {} /\ issued = 0 /\ used = {}
    /\ count = [s \in Store |-> [c \in Counter |-> 0]]
    /\ broken = FALSE /\ entries = [s \in Scope |-> 0]
    /\ reliable = TRUE /\ burnt = 0 /\ admitted = 0 /\ cut = {}
    /\ abreast = [mails |-> 1, jobs |-> 1]
    /\ submits = 0 /\ events = 0

Goto(v, r) == req' = [req EXCEPT ![v] = r]
Answer(v, res) == Goto(v, [NoReq EXCEPT !.key = req[v].key, !.res = res])
Refuse(v) == Goto(v, NoReq)
At(v, l) == req[v].pc = l
Event == events < MaxEvents /\ events' = events + 1
-----------------------------------------------------------------------------
(***************************************************************************)
(* The counters: in redis, or in this process once a hit has failed there. *)
(***************************************************************************)
\* hit_window.  n is the count this call is.
Hit(c, n) ==
    \/ /\ n = count["redis"][c] + 1 /\ ~broken
       /\ count' = [count EXCEPT !["redis"][c] = n]
       /\ UNCHANGED <<broken, reliable, events>>
    \/ /\ n = count["memory"][c] + 1
       /\ IF broken THEN UNCHANGED events ELSE Event
       /\ broken' = TRUE /\ reliable' = FALSE
       /\ count' = [count EXCEPT !["memory"][c] = n]

\* peek_window: a failed read falls back without being remembered.
Peek(c, n) ==
    \/ n = count["redis"][c] /\ ~broken /\ UNCHANGED <<reliable, events>>
    \/ /\ n = count["memory"][c]
       /\ IF broken THEN UNCHANGED events ELSE Event
       /\ reliable' = FALSE

Next0 == 0 .. MaxSubmits + 1

\* Mutants: the guard lets one more through.
OverLate(s, n, consume) == IF consume THEN n > Limit[s] + 1 ELSE n > Limit[s]

Over(s, n, consume) == IF consume THEN n > Limit[s] ELSE n >= Limit[s]
-----------------------------------------------------------------------------
(***************************************************************************)
(* A submission.                                                           *)
(***************************************************************************)
\* The company and the published job as they are now; the challenge is a new one
\* or was sent before, the answers are to a form seen at any time.
Submit(v, j, e, t, given) ==
    /\ At(v, "idle") /\ submits < MaxSubmits
    /\ job[j].st = "published"
    /\ submits' = submits + 1
    /\ Goto(v, [NoReq EXCEPT !.pc = "challenge", !.key = <<j, e>>, !.token = {t}, !.given = given,
                             !.form = job[j].form, !.quiz = job[j].quiz, !.blocked = blocked])
    /\ issued' = IF t > issued THEN t ELSE issued
    /\ UNCHANGED <<work, app, cands, used, count, broken, reliable, burnt, admitted>>
    /\ UNCHANGED <<entries, cut, abreast, events>>

Proceed(v, l) == Goto(v, [req[v] EXCEPT !.pc = l])

More(n, m) == IF n > m THEN n ELSE m
Beyond(v) == req[v].pc \in {"applications", "answers", "insert", "quiz", "mail", "count"}

\* Mutant of ClaimChallenge: the challenge is not remembered.
ClaimChallengeAgain(v) ==
    /\ At(v, "challenge") /\ Proceed(v, "emails")
    /\ UNCHANGED <<work, app, cands, redis, entries, cut, abreast, submits, events>>

\* challenge.require: SET NX, which is skipped when redis does not answer.
ClaimChallenge(v) ==
    /\ At(v, "challenge")
    /\ \/ /\ ~broken
          /\ used' = used \cup req[v].token
          /\ IF req[v].token \subseteq used THEN Refuse(v) ELSE Proceed(v, "emails")
          /\ UNCHANGED <<reliable, events>>
       \/ /\ IF broken THEN UNCHANGED events ELSE Event
          /\ Proceed(v, "emails")
          /\ reliable' = FALSE
          /\ UNCHANGED used
    /\ UNCHANGED <<work, app, cands, issued, count, broken, burnt, admitted, entries, cut, abreast, submits>>

\* quotas.guard for emails, which are counted where they are queued, ...
GuardEmails(v) ==
    /\ At(v, "emails")
    /\ \E n \in Next0 :
         /\ Peek("emails", n)
         /\ IF Over("emails", n, FALSE)
            THEN Goto(v, [req[v] EXCEPT !.pc = "breach", !.over = "emails"]) /\ UNCHANGED abreast
            ELSE /\ Proceed(v, "applications")
                 /\ abreast' = [abreast EXCEPT !.mails =
                                  More(@, 1 + Cardinality({w \in Visitor : Beyond(w)}))]
    /\ UNCHANGED <<work, app, cands, issued, used, count, broken, burnt, admitted, entries, cut, submits>>

\* ... and for applications, which count at every attempt.
GuardApplications(v) ==
    /\ At(v, "applications")
    /\ \E n \in Next0 :
         /\ Hit("applications", n)
         /\ IF Over("applications", n, TRUE)
            THEN /\ Goto(v, [req[v] EXCEPT !.pc = "breach", !.over = "applications"])
                 /\ UNCHANGED admitted
            ELSE Proceed(v, "answers") /\ admitted' = admitted + 1
    /\ burnt' = burnt + 1
    /\ UNCHANGED <<work, app, cands, issued, used, entries, cut, abreast, submits>>

\* _record_breach_once: the day's first breach is recorded.
FlagBreach(v) ==
    /\ At(v, "breach")
    /\ \E n \in Next0 :
         /\ Hit(LoggedOf[req[v].over], n)
         /\ IF n = 1 THEN Proceed(v, "record") ELSE Refuse(v)
    /\ UNCHANGED <<work, app, cands, issued, used, burnt, admitted, entries, cut, abreast, submits>>

RecordBreach(v) ==
    /\ At(v, "record")
    /\ entries' = [entries EXCEPT ![req[v].over] = @ + 1]
    /\ Refuse(v)
    /\ UNCHANGED <<work, app, cands, redis, cut, abreast, submits, events>>

\* Mutant of Fits: an answer that is required may be missing.
FitsPartly(given, form) == given \subseteq form

\* build_answers: only questions that are asked, and all that are required.
Fits(given, form) == given \subseteq form /\ Required \cap form \subseteq given

\* The answers, the CV (an upload may be missing or wrong), then the select of
\* _get_or_create_candidate.
CheckAnswers(v) ==
    /\ At(v, "answers")
    /\ \/ Fits(req[v].given, req[v].form)
          /\ Goto(v, [req[v] EXCEPT !.pc = "insert", !.found = req[v].key[2] \in cands])
       \/ Refuse(v)
    /\ UNCHANGED <<work, app, cands, redis, entries, cut, abreast, submits, events>>

\* A candidate row inserted since is an error of its own; whatever else the
\* constraints refuse is taken for a second application.
InsertApplication(v) ==
    /\ At(v, "insert")
    /\ LET k == req[v].key IN
       IF ~req[v].found /\ k[2] \in cands
       THEN Refuse(v) /\ UNCHANGED <<app, cands>>
       ELSE IF app[k].st = "live" \/ job[k[1]].st = "deleted"
       THEN Answer(v, "conflict") /\ UNCHANGED <<app, cands>>
       ELSE /\ app' = [app EXCEPT ![k] = [NoApp EXCEPT !.st = "live", !.asked = req[v].form,
                                                       !.given = req[v].given]]
            /\ cands' = cands \cup {k[2]}
            /\ Proceed(v, "quiz")
    /\ UNCHANGED <<work, redis, entries, cut, abreast, submits, events>>

\* The next hour has its own key; mails and breaches count by the day.
NextHour ==
    /\ Event
    /\ count' = [s \in Store |-> [count[s] EXCEPT !["applications"] = 0]]
    /\ admitted' = 0
    /\ UNCHANGED <<work, req, app, cands, issued, used, broken, reliable, burnt, entries, cut, abreast, submits>>
-----------------------------------------------------------------------------
(***************************************************************************)
(* The questions of an attempt.                                            *)
(***************************************************************************)
\* _question_pool: what is active now and was not blocked when the company was
\* loaded.
Pool(v) == {q \in Question \ (retired \cup req[v].blocked) : TagsOf[q] # {}}

\* Mutant of Pass: a question of two tags may be drawn for each.
PassTwice(chosen, tag, pool) ==
    LET candidates == {q \in pool : tag \in TagsOf[q]}
    IN  IF candidates = {} THEN {chosen} ELSE {chosen \cup {q} : q \in candidates}

\* One tag's turn: any question of it that is not chosen yet.
Pass(chosen, tag, pool) ==
    LET candidates == {q \in pool \ chosen : tag \in TagsOf[q]}
    IN  IF candidates = {} THEN {chosen} ELSE {chosen \cup {q} : q \in candidates}

\* stratified_sample: all it may choose.  One round goes through the tags, until
\* there are enough questions, ...
Round(chosen, pool, cycle) ==
    LET after[i \in 0 .. Len(cycle)] ==
          IF i = 0 THEN {chosen}
          ELSE UNION {IF Cardinality(c) >= QuizCount THEN {c} ELSE Pass(c, cycle[i], pool) :
                        c \in after[i - 1]}
    IN  after[Len(cycle)]

\* ... and a round that chooses nothing is the last one that could.
Samples(pool, cycle) ==
    LET rounds[n \in 0 .. QuizCount] ==
          IF n = 0 THEN {{}} ELSE UNION {Round(c, pool, cycle) : c \in rounds[n - 1]}
    IN  rounds[QuizCount]

\* Any order of the tags that have questions.
Cycles(pool) == SetToSeqs(UNION {TagsOf[q] : q \in pool})

\* create_attempt: by tags, or what is left of the questionnaire.
Drawable(v) ==
    CASE req[v].quiz = "off" -> {{}}
      [] req[v].quiz = "list" -> {IF listed THEN Pool(v) \cap Listed ELSE {}}
      [] req[v].quiz = "tags" -> UNION {Samples(Pool(v), c) : c \in Cycles(Pool(v))}

\* The attempt needs its application's row.
CreateAttempt(v) ==
    /\ At(v, "quiz")
    /\ LET k == req[v].key IN
       \E drawn \in Drawable(v) :
         IF drawn # {} /\ app[k].st # "live"
         THEN Refuse(v) /\ UNCHANGED app
         ELSE /\ app' = [app EXCEPT ![k] = [@ EXCEPT !.drawn = drawn,
                                             !.pool = IF req[v].quiz = "tags" THEN Pool(v) ELSE drawn]]
              /\ Proceed(v, "mail")
    /\ UNCHANGED <<work, cands, redis, entries, cut, abreast, submits, events>>

\* Mutant of Kind: the confirmation goes out to everyone.
KindPlain(k) == "application_received"

\* The invite stands for the confirmation.
Kind(k) == IF app[k].drawn # {} THEN "quiz_invite" ELSE "application_received"

\* outbox.queue_email: the row, which refers to the application, then the count.
QueueMail(v) ==
    /\ At(v, "mail")
    /\ LET k == req[v].key IN
       IF app[k].st = "live"
       THEN app' = [app EXCEPT ![k].mail = Kind(k)] /\ Proceed(v, "count")
       ELSE Refuse(v) /\ UNCHANGED app
    /\ UNCHANGED <<work, cands, redis, entries, cut, abreast, submits, events>>

CountMail(v) ==
    /\ At(v, "count")
    /\ \E n \in Next0 : Hit("emails", n)
    /\ Answer(v, "created")
    /\ UNCHANGED <<work, app, cands, issued, used, burnt, admitted, entries, cut, abreast, submits>>

\* The process dies, or the request ends with an error.
Kill(v) ==
    /\ ~At(v, "idle")
    /\ Event
    /\ cut' = IF req[v].pc \in {"quiz", "mail", "count"} THEN cut \cup {req[v].key} ELSE cut
    /\ Refuse(v)
    /\ UNCHANGED <<work, app, cands, redis, entries, abreast, submits>>
-----------------------------------------------------------------------------
(***************************************************************************)
(* The team.  Each request decides on what it has loaded.                  *)
(***************************************************************************)
Active == {j \in Job : job[j].st = "published"}

Load(b, op, j) ==
    /\ adm[b].pc = "idle" /\ Event
    /\ op \in Edits /\ job[j].st # "deleted"
    /\ adm' = [adm EXCEPT ![b] = [pc |-> "loaded", op |-> op, job |-> {j}, st |-> job[j].st,
                                  blocked |-> blocked]]
    /\ UNCHANGED <<job, listed, retired, blocked, req, app, cands, redis, entries, cut, abreast, submits>>

Doing(b, op) == adm[b].pc = "loaded" /\ adm[b].op = op
Ends(b) == adm' = [adm EXCEPT ![b] = NoEdit]
EditsOnly == UNCHANGED <<req, cands, redis, entries, cut, abreast, submits, events>>

RoomForJobs == Cardinality(Active) < ACTIVE_JOBS

\* publish_job counts, then publishes what it has loaded as a draft or closed.
CountActive(b) ==
    /\ Doing(b, "publish")
    /\ IF adm[b].st \in {"draft", "closed"} /\ RoomForJobs
       THEN /\ adm' = [adm EXCEPT ![b].pc = "counted"]
            /\ abreast' = [abreast EXCEPT !.jobs =
                             More(@, 1 + Cardinality({c \in Admin : adm[c].pc = "counted"}))]
       ELSE Ends(b) /\ UNCHANGED abreast
    /\ UNCHANGED <<req, cands, redis, entries, cut, submits, events>>
    /\ UNCHANGED <<job, app, listed, retired, blocked>>

SetStatus(b, s) ==
    /\ job' = [j \in Job |-> IF j \in adm[b].job /\ job[j].st # "deleted"
                             THEN [job[j] EXCEPT !.st = s] ELSE job[j]]
    /\ Ends(b)
    /\ EditsOnly /\ UNCHANGED <<listed, retired, blocked>>

Publish(b) == adm[b].pc = "counted" /\ SetStatus(b, "published") /\ UNCHANGED app

Close(b) ==
    /\ Doing(b, "close")
    /\ adm[b].st = "published"
    /\ SetStatus(b, "closed") /\ UNCHANGED app

\* Only a draft; the applications of the row go with it.
Delete(b) ==
    /\ Doing(b, "delete")
    /\ adm[b].st = "draft"
    /\ SetStatus(b, "deleted")
    /\ app' = [k \in DOMAIN app |-> IF k[1] \in adm[b].job /\ app[k].st = "live"
                                    THEN [app[k] EXCEPT !.st = "gone"] ELSE app[k]]

\* The transition is refused.
Forbid(b) ==
    /\ \/ Doing(b, "close") /\ adm[b].st # "published"
       \/ Doing(b, "delete") /\ adm[b].st # "draft"
    /\ Ends(b)
    /\ EditsOnly /\ UNCHANGED <<job, app, listed, retired, blocked>>

\* update_job writes the fields it was given.
UpdateJob(b) ==
    /\ \/ Doing(b, "form") /\ \E f \in Forms :
            job' = [j \in Job |-> IF j \in adm[b].job THEN [job[j] EXCEPT !.form = f] ELSE job[j]]
       \/ Doing(b, "quiz") /\ \E z \in QuizKind :
            job' = [j \in Job |-> IF j \in adm[b].job THEN [job[j] EXCEPT !.quiz = z] ELSE job[j]]
    /\ Ends(b)
    /\ EditsOnly /\ UNCHANGED <<app, listed, retired, blocked>>

\* set_bank_block writes the whole list it has loaded, with one question more
\* or less; a question is retired, a questionnaire deleted, at once.
EditBank(b) ==
    /\ \/ /\ Doing(b, "block")
          /\ \E q \in Question : blocked' = IF q \in adm[b].blocked THEN adm[b].blocked \ {q}
                                                                   ELSE adm[b].blocked \cup {q}
          /\ UNCHANGED <<retired, listed>>
       \/ /\ Doing(b, "retire")
          /\ \E q \in Question : retired' = retired \cup {q}
          /\ UNCHANGED <<blocked, listed>>
       \/ Doing(b, "unlist") /\ listed' = FALSE /\ UNCHANGED <<blocked, retired>>
    /\ Ends(b)
    /\ EditsOnly /\ UNCHANGED <<job, app>>
-----------------------------------------------------------------------------
Submits(v) ==
    \E j \in Job, e \in Email, t \in 1 .. issued + 1, given \in SUBSET Screening : Submit(v, j, e, t, given)

Handles(v) ==
    \/ ClaimChallenge(v) \/ GuardEmails(v) \/ GuardApplications(v)
    \/ FlagBreach(v) \/ RecordBreach(v)
    \/ CheckAnswers(v) \/ InsertApplication(v)
    \/ CreateAttempt(v) \/ QueueMail(v) \/ CountMail(v)

Edit(b) ==
    \/ \E op \in Edits, j \in Job : Load(b, op, j)
    \/ CountActive(b) \/ Publish(b) \/ Close(b) \/ Delete(b) \/ Forbid(b)
    \/ UpdateJob(b) \/ EditBank(b)

Next ==
    \/ \E v \in Visitor : Submits(v) \/ Handles(v) \/ Kill(v)
    \/ \E b \in Admin : Edit(b)
    \/ NextHour

Spec == Init /\ [][Next]_vars
-----------------------------------------------------------------------------
\* Jobs, requests and applications have their shape, and the answers an
\* application keeps fit the questions it was asked.
TypeOK ==
    /\ job \in [Job -> [st : Status, form : Forms, quiz : QuizKind]]
    /\ listed \in BOOLEAN /\ broken \in BOOLEAN /\ reliable \in BOOLEAN
    /\ retired \in SUBSET Question /\ blocked \in SUBSET Question
    /\ \A v \in Visitor : req[v].pc # "idle" => req[v].key \in Job \X Email
    /\ cands \in SUBSET Email /\ used \in SUBSET (1 .. issued)
    /\ entries \in [Scope -> Nat]
    /\ \A k \in Job \X Email : app[k].st = "live" =>
         /\ k[2] \in cands
         /\ Required \cap app[k].asked \subseteq app[k].given
         /\ app[k].given \subseteq app[k].asked

\* The guards keep their limits: each store lets no more submissions through in
\* a window than its limit says; mails go over theirs only by the requests that
\* had passed the check at one time, active jobs only by the team's that had.
QuotasHold ==
    /\ admitted <= IF broken THEN 2 * APPLICATIONS ELSE APPLICATIONS
    /\ reliable => Cardinality({k \in Job \X Email : app[k].mail # "none"})
                     <= EMAILS + abreast.mails - 1 + Cardinality(cut)
    /\ Cardinality(Active) <= ACTIVE_JOBS + abreast.jobs - 1

\* "before quotas: bots must not burn them" (public.py:325): as long as redis
\* answers, a solved challenge is worth one counted submission.
OneUse == reliable => burnt <= Cardinality(used)

\* Limits are kept and each counted submission is paid for: whoever passed the
\* guards of quotas.py did so within a window and with a challenge of his own.
LimitsHold == QuotasHold /\ OneUse

\* An applicant who was accepted is told so, once and with the quiz if there is
\* one, unless the request ended early; who is refused as having applied has, or
\* the job is gone.
AcceptedIsAnswered ==
    /\ \A k \in Job \X Email :
         /\ app[k].st = "live" /\ app[k].mail = "none" =>
              k \in cut \/ \E v \in Visitor : req[v].key = k /\ req[v].pc \in {"quiz", "mail"}
         /\ app[k].mail = "quiz_invite" <=> app[k].mail # "none" /\ app[k].drawn # {}
    /\ \A v \in Visitor :
         /\ req[v].res = "conflict" =>
              app[req[v].key].st = "live" \/ job[req[v].key[1]].st = "deleted"
         /\ req[v].res = "created" => app[req[v].key].mail # "none"

\* "so every requested tag is represented when possible": a sample has as many
\* questions as asked for or all there are, and every tag that has one gets one
\* if there is room for that many.
DrawIsFair ==
    \A k \in Job \X Email :
      LET pool == app[k].pool
          tags == UNION {TagsOf[q] : q \in pool}
      IN  /\ app[k].drawn \subseteq pool
          /\ app[k].drawn = pool \/ Cardinality(app[k].drawn) = QuizCount
          /\ QuizCount >= Cardinality(tags) => UNION {TagsOf[q] : q \in app[k].drawn} = tags
-----------------------------------------------------------------------------
(***************************************************************************)
(* The inductive invariant of the proofs.                                  *)
(***************************************************************************)
Key == Job \X Email
Application ==
    [st : {"none", "live", "gone"}, asked : Forms, given : Forms, pool : SUBSET Question,
     drawn : SUBSET Question, mail : {"none", "quiz_invite", "application_received"}]
Submission ==
    [pc : {"idle", "challenge", "emails", "applications", "breach", "record", "answers", "insert",
           "quiz", "mail", "count"},
     key : Key \cup {<<>>}, token : SUBSET Nat, given : Forms, form : Forms, quiz : QuizKind,
     blocked : SUBSET Question, found : BOOLEAN, over : Scope \cup {"none"},
     res : {"none", "conflict", "created"}]
TeamEdit ==
    [pc : {"idle", "loaded", "counted"}, op : Edits \cup {"none"},
     job : {{j} : j \in Job} \cup {{}}, st : Status \cup {"none"}, blocked : SUBSET Question]

\* Every table, counter and request has its shape.
Shape ==
    /\ TypeOK
    /\ req \in [Visitor -> Submission]
    /\ adm \in [Admin -> TeamEdit]
    /\ app \in [Key -> Application]
    /\ count \in [Store -> [Counter -> Nat]]
    /\ abreast \in [mails : Nat, jobs : Nat]
    /\ issued \in Nat /\ burnt \in Nat /\ admitted \in Nat /\ submits \in Nat /\ events \in Nat
    /\ cut \in SUBSET Key

\* What a request carries fits where it stands.
Carries(q) ==
    /\ q.res # "none" => q.key \in Key
    /\ q.token \subseteq 1 .. issued
    /\ q.pc = "challenge" => q.token # {}
    /\ q.pc \in {"breach", "record"} => q.over \in Scope
    /\ q.pc = "insert" => Fits(q.given, q.form)
    /\ q.res = "conflict" => app[q.key].st = "live" \/ job[q.key[1]].st = "deleted"
    /\ q.res = "created" => app[q.key].mail # "none"
    /\ q.pc \in {"quiz", "mail"} => app[q.key].st # "none" /\ app[q.key].mail = "none"
    /\ q.pc = "count" => app[q.key].st # "none" /\ app[q.key].mail # "none"

Within(P) == {v \in Visitor : req[v].pc \in P}
Storing == {"quiz", "mail", "count"}
Passed == {"applications", "answers", "insert", "quiz", "mail"}
Paid == {"emails", "applications"}
Publishing == {b \in Admin : adm[b].pc = "counted"}

\* An application is there once, with one request that completes it.
AppsAreWhole ==
    /\ \A k \in Key :
         /\ app[k].st = "none" => app[k].mail = "none"
         /\ app[k].st = "gone" => job[k[1]].st = "deleted"
         /\ app[k].st = "live" /\ app[k].mail = "none" =>
              k \in cut \/ \E v \in Within({"quiz", "mail"}) : req[v].key = k
         /\ app[k].mail = "quiz_invite" <=> app[k].mail # "none" /\ app[k].drawn # {}
    /\ \A v, w \in Within(Storing) : req[v].key = req[w].key => v = w

Lesser(n, m) == IF n < m THEN n ELSE m
Mailed == {k \in Key : app[k].mail # "none"}
\* Mails that the counter has, as far as it has not lost a killed request's.
Counted == {k \in Mailed \ cut : \A v \in Within({"count"}) : req[v].key # k}

\* The counters tell what has happened, and who has passed a check was few enough
\* then to pass it.
CountersTell ==
    /\ broken => ~reliable
    /\ ~broken => count["memory"]["applications"] = 0
    /\ admitted <= Lesser(count["redis"]["applications"], APPLICATIONS)
                     + Lesser(count["memory"]["applications"], APPLICATIONS)
    /\ reliable => Cardinality(Counted) <= count["redis"]["emails"]
    /\ reliable => Cardinality(Mailed) + Cardinality(Within(Passed))
                     <= EMAILS + abreast.mails - 1 + Cardinality(cut)
    /\ reliable => burnt + Cardinality(Within(Paid)) <= Cardinality(used)
    /\ Cardinality(Active) + Cardinality(Publishing) <= ACTIVE_JOBS + abreast.jobs - 1

IInv ==
    /\ Shape
    /\ \A v \in Visitor : Carries(req[v])
    /\ \A b \in Admin : adm[b].pc # "idle" => adm[b].job # {}
    /\ AppsAreWhole
    /\ CountersTell
    /\ DrawIsFair
=============================================================================
