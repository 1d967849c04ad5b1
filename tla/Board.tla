-------------------------------- MODULE Board --------------------------------
(***************************************************************************)
(* What the team sees of one job, next to the stages of module Pipeline:   *)
(*   services/pipeline_signals.py  waiting_on, _movement, _status, board   *)
(*   services/queue.py             the derived items, visible_items,       *)
(*                                 dismiss                                 *)
(*   services/applications.py, reports.py, timeline.py   the quiz state    *)
(*                                 in the list, the report, the timeline   *)
(*                                                                         *)
(* Quiz attempts and interviews come from modules Quiz and Interviews, one *)
(* step per committed change.  Everything shown is computed at the moment  *)
(* of the request; the only state of its own is the list of queue items a  *)
(* user dismissed, loaded by a request with its user and written back when *)
(* it changed.                                                             *)
(***************************************************************************)
EXTENDS Pipeline, FiniteSetsExt

CONSTANTS
    Tab,                \* requests of one user for the dashboard's queue
    Limit,              \* stage_limit: days without movement that are too many
    Ttl,                \* moments a quiz link can be started in
    Meeting,            \* moments from a booking to the end of the interview
    PER_SOURCE_LIMIT,   \* items of one kind in the queue
    MaxAttempts         \* bound: links issued for an application

ASSUME AppsAreOrdered == App \subseteq Nat
ASSUME BoardNumbers ==
    /\ Limit \in Nat /\ Ttl \in Nat /\ Meeting \in Nat
    /\ PER_SOURCE_LIMIT \in Nat \ {0} /\ MaxAttempts \in Nat \ {0}

VARIABLES
    job,        \* published or closed, with or without a quiz
    quiz,       \* quiz_attempts of each application, oldest first
    interview,  \* the last interview of each application
    dismissed,  \* users.queue_dismissed
    tab,        \* the dashboard requests: what each loaded
    kept,       \* history: items dismissed that were live ever since
    gone        \* history: items dismissed that a read then found resolved

candidateVars == <<job, quiz, interview>>
boardVars == <<candidateVars, dismissed, tab, kept, gone>>
allVars == <<vars, boardVars>>

\* An attempt is a record of status, sent, expires, done and flagged.
NoInterview == [status |-> "none", created |-> Never, end |-> Never]
Idle == [pc |-> "idle", mine |-> {}, alone |-> TRUE]

\* A new attempt.
Link == [status |-> "pending", sent |-> now, expires |-> now + Ttl, done |-> Never, flagged |-> FALSE]

Attempts(a) == {quiz[a][i] : i \in DOMAIN quiz[a]}
Latest(a) == quiz[a][Len(quiz[a])]
Live == {a \in App : row[a].stage \notin TERMINAL_STAGES}
-----------------------------------------------------------------------------
(***************************************************************************)
(* Who an application is waiting on.                                       *)
(***************************************************************************)
\* An interview takes precedence until it was held and the stage then moved.
InterviewRules(a) ==
    /\ interview[a].status \in {"pending", "booked"}
    /\ ~(/\ interview[a].status = "booked"
         /\ interview[a].end <= now
         /\ row[a].changed > interview[a].end)

\* Whom an application with an interview that counts waits on.
ForInterview(a) ==
    IF interview[a].status = "booked" /\ interview[a].end <= now
    THEN [who |-> "team", since |-> interview[a].end]
    ELSE [who |-> "candidate", since |-> interview[a].created]

\* Whom a new application waits on: the candidate while its link or its exam is
\* open, the team since it was completed or lapsed.
ForQuiz(a) ==
    LET t == Latest(a)
    IN  IF t.status = "in_progress" \/ (t.status = "pending" /\ t.expires > now)
        THEN [who |-> "candidate", since |-> t.sent]
        ELSE [who |-> "team",
              since |-> IF t.status = "completed" THEN t.done
                        ELSE IF t.status \in {"expired", "pending"} THEN t.expires
                        ELSE row[a].changed]

WaitingOn(a) ==
    IF InterviewRules(a) THEN ForInterview(a)
    ELSE IF row[a].stage = "new" /\ quiz[a] # <<>> THEN ForQuiz(a)
    ELSE [who |-> IF row[a].stage = "offer" THEN "candidate" ELSE "team", since |-> row[a].changed]

\* Calendar days (a day is a moment here).
IsOverdue(a) == WaitingOn(a).who = "team" /\ now > WaitingOn(a).since + Limit
-----------------------------------------------------------------------------
(***************************************************************************)
(* The board row of the job.                                               *)
(***************************************************************************)
\* Mutant of Movement: a completed quiz is no movement.
MovesOnly == {e.at : e \in UNION {log[a] : a \in App}} \cup {1 : a \in App}

\* Stage moves, new applications (all at moment 1), completed quizzes.
Movement ==
    {e.at : e \in UNION {log[a] : a \in App}}
      \cup {1 : a \in App}
      \cup {t.done : t \in {x \in UNION {Attempts(a) : a \in App} : x.done # Never}}

MovedInLimit == {t \in Movement : t + Limit >= now}
OnBoard == job.open \/ Live # {}

Status ==
    IF Live = {} THEN "empty"
    ELSE IF MovedInLimit = {} THEN "stalled"
    ELSE IF \E a \in Live : IsOverdue(a) THEN "attention"
    ELSE "on_track"
-----------------------------------------------------------------------------
(***************************************************************************)
(* The items of the queue.                                                 *)
(***************************************************************************)
\* ORDER BY since LIMIT n; what the database does with a tie is left to the
\* application's number.
Before(x, y) == x.since < y.since \/ (x.since = y.since /\ x.app < y.app)
First(S) == {x \in S : Cardinality({y \in S : Before(y, x)}) < PER_SOURCE_LIMIT}

JobWithoutQuiz ==
    {x \in {[kind |-> "job-quiz", app |-> 0, since |-> 1]} : job.open /\ ~job.quiz}

OpenFlags ==
    First(UNION {{[kind |-> "integrity", app |-> a, since |-> t.done] :
                    t \in {u \in Attempts(a) : u.status = "completed" /\ u.flagged}} : a \in Live})

Unbooked ==
    First({[kind |-> "unbooked", app |-> a, since |-> interview[a].created] :
             a \in {b \in Live : interview[b].status = "pending"}})

\* The item's key has no date: it is the role's.
StalledRole ==
    {x \in {[kind |-> "role-stalled", app |-> 0, since |-> 0]} : OnBoard /\ Status = "stalled"}

DerivedItems == JobWithoutQuiz \cup OpenFlags \cup Unbooked \cup StalledRole
-----------------------------------------------------------------------------
(***************************************************************************)
(* The same attempt in the list, in the report, on the timeline.           *)
(***************************************************************************)
\* The list's quiz filter: the class the latest attempt is found under.
ListedAs(a) ==
    IF quiz[a] = <<>> THEN "none"
    ELSE IF Latest(a).status = "pending" /\ Latest(a).expires < now THEN "expired"
    ELSE Latest(a).status

\* Mutant of ReportLine: the status column is taken at its word.
ReportByColumn ==
    LET counted == {x \in App \X (1 .. MaxAttempts) :
                      /\ x[2] \in DOMAIN quiz[x[1]]
                      /\ quiz[x[1]][x[2]].status # "invalidated"}
        having(P(_)) == {x \in counted : P(quiz[x[1]][x[2]])}
    IN  [invited   |-> counted,
         completed |-> having(LAMBDA t : t.status = "completed"),
         expired   |-> having(LAMBDA t : t.status = "expired")]

\* The report's quiz line: the attempts it counts, completed and expired.
ReportLine ==
    LET counted == {x \in App \X (1 .. MaxAttempts) :
                      /\ x[2] \in DOMAIN quiz[x[1]]
                      /\ quiz[x[1]][x[2]].status # "invalidated"}
        having(P(_)) == {x \in counted : P(quiz[x[1]][x[2]])}
    IN  [invited   |-> counted,
         completed |-> having(LAMBDA t : t.status = "completed"),
         expired   |-> having(LAMBDA t : \/ t.status = "expired"
                                         \/ t.status = "pending" /\ t.expires < now)]

\* The expiries on the timeline of an application.
TimelineExpired(a) ==
    {i \in DOMAIN quiz[a] : \/ quiz[a][i].status = "expired"
                            \/ quiz[a][i].status = "pending" /\ quiz[a][i].expires < now}
\* The assessment link can be sent again.
Remindable(a) == quiz[a] # <<>> /\ Latest(a).status = "pending" /\ Latest(a).expires > now
-----------------------------------------------------------------------------
BoardInit ==
    /\ Init
    /\ job \in [open : {TRUE}, quiz : BOOLEAN]
    /\ quiz = [a \in App |-> IF job.quiz
                 THEN <<[status |-> "pending", sent |-> 1, expires |-> 1 + Ttl,
                         done |-> Never, flagged |-> FALSE]>>
                 ELSE <<>>]
    /\ interview = [a \in App |-> NoInterview]
    /\ dismissed = {}
    /\ tab = [t \in Tab |-> Idle]
    /\ kept = {}
    /\ gone = {}

\* What an item's key identifies goes on being live, or is resolved.
StillLive == kept' = {x \in kept : x \in DerivedItems'}
Elsewhere == UNCHANGED <<dismissed, tab, gone>> /\ StillLive

\* A stage moves (module Pipeline); a mail released changes nothing here.
StageRequest == Next /\ UNCHANGED candidateVars /\ Elsewhere

\* Time passes.
Tick ==
    /\ now < MaxNow
    /\ now' = now + 1
    /\ UNCHANGED <<row, log, held, reqVars, was, crossed, candidateVars>>
    /\ Elsewhere

CandidateStep == UNCHANGED vars /\ Elsewhere
SetLatest(a, t) == quiz' = [quiz EXCEPT ![a][Len(quiz[a])] = t]

\* The candidate opens the link: the exam starts, or the link is found dead.
OpenLink(a) ==
    /\ quiz[a] # <<>> /\ Latest(a).status = "pending"
    /\ SetLatest(a, [Latest(a) EXCEPT
         !.status = IF now > Latest(a).expires THEN "expired" ELSE "in_progress"])
    /\ UNCHANGED <<job, interview>>
    /\ CandidateStep

CompleteQuiz(a, flags) ==
    /\ quiz[a] # <<>> /\ Latest(a).status = "in_progress"
    /\ SetLatest(a, [status |-> "completed", sent |-> Latest(a).sent,
                     expires |-> Latest(a).expires, done |-> now, flagged |-> flags])
    /\ UNCHANGED <<job, interview>>
    /\ CandidateStep

\* The team looks the flags over: nothing is open any more.
ReviewFlags(a) ==
    /\ quiz[a] # <<>> /\ Latest(a).status = "completed" /\ Latest(a).flagged
    /\ SetLatest(a, [Latest(a) EXCEPT !.flagged = FALSE])
    /\ UNCHANGED <<job, interview>>
    /\ CandidateStep

\* A new link: the attempt before it is invalidated, unless it had expired.
Reissue(a) ==
    /\ job.quiz
    /\ quiz[a] # <<>> /\ Len(quiz[a]) < MaxAttempts
    /\ quiz' = [quiz EXCEPT ![a] =
         [i \in 1 .. Len(quiz[a]) + 1 |->
            IF i > Len(quiz[a]) THEN Link
            ELSE IF i = Len(quiz[a]) /\ quiz[a][i].status # "expired"
              THEN [quiz[a][i] EXCEPT !.status = "invalidated"] ELSE quiz[a][i]]]
    /\ UNCHANGED <<job, interview>>
    /\ CandidateStep

SetInterview(a, from, status, end) ==
    /\ interview[a].status \in from
    /\ interview' = [interview EXCEPT ![a] =
         [status |-> status,
          created |-> IF status = "pending" THEN now ELSE interview[a].created,
          end |-> end]]
    /\ UNCHANGED <<job, quiz>>
    /\ CandidateStep

\* Every interview of an application is requested at a moment of its own: its
\* key in the queue.
RequestInterview(a) ==
    /\ interview[a].created < now
    /\ SetInterview(a, {"none", "cancelled"}, "pending", Never)
BookInterview(a) == SetInterview(a, {"pending"}, "booked", now + Meeting)
CancelInterview(a) == SetInterview(a, {"pending", "booked"}, "cancelled", Never)

\* The job's quiz is switched on or off; new applicants are not followed here.
EditQuiz ==
    /\ job' = [job EXCEPT !.quiz = ~job.quiz]
    /\ UNCHANGED <<quiz, interview>>
    /\ CandidateStep

CloseJob ==
    /\ job.open
    /\ job' = [job EXCEPT !.open = FALSE]
    /\ UNCHANGED <<quiz, interview>>
    /\ CandidateStep
-----------------------------------------------------------------------------
(***************************************************************************)
(* The dashboard's queue.                                                  *)
(***************************************************************************)
\* A request loads its user, with the dismissed keys of that moment.  Another
\* request that is under way overlaps with it.
LoadUser(t) ==
    /\ tab[t].pc = "idle"
    /\ LET others == {u \in Tab : tab[u].pc = "loaded"}
       IN  tab' = [u \in Tab |->
                     IF u = t THEN [pc |-> "loaded", mine |-> dismissed, alone |-> others = {}]
                     ELSE IF u \in others THEN [tab[u] EXCEPT !.alone = FALSE]
                     ELSE tab[u]]
    /\ UNCHANGED <<vars, candidateVars, dismissed, kept, gone>>

\* The list is written when it differs from the one loaded.
Answer(t, new) ==
    /\ dismissed' = IF new = tab[t].mine THEN dismissed ELSE new
    /\ tab' = [tab EXCEPT ![t] = Idle]
    /\ UNCHANGED <<vars, candidateVars>>

\* Mutant of Relevant: what is hidden does not count as live.
RelevantIfShown(t) == tab[t].mine \cap (DerivedItems \ dismissed)
\* The dismissed keys that match a live item.
Relevant(t) == tab[t].mine \cap DerivedItems

\* GET: the live items are listed without the dismissed ones; keys that match
\* no live item are dropped.
VisibleItems(t) ==
    /\ tab[t].pc = "loaded"
    /\ Answer(t, Relevant(t))
    /\ kept' = IF tab[t].alone THEN kept ELSE {}
    /\ gone' = IF tab[t].alone THEN gone \cup (dismissed \ DerivedItems) ELSE {}

\* POST dismiss: 404 unless the key is that of a live item.
Dismiss(t, x) ==
    /\ tab[t].pc = "loaded"
    /\ x \in DerivedItems
    /\ Answer(t, tab[t].mine \cup {x})
    /\ kept' = IF tab[t].alone THEN kept \cup {x} ELSE {}
    /\ gone' = IF tab[t].alone THEN gone \ {x} ELSE {}

BoardNext ==
    \/ StageRequest
    \/ Tick
    \/ \E a \in App :
          \/ OpenLink(a)
          \/ \E flags \in BOOLEAN : CompleteQuiz(a, flags)
          \/ ReviewFlags(a) \/ Reissue(a)
          \/ RequestInterview(a) \/ BookInterview(a) \/ CancelInterview(a)
    \/ EditQuiz \/ CloseJob
    \/ \E t \in Tab :
          \/ LoadUser(t) \/ VisibleItems(t)
          \/ \E x \in DerivedItems : Dismiss(t, x)

BoardSpec == BoardInit /\ [][BoardNext]_allVars
-----------------------------------------------------------------------------
\* A role with people in it is shown stalled exactly when nothing really moved
\* within the limit: no stage by a request begun in it, no quiz completed.
StalledIsTrue ==
    LET quiet == \A a \in App :
                   /\ \A i \in DOMAIN was[a] : was[a][i].begun + Limit < now
                   /\ \A i \in DOMAIN quiz[a] :
                        quiz[a][i].done # Never => quiz[a][i].done + Limit < now
    IN  Live # {} => (Status = "stalled" <=> quiet)

\* The list, the report, the timeline, the board and the reminder agree on
\* whether a link has lapsed, also when the candidate never opened it to find
\* out; and an application has at most one attempt that counts and is not over.
ViewsAgree ==
    \A a \in App : quiz[a] # <<>> =>
      LET lapsed == ListedAs(a) = "expired"
      IN  /\ lapsed <=> <<a, Len(quiz[a])>> \in ReportLine.expired
          /\ lapsed <=> Len(quiz[a]) \in TimelineExpired(a)
          /\ Remindable(a) => ListedAs(a) = "pending"
          /\ row[a].stage = "new" /\ ~InterviewRules(a) =>
               /\ lapsed => WaitingOn(a).who = "team"
               /\ Remindable(a) => WaitingOn(a).who = "candidate"
          /\ {i \in DOMAIN quiz[a] : <<a, i>> \in ReportLine.invited
                                       \ (ReportLine.completed \cup ReportLine.expired)}
               \subseteq {Len(quiz[a])}

\* An item a user dismissed stays hidden while it is live, and one that a read
\* found resolved shows up again when it returns; unless two requests of the
\* user overlapped.
DismissalHolds ==
    /\ kept \subseteq dismissed
    /\ gone \cap dismissed = {}
-----------------------------------------------------------------------------
(***************************************************************************)
(* What the proofs need besides.                                           *)
(***************************************************************************)
Attempt == [status : {"pending", "in_progress", "completed", "expired", "invalidated"},
            sent : Nat, expires : Nat, done : Nat, flagged : BOOLEAN]

Item == [kind : {"job-quiz", "integrity", "unbooked", "role-stalled"}, app : Nat, since : Nat]

BoardTypeOK ==
    /\ job \in [open : BOOLEAN, quiz : BOOLEAN]
    /\ quiz \in [App -> Seq(Attempt)]
    /\ interview \in [App -> [status : {"none", "pending", "booked", "cancelled"},
                              created : Nat, end : Nat]]
    /\ dismissed \subseteq Item
    /\ tab \in [Tab -> [pc : {"idle", "loaded"}, mine : SUBSET Item, alone : BOOLEAN]]

\* Only the latest attempt can go on; there are as many as a run allows.
OldLinksAreDead ==
    \A a \in App :
      /\ Len(quiz[a]) <= MaxAttempts
      /\ \A i \in DOMAIN quiz[a] \ {Len(quiz[a])} : quiz[a][i].status \in {"expired", "invalidated"}

\* A request that no other overlaps with is the only one under way, and the
\* keys it loaded are those of the user.
AloneIsCurrent ==
    \A t \in Tab : tab[t].pc = "loaded" /\ tab[t].alone =>
      /\ tab[t].mine = dismissed
      /\ \A u \in Tab \ {t} : tab[u].pc = "idle"

KeptIsLive == kept \subseteq DerivedItems

\* The inductive invariant of the board.
BoardIInv ==
    /\ IInv /\ BoardTypeOK /\ OldLinksAreDead /\ AloneIsCurrent /\ KeptIsLive /\ DismissalHolds
=============================================================================
