-------------------------------- MODULE Quiz --------------------------------
(***************************************************************************)
(* The quiz attempts of one application:                                   *)
(*   services/quiz.py     current_or_next_question, submit_answer,         *)
(*                        record_events, reissue_attempt, grant_extra_time *)
(*   api/public.py        the candidate's quiz endpoints                   *)
(*   api/applications.py  the staff's re-issue, extra time, dismiss        *)
(*                                                                         *)
(* A request loads the attempt, decides on the loaded copy and commits.    *)
(* Nothing is read FOR UPDATE; the one lock that matters is the one the    *)
(* first /next takes when it flushes IN_PROGRESS before it reads the       *)
(* answers, and keeps to its commit.  SQLAlchemy writes the columns whose  *)
(* value differs from the loaded one and leaves the others alone.          *)
(* An attempt is named by its rank in created_at, the start of the         *)
(* transaction that inserts it: the rank is taken when the request loads.  *)
(***************************************************************************)
EXTENDS Integers, Sequences, FiniteSets

CONSTANTS
    Tab,          \* the candidate's concurrent requests
    Staff,        \* concurrent requests of the team
    N,            \* length of question_ids; questions are named by their place in it
    AutoLink,     \* company setting quiz_expired_reissue = "auto"
    Ops,          \* the endpoints a run exercises
    MaxAttempts,  \* bound: attempts of the application
    MaxCrashes    \* bound: requests that end early, by an error or a kill

Proc == Tab \cup Staff
Slot == 1 .. MaxAttempts
Frozen == 1 .. N

ASSUME SizesArePositive == N \in Nat \ {0} /\ MaxAttempts \in Nat \ {0} /\ MaxCrashes \in Nat
ASSUME AutoIsASwitch == AutoLink \in BOOLEAN

VARIABLES
    att,     \* quiz_attempts by rank
    rows,    \* attempt_answers of each attempt, in the order served
    req,     \* what each request has loaded and where it is
    taken,   \* ranks in created_at taken so far
    crashes

vars == <<att, rows, req, taken, crashes>>

Status == {"none", "pending", "in_progress", "completed", "expired", "invalidated"}
\* Keys of the integrity column; "auto" stands for reissue.mode = "auto".
Part == {"events", "flags", "review", "reissue_requested", "accommodation", "auto"}
NoScore == -1

\* lapsed: expires_at has passed.  extra: a time_multiplier above 1.
Attempt == [status : Status, lapsed : BOOLEAN, extra : BOOLEAN, parts : SUBSET Part, score : Int]
NoAttempt ==
    [status |-> "none", lapsed |-> FALSE, extra |-> FALSE, parts |-> {}, score |-> NoScore]
Fresh(extra, parts) ==
    [status |-> "pending", lapsed |-> FALSE, extra |-> extra, parts |-> parts, score |-> NoScore]

\* open: answered_at is NULL.  right: is_correct.  due: deadline_at has passed.
\* extra: the deadline was computed with extra time.
Row == [q : Frozen, open : BOOLEAN, right : BOOLEAN, due : BOOLEAN, extra : BOOLEAN]

Idle ==
    [pc |-> "idle", op |-> "next", att |-> 1, stat |-> "none", extra |-> FALSE, want |-> FALSE,
     parts |-> {}, late |-> {}, seen |-> <<>>, row |-> 0, right |-> FALSE, score |-> 0,
     slot |-> 0, why |-> "events"]

Init ==
    /\ att = [a \in Slot |-> IF a = 1 THEN Fresh(FALSE, {}) ELSE NoAttempt]
    /\ rows = [a \in Slot |-> <<>>]
    /\ req = [p \in Proc |-> Idle]
    /\ taken = 1
    /\ crashes = 0

Served(S) == {S[i].q : i \in DOMAIN S}
Remaining(S) == Frozen \ Served(S)
Open(S) == {i \in DOMAIN S : S[i].open}
Right(S) == Cardinality({i \in DOMAIN S : S[i].right})
Born == {a \in Slot : att[a].status # "none"}
IsLatest(a) == a \in Born /\ \A b \in Born : b <= a

\* An UPDATE of attempt a waits for a first /next that has flushed its own.
Free(p, a) ==
    \A r \in Proc \ {p} :
        ~(req[r].att = a /\ req[r].stat = "pending" /\ req[r].pc \in {"decide", "score"})

Goto(p, r) == req' = [req EXCEPT ![p] = r]
Done(p) == Goto(p, Idle)
Begins(p, op) == req[p].pc = "idle" /\ op \in Ops

\* What a request holds after it has loaded attempt a.
Loaded(op, a) ==
    [Idle EXCEPT !.op = op, !.att = a, !.stat = att[a].status, !.extra = att[a].extra,
                 !.want = att[a].extra, !.parts = att[a].parts]

\* The rows of S with those in I resolved; only answered_at changes.
Resolved(S, I) == [i \in DOMAIN S |-> IF i \in I THEN [S[i] EXCEPT !.open = FALSE] ELSE S[i]]

SetRows(a, S) == rows' = [rows EXCEPT ![a] = S]
SetAttempt(a, r) == att' = [att EXCEPT ![a] = r]
-----------------------------------------------------------------------------
(***************************************************************************)
(* POST /quiz/{token}/next                                                 *)
(***************************************************************************)
Serving == {"pending", "in_progress"}

Entry(a) ==
    IF att[a].status = "in_progress" THEN "look"
    ELSE IF att[a].lapsed THEN "expire" ELSE "start"

\* The attempt is loaded, then the clock is read: a completed attempt answers
\* "done" and a dead one 410, both without effect.
LoadNext(p, a) ==
    /\ Begins(p, "next")
    /\ att[a].status \in Serving
    /\ Goto(p, [Loaded("next", a) EXCEPT
                  !.pc = Entry(a),
                  !.late = {i \in DOMAIN rows[a] : rows[a][i].due}])
    /\ UNCHANGED <<att, rows, taken, crashes>>

\* A pending attempt past its TTL: EXPIRED is committed.  /next is then done,
\* the request for a new link goes on with the attempt it holds.
Expire(p) ==
    /\ req[p].pc = "expire"
    /\ Free(p, req[p].att)
    /\ SetAttempt(req[p].att, [att[req[p].att] EXCEPT !.status = "expired"])
    /\ Goto(p, IF req[p].op = "ask" THEN [req[p] EXCEPT !.pc = "ask", !.stat = "expired"] ELSE Idle)
    /\ UNCHANGED <<rows, taken, crashes>>

\* resolved_answers.  On a first /next the query flushes status = IN_PROGRESS
\* before it reads, so it waits for the row and then sees what was committed.
ReadAnswers(p) ==
    /\ req[p].pc \in {"start", "look"}
    /\ req[p].pc = "start" => Free(p, req[p].att)
    /\ Goto(p, [req[p] EXCEPT !.pc = "decide", !.seen = rows[req[p].att]])
    /\ UNCHANGED <<att, rows, taken, crashes>>

\* Mutant of Waiting: an open question never times out.
WaitingForever(p) == Open(req[p].seen)

Waiting(p) == Open(req[p].seen) \ req[p].late
Missed(p) == Open(req[p].seen) \cap req[p].late

\* Mutant of CommitStarted: the status is left pending.
CommitNothing(p) == att' = att

\* The commit of a first /next shows the status it flushed.
CommitStarted(p) ==
    IF req[p].stat = "pending"
      THEN SetAttempt(req[p].att, [att[req[p].att] EXCEPT !.status = "in_progress"])
      ELSE att' = att

\* An open question still in time is served again.  Late ones met before it in
\* the loop are resolved: which ones depends on the limits, so any.
ReturnOpen(p) ==
    /\ req[p].pc = "decide"
    /\ Waiting(p) # {}
    /\ \E M \in SUBSET Missed(p) : SetRows(req[p].att, Resolved(rows[req[p].att], M))
    /\ CommitStarted(p)
    /\ Done(p)
    /\ UNCHANGED <<taken, crashes>>

\* Mutant of Exhausted: one question early.
OneEarly(S) == Cardinality(Remaining(S)) <= 1

Exhausted(S) == Remaining(S) = {}

\* Mutants of IsNext: the last question first; the last one served again.
IsLastLeft(q, S) == q \in Remaining(S) /\ \A k \in Remaining(S) : k <= q
IsAgain(q, S) == IF S = <<>> THEN q = 1 ELSE q = S[Len(S)].q

\* remaining[0], in the frozen order.
IsNext(q, S) == q \in Remaining(S) /\ \A k \in Remaining(S) : q <= k

\* No open question in time: the late ones are missed and the first question
\* not yet served is inserted.
ServeNext(p) ==
    /\ req[p].pc = "decide"
    /\ Waiting(p) = {}
    /\ ~Exhausted(req[p].seen)
    /\ \E q \in Frozen :
         /\ IsNext(q, req[p].seen)
         /\ SetRows(req[p].att,
                    Append(Resolved(rows[req[p].att], Missed(p)),
                           [q |-> q, open |-> TRUE, right |-> FALSE, due |-> FALSE,
                            extra |-> req[p].extra]))
    /\ CommitStarted(p)
    /\ Done(p)
    /\ UNCHANGED <<taken, crashes>>

\* Mutant of FinalScore: the resolved rows are counted.
ResolvedScore(p) == Len(rows[req[p].att])

\* _finalize reads the answers again: rows it had loaded keep the attributes
\* loaded before, rows inserted since are new to the session.
FinalScore(p) ==
    LET seen == req[p].seen
        S == rows[req[p].att]
    IN  Right([i \in DOMAIN S |-> IF i \in DOMAIN seen THEN seen[i] ELSE S[i]])

ReadScore(p) ==
    /\ req[p].pc = "decide"
    /\ Waiting(p) = {}
    /\ Exhausted(req[p].seen)
    /\ Goto(p, [req[p] EXCEPT !.pc = "score", !.score = FinalScore(p)])
    /\ UNCHANGED <<att, rows, taken, crashes>>

Finalize(p) ==
    /\ req[p].pc = "score"
    /\ Free(p, req[p].att)
    /\ SetRows(req[p].att, Resolved(rows[req[p].att], Missed(p)))
    /\ SetAttempt(req[p].att,
                  [att[req[p].att] EXCEPT !.status = "completed", !.score = req[p].score,
                                          !.parts = req[p].parts \cup {"flags"}])
    /\ Done(p)
    /\ UNCHANGED <<taken, crashes>>
-----------------------------------------------------------------------------
(***************************************************************************)
(* POST /quiz/{token}/answer, /events and /request-reissue                 *)
(***************************************************************************)
\* The open row of the question is found; two of them are an error, as is none.
LoadSubmit(p, a, i) ==
    /\ Begins(p, "answer")
    /\ att[a].status \notin {"none", "invalidated"}
    /\ {j \in Open(rows[a]) : rows[a][j].q = rows[a][i].q} = {i}
    /\ \E correct \in BOOLEAN :
         Goto(p, [Loaded("answer", a) EXCEPT !.pc = "submit", !.row = i,
                                             !.right = correct /\ ~rows[a][i].due])
    /\ UNCHANGED <<att, rows, taken, crashes>>

\* Mutants of Answered: the row is replaced by one without its limits;
\* is_correct is written whatever was loaded.
AnsweredBare(r, right) == [q |-> r.q, open |-> FALSE, right |-> right]
AnsweredBlind(r, right) == [r EXCEPT !.open = FALSE, !.right = right]

\* is_correct was loaded FALSE, so only TRUE is written.
Answered(r, right) == [r EXCEPT !.open = FALSE, !.right = @ \/ right]

Submit(p) ==
    /\ req[p].pc = "submit"
    /\ SetRows(req[p].att,
               [rows[req[p].att] EXCEPT ![req[p].row] = Answered(@, req[p].right)])
    /\ Done(p)
    /\ UNCHANGED <<att, taken, crashes>>

\* record_events checks no status.
LoadEvents(p, a) ==
    /\ Begins(p, "events")
    /\ a \in Born
    /\ Goto(p, [Loaded("events", a) EXCEPT !.pc = "note", !.why = "events"])
    /\ UNCHANGED <<att, rows, taken, crashes>>

\* The whole integrity value is written back, from the copy that was loaded.
WriteNote(p) ==
    /\ req[p].pc = "note"
    /\ Free(p, req[p].att)
    /\ SetAttempt(req[p].att,
                  [att[req[p].att] EXCEPT !.parts = req[p].parts \cup {req[p].why}])
    /\ Done(p)
    /\ UNCHANGED <<rows, taken, crashes>>

\* Only an expired attempt, or a pending one past its TTL, may ask for a link.
LoadAsk(p, a) ==
    /\ Begins(p, "ask")
    /\ \/ att[a].status = "expired"
       \/ att[a].status = "pending" /\ att[a].lapsed
    /\ Goto(p, [Loaded("ask", a) EXCEPT
                  !.pc = IF att[a].status = "expired" THEN "ask" ELSE "expire"])
    /\ UNCHANGED <<att, rows, taken, crashes>>

\* A newer attempt exists: 409.
RefuseAsk(p) ==
    /\ req[p].pc = "ask"
    /\ ~IsLatest(req[p].att)
    /\ Done(p)
    /\ UNCHANGED <<att, rows, taken, crashes>>

AutoUsed == \E a \in Slot : "auto" \in att[a].parts

AutoReissue(p) ==
    /\ req[p].pc = "ask"
    /\ IsLatest(req[p].att)
    /\ AutoLink /\ ~AutoUsed
    /\ taken < MaxAttempts
    /\ taken' = taken + 1
    /\ Goto(p, [req[p] EXCEPT !.pc = "reissue", !.slot = taken + 1])
    /\ UNCHANGED <<att, rows, crashes>>

\* Manual mode, the one automatic link used up, or no question left to serve.
AskTeam(p) ==
    /\ req[p].pc = "ask"
    /\ IsLatest(req[p].att)
    /\ Goto(p, [req[p] EXCEPT !.pc = "note", !.why = "reissue_requested"])
    /\ UNCHANGED <<att, rows, taken, crashes>>
-----------------------------------------------------------------------------
(***************************************************************************)
(* The team: re-issue, extra time, flags dismissed                         *)
(***************************************************************************)
LoadReissue(p, a) ==
    /\ Begins(p, "reissue")
    /\ IsLatest(a)
    /\ taken < MaxAttempts
    /\ taken' = taken + 1
    /\ Goto(p, [Loaded("reissue", a) EXCEPT !.pc = "reissue", !.slot = taken + 1])
    /\ UNCHANGED <<att, rows, crashes>>

\* Extra time on a pending attempt changes it in place ...
LoadGrant(p, a, m) ==
    /\ Begins(p, "grant")
    /\ IsLatest(a)
    /\ att[a].status = "pending"
    /\ Goto(p, [Loaded("grant", a) EXCEPT !.pc = "extra", !.want = m])
    /\ UNCHANGED <<att, rows, taken, crashes>>

\* ... and anything else is issued again.
LoadGrantReissue(p, a, m) ==
    /\ Begins(p, "grant")
    /\ IsLatest(a)
    /\ att[a].status # "pending"
    /\ taken < MaxAttempts
    /\ taken' = taken + 1
    /\ Goto(p, [Loaded("grant", a) EXCEPT !.pc = "reissue", !.want = m, !.slot = taken + 1])
    /\ UNCHANGED <<att, rows, crashes>>

\* time_multiplier and integrity are written if they differ from what was loaded.
GrantExtra(p) ==
    LET loaded == req[p].parts
        parts == IF req[p].want THEN loaded \cup {"accommodation"} ELSE loaded \ {"accommodation"}
        a == att[req[p].att]
    IN  /\ req[p].pc = "extra"
        /\ Free(p, req[p].att)
        /\ SetAttempt(req[p].att,
              [a EXCEPT !.extra = IF req[p].want # req[p].extra THEN req[p].want ELSE @,
                        !.parts = IF req[p].want \/ parts # loaded THEN parts ELSE @])
        /\ Done(p)
        /\ UNCHANGED <<rows, taken, crashes>>

Supersedes(p) == req[p].stat \notin {"expired", "invalidated"}

\* reissue_attempt: the loaded attempt is invalidated and a fresh one inserted,
\* in one commit.  The extra time rides along.
Reissue(p) ==
    LET stamped == req[p].want /\ (req[p].op = "grant" \/ "accommodation" \in req[p].parts)
        fresh == Fresh(req[p].want, (IF stamped THEN {"accommodation"} ELSE {})
                                      \cup (IF req[p].op = "ask" THEN {"auto"} ELSE {}))
    IN  /\ req[p].pc = "reissue"
        /\ Supersedes(p) => Free(p, req[p].att)
        /\ att' = [a \in Slot |->
                     IF a = req[p].slot THEN fresh
                     ELSE IF a = req[p].att /\ Supersedes(p)
                            THEN [att[a] EXCEPT !.status = "invalidated"]
                            ELSE att[a]]
        /\ Done(p)
        /\ UNCHANGED <<rows, taken, crashes>>

LoadDismiss(p, a) ==
    /\ Begins(p, "dismiss")
    /\ IsLatest(a)
    /\ Goto(p, [Loaded("dismiss", a) EXCEPT !.pc = "note", !.why = "review"])
    /\ UNCHANGED <<att, rows, taken, crashes>>
-----------------------------------------------------------------------------
\* A request ends early; its open transaction is rolled back.
Crash(p) ==
    /\ req[p].pc # "idle"
    /\ crashes < MaxCrashes
    /\ crashes' = crashes + 1
    /\ Done(p)
    /\ UNCHANGED <<att, rows, taken>>

\* expires_at passes.  Only a pending attempt is ever compared with it.
Lapse(a) ==
    /\ att[a].status = "pending" /\ ~att[a].lapsed
    /\ SetAttempt(a, [att[a] EXCEPT !.lapsed = TRUE])
    /\ UNCHANGED <<rows, req, taken, crashes>>

\* deadline_at passes.  Only an open row is ever compared with it.
Deadline(a, i) ==
    /\ rows[a][i].open /\ ~rows[a][i].due
    /\ SetRows(a, [rows[a] EXCEPT ![i] = [@ EXCEPT !.due = TRUE]])
    /\ UNCHANGED <<att, req, taken, crashes>>

TabStep(p) ==
    \/ \E a \in Slot : LoadNext(p, a) \/ LoadEvents(p, a) \/ LoadAsk(p, a)
    \/ \E a \in Slot : \E i \in DOMAIN rows[a] : LoadSubmit(p, a, i)
    \/ Expire(p) \/ ReadAnswers(p) \/ ReturnOpen(p) \/ ServeNext(p) \/ ReadScore(p) \/ Finalize(p)
    \/ Submit(p) \/ WriteNote(p) \/ RefuseAsk(p) \/ AutoReissue(p) \/ AskTeam(p) \/ Reissue(p)

StaffStep(p) ==
    \/ \E a \in Slot : LoadReissue(p, a) \/ LoadDismiss(p, a)
    \/ \E a \in Slot : \E m \in BOOLEAN : LoadGrant(p, a, m) \/ LoadGrantReissue(p, a, m)
    \/ GrantExtra(p) \/ Reissue(p) \/ WriteNote(p)

Time ==
    \E a \in Slot : Lapse(a) \/ \E i \in DOMAIN rows[a] : Deadline(a, i)

Next ==
    \/ \E p \in Tab : TabStep(p)
    \/ \E p \in Staff : StaffStep(p)
    \/ \E p \in Proc : Crash(p)
    \/ Time

Spec == Init /\ [][Next]_vars

\* Requests run on, deadlines pass, and the candidate keeps asking for the next
\* question of every attempt it has a link to.
Proceed(p) ==
    \/ Expire(p) \/ ReadAnswers(p) \/ ReturnOpen(p) \/ ServeNext(p) \/ ReadScore(p) \/ Finalize(p)
    \/ Submit(p) \/ WriteNote(p) \/ GrantExtra(p) \/ Reissue(p)

Fairness ==
    /\ \A p \in Proc : WF_vars(Proceed(p))
    /\ \A p \in Tab : \A a \in Slot : SF_vars(LoadNext(p, a))
    /\ \A a \in Slot : \A i \in Frozen : WF_vars(i \in DOMAIN rows[a] /\ Deadline(a, i))

FairSpec == Spec /\ Fairness
-----------------------------------------------------------------------------
(***************************************************************************)
(* Properties under any concurrency.                                       *)
(***************************************************************************)
Request ==
    [pc : {"idle", "start", "look", "expire", "decide", "score", "submit", "note", "ask", "extra",
           "reissue"},
     op : {"next", "answer", "events", "ask", "reissue", "grant", "dismiss"},
     att : Slot, stat : Status, extra : BOOLEAN, want : BOOLEAN, parts : SUBSET Part,
     late : SUBSET Nat, seen : Seq(Row), row : Nat, right : BOOLEAN, score : Int,
     slot : 0 .. MaxAttempts, why : Part]

\* The state has the shape of the tables and of the requests' local variables.
TypeOK ==
    /\ att \in [Slot -> Attempt]
    /\ rows \in [Slot -> Seq(Row)]
    /\ req \in [Proc -> Request]
    /\ taken \in Slot
    /\ crashes \in 0 .. MaxCrashes

InOrder(S) == \A i \in DOMAIN S : \A k \in Frozen : k <= S[i].q => k \in Served(S)

\* Whatever tabs race, the questions served are the first ones of the frozen
\* order, without a gap: question k is only served after all before it.
ServedInOrder == \A a \in Slot : InOrder(rows[a])

\* An attempt that has been scored was served every question: two tabs cannot
\* finish a quiz early between them (_finalize runs on nothing remaining).
ScoredWasServed == \A a \in Slot : att[a].score # NoScore => Remaining(rows[a]) = {}

\* A pending attempt has served nothing and has no score: the link a grant or
\* a TTL check finds pending is one nobody has seen a question of.
PendingIsUnseen ==
    \A a \in Slot : att[a].status \in {"none", "pending"} => rows[a] = <<>> /\ att[a].score = NoScore

\* What was served is all an attempt's status and score may rest on: whatever
\* tabs and members of the team race, nothing is served of a pending attempt,
\* questions are served in the frozen order, and a score comes after the last.
QuestionsServed == ServedInOrder /\ ScoredWasServed /\ PendingIsUnseen

\* Answers are history: a row is never removed or re-opened, keeps its question
\* and its limit, and a right answer is never taken back by a later request.
KeepsRow(r, s) == s.q = r.q /\ s.extra = r.extra /\ (s.open => r.open) /\ (r.right => s.right)

AnswersAreKept ==
    [][\A a \in Slot : \A i \in DOMAIN rows[a] :
         i \in DOMAIN rows'[a] /\ KeepsRow(rows[a][i], rows'[a][i])]_vars

(***************************************************************************)
(* The inductive invariant of the proofs.                                  *)
(***************************************************************************)
\* What a request read is still there: rows are only appended.
SeenIsPast ==
    \A p \in Proc :
        LET S == rows[req[p].att]
        IN  /\ req[p].pc = "submit" => req[p].row \in 1 .. Len(S)
            /\ req[p].pc \in {"decide", "score"} =>
                 /\ Len(req[p].seen) <= Len(S)
                 /\ \A i \in 1 .. Len(req[p].seen) : req[p].seen[i].q = S[i].q

\* A request that is about to score has read a row of every question.
ScorerSawAll == \A p \in Proc : req[p].pc = "score" => Remaining(req[p].seen) = {}

\* A request works on an attempt that exists, and one it found started or over
\* never looks unstarted again.
LoadedIsBorn ==
    \A p \in Proc : req[p].pc # "idle" =>
        /\ req[p].stat # "none"
        /\ att[req[p].att].status # "none"
        /\ req[p].stat # "pending" => att[req[p].att].status # "pending"

\* The rank a re-issue has taken is its own and still free.
RanksAreOwn ==
    /\ \A a \in Slot : a > taken => att[a].status = "none"
    /\ \A p \in Proc : req[p].pc = "reissue" =>
         /\ req[p].slot \in 1 .. taken
         /\ att[req[p].slot].status = "none"
         /\ \A r \in Proc : r # p /\ req[r].pc = "reissue" => req[r].slot # req[p].slot

IInv ==
    /\ TypeOK
    /\ ServedInOrder
    /\ ScoredWasServed
    /\ PendingIsUnseen
    /\ SeenIsPast
    /\ ScorerSawAll
    /\ LoadedIsBorn
    /\ RanksAreOwn

(***************************************************************************)
(* Properties of one tab: the candidate sends one request at a time, the   *)
(* team any.                                                               *)
(***************************************************************************)
\* One question at a time is open (README.md:30), through missed deadlines,
\* reconnects and re-issues.
OneOpen == \A a \in Slot : Cardinality(Open(rows[a])) <= 1

\* No question is served twice in an attempt, so each counts once in its score.
ServedOnce ==
    \A a \in Slot : \A i, j \in DOMAIN rows[a] : rows[a][i].q = rows[a][j].q => i = j

\* An expired attempt is one that was never started (AttemptExpiredError).
ExpiredUnstarted == \A a \in Slot : att[a].status = "expired" => rows[a] = <<>>

\* What one tab may count on, through reconnects and re-issues.
OneTabExam == OneOpen /\ ServedOnce /\ ExpiredUnstarted

\* The candidate sends one request at a time: reloads and reconnects follow each
\* other, while members of the team, expiry and re-issues go on beside them.
OneTab == \A p, r \in Tab : p = r

\* Rows are served one per question, in their place, one of them open; a scored
\* attempt is over and has none open.
RowsInPlace ==
    \A a \in Slot : /\ \A i \in DOMAIN rows[a] : rows[a][i].q = i
                   /\ \A i, j \in Open(rows[a]) : i = j
ScoredIsOver ==
    \A a \in Slot : att[a].score # NoScore =>
        att[a].status \in {"completed", "invalidated"} /\ Open(rows[a]) = {}

\* Rows that differ in what the clock has made due since.
SameRows(S, T) ==
    /\ Len(S) = Len(T)
    /\ \A i \in 1 .. Len(S) : S[i].q = T[i].q /\ S[i].open = T[i].open /\ S[i].right = T[i].right

\* Only the candidate's request is at the places of an exam, so that what it has
\* read of the attempt is so when it commits.
TabPlaces == {"start", "look", "expire", "decide", "score", "submit", "ask"}

TabSees ==
    \A p \in Proc :
        LET a == req[p].att
        IN  /\ req[p].pc \in TabPlaces => p \in Tab
            /\ req[p].pc \in {"start", "look", "decide", "score"} =>
                 att[a].score = NoScore /\ att[a].status # "expired"
            /\ req[p].pc = "expire" => rows[a] = <<>>
            /\ req[p].pc = "submit" => req[p].row \in Open(rows[a])
            /\ req[p].pc \in {"decide", "score"} => SameRows(req[p].seen, rows[a])
            /\ req[p].pc = "score" => Waiting(p) = {} /\ req[p].score = Right(rows[a])

OneTabIInv ==
    OneTab /\ IInv /\ RowsInPlace /\ ExpiredUnstarted /\ ScoredIsOver /\ TabSees

\* Every attempt is an exam: asked in order, answered or missed, scored once.
ExamOf(a) == INSTANCE Exam WITH
    asked <- Len(rows[a]), open <- Open(rows[a]) # {}, points <- Right(rows[a]),
    score <- att[a].score

\* \A a \in Slot : ExamOf(a)!Spec, with the quantifier inside the box for TLC.
ImplementsExam ==
    /\ \A a \in Slot : ExamOf(a)!Init
    /\ [][\A a \in Slot : [ExamOf(a)!Next]_(ExamOf(a)!vars)]_vars

\* A started quiz comes to an end, whether or not its questions are answered:
\* it is scored, or superseded by a re-issue.
QuizEnds ==
    \A a \in Slot : att[a].status = "in_progress" ~> att[a].status \in {"completed", "invalidated"}
=============================================================================
