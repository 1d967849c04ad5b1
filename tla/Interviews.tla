----------------------------- MODULE Interviews -----------------------------
(***************************************************************************)
(* The interviews of one interviewer, with the scorecards they ask for:    *)
(*   services/interviews.py   create_interview, book, reschedule,          *)
(*                            candidate_cancel, cancel_interview           *)
(*   services/scorecards.py   request, submit, decline, dismiss,           *)
(*                            dismiss_for_interview                        *)
(*   api/public.py, api/applications.py, api/scorecards.py   the routes    *)
(*                                                                         *)
(* Booking and rescheduling compute the free slots first, then take the    *)
(* interviewer's advisory lock to the end of the transaction and re-read   *)
(* the status; creating and cancelling take no such lock.  The UPDATE of   *)
(* an interview is flushed before the scorecards are read, so its row is   *)
(* locked from there to the commit.  SQLAlchemy writes the columns whose   *)
(* value differs from the loaded one.  The calendar mails are queued after *)
(* the commit.                                                             *)
(***************************************************************************)
EXTENDS Integers, FiniteSets

CONSTANTS
    Proc,        \* concurrent requests
    Interview,   \* rows that may be inserted
    App,         \* applications
    AppOf,       \* the application of each interview
    Dur,         \* duration_minutes of each interview
    Slot,        \* starts the interviewer's availability offers
    MAX_INTERVIEW_MINUTES,
    None,        \* no interview
    Ops,         \* the operations a run exercises
    MaxMoves,    \* bound: reschedules of an interview
    MaxAborts    \* bound: requests that end early

NoStart == 0

ASSUME SomethingToBook == Interview # {}
ASSUME AppOfIsAnApp == AppOf \in [Interview -> App]
ASSUME DurationsAreCapped == \* schemas.interviews.InterviewCreate
    /\ MAX_INTERVIEW_MINUTES \in Nat
    /\ Dur \in [Interview -> 1 .. MAX_INTERVIEW_MINUTES]
ASSUME SlotsAreTimes == Slot \subseteq Nat \ {NoStart}
ASSUME NoneIsNoInterview == None \notin Interview
ASSUME BoundsAreNatural == MaxMoves \in Nat /\ MaxAborts \in Nat

VARIABLES
    iv,         \* interviews
    card,       \* scorecards: the interviewer's row on each application
    req,        \* what each request has loaded and where it is
    mails,      \* calendar mails queued to the interviewer
    disturbed,  \* history: interviews two requests were at, or whose mail was lost
    asked,      \* history: applications with a scorecard requested by hand
    aborts      \* requests that ended early

vars == <<iv, card, req, mails, disturbed, asked, aborts>>

Status == {"none", "pending", "booked", "cancelled"}
Row == [status : Status, start : Slot \cup {NoStart}, seq : Nat]
NoRow == [status |-> "none", start |-> NoStart, seq |-> 0]

\* The timestamps state_of derives the state from, as set or NULL.
Card == [there : BOOLEAN, link : Interview \cup {None},
         submitted : BOOLEAN, dismissed : BOOLEAN, declined : BOOLEAN]
NoCard == [there |-> FALSE, link |-> None,
           submitted |-> FALSE, dismissed |-> FALSE, declined |-> FALSE]
NewCard(l) == [NoCard EXCEPT !.there = TRUE, !.link = l]

Mail == [op : {"book", "move", "cancel"}, iv : Interview, seq : Nat, start : Slot \cup {NoStart}]

AnIv == CHOOSE i \in Interview : TRUE
AnApp == CHOOSE a \in App : TRUE
Idle == [pc |-> "idle", op |-> "book", iv |-> AnIv, app |-> AnApp, start |-> NoStart, seq |-> 0,
         want |-> NoStart, card |-> NoCard]

Init ==
    /\ iv = [i \in Interview |-> NoRow]
    /\ card = [a \in App |-> NoCard]
    /\ req = [p \in Proc |-> Idle]
    /\ mails = {}
    /\ disturbed = {}
    /\ asked = {}
    /\ aborts = 0

Goto(p, r) == req' = [req EXCEPT ![p] = r]
Done(p) == Goto(p, Idle)
At(p, op, l) == req[p].op = op /\ req[p].pc = l
Begins(p, op) == req[p].pc = "idle" /\ op \in Ops

\* ix_interviews_application_active: the rows the partial unique index holds.
Active(i) == iv[i].status \in {"pending", "booked"}
ActiveIn(a) == {i \in Interview : AppOf[i] = a /\ Active(i)}

\* The advisory lock, held to the end of the transaction.
HoldsLock(r) == req[r].op \in {"book", "move"} /\ req[r].pc \in {"locked", "flushed"}
HoldsRow(r, i) == req[r].pc = "flushed" /\ req[r].iv = i

\* Mutant of RowFree: no row lock, an UPDATE overtakes an open transaction.
RowFreeAlways(p, i) == TRUE

RowFree(p, i) == \A r \in Proc \ {p} : ~HoldsRow(r, i)
\* A row that enters the unique index waits for open changes of its application.
IndexFree(p, a) == \A i \in Interview : AppOf[i] = a => RowFree(p, i)

Overlap(s, d, t, e) == s < t + e /\ t < s + d

\* Busy windows as the request sees them: the interview it has loaded keeps the
\* start it was loaded with, other rows are read afresh.
SeenStart(p, j) == IF j = req[p].iv THEN req[p].start ELSE iv[j].start
Conflict(p, j) ==
    SeenStart(p, j) # NoStart
      /\ Overlap(req[p].want, Dur[req[p].iv], SeenStart(p, j), Dur[j])

Offered(p) == \A j \in Interview : iv[j].status = "booked" => ~Conflict(p, j)

\* Mutant of LookBack: the query looks back by the interview's own duration.
LookBackOwn(p) == Dur[req[p].iv]

LookBack(p) == MAX_INTERVIEW_MINUTES

\* _require_unbooked: only rows that start in the window of the query are compared.
Unbooked(p) ==
    \A j \in Interview :
        /\ iv[j].status = "booked"
        /\ iv[j].start >= req[p].want - LookBack(p)
        /\ iv[j].start < req[p].want + Dur[req[p].iv]
        => ~Conflict(p, j)

\* Two requests between their load and their commit on one interview.
Working(r) == req[r].op \in {"book", "move", "cancel"} /\ req[r].pc \notin {"idle", "mail"}
Touch(i) ==
    disturbed' = IF \E r \in Proc : Working(r) /\ req[r].iv = i
                 THEN disturbed \cup {i} ELSE disturbed

Loaded(op, i) ==
    [Idle EXCEPT !.op = op, !.iv = i, !.app = AppOf[i], !.start = iv[i].start, !.seq = iv[i].seq]
-----------------------------------------------------------------------------
(***************************************************************************)
(* Requesting an interview.                                                *)
(***************************************************************************)
LoadCreate(p, a) ==
    /\ Begins(p, "create")
    /\ ActiveIn(a) = {}
    /\ \E i \in Interview : AppOf[i] = a /\ iv[i].status = "none"
    /\ Goto(p, [Idle EXCEPT !.op = "create", !.pc = "insert", !.app = a])
    /\ UNCHANGED <<iv, card, mails, disturbed, asked, aborts>>

\* The index refuses a second active interview of the application.
Insert(p, i) ==
    /\ At(p, "create", "insert")
    /\ AppOf[i] = req[p].app
    /\ iv[i].status = "none"
    /\ IndexFree(p, req[p].app)
    /\ iv' = IF ActiveIn(req[p].app) = {} THEN [iv EXCEPT ![i].status = "pending"] ELSE iv
    /\ Done(p)
    /\ UNCHANGED <<card, mails, disturbed, asked, aborts>>

(***************************************************************************)
(* Booking and rescheduling.                                               *)
(***************************************************************************)
LoadBook(p, i, s) ==
    /\ Begins(p, "book")
    /\ iv[i].status = "pending"
    /\ Goto(p, [Loaded("book", i) EXCEPT !.pc = "slots", !.want = s])
    /\ Touch(i)
    /\ UNCHANGED <<iv, card, mails, asked, aborts>>

LoadMove(p, i, s) ==
    /\ Begins(p, "move")
    /\ iv[i].status = "booked"
    /\ iv[i].seq < MaxMoves
    /\ Goto(p, [Loaded("move", i) EXCEPT !.pc = "slots", !.want = s])
    /\ Touch(i)
    /\ UNCHANGED <<iv, card, mails, asked, aborts>>

\* _require_available, before the lock.
CheckSlots(p) ==
    /\ req[p].pc = "slots"
    /\ IF Offered(p) THEN Goto(p, [req[p] EXCEPT !.pc = "wait"]) ELSE Done(p)
    /\ UNCHANGED <<iv, card, mails, disturbed, asked, aborts>>

\* Mutant of Refreshed: the sequence stays what it was when it was loaded.
RefreshedNot(p) == req[p].seq

\* The refresh under the lock: a reschedule builds on the sequence it finds, and
\* the status must still allow the change.
Refreshed(p) == iv[req[p].iv].seq

StillThere(p) ==
    \/ req[p].op = "book" /\ iv[req[p].iv].status # "booked"
    \/ req[p].op = "move" /\ iv[req[p].iv].status = "booked"

Lock(p) ==
    /\ req[p].pc = "wait"
    /\ \A r \in Proc : ~HoldsLock(r)
    /\ IF StillThere(p)
       THEN Goto(p, [req[p] EXCEPT !.pc = "locked",
                                   !.seq = IF req[p].op = "move" THEN Refreshed(p) ELSE @])
       ELSE Done(p)
    /\ UNCHANGED <<iv, card, mails, disturbed, asked, aborts>>

\* The conflict check and the flush of the UPDATE.  Under the lock bookings only
\* go away, so that a cancel between the two is as well before both.
Flush(p) ==
    /\ HoldsLock(p) /\ req[p].pc = "locked"
    /\ RowFree(p, req[p].iv)
    /\ req[p].op = "book" => IndexFree(p, req[p].app)
    /\ IF Unbooked(p) /\ (req[p].op = "book" => ActiveIn(req[p].app) \subseteq {req[p].iv})
       THEN Goto(p, [req[p] EXCEPT !.pc = "flushed", !.card = card[req[p].app]])
       ELSE Done(p)
    /\ UNCHANGED <<iv, card, mails, disturbed, asked, aborts>>

Open(c) == c.there /\ ~c.submitted /\ ~c.dismissed /\ ~c.declined
Requestable(c) == ~Open(c) /\ ~c.submitted

\* Mutant of Reopened: every column is written, not the changed ones.
ReopenedWhole(c, old, l) == NewCard(l)

\* scorecards.request on the loaded row old, when the row has become c: an insert
\* that finds a row gives up, an update sets to NULL what was not NULL.
Reopened(c, old, l) ==
    IF old.there
    THEN [c EXCEPT !.link = IF old.link = l THEN @ ELSE l,
                   !.dismissed = @ /\ ~old.dismissed,
                   !.declined = @ /\ ~old.declined]
    ELSE IF c.there THEN c ELSE NewCard(l)

\* ics_sequence = 0 is what was loaded, so that the column is not written.
CommitBook(p) ==
    /\ At(p, "book", "flushed")
    /\ LET i == req[p].iv  a == req[p].app
       IN  /\ iv' = [iv EXCEPT ![i] = [@ EXCEPT !.status = "booked", !.start = req[p].want]]
           /\ card' = IF Requestable(req[p].card)
                      THEN [card EXCEPT ![a] = Reopened(@, req[p].card, i)] ELSE card
    /\ Goto(p, [req[p] EXCEPT !.pc = "mail", !.seq = 0])
    /\ UNCHANGED <<mails, disturbed, asked, aborts>>

CommitMove(p) ==
    /\ At(p, "move", "flushed")
    /\ LET i == req[p].iv
           s == IF req[p].want = req[p].start THEN iv[i].start ELSE req[p].want
       IN  iv' = [iv EXCEPT ![i] = [@ EXCEPT !.start = s, !.seq = req[p].seq + 1]]
    /\ Goto(p, [req[p] EXCEPT !.pc = "mail", !.seq = @ + 1])
    /\ UNCHANGED <<card, mails, disturbed, asked, aborts>>

(***************************************************************************)
(* Cancelling, by the candidate or the team.                               *)
(***************************************************************************)
LoadCancel(p, i) ==
    /\ Begins(p, "cancel")
    /\ Active(i)
    /\ Goto(p, [Loaded("cancel", i) EXCEPT !.pc = "cancel"])
    /\ Touch(i)
    /\ UNCHANGED <<iv, card, mails, asked, aborts>>

\* The UPDATE is flushed by the query for the open scorecards.
FlushCancel(p) ==
    /\ At(p, "cancel", "cancel")
    /\ RowFree(p, req[p].iv)
    /\ Goto(p, [req[p] EXCEPT !.pc = "flushed", !.card = card[req[p].app]])
    /\ UNCHANGED <<iv, card, mails, disturbed, asked, aborts>>

\* Mutants of Notice.
NoticeBelow(seq) == seq - 1
NoticeSame(seq) == seq

\* cancel_notice_fields: one higher than the sequence that was loaded.
Notice(seq) == seq + 1

CommitCancel(p) ==
    /\ At(p, "cancel", "flushed")
    /\ LET i == req[p].iv  a == req[p].app  c == req[p].card
       IN  /\ iv' = [iv EXCEPT ![i].status = "cancelled"]
           /\ card' = IF Open(c) /\ c.link = i THEN [card EXCEPT ![a].dismissed = TRUE] ELSE card
    /\ IF req[p].start = NoStart
       THEN Done(p)
       ELSE Goto(p, [req[p] EXCEPT !.pc = "mail", !.seq = Notice(@), !.want = req[p].start])
    /\ UNCHANGED <<mails, disturbed, asked, aborts>>

\* The mails of a change that is committed.
MailOf(p) == [op |-> req[p].op, iv |-> req[p].iv, seq |-> req[p].seq, start |-> req[p].want]

QueueMail(p) ==
    /\ req[p].pc = "mail"
    /\ mails' = mails \cup {MailOf(p)}
    /\ Done(p)
    /\ UNCHANGED <<iv, card, disturbed, asked, aborts>>

(***************************************************************************)
(* The scorecard on its own: requested by hand, answered, dismissed.       *)
(***************************************************************************)
LoadAsk(p, a) ==
    /\ Begins(p, "ask")
    /\ Requestable(card[a])
    /\ Goto(p, [Idle EXCEPT !.op = "ask", !.pc = "ask", !.app = a, !.card = card[a]])
    /\ asked' = asked \cup {a}
    /\ UNCHANGED <<iv, card, mails, disturbed, aborts>>

Ask(p) ==
    /\ req[p].pc = "ask"
    /\ card' = [card EXCEPT ![req[p].app] = Reopened(@, req[p].card, None)]
    /\ Done(p)
    /\ UNCHANGED <<iv, mails, disturbed, asked, aborts>>

Answers == {"submit", "decline", "dismiss"}

LoadAnswer(p, a, o) ==
    /\ Begins(p, o)
    /\ Open(card[a])
    /\ Goto(p, [Idle EXCEPT !.op = o, !.pc = "answer", !.app = a, !.card = card[a]])
    /\ UNCHANGED <<iv, card, mails, disturbed, asked, aborts>>

Answer(p) ==
    /\ req[p].pc = "answer"
    /\ LET a == req[p].app
       IN  card' = CASE req[p].op = "submit" -> [card EXCEPT ![a].submitted = TRUE]
                     [] req[p].op = "decline" -> [card EXCEPT ![a].declined = TRUE]
                     [] req[p].op = "dismiss" -> [card EXCEPT ![a].dismissed = TRUE]
    /\ Done(p)
    /\ UNCHANGED <<iv, mails, disturbed, asked, aborts>>

\* A request ends early: a lock timeout, an error, or its process is killed.
Abort(p) ==
    /\ req[p].pc # "idle"
    /\ aborts < MaxAborts
    /\ aborts' = aborts + 1
    /\ Done(p)
    /\ disturbed' = IF req[p].pc = "mail" THEN disturbed \cup {req[p].iv} ELSE disturbed
    /\ UNCHANGED <<iv, card, mails, asked>>
-----------------------------------------------------------------------------
Create(p) == (\E a \in App : LoadCreate(p, a)) \/ (\E i \in Interview : Insert(p, i))

Schedule(p) ==
    \/ \E i \in Interview, s \in Slot : LoadBook(p, i, s) \/ LoadMove(p, i, s)
    \/ CheckSlots(p) \/ Lock(p) \/ Flush(p) \/ CommitBook(p) \/ CommitMove(p)

Cancel(p) == (\E i \in Interview : LoadCancel(p, i)) \/ FlushCancel(p) \/ CommitCancel(p)

Scorecard(p) ==
    \/ \E a \in App : LoadAsk(p, a)
    \/ \E a \in App, o \in Answers : LoadAnswer(p, a, o)
    \/ Ask(p) \/ Answer(p)

Next ==
    \E p \in Proc : Create(p) \/ Schedule(p) \/ Cancel(p) \/ QueueMail(p) \/ Scorecard(p) \/ Abort(p)

Spec == Init /\ [][Next]_vars
-----------------------------------------------------------------------------
Request ==
    [pc : {"idle", "insert", "slots", "wait", "locked", "flushed", "cancel", "mail", "ask", "answer"},
     op : {"create", "book", "move", "cancel", "ask"} \cup Answers,
     iv : Interview, app : App, start : Slot \cup {NoStart}, seq : Nat,
     want : Slot \cup {NoStart}, card : Card]

\* The tables and the local variables have their shape, and sequence numbers of
\* calendar mails are natural numbers.
TypeOK ==
    /\ iv \in [Interview -> Row]
    /\ card \in [App -> Card]
    /\ req \in [Proc -> Request]
    /\ mails \in SUBSET Mail
    /\ disturbed \in SUBSET Interview
    /\ asked \in SUBSET App
    /\ aborts \in 0 .. MaxAborts

\* "Concurrent candidates cannot double-book a slot" (self-hosting.md:69): booked
\* interviews of the interviewer never overlap, whatever their durations.
NoOverlap ==
    \A i, j \in Interview :
        i # j /\ iv[i].status = "booked" /\ iv[j].status = "booked"
          => ~Overlap(iv[i].start, Dur[i], iv[j].start, Dur[j])

\* Two reschedules never go out under one sequence number: calendars can tell
\* which of them is the later one, in whatever order the mails arrive.
MovesAreOrdered ==
    \A m, n \in mails : m.op = "move" /\ n.op = "move" /\ m.iv = n.iv /\ m.seq = n.seq => m = n

\* "If the interview is cancelled, the request it created is withdrawn"
\* (scorecards.md:24), unless someone also requested a scorecard by hand.
CardIsWithdrawn ==
    \A a \in App \ asked :
        Open(card[a]) /\ card[a].link # None => iv[card[a].link].status # "cancelled"

\* A submitted scorecard stays submitted, whatever is requested, dismissed or
\* cancelled at the same time.
SubmittedIsKept ==
    [][\A a \in App : card[a].submitted => card'[a].submitted]_vars

(***************************************************************************)
(* The inductive invariant of the proofs.                                  *)
(***************************************************************************)
\* The operation and the place of a request go together.
InStep ==
    \A p \in Proc :
        /\ req[p].pc \in {"slots", "wait", "locked"} => req[p].op \in {"book", "move"}
        /\ req[p].pc \in {"flushed", "mail"} => req[p].op \in {"book", "move", "cancel"}
        /\ req[p].pc = "answer" => req[p].op \in Answers

\* One booking or reschedule at a time is under the lock, one change of a row
\* flushed.
LocksAreExclusive ==
    /\ \A p, r \in Proc : HoldsLock(p) /\ HoldsLock(r) => p = r
    /\ \A p, r \in Proc :
         req[p].pc = "flushed" /\ req[r].pc = "flushed" /\ req[p].iv = req[r].iv => p = r

\* A request works on an interview of its application, towards a slot; what it
\* is about to commit overlaps nothing that is booked.
WantIsClear ==
    \A p \in Proc :
        /\ req[p].op \in {"book", "move", "cancel"} /\ req[p].pc # "idle" =>
             req[p].app = AppOf[req[p].iv]
        /\ req[p].op \in {"book", "move"} /\ req[p].pc # "idle" => req[p].want \in Slot
        /\ HoldsLock(p) /\ req[p].pc = "flushed" =>
             \A j \in Interview \ {req[p].iv} : iv[j].status = "booked" =>
                ~Overlap(req[p].want, Dur[req[p].iv], iv[j].start, Dur[j])

BookedHasTime == \A i \in Interview : iv[i].status = "booked" => iv[i].start \in Slot

\* A reschedule under the lock has the current sequence, and what was mailed or
\* will be is not ahead of it.
SeqIsCurrent ==
    /\ \A p \in Proc : HoldsLock(p) /\ req[p].op = "move" => req[p].seq = iv[req[p].iv].seq
    /\ \A p \in Proc : At(p, "move", "mail") => req[p].seq <= iv[req[p].iv].seq
    /\ \A m \in mails : m.op = "move" => m.seq <= iv[m.iv].seq

\* A committed reschedule has a sequence of its own, its mail queued or not.
SeqIsOwn ==
    \A p \in Proc : At(p, "move", "mail") =>
        /\ \A m \in mails : m.op = "move" /\ m.iv = req[p].iv => m.seq # req[p].seq
        /\ \A r \in Proc \ {p} : At(r, "move", "mail") /\ req[r].iv = req[p].iv =>
             req[r].seq # req[p].seq

\* A scorecard links an interview of its own application.
LinkIsOwn ==
    \A a \in App :
        /\ ~card[a].there => card[a] = NoCard
        /\ card[a].link # None => AppOf[card[a].link] = a

\* Scorecards are never removed, so what a request has loaded is still there.
CopyIsThere ==
    \A p \in Proc :
        /\ req[p].card.there => card[req[p].app].there
        /\ req[p].pc = "answer" => req[p].card.there
        /\ req[p].pc = "ask" => req[p].app \in asked

\* What a flushed request has read of the scorecard still counts.
CopyIsCurrent ==
    \A p \in Proc : req[p].app \notin asked =>
        LET c == card[req[p].app]
        IN  /\ At(p, "book", "flushed") =>
                 c.there = req[p].card.there /\ c.link = req[p].card.link
            /\ At(p, "cancel", "flushed") /\ Open(c) /\ c.link = req[p].iv =>
                 Open(req[p].card) /\ req[p].card.link = req[p].iv

IInv ==
    /\ TypeOK /\ NoOverlap /\ MovesAreOrdered /\ CardIsWithdrawn
    /\ InStep /\ LocksAreExclusive /\ WantIsClear /\ BookedHasTime
    /\ SeqIsCurrent /\ SeqIsOwn /\ LinkIsOwn /\ CopyIsThere /\ CopyIsCurrent

(***************************************************************************)
(* Properties of requests that do not overlap, and what races refute.      *)
(***************************************************************************)
MailsOf(i) == {m \in mails : m.iv = i}
Latest(i) == {m \in MailsOf(i) : \A n \in MailsOf(i) : n.seq <= m.seq}

\* One request at a time and no mail lost: the mail with the highest sequence is
\* what the interview is.
CalendarIsLatest ==
    \A i \in Interview \ disturbed :
        (\A p \in Proc : ~(req[p].pc = "mail" /\ req[p].iv = i)) =>
            /\ iv[i].status = "booked" =>
                 Cardinality(Latest(i)) = 1 /\ \A m \in Latest(i) :
                    m.op # "cancel" /\ m.seq = iv[i].seq /\ m.start = iv[i].start
            /\ iv[i].status = "cancelled" => \A m \in Latest(i) : m.op = "cancel"

\* The interviewer's calendar, which goes by the sequence of the mails, agrees
\* with the interview: reschedules are always told apart, and where requests and
\* mails did not overlap, the mail with the highest sequence says what is so.
CalendarAgrees == MovesAreOrdered /\ CalendarIsLatest

\* What was mailed of interview i, or is about to be.
SaidOf(i) == MailsOf(i) \cup {MailOf(p) : p \in {q \in Proc : req[q].pc = "mail" /\ req[q].iv = i}}

\* One request at a time changes an undisturbed interview.
AloneAt(i) ==
    \A p, r \in Proc : Working(p) /\ Working(r) /\ req[p].iv = i /\ req[r].iv = i => p = r

\* What that request has loaded is still so.
LoadIsCurrent(i) ==
    \A p \in Proc : Working(p) /\ req[p].iv = i =>
        /\ req[p].op = "book" => iv[i].status = "pending"
        /\ req[p].op = "move" => iv[i].status = "booked"
        /\ req[p].op = "cancel" => Active(i)
        /\ req[p].start = iv[i].start /\ req[p].seq = iv[i].seq

\* Nothing was said of an interview without a time; of a booked one the last word
\* is its start, of a cancelled one the cancellation if anything was said.
SaidIsSo(i) ==
    /\ iv[i].status \in {"none", "pending"} =>
         iv[i].seq = 0 /\ iv[i].start = NoStart /\ SaidOf(i) = {}
    /\ iv[i].status = "booked" =>
         \E m \in SaidOf(i) : /\ m.op # "cancel" /\ m.seq = iv[i].seq /\ m.start = iv[i].start
                             /\ \A n \in SaidOf(i) : n = m \/ n.seq < m.seq
    /\ iv[i].status = "cancelled" =>
         \/ SaidOf(i) = {}
         \/ \E m \in SaidOf(i) : /\ m.op = "cancel"
                                /\ \A n \in SaidOf(i) : n.op = "cancel" \/ n.seq < m.seq

CalendarIInv ==
    IInv /\ \A i \in Interview \ disturbed : AloneAt(i) /\ LoadIsCurrent(i) /\ SaidIsSo(i)
=============================================================================
