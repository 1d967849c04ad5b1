----------------------------- MODULE Invitations -----------------------------
(***************************************************************************)
(* The mails, calendars and reminders of one interview:                    *)
(*   api/applications.py   create_interview, cancel_interview              *)
(*   api/public.py         interview_book, interview_reschedule,           *)
(*                         interview_cancel, _queue_booking_mails          *)
(*   services/interviews.py  cancel_notice_fields, _queue_reminder         *)
(*   services/erasure.py   the notices of an erasure                       *)
(*   services/ics.py, worker.send_interview_reminder                       *)
(*                                                                         *)
(* A request commits its change and then queues its mails, each in a       *)
(* commit of its own.  Mails arrive in any order; calendars (external)     *)
(* keep the event of the highest sequence.  What two requests do to each   *)
(* other under the interviewer's lock is the subject of module Interviews: *)
(* here a request loads the interview and commits in one step each.        *)
(***************************************************************************)
EXTENDS Mails, Integers, Sequences, FiniteSets

CONSTANTS
    Request,
    Slot,          \* starts the interviewer offers
    DAY,           \* the reminder goes out this long before the start
    MaxNow, MaxSeq, MaxFaults    \* bounds

VARIABLES
    now,
    iv,        \* the interview, [status, start, seq]
    task,      \* the requests under way
    outbox,    \* the mails that are queued, in no order
    calendar,  \* of either side: the event as last received
    jobs,      \* starts for which a reminder job is queued
    job,       \* the reminder job that runs
    reminded,  \* how often either side was reminded of a start
    arranged,  \* history: when the booked time was committed to
    ended,     \* history: what took the interview off
    lost,      \* history: sides that miss a mail
    crossed,   \* history: a change was decided on an interview that had changed
    faults

world == <<iv, task, outbox, calendar>>
reminding == <<jobs, job, reminded>>
past == <<arranged, ended, lost, crossed, faults>>
vars == <<now, world, reminding, past>>

Side == {"candidate", "interviewer"}
Nothing == [status |-> "none", start |-> 0, seq |-> 0]
Resting == [pc |-> "idle", op |-> "none", seen |-> Nothing, want |-> 0, over |-> FALSE,
            queued |-> FALSE, todo |-> <<>>]
NoEvent == [seq |-> -1, start |-> 0, there |-> FALSE]
NoJob == [pc |-> "idle", start |-> 0, over |-> FALSE]

Init ==
    /\ now = 0
    /\ iv = Nothing
    /\ task = [p \in Request |-> Resting]
    /\ outbox = {}
    /\ calendar = [s \in Side |-> NoEvent]
    /\ jobs = {} /\ job = NoJob
    /\ reminded = [s \in Side |-> [t \in Slot |-> 0]]
    /\ arranged = 0 /\ ended = "none" /\ lost = {} /\ crossed = FALSE /\ faults = 0

Active == iv.status \in {"pending", "booked"}
-----------------------------------------------------------------------------
(***************************************************************************)
(* The mails of a change.                                                  *)
(***************************************************************************)
InterviewKwargs(to, key, url, start, sequence) ==
    [to |-> to, company |-> "company", key |-> key, url |-> url,
     candidate |-> "candidate", candidate_email |-> "candidate",
     interviewer_email |-> "interviewer", start |-> start, sequence |-> sequence]

\* A row of email_outbox; erasing the application takes those with its id along.
Row(kind, linked, kwargs) == [kind |-> kind, application |-> linked, kwargs |-> kwargs]

Invite == Row("interview_invite", TRUE,
              InterviewKwargs("candidate", "booking_url", "token", 0, 0))

BookingMails(start, sequence) ==
    << Row("interview_confirmed", TRUE,
           InterviewKwargs("candidate", "booking_url", "token", start, sequence)),
       Row("interview_scheduled", TRUE,
           InterviewKwargs("interviewer", "applicant_url", "staff", start, sequence)) >>

\* Mutant of Notice: the notice has the sequence of the event it cancels.
NoticeSame(seen) == [start |-> seen.start, sequence |-> seen.seq]

\* cancel_notice_fields: the event as it was sent, one sequence higher.
Notice(seen) == [start |-> seen.start, sequence |-> seen.seq + 1]

InterviewerNotice(seen, linked) ==
    LET k == InterviewKwargs("interviewer", "none", "none", Notice(seen).start, Notice(seen).sequence)
    IN Row("interview_cancelled_interviewer", linked,
           IF linked THEN k ELSE [k EXCEPT !.candidate = "", !.candidate_email = ""])

CandidateNotice(seen) ==
    Row("interview_cancelled", TRUE,
        InterviewKwargs("candidate", "none", "none", Notice(seen).start,
                        IF seen.start = 0 THEN 0 ELSE Notice(seen).sequence))

\* No time was ever booked: no calendar knows the interview.
TimeBooked(seen) == seen.start # 0

CancelMails(op, seen) ==
    (IF op = "cancel" THEN <<CandidateNotice(seen)>> ELSE <<>>)
      \o (IF TimeBooked(seen) THEN <<InterviewerNotice(seen, TRUE)>> ELSE <<>>)

\* Only booked interviews ahead are announced to the interviewer.
EraseMails(seen) ==
    IF seen.status = "booked" /\ seen.start > now THEN <<InterviewerNotice(seen, FALSE)>> ELSE <<>>
-----------------------------------------------------------------------------
(***************************************************************************)
(* Requests.                                                               *)
(***************************************************************************)
Goto(p, t) == task' = [task EXCEPT ![p] = t]

Begin(p, op, want) ==
    /\ task[p] = Resting
    /\ Goto(p, [Resting EXCEPT !.pc = IF op \in {"book", "move"} THEN "remind" ELSE "commit",
                  !.op = op, !.seen = iv, !.want = want])
    /\ UNCHANGED <<now, iv, outbox, calendar, reminding, past>>

BeginCreate(p) == iv.status = "none" /\ Begin(p, "create", 0)
BeginBook(p, s) == iv.status = "pending" /\ s > now /\ Begin(p, "book", s)
BeginMove(p, s) == iv.status = "booked" /\ iv.seq < MaxSeq /\ s > now /\ Begin(p, "move", s)
BeginCancel(p, op) == Active /\ Begin(p, op, 0)
BeginErase(p) == iv.status \notin {"none", "erased"} /\ Begin(p, "erase", 0)

\* Under the lock the status is read again, and by a reschedule the sequence.
Refused(t) ==
    \/ t.op = "create" /\ iv.status # "none"
    \/ t.op = "book" /\ iv.status \in {"booked", "erased"}
    \/ t.op = "move" /\ iv.status # "booked"
    \/ t.op \in {"cancel", "withdraw", "erase"} /\ iv.status = "erased"

\* Mutant of Enqueued: one reminder job for an interview, whatever the time.
EnqueuedOnce(start) == IF jobs = {} THEN {start} ELSE jobs

\* The id of the job holds the start: a job that is queued is not queued again.
Enqueued(start) == jobs \cup {start}

\* The reminder is queued before the change commits, unless the start is less
\* than a day away; when Redis is down it is not, and the booking goes on.
QueueReminder(p) ==
    /\ task[p].pc = "remind"
    /\ \/ /\ Refused(task[p])
          /\ Goto(p, Resting)
          /\ UNCHANGED <<jobs, faults, lost>>
       \/ /\ ~Refused(task[p])
          /\ Goto(p, [task[p] EXCEPT !.pc = "commit", !.queued = TRUE])
          /\ jobs' = IF task[p].want - DAY > now THEN Enqueued(task[p].want) ELSE jobs
          /\ UNCHANGED <<faults, lost>>
       \/ /\ ~Refused(task[p]) /\ faults < MaxFaults
          /\ Goto(p, [task[p] EXCEPT !.pc = "commit"])
          /\ faults' = faults + 1
          /\ lost' = lost \cup {"reminder"}
          /\ UNCHANGED jobs
    /\ UNCHANGED <<now, iv, outbox, calendar, job, reminded, arranged, ended, crossed>>

Written(t) ==
    CASE t.op = "create" -> [iv EXCEPT !.status = "pending"]
      [] t.op = "book" -> [iv EXCEPT !.status = "booked", !.start = t.want]
      [] t.op = "move" -> [iv EXCEPT !.start = IF t.want = t.seen.start THEN @ ELSE t.want,
                             !.seq = @ + 1]
      [] t.op \in {"cancel", "withdraw"} -> [iv EXCEPT !.status = "cancelled"]
      [] t.op = "erase" -> [iv EXCEPT !.status = "erased"]

MailsOf(t) ==
    CASE t.op = "create" -> <<Invite>>
      [] t.op = "book" -> BookingMails(t.want, 0)
      [] t.op = "move" -> BookingMails(t.want, iv.seq + 1)
      [] t.op \in {"cancel", "withdraw"} -> CancelMails(t.op, t.seen)
      [] t.op = "erase" -> EraseMails(t.seen)

\* A reschedule builds on what it finds; any other change that finds another
\* interview than it loaded has crossed.
Crosses(t) == t.over /\ (t.op # "move" \/ t.want = t.seen.start)

\* An interviewer's notice that goes with the application.
NoticeLost(mails) ==
    lost' = IF \E m \in mails : m.application /\ m.kind = "interview_cancelled_interviewer"
            THEN lost \cup {"interviewer"} ELSE lost

\* The change.  An erasure deletes the mails of the application with it.
Commit(p) ==
    /\ task[p].pc = "commit"
    /\ LET t == task[p]
       IN IF Refused(t)
          THEN /\ Goto(p, Resting)
               /\ UNCHANGED <<iv, outbox, job, arranged, ended, crossed, lost>>
          ELSE /\ iv' = Written(t)
               /\ task' = [q \in Request |->
                    IF q = p THEN IF MailsOf(t) = <<>> THEN Resting
                                  ELSE [t EXCEPT !.pc = "mail", !.todo = MailsOf(t)]
                    ELSE IF task[q].pc \in {"remind", "commit"} THEN [task[q] EXCEPT !.over = TRUE]
                    ELSE task[q]]
               /\ outbox' = IF t.op = "erase" THEN {m \in outbox : ~m.application} ELSE outbox
               /\ NoticeLost(outbox \ outbox')
               /\ job' = [job EXCEPT !.over = job # NoJob]
               /\ arranged' = IF t.op \in {"book", "move"} THEN now ELSE arranged
               /\ ended' = IF t.op \in {"cancel", "withdraw", "erase"} THEN t.op ELSE ended
               /\ crossed' = (crossed \/ Crosses(t))
    /\ UNCHANGED <<now, calendar, jobs, reminded, faults>>

\* A mail of an application that is gone is refused, and the request fails.
QueueMail(p) ==
    /\ task[p].pc = "mail"
    /\ LET mail == Head(task[p].todo)
           rest == Tail(task[p].todo)
       IN IF iv.status = "erased" /\ mail.application
          THEN /\ Goto(p, Resting)
               /\ NoticeLost({task[p].todo[n] : n \in DOMAIN task[p].todo})
               /\ UNCHANGED outbox
          ELSE /\ outbox' = outbox \cup {mail}
               /\ Goto(p, IF rest = <<>> THEN Resting ELSE [task[p] EXCEPT !.todo = rest])
               /\ UNCHANGED lost
    /\ UNCHANGED <<now, iv, calendar, reminding, arranged, ended, crossed, faults>>

\* An error or a kill: the mails still to queue are lost.
Abort(p) ==
    /\ task[p] # Resting
    /\ faults < MaxFaults
    /\ faults' = faults + 1
    /\ Goto(p, Resting)
    /\ lost' = lost \cup {task[p].todo[n].kwargs.to : n \in DOMAIN task[p].todo}
    /\ UNCHANGED <<now, iv, outbox, calendar, reminding, arranged, ended, crossed>>
-----------------------------------------------------------------------------
(***************************************************************************)
(* Delivery and calendars.                                                 *)
(***************************************************************************)
MailOf(m) ==
    CASE m.kind = "interview_invite" -> SendInterviewInvite(m.kwargs)
      [] m.kind = "interview_confirmed" -> SendInterviewConfirmed(m.kwargs)
      [] m.kind = "interview_scheduled" -> SendInterviewScheduled(m.kwargs)
      [] m.kind = "interview_cancelled" -> SendInterviewCancelled(m.kwargs)
      [] m.kind = "interview_cancelled_interviewer" -> SendInterviewCancelledInterviewer(m.kwargs)

\* Calendars keep one event for the interview's UID, the one of the highest
\* sequence.
Received(event, part) ==
    IF part.method = "none" \/ part.sequence < event.seq THEN event
    ELSE [seq |-> part.sequence, start |-> part.start, there |-> part.method # "CANCEL"]

\* An attempt that fails is tried again; a mail that is given up is missed.
Deliver(m) ==
    /\ outbox' = outbox \ {m}
    /\ \/ /\ calendar' = [calendar EXCEPT ![m.kwargs.to] = Received(@, MailOf(m).calendar)]
          /\ UNCHANGED <<lost, faults>>
       \/ /\ faults < MaxFaults
          /\ faults' = faults + 1
          /\ lost' = lost \cup {m.kwargs.to}
          /\ UNCHANGED calendar
    /\ UNCHANGED <<now, iv, task, reminding, arranged, ended, crossed>>

\* invite.ics: the candidate adds the interview as it is booked now.
CandidateEvent == [method |-> "PUBLISH", sequence |-> iv.seq, start |-> iv.start]

Download ==
    /\ iv.status = "booked"
    /\ calendar' = [calendar EXCEPT !["candidate"] = Received(@, CandidateEvent)]
    /\ UNCHANGED <<now, iv, task, outbox, reminding, past>>
-----------------------------------------------------------------------------
(***************************************************************************)
(* Reminders.                                                              *)
(***************************************************************************)
\* Mutant of Due: that the interview was moved is not noticed.
DueWhenever(start) == iv.status = "booked" /\ iv.start > now

Due(start) == iv.status = "booked" /\ iv.start = start /\ start > now

\* A job of a time that is not booked any more does nothing.
StartReminder(s) ==
    /\ job = NoJob
    /\ s \in jobs /\ now >= s - DAY
    /\ jobs' = jobs \ {s}
    /\ job' = IF Due(s) THEN [NoJob EXCEPT !.pc = "candidate", !.start = s] ELSE NoJob
    /\ lost' = IF ~Due(s) /\ \E p \in Request : task[p].queued /\ task[p].pc = "commit" /\ task[p].want = s
               THEN lost \cup {"reminder"} ELSE lost
    /\ UNCHANGED <<now, world, reminded, arranged, ended, crossed, faults>>

\* A reminder names the time, and leaves calendars alone.
ReminderMail(side, start) ==
    IF side = "candidate"
    THEN SendInterviewReminder(InterviewKwargs(side, "none", "none", start, 0))
    ELSE SendInterviewReminderInterviewer(InterviewKwargs(side, "applicant_url", "staff", start, 0))

\* The candidate, then the interviewer, sent without the outbox.
SendReminder ==
    /\ job # NoJob
    /\ reminded' = [reminded EXCEPT ![job.pc][job.start] = @ + 1]
    /\ calendar' = [calendar EXCEPT ![job.pc] = Received(@, ReminderMail(job.pc, job.start).calendar)]
    /\ job' = IF job.pc = "candidate" THEN [job EXCEPT !.pc = "interviewer"] ELSE NoJob
    /\ UNCHANGED <<now, iv, task, outbox, jobs, past>>

\* A transport error ends the job; a worker that is killed has it run again.
ReminderFails(again) ==
    /\ job # NoJob
    /\ faults < MaxFaults
    /\ faults' = faults + 1
    /\ lost' = lost \cup {IF again THEN "rerun" ELSE "reminder"}
    /\ jobs' = IF again THEN jobs \cup {job.start} ELSE jobs
    /\ job' = NoJob
    /\ UNCHANGED <<now, world, reminded, arranged, ended, crossed>>

Tick ==
    /\ now < MaxNow
    /\ now' = now + 1
    /\ UNCHANGED <<world, reminding, past>>
-----------------------------------------------------------------------------
Next ==
    \/ \E p \in Request :
         \/ BeginCreate(p) \/ BeginErase(p) \/ QueueReminder(p) \/ Commit(p) \/ QueueMail(p) \/ Abort(p)
         \/ \E s \in Slot : BeginBook(p, s) \/ BeginMove(p, s)
         \/ \E op \in {"cancel", "withdraw"} : BeginCancel(p, op)
    \/ \E m \in outbox : Deliver(m)
    \/ Download
    \/ \E s \in jobs : StartReminder(s)
    \/ SendReminder
    \/ \E again \in BOOLEAN : ReminderFails(again)
    \/ Tick

Spec == Init /\ [][Next]_vars
-----------------------------------------------------------------------------
(***************************************************************************)
(* Properties.                                                             *)
(***************************************************************************)
\* Nothing is on its way to a side that it has not got.
Served(side) ==
    /\ side \notin lost
    /\ \A p \in Request : task[p].pc # "mail"
    /\ \A m \in outbox : m.kwargs.to # side

\* Once its mails have arrived, in whatever order, a calendar shows the time
\* that is booked, and an interview that is off has left the interviewer's, and
\* the candidate's too when the company cancelled it.
CalendarsFollow ==
    \A side \in Side : Served(side) /\ ~crossed =>
        /\ iv.status = "booked" =>
             calendar[side].there /\ calendar[side].start = iv.start
        /\ iv.status = "cancelled" /\ (side = "interviewer" \/ ended = "cancel") =>
             ~calendar[side].there
        /\ iv.status = "erased" /\ side = "interviewer" =>
             ~calendar[side].there \/ iv.start <= now

\* Nobody is reminded twice of a time but when a worker was killed, nor of one
\* that had changed before the job began; and a booked time that is a day away
\* will be, "no reminder needed" only within it.
RemindersHold ==
    /\ \A side \in Side, s \in Slot : reminded[side][s] <= 1 \/ "rerun" \in lost
    /\ job # NoJob /\ ~job.over => iv.status = "booked" /\ iv.start = job.start
    /\ iv.status = "booked" /\ iv.start - DAY > arranged /\ "reminder" \notin lost /\ ~crossed =>
         \/ iv.start \in jobs \cup {job.start}
         \/ reminded["interviewer"][iv.start] > 0
         \/ now >= iv.start

\* Both calendars follow the interview, and both sides are reminded of the time
\* that is booked, once.
InvitationsHold == CalendarsFollow /\ RemindersHold
-----------------------------------------------------------------------------
(***************************************************************************)
(* What the proofs need besides.                                           *)
(***************************************************************************)
\* Starts are times after the beginning.
InvitationsConstants == Slot \subseteq Nat \ {0} /\ DAY \in Nat

Meeting ==
    {i \in [status : {"none", "pending", "booked", "cancelled", "erased"},
            start : Slot \cup {0}, seq : Nat] : i.status = "booked" => i.start # 0}

EventOf(m) == MailOf(m).calendar

\* A mail as a change queues it.  What takes an event out of the interviewer's
\* calendar is the interviewer's notice.
IsMail(m) ==
    /\ m.kwargs.to \in Side
    /\ EventOf(m).method \in {"none", "REQUEST", "CANCEL"}
    /\ EventOf(m).method # "none" =>
         EventOf(m).sequence \in Nat /\ EventOf(m).start \in Slot
    /\ EventOf(m).method = "CANCEL" /\ m.kwargs.to = "interviewer" =>
         m.kind = "interview_cancelled_interviewer"

Queued(todo) == {todo[n] : n \in DOMAIN todo}

\* A change has one mail, or two that go with the application.
IsTodo(todo) ==
    \/ todo = <<todo[1]>> /\ IsMail(todo[1])
    \/ /\ todo = <<todo[1], todo[2]>> /\ IsMail(todo[1]) /\ IsMail(todo[2])
       /\ todo[1].application /\ todo[2].application

\* What a request was begun with.
Asked(t) ==
    \/ t.op = "create" /\ t.pc = "commit"
    \/ t.op = "book" /\ t.seen.status = "pending" /\ t.want \in Slot
    \/ t.op = "move" /\ t.seen.status = "booked" /\ t.want \in Slot
    \/ t.op \in {"cancel", "withdraw"} /\ t.pc = "commit" /\ t.seen.status \in {"pending", "booked"}
    \/ t.op = "erase" /\ t.pc = "commit" /\ t.seen.status # "none"

TaskRecord(todo) ==
    [pc : {"idle", "remind", "commit", "mail"},
     op : {"none", "create", "book", "move", "cancel", "withdraw", "erase"},
     seen : Meeting, want : Slot \cup {0}, over : BOOLEAN, queued : BOOLEAN, todo : {todo}]

IsTask(t) ==
    /\ t \in TaskRecord(t.todo)
    /\ \/ t = Resting
       \/ t.pc \in {"remind", "commit"} /\ t.todo = <<>> /\ Asked(t)
       \/ t.pc = "mail" /\ IsTodo(t.todo)

CalendarEntry == [seq : Nat \cup {-1}, start : Slot \cup {0}, there : BOOLEAN]

InvitationsTypeOK ==
    /\ now \in Nat /\ arranged \in Nat
    /\ iv \in Meeting
    /\ DOMAIN task = Request /\ \A p \in Request : IsTask(task[p])
    /\ task = [p \in Request |-> task[p]]
    /\ \A m \in outbox : IsMail(m)
    /\ calendar \in [Side -> CalendarEntry]
    /\ jobs \subseteq Slot
    /\ job = NoJob \/ job \in [pc : Side, start : Slot, over : BOOLEAN]
    /\ reminded \in [Side -> [Slot -> Nat]]

\* What a request loaded is what is there, unless a change was committed since.
LoadedIsThere ==
    \A p \in Request : task[p].pc \in {"remind", "commit"} /\ ~task[p].over => task[p].seen = iv

\* The mails on their way: queued, or to be queued.
Coming == outbox \cup UNION {Queued(task[p].todo) : p \in Request}

\* No event is ahead of the interview, one that is level with it is as it is
\* booked, and only an interview that is off is called off, by the highest
\* sequence.
MailFits(e) ==
    /\ e.method = "REQUEST" =>
         iv.start # 0 /\ e.sequence <= iv.seq /\ (e.sequence = iv.seq => e.start = iv.start)
    /\ e.method = "CANCEL" =>
         iv.start # 0 /\ e.sequence = iv.seq + 1 /\ iv.status \in {"cancelled", "erased"}

EntryFits(c) ==
    \/ c = NoEvent
    \/ c.there /\ iv.start # 0 /\ c.seq <= iv.seq /\ (c.seq = iv.seq => c.start = iv.start)
    \/ ~c.there /\ iv.start # 0 /\ c.seq = iv.seq + 1 /\ iv.status \in {"cancelled", "erased"}

\* A side is to be told that the interview is off.
CalledOff(side) ==
    \/ iv.status = "cancelled" /\ iv.start # 0 /\ (side = "interviewer" \/ ended = "cancel")
    \/ iv.status = "erased" /\ iv.start > now /\ side = "interviewer"

\* The last change has reached a side, is on its way, or is lost.
LastIsComing(side) ==
    side \notin lost =>
      /\ iv.status = "booked" =>
           \/ calendar[side].seq = iv.seq
           \/ \E m \in Coming : /\ m.kwargs.to = side
                                /\ EventOf(m).method = "REQUEST" /\ EventOf(m).sequence = iv.seq
      /\ CalledOff(side) =>
           \/ calendar[side].seq = iv.seq + 1
           \/ \E m \in Coming : m.kwargs.to = side /\ EventOf(m).method = "CANCEL"

\* Only what was booked has a time.
TimesFit == iv.status \in {"none", "pending"} => iv.start = 0 /\ iv.seq = 0

CalendarsFit ==
    ~crossed =>
      /\ TimesFit
      /\ \A m \in Coming : MailFits(EventOf(m))
      /\ \A side \in Side : EntryFits(calendar[side]) /\ LastIsComing(side)

\* A reminder that was sent, or is being sent, is not queued again.
RemindedOnce(side, s) ==
    /\ reminded[side][s] <= 1
    /\ s \in jobs => reminded[side][s] = 0
    /\ job.start = s =>
         s \notin jobs /\ (side = "interviewer" \/ job.pc = "candidate" => reminded[side][s] = 0)
    /\ reminded[side][s] > 0 => now >= s - DAY

\* The reminder of a change that is not committed yet waits until it is due.
ReminderWaits ==
    /\ \A p \in Request :
         LET t == task[p]
         IN  t.pc = "commit" /\ t.op \in {"book", "move"} /\ "reminder" \notin lost =>
               (t.want - DAY > now => t.want \in jobs)
    /\ job # NoJob => now >= job.start - DAY

RemindersFit ==
    /\ RemindersHold /\ ReminderWaits
    /\ "rerun" \notin lost => \A side \in Side, s \in Slot : RemindedOnce(side, s)

\* The inductive invariant.
InvitationsIInv == InvitationsTypeOK /\ LoadedIsThere /\ CalendarsFit /\ RemindersFit
=============================================================================
