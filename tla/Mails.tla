-------------------------------- MODULE Mails --------------------------------
(***************************************************************************)
(* What the mails are made of, after services/email.py (the senders),      *)
(* services/email_render.py (templates and their placeholders) and         *)
(* services/outbox.py (how a payload is stored, sent and shown).           *)
(*                                                                         *)
(* A text is its words and the placeholders they name.  A payload is the   *)
(* sender's keyword arguments, of which are kept the recipient, the        *)
(* company as it was read, the link with the name of its argument, and     *)
(* what a calendar or a placeholder is made from.  A mail has words, a     *)
(* link and a calendar part; HTML, colours, wording and footers are left   *)
(* out.                                                                    *)
(***************************************************************************)
EXTENDS Naturals

StageKind == {"quiz_invite", "quiz_reminder", "stage_advance", "rejection"}
Assessment == {"quiz_invite", "quiz_reminder"}

\* Mails without an application: no timeline shows them.
Account == {"team_invite", "google_linked", "password_reset", "email_verification"}

Common == {"candidate_name", "candidate_first_name", "job_title", "company_name"}
PLACEHOLDERS ==
    [quiz_invite |-> Common \cup {"question_count", "time_per_question", "assessment_duration",
                                  "valid_until"},
     quiz_reminder |-> Common \cup {"assessment_duration", "valid_until", "days_left",
                                    "expires_phrase", "days_left_phrase"},
     stage_advance |-> Common,
     rejection |-> Common \cup {"assessment_thanks"}]

Text(words, names) == [words |-> words, names |-> names]
NoText == Text("none", {})

BUILTIN ==
    [quiz_invite |-> Text("ganek", {"company_name", "candidate_name", "job_title"}),
     quiz_reminder |-> Text("ganek", {"expires_phrase", "days_left_phrase", "job_title",
                                      "assessment_duration"}),
     stage_advance |-> Text("ganek", {"company_name", "candidate_name", "job_title"}),
     rejection |-> Text("ganek", {"company_name", "candidate_name", "job_title",
                                  "assessment_thanks"})]

\* validate: a text of a kind names only what the kind provides.
Validate(kind, text) == text.names \subseteq PLACEHOLDERS[kind]
-----------------------------------------------------------------------------
(***************************************************************************)
(* Payloads.                                                               *)
(***************************************************************************)
CAPABILITY_URL_KEYS == {"quiz_url", "status_url", "booking_url"}
PREVIEW_LINK_PLACEHOLDER == "personal-link"

Kwargs(to, company, key, url) ==
    [to |-> to, company |-> company, key |-> key, url |-> url, expires_at |-> "none",
     text |-> NoText, override |-> NoText]

RejectionKwargs(to, company) == Kwargs(to, company, "careers_url", "public")
StageAdvanceKwargs(to, company) == Kwargs(to, company, "status_url", "token")
QuizInviteKwargs(to, company) ==
    [Kwargs(to, company, "quiz_url", "token") EXCEPT !.expires_at = "datetime"]
ReminderKwargs(to, company) ==
    [Kwargs(to, company, "quiz_url", "token") EXCEPT !.expires_at = "datetime"]
MessageKwargs(to, company) == Kwargs(to, company, "none", "none")

KwargsOf(kind, to, company) ==
    CASE kind = "rejection" -> RejectionKwargs(to, company)
      [] kind = "stage_advance" -> StageAdvanceKwargs(to, company)
      [] kind = "quiz_invite" -> QuizInviteKwargs(to, company)
      [] kind = "quiz_reminder" -> ReminderKwargs(to, company)
      [] kind = "message" -> MessageKwargs(to, company)
      [] kind = "application_received" -> Kwargs(to, company, "none", "none")
      [] kind = "scorecard_request" -> Kwargs(to, company, "url", "staff")
      [] kind = "team_invite" ->
            [Kwargs(to, company, "invite_url", "secret") EXCEPT !.expires_at = "datetime"]
      [] kind = "password_reset" -> Kwargs(to, company, "reset_url", "secret")
      [] kind = "email_verification" -> Kwargs(to, company, "verify_url", "secret")
      [] kind = "google_linked" -> Kwargs(to, company, "none", "none")

\* Mutant of Serialize: a datetime is stored as its text.
SerializePlain(kwargs) ==
    [kwargs EXCEPT !.expires_at = IF @ = "datetime" THEN "iso" ELSE @]

\* JSON has no datetimes: they are stored with a mark, and found by it.
Serialize(kwargs) == [kwargs EXCEPT !.expires_at = IF @ = "datetime" THEN "$dt" ELSE @]
Deserialize(payload) == [payload EXCEPT !.expires_at = IF @ = "$dt" THEN "datetime" ELSE @]
-----------------------------------------------------------------------------
(***************************************************************************)
(* Rendering.                                                              *)
(***************************************************************************)
\* What the placeholders of a kind resolve to.
Values(kind, kwargs) ==
    Common
      \cup (IF kind \in Assessment THEN {"assessment_duration"} ELSE {})
      \cup (IF kind \in Assessment /\ kwargs.expires_at = "datetime" THEN {"valid_until"} ELSE {})
      \cup (IF kind = "quiz_invite" THEN {"question_count", "time_per_question"} ELSE {})
      \cup (IF kind = "quiz_reminder" THEN {"days_left", "expires_phrase", "days_left_phrase"}
                                      ELSE {})
      \cup (IF kind = "rejection" THEN {"assessment_thanks"} ELSE {})

\* The block below the text cannot be removed: the link, and until when it works.
ActionBlock(kind, kwargs) ==
    [url |-> kwargs.url, names |-> IF kind \in Assessment THEN {"valid_until"} ELSE {}]

NoCalendar == [method |-> "none", sequence |-> 0, start |-> 0, attendees |-> {}]
NoMail == [words |-> "none", company |-> "none", url |-> "none", calendar |-> NoCalendar]

SendEmail(kwargs, words, url, calendar) ==
    [words |-> words, company |-> kwargs.company, url |-> url, calendar |-> calendar]

\* A literal text is not searched for placeholders.
Renders(kind, text, kwargs, literal) ==
    /\ literal \/ text.names \subseteq Values(kind, kwargs)
    /\ ActionBlock(kind, kwargs).names \subseteq Values(kind, kwargs)

Render(kind, text, kwargs) ==
    SendEmail(kwargs, text.words, ActionBlock(kind, kwargs).url, NoCalendar)

\* A recruiter's own message: its words, no action block.
RenderMessage(kwargs) == SendEmail(kwargs, kwargs.override.words, "none", NoCalendar)

\* A one-off edit goes before the template noted when the mail was queued.
TextFor(kind, kwargs) ==
    IF kwargs.override # NoText THEN kwargs.override
    ELSE IF kwargs.text # NoText THEN kwargs.text
    ELSE BUILTIN[kind]

SendStage(kind, kwargs) == Render(kind, TextFor(kind, kwargs), kwargs)
StageRenders(kind, kwargs) ==
    Renders(kind, TextFor(kind, kwargs), kwargs, kwargs.override # NoText)

SendQuizInvite(kwargs) == SendStage("quiz_invite", kwargs)
SendQuizReminder(kwargs) == SendStage("quiz_reminder", kwargs)
SendStageAdvance(kwargs) == SendStage("stage_advance", kwargs)
SendRejection(kwargs) == SendStage("rejection", kwargs)
SendMessage(kwargs) == RenderMessage(kwargs)
SendApplicationReceived(kwargs) == SendEmail(kwargs, "received", "none", NoCalendar)
SendTeamInvite(kwargs) == SendEmail(kwargs, "team_invite", kwargs.url, NoCalendar)
SendEmailVerification(kwargs) == SendEmail(kwargs, "verification", kwargs.url, NoCalendar)
SendPasswordReset(kwargs) == SendEmail(kwargs, "reset", kwargs.url, NoCalendar)
SendGoogleLinked(kwargs) == SendEmail(kwargs, "google_linked", "none", NoCalendar)
ScorecardMail(kwargs, words) == SendEmail(kwargs, words, kwargs.url, NoCalendar)
SendScorecardRequest(kwargs) == ScorecardMail(kwargs, "scorecard")
SendScorecardReminder(kwargs) == ScorecardMail(kwargs, "scorecard_again")

Sender(kind, kwargs) ==
    CASE kind = "application_received" -> SendApplicationReceived(kwargs)
      [] kind = "quiz_invite" -> SendQuizInvite(kwargs)
      [] kind = "quiz_reminder" -> SendQuizReminder(kwargs)
      [] kind = "stage_advance" -> SendStageAdvance(kwargs)
      [] kind = "rejection" -> SendRejection(kwargs)
      [] kind = "message" -> SendMessage(kwargs)
      [] kind = "team_invite" -> SendTeamInvite(kwargs)
      [] kind = "google_linked" -> SendGoogleLinked(kwargs)
      [] kind = "password_reset" -> SendPasswordReset(kwargs)
      [] kind = "email_verification" -> SendEmailVerification(kwargs)
      [] kind = "scorecard_request" -> SendScorecardRequest(kwargs)
      [] kind = "scorecard_reminder" -> SendScorecardReminder(kwargs)

\* What the team reads of a mail: the candidate's own link as a placeholder.
MaskCapabilityLinks(mail, payload) ==
    IF payload.key \in CAPABILITY_URL_KEYS /\ mail.url = payload.url
    THEN [mail EXCEPT !.url = PREVIEW_LINK_PLACEHOLDER] ELSE mail
-----------------------------------------------------------------------------
(***************************************************************************)
(* The mails about an interview: [to, company, key, url, candidate,        *)
(* candidate_email, interviewer_email, start, sequence], start 0 when no   *)
(* time was booked, "none" for an address that is not given.               *)
(***************************************************************************)
CalendarPart(method, kwargs, attendees) ==
    [method |-> method, sequence |-> kwargs.sequence, start |-> kwargs.start,
     attendees |-> attendees \ {"none"}]

SendInterviewInvite(kwargs) == SendEmail(kwargs, "interview", kwargs.url, NoCalendar)

SendInterviewConfirmed(kwargs) ==
    SendEmail(kwargs, "confirmed", kwargs.url,
              CalendarPart("REQUEST", kwargs, {kwargs.to, kwargs.interviewer_email}))

SendInterviewScheduled(kwargs) ==
    SendEmail(kwargs, "scheduled", kwargs.url,
              CalendarPart("REQUEST", kwargs, {kwargs.to, kwargs.candidate_email}))

SendInterviewCancelled(kwargs) ==
    SendEmail(kwargs, "cancelled", "none",
              IF kwargs.start = 0 THEN NoCalendar
              ELSE CalendarPart("CANCEL", kwargs, {kwargs.to, kwargs.interviewer_email}))

\* After an erasure it names nobody.
SendInterviewCancelledInterviewer(kwargs) ==
    SendEmail(kwargs, IF kwargs.candidate = "" THEN "erased" ELSE "cancelled", "none",
              CalendarPart("CANCEL", kwargs,
                           {kwargs.to} \cup (IF kwargs.candidate = "" THEN {}
                                             ELSE {kwargs.candidate_email})))

SendInterviewReminder(kwargs) == SendEmail(kwargs, "tomorrow", "none", NoCalendar)
SendInterviewReminderInterviewer(kwargs) ==
    SendEmail(kwargs, "tomorrow", kwargs.url, NoCalendar)
=============================================================================
