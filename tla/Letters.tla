------------------------------- MODULE Letters -------------------------------
(***************************************************************************)
(* From a template to a mail: what the recruiter was shown is what goes    *)
(* out and what the team reads later.  After                               *)
(*   services/email_templates.py, api/email_templates.py                   *)
(*   api/applications.py   email_preview, set_stage, the stage mails       *)
(*   services/applications.py   update_candidate_email                     *)
(*   services/outbox.py    queue_email, dispatch                           *)
(*                                                                         *)
(* The templates of one company and the mails of one candidate.  A letter  *)
(* is a request that mails: its sender is shown a preview, the request     *)
(* loads the application, checks the template, moves the stage, and queues *)
(* the mail, which takes a copy of the text.  Meanwhile requests from the  *)
(* settings pages (the desk) change templates, the company or the          *)
(* candidate's address.  When a mail is delivered, retried or cancelled is *)
(* the subject of module Outbox; here every attempt may fail or succeed.   *)
(***************************************************************************)
EXTENDS Mails, FiniteSets

CONSTANTS
    Template,     \* rows of email_templates
    Letter,       \* requests that mail the candidate
    Clerk,        \* requests of the desk served at one time
    Address, Company,   \* candidate.email, and the company's settings
    Texts,        \* what an editor may write into a template
    Ops,          \* the letters a run admits
    Kinds,        \* the kinds whose templates are edited
    CAP_PER_KIND, MAX_ATTEMPTS,
    MaxDesk       \* bound: requests of the desk

VARIABLES
    template, company, address,
    moved,      \* letters whose stage move is committed
    row,        \* email_outbox: the mail of each letter
    post,       \* the letters' control state and what they loaded
    shown,      \* what the sender of a letter was shown
    desk, left, \* the desk's requests, and how many may still come
    chosen,     \* what the last answered request made the default of a kind
    overtaken,  \* history: letters after whose preview a text or the company changed
    crossed,    \* history: mails a correction of the address could not see
    crowded     \* history: kinds of which two templates were created at a time

table == <<template, company, address, moved, row>>
history == <<chosen, overtaken, crossed, crowded>>
vars == <<table, post, shown, desk, left, history>>

NoTemplate == [kind |-> "none", text |-> NoText, default |-> FALSE]
NoRow == [status |-> "none", attempts |-> 0, to |-> "none", payload |-> "none",
          stored |-> NoMail, sent |-> NoMail]
Idle == [op |-> "idle", pc |-> "idle", on |-> "none", seen |-> "none", new |-> "none",
         todo |-> {}, over |-> {}]

Gone == [NoTemplate EXCEPT !.kind = "gone"]

Exists(t) == template[t].kind \in StageKind
OfKind(kind) == {t \in Template : template[t].kind = kind}
Defaults(kind) == {t \in OfKind(kind) : template[t].default}

\* resolve: the template that is named, or the default of the kind; the answer
\* is a set, empty when there is no such template.
Resolve(kind, ref) ==
    CASE ref = "builtin" -> {BUILTIN[kind]}
      [] ref = "default" -> IF Defaults(kind) = {} THEN {BUILTIN[kind]}
                            ELSE {template[t].text : t \in Defaults(kind)}
      [] OTHER -> {template[t].text : t \in OfKind(kind) \cap {ref}}

\* The texts a letter may take now: only the mails of the stages have templates.
TextsOf(op) == IF op.kind \in StageKind THEN Resolve(op.kind, op.ref) ELSE {NoText}

Init ==
    /\ \E t \in Template, kind \in Kinds, text \in Texts, default \in BOOLEAN :
         /\ Validate(kind, text)
         /\ template = [u \in Template |->
              IF u = t THEN [kind |-> kind, text |-> text, default |-> default] ELSE NoTemplate]
         /\ chosen = [k \in Kinds |->
              [as |-> IF default /\ k = kind THEN t ELSE "builtin", sure |-> TRUE]]
    /\ company \in Company /\ address \in Address
    /\ moved = {}
    /\ row = [q \in Letter |-> NoRow]
    /\ post \in [Letter -> [pc : {"idle"}, op : Ops, to : {address}, company : {company}]]
    /\ shown = [q \in Letter |-> NoMail]
    /\ desk = [p \in Clerk |-> Idle] /\ left \in 0..MaxDesk
    /\ overtaken = {} /\ crossed = {} /\ crowded = {}
-----------------------------------------------------------------------------
(***************************************************************************)
(* Letters.                                                                *)
(***************************************************************************)
Goto(q, pc) == post' = [post EXCEPT ![q].pc = pc]

\* The sender's own words: a one-off edit, or a message.
Override(op) == IF op.edit THEN Text("own words", {}) ELSE NoText

\* The preview is rendered like the mail, with a placeholder for the link.
PreviewOf(op, kwargs, text) ==
    LET given == [kwargs EXCEPT !.override = Override(op), !.text = text,
                    !.url = IF @ = "token" THEN PREVIEW_LINK_PLACEHOLDER ELSE @]
    IN Sender(op.kind, given)

Preview(q) ==
    /\ post[q].pc = "idle"
    /\ post[q].op.kind \in StageKind \cup {"message"}
    /\ \E text \in TextsOf(post[q].op) :
         shown' = [shown EXCEPT ![q] =
            PreviewOf(post[q].op, KwargsOf(post[q].op.kind, address, company), text)]
    /\ Goto(q, "shown")
    /\ UNCHANGED <<table, desk, left, history>>

\* The request loads the company and the application with its candidate.
Load(q) ==
    /\ \/ post[q].pc = "shown"
       \/ post[q].pc = "idle" /\ post[q].op.kind \notin StageKind
    /\ post' = [post EXCEPT ![q] = [post[q] EXCEPT !.to = address, !.company = company,
         !.pc = IF post[q].pc = "shown" /\ post[q].op.kind \in {"stage_advance", "rejection"}
                THEN "check" ELSE "queue"]]
    /\ UNCHANGED <<table, shown, desk, left, history>>

\* A template that is named must be there before anything moves.  The stage
\* moves, unless the application is rejected already and is mailed again.
CheckTemplate(q) ==
    /\ post[q].pc = "check"
    /\ Goto(q, IF Resolve(post[q].op.kind, post[q].op.ref) = {} THEN "refused"
               ELSE IF post[q].op.again THEN "queue" ELSE "move")
    /\ UNCHANGED <<table, shown, desk, left, history>>

\* The move is committed.  The refresh after it may read the candidate again.
Move(q) ==
    /\ post[q].pc = "move"
    /\ moved' = moved \cup {q}
    /\ \E to \in {post[q].to, address} :
         post' = [post EXCEPT ![q] = [post[q] EXCEPT !.pc = "queue", !.to = to]]
    /\ UNCHANGED <<template, company, address, row, shown, desk, left, history>>

\* Mutant of Payload: no copy of the text is taken.
PayloadByReference(op, kwargs, text) == Serialize([kwargs EXCEPT !.override = Override(op)])

Payload(op, kwargs, text) ==
    Serialize([kwargs EXCEPT !.override = Override(op), !.text = text])

\* queue_email: the text is resolved and travels with the mail.
QueueEmail(q) ==
    /\ post[q].pc = "queue"
    /\ LET op == post[q].op
           texts == TextsOf(op)
       IN \/ /\ texts = {}
             /\ Goto(q, "lost")
             /\ UNCHANGED row
          \/ /\ \E text \in texts :
                  row' = [row EXCEPT ![q] =
                    [NoRow EXCEPT !.status = IF op.held THEN "scheduled" ELSE "queued",
                       !.to = post[q].to,
                       !.payload = Payload(op, KwargsOf(op.kind, post[q].to, post[q].company), text)]]
             /\ Goto(q, "done")
    /\ UNCHANGED <<template, company, address, moved, shown, desk, left, history>>

Kill(q) ==
    /\ post[q].pc \in {"check", "move", "queue"}
    /\ Goto(q, "killed")
    /\ UNCHANGED <<table, shown, desk, left, history>>

\* Mutant of Stored: the mail is stored as it was sent.
StoredAsSent(mail, payload) == mail

Stored(mail, payload) == MaskCapabilityLinks(mail, payload)

\* An attempt: what the sender rendered is stored whether or not it got out.
Deliver(q) ==
    /\ row[q].status \in {"queued", "scheduled"}
    /\ LET kind == post[q].op.kind
           kwargs == Deserialize(row[q].payload)
           mail == Sender(kind, kwargs)
           more == IF row[q].attempts + 1 >= MAX_ATTEMPTS THEN "failed" ELSE "queued"
       IN IF kind \in StageKind /\ ~StageRenders(kind, kwargs)
          THEN row' = [row EXCEPT ![q] = [row[q] EXCEPT !.attempts = @ + 1, !.status = more]]
          ELSE \E ok \in BOOLEAN :
                 row' = [row EXCEPT ![q] = [row[q] EXCEPT !.attempts = @ + 1,
                           !.status = IF ok THEN "sent" ELSE more,
                           !.stored = Stored(mail, row[q].payload),
                           !.sent = IF ok THEN mail ELSE @]]
    /\ UNCHANGED <<template, company, address, moved, post, shown, desk, left, history>>
-----------------------------------------------------------------------------
(***************************************************************************)
(* The desk: templates, settings, the candidate's address.                 *)
(***************************************************************************)
Begin(p, d) ==
    /\ desk[p] = Idle /\ left > 0
    /\ left' = left - 1
    /\ desk' = [desk EXCEPT ![p] = d]
    /\ UNCHANGED <<table, post, shown, history>>

At(p, op, pc) == desk[p].op = op /\ desk[p].pc = pc

\* A request ends; the others under way have read what it may have changed.
End(p, what) ==
    desk' = [d \in Clerk |-> IF d = p \/ desk[d] = Idle THEN Idle
                             ELSE [desk[d] EXCEPT !.over = @ \cup {what}]]

\* Previews of a text that is changed here are out of date.
Overtaking(kind) ==
    overtaken' = overtaken \cup {q \in Letter :
        post[q].pc \in {"shown", "check", "move", "queue"} /\ post[q].op.kind = kind}

Quiet == UNCHANGED <<company, address, moved, row, post, shown, left>>

\* clean, and the count of the kind's templates.
LoadCreate(p, kind, text) ==
    /\ Validate(kind, text)
    /\ Cardinality(OfKind(kind)) < CAP_PER_KIND
    /\ Begin(p, [Idle EXCEPT !.op = "create", !.pc = "commit", !.on = kind, !.new = text])

Create(p) ==
    /\ At(p, "create", "commit")
    /\ \E t \in Template :
         /\ template[t] = NoTemplate
         /\ template' = [template EXCEPT ![t] =
              [kind |-> desk[p].on, text |-> desk[p].new, default |-> FALSE]]
    /\ crowded' = IF "create" \in desk[p].over THEN crowded \cup {desk[p].on} ELSE crowded
    /\ End(p, "create")
    /\ Quiet /\ UNCHANGED <<chosen, overtaken, crossed>>

LoadTemplate(p, op, t, text) ==
    /\ Exists(t)
    /\ op = "update" => Validate(template[t].kind, text)
    /\ Begin(p, [Idle EXCEPT !.op = op, !.pc = "commit", !.on = t, !.seen = template[t], !.new = text])

\* An UPDATE of a row that is gone ends in an error, and changes nothing.
UpdateTemplate(p) ==
    /\ At(p, "update", "commit")
    /\ LET t == desk[p].on
           writes == Exists(t) /\ desk[p].new # desk[p].seen.text
       IN /\ template' = IF writes THEN [template EXCEPT ![t].text = desk[p].new] ELSE template
          /\ Overtaking(desk[p].seen.kind)
    /\ End(p, "update")
    /\ Quiet /\ UNCHANGED <<chosen, crossed, crowded>>

Delete(p) ==
    /\ At(p, "delete", "commit")
    /\ LET t == desk[p].on
           kind == desk[p].seen.kind
       IN /\ template' = [template EXCEPT ![t] = Gone]
          /\ chosen' = IF chosen[kind].as = t THEN [chosen EXCEPT ![kind].as = "builtin"] ELSE chosen
          /\ Overtaking(kind)
    /\ End(p, "delete")
    /\ Quiet /\ UNCHANGED <<crossed, crowded>>

\* An answered request has chosen, for sure when no other was in its way.
Choose(p, kind, as) ==
    chosen' = [chosen EXCEPT ![kind] =
        [as |-> as, sure |-> "default" \notin desk[p].over
                             /\ \A o \in Clerk \ {p} : desk[o].op \notin {"default", "reset"}]]

\* Mutant of Others: the former default keeps its flag.
OthersKept(t, kind) == {}

\* What loses the flag when t takes it.
Others(t, kind) == Defaults(kind) \ {t}

\* The others lose the flag, then t takes it if it did not have it when it was
\* loaded.  Of two that cross, the second may be refused by the unique index.
SetDefault(p) ==
    /\ At(p, "default", "commit")
    /\ LET t == desk[p].on
           kind == desk[p].seen.kind
           others == Others(t, kind)
           flags == [u \in Template |->
                       IF u \in others THEN [template[u] EXCEPT !.default = FALSE]
                       ELSE IF u = t /\ ~desk[p].seen.default THEN [template[u] EXCEPT !.default = TRUE]
                       ELSE template[u]]
       IN \/ /\ Exists(t)
             /\ template' = flags
             /\ Choose(p, kind, t)
             /\ Overtaking(kind)
          \/ /\ "default" \in desk[p].over \/ ~Exists(t)
             /\ UNCHANGED <<template, chosen, overtaken>>
    /\ End(p, "default")
    /\ Quiet /\ UNCHANGED <<crossed, crowded>>

LoadReset(p, kind) == Begin(p, [Idle EXCEPT !.op = "reset", !.pc = "commit", !.on = kind])

\* The UPDATE finds the defaults there were when it began.
ClearDefault(p) ==
    /\ At(p, "reset", "commit")
    /\ LET kind == desk[p].on
       IN /\ \/ template' = [u \in Template |->
                   IF u \in Defaults(kind) THEN [template[u] EXCEPT !.default = FALSE] ELSE template[u]]
             \/ "default" \in desk[p].over /\ UNCHANGED template
          /\ Choose(p, kind, "builtin")
          /\ Overtaking(kind)
    /\ End(p, "default")
    /\ Quiet /\ UNCHANGED <<crossed, crowded>>

\* Name, brand, legal name: read by every request and every preview.
UpdateCompany(c) ==
    /\ left > 0 /\ c # company
    /\ left' = left - 1
    /\ company' = c
    /\ overtaken' = overtaken \cup {q \in Letter : post[q].pc = "shown"}
    /\ UNCHANGED <<template, address, moved, row, post, shown, desk, chosen, crossed, crowded>>

\* An address that is another candidate's is refused.
LoadCorrection(p, a) ==
    Begin(p, [Idle EXCEPT !.op = "correct", !.pc = "select", !.seen = address, !.new = a])

Writes(p) == desk[p].new # desk[p].seen

\* Mutant of Scheduled: rows waiting for a retry are taken for held ones.
ScheduledOrQueued == {q \in Letter : row[q].status = "queued" /\ row[q].attempts = 0}

Scheduled == {q \in Letter : row[q].status = "scheduled"}

\* The candidate is written, if the address differs from the one loaded (and
\* stays locked then), and the held mails are selected.
SelectHeld(p) ==
    /\ At(p, "correct", "select")
    /\ Writes(p) => \A o \in Clerk : At(o, "correct", "commit") => ~Writes(o)
    /\ desk' = [desk EXCEPT ![p] = [desk[p] EXCEPT !.pc = "commit", !.todo = Scheduled]]
    /\ UNCHANGED <<table, post, shown, left, history>>

\* Those still held get the address.  A letter under way has loaded the old
\* one, and a mail queued since the selection is not among those selected.
CorrectAddress(p) ==
    /\ At(p, "correct", "commit")
    /\ LET held == {q \in desk[p].todo : row[q].status = "scheduled"}
           late == {q \in Letter \ held : \/ post[q].pc \in {"check", "move", "queue"}
                                         \/ row[q].status = "scheduled"}
       IN /\ row' = [q \in Letter |-> IF q \in held THEN [row[q] EXCEPT !.to = desk[p].new] ELSE row[q]]
          /\ address' = IF Writes(p) THEN desk[p].new ELSE address
          /\ crossed' = crossed \cup late
                          \cup (IF "correct" \in desk[p].over THEN held ELSE {})
    /\ End(p, "correct")
    /\ UNCHANGED <<template, company, moved, post, shown, left, chosen, overtaken, crowded>>
-----------------------------------------------------------------------------
LetterStep(q) ==
    Preview(q) \/ Load(q) \/ CheckTemplate(q) \/ Move(q) \/ QueueEmail(q) \/ Kill(q) \/ Deliver(q)

DeskStep(p) ==
    \/ Create(p) \/ UpdateTemplate(p) \/ Delete(p) \/ SetDefault(p) \/ ClearDefault(p)
    \/ SelectHeld(p) \/ CorrectAddress(p)
    \/ \E kind \in Kinds : LoadReset(p, kind) \/ \E text \in Texts : LoadCreate(p, kind, text)
    \/ \E t \in Template : \/ \E text \in Texts : LoadTemplate(p, "update", t, text)
                           \/ \E op \in {"delete", "default"} : LoadTemplate(p, op, t, NoText)
    \/ \E a \in Address : LoadCorrection(p, a)

Next ==
    \/ \E q \in Letter : LetterStep(q)
    \/ \E p \in Clerk : DeskStep(p)
    \/ \E c \in Company : UpdateCompany(c)

Spec == Init /\ [][Next]_vars
-----------------------------------------------------------------------------
(***************************************************************************)
(* Properties.                                                             *)
(***************************************************************************)
\* The mail says what its sender was shown, whatever happens to templates and
\* settings while it waits or is tried again, and the team reads the same:
\* email_preview promises that "the recruiter reads what goes out".
ShownIsSent ==
    \A q \in Letter : shown[q] # NoMail /\ q \notin overtaken =>
        /\ row[q].stored \in {NoMail, shown[q]}
        /\ row[q].sent # NoMail =>
             [row[q].sent EXCEPT !.url = shown[q].url] = shown[q]

\* Nobody on the team reads a link that is the candidate's own, nor gets one in
\* a preview; the candidate gets the one that works.
NothingOpens ==
    \A q \in Letter :
        /\ shown[q].url # "token"
        /\ post[q].op.kind \notin Account => row[q].stored.url \notin {"token", "secret"}
        /\ row[q].sent.url # PREVIEW_LINK_PLACEHOLDER

\* No mail fails for its text, which was checked when the template was written.
EveryLetterRenders ==
    \A q \in Letter : row[q].status # "none" /\ post[q].op.kind \in StageKind =>
        StageRenders(post[q].op.kind, Deserialize(row[q].payload))

\* A refused request has moved nothing.  One that moved and should mail has its
\* mail, but for a kill or a template deleted after the check.
MovedIsMailed ==
    \A q \in Letter :
        /\ post[q].pc = "refused" => q \notin moved /\ row[q] = NoRow
        /\ post[q].pc = "lost" => post[q].op.ref \in Template /\ ~Exists(post[q].op.ref)
        /\ q \in moved /\ post[q].pc = "done" => row[q] # NoRow

\* A held mail goes to the corrected address, but for corrections that crossed
\* the request that queued it or each other.
CorrectedHolds == \A q \in Scheduled : row[q].to = address \/ q \in crossed

\* At most one default of a kind, and it is the one last chosen when the requests
\* did not cross; no more templates than the cap but for creations that crossed.
DefaultsHold ==
    \A kind \in Kinds :
        /\ Cardinality(Defaults(kind)) <= 1
        /\ chosen[kind].sure =>
             Defaults(kind) = {chosen[kind].as} \ {"builtin"}
        /\ Cardinality(OfKind(kind)) <= CAP_PER_KIND \/ kind \in crowded

\* What is shown is what is sent, to the address that is right, and no move goes
\* without its mail, while the desk changes templates, settings and addresses.
LettersHold ==
    /\ ShownIsSent
    /\ NothingOpens
    /\ EveryLetterRenders
    /\ MovedIsMailed
    /\ CorrectedHolds
    /\ DefaultsHold
-----------------------------------------------------------------------------
(***************************************************************************)
(* What the proofs need besides.                                           *)
(***************************************************************************)
LetterKind ==
    StageKind \cup Account \cup {"message", "application_received", "scorecard_request"}

\* The constants are what they stand for.
LettersConstants ==
    /\ IsFiniteSet(Template) /\ Template \cap {"builtin", "default"} = {}
    /\ Kinds \subseteq StageKind
    /\ CAP_PER_KIND \in Nat \ {0}
    /\ Ops \subseteq [kind : LetterKind, ref : Template \cup {"builtin", "default"},
                      edit : BOOLEAN, held : BOOLEAN, again : BOOLEAN]

AnyText == Texts \cup {NoText} \cup {BUILTIN[kind] : kind \in StageKind}
AnyTemplate == [kind : Kinds \cup {"none", "gone"}, text : Texts \cup {NoText}, default : BOOLEAN]

\* A record with these fields, whatever they hold.
IsDesk(d) == d = [op |-> d.op, pc |-> d.pc, on |-> d.on, seen |-> d.seen, new |-> d.new,
                  todo |-> d.todo, over |-> d.over]
IsRow(r) == r = [status |-> r.status, attempts |-> r.attempts, to |-> r.to,
                 payload |-> r.payload, stored |-> r.stored, sent |-> r.sent]

LettersTypeOK ==
    /\ template \in [Template -> AnyTemplate]
    /\ company \in Company /\ address \in Address
    /\ moved \subseteq Letter /\ overtaken \subseteq Letter
    /\ post \in [Letter -> [op : Ops, to : Address, company : Company,
                            pc : {"idle", "shown", "check", "move", "queue", "done",
                                  "refused", "lost", "killed"}]]
    /\ DOMAIN row = Letter /\ DOMAIN shown = Letter /\ \A q \in Letter : IsRow(row[q])
    /\ DOMAIN desk = Clerk
    /\ \A p \in Clerk :
         /\ IsDesk(desk[p])
         /\ desk[p].op \in {"idle", "create", "update", "delete", "default", "reset", "correct"}
    /\ chosen \in [Kinds -> [as : Template \cup {"builtin"}, sure : BOOLEAN]]

\* A template was checked when it was written.
TemplatesValid ==
    \A t \in Template : Exists(t) =>
      template[t].text \in Texts /\ Validate(template[t].kind, template[t].text)

\* What a request of the desk loaded still holds, but for what crossed it: its
\* template is of the kind it was or gone, it was the default if it is, there
\* is room for one more, and the address is the one it knows.
ClerkKnows(p) ==
    LET d == desk[p]
    IN  /\ d.op \in {"update", "delete", "default"} =>
             /\ d.on \in Template /\ d.seen \in AnyTemplate /\ d.seen.kind \in Kinds
             /\ template[d.on].kind \in {d.seen.kind, "gone"}
        /\ d.op = "update" => d.new \in Texts /\ Validate(d.seen.kind, d.new)
        /\ d.op = "create" =>
             /\ d.on \in Kinds /\ d.new \in Texts /\ Validate(d.on, d.new)
             /\ "create" \notin d.over => Cardinality(OfKind(d.on)) < CAP_PER_KIND
        /\ d.op = "default" /\ "default" \notin d.over /\ Exists(d.on) =>
             template[d.on].default = d.seen.default
        /\ d.op = "reset" => d.on \in Kinds
        /\ d.op = "correct" => /\ d.new \in Address
                               /\ "correct" \notin d.over => d.seen = address

\* The mail a row of letter q sends.
MailOf(q) == Sender(post[q].op.kind, Deserialize(row[q].payload))

\* A preview, but for the link.
SameAs(mail, preview) == [mail EXCEPT !.url = preview.url] = preview

UnderWay == {"shown", "check", "move", "queue"}

\* A letter under way has moved nothing before its move, knows the address, and
\* its template was of its kind when it was shown; what its sender was shown is
\* what it would send now, unless a text or the company changed.
LetterCarries(q) ==
    LET op == post[q].op
        pc == post[q].pc
    IN  /\ pc \in {"idle", "shown", "check", "move", "refused"} => q \notin moved
        /\ pc = "idle" => shown[q] = NoMail
        /\ shown[q].url # "token"
        /\ shown[q] # NoMail => op.kind \in StageKind \cup {"message"}
        /\ pc \in {"check", "move", "queue"} => post[q].to = address \/ q \in crossed
        /\ pc \in UnderWay /\ op.kind \in StageKind /\ op.ref \in Template =>
             template[op.ref].kind \in {op.kind, "gone"}
        /\ pc = "lost" => op.ref \in Template /\ template[op.ref].kind = "gone"
        /\ pc \in UnderWay /\ shown[q] # NoMail /\ q \notin overtaken =>
             \E to \in Address, text \in TextsOf(op) :
               shown[q] = PreviewOf(op, KwargsOf(op.kind, to,
                            IF pc = "shown" THEN company ELSE post[q].company), text)

\* A mail was queued by a request that came to its end; it carries a text that
\* renders, and is stored and sent as it was shown.
RowCarries(q) ==
    LET op == post[q].op
        r == row[q]
    IN  /\ post[q].pc # "done" => r = NoRow
        /\ post[q].pc = "done" =>
             /\ r.status \in {"scheduled", "queued", "sent", "failed"}
             /\ \E to \in Address, c \in Company, text \in AnyText :
                  /\ r.payload = Payload(op, KwargsOf(op.kind, to, c), text)
                  /\ op.kind \in StageKind => Validate(op.kind, text)
             /\ r.stored \in {NoMail, Stored(MailOf(q), r.payload)}
             /\ r.sent \in {NoMail, MailOf(q)}
             /\ shown[q] # NoMail /\ q \notin overtaken =>
                  SameAs(MailOf(q), shown[q]) /\ Stored(MailOf(q), r.payload) = shown[q]

OneDefault == \A kind \in Kinds : \A t, u \in Defaults(kind) : t = u

\* The inductive invariant.
LettersIInv ==
    /\ LettersTypeOK /\ TemplatesValid /\ OneDefault /\ CorrectedHolds /\ DefaultsHold
    /\ \A p \in Clerk : ClerkKnows(p)
    /\ \A q \in Letter : LetterCarries(q) /\ RowCarries(q)
=============================================================================
