-------------------------------- MODULE Team --------------------------------
(***************************************************************************)
(* The accounts of one company and the invites to it, after                *)
(*   services/users.py, services/invites.py, services/auth.py,             *)
(*   services/mfa.py (sign_out_everywhere), core/tenancy.py,               *)
(*   api/users.py, api/auth.py, create_interview of api/applications, and  *)
(*   services/interviews.py for what becomes of an interview.              *)
(* A request authenticates its caller and loads the row it is about, then  *)
(* counts (active admins, accounts of an address), then commits: three     *)
(* transactionally separate reads and writes without a lock, in which an   *)
(* UPDATE writes the columns that differ from what was loaded.             *)
(* Left out: passwords and codes (a request that fails on them changes no  *)
(* account), Google identities, profiles, availability, other companies.   *)
(* Of each user one interview is followed, from its request on: the others *)
(* are alike, and could only refuse a removal.                             *)
(***************************************************************************)
EXTENDS Naturals, FiniteSets

CONSTANTS
    User,       \* rows of users
    Email,      \* addresses
    Invite,     \* rows of user_invites
    Request,    \* requests served at one time
    MaxRequests \* bound: requests that change something

ASSUME NamesAreReal == {"none", "deleted"} \cap Email = {} /\ "none" \notin Invite
ASSUME BoundIsNatural == MaxRequests \in Nat

VARIABLES
    user, invite,
    interview,  \* of each user the interview that is followed: its status and time
    issued,     \* session tokens handed out: <<user, token_version>>
    links,      \* password-reset links mailed: <<user, token_version>>
    req,        \* the requests: what each loaded and asks for
    left,       \* requests still to come
    ended,      \* history: session tokens that a sign-out or a removal ended
    made,       \* history: how many accounts an invite has made
    revoked,    \* history: invites taken back before they were accepted
    crossed,    \* history: <<op, table>>: a request committed over a later commit to a table
    revived,    \* history: a tombstone was switched on again
    returned    \* history: tombstones whose past interview was put ahead again

db == <<user, invite, interview>>
history == <<ended, made, revoked, crossed, revived, returned>>
vars == <<db, issued, links, req, left, history>>

\* A reviewer differs from a member in what it may read only.
Role == {"admin", "member"}
Nobody == [email |-> "none", role |-> "member", active |-> FALSE, version |-> 0]
NoInvite == [st |-> "none", email |-> "none", role |-> "member"]
Idle == [op |-> "idle", pc |-> "idle", on |-> "none", seen |-> Nobody, role |-> "same",
         active |-> "same", email |-> "none", invite |-> "none", known |-> {}, over |-> {}]

Member(e, role) == [email |-> e, role |-> role, active |-> TRUE, version |-> 0]

\* These accounts, each signed in, no invites.
Start(accounts) ==
    /\ user = accounts
    /\ issued = {<<u, 0>> : u \in {v \in User : accounts[v].active}}
    /\ invite = [i \in Invite |-> NoInvite]
    /\ interview = [u \in User |-> "none"] /\ links = {} /\ left = MaxRequests
    /\ req = [r \in Request |-> Idle]
    /\ ended = {} /\ made = [i \in Invite |-> 0] /\ revoked = {} /\ crossed = {}
    /\ revived = FALSE /\ returned = {}

\* The company as its registration left it: one admin, with a session.
Init == \E u \in User, e \in Email :
    Start([v \in User |-> IF v = u THEN Member(e, "admin") ELSE Nobody])

Exists(u) == user[u].email # "none"
Taken(e) == \E u \in User : user[u].email = e
Tombstone(u) == user[u].email = "deleted"
ActiveAdmins == {u \in User : user[u].role = "admin" /\ user[u].active}

\* A session is good while its user is active and has its version.
Valid(s) == user[s[1]].active /\ user[s[1]].version = s[2]
SignedIn(u) == \E s \in issued : s[1] = u /\ Valid(s)
SignedInAdmin == \E u \in User : SignedIn(u) /\ user[u].role = "admin"

\* A request begins: who calls, and what it loads.
Begin(r, q) ==
    /\ req[r] = Idle /\ left > 0
    /\ left' = left - 1
    /\ req' = [req EXCEPT ![r] = q]
    /\ UNCHANGED <<db, issued, links, history>>

About(op, u) == [Idle EXCEPT !.op = op, !.pc = "check", !.on = u, !.seen = user[u],
                             !.known = {s \in issued : s[1] = u}]
At(r, op, pc) == req[r].op = op /\ req[r].pc = pc

Refuse(r) == req' = [req EXCEPT ![r] = Idle] /\ UNCHANGED <<db, issued, links, left, history>>
GoOn(r) == req' = [req EXCEPT ![r].pc = "commit"] /\ UNCHANGED <<db, issued, links, left, history>>

\* A commit: what the others under way read of its tables is stale now.
Stale(q, tables) == IF q = Idle THEN Idle ELSE [q EXCEPT !.over = @ \cup tables]

Commit(r, tables) ==
    /\ req' = [q \in Request |-> IF q = r THEN Idle ELSE Stale(req[q], tables)]
    /\ crossed' = crossed \cup ({req[r].op} \X req[r].over)
    /\ UNCHANGED left
-----------------------------------------------------------------------------
(***************************************************************************)
(* The team: roles, deactivation, removal, interviews.                     *)
(***************************************************************************)
LoadUpdate(r, u, role, active) ==
    /\ SignedInAdmin /\ Exists(u)
    /\ role # "same" \/ active # "same"
    /\ Begin(r, [About("update", u) EXCEPT !.role = role, !.active = active])

LoadAnonymize(r, u) ==
    /\ SignedInAdmin /\ Exists(u)
    /\ Begin(r, About("anonymize", u))

\* Mutant of Removes: only a demotion is looked at.
RemovesByRole(q) == q.seen.role = "admin" /\ q.role = "member"

Removes(q) ==
    /\ q.seen.role = "admin"
    /\ IF q.op = "update" THEN q.role = "member" \/ q.active = "no" ELSE q.seen.active

\* Mutant of Upcoming: an interview that is not booked yet is not looked at.
UpcomingTimed(u) == interview[u] = "booked"

\* Not cancelled, and without a time or at one that is still to come.
Upcoming(u) == interview[u] \in {"pending", "booked"}

CheckRemoval(r) ==
    /\ req[r].op \in {"update", "anonymize"} /\ req[r].pc = "check"
    /\ IF \/ Removes(req[r]) /\ Cardinality(ActiveAdmins) <= 1
          \/ req[r].op = "anonymize" /\ Upcoming(req[r].on)
       THEN Refuse(r)
       ELSE GoOn(r)

\* What an UPDATE makes of a column: written only if it differs from the loaded value.
Written(now, seen, new) == IF new = seen THEN now ELSE new

NextVersion(q) == q.seen.version + 1

\* Mutant of VersionAfter: a deactivated user's sessions are only refused as
\* long as the user is inactive.
VersionAfterKept(q) == user[q.on].version

VersionAfter(q) == IF q.active = "no" THEN NextVersion(q) ELSE user[q.on].version

Updated(q) ==
    LET role == IF q.role = "same" THEN q.seen.role ELSE q.role
        active == IF q.active = "same" THEN q.seen.active ELSE q.active = "yes"
    IN  [user[q.on] EXCEPT !.role = Written(user[q.on].role, q.seen.role, role),
                           !.active = Written(user[q.on].active, q.seen.active, active),
                           !.version = VersionAfter(q)]

\* What the commit of an account's row makes stale: the count of the active
\* admins too, where it takes one away.
Touched(u, new) ==
    {"users"} \cup IF u \in ActiveAdmins /\ ~(new.role = "admin" /\ new.active) THEN {"admins"} ELSE {}

UpdateUser(r) ==
    LET q == req[r] IN
    /\ At(r, "update", "commit")
    /\ Commit(r, Touched(q.on, Updated(q)))
    /\ user' = [user EXCEPT ![q.on] = Updated(q)]
    /\ ended' = IF q.active = "no" THEN ended \cup q.known ELSE ended
    /\ revived' = (revived \/ (Tombstone(q.on) /\ user'[q.on].active))
    /\ UNCHANGED <<invite, interview, issued, links, made, revoked, returned>>

\* The row stays for its interviews, the address is free again, the role stays.
Removed(q) ==
    [user[q.on] EXCEPT !.email = "deleted",
                       !.active = Written(user[q.on].active, q.seen.active, FALSE),
                       !.version = NextVersion(q)]

Anonymize(r) ==
    LET q == req[r] IN
    /\ At(r, "anonymize", "commit")
    /\ Commit(r, Touched(q.on, Removed(q)) \cup {"removed"})
    /\ user' = [user EXCEPT ![q.on] = Removed(q)]
    /\ ended' = ended \cup q.known
    /\ revived' = (revived \/ user'[q.on].active)
    /\ UNCHANGED <<invite, interview, issued, links, made, revoked, returned>>

\* Any of the team requests an interview; the interviewer is active when loaded.
LoadInterview(r, u) ==
    /\ \E b \in User : SignedIn(b)
    /\ user[u].active /\ interview[u] = "none"
    /\ Begin(r, [About("interview", u) EXCEPT !.pc = "commit"])

RequestInterview(r) ==
    LET u == req[r].on IN
    /\ At(r, "interview", "commit")
    /\ Commit(r, {"interviews"})
    /\ interview' = [interview EXCEPT ![u] = IF @ = "none" THEN "pending" ELSE @]
    /\ UNCHANGED <<user, invite, issued, links, ended, made, revoked, revived, returned>>

\* The candidate picks a time.  An interview that is cancelled is refused when it
\* is loaded, one that is booked under the lock.
LoadBook(r, u) ==
    /\ interview[u] = "pending"
    /\ Begin(r, [About("book", u) EXCEPT !.pc = "commit"])

BookInterview(r) ==
    LET u == req[r].on IN
    /\ At(r, "book", "commit")
    /\ IF interview[u] \in {"booked", "past"} THEN Refuse(r)
       ELSE /\ Commit(r, {"interviews"})
            /\ interview' = [interview EXCEPT ![u] = "booked"]
            /\ UNCHANGED <<user, invite, issued, links, ended, made, revoked, revived, returned>>

\* The time of an interview comes; it stays booked.
PassInterview(u) ==
    /\ interview[u] = "booked" /\ interview' = [interview EXCEPT ![u] = "past"]
    /\ UNCHANGED <<user, invite, issued, links, req, left, history>>

\* The candidate moves a booked interview, over or not, to a time that is free in
\* the hours of its interviewer, the default ones where there are none.
MoveInterview(u) ==
    /\ interview[u] \in {"booked", "past"} /\ interview' = [interview EXCEPT ![u] = "booked"]
    /\ req' = [q \in Request |-> Stale(req[q], {"interviews"})]
    /\ returned' = IF interview[u] = "past" /\ Tombstone(u) THEN returned \cup {u} ELSE returned
    /\ UNCHANGED <<user, invite, issued, links, left, ended, made, revoked, crossed, revived>>

\* By the team or by the candidate.
CancelInterview(u) ==
    /\ interview[u] \in {"pending", "booked", "past"}
    /\ interview' = [interview EXCEPT ![u] = "cancelled"]
    /\ UNCHANGED <<user, invite, issued, links, req, left, history>>
-----------------------------------------------------------------------------
(***************************************************************************)
(* Accounts and invites.  An address has one account and one invite at     *)
(* most: the unique indexes refuse the insert of a second.                 *)
(***************************************************************************)
LoadCreate(r, op, e, role) ==
    /\ SignedInAdmin
    /\ op \in {"create", "invite"}
    /\ Begin(r, [Idle EXCEPT !.op = op, !.pc = "check", !.email = e, !.role = role])

LoadInvite(r, op, i) ==
    /\ invite[i].st # "none"
    /\ \/ op \in {"resend", "revoke"} /\ SignedInAdmin
       \/ op = "accept" /\ invite[i].st = "fresh"
    /\ Begin(r, [Idle EXCEPT !.op = op, !.pc = IF op = "accept" THEN "check" ELSE "commit",
                             !.email = invite[i].email, !.role = invite[i].role, !.invite = i])

InvitesOf(e) == {i \in Invite : invite[i].st # "none" /\ invite[i].email = e}

\* An expired invite of the address is loaded, to be replaced.
CheckAddress(r) ==
    LET e == req[r].email IN
    /\ req[r].op \in {"create", "accept", "invite"} /\ req[r].pc = "check"
    /\ IF Taken(e) THEN Refuse(r)
       ELSE IF req[r].op # "invite" \/ InvitesOf(e) = {} THEN GoOn(r)
       ELSE \E i \in InvitesOf(e) :
              IF invite[i].st = "fresh" THEN Refuse(r)
              ELSE /\ req' = [req EXCEPT ![r] = [@ EXCEPT !.pc = "commit", !.invite = i]]
                   /\ UNCHANGED <<db, issued, links, left, history>>

CreateUser(r) ==
    /\ At(r, "create", "commit")
    /\ IF Taken(req[r].email) THEN Refuse(r)
       ELSE \E u \in {v \in User : ~Exists(v)} :
              /\ Commit(r, {"users"})
              /\ user' = [user EXCEPT ![u] = Member(req[r].email, req[r].role)]
              /\ UNCHANGED <<invite, interview, issued, links, ended, made, revoked, revived, returned>>

\* Mutant of Consumed: the row of an accepted invite is left.
ConsumedNot(i) == invite

Consumed(i) == [invite EXCEPT ![i] = NoInvite]

\* The DELETE of an invite that is gone matches no row, which is only warned of.
AcceptInvite(r) ==
    LET q == req[r] IN
    /\ At(r, "accept", "commit")
    /\ IF Taken(q.email) THEN Refuse(r)
       ELSE \E u \in {v \in User : ~Exists(v)} :
              /\ Commit(r, {"users"})
              /\ user' = [user EXCEPT ![u] = Member(q.email, q.role)]
              /\ invite' = Consumed(q.invite)
              /\ issued' = issued \cup {<<u, 0>>}
              /\ made' = [made EXCEPT ![q.invite] = @ + 1]
              /\ UNCHANGED <<interview, links, ended, revoked, revived, returned>>

CreateInvite(r) ==
    LET q == req[r] IN
    /\ At(r, "invite", "commit")
    /\ IF InvitesOf(q.email) \ {q.invite} # {} THEN Refuse(r)
       ELSE \E i \in {j \in Invite : invite[j] = NoInvite /\ made[j] = 0 /\ j \notin revoked} :
              /\ Commit(r, {"invites"})
              /\ invite' = [j \in Invite |->
                   IF j = i THEN [st |-> "fresh", email |-> q.email, role |-> q.role]
                   ELSE IF j = q.invite THEN NoInvite ELSE invite[j]]
              /\ revoked' = IF q.invite \in Invite /\ made[q.invite] = 0
                           THEN revoked \cup {q.invite} ELSE revoked
              /\ UNCHANGED <<user, interview, issued, links, ended, made, revived, returned>>

\* An UPDATE that matches no row raises StaleDataError.
ResendInvite(r) ==
    LET q == req[r] IN
    /\ At(r, "resend", "commit")
    /\ IF invite[q.invite].st = "none" THEN Refuse(r)
       ELSE /\ Commit(r, {"invites"})
            /\ invite' = [invite EXCEPT ![q.invite] = [@ EXCEPT !.st = "fresh"]]
            /\ UNCHANGED <<user, interview, issued, links, ended, made, revoked, revived, returned>>

RevokeInvite(r) ==
    LET q == req[r] IN
    /\ At(r, "revoke", "commit")
    /\ Commit(r, {"invites"})
    /\ invite' = [invite EXCEPT ![q.invite] = NoInvite]
    /\ revoked' = IF made[q.invite] = 0 THEN revoked \cup {q.invite} ELSE revoked
    /\ UNCHANGED <<user, interview, issued, links, ended, made, revived, returned>>

\* Seven days pass.
ExpireInvite(i) ==
    /\ invite[i].st = "fresh" /\ invite' = [invite EXCEPT ![i] = [@ EXCEPT !.st = "expired"]]
    /\ UNCHANGED <<user, interview, issued, links, req, left, history>>
-----------------------------------------------------------------------------
(***************************************************************************)
(* Sessions.                                                               *)
(***************************************************************************)
\* The cookie carries the version that was loaded.
Login(u) ==
    /\ user[u].active /\ ~Tombstone(u)
    /\ issued' = issued \cup {<<u, user[u].version>>}
    /\ UNCHANGED <<db, links, req, left, history>>

ForgotPassword(u) ==
    /\ user[u].active /\ ~Tombstone(u)
    /\ links' = links \cup {<<u, user[u].version>>}
    /\ UNCHANGED <<db, issued, req, left, history>>

\* A change of password, and "sign out everywhere", by the user itself.
LoadSignOut(r, u) ==
    /\ SignedIn(u)
    /\ Begin(r, [About("signout", u) EXCEPT !.pc = "commit"])

LoadReset(r, l) ==
    /\ l \in links /\ Valid(l)
    /\ Begin(r, [About("signout", l[1]) EXCEPT !.pc = "commit"])

\* All three write the next version and hand the caller a session of it.
SetVersion(r) ==
    LET q == req[r]
        u == q.on
    IN  /\ At(r, "signout", "commit")
        /\ Commit(r, {"users"})
        /\ user' = [user EXCEPT ![u].version = NextVersion(q)]
        /\ issued' = issued \cup {<<u, NextVersion(q)>>}
        /\ ended' = ended \cup q.known
        /\ UNCHANGED <<invite, interview, links, made, revoked, revived, returned>>
-----------------------------------------------------------------------------
Next ==
    \/ \E r \in Request :
         \/ \E u \in User :
              \/ \E role \in Role \cup {"same"}, active \in {"yes", "no", "same"} :
                   LoadUpdate(r, u, role, active)
              \/ LoadAnonymize(r, u) \/ LoadInterview(r, u) \/ LoadBook(r, u) \/ LoadSignOut(r, u)
         \/ \E op \in {"create", "invite"}, e \in Email, role \in Role : LoadCreate(r, op, e, role)
         \/ \E op \in {"resend", "revoke", "accept"}, i \in Invite : LoadInvite(r, op, i)
         \/ \E l \in links : LoadReset(r, l)
         \/ CheckRemoval(r) \/ UpdateUser(r) \/ Anonymize(r)
         \/ RequestInterview(r) \/ BookInterview(r)
         \/ CheckAddress(r) \/ CreateUser(r) \/ AcceptInvite(r)
         \/ CreateInvite(r) \/ ResendInvite(r) \/ RevokeInvite(r) \/ SetVersion(r)
    \/ \E u \in User : \/ PassInterview(u) \/ MoveInterview(u) \/ CancelInterview(u)
                       \/ Login(u) \/ ForgotPassword(u)
    \/ \E i \in Invite : ExpireInvite(i)

Spec == Init /\ [][Next]_vars
-----------------------------------------------------------------------------
Crossed(ops, table) == \E op \in ops : <<op, table>> \in crossed

\* "So a company can never lock itself out" (users.py:87): somebody who can sign
\* in is an admin, whatever roles, removals and invites follow or cross each
\* other.  It does break where a removal commits over another request's that took
\* an active admin away since it counted them, and once a tombstone was switched
\* on again, which the guard counts as an admin.
Outcounted == Crossed({"update", "anonymize"}, "admins") \/ revived

AdminRemains == Outcounted \/ \E u \in ActiveAdmins : ~Tombstone(u)

\* Who has an interview ahead is not removed, and the removed are not asked for
\* one nor booked, however requests, bookings, moves, cancellations and removals
\* follow each other.  "A tombstone offers no slots" (users.py:182) does not hold
\* of every interview: the removal looks past one that is over, whose candidate
\* may move it ahead again (returned); and it does not hold where a removal
\* commits over an interview requested, booked or moved since it looked, where an
\* interview is committed over a removal, and once a tombstone was switched on.
Unseen ==
    \/ Crossed({"anonymize"}, "interviews") \/ Crossed({"interview", "book"}, "removed")
    \/ revived

InterviewersStay ==
    \/ Unseen
    \/ \A u \in User : interview[u] \in {"pending", "booked"} /\ Tombstone(u) => u \in returned

\* An address has one account and one invite; an invite makes one account, and
\* none once it was revoked or replaced, unless its acceptance crossed that.
InviteUsedOnce ==
    /\ \A u, v \in User : user[u].email = user[v].email /\ user[u].email \in Email => u = v
    /\ \A e \in Email : Cardinality(InvitesOf(e)) <= 1
    /\ \A i \in Invite :
         \/ Crossed({"accept"}, "invites") \/ Crossed({"accept"}, "users")
         \/ made[i] <= 1 /\ (made[i] = 1 => invite[i] = NoInvite /\ i \notin revoked)

AccountsHold == AdminRemains /\ InterviewersStay /\ InviteUsedOnce

\* A session that a sign-out, a new password, a deactivation or a removal ended
\* is never good again, a reactivation of its user included, unless two of them
\* wrote one row's version across each other.
SessionsEnd ==
    \/ Crossed({"update", "anonymize", "signout"}, "users")
    \/ \A s \in ended : ~Valid(s)
-----------------------------------------------------------------------------
(***************************************************************************)
(* The inductive invariant of the proofs.                                  *)
(***************************************************************************)
Account == [email : Email \cup {"none", "deleted"}, role : Role, active : BOOLEAN, version : Nat]
Session == User \X Nat
OnUser == {"update", "anonymize", "interview", "book", "signout"}
OnInvite == {"create", "invite", "accept", "resend", "revoke"}
Table == {"users", "admins", "removed", "invites", "interviews"}

Asking ==
    [op : OnUser \cup OnInvite \cup {"idle"}, pc : {"idle", "check", "commit"},
     on : User \cup {"none"}, seen : Account, role : Role \cup {"same"},
     active : {"yes", "no", "same"}, email : Email \cup {"none"}, invite : Invite \cup {"none"},
     known : SUBSET Session, over : SUBSET Table]

\* The tables and the requests have their shape; whoever has a session or an
\* active row has an account.
TypeOK ==
    /\ user \in [User -> Account]
    /\ invite \in [Invite -> [st : {"none", "fresh", "expired"}, email : Email \cup {"none"}, role : Role]]
    /\ interview \in [User -> {"none", "pending", "booked", "past", "cancelled"}]
    /\ issued \in SUBSET Session /\ links \in SUBSET Session /\ ended \in SUBSET issued
    /\ req \in [Request -> Asking]
    /\ left \in Nat
    /\ made \in [Invite -> Nat] /\ revoked \in SUBSET Invite
    /\ crossed \in SUBSET ((OnUser \cup OnInvite) \X Table)
    /\ revived \in BOOLEAN /\ returned \in SUBSET User
    /\ \A u \in User : interview[u] # "none" => Exists(u)
    /\ \A i \in Invite : invite[i].st # "none" => invite[i].email \in Email
    /\ \A u \in User : ~Exists(u) => ~user[u].active
    /\ \A s \in issued \cup links : Exists(s[1])

\* A tombstone is inactive, until it is switched on again.
TombstonesSleep == revived \/ \A u \in User : Tombstone(u) => ~user[u].active

\* Sessions have the version of their user at most, those that were ended less.
VersionsGrow ==
    \/ Crossed({"update", "anonymize", "signout"}, "users")
    \/ /\ \A s \in issued : s[2] <= user[s[1]].version
       /\ \A s \in ended : s[2] < user[s[1]].version

\* An invite that is there has made no account and was not taken back.
InvitesAreUnused ==
    /\ \A i \in Invite : invite[i].st # "none" => made[i] = 0 /\ i \notin revoked
    /\ \A i, j \in Invite : invite[i].st # "none" /\ invite[j].st # "none"
                              /\ invite[i].email = invite[j].email => i = j

\* A request over which nobody has committed still knows the tables: an admin
\* other than the one it may take away, the interviews, the removed.
MayTakeAway(q) ==
    \/ q.pc = "commit" /\ Removes(q)
    \/ ~(q.seen.role = "admin" /\ q.seen.active)

KnowsUser(q) ==
    /\ q.op \in OnUser =>
         /\ q.on \in User /\ Exists(q.on)
         /\ q.known \subseteq {s \in issued : s[1] = q.on}
         /\ "users" \notin q.over => user[q.on] = q.seen
    /\ q.op \in {"update", "anonymize"} /\ MayTakeAway(q) /\ "admins" \notin q.over =>
         Outcounted \/ \E u \in ActiveAdmins : u # q.on
    /\ q.op = "anonymize" /\ q.pc = "commit" /\ "interviews" \notin q.over => ~Upcoming(q.on)
    /\ q.op \in {"interview", "book"} /\ "removed" \notin q.over =>
         Unseen \/ q.on \in returned \/ ~Tombstone(q.on)

KnowsInvite(q) ==
    /\ q.op \in {"create", "invite", "accept"} => q.email \in Email
    /\ q.op \in {"create", "invite", "accept"} => q.role \in Role
    /\ q.op \in {"accept", "resend", "revoke"} => q.invite \in Invite
    /\ q.op = "accept" /\ q.over \cap {"users", "invites"} = {} => invite[q.invite].st # "none"
    /\ q.op = "invite" /\ q.invite \in Invite =>
         invite[q.invite].st # "none" \/ made[q.invite] # 0 \/ q.invite \in revoked

IInv ==
    /\ TypeOK
    /\ TombstonesSleep
    /\ VersionsGrow
    /\ InvitesAreUnused
    /\ \A r \in Request : KnowsUser(req[r])
    /\ \A r \in Request : KnowsInvite(req[r])
    /\ AdminRemains
    /\ InterviewersStay
    /\ InviteUsedOnce
=============================================================================
