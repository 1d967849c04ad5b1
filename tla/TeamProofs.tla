----------------------------- MODULE TeamProofs -----------------------------
(***************************************************************************)
(* Proofs about Team and Letters, the two parts of the settings pages.     *)
(*                                                                         *)
(* Team, for any number of users, addresses, invites and requests.  A      *)
(* commit leaves what the other requests know true, as long as nobody has  *)
(* committed over them (OthersKnow); the actions then only have to keep    *)
(* what relates the tables to each other.                                  *)
(*                                                                         *)
(* Letters, for any number of templates, letters, requests of the desk,    *)
(* texts, addresses and companies.  What a sender makes of a payload is    *)
(* proved once for every kind (RoundTrip, CheckedRenders, AsPreviewed,     *)
(* LinksApart).  A letter's step leaves the desk and the other letters     *)
(* alone (OneLetterMoves); a step of the desk leaves true what the letters *)
(* carry (LettersStayCarried) and what the other requests know             *)
(* (ClerksKnow), but for those it overtakes or crosses.                    *)
(***************************************************************************)
EXTENDS Office, FiniteSetTheorems, TLAPS


LEMMA AtMostOne ==
  ASSUME NEW S, \A x, y \in S : x = y
  PROVE  Cardinality(S) <= 1
<1>1. CASE S = {}
  BY <1>1, FS_EmptySet
<1>2. CASE S # {}
  <2>1. PICK x : x \in S
    BY <1>2
  <2>2. S = {x}
    BY <2>1
  <2> QED
    BY <2>2, FS_Singleton
<1> QED
  BY <1>1, <1>2

LEMMA IdleAsks == Idle \in Asking /\ Nobody \in Account
  BY DEF Idle, Asking, Nobody, Account, Role

\* The parts of the invariant.
LEMMA Parts ==
  ASSUME IInv
  PROVE  /\ TypeOK /\ TombstonesSleep /\ VersionsGrow /\ InvitesAreUnused
         /\ AdminRemains /\ InterviewersStay /\ InviteUsedOnce
         /\ \A r \in Request : KnowsUser(req[r]) /\ KnowsInvite(req[r])
  BY DEF IInv

LEMMA InitInv == Init => IInv
<1> SUFFICES ASSUME Init PROVE IInv
  OBVIOUS
<1> PICK b \in User, e \in Email :
       Start([v \in User |-> IF v = b THEN Member(e, "admin") ELSE Nobody])
  BY DEF Init
<1>1. /\ user = [v \in User |-> IF v = b THEN Member(e, "admin") ELSE Nobody]
      /\ issued = {<<u, 0>> : u \in {v \in User : user[v].active}}
      /\ invite = [i \in Invite |-> NoInvite]
      /\ interview = [u \in User |-> "none"] /\ links = {} /\ left = MaxRequests
      /\ req = [r \in Request |-> Idle]
      /\ ended = {} /\ made = [i \in Invite |-> 0] /\ revoked = {} /\ crossed = {}
      /\ revived = FALSE /\ returned = {}
  BY DEF Start
<1>2. /\ user[b] = Member(e, "admin") /\ \A v \in User \ {b} : user[v] = Nobody
      /\ Member(e, "admin") \in Account
      /\ issued = {<<b, 0>>}
  BY <1>1 DEF Member, Nobody, Account, Role
<1>3. TypeOK
  <2>1. user \in [User -> Account]
    BY <1>1, <1>2, IdleAsks
  <2>2. NoInvite \in [st : {"none", "fresh", "expired"}, email : Email \cup {"none"}, role : Role]
    BY DEF NoInvite, Role
  <2>3. issued \in SUBSET Session /\ \A s \in issued : Exists(s[1])
    BY <1>2, NamesAreReal DEF Session, Exists, Member
  <2>4. \A u \in User : ~Exists(u) => ~user[u].active
    BY <1>2, NamesAreReal DEF Exists, Member, Nobody
  <2>5. \A i \in Invite : invite[i].st = "none"
    BY <1>1 DEF NoInvite
  <2> QED
    BY <1>1, <2>1, <2>2, <2>3, <2>4, <2>5, IdleAsks, BoundIsNatural DEF TypeOK
<1>4. TombstonesSleep
  BY <1>2, NamesAreReal DEF TombstonesSleep, Tombstone, Member, Nobody
<1>5. VersionsGrow
  <2>1. \A s \in issued : s[2] <= user[s[1]].version
    BY <1>2 DEF Member
  <2> QED
    BY <1>1, <2>1 DEF VersionsGrow
<1>6. InvitesAreUnused /\ (\A r \in Request : KnowsUser(req[r]) /\ KnowsInvite(req[r]))
  BY <1>1 DEF InvitesAreUnused, NoInvite, KnowsUser, KnowsInvite, Idle, OnUser
<1>7. AdminRemains
  BY <1>2, NamesAreReal DEF AdminRemains, ActiveAdmins, Tombstone, Member
<1>8. InterviewersStay
  BY <1>1 DEF InterviewersStay
<1>9. InviteUsedOnce
  <2>1. \A u, v \in User : user[u].email = user[v].email /\ user[u].email \in Email => u = v
    BY <1>2, NamesAreReal DEF Nobody
  <2>2. \A x \in Email : Cardinality(InvitesOf(x)) <= 1
    BY <1>1, AtMostOne DEF InvitesOf, NoInvite
  <2> QED
    BY <1>1, <2>1, <2>2 DEF InviteUsedOnce
<1> QED
  BY <1>3, <1>4, <1>5, <1>6, <1>7, <1>8, <1>9 DEF IInv
-----------------------------------------------------------------------------
(***************************************************************************)
(* What a step leaves alone.                                               *)
(***************************************************************************)
\* Nothing is said to have crossed that had not.
LEMMA CrossedStays ==
  ASSUME crossed \subseteq crossed', NEW ops, NEW table, Crossed(ops, table)
  PROVE  Crossed(ops, table)'
  BY DEF Crossed

LEMMA UsersAlone ==
  ASSUME IInv, UNCHANGED <<user, issued, ended, revived>>, crossed \subseteq crossed'
  PROVE  TombstonesSleep' /\ VersionsGrow' /\ AdminRemains'
<1> USE Parts, CrossedStays
<1>1. TombstonesSleep'
  BY DEF TombstonesSleep, Tombstone
<1>2. VersionsGrow'
  BY DEF VersionsGrow
<1>3. AdminRemains'
  BY DEF AdminRemains, Outcounted, ActiveAdmins, Tombstone
<1> QED
  BY <1>1, <1>2, <1>3

LEMMA InvitesAlone ==
  ASSUME IInv, UNCHANGED <<invite, made, revoked>>, crossed \subseteq crossed',
         \A u, v \in User : user'[u].email = user'[v].email /\ user'[u].email \in Email => u = v
  PROVE  InvitesAreUnused' /\ InviteUsedOnce'
<1> USE Parts, CrossedStays
<1>1. InvitesAreUnused'
  BY DEF InvitesAreUnused
<1>2. \A e \in Email : Cardinality(InvitesOf(e)') <= 1
  BY DEF InviteUsedOnce, InvitesOf
<1>3. \A i \in Invite :
         \/ Crossed({"accept"}, "invites")' \/ Crossed({"accept"}, "users")'
         \/ made'[i] <= 1 /\ (made'[i] = 1 => invite'[i] = NoInvite /\ i \notin revoked')
  BY DEF InviteUsedOnce
<1> QED
  BY <1>1, <1>2, <1>3 DEF InviteUsedOnce

LEMMA TablesAre ==
  {"users"} \in SUBSET Table /\ {"invites"} \in SUBSET Table /\ {"interviews"} \in SUBSET Table
  BY DEF Table

\* A commit ends its request, and the others note it.
LEMMA StaleAsks ==
  ASSUME NEW q \in Asking, NEW tables \in SUBSET Table
  PROVE  /\ Stale(q, tables) \in Asking
         /\ Stale(q, tables) = Idle \/ Stale(q, tables) = [q EXCEPT !.over = @ \cup tables]
  BY IdleAsks DEF Stale, Asking

LEMMA CommitNoted ==
  ASSUME TypeOK, NEW r \in Request, NEW tables \in SUBSET Table, Commit(r, tables),
         req[r].op \in OnUser \cup OnInvite
  PROVE  /\ req' \in [Request -> Asking] /\ req'[r] = Idle
         /\ \A q \in Request : \/ req'[q] = Idle
                               \/ req'[q] = [req[q] EXCEPT !.over = @ \cup tables]
         /\ crossed \subseteq crossed'
         /\ crossed' \in SUBSET ((OnUser \cup OnInvite) \X Table)
         /\ \A t \in req[r].over : <<req[r].op, t>> \in crossed'
         /\ left' = left
<1>1. \A q \in Request : req[q] \in Asking
  BY DEF TypeOK
<1>2. req' = [q \in Request |-> IF q = r THEN Idle ELSE Stale(req[q], tables)]
  BY DEF Commit
<1>3. \A q \in Request : /\ Stale(req[q], tables) \in Asking
                         /\ \/ Stale(req[q], tables) = Idle
                            \/ Stale(req[q], tables) = [req[q] EXCEPT !.over = @ \cup tables]
  BY <1>1, StaleAsks
<1>4. req[r].over \in SUBSET Table
  BY <1>1 DEF Asking
<1>5. crossed' = crossed \cup ({req[r].op} \X req[r].over)
  BY DEF Commit
<1>6. left' = left
  BY DEF Commit
<1>7. req' \in [Request -> Asking] /\ req'[r] = Idle
  BY <1>2, <1>3, IdleAsks
<1> QED
  BY <1>2, <1>3, <1>4, <1>5, <1>6, <1>7 DEF TypeOK

\* What a request knows it still knows, of the tables nobody has committed to.
LEMMA AskerKnows ==
  ASSUME TypeOK, NEW r \in Request, KnowsUser(req[r]), KnowsInvite(req[r]),
         /\ req'[r].op = req[r].op /\ req'[r].pc = req[r].pc /\ req'[r].on = req[r].on
         /\ req'[r].seen = req[r].seen /\ req'[r].role = req[r].role
         /\ req'[r].active = req[r].active /\ req'[r].email = req[r].email
         /\ req'[r].invite = req[r].invite /\ req'[r].known = req[r].known
         /\ req[r].over \subseteq req'[r].over,
         \A u \in User : Exists(u) => Exists(u)',
         issued \subseteq issued',
         "users" \notin req'[r].over => user' = user,
         "admins" \notin req'[r].over => Outcounted' \/ ActiveAdmins \subseteq ActiveAdmins',
         Outcounted => Outcounted',
         "interviews" \notin req'[r].over => \A u \in User : Upcoming(u)' => Upcoming(u),
         Unseen => Unseen', returned \subseteq returned',
         "removed" \notin req'[r].over => \A u \in User : Tombstone(u)' => Tombstone(u),
         req'[r].over \cap {"users", "invites"} = {} =>
            \A i \in Invite : invite[i].st # "none" => invite'[i].st # "none",
         \A i \in Invite : made[i] # 0 => made'[i] # 0,
         revoked \subseteq revoked',
         \A i \in Invite : invite[i].st # "none" =>
            invite'[i].st # "none" \/ made'[i] # 0 \/ i \in revoked'
  PROVE  KnowsUser(req[r])' /\ KnowsInvite(req[r])'
<1> DEFINE o == req[r]
<1>1. MayTakeAway(req[r])' <=> MayTakeAway(o)
  BY DEF MayTakeAway, Removes
<1>2. o.op \in OnUser =>
        /\ o.on \in User /\ Exists(o.on)'
        /\ o.known \subseteq {s \in issued' : s[1] = o.on}
        /\ "users" \notin req'[r].over => user'[o.on] = o.seen
  BY DEF KnowsUser
<1>3. o.op \in {"update", "anonymize"} /\ MayTakeAway(o) /\ "admins" \notin req'[r].over =>
        Outcounted' \/ \E u \in ActiveAdmins' : u # o.on
  BY DEF KnowsUser
<1>4. o.op = "anonymize" /\ o.pc = "commit" /\ "interviews" \notin req'[r].over => ~Upcoming(o.on)'
  BY <1>2 DEF KnowsUser, OnUser
<1>5. o.op \in {"interview", "book"} /\ "removed" \notin req'[r].over =>
        Unseen' \/ o.on \in returned' \/ ~Tombstone(o.on)'
  BY <1>2 DEF KnowsUser, OnUser
<1>6. KnowsUser(req[r])'
  BY <1>1, <1>2, <1>3, <1>4, <1>5 DEF KnowsUser
<1>7. KnowsInvite(req[r])'
  BY DEF KnowsInvite
<1> QED
  BY <1>6, <1>7

\* A request nobody has committed over still knows the tables.
LEMMA OthersKnow ==
  ASSUME IInv, NEW r \in Request, NEW tables \in SUBSET Table, Commit(r, tables),
         req[r].op \in OnUser \cup OnInvite,
         \A u \in User : Exists(u) => Exists(u)',
         issued \subseteq issued',
         "users" \in tables \/ user' = user,
         "admins" \in tables \/ revived' \/ ActiveAdmins \subseteq ActiveAdmins',
         revived => revived', returned \subseteq returned',
         "interviews" \in tables \/ interview' = interview,
         "removed" \in tables \/ \A u \in User : Tombstone(u)' => Tombstone(u),
         tables \cap {"users", "invites"} # {} \/ invite' = invite,
         \A i \in Invite : made[i] # 0 => made'[i] # 0,
         revoked \subseteq revoked',
         \A i \in Invite : invite[i].st # "none" =>
            invite'[i].st # "none" \/ made'[i] # 0 \/ i \in revoked'
  PROVE  \A q \in Request : KnowsUser(req[q])' /\ KnowsInvite(req[q])'
<1> USE Parts
<1> SUFFICES ASSUME NEW q \in Request PROVE KnowsUser(req[q])' /\ KnowsInvite(req[q])'
  OBVIOUS
<1>1. CASE req'[q] = Idle
  BY <1>1 DEF KnowsUser, KnowsInvite, Idle, OnUser
<1>2. CASE req'[q] = [req[q] EXCEPT !.over = @ \cup tables]
  <2>1. req[q] \in Asking /\ KnowsUser(req[q]) /\ KnowsInvite(req[q])
    BY DEF TypeOK
  <2>2. (Outcounted => Outcounted') /\ (revived' => Outcounted') /\ (Unseen => Unseen')
    BY CommitNoted, CrossedStays DEF Outcounted, Unseen
  <2>3. /\ req'[q].op = req[q].op /\ req'[q].pc = req[q].pc /\ req'[q].on = req[q].on
        /\ req'[q].seen = req[q].seen /\ req'[q].role = req[q].role
        /\ req'[q].active = req[q].active /\ req'[q].email = req[q].email
        /\ req'[q].invite = req[q].invite /\ req'[q].known = req[q].known
        /\ req'[q].over = req[q].over \cup tables
    BY <1>2, <2>1 DEF Asking
  <2>4. "interviews" \in tables \/ \A u \in User : Upcoming(u)' => Upcoming(u)
    BY DEF Upcoming
  <2> QED
    BY <2>1, <2>2, <2>3, <2>4, AskerKnows
<1> QED
  BY <1>1, <1>2, CommitNoted

\* A request that begins, is refused or goes on.
LEMMA RequestMoves ==
  ASSUME IInv, NEW r \in Request, NEW q \in Asking, req' = [req EXCEPT ![r] = q],
         KnowsUser(q), KnowsInvite(q), left' \in Nat,
         UNCHANGED <<db, issued, links, history>>
  PROVE  IInv'
<1> USE Parts
<1>1. UNCHANGED <<user, invite, interview, issued, links, ended, made, revoked, crossed, revived, returned>>
  BY DEF db, history
<1>2. TypeOK'
  BY <1>1 DEF TypeOK, Exists
<1>3. ASSUME NEW p \in Request PROVE KnowsUser(req[p])' /\ KnowsInvite(req[p])'
  <2>1. req'[p] = q \/ req'[p] = req[p]
    BY DEF TypeOK
  <2> QED
    BY <1>1, <2>1 DEF KnowsUser, KnowsInvite, Exists, Removes, MayTakeAway, ActiveAdmins, Outcounted,
                      Unseen, Upcoming, Tombstone, Crossed
<1>4. InterviewersStay'
  BY <1>1, CrossedStays DEF InterviewersStay, Unseen, Tombstone
<1> QED
  BY <1>1, <1>2, <1>3, <1>4, UsersAlone, InvitesAlone DEF IInv, InviteUsedOnce

LEMMA RefuseInv ==
  ASSUME IInv, NEW r \in Request, Refuse(r)
  PROVE  IInv'
<1>1. KnowsUser(Idle) /\ KnowsInvite(Idle)
  BY DEF KnowsUser, KnowsInvite, Idle, OnUser
<1>2. left' \in Nat
  BY Parts DEF Refuse, TypeOK
<1> QED
  BY <1>1, <1>2, IdleAsks, RequestMoves DEF Refuse

LEMMA GoOnInv ==
  ASSUME IInv, NEW r \in Request, GoOn(r),
         LET q == [req[r] EXCEPT !.pc = "commit"] IN KnowsUser(q) /\ KnowsInvite(q)
  PROVE  IInv'
<1> DEFINE q == [req[r] EXCEPT !.pc = "commit"]
<1>1. req[r] \in Asking /\ q \in Asking
  BY Parts DEF TypeOK, Asking
<1>2. req' = [req EXCEPT ![r] = q] /\ UNCHANGED <<db, issued, links, left, history>>
  BY DEF GoOn
<1>3. left' \in Nat
  BY <1>2, Parts DEF TypeOK
<1> HIDE DEF q
<1>4. KnowsUser(q) /\ KnowsInvite(q)
  BY DEF q
<1> QED
  BY <1>1, <1>2, <1>3, <1>4, RequestMoves

LEMMA BeginInv ==
  ASSUME IInv, NEW r \in Request, NEW q \in Asking, Begin(r, q), KnowsUser(q), KnowsInvite(q)
  PROVE  IInv'
<1>1. left' \in Nat
  BY Parts DEF Begin, TypeOK
<1> QED
  BY <1>1, RequestMoves DEF Begin
-----------------------------------------------------------------------------
(***************************************************************************)
(* Requests that begin, are checked or are refused.                        *)
(***************************************************************************)
\* A request about a user, as it was loaded.
LEMMA AboutKnows ==
  ASSUME IInv, NEW op \in OnUser, NEW u \in User, Exists(u),
         op = "interview" => user[u].active,
         op = "book" => Upcoming(u)
  PROVE  /\ About(op, u) \in Asking /\ KnowsUser(About(op, u)) /\ KnowsInvite(About(op, u))
         /\ op \in {"interview", "book"} => Unseen \/ u \in returned \/ ~Tombstone(u)
<1> DEFINE a == About(op, u)
<1>1. a \in Asking
  <2>1. user[u] \in Account /\ {s \in issued : s[1] = u} \in SUBSET Session
    BY Parts DEF TypeOK
  <2> QED
    BY <2>1, IdleAsks DEF About, Asking
<1>2. /\ a.op = op /\ a.pc = "check" /\ a.on = u /\ a.seen = user[u]
      /\ a.known = {s \in issued : s[1] = u} /\ a.invite = "none"
  BY DEF About, Idle
<1>3. op \notin OnInvite
  BY DEF OnUser, OnInvite
<1> HIDE DEF a
<1>4. MayTakeAway(a) => Outcounted \/ \E v \in ActiveAdmins : v # u
  BY <1>2, Parts DEF MayTakeAway, ActiveAdmins, AdminRemains
<1>5. op \in {"interview", "book"} => Unseen \/ u \in returned \/ ~Tombstone(u)
  <2>1. CASE op = "interview"
    BY <2>1, Parts DEF TombstonesSleep, Unseen
  <2>2. CASE op = "book"
    BY <2>2, Parts DEF InterviewersStay, Upcoming
  <2> QED
    BY <2>1, <2>2
<1>6. KnowsUser(a)
  BY <1>2, <1>4, <1>5 DEF KnowsUser
<1>7. KnowsInvite(a)
  BY <1>2, <1>3 DEF KnowsInvite, OnInvite
<1> QED
  BY <1>1, <1>5, <1>6, <1>7 DEF a

LEMMA LoadUserInv ==
  ASSUME IInv, NEW r \in Request, NEW u \in User,
         \/ \E role \in Role \cup {"same"}, active \in {"yes", "no", "same"} :
              LoadUpdate(r, u, role, active)
         \/ LoadAnonymize(r, u) \/ LoadInterview(r, u) \/ LoadBook(r, u) \/ LoadSignOut(r, u)
  PROVE  IInv'
<1> USE Parts, AboutKnows
<1>1. ASSUME NEW role \in Role \cup {"same"}, NEW active \in {"yes", "no", "same"},
             LoadUpdate(r, u, role, active)
      PROVE  IInv'
  <2> DEFINE a == About("update", u)
             q == [a EXCEPT !.role = role, !.active = active]
  <2>1. Exists(u) /\ Begin(r, q)
    BY <1>1 DEF LoadUpdate
  <2>2. a \in Asking /\ KnowsUser(a) /\ KnowsInvite(a) /\ a.op = "update" /\ a.pc = "check"
    BY <2>1 DEF OnUser, About, Idle
  <2> HIDE DEF a
  <2>3. /\ q \in Asking /\ q.op = "update" /\ q.pc = "check"
        /\ q.on = a.on /\ q.seen = a.seen /\ q.known = a.known /\ q.over = a.over
    BY <2>2 DEF Asking
  <2> HIDE DEF q
  <2>4. KnowsUser(q) /\ KnowsInvite(q)
    BY <2>2, <2>3 DEF KnowsUser, KnowsInvite, MayTakeAway
  <2> QED
    BY <2>1, <2>3, <2>4, BeginInv
<1>2. CASE LoadAnonymize(r, u)
  <2>1. Exists(u) /\ Begin(r, About("anonymize", u))
    BY <1>2 DEF LoadAnonymize
  <2> QED
    BY <2>1, BeginInv DEF OnUser
<1>3. ASSUME NEW op \in {"interview", "book", "signout"}, Exists(u),
             op = "interview" => user[u].active, op = "book" => Upcoming(u),
             Begin(r, [About(op, u) EXCEPT !.pc = "commit"])
      PROVE  IInv'
  <2> DEFINE a == About(op, u)
             q == [a EXCEPT !.pc = "commit"]
  <2>1. a \in Asking /\ KnowsUser(a) /\ KnowsInvite(a) /\ a.op = op
    BY <1>3 DEF OnUser, About, Idle
  <2>2. Begin(r, q)
    BY <1>3
  <2> HIDE DEF a
  <2>3. q \in Asking /\ KnowsUser(q) /\ KnowsInvite(q)
    BY <2>1 DEF Asking, KnowsUser, KnowsInvite
  <2> QED
    BY <2>2, <2>3, BeginInv
<1>4. CASE LoadInterview(r, u)
  BY <1>3, <1>4 DEF LoadInterview, TypeOK
<1>5. CASE LoadBook(r, u)
  BY <1>3, <1>5 DEF LoadBook, Upcoming, TypeOK
<1>6. CASE LoadSignOut(r, u)
  BY <1>3, <1>6 DEF LoadSignOut, SignedIn, TypeOK
<1> QED
  BY <1>1, <1>2, <1>4, <1>5, <1>6

LEMMA LoadResetInv ==
  ASSUME IInv, NEW r \in Request, NEW l \in links, LoadReset(r, l)
  PROVE  IInv'
<1> DEFINE a == About("signout", l[1])
           q == [a EXCEPT !.pc = "commit"]
<1>1. l[1] \in User /\ Exists(l[1]) /\ Begin(r, q)
  BY Parts DEF LoadReset, TypeOK, Session
<1>2. a \in Asking /\ KnowsUser(a) /\ KnowsInvite(a) /\ a.op = "signout"
  BY <1>1, AboutKnows DEF OnUser, About, Idle
<1> HIDE DEF a
<1>3. q \in Asking /\ KnowsUser(q) /\ KnowsInvite(q)
  BY <1>2 DEF Asking, KnowsUser, KnowsInvite
<1> QED
  BY <1>1, <1>3, BeginInv

LEMMA LoadCreateInv ==
  ASSUME IInv, NEW r \in Request, NEW op \in {"create", "invite"}, NEW e \in Email,
         NEW role \in Role, LoadCreate(r, op, e, role)
  PROVE  IInv'
<1> DEFINE q == [Idle EXCEPT !.op = op, !.pc = "check", !.email = e, !.role = role]
<1>1. q \in Asking
  BY IdleAsks DEF Asking, OnInvite
<1>2. q.op = op /\ q.email = e /\ q.role = role /\ q.invite = "none"
  BY DEF Idle
<1>3. Begin(r, q)
  BY DEF LoadCreate
<1> HIDE DEF q
<1>4. KnowsUser(q) /\ KnowsInvite(q)
  BY <1>2, NamesAreReal DEF KnowsUser, KnowsInvite, OnUser
<1> QED
  BY <1>1, <1>3, <1>4, BeginInv

LEMMA LoadInviteInv ==
  ASSUME IInv, NEW r \in Request, NEW op \in {"resend", "revoke", "accept"}, NEW i \in Invite,
         LoadInvite(r, op, i)
  PROVE  IInv'
<1> DEFINE pc == IF op = "accept" THEN "check" ELSE "commit"
           q == [Idle EXCEPT !.op = op, !.pc = pc,
                             !.email = invite[i].email, !.role = invite[i].role, !.invite = i]
<1>1. /\ invite[i].st # "none" /\ invite[i].email \in Email /\ invite[i].role \in Role
      /\ pc \in {"check", "commit"}
  BY Parts DEF LoadInvite, TypeOK
<1>2. Begin(r, q)
  BY DEF LoadInvite
<1> HIDE DEF pc
<1>3. q \in Asking
  BY <1>1, IdleAsks DEF Asking, OnInvite
<1>4. q.op = op /\ q.email = invite[i].email /\ q.role = invite[i].role /\ q.invite = i
  BY DEF Idle
<1> HIDE DEF q
<1>5. KnowsUser(q) /\ KnowsInvite(q)
  BY <1>1, <1>4 DEF KnowsUser, KnowsInvite, OnUser
<1> QED
  BY <1>2, <1>3, <1>5, BeginInv

LEMMA CheckRemovalInv ==
  ASSUME IInv, NEW r \in Request, CheckRemoval(r)
  PROVE  IInv'
<1> DEFINE q == [req[r] EXCEPT !.pc = "commit"]
<1>1. CASE Refuse(r)
  BY <1>1, RefuseInv
<1>2. CASE /\ GoOn(r)
           /\ Removes(req[r]) => ~(Cardinality(ActiveAdmins) <= 1)
           /\ req[r].op = "anonymize" => ~Upcoming(req[r].on)
  <2>1. /\ req[r] \in Asking /\ KnowsUser(req[r]) /\ KnowsInvite(req[r])
        /\ req[r].op \in {"update", "anonymize"}
    BY Parts DEF CheckRemoval, TypeOK
  <2>2. /\ q.op = req[r].op /\ q.on = req[r].on /\ q.seen = req[r].seen /\ q.known = req[r].known
        /\ q.over = req[r].over /\ q.role = req[r].role /\ q.active = req[r].active
        /\ q.email = req[r].email /\ q.invite = req[r].invite
    BY <2>1 DEF Asking
  <2> HIDE DEF q
  <2>3. Removes(q) => \E v \in ActiveAdmins : v # q.on
    <3>1. Removes(q) <=> Removes(req[r])
      BY <2>2 DEF Removes
    <3>2. Removes(req[r]) => ~(Cardinality(ActiveAdmins) <= 1)
      BY <1>2
    <3> QED
      BY <3>1, <3>2, AtMostOne
  <2>4. MayTakeAway(q) => Removes(q) \/ MayTakeAway(req[r])
    BY <2>2 DEF MayTakeAway
  <2>5. KnowsUser(q) /\ KnowsInvite(q)
    BY <1>2, <2>1, <2>2, <2>3, <2>4 DEF KnowsUser, KnowsInvite, OnInvite
  <2> QED
    BY <1>2, <2>5, GoOnInv DEF q
<1> QED
  BY <1>1, <1>2 DEF CheckRemoval

LEMMA CheckAddressInv ==
  ASSUME IInv, NEW r \in Request, CheckAddress(r)
  PROVE  IInv'
<1> DEFINE q == [req[r] EXCEPT !.pc = "commit"]
<1>1. /\ req[r] \in Asking /\ KnowsUser(req[r]) /\ KnowsInvite(req[r])
      /\ req[r].op \in {"create", "accept", "invite"}
  BY Parts DEF CheckAddress, TypeOK
<1>2. CASE Refuse(r)
  BY <1>2, RefuseInv
<1>3. CASE GoOn(r)
  <2>1. /\ q.op = req[r].op /\ q.role = req[r].role /\ q.over = req[r].over
        /\ q.email = req[r].email /\ q.invite = req[r].invite
    BY <1>1 DEF Asking
  <2> HIDE DEF q
  <2>2. KnowsUser(q) /\ KnowsInvite(q)
    BY <1>1, <2>1 DEF KnowsUser, KnowsInvite, OnUser
  <2> QED
    BY <1>3, <2>2, GoOnInv DEF q
<1>4. ASSUME req[r].op = "invite", NEW i \in InvitesOf(req[r].email),
             req' = [req EXCEPT ![r] = [@ EXCEPT !.pc = "commit", !.invite = i]],
             UNCHANGED <<db, issued, links, left, history>>
      PROVE  IInv'
  <2> DEFINE n == [req[r] EXCEPT !.pc = "commit", !.invite = i]
  <2>1. i \in Invite /\ invite[i].st # "none"
    BY <1>4 DEF InvitesOf
  <2>2. n \in Asking /\ n.op = "invite" /\ n.email = req[r].email /\ n.role = req[r].role /\ n.invite = i
    BY <1>1, <1>4, <2>1 DEF Asking
  <2>3. req' = [req EXCEPT ![r] = n]
    BY <1>4, Parts DEF TypeOK
  <2> HIDE DEF n
  <2>4. KnowsUser(n) /\ KnowsInvite(n)
    BY <1>1, <1>4, <2>1, <2>2 DEF KnowsUser, KnowsInvite, OnUser
  <2>5. left' \in Nat
    BY <1>4, Parts DEF TypeOK
  <2> QED
    BY <1>4, <2>2, <2>3, <2>4, <2>5, RequestMoves
<1> QED
  BY <1>2, <1>3, <1>4 DEF CheckAddress
-----------------------------------------------------------------------------
(***************************************************************************)
(* Commits to the users table.                                             *)
(***************************************************************************)
\* A commit to the row of a user that has an account.  If nobody has committed to
\* the table in between, the version is the loaded one or the next, the next when
\* sessions end; an admin is taken away only by a request that knows of another,
\* if nobody has taken one away in between.
LEMMA RowCommitInv ==
  ASSUME IInv, NEW r \in Request, NEW tables \in SUBSET Table, Commit(r, tables),
         "users" \in tables,
         req[r].op \in {"update", "anonymize", "signout"}, req[r].pc = "commit",
         NEW new \in Account, user' = [user EXCEPT ![req[r].on] = new],
         UNCHANGED <<invite, interview, links, made, revoked, returned>>,
         revived' \in BOOLEAN, revived => revived',
         revived' \/ new.email # "deleted" \/ ~new.active,
         new.email \in {user[req[r].on].email, "deleted"},
         new.email = "deleted" => Tombstone(req[r].on) \/ req[r].op = "anonymize",
         ended' \in {ended, ended \cup req[r].known},
         issued' \in {issued, issued \cup {<<req[r].on, req[r].seen.version + 1>>}},
         issued' # issued => new.version = req[r].seen.version + 1,
         "users" \notin req[r].over =>
            /\ new.version \in {user[req[r].on].version, req[r].seen.version + 1}
            /\ ended' = ended \/ new.version = req[r].seen.version + 1,
         req[r].op = "signout" =>
            /\ new.role = user[req[r].on].role /\ new.active = user[req[r].on].active
            /\ new.email = user[req[r].on].email,
         "removed" \in tables \/ new.email # "deleted" \/ Tombstone(req[r].on),
         "admins" \in tables \/ req[r].on \notin ActiveAdmins \/ (new.role = "admin" /\ new.active),
         req[r].op # "signout" =>
            \/ MayTakeAway(req[r]) \/ req[r].on \notin ActiveAdmins
            \/ new.role = "admin" /\ new.active
  PROVE  IInv'
<1> DEFINE q == req[r]
           u == q.on
<1> USE Parts
<1>1. /\ q \in Asking /\ KnowsUser(q) /\ u \in User /\ Exists(u)
      /\ q.known \subseteq {s \in issued : s[1] = u}
      /\ "users" \notin q.over => user[u] = q.seen
      /\ q.op \in OnUser /\ q.op \in OnUser \cup OnInvite
  BY DEF TypeOK, KnowsUser, OnUser
<1>2. /\ req' \in [Request -> Asking] /\ crossed \subseteq crossed' /\ left' = left
      /\ crossed' \in SUBSET ((OnUser \cup OnInvite) \X Table)
      /\ "users" \in q.over => <<q.op, "users">> \in crossed'
      /\ "admins" \in q.over => <<q.op, "admins">> \in crossed'
      /\ "interviews" \in q.over => <<q.op, "interviews">> \in crossed'
  BY <1>1, CommitNoted
<1>3. /\ user' \in [User -> Account] /\ user'[u] = new
      /\ \A v \in User \ {u} : user'[v] = user[v]
  BY <1>1 DEF TypeOK
<1>4. /\ user[u] \in Account /\ q.seen \in Account /\ q.seen.version \in Nat /\ new.version \in Nat
      /\ user[u].version \in Nat /\ user[u].email # "none" /\ new.email # "none"
      /\ q.seen.version + 1 \in Nat
  BY <1>1, NamesAreReal DEF TypeOK, Account, Asking, Exists
<1>5. \A v \in User : (Exists(v) => Exists(v)') /\ (~Exists(v)' => ~Exists(v) /\ v # u)
  BY <1>3, <1>4 DEF Exists
<1> HIDE DEF q, u
<1>6. issued \subseteq issued' /\ issued' \in SUBSET Session /\ ended' \in SUBSET issued'
  <2>1. issued' \subseteq issued \cup {<<u, q.seen.version + 1>>} /\ issued \subseteq issued'
    BY DEF q, u
  <2>2. <<u, q.seen.version + 1>> \in Session
    BY <1>1, <1>4 DEF Session
  <2>3. ended' \subseteq ended \cup q.known
    BY DEF q
  <2> QED
    BY <1>1, <2>1, <2>2, <2>3 DEF TypeOK
<1>7. \A s \in issued' \cup links' : Exists(s[1])'
  <2>1. \A s \in issued \cup links : s[1] \in User /\ Exists(s[1])
    BY DEF TypeOK, Session
  <2>2. \A s \in issued' \cup links' : s \in issued \cup links \/ s = <<u, q.seen.version + 1>>
    BY DEF q, u
  <2> QED
    BY <1>1, <1>5, <2>1, <2>2
<1>8. TypeOK'
  <2>1. \A v \in User : ~Exists(v)' => ~user'[v].active
    BY <1>3, <1>5 DEF TypeOK
  <2>2. \A v \in User : interview'[v] # "none" => Exists(v)'
    BY <1>5 DEF TypeOK
  <2> QED
    BY <1>2, <1>3, <1>6, <1>7, <2>1, <2>2 DEF TypeOK
<1>9. \A p \in Request : KnowsUser(req[p])' /\ KnowsInvite(req[p])'
  <2>1. "admins" \in tables \/ ActiveAdmins \subseteq ActiveAdmins'
    BY <1>3 DEF ActiveAdmins, u, q
  <2>2. "removed" \in tables \/ \A v \in User : Tombstone(v)' => Tombstone(v)
    BY <1>3 DEF Tombstone, u, q
  <2> QED
    BY <1>1, <1>5, <1>6, <2>1, <2>2, OthersKnow DEF q
<1>10. TombstonesSleep'
  BY <1>1, <1>3 DEF TombstonesSleep, Tombstone, q, u
<1>11. VersionsGrow'
  <2>1. CASE Crossed({"update", "anonymize", "signout"}, "users")
    BY <1>2, <2>1, CrossedStays DEF VersionsGrow
  <2>2. CASE "users" \in q.over
    BY <1>2, <2>2 DEF VersionsGrow, Crossed, q
  <2>3. CASE "users" \notin q.over /\ ~Crossed({"update", "anonymize", "signout"}, "users")
    <3>1. /\ user[u] = q.seen /\ new.version \in {q.seen.version, q.seen.version + 1}
          /\ ended' = ended \/ new.version = q.seen.version + 1
      BY <1>1, <2>3 DEF q, u
    <3>2. /\ \A s \in issued : s \in Session /\ s[2] \in Nat /\ s[1] \in User /\ s[2] <= user[s[1]].version
          /\ \A s \in ended : s \in issued /\ s[2] < user[s[1]].version
      BY <2>3 DEF VersionsGrow, TypeOK, Session
    <3>3. \A v \in User : user[v].version \in Nat /\ user'[v].version \in Nat /\ user[v].version <= user'[v].version
      BY <1>3, <1>4, <3>1 DEF TypeOK, Account
    <3>4. \A s \in issued : s[2] <= user'[s[1]].version
      BY <3>2, <3>3
    <3>5. \A s \in issued' : s[2] <= user'[s[1]].version
      <4>1. \A s \in issued' : s \in issued \/ (s = <<u, q.seen.version + 1>> /\ new.version = q.seen.version + 1)
        BY DEF q, u
      <4> QED
        BY <1>3, <1>4, <3>4, <4>1
    <3>6. \A s \in ended : s[2] < user'[s[1]].version
      BY <3>2, <3>3
    <3>7. ASSUME NEW s \in ended', s \notin ended PROVE s[2] < user'[s[1]].version
      <4>1. s \in q.known /\ new.version = q.seen.version + 1
        BY <3>1, <3>7 DEF q
      <4>2. s \in issued /\ s[1] = u
        BY <1>1, <4>1
      <4> QED
        BY <1>3, <1>4, <3>1, <3>2, <4>1, <4>2
    <3> QED
      BY <3>5, <3>6, <3>7 DEF VersionsGrow
  <2> QED
    BY <2>1, <2>2, <2>3
<1>12. AdminRemains'
  <2>1. CASE Outcounted \/ revived'
    BY <1>2, <2>1, CrossedStays DEF AdminRemains, Outcounted
  <2>2. CASE q.op # "signout" /\ "admins" \in q.over
    BY <1>1, <1>2, <2>2 DEF AdminRemains, Outcounted, Crossed, q
  <2>3. CASE ~Outcounted /\ ~revived' /\ (q.op = "signout" \/ "admins" \notin q.over)
    <3>1. ~revived /\ \A a \in ActiveAdmins : ~Tombstone(a)
      BY <2>3 DEF TombstonesSleep, ActiveAdmins, Outcounted
    <3>2. \E a \in ActiveAdmins : a # u \/ (new.role = "admin" /\ new.active /\ new.email # "deleted")
      <4>1. CASE q.op = "signout"
        <5>1. PICK a \in ActiveAdmins : ~Tombstone(a)
          BY <2>3 DEF AdminRemains
        <5> QED
          BY <4>1, <5>1 DEF ActiveAdmins, Tombstone, q, u
      <4>2. CASE q.op # "signout" /\ MayTakeAway(q)
        BY <1>1, <2>3, <4>2 DEF KnowsUser, q, u
      <4>3. CASE u \notin ActiveAdmins
        BY <2>3, <4>3 DEF AdminRemains
      <4>4. CASE u \in ActiveAdmins /\ new.role = "admin" /\ new.active
        BY <2>3, <4>4 DEF q, u
      <4> QED
        BY <4>1, <4>2, <4>3, <4>4 DEF q, u
    <3>3. PICK a \in ActiveAdmins : a # u \/ (new.role = "admin" /\ new.active /\ new.email # "deleted")
      BY <3>2
    <3>4. a \in ActiveAdmins' /\ ~Tombstone(a)'
      BY <1>3, <3>1, <3>3 DEF ActiveAdmins, Tombstone
    <3> QED
      BY <3>4 DEF AdminRemains
  <2> QED
    BY <2>1, <2>2, <2>3
<1>13. InterviewersStay'
  <2>1. CASE Unseen
    BY <1>2, <2>1, CrossedStays DEF InterviewersStay, Unseen
  <2>2. CASE q.op = "anonymize" /\ "interviews" \in q.over
    BY <1>2, <2>2 DEF InterviewersStay, Unseen, Crossed
  <2>3. CASE ~Unseen /\ (q.op = "anonymize" => "interviews" \notin q.over)
    <3>1. interview[u] \in {"pending", "booked"} /\ new.email = "deleted" => Tombstone(u)
      BY <1>1, <2>3 DEF KnowsUser, Upcoming, q, u
    <3> QED
      BY <1>3, <2>3, <3>1 DEF InterviewersStay, Tombstone
  <2> QED
    BY <2>1, <2>2, <2>3
<1>14. InvitesAreUnused' /\ InviteUsedOnce'
  <2>1. \A v \in User : user'[v].email \in Email => user'[v].email = user[v].email
    BY <1>3, NamesAreReal DEF q, u
  <2>2. \A v, w \in User : user'[v].email = user'[w].email /\ user'[v].email \in Email => v = w
    BY <2>1 DEF InviteUsedOnce
  <2> QED
    BY <1>2, <2>2, InvitesAlone
<1> QED
  BY <1>8, <1>9, <1>10, <1>11, <1>12, <1>13, <1>14 DEF IInv

LEMMA UpdateUserInv ==
  ASSUME IInv, NEW r \in Request, UpdateUser(r)
  PROVE  IInv'
<1> USE Parts
<1> DEFINE q == req[r]
           u == q.on
           role == IF q.role = "same" THEN q.seen.role ELSE q.role
           active == IF q.active = "same" THEN q.seen.active ELSE q.active = "yes"
           new == Updated(q)
<1>1. /\ q \in Asking /\ KnowsUser(q) /\ q.op = "update" /\ q.pc = "commit"
      /\ u \in User /\ Exists(u) /\ user[u] \in Account /\ q.seen \in Account
  BY DEF UpdateUser, At, KnowsUser, OnUser, TypeOK, Asking
<1>2. /\ Commit(r, Touched(u, new))
      /\ user' = [user EXCEPT ![u] = new]
      /\ ended' = IF q.active = "no" THEN ended \cup q.known ELSE ended
      /\ revived' = (revived \/ (Tombstone(u) /\ user'[u].active))
      /\ UNCHANGED <<invite, interview, issued, links, made, revoked, returned>>
  BY DEF UpdateUser
<1>3. role \in Role /\ active \in BOOLEAN /\ VersionAfter(q) \in Nat
  <2>1. role \in Role
    BY <1>1 DEF Asking, Account
  <2>2. active \in BOOLEAN
    BY <1>1 DEF Asking, Account
  <2>3. VersionAfter(q) \in Nat
    BY <1>1 DEF Account, VersionAfter, NextVersion
  <2> QED
    BY <2>1, <2>2, <2>3
<1>4. /\ new \in Account /\ new.email = user[u].email
      /\ new.role = Written(user[u].role, q.seen.role, role)
      /\ new.active = Written(user[u].active, q.seen.active, active)
      /\ new.version = VersionAfter(q)
  <2>1. new = [user[u] EXCEPT !.role = Written(user[u].role, q.seen.role, role),
                              !.active = Written(user[u].active, q.seen.active, active),
                              !.version = VersionAfter(q)]
    BY DEF Updated
  <2> HIDE DEF new, role, active
  <2> QED
    BY <1>1, <1>3, <2>1 DEF Account, Written
<1>5. user'[u] = new
  BY <1>1, <1>2 DEF TypeOK
<1> HIDE DEF new, role, active
<1>6. revived' \in BOOLEAN /\ (revived => revived') /\ (revived' \/ new.email # "deleted" \/ ~new.active)
  BY <1>2, <1>4, <1>5 DEF TypeOK, Tombstone
<1>7. "users" \notin q.over =>
         /\ new.version \in {user[u].version, q.seen.version + 1}
         /\ ended' = ended \/ new.version = q.seen.version + 1
  BY <1>2, <1>4 DEF VersionAfter, NextVersion
<1>8. MayTakeAway(q) \/ u \notin ActiveAdmins \/ (new.role = "admin" /\ new.active)
  <2> SUFFICES ASSUME u \in ActiveAdmins, ~MayTakeAway(q)
               PROVE  new.role = "admin" /\ new.active
    OBVIOUS
  <2>1. q.seen.role = "admin" /\ q.seen.active /\ user[u].role = "admin" /\ user[u].active
    BY <1>1 DEF MayTakeAway, ActiveAdmins
  <2>2. q.role # "member" /\ q.active # "no"
    BY <1>1, <2>1 DEF MayTakeAway, Removes
  <2>3. role = "admin" /\ active = TRUE
    BY <1>1, <2>1, <2>2 DEF role, active, Asking, Role, Account
  <2> QED
    BY <1>4, <2>1, <2>3 DEF Written
<1>9. /\ Touched(u, new) \in SUBSET Table /\ "users" \in Touched(u, new)
      /\ "admins" \in Touched(u, new) \/ u \notin ActiveAdmins \/ (new.role = "admin" /\ new.active)
  BY DEF Touched, Table
<1> QED
  BY <1>1, <1>2, <1>4, <1>6, <1>7, <1>8, <1>9, RowCommitInv DEF Tombstone

LEMMA AnonymizeInv ==
  ASSUME IInv, NEW r \in Request, Anonymize(r)
  PROVE  IInv'
<1> USE Parts
<1> DEFINE q == req[r]
           u == q.on
           new == Removed(q)
<1>1. /\ q \in Asking /\ KnowsUser(q) /\ q.op = "anonymize" /\ q.pc = "commit"
      /\ u \in User /\ Exists(u) /\ user[u] \in Account /\ q.seen \in Account
  BY DEF Anonymize, At, KnowsUser, OnUser, TypeOK, Asking
<1>2. /\ Commit(r, Touched(u, new) \cup {"removed"})
      /\ user' = [user EXCEPT ![u] = new]
      /\ ended' = ended \cup q.known
      /\ revived' = (revived \/ user'[u].active)
      /\ UNCHANGED <<invite, interview, issued, links, made, revoked, returned>>
  BY DEF Anonymize
<1>3. /\ new \in Account /\ new.email = "deleted" /\ new.version = q.seen.version + 1
  <2>1. NextVersion(q) \in Nat /\ NextVersion(q) = q.seen.version + 1
    BY <1>1 DEF Account, NextVersion
  <2>2. Written(user[u].active, q.seen.active, FALSE) \in BOOLEAN
    BY <1>1 DEF Account, Written
  <2> QED
    BY <1>1, <2>1, <2>2 DEF Account, Removed
<1>4. user'[u] = new
  BY <1>1, <1>2 DEF TypeOK
<1> HIDE DEF new
<1>5. revived' \in BOOLEAN /\ (revived => revived') /\ (revived' \/ ~new.active)
  BY <1>2, <1>3, <1>4 DEF TypeOK, Account
<1>6. MayTakeAway(q)
  BY <1>1 DEF MayTakeAway, Removes
<1> DEFINE tables == Touched(u, new) \cup {"removed"}
<1>7. /\ tables \in SUBSET Table /\ "users" \in tables /\ "removed" \in tables
      /\ "admins" \in tables \/ u \notin ActiveAdmins \/ (new.role = "admin" /\ new.active)
      /\ Commit(r, tables)
  BY <1>2 DEF Touched, Table
<1> HIDE DEF tables
<1> QED
  BY <1>1, <1>2, <1>3, <1>5, <1>6, <1>7, RowCommitInv

LEMMA SetVersionInv ==
  ASSUME IInv, NEW r \in Request, SetVersion(r)
  PROVE  IInv'
<1> USE Parts
<1> DEFINE q == req[r]
           u == q.on
           new == [user[u] EXCEPT !.version = NextVersion(q)]
<1>1. /\ q \in Asking /\ KnowsUser(q) /\ q.op = "signout" /\ q.pc = "commit"
      /\ u \in User /\ Exists(u) /\ user[u] \in Account /\ q.seen \in Account
  BY DEF SetVersion, At, KnowsUser, OnUser, TypeOK, Asking
<1>2. /\ Commit(r, {"users"})
      /\ user' = [user EXCEPT ![u] = new]
      /\ issued' = issued \cup {<<u, q.seen.version + 1>>}
      /\ ended' = ended \cup q.known
      /\ UNCHANGED <<invite, interview, links, made, revoked, revived, returned>>
  BY DEF SetVersion, NextVersion
<1>3. /\ new \in Account /\ new.version = q.seen.version + 1
      /\ new.email = user[u].email /\ new.role = user[u].role /\ new.active = user[u].active
  BY <1>1 DEF Account, NextVersion
<1> HIDE DEF new
<1>4. revived' \in BOOLEAN /\ (revived' \/ new.email # "deleted" \/ ~new.active)
  BY <1>1, <1>2, <1>3 DEF TypeOK, TombstonesSleep, Tombstone
<1>5. {"users"} \in SUBSET Table /\ (u \notin ActiveAdmins \/ (new.role = "admin" /\ new.active))
  BY <1>3 DEF Table, ActiveAdmins
<1> QED
  BY <1>1, <1>2, <1>3, <1>4, <1>5, RowCommitInv DEF Tombstone

\* A new account: in a row that had none, for an address that had none.
LEMMA NewAccount ==
  ASSUME IInv, NEW r \in Request, Commit(r, {"users"}), req[r].op \in {"create", "accept"},
         NEW u \in User, ~Exists(u), ~Taken(req[r].email),
         user' = [user EXCEPT ![u] = Member(req[r].email, req[r].role)],
         issued' \in {issued, issued \cup {<<u, 0>>}},
         UNCHANGED <<interview, links, ended, revived, returned>>
  PROVE  /\ user' \in [User -> Account] /\ issued' \in SUBSET Session
         /\ \A v \in User : Exists(v) => Exists(v)'
         /\ \A v \in User : ~Exists(v)' => ~user'[v].active
         /\ \A s \in issued' \cup links' : Exists(s[1])'
         /\ ActiveAdmins \subseteq ActiveAdmins' /\ \A v \in User : Tombstone(v)' => Tombstone(v)
         /\ TombstonesSleep' /\ VersionsGrow' /\ AdminRemains' /\ InterviewersStay'
         /\ \A v, w \in User : user'[v].email = user'[w].email /\ user'[v].email \in Email => v = w
<1> USE Parts
<1> DEFINE e == req[r].email
           new == Member(e, req[r].role)
<1>1. e \in Email /\ req[r].role \in Role /\ e # "none" /\ e # "deleted"
  BY NamesAreReal DEF KnowsInvite
<1>2. new \in Account /\ new.email = e /\ new.version = 0 /\ new.active
  BY <1>1 DEF Member, Account
<1>3. crossed \subseteq crossed'
  BY CommitNoted, TablesAre DEF OnInvite
<1> HIDE DEF new, e
<1>4. user' \in [User -> Account] /\ user'[u] = new /\ \A v \in User \ {u} : user'[v] = user[v]
  BY <1>2 DEF TypeOK, new, e
<1>5. \A v \in User : (Exists(v) => Exists(v)' /\ v # u) /\ (~Exists(v)' => ~Exists(v) /\ v # u)
  BY <1>1, <1>2, <1>4 DEF Exists
<1>6. /\ \A s \in issued \cup links : s \in Session /\ s[1] \in User /\ Exists(s[1])
      /\ \A s \in issued' \cup links' : s \in issued \cup links \/ s = <<u, 0>>
      /\ <<u, 0>> \in Session
  BY DEF TypeOK, Session
<1>7. issued' \in SUBSET Session /\ \A s \in issued' \cup links' : Exists(s[1])'
  BY <1>1, <1>2, <1>4, <1>5, <1>6 DEF Exists
<1>8. \A v \in User : ~Exists(v)' => ~user'[v].active
  BY <1>4, <1>5 DEF TypeOK
<1>9. TombstonesSleep'
  BY <1>1, <1>2, <1>4 DEF TombstonesSleep, Tombstone
<1>10. VersionsGrow'
  <2>1. CASE Crossed({"update", "anonymize", "signout"}, "users")
    BY <1>3, <2>1, CrossedStays DEF VersionsGrow
  <2>2. CASE ~Crossed({"update", "anonymize", "signout"}, "users")
    <3>1. \A s \in issued : s[2] <= user[s[1]].version /\ s[1] \in User \ {u}
      BY <1>6, <2>2 DEF VersionsGrow
    <3>2. \A s \in issued' : s[2] <= user'[s[1]].version
      BY <1>2, <1>4, <3>1
    <3>3. \A s \in ended : s[2] < user[s[1]].version /\ s \in issued
      BY <2>2 DEF VersionsGrow, TypeOK
    <3> QED
      BY <1>4, <3>1, <3>2, <3>3 DEF VersionsGrow
  <2> QED
    BY <2>1, <2>2
<1>11. ActiveAdmins \subseteq ActiveAdmins' /\ \A v \in User : Tombstone(v)' => Tombstone(v)
  <2>1. u \notin ActiveAdmins
    BY DEF ActiveAdmins, TypeOK
  <2> QED
    BY <1>1, <1>2, <1>4, <2>1 DEF ActiveAdmins, Tombstone
<1>12. AdminRemains' /\ InterviewersStay'
  <2>1. (Outcounted => Outcounted') /\ (Unseen => Unseen')
    BY <1>3, CrossedStays DEF Outcounted, Unseen
  <2>2. AdminRemains'
    <3>1. ASSUME NEW a \in ActiveAdmins, ~Tombstone(a) PROVE a \in ActiveAdmins' /\ ~Tombstone(a)'
      BY <1>11, <3>1 DEF ActiveAdmins
    <3> QED
      BY <2>1, <3>1 DEF AdminRemains
  <2>3. InterviewersStay'
    BY <1>11, <2>1 DEF InterviewersStay
  <2> QED
    BY <2>2, <2>3
<1>13. ASSUME NEW v \in User, NEW w \in User, user'[v].email = user'[w].email, user'[v].email \in Email
       PROVE  v = w
  BY <1>2, <1>4, <1>13 DEF InviteUsedOnce, Taken, e
<1> QED
  BY <1>4, <1>5, <1>7, <1>8, <1>9, <1>10, <1>11, <1>12, <1>13

LEMMA CreateUserInv ==
  ASSUME IInv, NEW r \in Request, CreateUser(r)
  PROVE  IInv'
<1> USE Parts
<1>1. CASE Refuse(r)
  BY <1>1, RefuseInv
<1>2. ASSUME ~Taken(req[r].email), NEW u \in User, ~Exists(u), Commit(r, {"users"}),
             user' = [user EXCEPT ![u] = Member(req[r].email, req[r].role)],
             UNCHANGED <<invite, interview, issued, links, ended, made, revoked, revived, returned>>
      PROVE  IInv'
  <2>1. req[r].op = "create"
    BY DEF CreateUser, At
  <2>2. /\ req' \in [Request -> Asking] /\ crossed \subseteq crossed' /\ left' = left
        /\ crossed' \in SUBSET ((OnUser \cup OnInvite) \X Table)
    BY <1>2, <2>1, CommitNoted, TablesAre DEF OnInvite
  <2>3. /\ user' \in [User -> Account]
        /\ \A v \in User : Exists(v) => Exists(v)'
        /\ \A v \in User : ~Exists(v)' => ~user'[v].active
        /\ \A s \in issued' \cup links' : Exists(s[1])'
        /\ ActiveAdmins \subseteq ActiveAdmins' /\ \A v \in User : Tombstone(v)' => Tombstone(v)
        /\ TombstonesSleep' /\ VersionsGrow' /\ AdminRemains' /\ InterviewersStay'
        /\ \A v, w \in User : user'[v].email = user'[w].email /\ user'[v].email \in Email => v = w
    BY <1>2, <2>1, NewAccount
  <2>4. TypeOK'
    BY <1>2, <2>2, <2>3 DEF TypeOK
  <2>5. \A q \in Request : KnowsUser(req[q])' /\ KnowsInvite(req[q])'
    BY <1>2, <2>1, <2>3, OthersKnow, TablesAre DEF OnInvite
  <2>6. InvitesAreUnused' /\ InviteUsedOnce'
    BY <1>2, <2>2, <2>3, InvitesAlone
  <2> QED
    BY <2>3, <2>4, <2>5, <2>6 DEF IInv
<1> QED
  BY <1>1, <1>2 DEF CreateUser

LEMMA AcceptInviteInv ==
  ASSUME IInv, NEW r \in Request, AcceptInvite(r)
  PROVE  IInv'
<1> USE Parts
<1> DEFINE q == req[r]
           i == q.invite
<1>1. CASE Refuse(r)
  BY <1>1, RefuseInv
<1>2. ASSUME ~Taken(q.email), NEW u \in User, ~Exists(u), Commit(r, {"users"}),
             user' = [user EXCEPT ![u] = Member(q.email, q.role)],
             invite' = Consumed(i),
             issued' = issued \cup {<<u, 0>>},
             made' = [made EXCEPT ![i] = @ + 1],
             UNCHANGED <<interview, links, ended, revoked, revived, returned>>
      PROVE  IInv'
  <2>1. q.op = "accept" /\ i \in Invite /\ KnowsInvite(q) /\ q.over \subseteq Table
    BY DEF AcceptInvite, At, KnowsInvite, TypeOK, Asking
  <2>2. /\ req' \in [Request -> Asking] /\ crossed \subseteq crossed' /\ left' = left
        /\ crossed' \in SUBSET ((OnUser \cup OnInvite) \X Table)
        /\ \A t \in q.over : <<"accept", t>> \in crossed'
    BY <1>2, <2>1, CommitNoted, TablesAre DEF OnInvite
  <2>3. /\ user' \in [User -> Account] /\ issued' \in SUBSET Session
        /\ \A v \in User : Exists(v) => Exists(v)'
        /\ \A v \in User : ~Exists(v)' => ~user'[v].active
        /\ \A s \in issued' \cup links' : Exists(s[1])'
        /\ ActiveAdmins \subseteq ActiveAdmins' /\ \A v \in User : Tombstone(v)' => Tombstone(v)
        /\ TombstonesSleep' /\ VersionsGrow' /\ AdminRemains' /\ InterviewersStay'
        /\ \A v, w \in User : user'[v].email = user'[w].email /\ user'[v].email \in Email => v = w
    BY <1>2, <2>1, NewAccount
  <2>4. /\ invite' \in [Invite -> [st : {"none", "fresh", "expired"}, email : Email \cup {"none"}, role : Role]]
        /\ invite'[i] = NoInvite /\ invite'[i].st = "none" /\ \A j \in Invite \ {i} : invite'[j] = invite[j]
        /\ made' \in [Invite -> Nat] /\ made'[i] = made[i] + 1 /\ made[i] \in Nat
        /\ \A j \in Invite \ {i} : made'[j] = made[j]
    BY <1>2, <2>1 DEF TypeOK, Consumed, NoInvite, Role
  <2> HIDE DEF q, i
  <2>5. TypeOK'
    BY <1>2, <2>2, <2>3, <2>4 DEF TypeOK
  <2>6. \A p \in Request : KnowsUser(req[p])' /\ KnowsInvite(req[p])'
    <3>1. \A j \in Invite : made[j] # 0 => made'[j] # 0
      BY <2>4
    <3>2. \A j \in Invite : invite[j].st # "none" => invite'[j].st # "none" \/ made'[j] # 0
      BY <2>4
    <3>3. issued \subseteq issued'
      BY <1>2
    <3> QED
      BY <1>2, <2>1, <2>3, <3>1, <3>2, <3>3, OthersKnow, TablesAre DEF OnInvite, q
  <2>7. InvitesAreUnused'
    BY <1>2, <2>4 DEF InvitesAreUnused
  <2>8. ASSUME NEW e \in Email PROVE Cardinality(InvitesOf(e)') <= 1
    BY <2>7, AtMostOne DEF InvitesAreUnused, InvitesOf
  <2>9. ASSUME NEW j \in Invite
        PROVE  \/ Crossed({"accept"}, "invites")' \/ Crossed({"accept"}, "users")'
               \/ made'[j] <= 1 /\ (made'[j] = 1 => invite'[j] = NoInvite /\ j \notin revoked')
    <3>1. CASE Crossed({"accept"}, "invites") \/ Crossed({"accept"}, "users")
      BY <2>2, <3>1, CrossedStays
    <3>2. CASE q.over \cap {"users", "invites"} # {}
      BY <2>2, <3>2 DEF Crossed
    <3>3. CASE j # i /\ ~Crossed({"accept"}, "invites") /\ ~Crossed({"accept"}, "users")
      BY <1>2, <2>4, <3>3 DEF InviteUsedOnce
    <3>4. CASE j = i /\ q.over \cap {"users", "invites"} = {}
      <4>1. invite[i].st # "none"
        BY <2>1, <3>4 DEF KnowsInvite, i
      <4>2. made[i] = 0 /\ i \notin revoked
        BY <2>1, <4>1 DEF InvitesAreUnused
      <4> QED
        BY <1>2, <2>4, <3>4, <4>2
    <3> QED
      BY <3>1, <3>2, <3>3, <3>4
  <2> QED
    BY <2>3, <2>5, <2>6, <2>7, <2>8, <2>9 DEF IInv, InviteUsedOnce
<1> QED
  BY <1>1, <1>2 DEF AcceptInvite
-----------------------------------------------------------------------------
(***************************************************************************)
(* Commits to the invites and the interviews.                              *)
(***************************************************************************)
\* A commit to the table of invites.
LEMMA InviteCommitInv ==
  ASSUME IInv, NEW r \in Request, Commit(r, {"invites"}), req[r].op \in {"invite", "resend", "revoke"},
         invite' \in [Invite -> [st : {"none", "fresh", "expired"}, email : Email \cup {"none"}, role : Role]],
         \A i \in Invite : invite'[i].st # "none" => invite'[i].email \in Email,
         UNCHANGED <<user, interview, issued, links, ended, made, revived, returned>>,
         revoked \subseteq revoked', revoked' \subseteq Invite,
         \A i \in Invite : invite[i].st # "none" => invite'[i].st # "none" \/ i \in revoked',
         InvitesAreUnused',
         \A i \in Invite : made[i] = 1 /\ invite[i] = NoInvite /\ i \notin revoked =>
            invite'[i] = NoInvite /\ i \notin revoked'
  PROVE  IInv'
<1> USE Parts
<1>1. /\ req' \in [Request -> Asking] /\ crossed \subseteq crossed' /\ left' = left
      /\ crossed' \in SUBSET ((OnUser \cup OnInvite) \X Table)
  BY CommitNoted, TablesAre DEF OnInvite
<1>2. TypeOK'
  BY <1>1 DEF TypeOK, Exists
<1>3. TombstonesSleep' /\ VersionsGrow' /\ AdminRemains'
  BY <1>1, UsersAlone
<1>4. InterviewersStay'
  BY <1>1, CrossedStays DEF InterviewersStay, Unseen, Tombstone
<1>5. \A p \in Request : KnowsUser(req[p])' /\ KnowsInvite(req[p])'
  <2>1. /\ ActiveAdmins' = ActiveAdmins
        /\ \A v \in User : (Exists(v)' <=> Exists(v)) /\ (Tombstone(v)' <=> Tombstone(v))
    BY DEF ActiveAdmins, Exists, Tombstone
  <2> QED
    BY <2>1, OthersKnow, TablesAre DEF OnInvite
<1>6. \A e \in Email : Cardinality(InvitesOf(e)') <= 1
  BY AtMostOne DEF InvitesAreUnused, InvitesOf
<1>7. InviteUsedOnce'
  <2>1. ASSUME NEW i \in Invite
        PROVE  \/ Crossed({"accept"}, "invites")' \/ Crossed({"accept"}, "users")'
               \/ made'[i] <= 1 /\ (made'[i] = 1 => invite'[i] = NoInvite /\ i \notin revoked')
    BY <1>1, CrossedStays DEF InviteUsedOnce
  <2>2. \A v, w \in User : user'[v].email = user'[w].email /\ user'[v].email \in Email => v = w
    BY DEF InviteUsedOnce
  <2> QED
    BY <1>6, <2>1, <2>2 DEF InviteUsedOnce
<1> QED
  BY <1>2, <1>3, <1>4, <1>5, <1>7 DEF IInv

LEMMA CreateInviteInv ==
  ASSUME IInv, NEW r \in Request, CreateInvite(r)
  PROVE  IInv'
<1> USE Parts
<1> DEFINE q == req[r]
<1>1. CASE Refuse(r)
  BY <1>1, RefuseInv
<1>2. ASSUME InvitesOf(q.email) \ {q.invite} = {}, NEW i \in Invite,
             invite[i] = NoInvite, made[i] = 0, i \notin revoked, Commit(r, {"invites"}),
             invite' = [j \in Invite |->
                   IF j = i THEN [st |-> "fresh", email |-> q.email, role |-> q.role]
                   ELSE IF j = q.invite THEN NoInvite ELSE invite[j]],
             revoked' = IF q.invite \in Invite /\ made[q.invite] = 0
                        THEN revoked \cup {q.invite} ELSE revoked,
             UNCHANGED <<user, interview, issued, links, ended, made, revived, returned>>
      PROVE  IInv'
  <2>1. q.op = "invite" /\ q.email \in Email /\ q.role \in Role /\ KnowsInvite(q)
    BY DEF CreateInvite, At, KnowsInvite
  <2>2. q.invite # i
    BY <1>2, <2>1 DEF KnowsInvite, NoInvite
  <2>3. /\ NoInvite \in [st : {"none", "fresh", "expired"}, email : Email \cup {"none"}, role : Role]
        /\ NoInvite.st = "none"
    BY DEF NoInvite, Role
  <2>4. /\ invite' \in [Invite -> [st : {"none", "fresh", "expired"}, email : Email \cup {"none"}, role : Role]]
        /\ invite'[i].st = "fresh" /\ invite'[i].email = q.email
        /\ \A j \in Invite \ {i} : invite'[j] = IF j = q.invite THEN NoInvite ELSE invite[j]
    BY <1>2, <2>1, <2>3 DEF TypeOK
  <2> HIDE DEF q
  <2>5. \A j \in Invite : invite'[j].st # "none" => invite'[j].email \in Email
    BY <2>1, <2>3, <2>4 DEF TypeOK
  <2>6. revoked \subseteq revoked' /\ revoked' \subseteq Invite /\ i \notin revoked'
    BY <1>2, <2>2 DEF TypeOK
  <2>7. InvitesAreUnused'
    <3>1. ASSUME NEW j \in Invite, invite'[j].st # "none" PROVE made'[j] = 0 /\ j \notin revoked'
      BY <1>2, <2>2, <2>3, <2>4, <2>6, <3>1 DEF InvitesAreUnused
    <3>2. \A j \in Invite : invite'[j].st # "none" /\ j # i => invite'[j].email # q.email
      BY <1>2, <2>3, <2>4 DEF InvitesOf
    <3>3. ASSUME NEW j \in Invite, NEW k \in Invite, invite'[j].st # "none", invite'[k].st # "none",
                 invite'[j].email = invite'[k].email
          PROVE  j = k
      BY <2>3, <2>4, <3>2, <3>3 DEF InvitesAreUnused
    <3> QED
      BY <3>1, <3>3 DEF InvitesAreUnused
  <2>8. \A j \in Invite : invite[j].st # "none" => invite'[j].st # "none" \/ j \in revoked'
    BY <1>2, <2>3, <2>4 DEF InvitesAreUnused
  <2>9. \A j \in Invite : made[j] = 1 /\ invite[j] = NoInvite /\ j \notin revoked =>
            invite'[j] = NoInvite /\ j \notin revoked'
    BY <1>2, <2>4
  <2> QED
    BY <1>2, <2>1, <2>4, <2>5, <2>6, <2>7, <2>8, <2>9, InviteCommitInv DEF q
<1> QED
  BY <1>1, <1>2 DEF CreateInvite

LEMMA ResendInviteInv ==
  ASSUME IInv, NEW r \in Request, ResendInvite(r)
  PROVE  IInv'
<1> USE Parts
<1> DEFINE i == req[r].invite
<1>1. CASE Refuse(r)
  BY <1>1, RefuseInv
<1>2. CASE /\ invite[i].st # "none" /\ Commit(r, {"invites"})
           /\ invite' = [invite EXCEPT ![i] = [@ EXCEPT !.st = "fresh"]]
           /\ UNCHANGED <<user, interview, issued, links, ended, made, revoked, revived, returned>>
  <2>1. req[r].op = "resend" /\ i \in Invite
    BY DEF ResendInvite, At, KnowsInvite
  <2>2. invite' \in [Invite -> [st : {"none", "fresh", "expired"}, email : Email \cup {"none"}, role : Role]]
    BY <1>2, <2>1 DEF TypeOK
  <2>3. \A j \in Invite : /\ invite'[j].st = "none" <=> invite[j].st = "none"
                          /\ invite'[j].email = invite[j].email
                          /\ invite[j].st = "none" => invite'[j] = invite[j]
    BY <1>2, <2>1 DEF TypeOK
  <2> HIDE DEF i
  <2>4. InvitesAreUnused'
    BY <1>2, <2>3 DEF InvitesAreUnused
  <2>5. \A j \in Invite : made[j] = 1 /\ invite[j] = NoInvite => invite'[j] = NoInvite
    BY <2>3 DEF NoInvite
  <2>6. \A j \in Invite : invite'[j].st # "none" => invite'[j].email \in Email
    BY <2>3 DEF TypeOK
  <2>7. revoked \subseteq revoked' /\ revoked' \subseteq Invite
    BY <1>2 DEF TypeOK
  <2> QED
    BY <1>2, <2>1, <2>2, <2>3, <2>4, <2>5, <2>6, <2>7, InviteCommitInv
<1> QED
  BY <1>1, <1>2 DEF ResendInvite

LEMMA RevokeInviteInv ==
  ASSUME IInv, NEW r \in Request, RevokeInvite(r)
  PROVE  IInv'
<1> USE Parts
<1> DEFINE i == req[r].invite
<1>1. /\ req[r].op = "revoke" /\ i \in Invite /\ Commit(r, {"invites"})
      /\ invite' = [invite EXCEPT ![i] = NoInvite]
      /\ revoked' = IF made[i] = 0 THEN revoked \cup {i} ELSE revoked
      /\ UNCHANGED <<user, interview, issued, links, ended, made, revived, returned>>
  BY DEF RevokeInvite, At, KnowsInvite
<1>2. /\ NoInvite \in [st : {"none", "fresh", "expired"}, email : Email \cup {"none"}, role : Role]
      /\ NoInvite.st = "none"
  BY DEF NoInvite, Role
<1>3. /\ invite' \in [Invite -> [st : {"none", "fresh", "expired"}, email : Email \cup {"none"}, role : Role]]
      /\ invite'[i] = NoInvite /\ \A j \in Invite \ {i} : invite'[j] = invite[j]
  BY <1>1, <1>2 DEF TypeOK
<1> HIDE DEF i
<1>4. revoked \subseteq revoked' /\ revoked' \subseteq Invite /\ revoked' \subseteq revoked \cup {i}
  BY <1>1 DEF TypeOK
<1>5. InvitesAreUnused'
  BY <1>1, <1>2, <1>3, <1>4 DEF InvitesAreUnused
<1>6. \A j \in Invite : invite'[j].st # "none" => invite'[j].email \in Email
  BY <1>2, <1>3 DEF TypeOK
<1>7. \A j \in Invite : invite[j].st # "none" => invite'[j].st # "none" \/ j \in revoked'
  BY <1>1, <1>3 DEF InvitesAreUnused
<1>8. \A j \in Invite : made[j] = 1 /\ invite[j] = NoInvite /\ j \notin revoked =>
          invite'[j] = NoInvite /\ j \notin revoked'
  BY <1>1, <1>3
<1> QED
  BY <1>1, <1>3, <1>4, <1>5, <1>6, <1>7, <1>8, InviteCommitInv

\* A commit to the followed interview of a user.
LEMMA InterviewCommitInv ==
  ASSUME IInv, NEW r \in Request, Commit(r, {"interviews"}), req[r].op \in {"interview", "book"},
         NEW st \in {"pending", "booked", "past", "cancelled"},
         interview' = [interview EXCEPT ![req[r].on] = st],
         UNCHANGED <<user, invite, issued, links, ended, made, revoked, revived, returned>>
  PROVE  IInv'
<1> USE Parts
<1> DEFINE q == req[r]
           u == q.on
<1>1. q.op \in OnUser /\ u \in User /\ Exists(u) /\ KnowsUser(q)
  BY DEF KnowsUser, OnUser
<1>2. /\ req' \in [Request -> Asking] /\ crossed \subseteq crossed' /\ left' = left
      /\ crossed' \in SUBSET ((OnUser \cup OnInvite) \X Table)
      /\ \A t \in q.over : <<q.op, t>> \in crossed'
  BY <1>1, CommitNoted, TablesAre
<1>3. interview'[u] = st /\ \A v \in User \ {u} : interview'[v] = interview[v]
  BY <1>1 DEF TypeOK
<1>4. TypeOK'
  BY <1>1, <1>2, <1>3 DEF TypeOK, Exists
<1>5. \A p \in Request : KnowsUser(req[p])' /\ KnowsInvite(req[p])'
  BY <1>1, OthersKnow, TablesAre DEF Exists, ActiveAdmins, Tombstone
<1> HIDE DEF q, u
<1>6. InterviewersStay'
  <2>1. CASE Unseen
    BY <1>2, <2>1, CrossedStays DEF InterviewersStay, Unseen
  <2>2. CASE "removed" \in q.over
    BY <1>2, <2>2 DEF InterviewersStay, Unseen, Crossed, q
  <2>3. CASE ~Unseen /\ "removed" \notin q.over
    <3>1. u \in returned \/ ~Tombstone(u)
      BY <1>1, <2>3 DEF KnowsUser, q, u
    <3> QED
      BY <1>1, <1>3, <2>3, <3>1 DEF InterviewersStay, Tombstone
  <2> QED
    BY <2>1, <2>2, <2>3
<1>7. InvitesAreUnused' /\ InviteUsedOnce'
  BY <1>2, InvitesAlone DEF InviteUsedOnce
<1> QED
  BY <1>2, <1>4, <1>5, <1>6, <1>7, UsersAlone DEF IInv

LEMMA RequestInterviewInv ==
  ASSUME IInv, NEW r \in Request, RequestInterview(r)
  PROVE  IInv'
<1> USE Parts
<1> DEFINE u == req[r].on
           st == IF interview[u] = "none" THEN "pending" ELSE interview[u]
<1>1. /\ req[r].op = "interview" /\ u \in User /\ Commit(r, {"interviews"})
      /\ UNCHANGED <<user, invite, issued, links, ended, made, revoked, revived, returned>>
  BY DEF RequestInterview, At, KnowsUser, OnUser
<1>2. st \in {"pending", "booked", "past", "cancelled"}
  BY <1>1 DEF TypeOK
<1>3. interview' = [interview EXCEPT ![u] = st]
  BY DEF RequestInterview
<1> HIDE DEF st
<1> QED
  BY <1>1, <1>2, <1>3, InterviewCommitInv

LEMMA BookInterviewInv ==
  ASSUME IInv, NEW r \in Request, BookInterview(r)
  PROVE  IInv'
<1>1. CASE Refuse(r)
  BY <1>1, RefuseInv
<1>2. CASE /\ Commit(r, {"interviews"})
           /\ interview' = [interview EXCEPT ![req[r].on] = "booked"]
           /\ UNCHANGED <<user, invite, issued, links, ended, made, revoked, revived, returned>>
  <2>1. req[r].op = "book"
    BY DEF BookInterview, At
  <2> QED
    BY <1>2, <2>1, InterviewCommitInv
<1> QED
  BY <1>1, <1>2 DEF BookInterview
-----------------------------------------------------------------------------
(***************************************************************************)
(* Steps outside the requests.                                             *)
(***************************************************************************)
\* They leave the requests and the users alone, what the requests know included.
LEMMA OutsideKnow ==
  ASSUME IInv, UNCHANGED <<user, req, made, revoked, crossed, revived, returned>>,
         issued \subseteq issued',
         \A u \in User : Upcoming(u)' => Upcoming(u),
         \A i \in Invite : invite'[i].st = "none" <=> invite[i].st = "none"
  PROVE  \A q \in Request : KnowsUser(req[q])' /\ KnowsInvite(req[q])'
<1> SUFFICES ASSUME NEW q \in Request PROVE KnowsUser(req[q])' /\ KnowsInvite(req[q])'
  OBVIOUS
<1>1. KnowsUser(req[q]) /\ KnowsInvite(req[q]) /\ TypeOK
  BY Parts
<1>2. (Outcounted => Outcounted') /\ (Unseen => Unseen')
  BY CrossedStays DEF Outcounted, Unseen
<1>3. ActiveAdmins' = ActiveAdmins /\ \A u \in User : (Exists(u)' <=> Exists(u)) /\ (Tombstone(u)' <=> Tombstone(u))
  BY DEF ActiveAdmins, Exists, Tombstone
<1> QED
  BY <1>1, <1>2, <1>3, AskerKnows

\* An interview whose time comes, or that is cancelled.
LEMMA InterviewEndsInv ==
  ASSUME IInv, NEW u \in User, PassInterview(u) \/ CancelInterview(u)
  PROVE  IInv'
<1> USE Parts
<1>1. PICK st \in {"past", "cancelled"} :
        /\ interview' = [interview EXCEPT ![u] = st] /\ interview[u] # "none"
        /\ UNCHANGED <<user, invite, issued, links, req, left, ended, made, revoked, crossed, revived,
                       returned>>
  BY DEF PassInterview, CancelInterview, history
<1>2. interview'[u] = st /\ \A v \in User \ {u} : interview'[v] = interview[v]
  BY <1>1 DEF TypeOK
<1>3. TypeOK'
  BY <1>1, <1>2 DEF TypeOK, Exists
<1>4. InterviewersStay'
  BY <1>1, <1>2, CrossedStays DEF InterviewersStay, Unseen, Tombstone
<1>5. InvitesAreUnused' /\ InviteUsedOnce'
  BY <1>1, InvitesAlone DEF InviteUsedOnce
<1>6. \A v \in User : Upcoming(v)' => Upcoming(v)
  BY <1>1, <1>2 DEF Upcoming
<1> QED
  BY <1>1, <1>3, <1>4, <1>5, <1>6, UsersAlone, OutsideKnow DEF IInv

\* A move: of an interview ahead, or of one that is over, which is noted.
LEMMA MoveInterviewInv ==
  ASSUME IInv, NEW u \in User, MoveInterview(u)
  PROVE  IInv'
<1> USE Parts
<1>1. /\ interview[u] \in {"booked", "past"} /\ interview' = [interview EXCEPT ![u] = "booked"]
      /\ req' = [q \in Request |-> Stale(req[q], {"interviews"})]
      /\ returned' = IF interview[u] = "past" /\ Tombstone(u) THEN returned \cup {u} ELSE returned
      /\ UNCHANGED <<user, invite, issued, links, left, ended, made, revoked, crossed, revived>>
  BY DEF MoveInterview
<1>2. interview'[u] = "booked" /\ \A v \in User \ {u} : interview'[v] = interview[v]
  BY <1>1 DEF TypeOK
<1>3. \A q \in Request :
        /\ req[q] \in Asking /\ req'[q] \in Asking
        /\ req'[q] = Idle \/ req'[q] = [req[q] EXCEPT !.over = @ \cup {"interviews"}]
  BY <1>1, StaleAsks, TablesAre DEF TypeOK
<1>4. req' \in [Request -> Asking]
  BY <1>1, <1>3
<1>5. TypeOK'
  BY <1>1, <1>2, <1>4 DEF TypeOK, Exists
<1>6. (Outcounted => Outcounted') /\ (Unseen => Unseen') /\ returned \subseteq returned'
  BY <1>1, CrossedStays DEF Outcounted, Unseen
<1>7. ASSUME NEW q \in Request PROVE KnowsUser(req[q])' /\ KnowsInvite(req[q])'
  <2>1. CASE req'[q] = Idle
    BY <2>1 DEF KnowsUser, KnowsInvite, Idle, OnUser
  <2>2. CASE req'[q] = [req[q] EXCEPT !.over = @ \cup {"interviews"}]
    <3>1. KnowsUser(req[q]) /\ KnowsInvite(req[q])
      OBVIOUS
    <3>2. /\ req'[q].op = req[q].op /\ req'[q].pc = req[q].pc /\ req'[q].on = req[q].on
          /\ req'[q].seen = req[q].seen /\ req'[q].role = req[q].role
          /\ req'[q].active = req[q].active /\ req'[q].email = req[q].email
          /\ req'[q].invite = req[q].invite /\ req'[q].known = req[q].known
          /\ req'[q].over = req[q].over \cup {"interviews"}
      BY <1>3, <2>2 DEF Asking
    <3>3. /\ ActiveAdmins' = ActiveAdmins
          /\ \A v \in User : (Exists(v)' <=> Exists(v)) /\ (Tombstone(v)' <=> Tombstone(v))
      BY <1>1 DEF ActiveAdmins, Exists, Tombstone
    <3> QED
      BY <1>1, <1>6, <3>1, <3>2, <3>3, AskerKnows
  <2> QED
    BY <1>3, <2>1, <2>2
<1>8. InterviewersStay'
  <2>1. CASE Unseen
    BY <1>6, <2>1 DEF InterviewersStay
  <2>2. CASE ~Unseen
    <3>1. interview[u] = "booked" /\ Tombstone(u) => u \in returned
      BY <2>2 DEF InterviewersStay
    <3>2. Tombstone(u) => u \in returned'
      BY <1>1, <3>1
    <3>3. \A v \in User : Tombstone(v)' <=> Tombstone(v)
      BY <1>1 DEF Tombstone
    <3> QED
      BY <1>2, <1>6, <2>2, <3>2, <3>3 DEF InterviewersStay
  <2> QED
    BY <2>1, <2>2
<1>9. InvitesAreUnused' /\ InviteUsedOnce'
  BY <1>1, InvitesAlone DEF InviteUsedOnce
<1> QED
  BY <1>1, <1>5, <1>7, <1>8, <1>9, UsersAlone DEF IInv

LEMMA SessionGivenInv ==
  ASSUME IInv, NEW u \in User, Login(u) \/ ForgotPassword(u)
  PROVE  IInv'
<1> USE Parts
<1> DEFINE new == <<u, user[u].version>>
<1>1. /\ issued' \in {issued, issued \cup {new}} /\ links' \in {links, links \cup {new}}
      /\ UNCHANGED <<user, invite, interview, req, left, ended, made, revoked, crossed, revived, returned>>
      /\ user[u].active
  BY DEF Login, ForgotPassword, db, history
<1>2. new \in Session /\ new[1] = u /\ new[2] = user[u].version /\ Exists(u) /\ user[u].version \in Nat
  BY <1>1 DEF TypeOK, Session, Account
<1> HIDE DEF new
<1>3. TypeOK'
  <2>1. \A s \in issued' \cup links' : s \in issued \cup links \/ s = new
    BY <1>1
  <2>2. \A s \in issued' \cup links' : Exists(s[1])'
    BY <1>1, <1>2, <2>1 DEF TypeOK, Exists
  <2>3. issued' \in SUBSET Session /\ links' \in SUBSET Session /\ ended' \in SUBSET issued'
    BY <1>1, <1>2 DEF TypeOK
  <2> QED
    BY <1>1, <2>2, <2>3 DEF TypeOK, Exists
<1>4. VersionsGrow'
  BY <1>1, <1>2, CrossedStays DEF VersionsGrow
<1>5. TombstonesSleep' /\ AdminRemains' /\ InterviewersStay'
  BY <1>1, CrossedStays DEF TombstonesSleep, AdminRemains, Outcounted, ActiveAdmins, InterviewersStay,
                            Unseen, Tombstone
<1>6. InvitesAreUnused' /\ InviteUsedOnce'
  BY <1>1, InvitesAlone DEF InviteUsedOnce
<1>7. \A q \in Request : KnowsUser(req[q])' /\ KnowsInvite(req[q])'
  BY <1>1, OutsideKnow DEF Upcoming
<1> QED
  BY <1>3, <1>4, <1>5, <1>6, <1>7 DEF IInv

LEMMA ExpireInviteInv ==
  ASSUME IInv, NEW i \in Invite, ExpireInvite(i)
  PROVE  IInv'
<1> USE Parts
<1>1. /\ invite[i].st = "fresh" /\ invite' = [invite EXCEPT ![i] = [@ EXCEPT !.st = "expired"]]
      /\ UNCHANGED <<user, interview, issued, links, req, left, ended, made, revoked, crossed, revived,
                     returned>>
  BY DEF ExpireInvite, history
<1>2. invite' \in [Invite -> [st : {"none", "fresh", "expired"}, email : Email \cup {"none"}, role : Role]]
  BY <1>1 DEF TypeOK
<1>3. \A j \in Invite : /\ invite'[j].st = "none" <=> invite[j].st = "none"
                        /\ invite'[j].email = invite[j].email
                        /\ invite[j].st = "none" => invite'[j] = invite[j]
  BY <1>1 DEF TypeOK
<1>4. TypeOK'
  BY <1>1, <1>2, <1>3 DEF TypeOK, Exists
<1>5. InvitesAreUnused'
  BY <1>1, <1>3 DEF InvitesAreUnused
<1>6. InviteUsedOnce'
  <2>1. \A e \in Email : Cardinality(InvitesOf(e)') <= 1
    BY <1>5, AtMostOne DEF InvitesAreUnused, InvitesOf
  <2>2. \A j \in Invite : invite[j] = NoInvite => invite'[j] = NoInvite
    BY <1>3 DEF NoInvite
  <2>3. \A j \in Invite :
          \/ Crossed({"accept"}, "invites")' \/ Crossed({"accept"}, "users")'
          \/ made'[j] <= 1 /\ (made'[j] = 1 => invite'[j] = NoInvite /\ j \notin revoked')
    BY <1>1, <2>2, CrossedStays DEF InviteUsedOnce
  <2> QED
    BY <1>1, <2>1, <2>3 DEF InviteUsedOnce
<1>7. InterviewersStay'
  BY <1>1, CrossedStays DEF InterviewersStay, Unseen, Tombstone
<1> QED
  BY <1>1, <1>3, <1>4, <1>5, <1>6, <1>7, UsersAlone, OutsideKnow DEF IInv, Upcoming

LEMMA StutterInv ==
  ASSUME IInv, UNCHANGED vars
  PROVE  IInv'
<1> USE Parts
<1>1. UNCHANGED <<user, invite, interview, issued, links, req, left, ended, made, revoked, crossed, revived,
                  returned>>
  BY DEF vars, db, history
<1>2. TypeOK'
  BY <1>1 DEF TypeOK, Exists
<1>3. InterviewersStay'
  BY <1>1, CrossedStays DEF InterviewersStay, Unseen, Tombstone
<1>4. InvitesAreUnused' /\ InviteUsedOnce'
  BY <1>1, InvitesAlone DEF InviteUsedOnce
<1> QED
  BY <1>1, <1>2, <1>3, <1>4, UsersAlone, OutsideKnow DEF IInv, Upcoming

LEMMA NextInv == IInv /\ [Next]_vars => IInv'
<1> SUFFICES ASSUME IInv, [Next]_vars PROVE IInv'
  OBVIOUS
<1>1. ASSUME NEW r \in Request, NEW u \in User,
             \/ \E role \in Role \cup {"same"}, active \in {"yes", "no", "same"} :
                  LoadUpdate(r, u, role, active)
             \/ LoadAnonymize(r, u) \/ LoadInterview(r, u) \/ LoadBook(r, u) \/ LoadSignOut(r, u)
      PROVE  IInv'
  BY <1>1, LoadUserInv
<1>2. ASSUME NEW r \in Request, NEW op \in {"create", "invite"}, NEW e \in Email, NEW role \in Role,
             LoadCreate(r, op, e, role)
      PROVE  IInv'
  BY <1>2, LoadCreateInv
<1>3. ASSUME NEW r \in Request, NEW op \in {"resend", "revoke", "accept"}, NEW i \in Invite,
             LoadInvite(r, op, i)
      PROVE  IInv'
  BY <1>3, LoadInviteInv
<1>4. ASSUME NEW r \in Request, NEW l \in links, LoadReset(r, l) PROVE IInv'
  BY <1>4, LoadResetInv
<1>5. ASSUME NEW r \in Request, CheckRemoval(r) \/ UpdateUser(r) \/ Anonymize(r)
                                    \/ RequestInterview(r) \/ BookInterview(r)
      PROVE  IInv'
  BY <1>5, CheckRemovalInv, UpdateUserInv, AnonymizeInv, RequestInterviewInv,
     BookInterviewInv
<1>6. ASSUME NEW r \in Request, CheckAddress(r) \/ CreateUser(r) \/ AcceptInvite(r) \/ SetVersion(r)
      PROVE  IInv'
  BY <1>6, CheckAddressInv, CreateUserInv, AcceptInviteInv, SetVersionInv
<1>7. ASSUME NEW r \in Request, CreateInvite(r) \/ ResendInvite(r) \/ RevokeInvite(r)
      PROVE  IInv'
  BY <1>7, CreateInviteInv, ResendInviteInv, RevokeInviteInv
<1>8. ASSUME NEW u \in User, \/ PassInterview(u) \/ MoveInterview(u) \/ CancelInterview(u)
                            \/ Login(u) \/ ForgotPassword(u)
      PROVE  IInv'
  BY <1>8, InterviewEndsInv, MoveInterviewInv, SessionGivenInv
<1>9. ASSUME NEW i \in Invite, ExpireInvite(i) PROVE IInv'
  BY <1>9, ExpireInviteInv
<1>10. CASE UNCHANGED vars
  BY <1>10, StutterInv
<1> QED
  BY <1>1, <1>2, <1>3, <1>4, <1>5, <1>6, <1>7, <1>8, <1>9, <1>10 DEF Next
-----------------------------------------------------------------------------
(***************************************************************************)
(* The theorems.                                                           *)
(***************************************************************************)
\* The inductive invariant holds in every state of the accounts and invites of a
\* company: requests of users.py, invites.py, auth.py in any interleaving.
THEOREM Invariance == Spec => []IInv
BY InitInv, NextInv, PTL DEF Spec

\* Every table and request of the team keeps its shape, and whoever has a
\* session or an active row has an account.
THEOREM TypeCorrect == Spec => []TypeOK
<1>1. IInv => TypeOK
  BY DEF IInv
<1> QED
  BY <1>1, Invariance, PTL

\* For any number of users, addresses, invites and concurrent requests: the
\* company keeps an active admin who can sign in, who has an interview ahead is not
\* removed, and addresses and invites are used once.  What the code leaves open is
\* excepted by name: removals that crossed and tombstones switched on (users.py:87),
\* interviews that crossed a removal, a past interview that its candidate moves
\* ahead after the removal (users.py:182), acceptances that crossed (invites.py).
THEOREM AccountsAreHeld == Spec => []AccountsHold
<1>1. IInv => AccountsHold
  BY DEF IInv, AccountsHold
<1> QED
  BY <1>1, Invariance, PTL

\* An ended session is never good again: versions only grow, unless two
\* writers of one row's token_version crossed (services/users.py, services/mfa.py).
THEOREM SessionsStayEnded == Spec => []SessionsEnd
<1>1. IInv => SessionsEnd
  <2> SUFFICES ASSUME IInv, ~Crossed({"update", "anonymize", "signout"}, "users"),
                      NEW s \in ended
               PROVE  ~Valid(s)
    BY DEF SessionsEnd
  <2>1. s \in Session /\ s[2] \in Nat /\ s[1] \in User /\ user[s[1]].version \in Nat
    BY Parts DEF TypeOK, Session, Account
  <2>2. s[2] < user[s[1]].version
    BY Parts DEF VersionsGrow
  <2> QED
    BY <2>1, <2>2 DEF Valid
<1> QED
  BY <1>1, Invariance, PTL

\* Letters counts with its own copy of FiniteSets: it is the same.
LEMMA Counted ==
  \A S : /\ L!IsFiniteSet(S) <=> IsFiniteSet(S)
         /\ L!Cardinality(S) = Cardinality(S)
  BY DEF L!Cardinality, Cardinality, L!IsFiniteSet, IsFiniteSet

-----------------------------------------------------------------------------
(***************************************************************************)
(* What is made of the arguments of a mail.                                *)
(***************************************************************************)
\* The arguments of a kind differ only in whom they go to and which company they name.
Arguments(kind, key, url, expires) ==
  \A to, c : L!KwargsOf(kind, to, c) =
    [to |-> to, company |-> c, key |-> key, url |-> url, expires_at |-> expires,
     text |-> L!NoText, override |-> L!NoText]

\* The candidate's own links are those the team's copy masks; a secret is not the candidate's.
Harmless(kind, key, url, expires) ==
  /\ url # L!PREVIEW_LINK_PLACEHOLDER
  /\ url = "token" <=> key \in L!CAPABILITY_URL_KEYS
  /\ url = "secret" => kind \in L!Account
  /\ kind \in L!Assessment => expires = "datetime"
  /\ expires \in {"none", "datetime"}

LEMMA KwargsShape ==
  ASSUME NEW kind \in L!LetterKind
  PROVE  \E key, url, expires : Arguments(kind, key, url, expires) /\ Harmless(kind, key, url, expires)
<1>1. CASE kind = "rejection"
  <2>1. Arguments(kind, "careers_url", "public", "none")
    BY <1>1 DEF Arguments, L!KwargsOf, L!Kwargs, L!RejectionKwargs
  <2>2. Harmless(kind, "careers_url", "public", "none")
    BY <1>1 DEF Harmless, L!PREVIEW_LINK_PLACEHOLDER, L!CAPABILITY_URL_KEYS, L!Account, L!Assessment
  <2> QED
    BY <2>1, <2>2
<1>2. CASE kind = "stage_advance"
  <2>1. Arguments(kind, "status_url", "token", "none")
    BY <1>2 DEF Arguments, L!KwargsOf, L!Kwargs, L!StageAdvanceKwargs
  <2>2. Harmless(kind, "status_url", "token", "none")
    BY <1>2 DEF Harmless, L!PREVIEW_LINK_PLACEHOLDER, L!CAPABILITY_URL_KEYS, L!Account, L!Assessment
  <2> QED
    BY <2>1, <2>2
<1>3. CASE kind = "quiz_invite"
  <2>1. Arguments(kind, "quiz_url", "token", "datetime")
    BY <1>3 DEF Arguments, L!KwargsOf, L!Kwargs, L!QuizInviteKwargs
  <2>2. Harmless(kind, "quiz_url", "token", "datetime")
    BY <1>3 DEF Harmless, L!PREVIEW_LINK_PLACEHOLDER, L!CAPABILITY_URL_KEYS, L!Account, L!Assessment
  <2> QED
    BY <2>1, <2>2
<1>4. CASE kind = "quiz_reminder"
  <2>1. Arguments(kind, "quiz_url", "token", "datetime")
    BY <1>4 DEF Arguments, L!KwargsOf, L!Kwargs, L!ReminderKwargs
  <2>2. Harmless(kind, "quiz_url", "token", "datetime")
    BY <1>4 DEF Harmless, L!PREVIEW_LINK_PLACEHOLDER, L!CAPABILITY_URL_KEYS, L!Account, L!Assessment
  <2> QED
    BY <2>1, <2>2
<1>5. CASE kind = "message"
  <2>1. Arguments(kind, "none", "none", "none")
    BY <1>5 DEF Arguments, L!KwargsOf, L!Kwargs, L!MessageKwargs
  <2>2. Harmless(kind, "none", "none", "none")
    BY <1>5 DEF Harmless, L!PREVIEW_LINK_PLACEHOLDER, L!CAPABILITY_URL_KEYS, L!Account, L!Assessment
  <2> QED
    BY <2>1, <2>2
<1>6. CASE kind \in {"application_received", "google_linked"}
  <2>1. Arguments(kind, "none", "none", "none")
    BY <1>6 DEF Arguments, L!KwargsOf, L!Kwargs
  <2>2. Harmless(kind, "none", "none", "none")
    BY <1>6 DEF Harmless, L!PREVIEW_LINK_PLACEHOLDER, L!CAPABILITY_URL_KEYS, L!Account, L!Assessment
  <2> QED
    BY <2>1, <2>2
<1>7. CASE kind = "scorecard_request"
  <2>1. Arguments(kind, "url", "staff", "none")
    BY <1>7 DEF Arguments, L!KwargsOf, L!Kwargs
  <2>2. Harmless(kind, "url", "staff", "none")
    BY <1>7 DEF Harmless, L!PREVIEW_LINK_PLACEHOLDER, L!CAPABILITY_URL_KEYS, L!Account, L!Assessment
  <2> QED
    BY <2>1, <2>2
<1>8. CASE kind = "team_invite"
  <2>1. Arguments(kind, "invite_url", "secret", "datetime")
    BY <1>8 DEF Arguments, L!KwargsOf, L!Kwargs
  <2>2. Harmless(kind, "invite_url", "secret", "datetime")
    BY <1>8 DEF Harmless, L!PREVIEW_LINK_PLACEHOLDER, L!CAPABILITY_URL_KEYS, L!Account, L!Assessment
  <2> QED
    BY <2>1, <2>2
<1>9. CASE kind = "password_reset"
  <2>1. Arguments(kind, "reset_url", "secret", "none")
    BY <1>9 DEF Arguments, L!KwargsOf, L!Kwargs
  <2>2. Harmless(kind, "reset_url", "secret", "none")
    BY <1>9 DEF Harmless, L!PREVIEW_LINK_PLACEHOLDER, L!CAPABILITY_URL_KEYS, L!Account, L!Assessment
  <2> QED
    BY <2>1, <2>2
<1>10. CASE kind = "email_verification"
  <2>1. Arguments(kind, "verify_url", "secret", "none")
    BY <1>10 DEF Arguments, L!KwargsOf, L!Kwargs
  <2>2. Harmless(kind, "verify_url", "secret", "none")
    BY <1>10
       DEF Harmless, L!PREVIEW_LINK_PLACEHOLDER, L!CAPABILITY_URL_KEYS, L!Account, L!Assessment
  <2> QED
    BY <2>1, <2>2
<1> QED
  BY <1>1, <1>2, <1>3, <1>4, <1>5, <1>6, <1>7, <1>8, <1>9, <1>10
     DEF L!LetterKind, L!StageKind, L!Account

\* What a sender makes of its arguments: the words, whatever the recipient; the
\* company; and no link or the one it was given.
LEMMA SenderShape ==
  ASSUME NEW kind \in L!LetterKind, NEW kwargs
  PROVE  LET mail == L!Sender(kind, kwargs)
         IN  /\ mail = [words |-> mail.words, company |-> kwargs.company, url |-> mail.url,
                        calendar |-> L!NoCalendar]
             /\ mail.url \in {"none", kwargs.url}
             /\ kind \in L!StageKind =>
                  mail.words = L!TextFor(kind, kwargs).words /\ mail.url = kwargs.url
             /\ kind = "message" => mail.words = kwargs.override.words /\ mail.url = "none"
<1> USE DEF L!Sender, L!SendEmail
<1>1. CASE kind \in L!StageKind
  <2>1. L!Sender(kind, kwargs) = [words |-> L!TextFor(kind, kwargs).words, company |-> kwargs.company,
                                  url |-> kwargs.url, calendar |-> L!NoCalendar]
    BY <1>1
       DEF L!StageKind, L!SendQuizInvite, L!SendQuizReminder, L!SendStageAdvance, L!SendRejection,
                L!SendStage, L!Render, L!ActionBlock
  <2> HIDE DEF L!Sender
  <2> QED BY <2>1, <1>1 DEF L!StageKind
<1>2. CASE kind = "message"
  <2>1. L!Sender(kind, kwargs) = [words |-> kwargs.override.words, company |-> kwargs.company,
                                  url |-> "none", calendar |-> L!NoCalendar]
    BY <1>2 DEF L!SendMessage, L!RenderMessage
  <2> HIDE DEF L!Sender
  <2> QED BY <2>1, <1>2 DEF L!StageKind
<1>3. CASE kind \in L!Account \cup {"application_received", "scorecard_request"}
  <2>1. \E words, url : /\ url \in {"none", kwargs.url}
                        /\ L!Sender(kind, kwargs) = [words |-> words, company |-> kwargs.company,
                                                     url |-> url, calendar |-> L!NoCalendar]
    BY <1>3 DEF L!Account, L!SendApplicationReceived, L!SendTeamInvite, L!SendEmailVerification,
                L!SendPasswordReset, L!SendGoogleLinked, L!SendScorecardRequest, L!ScorecardMail
  <2> HIDE DEF L!Sender
  <2> QED BY <2>1, <1>3 DEF L!StageKind, L!Account
<1> QED
  BY <1>1, <1>2, <1>3 DEF L!LetterKind

\* A payload comes back from the outbox as it was queued.
LEMMA RoundTrip ==
  ASSUME NEW op, NEW key, NEW url, NEW expires, NEW to, NEW c, NEW text,
         Arguments(op.kind, key, url, expires), Harmless(op.kind, key, url, expires)
  PROVE  LET payload == L!Payload(op, L!KwargsOf(op.kind, to, c), text)
         IN  /\ L!Deserialize(payload) = [to |-> to, company |-> c, key |-> key, url |-> url,
                                          expires_at |-> expires, text |-> text, override |-> L!Override(op)]
             /\ payload.key = key /\ payload.url = url
<1> DEFINE kw == [to |-> to, company |-> c, key |-> key, url |-> url, expires_at |-> expires,
                  text |-> text, override |-> L!Override(op)]
           stored == [to |-> to, company |-> c, key |-> key, url |-> url,
                      expires_at |-> IF expires = "datetime" THEN "$dt" ELSE expires,
                      text |-> text, override |-> L!Override(op)]
<1>1. L!KwargsOf(op.kind, to, c) = [to |-> to, company |-> c, key |-> key, url |-> url,
                                    expires_at |-> expires, text |-> L!NoText, override |-> L!NoText]
  BY DEF Arguments
<1>2. [L!KwargsOf(op.kind, to, c) EXCEPT !.override = L!Override(op), !.text = text] = kw
  <2> DEFINE k == L!KwargsOf(op.kind, to, c)
             R == [to : {to}, company : {c}, key : {key}, url : {url}, expires_at : {expires},
                   text : {text, L!NoText}, override : {L!Override(op), L!NoText}]
             m == [k EXCEPT !.override = L!Override(op), !.text = text]
  <2>1. k \in R
    BY <1>1
  <2>2. m \in R /\ m.text = text /\ m.override = L!Override(op)
    BY <2>1
  <2> HIDE DEF m
  <2>3. m = kw
    BY <2>2
  <2> QED
    BY <2>3 DEF m
<1>3. L!Serialize(kw) = stored
  BY DEF L!Serialize
<1>4. L!Payload(op, L!KwargsOf(op.kind, to, c), text) = stored
  BY <1>2, <1>3 DEF L!Payload
<1>5. expires \in {"none", "datetime"}
  BY DEF Harmless
<1>6. L!Deserialize(stored) = kw
  BY <1>5 DEF L!Deserialize
<1> QED
  BY <1>4, <1>6

\* A text that was checked renders, edited or not.
LEMMA CheckedRenders ==
  ASSUME NEW op, op.kind \in L!StageKind, op.edit \in BOOLEAN, NEW to, NEW c, NEW text,
         L!Validate(op.kind, text)
  PROVE  L!StageRenders(op.kind, L!Deserialize(L!Payload(op, L!KwargsOf(op.kind, to, c), text)))
<1> DEFINE kw == L!Deserialize(L!Payload(op, L!KwargsOf(op.kind, to, c), text))
<1>1. PICK key, url, expires : Arguments(op.kind, key, url, expires) /\ Harmless(op.kind, key, url, expires)
  BY KwargsShape DEF L!LetterKind
<1>2. kw = [to |-> to, company |-> c, key |-> key, url |-> url, expires_at |-> expires,
            text |-> text, override |-> L!Override(op)]
  BY <1>1, RoundTrip
<1>3. L!Values(op.kind, kw) = L!PLACEHOLDERS[op.kind]
  BY <1>1, <1>2 DEF Harmless, L!Values, L!PLACEHOLDERS, L!StageKind, L!Assessment, L!Common
<1>4. L!ActionBlock(op.kind, kw).names \subseteq L!PLACEHOLDERS[op.kind]
  BY DEF L!ActionBlock, L!PLACEHOLDERS, L!StageKind, L!Assessment
<1>5. L!BUILTIN[op.kind].names \subseteq L!PLACEHOLDERS[op.kind]
  BY DEF L!BUILTIN, L!PLACEHOLDERS, L!StageKind, L!Common, L!Text
<1>6. kw.override # L!NoText \/ L!TextFor(op.kind, kw).names \subseteq L!PLACEHOLDERS[op.kind]
  BY <1>2, <1>5 DEF L!TextFor, L!Validate
<1> HIDE DEF kw
<1>7. L!StageRenders(op.kind, kw)
  BY <1>3, <1>4, <1>6 DEF L!StageRenders, L!Renders
<1> QED
  BY <1>7 DEF kw

\* A mail made from the text its preview was made from says what the preview
\* said, and is stored with the placeholder the preview had for the link.
LEMMA AsPreviewed ==
  ASSUME NEW op, op.kind \in L!StageKind \cup {"message"}, NEW from, NEW to, NEW c, NEW text
  PROVE  LET preview == L!PreviewOf(op, L!KwargsOf(op.kind, from, c), text)
             payload == L!Payload(op, L!KwargsOf(op.kind, to, c), text)
             mail == L!Sender(op.kind, L!Deserialize(payload))
         IN  /\ L!SameAs(mail, preview) /\ L!Stored(mail, payload) = preview
             /\ preview.url # "token"
<1> DEFINE k1 == L!KwargsOf(op.kind, from, c)
           payload == L!Payload(op, L!KwargsOf(op.kind, to, c), text)
           kw == L!Deserialize(payload)
           shownKw == [k1 EXCEPT !.override = L!Override(op), !.text = text,
                         !.url = IF @ = "token" THEN L!PREVIEW_LINK_PLACEHOLDER ELSE @]
           preview == L!Sender(op.kind, shownKw)
           mail == L!Sender(op.kind, kw)
<1>0. op.kind \in L!LetterKind
  BY DEF L!LetterKind
<1>1. PICK key, url, expires : Arguments(op.kind, key, url, expires) /\ Harmless(op.kind, key, url, expires)
  BY <1>0, KwargsShape
<1>2. /\ kw = [to |-> to, company |-> c, key |-> key, url |-> url,
               expires_at |-> expires, text |-> text, override |-> L!Override(op)]
      /\ payload.key = key /\ payload.url = url
  BY <1>1, RoundTrip
<1>3. k1 = [to |-> from, company |-> c, key |-> key, url |-> url,
            expires_at |-> expires, text |-> L!NoText, override |-> L!NoText]
  BY <1>1 DEF Arguments
<1>4. shownKw = [to |-> from, company |-> c, key |-> key,
                 url |-> IF url = "token" THEN L!PREVIEW_LINK_PLACEHOLDER ELSE url,
                 expires_at |-> expires, text |-> text, override |-> L!Override(op)]
  <2> DEFINE link == IF url = "token" THEN L!PREVIEW_LINK_PLACEHOLDER ELSE url
             R == [to : {from}, company : {c}, key : {key}, url : {url, link}, expires_at : {expires},
                   text : {text, L!NoText}, override : {L!Override(op), L!NoText}]
  <2>1. k1 \in R /\ k1.url = url
    BY <1>3
  <2> HIDE DEF k1
  <2>2. shownKw \in R /\ shownKw.text = text /\ shownKw.override = L!Override(op) /\ shownKw.url = link
    BY <2>1
  <2> HIDE DEF shownKw
  <2> QED
    BY <2>2
<1>5. L!PreviewOf(op, k1, text) = preview
  BY DEF L!PreviewOf
<1>9. op.kind = "message" => url = "none"
  <2>1. op.kind = "message" => L!KwargsOf(op.kind, to, c).url = "none"
    BY DEF L!KwargsOf, L!MessageKwargs, L!Kwargs
  <2> QED
    BY <2>1, <1>1 DEF Arguments
<1> HIDE DEF kw, shownKw, payload
<1>6. L!TextFor(op.kind, kw) = L!TextFor(op.kind, shownKw)
  BY <1>2, <1>4 DEF L!TextFor
<1>7. /\ mail = [words |-> mail.words, company |-> c, url |-> mail.url, calendar |-> L!NoCalendar]
      /\ op.kind \in L!StageKind => mail.words = L!TextFor(op.kind, shownKw).words /\ mail.url = url
      /\ op.kind = "message" => mail.words = L!Override(op).words /\ mail.url = "none"
  <2>1. kw.company = c /\ kw.url = url /\ kw.override = L!Override(op)
    BY <1>2
  <2>2. /\ mail = [words |-> mail.words, company |-> kw.company, url |-> mail.url, calendar |-> L!NoCalendar]
        /\ op.kind \in L!StageKind => mail.words = L!TextFor(op.kind, kw).words /\ mail.url = kw.url
        /\ op.kind = "message" => mail.words = kw.override.words /\ mail.url = "none"
    BY <1>0, SenderShape
  <2> HIDE DEF mail
  <2> QED
    BY <2>1, <2>2, <1>6
<1>8. /\ preview = [words |-> preview.words, company |-> c, url |-> preview.url, calendar |-> L!NoCalendar]
      /\ op.kind \in L!StageKind =>
           /\ preview.words = L!TextFor(op.kind, shownKw).words
           /\ preview.url = IF url = "token" THEN L!PREVIEW_LINK_PLACEHOLDER ELSE url
      /\ op.kind = "message" => preview.words = L!Override(op).words /\ preview.url = "none"
  <2>1. /\ shownKw.company = c /\ shownKw.override = L!Override(op)
        /\ shownKw.url = IF url = "token" THEN L!PREVIEW_LINK_PLACEHOLDER ELSE url
    BY <1>4
  <2> QED
    BY <1>0, <2>1, SenderShape
<1> HIDE DEF mail, preview
<1>10. mail.words = preview.words
  BY <1>7, <1>8
<1>11. L!SameAs(mail, preview)
  BY <1>7, <1>8, <1>10 DEF L!SameAs
<1>12. L!Stored(mail, payload) = preview
  BY <1>1, <1>2, <1>7, <1>8, <1>9, <1>10
     DEF Harmless, L!Stored, L!MaskCapabilityLinks, L!CAPABILITY_URL_KEYS, L!PREVIEW_LINK_PLACEHOLDER
<1>13. preview.url # "token"
  BY <1>8, <1>9 DEF L!PREVIEW_LINK_PLACEHOLDER
<1> QED
  BY <1>5, <1>11, <1>12, <1>13 DEF mail, preview, payload, kw

\* The candidate's mail never has the placeholder; what the team reads of it
\* never has the link.
LEMMA LinksApart ==
  ASSUME NEW op, op.kind \in L!LetterKind, NEW to, NEW c, NEW text
  PROVE  LET payload == L!Payload(op, L!KwargsOf(op.kind, to, c), text)
             mail == L!Sender(op.kind, L!Deserialize(payload))
         IN  /\ mail.url # L!PREVIEW_LINK_PLACEHOLDER
             /\ op.kind \notin L!Account => L!Stored(mail, payload).url \notin {"token", "secret"}
<1> DEFINE payload == L!Payload(op, L!KwargsOf(op.kind, to, c), text)
           kw == L!Deserialize(payload)
           mail == L!Sender(op.kind, kw)
<1>1. PICK key, url, expires : Arguments(op.kind, key, url, expires) /\ Harmless(op.kind, key, url, expires)
  BY KwargsShape
<1>2. kw.url = url /\ payload.key = key /\ payload.url = url
  <2>1. /\ kw = [to |-> to, company |-> c, key |-> key, url |-> url,
                 expires_at |-> expires, text |-> text, override |-> L!Override(op)]
        /\ payload.key = key /\ payload.url = url
    BY <1>1, RoundTrip
  <2> HIDE DEF kw
  <2> QED
    BY <2>1
<1> HIDE DEF kw, payload
<1>3. /\ mail = [words |-> mail.words, company |-> kw.company, url |-> mail.url, calendar |-> L!NoCalendar]
      /\ mail.url \in {"none", url}
  BY <1>2, SenderShape
<1> HIDE DEF mail
<1>4. mail.url # L!PREVIEW_LINK_PLACEHOLDER
  BY <1>1, <1>3 DEF Harmless, L!PREVIEW_LINK_PLACEHOLDER
<1>5. op.kind \notin L!Account => L!Stored(mail, payload).url \notin {"token", "secret"}
  BY <1>1, <1>2, <1>3
     DEF Harmless, L!CAPABILITY_URL_KEYS, L!Stored, L!MaskCapabilityLinks,
         L!PREVIEW_LINK_PLACEHOLDER
<1> QED
  BY <1>4, <1>5 DEF mail, payload, kw
-----------------------------------------------------------------------------
(***************************************************************************)
(* Templates and texts.                                                    *)
(***************************************************************************)
LEMMA LettersParts ==
  ASSUME L!LettersIInv
  PROVE  /\ L!LettersTypeOK /\ L!TemplatesValid /\ L!OneDefault /\ L!CorrectedHolds /\ L!DefaultsHold
         /\ \A p \in Clerk : L!ClerkKnows(p)
         /\ \A q \in Letter : L!LetterCarries(q) /\ L!RowCarries(q)
  BY DEF L!LettersIInv

LEMMA OpFacts ==
  ASSUME L!LettersConstants, L!LettersTypeOK, NEW q \in Letter
  PROVE  /\ post[q].op \in Ops /\ post[q].op.kind \in L!LetterKind /\ post[q].op.edit \in BOOLEAN
         /\ post[q].op.ref \in Template \cup {"builtin", "default"}
  BY DEF L!LettersConstants, L!LettersTypeOK

\* A text that is resolved is one that was checked, for its kind.
LEMMA TextsAreValid ==
  ASSUME L!LettersTypeOK, L!TemplatesValid, NEW op, NEW text \in L!TextsOf(op)
  PROVE  /\ text \in L!AnyText
         /\ op.kind \in L!StageKind => L!Validate(op.kind, text)
<1>1. op.kind \in L!StageKind => L!Validate(op.kind, L!BUILTIN[op.kind])
  BY DEF L!Validate, L!BUILTIN, L!PLACEHOLDERS, L!StageKind, L!Common, L!Text
<1>2. \A t \in Template : template[t].kind = op.kind /\ op.kind \in L!StageKind =>
        template[t].text \in Texts /\ L!Validate(op.kind, template[t].text)
  BY DEF L!TemplatesValid, L!Exists
<1>3. CASE op.kind \notin L!StageKind
  BY <1>3 DEF L!TextsOf, L!AnyText
<1>4. CASE op.kind \in L!StageKind
  <2>1. text = L!BUILTIN[op.kind] \/ \E t \in Template : template[t].kind = op.kind /\ text = template[t].text
    BY <1>4 DEF L!TextsOf, L!Resolve, L!OfKind, L!Defaults
  <2> QED
    BY <1>1, <1>2, <1>4, <2>1 DEF L!AnyText
<1> QED
  BY <1>3, <1>4

LEMMA TextsSame ==
  ASSUME template' = template
  PROVE  \A op : L!TextsOf(op)' = L!TextsOf(op)
  BY DEF L!TextsOf, L!Resolve, L!OfKind, L!Defaults

\* There is never a choice of texts.
LEMMA OneText ==
  ASSUME L!LettersConstants, L!LettersTypeOK, L!OneDefault, NEW op, NEW t1 \in L!TextsOf(op), NEW t2 \in L!TextsOf(op)
  PROVE  t1 = t2
<1>1. CASE op.kind \notin L!StageKind
  BY <1>1 DEF L!TextsOf
<1>2. CASE op.kind \in L!StageKind
  <2>1. \A t, u \in L!Defaults(op.kind) : t = u
    <3>1. CASE op.kind \in Kinds
      BY <3>1 DEF L!OneDefault
    <3>2. CASE op.kind \notin Kinds
      BY <1>2, <3>2 DEF L!Defaults, L!OfKind, L!LettersTypeOK, L!AnyTemplate, L!StageKind
    <3> QED
      BY <3>1, <3>2
  <2> QED
    BY <1>2, <2>1 DEF L!TextsOf, L!Resolve
<1> QED
  BY <1>1, <1>2

\* A text stays resolved while the templates of its kind are not touched, and
\* others are only added to them, without the flag.
LEMMA TextsStay ==
  ASSUME NEW op,
         \A t \in Template : \/ template'[t] = template[t]
                             \/ template[t].kind # op.kind /\ template'[t].kind # op.kind
                             \/ template[t].kind # op.kind /\ ~template'[t].default
  PROVE  L!TextsOf(op) \subseteq L!TextsOf(op)'
<1>1. L!Defaults(op.kind)' = L!Defaults(op.kind)
  BY DEF L!Defaults, L!OfKind
<1>2. \A t \in L!OfKind(op.kind) : t \in L!OfKind(op.kind)' /\ template'[t] = template[t]
  BY DEF L!OfKind
<1>3. \A t \in L!Defaults(op.kind) : template'[t] = template[t]
  BY <1>2 DEF L!Defaults
<1>4. op.kind \in L!StageKind => L!TextsOf(op) \subseteq L!TextsOf(op)'
  BY <1>1, <1>2, <1>3 DEF L!TextsOf, L!Resolve
<1>5. op.kind \notin L!StageKind => L!TextsOf(op)' = L!TextsOf(op)
  BY DEF L!TextsOf
<1> QED
  BY <1>4, <1>5
-----------------------------------------------------------------------------
(***************************************************************************)
(* The steps of a letter.                                                  *)
(***************************************************************************)
\* A step of one letter leaves the desk and the other letters alone.
LEMMA OneLetterMoves ==
  ASSUME L!LettersIInv, NEW q \in Letter,
         UNCHANGED <<template, company, address, desk, L!history>>,
         \A r \in Letter \ {q} : /\ post'[r] = post[r] /\ shown'[r] = shown[r] /\ row'[r] = row[r]
                                 /\ r \in moved' <=> r \in moved,
         L!LettersTypeOK', L!LetterCarries(q)', L!RowCarries(q)',
         row'[q].status = "scheduled" => row'[q].to = address \/ q \in unseen
  PROVE  L!LettersIInv'
<1> USE LettersParts
<1>1. (L!TemplatesValid /\ L!OneDefault /\ L!DefaultsHold)'
  <2>1. \A kind : L!OfKind(kind)' = L!OfKind(kind) /\ L!Defaults(kind)' = L!Defaults(kind)
    BY DEF L!Defaults, L!OfKind
  <2>2. L!DefaultsHold'
    BY <2>1 DEF L!DefaultsHold, L!history
  <2> QED
    BY <2>1, <2>2 DEF L!TemplatesValid, L!OneDefault, L!Exists
<1>2. L!CorrectedHolds'
  BY DEF L!CorrectedHolds, L!Scheduled, L!history
<1>3. \A p \in Clerk : L!ClerkKnows(p)'
  BY DEF L!ClerkKnows, L!Exists, L!OfKind
<1>4. ASSUME NEW r \in Letter
      PROVE  L!LetterCarries(r)' /\ L!RowCarries(r)'
  <2>1. CASE r # q
    <3>1. L!LetterCarries(r)'
      BY <2>1 DEF L!LetterCarries, L!history, L!TextsOf, L!Resolve, L!OfKind, L!Defaults
    <3>2. L!RowCarries(r)'
      BY <2>1 DEF L!RowCarries, L!MailOf, L!history
    <3> QED
      BY <3>1, <3>2
  <2> QED
    BY <2>1
<1> QED
  BY <1>1, <1>2, <1>3, <1>4 DEF L!LettersIInv

LEMMA PostTyped ==
  ASSUME L!LettersTypeOK, NEW q \in Letter, NEW new, post' = [post EXCEPT ![q] = new],
         new \in [op : Ops, to : Address, company : Company,
                  pc : {"idle", "shown", "check", "move", "queue", "done",
                        "refused", "lost", "killed"}],
         UNCHANGED <<template, company, address, desk, L!history>>,
         moved' \subseteq Letter, DOMAIN row' = Letter, DOMAIN shown' = Letter,
         \A r \in Letter : L!IsRow(row'[r])
  PROVE  L!LettersTypeOK'
  BY DEF L!LettersTypeOK, L!history

LEMMA PreviewKeeps ==
  ASSUME L!LettersConstants, L!LettersIInv, NEW q \in Letter, L!Preview(q)
  PROVE  L!LettersIInv'
<1> USE LettersParts
<1> DEFINE op == post[q].op
           new == [post[q] EXCEPT !.pc = "shown"]
<1>1. /\ post[q].pc = "idle" /\ op.kind \in L!StageKind \cup {"message"}
      /\ post' = [post EXCEPT ![q] = new]
      /\ UNCHANGED <<template, company, address, desk, L!history, moved, row>>
  BY DEF L!Preview, L!Goto, L!table
<1>2. PICK text \in L!TextsOf(op) :
        shown' = [shown EXCEPT ![q] = L!PreviewOf(op, L!KwargsOf(op.kind, address, company), text)]
  BY DEF L!Preview
<1>3. /\ new \in [op : Ops, to : Address, company : Company,
                  pc : {"idle", "shown", "check", "move", "queue", "done",
                        "refused", "lost", "killed"}]
      /\ new.op = op /\ new.pc = "shown"
  BY DEF L!LettersTypeOK
<1> HIDE DEF new
<1>4. L!LettersTypeOK'
  BY <1>1, <1>2, <1>3, PostTyped DEF L!LettersTypeOK
<1>5. post'[q] = new /\ shown'[q] = L!PreviewOf(op, L!KwargsOf(op.kind, address, company), text)
  BY <1>1, <1>2 DEF L!LettersTypeOK
<1>6. shown'[q].url # "token"
  BY <1>1, <1>5, AsPreviewed
<1>7. op.kind \in L!StageKind /\ op.ref \in Template => template[op.ref].kind = op.kind
  <2>1. op.ref \in Template => op.ref \notin {"builtin", "default"}
    BY DEF L!LettersConstants
  <2>2. op.kind \in L!StageKind /\ op.ref \in Template =>
          L!TextsOf(op) = {template[t].text : t \in L!OfKind(op.kind) \cap {op.ref}}
    BY <2>1 DEF L!TextsOf, L!Resolve
  <2> QED
    BY <1>2, <2>2 DEF L!OfKind
<1>8. L!TextsOf(op)' = L!TextsOf(op)
  BY <1>1, <1>3, <1>5, TextsSame
<1>9. L!LetterCarries(q)'
  BY <1>1, <1>2, <1>3, <1>5, <1>6, <1>7, <1>8 DEF L!LetterCarries, L!LettersTypeOK, L!UnderWay
<1>10. L!RowCarries(q)'
  BY <1>1, <1>3, <1>5 DEF L!RowCarries
<1>11. row'[q].status # "scheduled"
  BY <1>1 DEF L!RowCarries, L!NoRow
<1>12. \A r \in Letter \ {q} : post'[r] = post[r] /\ shown'[r] = shown[r] /\ row'[r] = row[r]
  BY <1>1, <1>2 DEF L!LettersTypeOK
<1> QED
  BY <1>1, <1>4, <1>9, <1>10, <1>11, <1>12, OneLetterMoves

LEMMA LoadKeeps ==
  ASSUME L!LettersConstants, L!LettersIInv, NEW q \in Letter, L!Load(q)
  PROVE  L!LettersIInv'
<1> USE LettersParts
<1> DEFINE op == post[q].op
           pc == IF post[q].pc = "shown" /\ op.kind \in {"stage_advance", "rejection"}
                 THEN "check" ELSE "queue"
           new == [post[q] EXCEPT !.to = address, !.company = company, !.pc = pc]
<1>1. /\ \/ post[q].pc = "shown"
         \/ post[q].pc = "idle" /\ op.kind \notin L!StageKind
      /\ post' = [post EXCEPT ![q] = new]
      /\ UNCHANGED <<template, company, address, desk, L!history, moved, row, shown>>
  <2>1. post' = [post EXCEPT ![q] = new]
    BY DEF L!Load
  <2>2. post[q].pc = "shown" \/ (post[q].pc = "idle" /\ op.kind \notin L!StageKind)
    BY DEF L!Load
  <2>3. UNCHANGED <<template, company, address, desk, L!history, moved, row, shown>>
    BY DEF L!Load, L!table
  <2> HIDE DEF new
  <2> QED
    BY <2>1, <2>2, <2>3
<1>2. /\ new \in [op : Ops, to : Address, company : Company,
                  pc : {"idle", "shown", "check", "move", "queue", "done",
                        "refused", "lost", "killed"}]
      /\ new.op = op /\ new.pc = pc /\ new.to = address /\ new.company = company
  BY DEF L!LettersTypeOK
<1>3. pc \in {"check", "queue"} /\ (post[q].pc = "idle" => pc = "queue")
  OBVIOUS
<1> HIDE DEF new, pc
<1>4. L!LettersTypeOK'
  BY <1>1, <1>2, PostTyped DEF L!LettersTypeOK
<1>5. post'[q] = new
  BY <1>1 DEF L!LettersTypeOK
<1>6. L!TextsOf(op)' = L!TextsOf(op)
  BY <1>1, <1>2, <1>5, TextsSame
<1>7. shown[q] # L!NoMail /\ q \notin overtaken =>
        \E to \in Address, text \in L!TextsOf(op) :
          shown[q] = L!PreviewOf(op, L!KwargsOf(op.kind, to, company), text)
  BY <1>1 DEF L!LetterCarries, L!UnderWay
<1>8. L!LetterCarries(q)'
  BY <1>1, <1>2, <1>3, <1>5, <1>6, <1>7 DEF L!LetterCarries, L!UnderWay, L!history
<1>9. L!RowCarries(q)' /\ row'[q].status # "scheduled"
  BY <1>1, <1>2, <1>3, <1>5 DEF L!RowCarries, L!NoRow
<1>10. \A r \in Letter \ {q} : post'[r] = post[r] /\ shown'[r] = shown[r] /\ row'[r] = row[r]
  BY <1>1 DEF L!LettersTypeOK
<1> QED
  BY <1>1, <1>4, <1>8, <1>9, <1>10, OneLetterMoves

\* A letter goes on to another point, with what it loaded.
LEMMA GotoKeeps ==
  ASSUME L!LettersConstants, L!LettersIInv, NEW q \in Letter,
         NEW pc \in {"move", "queue", "refused", "killed", "lost"}, L!Goto(q, pc),
         post[q].pc \in {"check", "move", "queue"},
         UNCHANGED <<L!table, shown, desk, L!history>>,
         pc \in {"move", "refused"} => post[q].pc = "check",
         pc = "lost" => post[q].op.ref \in Template /\ template[post[q].op.ref].kind = "gone"
  PROVE  L!LettersIInv'
<1> USE LettersParts
<1> DEFINE op == post[q].op
           new == [post[q] EXCEPT !.pc = pc]
<1>1. /\ post' = [post EXCEPT ![q] = new]
      /\ UNCHANGED <<template, company, address, desk, L!history, moved, row, shown>>
  BY DEF L!Goto, L!table
<1>2. /\ new \in [op : Ops, to : Address, company : Company,
                  pc : {"idle", "shown", "check", "move", "queue", "done",
                        "refused", "lost", "killed"}]
      /\ new.op = op /\ new.pc = pc /\ new.to = post[q].to /\ new.company = post[q].company
  BY DEF L!LettersTypeOK
<1> HIDE DEF new
<1>3. L!LettersTypeOK'
  BY <1>1, <1>2, PostTyped DEF L!LettersTypeOK
<1>4. post'[q] = new
  BY <1>1 DEF L!LettersTypeOK
<1>5. L!TextsOf(op)' = L!TextsOf(op)
  BY <1>1, <1>2, <1>4, TextsSame
<1>6. L!LetterCarries(q)'
  BY <1>1, <1>2, <1>4, <1>5 DEF L!LetterCarries, L!UnderWay, L!history
<1>7. L!RowCarries(q)' /\ row'[q].status # "scheduled"
  BY <1>1, <1>2, <1>4 DEF L!RowCarries, L!NoRow
<1>8. \A r \in Letter \ {q} : post'[r] = post[r] /\ shown'[r] = shown[r] /\ row'[r] = row[r]
  BY <1>1 DEF L!LettersTypeOK
<1> QED
  BY <1>1, <1>3, <1>6, <1>7, <1>8, OneLetterMoves

LEMMA CheckTemplateKeeps ==
  ASSUME L!LettersConstants, L!LettersIInv, NEW q \in Letter, L!CheckTemplate(q)
  PROVE  L!LettersIInv'
  BY GotoKeeps DEF L!CheckTemplate

LEMMA KillKeeps ==
  ASSUME L!LettersConstants, L!LettersIInv, NEW q \in Letter, L!Kill(q)
  PROVE  L!LettersIInv'
  BY GotoKeeps DEF L!Kill

LEMMA MoveKeeps ==
  ASSUME L!LettersConstants, L!LettersIInv, NEW q \in Letter, L!Move(q)
  PROVE  L!LettersIInv'
<1> USE LettersParts
<1> DEFINE op == post[q].op
<1>1. PICK to \in {post[q].to, address} :
        post' = [post EXCEPT ![q] = [post[q] EXCEPT !.pc = "queue", !.to = to]]
  BY DEF L!Move, L!LettersTypeOK
<1> DEFINE new == [post[q] EXCEPT !.pc = "queue", !.to = to]
<1>2. /\ post[q].pc = "move" /\ moved' = moved \cup {q}
      /\ UNCHANGED <<template, company, address, desk, L!history, row, shown>>
  BY DEF L!Move
<1>3. /\ new \in [op : Ops, to : Address, company : Company,
                  pc : {"idle", "shown", "check", "move", "queue", "done",
                        "refused", "lost", "killed"}]
      /\ new.op = op /\ new.pc = "queue" /\ new.to = to /\ new.company = post[q].company
  BY <1>1 DEF L!LettersTypeOK
<1>4. post' = [post EXCEPT ![q] = new]
  BY <1>1
<1> HIDE DEF new
<1>5. L!LettersTypeOK'
  BY <1>2, <1>3, <1>4, PostTyped DEF L!LettersTypeOK
<1>6. post'[q] = new
  BY <1>4 DEF L!LettersTypeOK
<1>7. L!TextsOf(op)' = L!TextsOf(op)
  BY <1>2, <1>3, <1>6, TextsSame
<1>8. L!LetterCarries(q)'
  BY <1>1, <1>2, <1>3, <1>6, <1>7 DEF L!LetterCarries, L!UnderWay, L!history
<1>9. L!RowCarries(q)' /\ row'[q].status # "scheduled"
  BY <1>2, <1>3, <1>6 DEF L!RowCarries, L!NoRow
<1>10. \A r \in Letter \ {q} : /\ post'[r] = post[r] /\ shown'[r] = shown[r] /\ row'[r] = row[r]
                               /\ r \in moved' <=> r \in moved
  BY <1>2, <1>4 DEF L!LettersTypeOK
<1> QED
  BY <1>2, <1>5, <1>8, <1>9, <1>10, OneLetterMoves

\* A row as a step of its mail writes it: queued, tried in vain, tried.
Filled(r, status, to, payload) == [r EXCEPT !.status = status, !.to = to, !.payload = payload]
Failed(r, attempts, status) == [r EXCEPT !.attempts = attempts, !.status = status]
Tried(r, attempts, status, stored, sent) ==
  [r EXCEPT !.attempts = attempts, !.status = status, !.stored = stored, !.sent = sent]

LEMMA RowWritten ==
  ASSUME NEW r, L!IsRow(r), NEW status, NEW to, NEW payload, NEW attempts, NEW stored, NEW sent
  PROVE  /\ LET n == Filled(r, status, to, payload)
            IN  L!IsRow(n) /\ n.status = status /\ n.to = to /\ n.payload = payload
                /\ n.stored = r.stored /\ n.sent = r.sent
         /\ LET n == Failed(r, attempts, status)
            IN  L!IsRow(n) /\ n.status = status /\ n.to = r.to /\ n.payload = r.payload
                /\ n.stored = r.stored /\ n.sent = r.sent
         /\ LET n == Tried(r, attempts, status, stored, sent)
            IN  L!IsRow(n) /\ n.status = status /\ n.to = r.to /\ n.payload = r.payload
                /\ n.stored = stored /\ n.sent = sent
<1> DEFINE R == [status : {r.status, status}, attempts : {r.attempts, attempts}, to : {r.to, to},
                 payload : {r.payload, payload}, stored : {r.stored, stored}, sent : {r.sent, sent}]
           n1 == [r EXCEPT !.status = status, !.to = to, !.payload = payload]
           n2 == [r EXCEPT !.attempts = attempts, !.status = status]
           n3 == [r EXCEPT !.attempts = attempts, !.status = status, !.stored = stored, !.sent = sent]
<1>1. r \in R
  BY DEF L!IsRow
<1>2. n1 \in R /\ n1.status = status /\ n1.to = to /\ n1.payload = payload
      /\ n1.stored = r.stored /\ n1.sent = r.sent
  BY <1>1
<1>3. n2 \in R /\ n2.status = status /\ n2.to = r.to /\ n2.payload = r.payload
      /\ n2.stored = r.stored /\ n2.sent = r.sent
  BY <1>1
<1>4. n3 \in R /\ n3.status = status /\ n3.to = r.to /\ n3.payload = r.payload
      /\ n3.stored = stored /\ n3.sent = sent
  BY <1>1
<1> HIDE DEF n1, n2, n3
<1>5. L!IsRow(n1) /\ L!IsRow(n2) /\ L!IsRow(n3)
  BY <1>2, <1>3, <1>4 DEF L!IsRow
<1> QED
  BY <1>2, <1>3, <1>4, <1>5 DEF n1, n2, n3, Filled, Failed, Tried

LEMMA QueueEmailKeeps ==
  ASSUME L!LettersConstants, L!LettersIInv, NEW q \in Letter, L!QueueEmail(q)
  PROVE  L!LettersIInv'
<1> USE LettersParts
<1> DEFINE op == post[q].op
<1>1. /\ post[q].pc = "queue"
      /\ UNCHANGED <<template, company, address, moved, shown, desk, L!history>>
  BY DEF L!QueueEmail
<1>2. CASE L!TextsOf(op) = {} /\ L!Goto(q, "lost") /\ UNCHANGED row
  <2>1. op.kind \in L!StageKind /\ op.ref \in Template /\ template[op.ref].kind # op.kind
    <3>1. op.kind \in L!StageKind
      BY <1>2 DEF L!TextsOf
    <3>2. op.ref \notin {"builtin", "default"}
      BY <1>2, <3>1 DEF L!TextsOf, L!Resolve, L!Defaults
    <3>3. L!TextsOf(op) = {template[t].text : t \in L!OfKind(op.kind) \cap {op.ref}}
      BY <3>1, <3>2 DEF L!TextsOf, L!Resolve
    <3> QED
      BY <1>2, <3>1, <3>2, <3>3, OpFacts DEF L!OfKind
  <2>2. template[op.ref].kind = "gone"
    BY <1>1, <2>1 DEF L!LetterCarries, L!UnderWay
  <2>3. UNCHANGED <<L!table, shown, desk, L!history>>
    BY <1>1, <1>2 DEF L!table
  <2> QED
    BY <1>1, <1>2, <2>1, <2>2, <2>3, GotoKeeps
<1>3. ASSUME NEW text \in L!TextsOf(op),
             row' = [row EXCEPT ![q] =
                      [L!NoRow EXCEPT !.status = IF op.held THEN "scheduled" ELSE "queued",
                         !.to = post[q].to,
                         !.payload = L!Payload(op, L!KwargsOf(op.kind, post[q].to, post[q].company), text)]],
             L!Goto(q, "done")
      PROVE  L!LettersIInv'
  <2> DEFINE new == [post[q] EXCEPT !.pc = "done"]
             status == IF op.held THEN "scheduled" ELSE "queued"
             payload == L!Payload(op, L!KwargsOf(op.kind, post[q].to, post[q].company), text)
             n == Filled(L!NoRow, status, post[q].to, payload)
  <2>1. post' = [post EXCEPT ![q] = new] /\ row' = [row EXCEPT ![q] = n]
    BY <1>3 DEF L!Goto, Filled
  <2>2. /\ new \in [op : Ops, to : Address, company : Company,
                    pc : {"idle", "shown", "check", "move", "queue", "done",
                          "refused", "lost", "killed"}]
        /\ new.op = op /\ new.pc = "done" /\ new.to = post[q].to /\ new.company = post[q].company
    BY DEF L!LettersTypeOK
  <2>3. L!IsRow(n) /\ n.status = status /\ n.to = post[q].to /\ n.payload = payload
        /\ n.stored = L!NoMail /\ n.sent = L!NoMail
    <3>1. L!IsRow(L!NoRow) /\ L!NoRow.stored = L!NoMail /\ L!NoRow.sent = L!NoMail
      BY DEF L!IsRow, L!NoRow
    <3> HIDE DEF status, payload
    <3> QED
      BY <3>1, RowWritten
  <2>4. status \in {"scheduled", "queued"}
    OBVIOUS
  <2> HIDE DEF new, n, status
  <2>5. post'[q] = new /\ row'[q] = n
    BY <2>1 DEF L!LettersTypeOK
  <2>6. L!LettersTypeOK'
    <3>1. DOMAIN row' = Letter /\ \A r \in Letter : L!IsRow(row'[r])
      BY <2>1, <2>3 DEF L!LettersTypeOK
    <3> QED
      BY <1>1, <2>1, <2>2, <3>1, PostTyped DEF L!LettersTypeOK
  <2>7. op' = op
    BY <2>2, <2>5
  <2>8. L!LetterCarries(q)'
    BY <1>1, <2>2, <2>5 DEF L!LetterCarries, L!UnderWay, L!history
  <2>9. text \in L!AnyText /\ (op.kind \in L!StageKind => L!Validate(op.kind, text))
    BY TextsAreValid
  <2>10. post[q].to \in Address /\ post[q].company \in Company
    BY DEF L!LettersTypeOK
  <2>11. L!MailOf(q)' = L!Sender(op.kind, L!Deserialize(payload))
    BY <2>3, <2>5, <2>7 DEF L!MailOf
  <2>12. shown[q] # L!NoMail /\ q \notin overtaken =>
           L!SameAs(L!MailOf(q)', shown[q]) /\ L!Stored(L!MailOf(q)', payload) = shown[q]
    <3> SUFFICES ASSUME shown[q] # L!NoMail, q \notin overtaken
                 PROVE  L!SameAs(L!MailOf(q)', shown[q]) /\ L!Stored(L!MailOf(q)', payload) = shown[q]
      OBVIOUS
    <3>1. PICK from \in Address, x \in L!TextsOf(op) :
            shown[q] = L!PreviewOf(op, L!KwargsOf(op.kind, from, post[q].company), x)
      BY <1>1 DEF L!LetterCarries, L!UnderWay
    <3>2. x = text
      BY <3>1, OneText
    <3>3. op.kind \in L!StageKind \cup {"message"}
      BY DEF L!LetterCarries
    <3> HIDE DEF op
    <3> QED
      BY <2>11, <3>1, <3>2, <3>3, AsPreviewed DEF payload
  <2>13. L!RowCarries(q)'
    <3> HIDE DEF payload
    <3>1. shown' = shown /\ overtaken' = overtaken
      BY <1>1 DEF L!history
    <3>2. \E to \in Address, c \in Company, x \in L!AnyText :
            /\ payload = L!Payload(op, L!KwargsOf(op.kind, to, c), x)
            /\ op.kind \in L!StageKind => L!Validate(op.kind, x)
      BY <2>9, <2>10 DEF payload
    <3> QED
      BY <2>2, <2>3, <2>4, <2>5, <2>12, <3>1, <3>2 DEF L!RowCarries
  <2>14. row'[q].to = address \/ q \in unseen
    BY <1>1, <2>3, <2>5 DEF L!LetterCarries
  <2>15. \A r \in Letter \ {q} : post'[r] = post[r] /\ shown'[r] = shown[r] /\ row'[r] = row[r]
    BY <1>1, <2>1 DEF L!LettersTypeOK
  <2> QED
    BY <1>1, <2>6, <2>8, <2>13, <2>14, <2>15, OneLetterMoves
<1> QED
  BY <1>2, <1>3 DEF L!QueueEmail

LEMMA DeliverKeeps ==
  ASSUME L!LettersConstants, L!LettersIInv, NEW q \in Letter, L!Deliver(q)
  PROVE  L!LettersIInv'
<1> USE LettersParts
<1> DEFINE kind == post[q].op.kind
           kwargs == L!Deserialize(row[q].payload)
           mail == L!Sender(kind, kwargs)
           stored == L!Stored(mail, row[q].payload)
           more == IF row[q].attempts + 1 >= MAX_ATTEMPTS THEN "failed" ELSE "queued"
           n1 == Failed(row[q], row[q].attempts + 1, more)
           n2(ok) == Tried(row[q], row[q].attempts + 1, IF ok THEN "sent" ELSE more, stored,
                           IF ok THEN mail ELSE row[q].sent)
           Fits(n) == /\ row' = [row EXCEPT ![q] = n] /\ L!IsRow(n)
                      /\ n.status \in {"queued", "sent", "failed"} /\ n.payload = row[q].payload
                      /\ n.stored \in {row[q].stored, stored}
                      /\ n.sent \in {row[q].sent, mail}
<1>1. /\ UNCHANGED <<template, company, address, moved, post, shown, desk, L!history>>
      /\ row[q].status \in {"queued", "scheduled"}
  BY DEF L!Deliver
<1>2. \/ row' = [row EXCEPT ![q] = n1]
      \/ \E ok \in BOOLEAN : row' = [row EXCEPT ![q] = n2(ok)]
  BY DEF L!Deliver, Failed, Tried
<1>3. mail = L!MailOf(q)
  BY DEF L!MailOf
<1>4. post[q].pc = "done"
  BY <1>1 DEF L!RowCarries, L!NoRow
<1>5. \E n : Fits(n)
  <2>1. L!IsRow(row[q])
    BY DEF L!LettersTypeOK
  <2>2. L!IsRow(n1) /\ n1.status = more /\ n1.payload = row[q].payload
        /\ n1.stored = row[q].stored /\ n1.sent = row[q].sent
    <3> HIDE DEF more
    <3> QED
      BY <2>1, RowWritten
  <2>3. ASSUME NEW ok \in BOOLEAN
        PROVE  LET n == n2(ok)
               IN  L!IsRow(n) /\ n.status = (IF ok THEN "sent" ELSE more) /\ n.payload = row[q].payload
                   /\ n.stored = stored /\ n.sent = (IF ok THEN mail ELSE row[q].sent)
    <3> HIDE DEF more, stored, mail
    <3> QED
      BY <2>1, RowWritten
  <2>4. more \in {"failed", "queued"}
    OBVIOUS
  <2> HIDE DEF n1, n2, more, stored, mail
  <2>6. CASE row' = [row EXCEPT ![q] = n1]
    BY <2>2, <2>4, <2>6
  <2>7. ASSUME NEW ok \in BOOLEAN, row' = [row EXCEPT ![q] = n2(ok)]
        PROVE  \E n : Fits(n)
    BY <2>3, <2>4, <2>7
  <2> QED
    BY <1>2, <2>6, <2>7
<1> HIDE DEF n1, n2, more
<1>6. PICK n : Fits(n)
  BY <1>5
<1>7. row'[q] = n /\ \A r \in Letter \ {q} : row'[r] = row[r]
  BY <1>6 DEF L!LettersTypeOK
<1>8. L!LettersTypeOK'
  BY <1>1, <1>6, <1>7 DEF L!LettersTypeOK, L!history
<1>9. L!LetterCarries(q)'
  BY <1>1, <1>4 DEF L!LetterCarries, L!UnderWay, L!history
<1>10. L!MailOf(q)' = L!MailOf(q) /\ row'[q].payload = row[q].payload
  BY <1>1, <1>6, <1>7 DEF L!MailOf
<1>11. L!RowCarries(q)'
  <2> HIDE DEF mail, stored
  <2>1. stored = L!Stored(L!MailOf(q), row[q].payload)
    BY <1>3 DEF stored
  <2> QED
    BY <1>1, <1>3, <1>4, <1>6, <1>7, <1>10, <2>1 DEF L!RowCarries, L!history
<1> QED
  BY <1>1, <1>6, <1>7, <1>8, <1>9, <1>11, OneLetterMoves
-----------------------------------------------------------------------------
(***************************************************************************)
(* The steps of the desk.                                                  *)
(***************************************************************************)
\* The kinds of a row that is there are not those of one that is not.
LEMMA KindsApart ==
  ASSUME L!LettersConstants
  PROVE  /\ "none" \notin L!StageKind /\ "gone" \notin L!StageKind
         /\ "none" \notin Kinds /\ "gone" \notin Kinds /\ Kinds \subseteq L!StageKind
  BY DEF L!LettersConstants, L!StageKind

\* A template is written once, changed, and deleted once: it keeps its kind.
KindsKept ==
  \A t \in Template : template'[t].kind \in {template[t].kind, "gone"} \/ template[t].kind = "none"

LEMMA StillKnows ==
  ASSUME L!LettersConstants, L!LettersTypeOK, NEW d \in Clerk, L!ClerkKnows(d), KindsKept,
         /\ desk'[d].op = desk[d].op /\ desk'[d].on = desk[d].on
         /\ desk'[d].seen = desk[d].seen /\ desk'[d].new = desk[d].new
         /\ desk[d].over \subseteq desk'[d].over,
         "create" \notin desk'[d].over => \A k \in Kinds : L!OfKind(k)' \subseteq L!OfKind(k),
         "default" \notin desk'[d].over => \A t \in Template : L!Exists(t) => template'[t].kind = "gone"
                                             \/ template'[t].default = template[t].default,
         "correct" \notin desk'[d].over => address' = address
  PROVE  L!ClerkKnows(d)'
<1> DEFINE e == desk[d]
<1>1. e.op \in {"update", "delete", "default"} =>
        /\ e.on \in Template /\ e.seen \in L!AnyTemplate /\ e.seen.kind \in Kinds
        /\ template[e.on].kind \in {e.seen.kind, "gone"}
        /\ template'[e.on].kind \in {e.seen.kind, "gone"}
        /\ L!Exists(e.on)' => L!Exists(e.on) /\ template'[e.on].kind # "gone"
  BY KindsApart DEF L!ClerkKnows, KindsKept, L!Exists
<1>2. e.op = "create" /\ "create" \notin desk'[d].over => Cardinality(L!OfKind(e.on)') < CAP_PER_KIND
  <2> SUFFICES ASSUME e.op = "create", "create" \notin desk'[d].over
               PROVE  Cardinality(L!OfKind(e.on)') < CAP_PER_KIND
    OBVIOUS
  <2>1. Cardinality(L!OfKind(e.on)) < CAP_PER_KIND /\ CAP_PER_KIND \in Nat
    BY Counted DEF L!ClerkKnows, L!LettersConstants
  <2>2. IsFiniteSet(L!OfKind(e.on)) /\ IsFiniteSet(L!OfKind(e.on)')
        /\ Cardinality(L!OfKind(e.on)') <= Cardinality(L!OfKind(e.on))
    <3>1. IsFiniteSet(L!OfKind(e.on))
      BY FS_Subset, Counted DEF L!OfKind, L!LettersConstants
    <3>2. e.on \in Kinds
      BY DEF L!ClerkKnows
    <3>3. L!OfKind(e.on)' \in SUBSET L!OfKind(e.on)
      BY <3>2
    <3> QED
      BY <3>1, <3>3, FS_Subset
  <2>3. Cardinality(L!OfKind(e.on)) \in Nat /\ Cardinality(L!OfKind(e.on)') \in Nat
    BY <2>2, FS_CardinalityType
  <2> QED
    BY <2>1, <2>2, <2>3
<1>3. e.op = "update" => e.new \in Texts /\ L!Validate(e.seen.kind, e.new)
  BY DEF L!ClerkKnows
<1>4. e.op = "create" => e.on \in Kinds /\ e.new \in Texts /\ L!Validate(e.on, e.new)
  BY DEF L!ClerkKnows
<1>5. e.op = "default" /\ "default" \notin desk'[d].over /\ L!Exists(e.on)' =>
        template'[e.on].default = e.seen.default
  BY <1>1 DEF L!ClerkKnows
<1>6. e.op = "reset" => e.on \in Kinds
  BY DEF L!ClerkKnows
<1>7. e.op = "correct" => e.new \in Address /\ ("correct" \notin desk'[d].over => e.seen = address')
  BY DEF L!ClerkKnows
<1>8. (L!OfKind(desk[d].on))' = L!OfKind(e.on)'
  BY DEF L!OfKind
<1> QED
  BY <1>1, <1>2, <1>3, <1>4, <1>5, <1>6, <1>7, Counted DEF L!ClerkKnows, L!OfKind, L!Exists

\* When a request ends, the others under way keep what they loaded.
LEMMA EndShape ==
  ASSUME L!LettersTypeOK, NEW p \in Clerk, NEW what, L!End(p, what)
  PROVE  /\ DOMAIN desk' = Clerk
         /\ \A d \in Clerk :
              /\ L!IsDesk(desk'[d])
              /\ \/ desk'[d] = L!Idle
                 \/ /\ desk'[d].op = desk[d].op /\ desk'[d].on = desk[d].on
                    /\ desk'[d].seen = desk[d].seen /\ desk'[d].new = desk[d].new
                    /\ desk'[d].over = desk[d].over \cup {what}
<1>1. ASSUME NEW d \in Clerk
      PROVE  LET n == [desk[d] EXCEPT !.over = @ \cup {what}]
             IN  /\ L!IsDesk(n)
                 /\ n.op = desk[d].op /\ n.on = desk[d].on /\ n.seen = desk[d].seen
                 /\ n.new = desk[d].new /\ n.over = desk[d].over \cup {what}
  <2> DEFINE e == desk[d]
             n == [e EXCEPT !.over = @ \cup {what}]
             R == [op : {e.op}, pc : {e.pc}, on : {e.on}, seen : {e.seen}, new : {e.new},
                   todo : {e.todo}, over : {e.over, e.over \cup {what}}]
  <2>1. e \in R
    BY DEF L!LettersTypeOK, L!IsDesk
  <2>2. n \in R /\ n.over = e.over \cup {what}
    BY <2>1
  <2> HIDE DEF n
  <2>3. n.op = e.op /\ n.on = e.on /\ n.seen = e.seen /\ n.new = e.new /\ L!IsDesk(n)
    BY <2>2 DEF L!IsDesk
  <2> QED
    BY <2>2, <2>3 DEF n
<1>2. L!IsDesk(L!Idle)
  BY DEF L!IsDesk, L!Idle
<1> QED
  BY <1>1, <1>2 DEF L!End

LEMMA ClerksKnow ==
  ASSUME L!LettersConstants, L!LettersIInv, NEW p \in Clerk, NEW what, L!End(p, what), KindsKept,
         what # "create" => \A k \in Kinds : L!OfKind(k)' \subseteq L!OfKind(k),
         what # "default" => \A t \in Template : L!Exists(t) => template'[t].kind = "gone"
                                             \/ template'[t].default = template[t].default,
         what # "correct" => address' = address
  PROVE  /\ DOMAIN desk' = Clerk
         /\ \A d \in Clerk :
              /\ L!IsDesk(desk'[d]) /\ L!ClerkKnows(d)'
              /\ desk'[d].op \in {"idle", "create", "update", "delete", "default", "reset", "correct"}
<1>1. /\ DOMAIN desk' = Clerk
      /\ \A d \in Clerk :
           /\ L!IsDesk(desk'[d])
           /\ \/ desk'[d] = L!Idle
              \/ /\ desk'[d].op = desk[d].op /\ desk'[d].on = desk[d].on
                 /\ desk'[d].seen = desk[d].seen /\ desk'[d].new = desk[d].new
                 /\ desk'[d].over = desk[d].over \cup {what}
  BY EndShape, LettersParts
<1>2. ASSUME NEW d \in Clerk
      PROVE  /\ L!ClerkKnows(d)'
             /\ desk'[d].op \in {"idle", "create", "update", "delete", "default", "reset", "correct"}
  <2>1. CASE desk'[d] = L!Idle
    BY <2>1 DEF L!ClerkKnows, L!Idle
  <2>2. CASE desk'[d] # L!Idle
    <3>1. L!ClerkKnows(d)'
      BY <1>1, <2>2, LettersParts, StillKnows
    <3> QED
      BY <1>1, <2>2, <3>1, LettersParts DEF L!LettersTypeOK
  <2> QED
    BY <2>1, <2>2
<1> QED
  BY <1>1, <1>2

\* A step of the desk leaves the letters where they are; those whose texts or
\* company it changes are overtaken, those whose address it changes crossed.
LEMMA LettersStayCarried ==
  ASSUME L!LettersIInv, UNCHANGED <<post, shown, moved>>, KindsKept,
         overtaken \subseteq overtaken', unseen \subseteq unseen',
         company' = company \/ \A q \in Letter : post[q].pc = "shown" => q \in overtaken',
         address' = address \/ \A q \in Letter : post[q].pc \in {"check", "move", "queue"} => q \in unseen',
         \A q \in Letter : post[q].pc \in L!UnderWay /\ q \notin overtaken' =>
            L!TextsOf(post[q].op) \subseteq L!TextsOf(post[q].op)',
         \A q \in Letter : \/ row'[q] = row[q]
                           \/ /\ row[q].status = "scheduled" /\ row'[q].status = "scheduled"
                              /\ row'[q].payload = row[q].payload
                              /\ row'[q].stored = row[q].stored /\ row'[q].sent = row[q].sent
  PROVE  \A q \in Letter : L!LetterCarries(q)' /\ L!RowCarries(q)'
<1> USE LettersParts
<1> SUFFICES ASSUME NEW q \in Letter
             PROVE  L!LetterCarries(q)' /\ L!RowCarries(q)'
  OBVIOUS
<1> DEFINE op == post[q].op
           pc == post[q].pc
<1>1. pc \in L!UnderWay /\ shown[q] # L!NoMail /\ q \notin overtaken' =>
        \E to \in Address, text \in L!TextsOf(op)' :
          shown[q] = L!PreviewOf(op, L!KwargsOf(op.kind, to,
                       IF pc = "shown" THEN company' ELSE post[q].company), text)
  <2> SUFFICES ASSUME pc \in L!UnderWay, shown[q] # L!NoMail, q \notin overtaken'
               PROVE  \E to \in Address, text \in L!TextsOf(op)' :
                        shown[q] = L!PreviewOf(op, L!KwargsOf(op.kind, to,
                                     IF pc = "shown" THEN company' ELSE post[q].company), text)
    OBVIOUS
  <2>1. PICK to \in Address, text \in L!TextsOf(op) :
          shown[q] = L!PreviewOf(op, L!KwargsOf(op.kind, to,
                       IF pc = "shown" THEN company ELSE post[q].company), text)
    BY DEF L!LetterCarries
  <2>2. text \in L!TextsOf(op)' /\ (pc = "shown" => company' = company)
    <3>1. L!TextsOf(op) \subseteq L!TextsOf(post[q].op)'
      BY DEF L!UnderWay
    <3>2. L!TextsOf(post[q].op)' = L!TextsOf(op)'
      OBVIOUS
    <3> QED
      BY <3>1
  <2> QED
    BY <2>1, <2>2
<1>2. pc \in L!UnderWay /\ op.kind \in L!StageKind /\ op.ref \in Template =>
        template'[op.ref].kind \in {op.kind, "gone"}
  BY DEF L!LetterCarries, KindsKept, L!StageKind
<1>3. pc = "lost" => op.ref \in Template /\ template'[op.ref].kind = "gone"
  BY DEF L!LetterCarries, KindsKept
<1>4. L!LetterCarries(q)'
  BY <1>1, <1>2, <1>3 DEF L!LetterCarries
<1>5. L!RowCarries(q)'
  <2>1. CASE row'[q] = row[q]
    BY <2>1 DEF L!RowCarries, L!MailOf
  <2>2. CASE row'[q] # row[q]
    <3>1. pc = "done"
      BY <2>2 DEF L!RowCarries, L!NoRow
    <3>2. L!MailOf(q)' = L!MailOf(q)
      BY <2>2 DEF L!MailOf
    <3> QED
      BY <2>2, <3>1, <3>2 DEF L!RowCarries
  <2> QED
    BY <2>1, <2>2
<1> QED
  BY <1>4, <1>5

\* The letters do not see a request of the desk begin or go on.
LEMMA DeskMoves ==
  ASSUME L!LettersConstants, L!LettersIInv, NEW p \in Clerk, NEW new, desk' = [desk EXCEPT ![p] = new],
         UNCHANGED <<L!table, post, shown, L!history>>,
         L!IsDesk(new), L!ClerkKnows(p)',
         new.op \in {"idle", "create", "update", "delete", "default", "reset", "correct"}
  PROVE  L!LettersIInv'
<1> USE LettersParts
<1>1. UNCHANGED <<template, company, address, moved, row, post, shown, chosen, overtaken, unseen, crowded>>
  BY DEF L!table, L!history
<1>2. L!LettersTypeOK'
  BY <1>1 DEF L!LettersTypeOK
<1>3. \A k : L!OfKind(k)' = L!OfKind(k) /\ L!Defaults(k)' = L!Defaults(k)
  BY <1>1 DEF L!Defaults, L!OfKind
<1>4. (L!TemplatesValid /\ L!OneDefault /\ L!CorrectedHolds /\ L!DefaultsHold)'
  <2>1. L!TemplatesValid' /\ L!CorrectedHolds'
    BY <1>1 DEF L!TemplatesValid, L!CorrectedHolds, L!Scheduled, L!Exists
  <2>2. L!OneDefault' /\ L!DefaultsHold'
    BY <1>1, <1>3 DEF L!OneDefault, L!DefaultsHold
  <2> QED
    BY <2>1, <2>2
<1>5. ASSUME NEW d \in Clerk
      PROVE  L!ClerkKnows(d)'
  <2>1. CASE d # p
    <3>1. desk'[d] = desk[d]
      BY <2>1 DEF L!LettersTypeOK
    <3> QED
      BY <1>1, <3>1, StillKnows DEF KindsKept, L!OfKind
  <2> QED
    BY <2>1
<1>6. \A q \in Letter : L!LetterCarries(q)' /\ L!RowCarries(q)'
  BY <1>1, TextsSame, LettersStayCarried DEF KindsKept
<1> QED
  BY <1>2, <1>4, <1>5, <1>6 DEF L!LettersIInv

LEMMA LoadResetKeeps ==
  ASSUME L!LettersConstants, L!LettersIInv, NEW p \in Clerk, NEW kind \in Kinds, L!LoadReset(p, kind)
  PROVE  L!LettersIInv'
<1> DEFINE d == [op |-> "reset", pc |-> "commit", on |-> kind, seen |-> "none", new |-> "none",
                 todo |-> {}, over |-> {}]
<1>0. [L!Idle EXCEPT !.op = "reset", !.pc = "commit", !.on = kind] = d
  <2> DEFINE i == [L!Idle EXCEPT !.op = "reset", !.pc = "commit", !.on = kind]
             R == [op : {"idle", "reset"}, pc : {"idle", "commit"}, on : {"none", kind},
                   seen : {"none"}, new : {"none"},
                   todo : {{}}, over : {{}}]
  <2>1. L!Idle \in R
    BY DEF L!Idle
  <2>2. i \in R /\ i.op = "reset" /\ i.pc = "commit" /\ i.on = kind
    BY <2>1
  <2> HIDE DEF i
  <2>3. i = d
    BY <2>2
  <2> QED
    BY <2>3 DEF i
<1>1. desk' = [desk EXCEPT ![p] = d] /\ UNCHANGED <<L!table, post, shown, L!history>>
  BY <1>0 DEF L!LoadReset, L!Begin
<1>2. L!IsDesk(d) /\ d.op = "reset"
  BY DEF L!IsDesk
<1>3. desk'[p] = d
  BY <1>1, LettersParts DEF L!LettersTypeOK
<1>4. L!ClerkKnows(p)'
  BY <1>3 DEF L!ClerkKnows
<1> HIDE DEF d
<1> QED
  BY <1>1, <1>2, <1>4, DeskMoves

LEMMA LoadCreateKeeps ==
  ASSUME L!LettersConstants, L!LettersIInv, NEW p \in Clerk, NEW kind \in Kinds, NEW text \in Texts,
         L!LoadCreate(p, kind, text)
  PROVE  L!LettersIInv'
<1> DEFINE d == [op |-> "create", pc |-> "commit", on |-> kind, seen |-> "none", new |-> text,
                 todo |-> {}, over |-> {}]
<1>0. [L!Idle EXCEPT !.op = "create", !.pc = "commit", !.on = kind, !.new = text] = d
  <2> DEFINE i == [L!Idle EXCEPT !.op = "create", !.pc = "commit", !.on = kind, !.new = text]
             R == [op : {"idle", "create"}, pc : {"idle", "commit"}, on : {"none", kind},
                   seen : {"none"}, new : {"none", text},
                   todo : {{}}, over : {{}}]
  <2>1. L!Idle \in R
    BY DEF L!Idle
  <2>2. i \in R /\ i.op = "create" /\ i.pc = "commit" /\ i.on = kind /\ i.new = text
    BY <2>1
  <2> HIDE DEF i
  <2>3. i = d
    BY <2>2
  <2> QED
    BY <2>3 DEF i
<1>1. /\ desk' = [desk EXCEPT ![p] = d] /\ UNCHANGED <<L!table, post, shown, L!history>>
      /\ L!Validate(kind, text) /\ Cardinality(L!OfKind(kind)) < CAP_PER_KIND
  BY <1>0, Counted DEF L!LoadCreate, L!Begin
<1>2. L!IsDesk(d) /\ d.op = "create"
  BY DEF L!IsDesk
<1>3. desk'[p] = d
  BY <1>1, LettersParts DEF L!LettersTypeOK
<1>4. L!ClerkKnows(p)'
  <2>1. template' = template
    BY <1>1 DEF L!table
  <2>2. L!OfKind(desk[p].on)' = L!OfKind(kind)
    BY <1>3, <2>1 DEF L!OfKind
  <2> QED
    BY <1>1, <1>3, <2>2, Counted DEF L!ClerkKnows
<1> HIDE DEF d
<1> QED
  BY <1>1, <1>2, <1>4, DeskMoves

LEMMA LoadTemplateKeeps ==
  ASSUME L!LettersConstants, L!LettersIInv, NEW p \in Clerk, NEW t \in Template, NEW text,
         NEW op \in {"update", "delete", "default"}, op = "update" => text \in Texts,
         L!LoadTemplate(p, op, t, text)
  PROVE  L!LettersIInv'
<1> USE LettersParts
<1> DEFINE d == [op |-> op, pc |-> "commit", on |-> t, seen |-> template[t], new |-> text,
                 todo |-> {}, over |-> {}]
<1>0. [L!Idle EXCEPT !.op = op, !.pc = "commit", !.on = t, !.seen = template[t], !.new = text] = d
  <2> DEFINE i == [L!Idle EXCEPT !.op = op, !.pc = "commit", !.on = t, !.seen = template[t], !.new = text]
             R == [op : {"idle", op}, pc : {"idle", "commit"}, on : {"none", t},
                   seen : {"none", template[t]}, new : {"none", text},
                   todo : {{}}, over : {{}}]
  <2>1. L!Idle \in R
    BY DEF L!Idle
  <2>2. i \in R /\ i.op = op /\ i.pc = "commit" /\ i.on = t /\ i.seen = template[t] /\ i.new = text
    BY <2>1
  <2> HIDE DEF i
  <2>3. i = d
    BY <2>2
  <2> QED
    BY <2>3 DEF i
<1>1. /\ desk' = [desk EXCEPT ![p] = d] /\ UNCHANGED <<L!table, post, shown, L!history>>
      /\ L!Exists(t)
      /\ op = "update" => L!Validate(template[t].kind, text)
  BY <1>0 DEF L!LoadTemplate, L!Begin
<1>2. L!IsDesk(d) /\ d.op = op
  BY DEF L!IsDesk
<1>3. desk'[p] = d
  BY <1>1 DEF L!LettersTypeOK
<1>4. L!ClerkKnows(p)'
  <2>1. template' = template
    BY <1>1 DEF L!table
  <2>2. template[t] \in L!AnyTemplate /\ template[t].kind \in Kinds
    BY <1>1, KindsApart DEF L!LettersTypeOK, L!AnyTemplate, L!Exists
  <2> QED
    BY <1>1, <1>3, <2>1, <2>2 DEF L!ClerkKnows, L!Exists
<1> HIDE DEF d
<1> QED
  BY <1>1, <1>2, <1>4, DeskMoves

LEMMA LoadCorrectionKeeps ==
  ASSUME L!LettersConstants, L!LettersIInv, NEW p \in Clerk, NEW a \in Address, L!LoadCorrection(p, a)
  PROVE  L!LettersIInv'
<1> DEFINE d == [op |-> "correct", pc |-> "select", on |-> "none", seen |-> address, new |-> a,
                 todo |-> {}, over |-> {}]
<1>0. [L!Idle EXCEPT !.op = "correct", !.pc = "select", !.seen = address, !.new = a] = d
  <2> DEFINE i == [L!Idle EXCEPT !.op = "correct", !.pc = "select", !.seen = address, !.new = a]
             R == [op : {"idle", "correct"}, pc : {"idle", "select"}, on : {"none"},
                   seen : {"none", address}, new : {"none", a},
                   todo : {{}}, over : {{}}]
  <2>1. L!Idle \in R
    BY DEF L!Idle
  <2>2. i \in R /\ i.op = "correct" /\ i.pc = "select" /\ i.seen = address /\ i.new = a
    BY <2>1
  <2> HIDE DEF i
  <2>3. i = d
    BY <2>2
  <2> QED
    BY <2>3 DEF i
<1>1. desk' = [desk EXCEPT ![p] = d] /\ UNCHANGED <<L!table, post, shown, L!history>>
  BY <1>0 DEF L!LoadCorrection, L!Begin
<1>2. L!IsDesk(d) /\ d.op = "correct"
  BY DEF L!IsDesk
<1>3. desk'[p] = d /\ address' = address
  BY <1>1, LettersParts DEF L!LettersTypeOK, L!table
<1>4. L!ClerkKnows(p)'
  BY <1>3 DEF L!ClerkKnows
<1> HIDE DEF d
<1> QED
  BY <1>1, <1>2, <1>4, DeskMoves

LEMMA SelectHeldKeeps ==
  ASSUME L!LettersConstants, L!LettersIInv, NEW p \in Clerk, L!SelectHeld(p)
  PROVE  L!LettersIInv'
<1> USE LettersParts
<1> DEFINE e == desk[p]
           d == [e EXCEPT !.pc = "commit", !.todo = L!Scheduled]
           R == [op : {e.op}, pc : {e.pc, "commit"}, on : {e.on}, seen : {e.seen}, new : {e.new},
                 todo : {e.todo, L!Scheduled}, over : {e.over}]
<1>1. desk' = [desk EXCEPT ![p] = d] /\ UNCHANGED <<L!table, post, shown, L!history>>
  BY DEF L!SelectHeld
<1>2. e \in R
  BY DEF L!LettersTypeOK, L!IsDesk
<1>3. d \in R
  BY <1>2
<1> HIDE DEF d
<1>4. /\ L!IsDesk(d) /\ d.op = e.op /\ d.on = e.on /\ d.seen = e.seen /\ d.new = e.new /\ d.over = e.over
  BY <1>3 DEF L!IsDesk
<1>5. desk'[p] = d
  BY <1>1 DEF L!LettersTypeOK
<1>6. template' = template /\ address' = address
  BY <1>1 DEF L!table
<1>7. L!ClerkKnows(p)'
  BY <1>4, <1>5, <1>6, StillKnows DEF KindsKept, L!OfKind
<1> QED
  BY <1>1, <1>4, <1>7, DeskMoves DEF L!LettersTypeOK

\* A request that writes templates overtakes the letters of their kind, or adds
\* one that nobody has asked for yet.
LEMMA TemplatesChange ==
  ASSUME L!LettersConstants, L!LettersIInv, NEW p \in Clerk, NEW kind,
         NEW what \in {"create", "update", "delete", "default"}, L!End(p, what), L!Quiet,
         unseen' = unseen, KindsKept,
         \/ /\ L!Overtaking(kind)
            /\ \A t \in Template : \/ template'[t] = template[t]
                                   \/ template[t].kind \in {kind, "gone"} /\ template'[t].kind \in {kind, "gone"}
         \/ /\ overtaken' = overtaken
            /\ \A t \in Template : \/ template'[t] = template[t]
                                   \/ template[t].kind = "none" /\ ~template'[t].default,
         what # "create" => \A k \in Kinds : L!OfKind(k)' \subseteq L!OfKind(k),
         what # "default" => \A t \in Template : L!Exists(t) => template'[t].kind = "gone"
                                             \/ template'[t].default = template[t].default,
         template' \in [Template -> L!AnyTemplate],
         chosen' \in [Kinds -> [as : Template \cup {"builtin"}, sure : BOOLEAN]],
         (L!TemplatesValid /\ L!OneDefault /\ L!DefaultsHold)'
  PROVE  L!LettersIInv'
<1> USE LettersParts
<1>1. UNCHANGED <<company, address, moved, row, post, shown>>
  BY DEF L!Quiet
<1>2. overtaken \subseteq overtaken' /\ overtaken' \subseteq Letter
  BY DEF L!Overtaking, L!LettersTypeOK
<1>3. /\ DOMAIN desk' = Clerk
      /\ \A d \in Clerk :
           /\ L!IsDesk(desk'[d]) /\ L!ClerkKnows(d)'
           /\ desk'[d].op \in {"idle", "create", "update", "delete", "default", "reset", "correct"}
  BY <1>1, ClerksKnow
<1>4. L!LettersTypeOK'
  BY <1>1, <1>2, <1>3 DEF L!LettersTypeOK
<1>5. L!CorrectedHolds'
  BY <1>1 DEF L!CorrectedHolds, L!Scheduled
<1>6. ASSUME NEW q \in Letter, post[q].pc \in L!UnderWay, q \notin overtaken'
      PROVE  L!TextsOf(post[q].op) \subseteq L!TextsOf(post[q].op)'
  <2> DEFINE op == post[q].op
  <2>1. op.kind \in L!LetterKind /\ op.kind \notin {"gone", "none"}
    BY OpFacts DEF L!LetterKind, L!StageKind, L!Account
  <2>2. \A t \in Template : \/ template'[t] = template[t]
                            \/ template[t].kind # op.kind /\ template'[t].kind # op.kind
                            \/ template[t].kind # op.kind /\ ~template'[t].default
    <3>1. CASE overtaken' = overtaken
               /\ \A t \in Template : \/ template'[t] = template[t]
                                      \/ template[t].kind = "none" /\ ~template'[t].default
      BY <2>1, <3>1
    <3>2. CASE L!Overtaking(kind)
               /\ \A t \in Template : \/ template'[t] = template[t]
                                      \/ template[t].kind \in {kind, "gone"} /\ template'[t].kind \in {kind, "gone"}
      <4>1. op.kind # kind
        BY <1>6, <3>2 DEF L!Overtaking, L!UnderWay
      <4> QED
        BY <2>1, <3>2, <4>1
    <3> QED
      BY <3>1, <3>2
  <2>3. L!TextsOf(op) \subseteq L!TextsOf(op)'
    <3>1. op' = op
      BY <1>1
    <3>2. \A x : x.kind = op.kind /\ x = op => L!TextsOf(x) \subseteq L!TextsOf(x)'
      BY <2>2, TextsStay
    <3> HIDE DEF op
    <3> QED
      BY <3>1, <3>2
  <2> QED
    BY <2>3
<1>7. \A q \in Letter : L!LetterCarries(q)' /\ L!RowCarries(q)'
  BY <1>1, <1>2, <1>6, LettersStayCarried
<1> QED
  BY <1>3, <1>4, <1>5, <1>7 DEF L!LettersIInv

LEMMA CardinalOfKind ==
  ASSUME L!LettersConstants, NEW k
  PROVE  IsFiniteSet(L!OfKind(k)) /\ Cardinality(L!OfKind(k)) \in Nat
         /\ \A S \in SUBSET L!OfKind(k) : Cardinality(S) \in Nat /\ Cardinality(S) <= Cardinality(L!OfKind(k))
<1>1. IsFiniteSet(L!OfKind(k))
  BY FS_Subset, Counted DEF L!OfKind, L!LettersConstants
<1>2. \A S \in SUBSET L!OfKind(k) : IsFiniteSet(S) /\ Cardinality(S) <= Cardinality(L!OfKind(k))
  BY <1>1, FS_Subset
<1> QED
  BY <1>1, <1>2, FS_CardinalityType

LEMMA CreateKeeps ==
  ASSUME L!LettersConstants, L!LettersIInv, NEW p \in Clerk, L!Create(p)
  PROVE  L!LettersIInv'
<1> USE LettersParts, KindsApart
<1> DEFINE kind == desk[p].on
           new == [kind |-> kind, text |-> desk[p].new, default |-> FALSE]
<1>1. PICK t \in Template : template[t] = L!NoTemplate /\ template' = [template EXCEPT ![t] = new]
  BY DEF L!Create
<1>2. /\ desk[p].op = "create" /\ L!End(p, "create") /\ L!Quiet
      /\ UNCHANGED <<chosen, overtaken, unseen>>
      /\ crowded' = IF "create" \in desk[p].over THEN crowded \cup {kind} ELSE crowded
  BY DEF L!Create, L!At
<1>3. /\ kind \in Kinds /\ desk[p].new \in Texts /\ L!Validate(kind, desk[p].new)
      /\ "create" \notin desk[p].over => Cardinality(L!OfKind(kind)) < CAP_PER_KIND
  BY <1>2, Counted DEF L!ClerkKnows
<1>4. new \in L!AnyTemplate /\ new.kind = kind /\ new.text = desk[p].new /\ new.default = FALSE
  BY <1>3 DEF L!AnyTemplate
<1>5. template[t].kind = "none" /\ ~L!Exists(t)
  BY <1>1 DEF L!NoTemplate, L!Exists
<1> HIDE DEF new
<1>6. template' \in [Template -> L!AnyTemplate]
      /\ \A u \in Template : template'[u] = IF u = t THEN new ELSE template[u]
  BY <1>1, <1>4 DEF L!LettersTypeOK
<1>7. KindsKept
  BY <1>5, <1>6 DEF KindsKept
<1>8. \A k : k \in Kinds => L!Defaults(k)' = L!Defaults(k)
  BY <1>4, <1>5, <1>6 DEF L!Defaults, L!OfKind
<1>9. \A k : k \in Kinds => L!OfKind(k)' = IF k = kind THEN L!OfKind(k) \cup {t} ELSE L!OfKind(k)
  BY <1>4, <1>5, <1>6 DEF L!OfKind
<1>10. L!TemplatesValid' /\ L!OneDefault'
  <2>1. L!TemplatesValid'
    BY <1>3, <1>4, <1>6 DEF L!TemplatesValid, L!Exists
  <2> QED
    BY <1>8, <2>1 DEF L!OneDefault
<1>11. ASSUME NEW k \in Kinds
       PROVE  Cardinality(L!OfKind(k)') <= CAP_PER_KIND \/ k \in crowded'
  <2>1. CASE k # kind
    BY <1>2, <1>9, <2>1, Counted DEF L!DefaultsHold
  <2>2. CASE k = kind /\ "create" \in desk[p].over
    BY <1>2, <2>2
  <2>3. CASE k = kind /\ "create" \notin desk[p].over
    <3>1. L!OfKind(k)' = L!OfKind(k) \cup {t} /\ IsFiniteSet(L!OfKind(k)) /\ Cardinality(L!OfKind(k)) \in Nat
      BY <1>9, <2>3, CardinalOfKind
    <3>2. Cardinality(L!OfKind(k) \cup {t}) \in {Cardinality(L!OfKind(k)), Cardinality(L!OfKind(k)) + 1}
      BY <3>1, FS_AddElement
    <3>3. Cardinality(L!OfKind(k)) < CAP_PER_KIND /\ CAP_PER_KIND \in Nat
      BY <1>3, <2>3 DEF L!LettersConstants
    <3> QED
      BY <3>1, <3>2, <3>3
  <2> QED
    BY <2>1, <2>2, <2>3
<1>12. L!DefaultsHold'
  BY <1>2, <1>8, <1>11, Counted DEF L!DefaultsHold
<1>13. \A u \in Template : \/ template'[u] = template[u]
                           \/ template[u].kind = "none" /\ ~template'[u].default
  BY <1>4, <1>5, <1>6
<1>14. \A u \in Template : L!Exists(u) => template'[u].default = template[u].default
  BY <1>5, <1>6
<1>15. chosen' \in [Kinds -> [as : Template \cup {"builtin"}, sure : BOOLEAN]]
  BY <1>2 DEF L!LettersTypeOK
<1> QED
  BY <1>2, <1>6, <1>7, <1>10, <1>12, <1>13, <1>14, <1>15, TemplatesChange

LEMMA UpdateTemplateKeeps ==
  ASSUME L!LettersConstants, L!LettersIInv, NEW p \in Clerk, L!UpdateTemplate(p)
  PROVE  L!LettersIInv'
<1> USE LettersParts, KindsApart
<1> DEFINE t == desk[p].on
           kind == desk[p].seen.kind
           text == desk[p].new
           writes == L!Exists(t) /\ text # desk[p].seen.text
           new == [template[t] EXCEPT !.text = text]
<1>1. /\ desk[p].op = "update" /\ L!End(p, "update") /\ L!Quiet /\ L!Overtaking(kind)
      /\ UNCHANGED <<chosen, unseen, crowded>>
      /\ template' = IF writes THEN [template EXCEPT ![t] = new] ELSE template
  BY DEF L!UpdateTemplate, L!At
<1>2. /\ t \in Template /\ kind \in Kinds /\ template[t].kind \in {kind, "gone"}
      /\ text \in Texts /\ L!Validate(kind, text)
  BY <1>1 DEF L!ClerkKnows
<1>3. /\ new \in L!AnyTemplate /\ new.kind = template[t].kind /\ new.text = text
      /\ new.default = template[t].default
  BY <1>2 DEF L!LettersTypeOK, L!AnyTemplate
<1> HIDE DEF new, text
<1>4. /\ template' \in [Template -> L!AnyTemplate]
      /\ \A u \in Template : template'[u] = IF u = t /\ writes THEN new ELSE template[u]
  BY <1>1, <1>3 DEF L!LettersTypeOK
<1>5. \A u \in Template : template'[u].kind = template[u].kind /\ template'[u].default = template[u].default
  BY <1>3, <1>4
<1> HIDE DEF t
<1>6. \A k : L!OfKind(k)' = L!OfKind(k) /\ L!Defaults(k)' = L!Defaults(k)
  BY <1>5 DEF L!OfKind, L!Defaults
<1>7. L!TemplatesValid'
  <2> SUFFICES ASSUME NEW u \in Template, L!Exists(u)'
               PROVE  template'[u].text \in Texts /\ L!Validate(template'[u].kind, template'[u].text)
    BY DEF L!TemplatesValid
  <2>1. CASE u = t /\ writes
    BY <1>2, <1>3, <1>4, <2>1 DEF L!Exists
  <2>2. CASE ~(u = t /\ writes)
    BY <1>4, <2>2 DEF L!TemplatesValid, L!Exists
  <2> QED
    BY <2>1, <2>2
<1>8. L!OneDefault' /\ L!DefaultsHold'
  BY <1>1, <1>6 DEF L!OneDefault, L!DefaultsHold
<1>9. KindsKept
  BY <1>5 DEF KindsKept
<1>10. chosen' \in [Kinds -> [as : Template \cup {"builtin"}, sure : BOOLEAN]]
  BY <1>1 DEF L!LettersTypeOK
<1>11. \A u \in Template : \/ template'[u] = template[u]
                           \/ template[u].kind \in {kind, "gone"} /\ template'[u].kind \in {kind, "gone"}
  BY <1>2, <1>4, <1>5
<1> HIDE DEF kind
<1> QED
  BY <1>1, <1>4, <1>5, <1>6, <1>7, <1>8, <1>9, <1>10, <1>11, TemplatesChange

LEMMA DeleteKeeps ==
  ASSUME L!LettersConstants, L!LettersIInv, NEW p \in Clerk, L!Delete(p)
  PROVE  L!LettersIInv'
<1> USE LettersParts, KindsApart
<1> DEFINE t == desk[p].on
           kind == desk[p].seen.kind
           none == [chosen[kind] EXCEPT !.as = "builtin"]
<1>1. /\ desk[p].op = "delete" /\ L!End(p, "delete") /\ L!Quiet /\ L!Overtaking(kind)
      /\ UNCHANGED <<unseen, crowded>>
      /\ template' = [template EXCEPT ![t] = L!Gone]
      /\ chosen' = IF chosen[kind].as = t THEN [chosen EXCEPT ![kind] = none] ELSE chosen
  BY DEF L!Delete, L!At
<1>2. t \in Template /\ kind \in Kinds /\ template[t].kind \in {kind, "gone"}
  BY <1>1 DEF L!ClerkKnows
<1>3. L!Gone \in L!AnyTemplate /\ L!Gone.kind = "gone"
  <2>1. L!NoTemplate \in L!AnyTemplate
    BY DEF L!NoTemplate, L!AnyTemplate
  <2> QED
    BY <2>1 DEF L!Gone, L!AnyTemplate
<1>4. none \in [as : Template \cup {"builtin"}, sure : BOOLEAN] /\ none.as = "builtin"
      /\ none.sure = chosen[kind].sure
  BY <1>2 DEF L!LettersTypeOK
<1> HIDE DEF none
<1>5. /\ template' \in [Template -> L!AnyTemplate]
      /\ \A u \in Template : template'[u] = IF u = t THEN L!Gone ELSE template[u]
  BY <1>1, <1>2, <1>3 DEF L!LettersTypeOK
<1>6. /\ chosen' \in [Kinds -> [as : Template \cup {"builtin"}, sure : BOOLEAN]]
      /\ \A k \in Kinds : chosen'[k] = IF k = kind /\ chosen[kind].as = t THEN none ELSE chosen[k]
  BY <1>1, <1>2, <1>4 DEF L!LettersTypeOK
<1>7. \A k \in Kinds : L!OfKind(k)' = L!OfKind(k) \ {t} /\ L!Defaults(k)' = L!Defaults(k) \ {t}
  BY <1>3, <1>5 DEF L!OfKind, L!Defaults
<1>8. \A k \in Kinds : k # kind => t \notin L!Defaults(k)
  BY <1>2 DEF L!OfKind, L!Defaults
<1> HIDE DEF t
<1>9. L!TemplatesValid' /\ L!OneDefault'
  <2>1. L!TemplatesValid'
    BY <1>3, <1>5 DEF L!TemplatesValid, L!Exists
  <2> QED
    BY <1>7, <2>1 DEF L!OneDefault
<1>10. L!DefaultsHold'
  <2> SUFFICES ASSUME NEW k \in Kinds
               PROVE  /\ Cardinality(L!Defaults(k)') <= 1
                      /\ chosen'[k].sure => L!Defaults(k)' = {chosen'[k].as} \ {"builtin"}
                      /\ Cardinality(L!OfKind(k)') <= CAP_PER_KIND \/ k \in crowded'
    BY Counted DEF L!DefaultsHold
  <2>1. /\ Cardinality(L!Defaults(k)) <= 1
        /\ chosen[k].sure => L!Defaults(k) = {chosen[k].as} \ {"builtin"}
        /\ Cardinality(L!OfKind(k)) <= CAP_PER_KIND \/ k \in crowded
    BY Counted DEF L!DefaultsHold
  <2>2. Cardinality(L!Defaults(k)') <= 1
    <3>1. L!Defaults(k) \subseteq L!OfKind(k)
      BY DEF L!Defaults
    <3>2. IsFiniteSet(L!Defaults(k)) /\ Cardinality(L!Defaults(k)) \in Nat
      BY <3>1, CardinalOfKind, FS_Subset
    <3>3. L!Defaults(k) \ {t} \in SUBSET L!Defaults(k)
      OBVIOUS
    <3>4. IsFiniteSet(L!Defaults(k) \ {t}) /\ Cardinality(L!Defaults(k) \ {t}) <= Cardinality(L!Defaults(k))
      BY <3>2, <3>3, FS_Subset
    <3>5. Cardinality(L!Defaults(k) \ {t}) \in Nat
      BY <3>4, FS_CardinalityType
    <3>6. L!Defaults(k)' = L!Defaults(k) \ {t}
      BY <1>7
    <3> QED
      BY <2>1, <3>2, <3>4, <3>5, <3>6
  <2>3. Cardinality(L!OfKind(k)') <= CAP_PER_KIND \/ k \in crowded'
    <3>1. /\ Cardinality(L!OfKind(k)) \in Nat /\ Cardinality(L!OfKind(k) \ {t}) \in Nat
          /\ Cardinality(L!OfKind(k) \ {t}) <= Cardinality(L!OfKind(k))
      <4>1. L!OfKind(k) \ {t} \in SUBSET L!OfKind(k)
        OBVIOUS
      <4> QED
        BY <4>1, CardinalOfKind
    <3>2. CAP_PER_KIND \in Nat
      BY DEF L!LettersConstants
    <3>3. L!OfKind(k)' = L!OfKind(k) \ {t} /\ crowded' = crowded
      BY <1>1, <1>7
    <3> QED
      BY <2>1, <3>1, <3>2, <3>3
  <2>4. chosen'[k].sure => L!Defaults(k)' = {chosen'[k].as} \ {"builtin"}
    BY <1>4, <1>6, <1>7, <1>8, <2>1
  <2> QED
    BY <2>2, <2>3, <2>4
<1>11. KindsKept
  BY <1>3, <1>5 DEF KindsKept
<1>12. \A k \in Kinds : L!OfKind(k)' \subseteq L!OfKind(k)
  BY <1>7
<1>13. \A u \in Template : L!Exists(u) => template'[u].kind = "gone" \/ template'[u].default = template[u].default
  BY <1>3, <1>5
<1>14. \A u \in Template : \/ template'[u] = template[u]
                           \/ template[u].kind \in {kind, "gone"} /\ template'[u].kind \in {kind, "gone"}
  BY <1>2, <1>3, <1>5
<1> HIDE DEF kind
<1> QED
  BY <1>1, <1>5, <1>6, <1>9, <1>10, <1>11, <1>12, <1>13, <1>14, TemplatesChange

\* A request that chooses a default moves nothing but flags, of one kind.
LEMMA FlagsChange ==
  ASSUME L!LettersConstants, L!LettersIInv, NEW p \in Clerk, NEW kind \in Kinds,
         L!End(p, "default"), L!Quiet, L!Overtaking(kind), UNCHANGED <<unseen, crowded>>,
         template' \in [Template -> L!AnyTemplate],
         \A u \in Template : /\ template'[u].kind = template[u].kind
                             /\ template'[u].text = template[u].text
                             /\ template'[u] = template[u] \/ template[u].kind = kind,
         NEW as \in Template \cup {"builtin"}, L!Choose(p, kind, as),
         \A t, u \in L!Defaults(kind)' : t = u,
         chosen'[kind].sure => L!Defaults(kind)' = {as} \ {"builtin"}
  PROVE  L!LettersIInv'
<1> USE LettersParts, KindsApart
<1> DEFINE sure == "default" \notin desk[p].over
                   /\ \A o \in Clerk \ {p} : desk[o].op \notin {"default", "reset"}
           choice == [as |-> as, sure |-> sure]
<1>1. chosen' = [chosen EXCEPT ![kind] = choice]
  BY DEF L!Choose
<1>2. choice \in [as : Template \cup {"builtin"}, sure : BOOLEAN] /\ choice.as = as
  <2>1. sure \in BOOLEAN
    OBVIOUS
  <2> HIDE DEF sure
  <2> QED
    BY <2>1
<1> HIDE DEF choice
<1>3. /\ chosen' \in [Kinds -> [as : Template \cup {"builtin"}, sure : BOOLEAN]]
      /\ \A k \in Kinds : chosen'[k] = IF k = kind THEN choice ELSE chosen[k]
  BY <1>1, <1>2 DEF L!LettersTypeOK
<1>4. \A k \in Kinds : L!OfKind(k)' = L!OfKind(k) /\ (k # kind => L!Defaults(k)' = L!Defaults(k))
  BY DEF L!OfKind, L!Defaults
<1>5. L!TemplatesValid' /\ L!OneDefault'
  <2>1. L!TemplatesValid'
    BY DEF L!TemplatesValid, L!Exists
  <2>2. ASSUME NEW k \in Kinds
        PROVE  \A t, u \in L!Defaults(k)' : t = u
    BY <1>4 DEF L!OneDefault
  <2> QED
    BY <2>1, <2>2 DEF L!OneDefault
<1>6. Cardinality(L!Defaults(kind)') <= 1
  BY AtMostOne
<1>7. L!DefaultsHold'
  <2> SUFFICES ASSUME NEW k \in Kinds
               PROVE  /\ Cardinality(L!Defaults(k)') <= 1
                      /\ chosen'[k].sure => L!Defaults(k)' = {chosen'[k].as} \ {"builtin"}
                      /\ Cardinality(L!OfKind(k)') <= CAP_PER_KIND \/ k \in crowded'
    BY Counted DEF L!DefaultsHold
  <2>1. L!OfKind(k)' = L!OfKind(k) /\ crowded' = crowded
    BY <1>4
  <2>2. CASE k = kind
    BY <1>2, <1>3, <1>6, <2>1, <2>2, Counted DEF L!DefaultsHold
  <2>3. CASE k # kind
    BY <1>3, <1>4, <2>1, <2>3, Counted DEF L!DefaultsHold
  <2> QED
    BY <2>2, <2>3
<1>8. KindsKept
  BY DEF KindsKept
<1>9. \A u \in Template : \/ template'[u] = template[u]
                          \/ template[u].kind \in {kind, "gone"} /\ template'[u].kind \in {kind, "gone"}
  OBVIOUS
<1> QED
  BY <1>3, <1>4, <1>5, <1>7, <1>8, <1>9, TemplatesChange

\* A template whose flag is written stays the template it is.
LEMMA Flagged ==
  ASSUME NEW r \in L!AnyTemplate, NEW on \in BOOLEAN
  PROVE  LET n == [r EXCEPT !.default = on]
         IN  n \in L!AnyTemplate /\ n.kind = r.kind /\ n.text = r.text /\ n.default = on
  BY DEF L!AnyTemplate

LEMMA SetDefaultKeeps ==
  ASSUME L!LettersConstants, L!LettersIInv, NEW p \in Clerk, L!SetDefault(p)
  PROVE  L!LettersIInv'
<1> USE LettersParts, KindsApart
<1>0. PICK t, kind : t = desk[p].on /\ kind = desk[p].seen.kind
  OBVIOUS
<1> DEFINE others == L!Others(t, kind)
           flags == [u \in Template |->
                       IF u \in others THEN [template[u] EXCEPT !.default = FALSE]
                       ELSE IF u = t /\ ~desk[p].seen.default THEN [template[u] EXCEPT !.default = TRUE]
                       ELSE template[u]]
<1>1. /\ desk[p].op = "default" /\ L!End(p, "default") /\ L!Quiet /\ UNCHANGED <<unseen, crowded>>
      /\ \/ L!Exists(t) /\ template' = flags /\ L!Choose(p, kind, t) /\ L!Overtaking(kind)
         \/ UNCHANGED <<template, chosen, overtaken>>
  BY <1>0 DEF L!SetDefault, L!At
<1>2. /\ t \in Template /\ kind \in Kinds /\ template[t].kind \in {kind, "gone"}
      /\ desk[p].seen \in L!AnyTemplate
      /\ "default" \notin desk[p].over /\ L!Exists(t) => template[t].default = desk[p].seen.default
  BY <1>0, <1>1 DEF L!ClerkKnows
<1>3. CASE UNCHANGED <<template, chosen, overtaken>>
  <2>1. \A k : L!OfKind(k)' = L!OfKind(k) /\ L!Defaults(k)' = L!Defaults(k)
    BY <1>3 DEF L!OfKind, L!Defaults
  <2>2. (L!TemplatesValid /\ L!OneDefault /\ L!DefaultsHold)'
    <3>1. L!TemplatesValid'
      BY <1>3 DEF L!TemplatesValid, L!Exists
    <3> QED
      BY <1>1, <1>3, <2>1, <3>1 DEF L!OneDefault, L!DefaultsHold
  <2>3. KindsKept
    BY <1>3 DEF KindsKept
  <2>4. /\ template' \in [Template -> L!AnyTemplate]
        /\ chosen' \in [Kinds -> [as : Template \cup {"builtin"}, sure : BOOLEAN]]
    BY <1>3 DEF L!LettersTypeOK
  <2> QED
    BY <1>1, <1>3, <2>1, <2>2, <2>3, <2>4, TemplatesChange
<1>4. CASE L!Exists(t) /\ template' = flags /\ L!Choose(p, kind, t) /\ L!Overtaking(kind)
  <2>1. template[t].kind = kind /\ desk[p].seen.default \in BOOLEAN
    BY <1>2, <1>4 DEF L!Exists, L!AnyTemplate
  <2>2. /\ template' \in [Template -> L!AnyTemplate]
        /\ \A u \in Template :
             /\ template'[u].kind = template[u].kind /\ template'[u].text = template[u].text
             /\ template'[u].default = IF u \in others THEN FALSE
                                       ELSE IF u = t /\ ~desk[p].seen.default THEN TRUE
                                       ELSE template[u].default
    <3>1. ASSUME NEW u \in Template
          PROVE  /\ flags[u] \in L!AnyTemplate
                 /\ flags[u].kind = template[u].kind /\ flags[u].text = template[u].text
                 /\ flags[u].default = IF u \in others THEN FALSE
                                       ELSE IF u = t /\ ~desk[p].seen.default THEN TRUE
                                       ELSE template[u].default
      <4>1. template[u] \in L!AnyTemplate
        BY DEF L!LettersTypeOK
      <4> HIDE DEF others
      <4> QED
        BY <4>1 DEF L!AnyTemplate
    <3>2. flags \in [Template -> L!AnyTemplate]
      BY <3>1
    <3> HIDE DEF flags
    <3> QED
      BY <1>4, <3>1, <3>2
  <2>3. \A u \in Template : template'[u] = template[u] \/ template[u].kind = kind
    <3>1. \A u \in others : template[u].kind = kind
      BY DEF L!Others, L!Defaults, L!OfKind
    <3> HIDE DEF others
    <3> QED
      BY <1>4, <2>1, <3>1
  <2>4. L!Defaults(kind)' \subseteq {t}
    BY <2>2 DEF L!Others, L!Defaults, L!OfKind
  <2>5. "default" \notin desk[p].over => L!Defaults(kind)' = {t}
    <3>1. "default" \notin desk[p].over => template'[t].default
      BY <1>2, <1>4, <2>1, <2>2 DEF L!Others, L!LettersTypeOK, L!AnyTemplate
    <3> QED
      BY <1>2, <2>1, <2>2, <2>4, <3>1 DEF L!Defaults, L!OfKind
  <2>6. chosen'[kind].sure => "default" \notin desk[p].over
    BY <1>2, <1>4 DEF L!Choose, L!LettersTypeOK
  <2>7. t # "builtin"
    BY <1>2 DEF L!LettersConstants
  <2> HIDE DEF flags, others
  <2>8. \A a, b \in L!Defaults(kind)' : a = b
    BY <2>4
  <2>9. chosen'[kind].sure => L!Defaults(kind)' = {t} \ {"builtin"}
    BY <2>5, <2>6, <2>7
  <2>10. t \in Template \cup {"builtin"} /\ kind \in Kinds
    BY <1>2
  <2> QED
    BY <1>1, <1>4, <2>2, <2>3, <2>8, <2>9, <2>10, FlagsChange
<1> QED
  BY <1>1, <1>3, <1>4

LEMMA ClearDefaultKeeps ==
  ASSUME L!LettersConstants, L!LettersIInv, NEW p \in Clerk, L!ClearDefault(p)
  PROVE  L!LettersIInv'
<1> USE LettersParts, KindsApart
<1>0. PICK kind : kind = desk[p].on
  OBVIOUS
<1> DEFINE flags == [u \in Template |->
                       IF u \in L!Defaults(kind) THEN [template[u] EXCEPT !.default = FALSE] ELSE template[u]]
<1>1. /\ desk[p].op = "reset" /\ L!End(p, "default") /\ L!Quiet /\ UNCHANGED <<unseen, crowded>>
      /\ L!Choose(p, kind, "builtin") /\ L!Overtaking(kind)
      /\ \/ template' = flags
         \/ "default" \in desk[p].over /\ template' = template
  BY <1>0 DEF L!ClearDefault, L!At
<1>2. kind \in Kinds
  BY <1>0, <1>1 DEF L!ClerkKnows
<1>3. chosen'[kind].sure => "default" \notin desk[p].over
  BY <1>1, <1>2 DEF L!Choose, L!LettersTypeOK
<1>4. CASE template' = flags
  <2>1. /\ template' \in [Template -> L!AnyTemplate]
        /\ \A u \in Template :
             /\ template'[u].kind = template[u].kind /\ template'[u].text = template[u].text
             /\ template'[u].default = IF u \in L!Defaults(kind) THEN FALSE ELSE template[u].default
    <3>1. ASSUME NEW u \in Template
          PROVE  /\ flags[u] \in L!AnyTemplate
                 /\ flags[u].kind = template[u].kind /\ flags[u].text = template[u].text
                 /\ flags[u].default = IF u \in L!Defaults(kind) THEN FALSE ELSE template[u].default
      <4>1. template[u] \in L!AnyTemplate
        BY DEF L!LettersTypeOK
      <4> QED
        BY <4>1 DEF L!AnyTemplate
    <3>2. flags \in [Template -> L!AnyTemplate]
      BY <3>1
    <3> HIDE DEF flags
    <3> QED
      BY <1>4, <3>1, <3>2
  <2>2. \A u \in Template : template'[u] = template[u] \/ template[u].kind = kind
    BY <1>4 DEF L!Defaults, L!OfKind
  <2>3. L!Defaults(kind)' = {}
    BY <2>1 DEF L!Defaults, L!OfKind
  <2> HIDE DEF flags
  <2> QED
    BY <1>1, <1>2, <2>1, <2>2, <2>3, FlagsChange
<1>5. CASE "default" \in desk[p].over /\ template' = template
  <2>1. L!Defaults(kind)' = L!Defaults(kind)
    BY <1>5 DEF L!Defaults, L!OfKind
  <2>2. template' \in [Template -> L!AnyTemplate] /\ \A t, u \in L!Defaults(kind) : t = u
    BY <1>2, <1>5 DEF L!LettersTypeOK, L!OneDefault
  <2> QED
    BY <1>1, <1>2, <1>3, <1>5, <2>1, <2>2, FlagsChange
<1> QED
  BY <1>1, <1>4, <1>5

\* Templates that stay keep what holds of them.
LEMMA TemplatesStay ==
  ASSUME L!LettersIInv, UNCHANGED <<template, chosen, crowded>>
  PROVE  (L!TemplatesValid /\ L!OneDefault /\ L!DefaultsHold)'
<1>1. \A k : L!OfKind(k)' = L!OfKind(k) /\ L!Defaults(k)' = L!Defaults(k)
  BY DEF L!OfKind, L!Defaults
<1>2. L!TemplatesValid'
  BY LettersParts DEF L!TemplatesValid, L!Exists
<1> QED
  BY <1>1, <1>2, LettersParts DEF L!OneDefault, L!DefaultsHold

LEMMA CorrectAddressKeeps ==
  ASSUME L!LettersConstants, L!LettersIInv, NEW p \in Clerk, L!CorrectAddress(p)
  PROVE  L!LettersIInv'
<1> USE LettersParts
<1> DEFINE new == desk[p].new
           held == {q \in desk[p].todo : row[q].status = "scheduled"}
           late == {q \in Letter \ held : \/ post[q].pc \in {"check", "move", "queue"}
                                         \/ row[q].status = "scheduled"}
           after == [q \in Letter |-> IF q \in held THEN [row[q] EXCEPT !.to = new] ELSE row[q]]
           Readdressed(q) == [row[q] EXCEPT !.to = new]
<1>1. /\ desk[p].op = "correct" /\ L!End(p, "correct")
      /\ UNCHANGED <<template, company, moved, post, shown, chosen, overtaken, crowded>>
      /\ row' = after
      /\ address' = IF new # desk[p].seen THEN new ELSE address
      /\ unseen' = unseen \cup late \cup (IF "correct" \in desk[p].over THEN held ELSE {})
  BY DEF L!CorrectAddress, L!At, L!Writes
<1>2. new \in Address /\ ("correct" \notin desk[p].over => desk[p].seen = address)
  BY <1>1 DEF L!ClerkKnows
<1>3. ASSUME NEW q \in Letter
      PROVE  /\ L!IsRow(Readdressed(q)) /\ Readdressed(q).to = new /\ Readdressed(q).status = row[q].status
             /\ Readdressed(q).payload = row[q].payload /\ Readdressed(q).stored = row[q].stored
             /\ Readdressed(q).sent = row[q].sent
  <2> DEFINE r == row[q]
             R == [status : {r.status}, attempts : {r.attempts}, to : {r.to, new},
                   payload : {r.payload}, stored : {r.stored}, sent : {r.sent}]
             n == [r EXCEPT !.to = new]
  <2>1. r \in R
    BY DEF L!LettersTypeOK, L!IsRow
  <2>2. n \in R /\ n.to = new
    BY <2>1
  <2> HIDE DEF n, r
  <2>3. /\ L!IsRow(n) /\ n.to = new /\ n.status = r.status /\ n.payload = r.payload
        /\ n.stored = r.stored /\ n.sent = r.sent
    BY <2>2 DEF L!IsRow
  <2> QED
    BY <2>3 DEF n, r
<1> HIDE DEF Readdressed
<1>4. /\ DOMAIN row' = Letter
      /\ \A q \in Letter : row'[q] = IF q \in held THEN Readdressed(q) ELSE row[q]
  BY <1>1 DEF Readdressed
<1>5. \A q \in Letter : q \in held => row[q].status = "scheduled"
  OBVIOUS
<1>6. \A q \in Letter : q \notin held =>
        /\ post[q].pc \in {"check", "move", "queue"} => q \in unseen'
        /\ row[q].status = "scheduled" => q \in unseen'
  BY <1>1
<1>7. unseen \subseteq unseen'
  BY <1>1
<1>8. "correct" \in desk[p].over => held \subseteq unseen'
  BY <1>1
<1> HIDE DEF held, late, after
<1>9. L!CorrectedHolds'
  <2> SUFFICES ASSUME NEW q \in Letter, row'[q].status = "scheduled"
               PROVE  row'[q].to = address' \/ q \in unseen'
    BY DEF L!CorrectedHolds, L!Scheduled
  <2>1. CASE q \in held
    BY <1>1, <1>2, <1>3, <1>4, <1>8, <2>1
  <2>2. CASE q \notin held
    BY <1>4, <1>6, <2>2
  <2> QED
    BY <2>1, <2>2
<1>10. /\ DOMAIN desk' = Clerk
       /\ \A d \in Clerk :
            /\ L!IsDesk(desk'[d]) /\ L!ClerkKnows(d)'
            /\ desk'[d].op \in {"idle", "create", "update", "delete", "default", "reset", "correct"}
  BY <1>1, ClerksKnow DEF KindsKept, L!OfKind
<1>11. L!LettersTypeOK'
  <2>1. address' \in Address
    BY <1>1, <1>2 DEF L!LettersTypeOK
  <2>2. \A q \in Letter : L!IsRow(row'[q])
    BY <1>3, <1>4 DEF L!LettersTypeOK
  <2> QED
    BY <1>1, <1>4, <1>7, <1>10, <2>1, <2>2 DEF L!LettersTypeOK
<1>12. \A q \in Letter : post[q].pc \in {"check", "move", "queue"} => q \in unseen'
  <2>1. ASSUME NEW q \in Letter, q \in held
        PROVE  post[q].pc = "done"
    BY <1>5, <2>1 DEF L!RowCarries, L!NoRow
  <2> QED
    BY <1>6, <2>1
<1>13. \A q \in Letter : \/ row'[q] = row[q]
                         \/ /\ row[q].status = "scheduled" /\ row'[q].status = "scheduled"
                            /\ row'[q].payload = row[q].payload
                            /\ row'[q].stored = row[q].stored /\ row'[q].sent = row[q].sent
  BY <1>3, <1>4, <1>5
<1>14. \A q \in Letter : L!LetterCarries(q)' /\ L!RowCarries(q)'
  <2>1. \A op : L!TextsOf(op)' = L!TextsOf(op)
    BY <1>1, TextsSame
  <2>2. \A q \in Letter : L!TextsOf(post[q].op)' = L!TextsOf(post[q].op)
    <3>1. post' = post
      BY <1>1
    <3> QED
      BY <2>1, <3>1
  <2> QED
    BY <1>1, <1>7, <1>12, <1>13, <2>2, LettersStayCarried DEF KindsKept
<1>15. (L!TemplatesValid /\ L!OneDefault /\ L!DefaultsHold)'
  BY <1>1, TemplatesStay
<1> QED
  BY <1>9, <1>10, <1>11, <1>14, <1>15 DEF L!LettersIInv

LEMMA UpdateCompanyKeeps ==
  ASSUME L!LettersConstants, L!LettersIInv, NEW c \in Company, L!UpdateCompany(c)
  PROVE  L!LettersIInv'
<1> USE LettersParts
<1>1. /\ company' = c /\ overtaken' = overtaken \cup {q \in Letter : post[q].pc = "shown"}
      /\ UNCHANGED <<template, address, moved, row, post, shown, desk, chosen, unseen, crowded>>
  BY DEF L!UpdateCompany
<1>2. L!LettersTypeOK'
  BY <1>1 DEF L!LettersTypeOK
<1>3. (L!TemplatesValid /\ L!OneDefault /\ L!DefaultsHold)'
  BY <1>1, TemplatesStay
<1>4. L!CorrectedHolds'
  BY <1>1 DEF L!CorrectedHolds, L!Scheduled
<1>5. ASSUME NEW d \in Clerk
      PROVE  L!ClerkKnows(d)'
  <2>1. desk'[d] = desk[d]
    BY <1>1
  <2> QED
    BY <1>1, <2>1, StillKnows DEF KindsKept, L!OfKind
<1>6. \A q \in Letter : L!LetterCarries(q)' /\ L!RowCarries(q)'
  <2>1. \A op : L!TextsOf(op)' = L!TextsOf(op)
    BY <1>1, TextsSame
  <2>2. \A q \in Letter : L!TextsOf(post[q].op)' = L!TextsOf(post[q].op)
    <3>1. post' = post
      BY <1>1
    <3> QED
      BY <2>1, <3>1
  <2> QED
    BY <1>1, <2>2, LettersStayCarried DEF KindsKept
<1> QED
  BY <1>2, <1>3, <1>4, <1>5, <1>6 DEF L!LettersIInv
-----------------------------------------------------------------------------
(***************************************************************************)
(* The specification of the letters.                                       *)
(***************************************************************************)
LEMMA LettersInit ==
  ASSUME L!LettersConstants, L!Init
  PROVE  L!LettersIInv
<1> USE KindsApart
<1>1. PICK t \in Template, kind \in Kinds, text \in Texts, default \in BOOLEAN :
        /\ L!Validate(kind, text)
        /\ template = [u \in Template |->
             IF u = t THEN [kind |-> kind, text |-> text, default |-> default] ELSE L!NoTemplate]
        /\ chosen = [k \in Kinds |->
             [as |-> IF default /\ k = kind THEN t ELSE "builtin", sure |-> TRUE]]
  BY DEF L!Init
<1>2. /\ company \in Company /\ address \in Address /\ moved = {}
      /\ row = [q \in Letter |-> L!NoRow] /\ shown = [q \in Letter |-> L!NoMail]
      /\ post \in [Letter -> [pc : {"idle"}, op : Ops, to : {address}, company : {company}]]
      /\ desk = [p \in Clerk |-> L!Idle] /\ overtaken = {} /\ unseen = {} /\ crowded = {}
  BY DEF L!Init
<1>3. L!NoTemplate \in L!AnyTemplate /\ L!NoTemplate.kind = "none" /\ ~L!NoTemplate.default
  BY DEF L!NoTemplate, L!AnyTemplate
<1>4. /\ template \in [Template -> L!AnyTemplate]
      /\ \A u \in Template : u # t => template[u] = L!NoTemplate
      /\ template[t].kind = kind /\ template[t].text = text /\ template[t].default = default
  <2>1. [kind |-> kind, text |-> text, default |-> default] \in L!AnyTemplate
    BY DEF L!AnyTemplate
  <2> QED
    BY <1>1, <1>3, <2>1
<1>5. L!LettersTypeOK
  <2>1. L!IsRow(L!NoRow) /\ L!IsDesk(L!Idle) /\ L!Idle.op = "idle"
    BY DEF L!IsRow, L!NoRow, L!IsDesk, L!Idle
  <2>2. chosen \in [Kinds -> [as : Template \cup {"builtin"}, sure : BOOLEAN]]
    BY <1>1
  <2> QED
    BY <1>2, <1>4, <2>1, <2>2 DEF L!LettersTypeOK
<1>6. L!TemplatesValid
  BY <1>1, <1>3, <1>4 DEF L!TemplatesValid, L!Exists
<1>7. \A k \in Kinds : /\ L!OfKind(k) = IF k = kind THEN {t} ELSE {}
                       /\ L!Defaults(k) = IF default /\ k = kind THEN {t} ELSE {}
  <2> SUFFICES ASSUME NEW k \in Kinds
               PROVE  /\ L!OfKind(k) = IF k = kind THEN {t} ELSE {}
                      /\ L!Defaults(k) = IF default /\ k = kind THEN {t} ELSE {}
    OBVIOUS
  <2>1. \A u \in Template : template[u].kind = k <=> u = t /\ k = kind
    BY <1>3, <1>4
  <2>2. L!OfKind(k) = IF k = kind THEN {t} ELSE {}
    BY <2>1 DEF L!OfKind
  <2>3. \A u \in L!OfKind(k) : template[u].default = default
    BY <1>4, <2>2
  <2> QED
    BY <2>2, <2>3 DEF L!Defaults
<1>8. L!OneDefault
  BY <1>7 DEF L!OneDefault
<1>9. L!DefaultsHold
  <2> SUFFICES ASSUME NEW k \in Kinds
               PROVE  /\ Cardinality(L!Defaults(k)) <= 1
                      /\ chosen[k].sure => L!Defaults(k) = {chosen[k].as} \ {"builtin"}
                      /\ Cardinality(L!OfKind(k)) <= CAP_PER_KIND
    BY Counted DEF L!DefaultsHold
  <2>1. /\ Cardinality({t}) = 1 /\ Cardinality({}) = 0
    BY FS_EmptySet, FS_Singleton
  <2>2. chosen[k].as = (IF default /\ k = kind THEN t ELSE "builtin") /\ t # "builtin"
    BY <1>1 DEF L!LettersConstants
  <2>3. CAP_PER_KIND \in Nat \ {0}
    BY DEF L!LettersConstants
  <2>4. L!OfKind(k) \in {{t}, {}} /\ L!Defaults(k) \in {{t}, {}}
    BY <1>7
  <2>5. Cardinality(L!Defaults(k)) <= 1 /\ Cardinality(L!OfKind(k)) <= CAP_PER_KIND
    BY <2>1, <2>3, <2>4
  <2> QED
    BY <1>7, <2>2, <2>5
<1>10. L!CorrectedHolds
  BY <1>2 DEF L!CorrectedHolds, L!Scheduled, L!NoRow
<1>11. \A p \in Clerk : L!ClerkKnows(p)
  BY <1>2 DEF L!ClerkKnows, L!Idle
<1>12. \A q \in Letter : L!LetterCarries(q) /\ L!RowCarries(q)
  BY <1>2 DEF L!LetterCarries, L!RowCarries, L!UnderWay, L!NoMail
<1> QED
  BY <1>5, <1>6, <1>8, <1>9, <1>10, <1>11, <1>12 DEF L!LettersIInv

LEMMA LettersNext ==
  ASSUME L!LettersConstants, L!LettersIInv, [L!Next]_(L!vars)
  PROVE  L!LettersIInv'
<1>1. ASSUME NEW q \in Letter, L!LetterStep(q)
      PROVE  L!LettersIInv'
  BY <1>1, PreviewKeeps, LoadKeeps, CheckTemplateKeeps, MoveKeeps, QueueEmailKeeps, KillKeeps,
     DeliverKeeps DEF L!LetterStep
<1>2. ASSUME NEW p \in Clerk, L!DeskStep(p)
      PROVE  L!LettersIInv'
  <2>1. ASSUME NEW t \in Template, NEW text \in Texts, L!LoadTemplate(p, "update", t, text)
        PROVE  L!LettersIInv'
    BY <2>1, LoadTemplateKeeps
  <2>2. ASSUME NEW t \in Template, NEW op \in {"delete", "default"}, L!LoadTemplate(p, op, t, L!NoText)
        PROVE  L!LettersIInv'
    BY <2>2, LoadTemplateKeeps
  <2> QED
    BY <1>2, <2>1, <2>2, CreateKeeps, UpdateTemplateKeeps, DeleteKeeps, SetDefaultKeeps,
       ClearDefaultKeeps, SelectHeldKeeps, CorrectAddressKeeps, LoadResetKeeps, LoadCreateKeeps,
       LoadCorrectionKeeps DEF L!DeskStep
<1>3. CASE UNCHANGED L!vars
  <2>1. UNCHANGED <<template, company, address, moved, row, post, shown, desk, chosen, overtaken,
                    unseen, crowded>>
    BY <1>3 DEF L!vars, L!table, L!history
  <2>2. L!LettersTypeOK' /\ L!CorrectedHolds'
    BY <2>1, LettersParts DEF L!LettersTypeOK, L!CorrectedHolds, L!Scheduled
  <2>3. (L!TemplatesValid /\ L!OneDefault /\ L!DefaultsHold)'
    BY <2>1, TemplatesStay
  <2>4. ASSUME NEW d \in Clerk
        PROVE  L!ClerkKnows(d)'
    BY <2>1, LettersParts, StillKnows DEF KindsKept, L!OfKind
  <2>5. \A q \in Letter : L!LetterCarries(q)' /\ L!RowCarries(q)'
    <3>1. \A q \in Letter : L!TextsOf(post[q].op)' = L!TextsOf(post[q].op)
      BY <2>1, TextsSame
    <3> QED
      BY <2>1, <3>1, LettersStayCarried DEF KindsKept
  <2> QED
    BY <2>2, <2>3, <2>4, <2>5 DEF L!LettersIInv
<1> QED
  BY <1>1, <1>2, <1>3, UpdateCompanyKeeps DEF L!Next

LEMMA LettersImplied ==
  ASSUME L!LettersConstants, L!LettersIInv
  PROVE  L!LettersHold
<1> USE LettersParts
<1>1. ASSUME NEW q \in Letter
      PROVE  /\ shown[q] # L!NoMail /\ q \notin overtaken =>
                  /\ row[q].stored \in {L!NoMail, shown[q]}
                  /\ row[q].sent # L!NoMail => [row[q].sent EXCEPT !.url = shown[q].url] = shown[q]
             /\ shown[q].url # "token"
             /\ post[q].op.kind \notin L!Account => row[q].stored.url \notin {"token", "secret"}
             /\ row[q].sent.url # L!PREVIEW_LINK_PLACEHOLDER
             /\ row[q].status # "none" /\ post[q].op.kind \in L!StageKind =>
                  L!StageRenders(post[q].op.kind, L!Deserialize(row[q].payload))
             /\ post[q].pc = "refused" => q \notin moved /\ row[q] = L!NoRow
             /\ post[q].pc = "lost" => post[q].op.ref \in Template /\ ~L!Exists(post[q].op.ref)
             /\ q \in moved /\ post[q].pc = "done" => row[q] # L!NoRow
  <2>1. /\ shown[q].url # "token"
        /\ post[q].pc = "refused" => q \notin moved
        /\ post[q].pc = "lost" => post[q].op.ref \in Template /\ ~L!Exists(post[q].op.ref)
    BY DEF L!LetterCarries, L!Exists, L!StageKind
  <2>2. CASE post[q].pc # "done"
    <3>1. row[q] = L!NoRow
      BY <2>2 DEF L!RowCarries
    <3> QED
      BY <2>1, <2>2, <3>1 DEF L!NoRow, L!NoMail, L!PREVIEW_LINK_PLACEHOLDER
  <2>3. CASE post[q].pc = "done"
    <3> DEFINE op == post[q].op
               r == row[q]
    <3>1. PICK to \in Address, c \in Company, text \in L!AnyText :
            /\ r.payload = L!Payload(op, L!KwargsOf(op.kind, to, c), text)
            /\ op.kind \in L!StageKind => L!Validate(op.kind, text)
      BY <2>3 DEF L!RowCarries
    <3>2. /\ r.status \in {"scheduled", "queued", "sent", "failed"}
          /\ r.stored \in {L!NoMail, L!Stored(L!MailOf(q), r.payload)} /\ r.sent \in {L!NoMail, L!MailOf(q)}
          /\ shown[q] # L!NoMail /\ q \notin overtaken =>
               L!SameAs(L!MailOf(q), shown[q]) /\ L!Stored(L!MailOf(q), r.payload) = shown[q]
      BY <2>3 DEF L!RowCarries
    <3>3. L!MailOf(q) = L!Sender(op.kind, L!Deserialize(r.payload))
      BY DEF L!MailOf
    <3>4. op.kind \in L!LetterKind /\ op.edit \in BOOLEAN
      BY OpFacts
    <3> HIDE DEF op
    <3>5. /\ L!MailOf(q).url # L!PREVIEW_LINK_PLACEHOLDER
          /\ op.kind \notin L!Account => L!Stored(L!MailOf(q), r.payload).url \notin {"token", "secret"}
      BY <3>1, <3>3, <3>4, LinksApart
    <3>6. op.kind \in L!StageKind => L!StageRenders(op.kind, L!Deserialize(r.payload))
      BY <3>1, <3>4, CheckedRenders
    <3>7. r.status # "none" /\ r # L!NoRow
      BY <3>2 DEF L!NoRow
    <3>8. L!NoMail.url = "none" /\ "none" # L!PREVIEW_LINK_PLACEHOLDER
      BY DEF L!NoMail, L!PREVIEW_LINK_PLACEHOLDER
    <3>9. /\ op.kind \notin L!Account => r.stored.url \notin {"token", "secret"}
          /\ r.sent.url # L!PREVIEW_LINK_PLACEHOLDER
      BY <3>2, <3>5, <3>8
    <3>10. shown[q] # L!NoMail /\ q \notin overtaken =>
             /\ r.stored \in {L!NoMail, shown[q]}
             /\ r.sent # L!NoMail => [r.sent EXCEPT !.url = shown[q].url] = shown[q]
      BY <3>2 DEF L!SameAs
    <3> QED
      BY <2>1, <2>3, <3>6, <3>7, <3>9, <3>10 DEF op
  <2> QED
    BY <2>2, <2>3
<1> QED
  BY <1>1 DEF L!LettersHold, L!ShownIsSent, L!NothingOpens, L!EveryLetterRenders, L!MovedIsMailed

\* For any number of templates, letters, texts, addresses and requests of the
\* settings pages, however they interleave: a mail says what its sender was
\* shown, with no link the team could open, it renders, no move is without its
\* mail, a held mail goes to the corrected address, and a kind has one default
\* (services/email_templates.py, services/outbox.py, api/applications.py).
THEOREM LettersAreHeld == L!Spec => []LettersHold
<1>1. L!Init => L!LettersIInv
  BY LettersAreSound, LettersInit
<1>2. L!LettersIInv /\ [L!Next]_(L!vars) => L!LettersIInv'
  BY LettersAreSound, LettersNext
<1>3. L!LettersIInv => LettersHold
  BY LettersAreSound, LettersImplied DEF LettersHold
<1> QED
  BY <1>1, <1>2, <1>3, PTL DEF L!Spec
=============================================================================
