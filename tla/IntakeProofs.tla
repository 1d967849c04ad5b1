---------------------------- MODULE IntakeProofs ----------------------------
(***************************************************************************)
(* Proofs about Intake, for any number of visitors, jobs, addresses and    *)
(* questions and any limits.  What a request of a visitor may do to the    *)
(* applications, to the counters and to the shape of the state is proved   *)
(* apart; each action then has one step for each of the three.             *)
(***************************************************************************)
EXTENDS Intake, FiniteSetTheorems, WellFoundedInduction, TLAPS

LEMMA Parts ==
  ASSUME IInv
  PROVE  /\ Shape /\ TypeOK /\ AppsAreWhole /\ CountersTell /\ DrawIsFair
         /\ \A v \in Visitor : Carries(req[v])
         /\ \A b \in Admin : adm[b].pc # "idle" => adm[b].job # {}
  BY DEF IInv, Shape

LEMMA NoRequest ==
  /\ NoReq \in Submission /\ NoReq.pc = "idle" /\ NoReq.res = "none" /\ NoReq.token = {}
  /\ NoEdit \in TeamEdit /\ NoEdit.pc = "idle"
  /\ NoApp \in Application /\ NoApp.st = "none" /\ NoApp.mail = "none"
  /\ NoApp.drawn = {} /\ NoApp.pool = {}
<1>1. NoReq \in Submission /\ NoReq.pc = "idle" /\ NoReq.res = "none" /\ NoReq.token = {}
  BY DEF NoReq, Submission, QuizKind, Forms
<1>2. NoEdit \in TeamEdit /\ NoEdit.pc = "idle"
  BY DEF NoEdit, TeamEdit
<1>3. /\ NoApp \in Application /\ NoApp.st = "none" /\ NoApp.mail = "none"
      /\ NoApp.drawn = {} /\ NoApp.pool = {}
  BY DEF NoApp, Application, Forms
<1> QED
  BY <1>1, <1>2, <1>3

\* An idle request carries nothing.
LEMMA IdleCarries == Carries(NoReq)
  BY DEF Carries, NoReq

LEMMA KeysAreFinite == IsFiniteSet(Key)
  BY TablesAreFinite, FS_Product DEF Key

LEMMA SubsetCount ==
  ASSUME NEW S, IsFiniteSet(S), NEW T, T \subseteq S
  PROVE  /\ IsFiniteSet(T) /\ Cardinality(T) \in Nat /\ Cardinality(S) \in Nat
         /\ Cardinality(T) <= Cardinality(S)
         /\ T # S => Cardinality(T) + 1 <= Cardinality(S)
<1>1. IsFiniteSet(T) /\ Cardinality(T) <= Cardinality(S) /\ (Cardinality(S) = Cardinality(T) => S = T)
  BY FS_Subset
<1>2. Cardinality(T) \in Nat /\ Cardinality(S) \in Nat
  BY <1>1, FS_CardinalityType
<1> QED
  BY <1>1, <1>2

LEMMA GrownCount ==
  ASSUME NEW S, IsFiniteSet(S), NEW x, NEW T, T \subseteq S \cup {x}
  PROVE  IsFiniteSet(T) /\ Cardinality(T) \in Nat /\ Cardinality(T) <= Cardinality(S) + 1
<1>1. /\ IsFiniteSet(S \cup {x}) /\ Cardinality(S) \in Nat
      /\ Cardinality(S \cup {x}) \in {Cardinality(S), Cardinality(S) + 1}
  BY FS_AddElement, FS_CardinalityType
<1>2. IsFiniteSet(T) /\ Cardinality(T) \in Nat /\ Cardinality(T) <= Cardinality(S \cup {x})
  BY <1>1, SubsetCount
<1> QED
  BY <1>1, <1>2

LEMMA UnionCount ==
  ASSUME NEW S, IsFiniteSet(S), NEW T, IsFiniteSet(T)
  PROVE  /\ IsFiniteSet(S \cup T) /\ Cardinality(S \cup T) \in Nat
         /\ Cardinality(S) \in Nat /\ Cardinality(T) \in Nat
         /\ Cardinality(S \cup T) <= Cardinality(S) + Cardinality(T)
         /\ S \cap T = {} => Cardinality(S \cup T) = Cardinality(S) + Cardinality(T)
<1>1. /\ IsFiniteSet(S \cup T)
      /\ Cardinality(S \cup T) = Cardinality(S) + Cardinality(T) - Cardinality(S \cap T)
  BY FS_Union
<1>2. IsFiniteSet(S \cap T)
  BY FS_Intersection
<1>3. /\ Cardinality(S) \in Nat /\ Cardinality(T) \in Nat
      /\ Cardinality(S \cap T) \in Nat /\ Cardinality(S \cup T) \in Nat
  BY <1>1, <1>2, FS_CardinalityType
<1>4. Cardinality({}) = 0
  BY FS_EmptySet
<1>5. CASE S \cap T = {}
  <2>1. Cardinality(S \cap T) = 0
    BY <1>4, <1>5
  <2> QED
    BY <1>1, <1>3, <2>1
<1>6. CASE S \cap T # {}
  BY <1>1, <1>3, <1>6
<1> QED
  BY <1>5, <1>6

\* How many requests stand at one of these steps, after one of them moved.
LEMMA MoveCount ==
  ASSUME req \in [Visitor -> Submission], NEW v \in Visitor, NEW r,
         req' = [req EXCEPT ![v] = r], NEW P
  PROVE  /\ IsFiniteSet(Within(P)) /\ Cardinality(Within(P)) \in Nat
         /\ IsFiniteSet(Within(P)')
         /\ Cardinality(Within(P)') =
              IF r.pc \in P /\ req[v].pc \notin P THEN Cardinality(Within(P)) + 1
              ELSE IF r.pc \notin P /\ req[v].pc \in P THEN Cardinality(Within(P)) - 1
              ELSE Cardinality(Within(P))
<1>1. /\ Within(P) \subseteq Visitor
      /\ v \in Within(P) <=> req[v].pc \in P
      /\ Within(P)' = IF r.pc \in P THEN Within(P) \cup {v} ELSE Within(P) \ {v}
  BY DEF Within
<1>2. IsFiniteSet(Within(P)) /\ Cardinality(Within(P)) \in Nat
  BY <1>1, TablesAreFinite, SubsetCount
<1>3. CASE r.pc \in P
  BY <1>1, <1>2, <1>3, FS_AddElement
<1>4. CASE r.pc \notin P
  BY <1>1, <1>2, <1>4, FS_RemoveElement
<1> QED
  BY <1>2, <1>3, <1>4

LEMMA FewerStand ==
  ASSUME req \in [Visitor -> Submission], NEW v \in Visitor, NEW r,
         req' = [req EXCEPT ![v] = r], NEW P, r.pc \in P => req[v].pc \in P
  PROVE  /\ Cardinality(Within(P)) \in Nat /\ Cardinality(Within(P)') \in Nat
         /\ Cardinality(Within(P)') <= Cardinality(Within(P))
<1>1. /\ Cardinality(Within(P)) \in Nat
      /\ IsFiniteSet(Within(P)')
      /\ Cardinality(Within(P)') =
              IF r.pc \in P /\ req[v].pc \notin P THEN Cardinality(Within(P)) + 1
              ELSE IF r.pc \notin P /\ req[v].pc \in P THEN Cardinality(Within(P)) - 1
              ELSE Cardinality(Within(P))
  BY MoveCount
<1>2. Cardinality(Within(P)') \in Nat
  BY <1>1, FS_CardinalityType
<1> QED
  BY <1>1, <1>2

LEMMA UsedAreFinite ==
  ASSUME IInv
  PROVE  IsFiniteSet(used) /\ Cardinality(used) \in Nat
<1>1. used \subseteq 1 .. issued /\ issued \in Int
  BY Parts DEF Shape, TypeOK
<1>2. IsFiniteSet(1 .. issued)
  BY <1>1, FS_Interval
<1> QED
  BY <1>1, <1>2, SubsetCount

LEMMA NobodyMoved ==
  ASSUME req' = req, NEW P
  PROVE  Within(P)' = Within(P)
  BY DEF Within

LEMMA InitInv == Init => IInv
<1> SUFFICES ASSUME Init PROVE IInv
  OBVIOUS
<1> PICK open \in SUBSET Job :
      /\ Cardinality(open) <= ACTIVE_JOBS
      /\ job = [j \in Job |-> [st |-> IF j \in open THEN "published" ELSE "draft",
                              form |-> {}, quiz |-> "list"]]
  BY DEF Init
<1>1. /\ listed = TRUE /\ retired = {} /\ blocked = {}
      /\ adm = [b \in Admin |-> NoEdit] /\ req = [v \in Visitor |-> NoReq]
      /\ app = [k \in Key |-> NoApp]
      /\ cands = {} /\ issued = 0 /\ used = {}
      /\ count = [s \in Store |-> [c \in Counter |-> 0]]
      /\ broken = FALSE /\ entries = [s \in Scope |-> 0]
      /\ reliable = TRUE /\ burnt = 0 /\ admitted = 0 /\ cut = {}
      /\ abreast = [mails |-> 1, jobs |-> 1]
      /\ submits = 0 /\ events = 0
  BY DEF Init, Key
<1>2. Shape
  <2>1. job \in [Job -> [st : Status, form : Forms, quiz : QuizKind]]
    BY DEF Status, Forms, QuizKind
  <2>2. TypeOK
    BY <1>1, <2>1, NoRequest DEF TypeOK, Key
  <2> QED
    BY <1>1, <2>2, NoRequest DEF Shape
<1>3. \A v \in Visitor : Carries(req[v])
  BY <1>1, IdleCarries
<1>4. \A b \in Admin : adm[b].pc = "idle"
  BY <1>1, NoRequest
<1>5. \A P : "idle" \notin P => Within(P) = {}
  BY <1>1, NoRequest DEF Within
<1>6. AppsAreWhole
  BY <1>1, <1>5, NoRequest DEF AppsAreWhole, Storing
<1>7. CountersTell
  <2>1. Mailed = {} /\ Counted = {} /\ Publishing = {} /\ Active = open
    BY <1>1, <1>4, NoRequest DEF Mailed, Counted, Publishing, Active
  <2>2. Within(Passed) = {} /\ Within(Paid) = {}
    BY <1>5 DEF Passed, Paid
  <2>3. Cardinality({}) = 0 /\ Cardinality(open) \in Nat
    BY FS_EmptySet, SubsetCount, TablesAreFinite
  <2>4. /\ count["redis"]["applications"] = 0 /\ count["memory"]["applications"] = 0
        /\ count["redis"]["emails"] = 0
    BY <1>1 DEF Store, Counter, Scope
  <2>5. abreast.mails = 1 /\ abreast.jobs = 1
    BY <1>1
  <2>6. Lesser(0, APPLICATIONS) = 0
    BY LimitsAreOn DEF Lesser
  <2> QED
    BY <1>1, <2>1, <2>2, <2>3, <2>4, <2>5, <2>6, LimitsAreOn DEF CountersTell
<1>8. DrawIsFair
  <2> SUFFICES ASSUME NEW k \in Key
               PROVE  LET pool == app[k].pool
                          tags == UNION {TagsOf[q] : q \in pool}
                      IN  /\ app[k].drawn \subseteq pool
                          /\ app[k].drawn = pool \/ Cardinality(app[k].drawn) = QuizCount
                          /\ QuizCount >= Cardinality(tags) => UNION {TagsOf[q] : q \in app[k].drawn} = tags
    BY DEF DrawIsFair, Key
  <2> QED
    BY <1>1, NoRequest
<1> QED
  BY <1>2, <1>3, <1>4, <1>6, <1>7, <1>8 DEF IInv
-----------------------------------------------------------------------------
(***************************************************************************)
(* A request of a visitor moves and the applications stay as they are.     *)
(***************************************************************************)
LEMMA AppsStay ==
  ASSUME IInv, NEW v \in Visitor, NEW r \in Submission, req' = [req EXCEPT ![v] = r],
         UNCHANGED <<job, adm, app>>, issued \in Nat, issued' \in Nat, issued <= issued',
         cut \subseteq cut', Carries(r)',
         r.pc \in Storing => req[v].pc \in Storing /\ r.key = req[v].key,
         req[v].pc \in {"quiz", "mail"} =>
            \/ r.pc \in {"quiz", "mail"} \/ req[v].key \in cut' \/ app[req[v].key].st # "live"
  PROVE  /\ \A w \in Visitor : Carries(req[w])'
         /\ \A b \in Admin : adm'[b].pc # "idle" => adm'[b].job # {}
         /\ AppsAreWhole' /\ DrawIsFair'
<1> USE Parts
<1>1. req'[v] = r /\ \A w \in Visitor \ {v} : req'[w] = req[w]
  BY DEF Shape
<1>2. \A w \in Visitor : Carries(req[w])'
  <2> SUFFICES ASSUME NEW w \in Visitor, w # v PROVE Carries(req[w])'
    BY <1>1
  <2>1. Carries(req[w]) /\ req'[w] = req[w]
    BY <1>1
  <2>2. 1 .. issued \subseteq 1 .. issued'
    OBVIOUS
  <2> QED
    BY <2>1, <2>2 DEF Carries, Fits
<1>3. \A w \in Visitor : \A P : w # v => (w \in Within(P)' <=> w \in Within(P))
  BY <1>1 DEF Within
<1>4. \A P : v \in Within(P)' <=> r.pc \in P
  BY <1>1 DEF Within
<1>5. \A P : v \in Within(P) <=> req[v].pc \in P
  BY DEF Within
<1>6. AppsAreWhole'
  <2>1. ASSUME NEW k \in Key, app[k].st = "live", app[k].mail = "none", k \notin cut'
        PROVE  \E w \in Within({"quiz", "mail"})' : req'[w].key = k
    <3>1. PICK w \in Within({"quiz", "mail"}) : req[w].key = k
      BY <2>1 DEF AppsAreWhole
    <3>2. w \in Visitor
      BY DEF Within
    <3>3. CASE w # v
      BY <1>1, <1>3, <3>1, <3>2, <3>3
    <3>4. CASE w = v
      <4>1. r.pc \in {"quiz", "mail"}
        BY <1>5, <2>1, <3>1, <3>4
      <4>2. r.key = k
        BY <3>1, <3>4, <4>1 DEF Storing
      <4> QED
        BY <1>1, <1>4, <4>1, <4>2
    <3> QED
      BY <3>3, <3>4
  <2>2. ASSUME NEW w \in Within(Storing)', NEW x \in Within(Storing)', req'[w].key = req'[x].key
        PROVE  w = x
    <3>1. w \in Visitor /\ x \in Visitor
      BY DEF Within
    <3>2. w \in Within(Storing) /\ x \in Within(Storing)
      BY <1>3, <1>4, <1>5, <3>1
    <3>3. req'[w].key = req[w].key /\ req'[x].key = req[x].key
      BY <1>1, <1>4, <3>1
    <3> QED
      BY <2>2, <3>2, <3>3 DEF AppsAreWhole
  <2>3. ASSUME NEW k \in Key
        PROVE  /\ app[k].st = "none" => app[k].mail = "none"
               /\ app[k].st = "gone" => job[k[1]].st = "deleted"
               /\ app[k].mail = "quiz_invite" <=> app[k].mail # "none" /\ app[k].drawn # {}
    BY DEF AppsAreWhole
  <2> QED
    BY <2>1, <2>2, <2>3 DEF AppsAreWhole
<1>7. DrawIsFair'
  BY DEF DrawIsFair
<1> QED
  BY <1>2, <1>6, <1>7
\* The same for a request that stays away from the applications.
LEMMA AppsRest ==
  ASSUME IInv, NEW v \in Visitor, NEW r \in Submission, req' = [req EXCEPT ![v] = r],
         UNCHANGED <<job, adm, app, cut>>, issued' \in Nat, issued <= issued', Carries(r)',
         r.pc \notin {"quiz", "mail", "count"}, req[v].pc \notin {"quiz", "mail"}
  PROVE  /\ \A w \in Visitor : Carries(req[w])'
         /\ \A b \in Admin : adm'[b].pc # "idle" => adm'[b].job # {}
         /\ AppsAreWhole' /\ DrawIsFair'
<1>1. issued \in Nat
  BY Parts DEF Shape
<1>2. cut \subseteq cut' /\ UNCHANGED <<job, adm, app>>
  OBVIOUS
<1>3. r.pc \notin Storing
  BY DEF Storing
<1> QED
  BY <1>1, <1>2, <1>3, AppsStay
-----------------------------------------------------------------------------
(***************************************************************************)
(* The counters.                                                           *)
(***************************************************************************)
LEMMA HitFacts ==
  ASSUME IInv, NEW c \in Counter, NEW n \in Next0, Hit(c, n)
  PROVE  /\ n \in Nat
         /\ count' \in [Store -> [Counter -> Nat]]
         /\ broken' \in BOOLEAN /\ reliable' \in BOOLEAN /\ events' \in Nat
         /\ broken' => ~reliable'
         /\ \E s \in Store :
              /\ n = count[s][c] + 1 /\ count'[s][c] = n
              /\ \A t \in Store, d \in Counter : t # s \/ d # c => count'[t][d] = count[t][d]
              /\ s = "redis" => broken' = broken /\ reliable' = reliable
              /\ s = "memory" => broken' /\ ~reliable'
<1> USE Parts
<1>1. count \in [Store -> [Counter -> Nat]] /\ broken \in BOOLEAN /\ reliable \in BOOLEAN /\ events \in Nat
  BY DEF Shape, TypeOK
<1>2. n \in Nat
  BY CountsAreNatural DEF Next0
<1>3. \A s \in Store : [count EXCEPT ![s][c] = n] \in [Store -> [Counter -> Nat]]
  BY <1>1, <1>2
<1>4. CASE /\ n = count["redis"][c] + 1 /\ ~broken
           /\ count' = [count EXCEPT !["redis"][c] = n]
           /\ UNCHANGED <<broken, reliable, events>>
  <2>1. count' \in [Store -> [Counter -> Nat]]
    BY <1>3, <1>4 DEF Store
  <2>2. /\ n = count["redis"][c] + 1 /\ count'["redis"][c] = n
        /\ \A t \in Store, d \in Counter : t # "redis" \/ d # c => count'[t][d] = count[t][d]
    BY <1>1, <1>4 DEF Store
  <2>3. broken' = broken /\ reliable' = reliable /\ (broken' => ~reliable')
    BY <1>4 DEF CountersTell
  <2> QED
    BY <1>1, <1>2, <1>4, <2>1, <2>2, <2>3 DEF Store
<1>5. CASE /\ n = count["memory"][c] + 1
           /\ IF broken THEN UNCHANGED events ELSE Event
           /\ broken' = TRUE /\ reliable' = FALSE
           /\ count' = [count EXCEPT !["memory"][c] = n]
  <2>1. count' \in [Store -> [Counter -> Nat]]
    BY <1>3, <1>5 DEF Store
  <2>2. /\ n = count["memory"][c] + 1 /\ count'["memory"][c] = n
        /\ \A t \in Store, d \in Counter : t # "memory" \/ d # c => count'[t][d] = count[t][d]
    BY <1>1, <1>5 DEF Store
  <2>3. events' \in Nat
    BY <1>1, <1>5 DEF Event
  <2> QED
    BY <1>2, <1>5, <2>1, <2>2, <2>3 DEF Store
<1> QED
  BY <1>4, <1>5 DEF Hit

\* A peek leaves the counters, and what it found if redis has answered them all.
LEMMA PeekFacts ==
  ASSUME IInv, NEW c \in Counter, NEW n \in Next0, Peek(c, n)
  PROVE  /\ n \in Nat /\ events' \in Nat /\ reliable' \in BOOLEAN
         /\ reliable' => reliable /\ n = count["redis"][c]
<1> USE Parts
<1>1. n \in Nat
  BY CountsAreNatural DEF Next0
<1>2. events \in Nat /\ reliable \in BOOLEAN
  BY DEF Shape, TypeOK
<1>3. CASE n = count["redis"][c] /\ ~broken /\ UNCHANGED <<reliable, events>>
  BY <1>1, <1>2, <1>3
<1>4. CASE (IF broken THEN UNCHANGED events ELSE Event) /\ reliable' = FALSE
  <2>1. events' \in Nat
    BY <1>2, <1>4 DEF Event
  <2> QED
    BY <1>1, <1>4, <2>1
<1> QED
  BY <1>3, <1>4 DEF Peek

\* Mails that are neither counted nor being counted are those of killed requests.
LEMMA MailedFew ==
  ASSUME IInv, reliable
  PROVE  /\ IsFiniteSet(Mailed) /\ IsFiniteSet(Counted) /\ IsFiniteSet(cut)
         /\ Cardinality(Mailed) \in Nat /\ Cardinality(cut) \in Nat
         /\ Cardinality(Mailed) <= count["redis"]["emails"] + Cardinality(Within({"count"})) + Cardinality(cut)
<1> USE Parts, KeysAreFinite, TablesAreFinite
<1> DEFINE W == Within({"count"})
           f == [w \in W |-> req[w].key]
           T == {f[w] : w \in W}
<1>1. Mailed \subseteq Key /\ Counted \subseteq Key /\ cut \subseteq Key /\ W \subseteq Visitor
  BY DEF Mailed, Counted, Within, Shape
<1>2. /\ IsFiniteSet(Mailed) /\ IsFiniteSet(Counted) /\ IsFiniteSet(cut) /\ IsFiniteSet(W)
      /\ Cardinality(Mailed) \in Nat /\ Cardinality(cut) \in Nat /\ Cardinality(Counted) \in Nat
      /\ Cardinality(W) \in Nat
  BY <1>1, SubsetCount
<1>3. f \in Surjection(W, T)
  BY DEF Surjection
<1>4. IsFiniteSet(T) /\ Cardinality(T) <= Cardinality(W) /\ Cardinality(T) \in Nat
  BY <1>2, <1>3, FS_Surjection, FS_CardinalityType
<1>5. Mailed \subseteq (Counted \cup cut) \cup T
  <2> SUFFICES ASSUME NEW k \in Mailed, k \notin cut, k \notin Counted PROVE k \in T
    OBVIOUS
  <2>1. PICK w \in W : req[w].key = k
    BY DEF Counted
  <2>2. f[w] = k
    BY <2>1
  <2> HIDE DEF f, W
  <2> QED
    BY <2>2
<1> HIDE DEF f, T, W
<1>6. IsFiniteSet(Counted \cup cut) /\ Cardinality(Counted \cup cut) \in Nat
      /\ Cardinality(Counted \cup cut) <= Cardinality(Counted) + Cardinality(cut)
  BY <1>2, UnionCount
<1>10. /\ IsFiniteSet((Counted \cup cut) \cup T) /\ Cardinality((Counted \cup cut) \cup T) \in Nat
      /\ Cardinality((Counted \cup cut) \cup T) <= Cardinality(Counted \cup cut) + Cardinality(T)
  BY <1>4, <1>6, UnionCount
<1>7. /\ IsFiniteSet((Counted \cup cut) \cup T) /\ Cardinality((Counted \cup cut) \cup T) \in Nat
      /\ Cardinality((Counted \cup cut) \cup T) <= Cardinality(Counted) + Cardinality(cut) + Cardinality(W)
  BY <1>2, <1>4, <1>6, <1>10
<1>8. Cardinality(Mailed) <= Cardinality((Counted \cup cut) \cup T)
  BY <1>5, <1>7, SubsetCount
<1>9. Cardinality(Counted) <= count["redis"]["emails"] /\ count["redis"]["emails"] \in Nat
  BY DEF CountersTell, Shape, Store, Counter, Scope
<1> QED
  BY <1>2, <1>7, <1>8, <1>9 DEF W

\* The mails that have been counted are no more than the counter says, after a
\* request moved that was not counting or whose mail is counted or lost now.
LEMMA CountedStays ==
  ASSUME IInv, NEW v \in Visitor, NEW r \in Submission, req' = [req EXCEPT ![v] = r],
         app' = app, cut \subseteq cut', reliable,
         r.pc = "count" => req[v].pc = "count" /\ r.key = req[v].key,
         count["redis"]["emails"] <= count'["redis"]["emails"], count'["redis"]["emails"] \in Nat,
         req[v].pc = "count" =>
            \/ r.pc = "count" \/ req[v].key \in cut'
            \/ count["redis"]["emails"] + 1 <= count'["redis"]["emails"]
  PROVE  Cardinality(Counted') <= count'["redis"]["emails"]
<1> USE Parts
<1>1. /\ IsFiniteSet(Counted) /\ Cardinality(Counted) \in Nat
      /\ Cardinality(Counted) <= count["redis"]["emails"] /\ count["redis"]["emails"] \in Nat
  BY MailedFew, FS_CardinalityType DEF CountersTell, Shape, Store, Counter, Scope
<1>2. req'[v] = r /\ \A w \in Visitor \ {v} : req'[w] = req[w]
  BY DEF Shape
<1>3. Counted' \subseteq Counted \cup {req[v].key}
  BY <1>2 DEF Counted, Mailed, Within
<1>4. CASE req[v].pc = "count" /\ r.pc # "count" /\ req[v].key \notin cut'
  <2>1. Cardinality(Counted') <= Cardinality(Counted) + 1 /\ Cardinality(Counted') \in Nat
    BY <1>1, <1>3, GrownCount
  <2> QED
    BY <1>1, <1>4, <2>1
<1>5. CASE req[v].pc # "count" \/ r.pc = "count" \/ req[v].key \in cut'
  <2>1. Counted' \subseteq Counted
    BY <1>2, <1>5 DEF Counted, Mailed, Within
  <2> QED
    BY <1>1, <2>1, SubsetCount
<1> QED
  BY <1>4, <1>5

\* A request moves that the checks have not let through just now.
LEMMA CountersStay ==
  ASSUME IInv, NEW v \in Visitor, NEW r \in Submission, req' = [req EXCEPT ![v] = r],
         UNCHANGED <<job, adm, app, abreast>>, cut \subseteq cut', cut' \subseteq Key,
         broken' => ~reliable', reliable' => reliable,
         r.pc = "count" => req[v].pc = "count" /\ r.key = req[v].key,
         r.pc \in Passed => req[v].pc \in Passed,
         count["redis"]["emails"] <= count'["redis"]["emails"], count'["redis"]["emails"] \in Nat,
         reliable' /\ req[v].pc = "count" =>
            \/ r.pc = "count" \/ req[v].key \in cut'
            \/ count["redis"]["emails"] + 1 <= count'["redis"]["emails"],
         ~broken' => count'["memory"]["applications"] = 0,
         admitted' <= Lesser(count'["redis"]["applications"], APPLICATIONS)
                       + Lesser(count'["memory"]["applications"], APPLICATIONS),
         reliable' => burnt' + Cardinality(Within(Paid)') <= Cardinality(used')
  PROVE  CountersTell'
<1> USE Parts
<1>1. reliable' => Cardinality(Counted') <= count'["redis"]["emails"]
  BY CountedStays
<1>2. reliable' => Cardinality(Mailed)' + Cardinality(Within(Passed)')
                     <= EMAILS + abreast'.mails - 1 + Cardinality(cut')
  <2> SUFFICES ASSUME reliable' PROVE Cardinality(Mailed)' + Cardinality(Within(Passed)')
                     <= EMAILS + abreast'.mails - 1 + Cardinality(cut')
    OBVIOUS
  <2>1. Mailed' = Mailed
    BY DEF Mailed
  <2>2. /\ Cardinality(Within(Passed)') <= Cardinality(Within(Passed))
        /\ Cardinality(Within(Passed)') \in Nat /\ Cardinality(Within(Passed)) \in Nat
    BY FewerStand DEF Shape
  <2>3. Cardinality(cut) <= Cardinality(cut') /\ Cardinality(cut) \in Nat /\ Cardinality(cut') \in Nat
    BY KeysAreFinite, SubsetCount
  <2>4. /\ Cardinality(Mailed) + Cardinality(Within(Passed)) <= EMAILS + abreast.mails - 1 + Cardinality(cut)
        /\ Cardinality(Mailed) \in Nat /\ abreast.mails \in Nat /\ EMAILS \in Nat
    BY MailedFew, LimitsAreOn DEF CountersTell, Shape
  <2> QED
    BY <2>1, <2>2, <2>3, <2>4
<1>3. Cardinality(Active)' + Cardinality(Publishing)' <= ACTIVE_JOBS + abreast'.jobs - 1
  BY DEF CountersTell, Active, Publishing
<1> QED
  BY <1>1, <1>2, <1>3 DEF CountersTell

\* A request moves that counts nothing, or that finds redis gone.
LEMMA CountersKept ==
  ASSUME IInv, NEW v \in Visitor, NEW r \in Submission, req' = [req EXCEPT ![v] = r],
         UNCHANGED <<job, adm, app, abreast, count, broken, admitted, cut>>, reliable' => reliable,
         r.pc # "count", req[v].pc # "count", r.pc \notin Passed,
         reliable' => burnt' + Cardinality(Within(Paid)') <= Cardinality(used')
  PROVE  CountersTell'
<1>1. cut \subseteq cut' /\ cut' \subseteq Key
  BY Parts DEF Shape
<1>2. /\ broken' => ~reliable'
      /\ ~broken' => count'["memory"]["applications"] = 0
      /\ admitted' <= Lesser(count'["redis"]["applications"], APPLICATIONS)
                       + Lesser(count'["memory"]["applications"], APPLICATIONS)
  BY Parts DEF CountersTell
<1>3. count["redis"]["emails"] <= count'["redis"]["emails"] /\ count'["redis"]["emails"] \in Nat
  <2>1. count["redis"]["emails"] \in Nat
    BY Parts DEF Shape, Store, Counter, Scope
  <2> QED
    BY <2>1
<1>4. UNCHANGED <<job, adm, app, abreast>>
  OBVIOUS
<1> QED
  BY <1>1, <1>2, <1>3, <1>4, CountersStay

\* A request moves that leaves the counters and the histories alone.
LEMMA CountersAlone ==
  ASSUME IInv, NEW v \in Visitor, NEW r \in Submission, req' = [req EXCEPT ![v] = r],
         UNCHANGED <<job, adm, app, abreast, count, broken, reliable, burnt, admitted, used>>,
         cut \subseteq cut', cut' \subseteq Key,
         r.pc = "count" => req[v].pc = "count" /\ r.key = req[v].key,
         r.pc \in Passed => req[v].pc \in Passed,
         r.pc \in Paid => req[v].pc \in Paid,
         req[v].pc = "count" => r.pc = "count" \/ req[v].key \in cut'
  PROVE  CountersTell'
<1> USE Parts
<1>1. reliable => burnt + Cardinality(Within(Paid)') <= Cardinality(used)
  <2>1. /\ Cardinality(Within(Paid)') <= Cardinality(Within(Paid))
        /\ Cardinality(Within(Paid)') \in Nat /\ Cardinality(Within(Paid)) \in Nat
    BY FewerStand DEF Shape
  <2>2. burnt \in Nat /\ IsFiniteSet(used) /\ Cardinality(used) \in Nat
    BY UsedAreFinite DEF Shape
  <2> QED
    BY <2>1, <2>2 DEF CountersTell
<1>2. count["redis"]["emails"] \in Nat
  BY DEF Shape, Store, Counter, Scope
<1>3. /\ broken' => ~reliable'
      /\ reliable' => reliable
      /\ ~broken' => count'["memory"]["applications"] = 0
      /\ admitted' <= Lesser(count'["redis"]["applications"], APPLICATIONS)
                       + Lesser(count'["memory"]["applications"], APPLICATIONS)
  BY DEF CountersTell
<1>4. reliable' => burnt' + Cardinality(Within(Paid)') <= Cardinality(used')
  BY <1>1
<1>5. count["redis"]["emails"] <= count'["redis"]["emails"] /\ count'["redis"]["emails"] \in Nat
  BY <1>2
<1> QED
  BY <1>3, <1>4, <1>5, CountersStay

LEMMA ShapeStays ==
  ASSUME IInv, NEW v \in Visitor, NEW r \in Submission, req' = [req EXCEPT ![v] = r],
         UNCHANGED <<job, listed, retired, blocked, adm>>,
         r.pc # "idle" => r.key \in Key,
         app' \in [Key -> Application], cands' \in SUBSET Email,
         \A k \in Key : app'[k].st = "live" =>
            /\ k[2] \in cands'
            /\ Required \cap app'[k].asked \subseteq app'[k].given
            /\ app'[k].given \subseteq app'[k].asked,
         used' \in SUBSET (1 .. issued'), entries' \in [Scope -> Nat],
         broken' \in BOOLEAN, reliable' \in BOOLEAN,
         count' \in [Store -> [Counter -> Nat]], abreast' \in [mails : Nat, jobs : Nat],
         issued' \in Nat, burnt' \in Nat, admitted' \in Nat, submits' \in Nat, events' \in Nat,
         cut' \in SUBSET Key
  PROVE  Shape'
<1> USE Parts
<1>1. req' \in [Visitor -> Submission]
  BY DEF Shape
<1>2. \A w \in Visitor : req'[w].pc # "idle" => req'[w].key \in Job \X Email
  BY DEF Shape, TypeOK, Key
<1>3. TypeOK'
  BY <1>2 DEF TypeOK, Key
<1> QED
  BY <1>1, <1>3 DEF Shape

\* What ShapeStays asks for, where nothing of it changes.
LEMMA ShapeNow ==
  ASSUME IInv
  PROVE  /\ req \in [Visitor -> Submission] /\ app \in [Key -> Application] /\ cands \in SUBSET Email
         /\ \A k \in Key : app[k].st = "live" =>
              /\ k[2] \in cands
              /\ Required \cap app[k].asked \subseteq app[k].given
              /\ app[k].given \subseteq app[k].asked
         /\ used \in SUBSET (1 .. issued) /\ entries \in [Scope -> Nat]
         /\ broken \in BOOLEAN /\ reliable \in BOOLEAN
         /\ count \in [Store -> [Counter -> Nat]] /\ abreast \in [mails : Nat, jobs : Nat]
         /\ issued \in Nat /\ burnt \in Nat /\ admitted \in Nat /\ submits \in Nat /\ events \in Nat
         /\ cut \in SUBSET Key
         /\ \A v \in Visitor : req[v].pc # "idle" => req[v].key \in Key
  BY Parts DEF Shape, TypeOK, Key
-----------------------------------------------------------------------------
(***************************************************************************)
(* The steps of a submission.                                              *)
(***************************************************************************)
\* The request goes on.
LEMMA OnwardCarries ==
  ASSUME IInv, NEW v \in Visitor, req[v].pc # "idle", UNCHANGED <<job, app, issued>>,
         NEW l \in {"emails", "applications", "answers", "record"},
         NEW r, r = [req[v] EXCEPT !.pc = l],
         l = "record" => req[v].over \in Scope
  PROVE  /\ r \in Submission /\ r.pc = l /\ r.key = req[v].key /\ r.key \in Key
         /\ Carries(r)'
<1>1. req[v] \in Submission /\ Carries(req[v]) /\ req[v].key \in Key
  BY Parts, ShapeNow
<1>2. /\ r \in Submission
      /\ r.pc = l /\ r.key = req[v].key /\ r.token = req[v].token /\ r.res = req[v].res
      /\ r.over = req[v].over
  BY <1>1 DEF Submission
<1>3. Carries(r)'
  BY <1>1, <1>2 DEF Carries
<1> QED
  BY <1>1, <1>2, <1>3

\* The request has exceeded a quota.
LEMMA BreachCarries ==
  ASSUME IInv, NEW v \in Visitor, req[v].pc # "idle", UNCHANGED <<job, app, issued>>,
         NEW o \in Scope, NEW r, r = [req[v] EXCEPT !.pc = "breach", !.over = o]
  PROVE  /\ r \in Submission /\ r.pc = "breach" /\ r.key = req[v].key /\ r.key \in Key
         /\ Carries(r)'
<1>1. req[v] \in Submission /\ Carries(req[v]) /\ req[v].key \in Key
  BY Parts, ShapeNow
<1>2. /\ r \in Submission
      /\ r.pc = "breach" /\ r.key = req[v].key /\ r.token = req[v].token /\ r.res = req[v].res
      /\ r.over = o
  BY <1>1 DEF Submission
<1>3. Carries(r)'
  BY <1>1, <1>2 DEF Carries
<1> QED
  BY <1>1, <1>2, <1>3

\* The request ends without an answer; it may be killed.
LEMMA RefuseInv ==
  ASSUME IInv, NEW v \in Visitor, req[v].pc # "idle", Refuse(v),
         UNCHANGED <<work, app, cands, redis, entries, abreast, submits>>, events' \in Nat,
         cut' \in {cut, cut \cup {req[v].key}},
         req[v].pc = "count" => req[v].key \in cut',
         req[v].pc \in {"quiz", "mail"} => req[v].key \in cut' \/ app[req[v].key].st # "live"
  PROVE  IInv'
<1> USE NoRequest
<1>1. /\ req' = [req EXCEPT ![v] = NoReq]
      /\ UNCHANGED <<job, listed, retired, blocked, adm, app, cands, issued, used, count, broken,
                     reliable, burnt, admitted, entries, abreast, submits>>
  BY DEF Refuse, Goto, work, redis
<1>2. req[v].key \in Key /\ cut \subseteq cut' /\ cut' \subseteq Key
  BY ShapeNow
<1>3. Shape'
  BY <1>1, <1>2, ShapeNow, ShapeStays
<1>4. Carries(NoReq)'
  BY DEF Carries, NoReq
<1>5. issued \in Nat
  BY ShapeNow
<1>6. /\ \A w \in Visitor : Carries(req[w])'
      /\ \A b \in Admin : adm'[b].pc # "idle" => adm'[b].job # {}
      /\ AppsAreWhole' /\ DrawIsFair'
  <2>1. NoReq \in Submission
    OBVIOUS
  <2>2. UNCHANGED <<job, adm, app>>
    BY <1>1
  <2>3. issued \in Nat /\ issued' \in Nat /\ issued <= issued'
    BY <1>1, <1>5
  <2>4. NoReq.pc \in Storing => req[v].pc \in Storing /\ NoReq.key = req[v].key
    BY DEF Storing
  <2>5. req[v].pc \in {"quiz", "mail"} =>
            \/ NoReq.pc \in {"quiz", "mail"} \/ req[v].key \in cut' \/ app[req[v].key].st # "live"
    OBVIOUS
  <2> QED
    BY <1>1, <1>2, <1>4, <2>1, <2>2, <2>3, <2>4, <2>5, AppsStay
<1>7. CountersTell'
  BY <1>1, <1>2, CountersAlone DEF Passed, Paid
<1> QED
  BY <1>3, <1>6, <1>7 DEF IInv

LEMMA SubmitInv ==
  ASSUME IInv, NEW v \in Visitor, NEW j \in Job, NEW e \in Email, NEW t \in 1 .. issued + 1,
         NEW given \in SUBSET Screening, Submit(v, j, e, t, given)
  PROVE  IInv'
<1> PICK r : r = [NoReq EXCEPT !.pc = "challenge", !.key = <<j, e>>, !.token = {t}, !.given = given,
                               !.form = job[j].form, !.quiz = job[j].quiz, !.blocked = blocked]
  OBVIOUS
<1>1. /\ req' = [req EXCEPT ![v] = r] /\ req[v].pc = "idle"
      /\ issued' = IF t > issued THEN t ELSE issued
      /\ submits' = submits + 1
      /\ UNCHANGED <<job, listed, retired, blocked, adm, app, cands, used, count, broken, reliable,
                     burnt, admitted, entries, cut, abreast, events>>
  BY DEF Submit, Goto, At, work
<1>2. issued \in Nat /\ issued' \in Nat /\ issued <= issued' /\ t \in Nat /\ t \in 1 .. issued'
  BY <1>1, ShapeNow
<1>3. job[j].form \in Forms /\ job[j].quiz \in QuizKind /\ blocked \in SUBSET Question
  BY Parts DEF TypeOK
<1>4. r \in Submission
  BY <1>2, <1>3, NoRequest DEF Submission, Forms, Key
<1>5. r.pc = "challenge" /\ r.key = <<j, e>> /\ r.token = {t} /\ r.res = "none"
  BY DEF NoReq
<1>6. Carries(r)'
  BY <1>2, <1>5 DEF Carries
<1>7. used \subseteq 1 .. issued'
  BY <1>2, ShapeNow
<1>8. Shape'
  <2>1. r.key \in Key /\ used' \in SUBSET (1 .. issued') /\ submits' \in Nat
    BY <1>1, <1>5, <1>7, ShapeNow DEF Key
  <2> QED
    BY <1>1, <1>2, <1>4, <2>1, ShapeNow, ShapeStays
<1>9. /\ \A w \in Visitor : Carries(req[w])'
      /\ \A b \in Admin : adm'[b].pc # "idle" => adm'[b].job # {}
      /\ AppsAreWhole' /\ DrawIsFair'
  BY <1>1, <1>2, <1>4, <1>5, <1>6, AppsRest
<1>10. CountersTell'
  BY <1>1, <1>4, <1>5, ShapeNow, CountersAlone DEF Passed, Paid
<1> QED
  BY <1>8, <1>9, <1>10 DEF IInv

LEMMA ClaimChallengeInv ==
  ASSUME IInv, NEW v \in Visitor, ClaimChallenge(v)
  PROVE  IInv'
<1> PICK r : r = [req[v] EXCEPT !.pc = "emails"]
  OBVIOUS
<1>1. req[v].pc = "challenge" /\ req[v] \in Submission /\ Carries(req[v]) /\ req[v].key \in Key
  BY Parts, ShapeNow DEF ClaimChallenge, At
<1>2. /\ UNCHANGED <<job, listed, retired, blocked, adm, app, cands, issued, count, broken, burnt, admitted,
                     entries, cut, abreast, submits>>
  BY DEF ClaimChallenge, work
<1>3. req[v].token \subseteq 1 .. issued /\ req[v].token # {}
  BY <1>1 DEF Carries
<1>4. CASE Refuse(v) /\ req[v].token \subseteq used /\ used' = used \cup req[v].token
           /\ UNCHANGED <<reliable, events>>
  <2>1. used' = used
    BY <1>4
  <2>2. events' \in Nat
    BY <1>4, ShapeNow
  <2> QED
    BY <1>1, <1>2, <1>4, <2>1, <2>2, RefuseInv DEF work, redis
<1>5. CASE /\ Proceed(v, "emails")
           /\ \/ used' = used \cup req[v].token /\ ~(req[v].token \subseteq used)
                /\ UNCHANGED <<reliable, events>>
              \/ used' = used /\ reliable' = FALSE /\ (IF broken THEN UNCHANGED events ELSE Event)
  <2>1. req' = [req EXCEPT ![v] = r]
    BY <1>5 DEF Proceed, Goto
  <2>2. /\ r \in Submission /\ r.pc = "emails" /\ r.key = req[v].key
        /\ Carries(r)'
    BY <1>1, <1>2, OnwardCarries
  <2>3. events' \in Nat /\ reliable' \in BOOLEAN
    <3>1. CASE UNCHANGED <<reliable, events>>
      BY <3>1, ShapeNow
    <3>2. CASE reliable' = FALSE /\ (IF broken THEN UNCHANGED events ELSE Event)
      <4>1. events' \in Nat
        BY <3>2, ShapeNow DEF Event
      <4> QED
        BY <3>2, <4>1
    <3> QED
      BY <1>5, <3>1, <3>2
  <2>4. used' \subseteq 1 .. issued' /\ used \subseteq used'
    BY <1>2, <1>3, <1>5, ShapeNow
  <2>5. Shape'
    BY <1>1, <1>2, <2>1, <2>2, <2>3, <2>4, ShapeNow, ShapeStays
  <2>6. /\ \A w \in Visitor : Carries(req[w])'
        /\ \A b \in Admin : adm'[b].pc # "idle" => adm'[b].job # {}
        /\ AppsAreWhole' /\ DrawIsFair'
    <3>1. issued' \in Nat /\ issued <= issued'
      BY <1>2, ShapeNow
    <3> QED
      BY <1>1, <1>2, <2>1, <2>2, <3>1, AppsRest
  <2>7. CountersTell'
    <3>1. /\ Cardinality(Within(Paid)) \in Nat
          /\ Cardinality(Within(Paid)') = Cardinality(Within(Paid)) + 1
      <4>1. r.pc \in Paid /\ req[v].pc \notin Paid
        BY <1>1, <2>2 DEF Paid
      <4> QED
        BY <2>1, <4>1, ShapeNow, MoveCount
    <3>2. reliable' => reliable /\ ~(req[v].token \subseteq used) /\ used' = used \cup req[v].token
      BY <1>5
    <3>3. reliable' => Cardinality(used) + 1 <= Cardinality(used')
      <4>3. issued' \in Int
        BY <1>2, ShapeNow
      <4>1. IsFiniteSet(1 .. issued')
        BY <4>3, FS_Interval
      <4>2. IsFiniteSet(used')
        BY <2>4, <4>1, SubsetCount
      <4> QED
        BY <2>4, <3>2, <4>2, SubsetCount
    <3>4. reliable' => burnt' + Cardinality(Within(Paid)') <= Cardinality(used')
      <4>1. /\ burnt \in Nat /\ Cardinality(used) \in Nat
            /\ reliable => burnt + Cardinality(Within(Paid)) <= Cardinality(used)
        BY Parts, ShapeNow, UsedAreFinite DEF CountersTell
      <4>2. reliable' => Cardinality(used') \in Nat
        <5>2. issued' \in Int
          BY <1>2, ShapeNow
        <5>1. IsFiniteSet(1 .. issued')
          BY <5>2, FS_Interval
        <5> QED
          BY <2>4, <5>1, SubsetCount
      <4> QED
        BY <1>2, <3>1, <3>2, <3>3, <4>1, <4>2
    <3>5. /\ count["redis"]["emails"] \in Nat
          /\ broken' => ~reliable'
          /\ ~broken' => count'["memory"]["applications"] = 0
          /\ admitted' <= Lesser(count'["redis"]["applications"], APPLICATIONS)
                           + Lesser(count'["memory"]["applications"], APPLICATIONS)
      BY <1>2, <3>2, Parts, ShapeNow DEF CountersTell, Store, Counter, Scope
    <3>6. r.pc \notin Passed /\ r.pc # "count" /\ req[v].pc # "count"
      BY <1>1, <2>2 DEF Passed
    <3> QED
      BY <1>2, <2>1, <2>2, <3>2, <3>4, <3>6, CountersKept
  <2> QED
    BY <2>5, <2>6, <2>7 DEF IInv
<1> QED
  BY <1>4, <1>5 DEF ClaimChallenge

LEMMA GuardEmailsInv ==
  ASSUME IInv, NEW v \in Visitor, GuardEmails(v)
  PROVE  IInv'
<1>1. req[v].pc = "emails" /\ req[v] \in Submission /\ Carries(req[v]) /\ req[v].key \in Key
  BY Parts, ShapeNow DEF GuardEmails, At
<1>2. /\ UNCHANGED <<job, listed, retired, blocked, adm, app, cands, issued, used, count, broken, burnt,
                     admitted, entries, cut, submits>>
  BY DEF GuardEmails, work
<1>3. PICK n \in Next0 :
         /\ Peek("emails", n)
         /\ IF Over("emails", n, FALSE)
            THEN Goto(v, [req[v] EXCEPT !.pc = "breach", !.over = "emails"]) /\ UNCHANGED abreast
            ELSE /\ Proceed(v, "applications")
                 /\ abreast' = [abreast EXCEPT !.mails =
                                  More(@, 1 + Cardinality({w \in Visitor : Beyond(w)}))]
  BY DEF GuardEmails
<1>4. /\ n \in Nat /\ events' \in Nat /\ reliable' \in BOOLEAN
      /\ reliable' => reliable /\ n = count["redis"]["emails"]
  BY <1>3, PeekFacts DEF Counter, Scope
<1>5. /\ count["redis"]["emails"] \in Nat
      /\ broken' => ~reliable'
      /\ ~broken' => count'["memory"]["applications"] = 0
      /\ admitted' <= Lesser(count'["redis"]["applications"], APPLICATIONS)
                       + Lesser(count'["memory"]["applications"], APPLICATIONS)
  BY <1>2, <1>4, Parts, ShapeNow DEF CountersTell, Store, Counter, Scope
<1>6. ASSUME NEW r \in Submission, req' = [req EXCEPT ![v] = r], r.pc \in {"breach", "applications"}
      PROVE  reliable' => burnt' + Cardinality(Within(Paid)') <= Cardinality(used')
  <2>1. /\ Cardinality(Within(Paid)) \in Nat /\ Cardinality(Within(Paid)') \in Nat
        /\ Cardinality(Within(Paid)') <= Cardinality(Within(Paid))
    <3>1. r.pc \in Paid => req[v].pc \in Paid
      BY <1>1 DEF Paid
    <3> QED
      BY <1>6, <3>1, ShapeNow, FewerStand
  <2> QED
    BY <1>2, <1>4, <2>1, Parts, ShapeNow, UsedAreFinite DEF CountersTell
<1>7. CASE Over("emails", n, FALSE)
  <2> PICK r : r = [req[v] EXCEPT !.pc = "breach", !.over = "emails"]
    OBVIOUS
  <2>1. req' = [req EXCEPT ![v] = r] /\ abreast' = abreast
    BY <1>3, <1>7 DEF Goto
  <2>2. r \in Submission /\ r.pc = "breach" /\ r.key = req[v].key /\ Carries(r)'
    <3>1. "emails" \in Scope
      BY DEF Scope
    <3> QED
      BY <1>1, <1>2, <3>1, BreachCarries
  <2>3. Shape'
    BY <1>1, <1>2, <1>4, <2>1, <2>2, ShapeNow, ShapeStays
  <2>4. /\ \A w \in Visitor : Carries(req[w])'
        /\ \A b \in Admin : adm'[b].pc # "idle" => adm'[b].job # {}
        /\ AppsAreWhole' /\ DrawIsFair'
    <3>1. issued' \in Nat /\ issued <= issued'
      BY <1>2, ShapeNow
    <3> QED
      BY <1>1, <1>2, <2>1, <2>2, <3>1, AppsRest
  <2>5. r.pc \notin Passed /\ r.pc # "count" /\ req[v].pc # "count"
    BY <1>1, <2>2 DEF Passed
  <2>6. CountersTell'
    BY <1>2, <1>4, <1>6, <2>1, <2>2, <2>5, CountersKept
  <2> QED
    BY <2>3, <2>4, <2>6 DEF IInv
<1>8. CASE ~Over("emails", n, FALSE)
  <2> PICK r : r = [req[v] EXCEPT !.pc = "applications"]
    OBVIOUS
  <2> DEFINE B == {w \in Visitor : Beyond(w)}
  <2>1. /\ req' = [req EXCEPT ![v] = r]
        /\ abreast' = [abreast EXCEPT !.mails = More(@, 1 + Cardinality(B))]
    BY <1>3, <1>8 DEF Proceed, Goto
  <2>2. r \in Submission /\ r.pc = "applications" /\ r.key = req[v].key /\ Carries(r)'
    BY <1>1, <1>2, OnwardCarries
  <2>3. /\ IsFiniteSet(Within(Passed)) /\ IsFiniteSet(Within({"count"}))
        /\ Cardinality(Within(Passed)) \in Nat /\ Cardinality(Within({"count"})) \in Nat
        /\ Cardinality(Within(Passed)') = Cardinality(Within(Passed)) + 1
    <3>1. r.pc \in Passed /\ req[v].pc \notin Passed
      BY <1>1, <2>2 DEF Passed
    <3> QED
      BY <2>1, <3>1, ShapeNow, MoveCount
  <2>4. Cardinality(B) = Cardinality(Within(Passed)) + Cardinality(Within({"count"}))
    <3>1. B = Within(Passed) \cup Within({"count"}) /\ Within(Passed) \cap Within({"count"}) = {}
      BY DEF Beyond, Within, Passed
    <3> QED
      BY <2>3, <3>1, UnionCount
  <2> HIDE DEF B
  <2>5. /\ abreast' \in [mails : Nat, jobs : Nat] /\ abreast'.jobs = abreast.jobs
        /\ abreast.mails <= abreast'.mails /\ 1 + Cardinality(B) <= abreast'.mails
    BY <2>1, <2>3, <2>4, ShapeNow DEF More
  <2>6. Shape'
    BY <1>1, <1>2, <1>4, <2>1, <2>2, <2>5, ShapeNow, ShapeStays
  <2>7. /\ \A w \in Visitor : Carries(req[w])'
        /\ \A b \in Admin : adm'[b].pc # "idle" => adm'[b].job # {}
        /\ AppsAreWhole' /\ DrawIsFair'
    <3>1. issued' \in Nat /\ issued <= issued'
      BY <1>2, ShapeNow
    <3> QED
      BY <1>1, <1>2, <2>1, <2>2, <3>1, AppsRest
  <2>8. reliable' => Cardinality(Counted') <= count'["redis"]["emails"]
    <3>1. r.pc # "count" /\ req[v].pc # "count" /\ count["redis"]["emails"] <= count'["redis"]["emails"]
          /\ count'["redis"]["emails"] \in Nat /\ cut \subseteq cut'
      BY <1>1, <1>2, <1>5, <2>2
    <3> QED
      BY <1>2, <1>4, <2>1, <2>2, <3>1, CountedStays
  <2>9. reliable' => Cardinality(Mailed)' + Cardinality(Within(Passed)')
                       <= EMAILS + abreast'.mails - 1 + Cardinality(cut')
    <3> SUFFICES ASSUME reliable'
                 PROVE  Cardinality(Mailed') + Cardinality(Within(Passed)')
                          <= EMAILS + abreast'.mails - 1 + Cardinality(cut')
      OBVIOUS
    <3>1. n < EMAILS
      BY <1>4, <1>8, LimitsAreOn DEF Over, Limit
    <3>2. Mailed' = Mailed /\ cut' = cut
      BY <1>2 DEF Mailed
    <3>3. /\ Cardinality(Mailed) \in Nat /\ Cardinality(cut) \in Nat
          /\ Cardinality(Mailed) <= n + Cardinality(Within({"count"})) + Cardinality(cut)
      BY <1>4, MailedFew
    <3> QED
      BY <1>4, <2>3, <2>4, <2>5, <3>1, <3>2, <3>3, LimitsAreOn
  <2>10. Cardinality(Active)' + Cardinality(Publishing)' <= ACTIVE_JOBS + abreast'.jobs - 1
    BY <1>2, <2>5, Parts DEF CountersTell, Active, Publishing
  <2>11. reliable' => burnt' + Cardinality(Within(Paid)') <= Cardinality(used')
    BY <1>6, <2>1, <2>2
  <2>12. CountersTell'
    BY <1>5, <2>8, <2>9, <2>10, <2>11 DEF CountersTell
  <2> QED
    BY <2>6, <2>7, <2>12 DEF IInv
<1> QED
  BY <1>7, <1>8
LEMMA GuardApplicationsInv ==
  ASSUME IInv, NEW v \in Visitor, GuardApplications(v)
  PROVE  IInv'
<1>1. req[v].pc = "applications" /\ req[v] \in Submission /\ Carries(req[v]) /\ req[v].key \in Key
  BY Parts, ShapeNow DEF GuardApplications, At
<1>2. /\ UNCHANGED <<job, listed, retired, blocked, adm, app, cands, issued, used, entries, cut, abreast,
                     submits>>
      /\ burnt' = burnt + 1
  BY DEF GuardApplications, work
<1>3. PICK n \in Next0 :
         /\ Hit("applications", n)
         /\ IF Over("applications", n, TRUE)
            THEN /\ Goto(v, [req[v] EXCEPT !.pc = "breach", !.over = "applications"])
                 /\ UNCHANGED admitted
            ELSE Proceed(v, "answers") /\ admitted' = admitted + 1
  BY DEF GuardApplications
<1>4. /\ n \in Nat /\ count' \in [Store -> [Counter -> Nat]]
      /\ broken' \in BOOLEAN /\ reliable' \in BOOLEAN /\ events' \in Nat
      /\ broken' => ~reliable'
  BY <1>3, HitFacts DEF Counter, Scope
<1>5. PICK s \in Store :
      /\ n = count[s]["applications"] + 1 /\ count'[s]["applications"] = n
      /\ \A t \in Store, d \in Counter : t # s \/ d # "applications" => count'[t][d] = count[t][d]
      /\ s = "redis" => broken' = broken /\ reliable' = reliable
      /\ s = "memory" => broken' /\ ~reliable'
  <2>1. "applications" \in Counter /\ Hit("applications", n)
    BY <1>3 DEF Counter, Scope
  <2> QED
    BY <2>1, HitFacts
<1>6. PICK r : \/ Over("applications", n, TRUE)
                    /\ r = [req[v] EXCEPT !.pc = "breach", !.over = "applications"]
               \/ ~Over("applications", n, TRUE) /\ r = [req[v] EXCEPT !.pc = "answers"]
  OBVIOUS
<1>7. /\ req' = [req EXCEPT ![v] = r]
      /\ admitted' = IF n > APPLICATIONS THEN admitted ELSE admitted + 1
  BY <1>3, <1>6 DEF Over, Limit, Proceed, Goto
<1>8. r \in Submission /\ r.pc \in {"breach", "answers"} /\ r.key = req[v].key /\ Carries(r)'
  <2>1. CASE r = [req[v] EXCEPT !.pc = "breach", !.over = "applications"]
    <3>1. "applications" \in Scope /\ req[v].pc # "idle" /\ UNCHANGED <<job, app, issued>>
      BY <1>1, <1>2 DEF Scope
    <3>2. r \in Submission /\ r.pc = "breach" /\ r.key = req[v].key /\ Carries(r)'
      BY <2>1, <3>1, BreachCarries
    <3> QED
      BY <3>2
  <2>2. CASE r = [req[v] EXCEPT !.pc = "answers"]
    BY <1>1, <1>2, <2>2, OnwardCarries
  <2> QED
    BY <1>6, <2>1, <2>2
<1>9. Shape'
  <2>1. admitted' \in Nat /\ burnt' \in Nat
    BY <1>2, <1>7, ShapeNow
  <2> QED
    BY <1>1, <1>2, <1>4, <1>7, <1>8, <2>1, ShapeNow, ShapeStays
<1>10. /\ \A w \in Visitor : Carries(req[w])'
       /\ \A b \in Admin : adm'[b].pc # "idle" => adm'[b].job # {}
       /\ AppsAreWhole' /\ DrawIsFair'
  <2>1. issued' \in Nat /\ issued <= issued'
    BY <1>2, ShapeNow
  <2> QED
    BY <1>1, <1>2, <1>7, <1>8, <2>1, AppsRest
<1>11. CountersTell'
  <2>1. reliable' => reliable
    BY <1>5 DEF Store
  <2>2. /\ count["redis"]["emails"] <= count'["redis"]["emails"] /\ count'["redis"]["emails"] \in Nat
    <3>1. /\ "emails" \in Counter /\ "redis" \in Store /\ "emails" # "applications"
          /\ count["redis"]["emails"] \in Nat
      BY ShapeNow DEF Counter, Scope, Store
    <3> QED
      BY <1>5, <3>1
  <2>3. ~broken' => count'["memory"]["applications"] = 0
    <3>1. "applications" \in Counter /\ "memory" \in Store /\ "memory" # "redis"
      BY DEF Counter, Scope, Store
    <3>2. ~broken => count["memory"]["applications"] = 0
      BY Parts DEF CountersTell
    <3> QED
      BY <1>5, <3>1, <3>2 DEF Store
  <2>4. admitted' <= Lesser(count'["redis"]["applications"], APPLICATIONS)
                       + Lesser(count'["memory"]["applications"], APPLICATIONS)
    <3>1. /\ "applications" \in Counter /\ "memory" \in Store /\ "redis" \in Store /\ "memory" # "redis"
          /\ count["redis"]["applications"] \in Nat /\ count["memory"]["applications"] \in Nat
          /\ admitted \in Nat /\ APPLICATIONS \in Nat
          /\ admitted <= Lesser(count["redis"]["applications"], APPLICATIONS)
                          + Lesser(count["memory"]["applications"], APPLICATIONS)
      BY Parts, ShapeNow, LimitsAreOn DEF Counter, Scope, Store, CountersTell
    <3>2. CASE s = "redis"
      <4>1. /\ count'["memory"]["applications"] = count["memory"]["applications"]
            /\ count'["redis"]["applications"] = count["redis"]["applications"] + 1
            /\ n = count["redis"]["applications"] + 1
        BY <1>5, <3>1, <3>2
      <4> QED
        BY <1>7, <3>1, <4>1 DEF Lesser
    <3>3. CASE s = "memory"
      <4>1. /\ count'["redis"]["applications"] = count["redis"]["applications"]
            /\ count'["memory"]["applications"] = count["memory"]["applications"] + 1
            /\ n = count["memory"]["applications"] + 1
        BY <1>5, <3>1, <3>3
      <4> QED
        BY <1>7, <3>1, <4>1 DEF Lesser
    <3> QED
      BY <3>2, <3>3 DEF Store
  <2>5. reliable' => burnt' + Cardinality(Within(Paid)') <= Cardinality(used')
    <3>1. /\ Cardinality(Within(Paid)) \in Nat
          /\ Cardinality(Within(Paid)') = Cardinality(Within(Paid)) - 1
      <4>1. req[v].pc \in Paid /\ r.pc \notin Paid
        BY <1>1, <1>8 DEF Paid
      <4> QED
        BY <1>7, <4>1, ShapeNow, MoveCount
    <3>2. /\ burnt \in Nat /\ Cardinality(used) \in Nat
          /\ reliable => burnt + Cardinality(Within(Paid)) <= Cardinality(used)
      BY Parts, ShapeNow, UsedAreFinite DEF CountersTell
    <3> QED
      BY <1>2, <2>1, <3>1, <3>2
  <2>6. /\ r.pc # "count" /\ req[v].pc # "count" /\ req[v].pc \in Passed
    BY <1>1, <1>8 DEF Passed
  <2>7. cut \subseteq cut' /\ cut' \subseteq Key /\ UNCHANGED <<job, adm, app, abreast>>
    BY <1>2, ShapeNow
  <2> QED
    BY <1>4, <1>7, <1>8, <2>1, <2>2, <2>3, <2>4, <2>5, <2>6, <2>7, CountersStay
<1> QED
  BY <1>9, <1>10, <1>11 DEF IInv

\* The counter of the day's breaches is none of those the guards read.
LEMMA FlagBreachInv ==
  ASSUME IInv, NEW v \in Visitor, FlagBreach(v)
  PROVE  IInv'
<1>1. req[v].pc = "breach" /\ req[v] \in Submission /\ Carries(req[v]) /\ req[v].key \in Key
  BY Parts, ShapeNow DEF FlagBreach, At
<1>2. UNCHANGED <<job, listed, retired, blocked, adm, app, cands, issued, used, burnt, admitted, entries, cut,
                  abreast, submits>>
  BY DEF FlagBreach, work
<1> PICK c : c = LoggedOf[req[v].over]
  OBVIOUS
<1>3. c \in Counter /\ c # "emails" /\ c # "applications" /\ req[v].over \in Scope
  <2>1. req[v].over \in Scope
    BY <1>1 DEF Carries
  <2>2. CASE req[v].over = "emails"
    <3>1. c = LoggedOf["emails"]
      BY <2>2
    <3>2. LoggedOf["emails"] = "emails logged"
      BY DEF LoggedOf
    <3> QED
      BY <2>1, <3>1, <3>2 DEF Counter
  <2>3. CASE req[v].over = "applications"
    <3>1. c = LoggedOf["applications"]
      BY <2>3
    <3>2. LoggedOf["applications"] = "applications logged"
      BY DEF LoggedOf
    <3> QED
      BY <2>1, <3>1, <3>2 DEF Counter
  <2> QED
    BY <2>1, <2>2, <2>3 DEF Scope
<1>4. PICK n \in Next0 : Hit(c, n) /\ (IF n = 1 THEN Proceed(v, "record") ELSE Refuse(v))
  BY DEF FlagBreach
<1>5. /\ count' \in [Store -> [Counter -> Nat]]
      /\ broken' \in BOOLEAN /\ reliable' \in BOOLEAN /\ events' \in Nat
      /\ broken' => ~reliable'
  BY <1>3, <1>4, HitFacts
<1>6. PICK s \in Store :
      /\ \A t \in Store, d \in Counter : t # s \/ d # c => count'[t][d] = count[t][d]
      /\ s = "redis" => broken' = broken /\ reliable' = reliable
      /\ s = "memory" => broken' /\ ~reliable'
  BY <1>3, <1>4, HitFacts
<1>7. PICK r : IF n = 1 THEN r = [req[v] EXCEPT !.pc = "record"] ELSE r = NoReq
  OBVIOUS
<1>8. req' = [req EXCEPT ![v] = r]
  BY <1>4, <1>7 DEF Refuse, Proceed, Goto
<1>9. r \in Submission /\ r.pc \in {"record", "idle"} /\ (r.pc # "idle" => r.key \in Key) /\ Carries(r)'
  <2>1. CASE r = [req[v] EXCEPT !.pc = "record"]
    BY <1>1, <1>2, <1>3, <2>1, OnwardCarries
  <2>2. CASE r = NoReq
    <3>1. Carries(NoReq)'
      BY DEF Carries, NoReq
    <3> QED
      BY <2>2, <3>1, NoRequest
  <2> QED
    BY <1>7, <2>1, <2>2
<1>10. Shape'
  BY <1>2, <1>5, <1>8, <1>9, ShapeNow, ShapeStays
<1>11. /\ \A w \in Visitor : Carries(req[w])'
       /\ \A b \in Admin : adm'[b].pc # "idle" => adm'[b].job # {}
       /\ AppsAreWhole' /\ DrawIsFair'
  <2>1. issued' \in Nat /\ issued <= issued'
    BY <1>2, ShapeNow
  <2> QED
    BY <1>1, <1>2, <1>8, <1>9, <2>1, AppsRest
<1>12. CountersTell'
  <2>1. reliable' => reliable
    BY <1>6 DEF Store
  <2>2. /\ count'["redis"]["emails"] = count["redis"]["emails"]
        /\ count'["redis"]["applications"] = count["redis"]["applications"]
        /\ count'["memory"]["applications"] = count["memory"]["applications"]
    BY <1>3, <1>6 DEF Store, Counter, Scope
  <2>3. count["redis"]["emails"] \in Nat
    BY ShapeNow DEF Counter, Scope, Store
  <2>4. ~broken' => ~broken
    BY <1>6 DEF Store
  <2>5. /\ ~broken' => count'["memory"]["applications"] = 0
        /\ admitted' <= Lesser(count'["redis"]["applications"], APPLICATIONS)
                       + Lesser(count'["memory"]["applications"], APPLICATIONS)
    BY <1>2, <2>2, <2>4, Parts DEF CountersTell
  <2>6. reliable' => burnt' + Cardinality(Within(Paid)') <= Cardinality(used')
    <3>1. /\ Cardinality(Within(Paid)) \in Nat /\ Cardinality(Within(Paid)') \in Nat
          /\ Cardinality(Within(Paid)') <= Cardinality(Within(Paid))
      <4>1. r.pc \notin Paid
        BY <1>9 DEF Paid
      <4> QED
        BY <1>8, <4>1, ShapeNow, FewerStand
    <3>2. /\ burnt \in Nat /\ Cardinality(used) \in Nat
          /\ reliable => burnt + Cardinality(Within(Paid)) <= Cardinality(used)
      BY Parts, ShapeNow, UsedAreFinite DEF CountersTell
    <3> QED
      BY <1>2, <2>1, <3>1, <3>2
  <2>7. /\ r.pc # "count" /\ req[v].pc # "count" /\ r.pc \notin Passed
    BY <1>1, <1>9 DEF Passed
  <2>8. /\ cut \subseteq cut' /\ cut' \subseteq Key /\ UNCHANGED <<job, adm, app, abreast>>
        /\ count["redis"]["emails"] <= count'["redis"]["emails"] /\ count'["redis"]["emails"] \in Nat
    BY <1>2, <2>2, <2>3, ShapeNow
  <2> QED
    BY <1>5, <1>8, <1>9, <2>1, <2>5, <2>6, <2>7, <2>8, CountersStay
<1> QED
  BY <1>10, <1>11, <1>12 DEF IInv

LEMMA RecordBreachInv ==
  ASSUME IInv, NEW v \in Visitor, RecordBreach(v)
  PROVE  IInv'
<1>1. req[v].pc = "record" /\ req[v].over \in Scope
  BY Parts DEF RecordBreach, At, Carries
<1>2. /\ req' = [req EXCEPT ![v] = NoReq]
      /\ UNCHANGED <<job, listed, retired, blocked, adm, app, cands, issued, used, count, broken, reliable,
                     burnt, admitted, cut, abreast, submits, events>>
  BY DEF RecordBreach, Refuse, Goto, work, redis
<1>3. entries' \in [Scope -> Nat]
  BY <1>1, ShapeNow DEF RecordBreach
<1>4. NoReq \in Submission /\ NoReq.pc = "idle" /\ Carries(NoReq)'
  BY NoRequest DEF Carries, NoReq
<1>5. Shape'
  BY <1>2, <1>3, <1>4, ShapeNow, ShapeStays
<1>6. /\ \A w \in Visitor : Carries(req[w])'
      /\ \A b \in Admin : adm'[b].pc # "idle" => adm'[b].job # {}
      /\ AppsAreWhole' /\ DrawIsFair'
  <2>1. issued' \in Nat /\ issued <= issued'
    BY <1>2, ShapeNow
  <2> QED
    BY <1>1, <1>2, <1>4, <2>1, AppsRest
<1>7. CountersTell'
  BY <1>1, <1>2, <1>4, ShapeNow, CountersAlone DEF Passed, Paid
<1> QED
  BY <1>5, <1>6, <1>7 DEF IInv

\* Only an answer that fits the form as it was loaded is stored.
LEMMA CheckAnswersInv ==
  ASSUME IInv, NEW v \in Visitor, CheckAnswers(v)
  PROVE  IInv'
<1>1. req[v].pc = "answers" /\ req[v] \in Submission /\ Carries(req[v]) /\ req[v].key \in Key
  BY Parts, ShapeNow DEF CheckAnswers, At
<1>2. UNCHANGED <<job, listed, retired, blocked, adm, app, cands, issued, used, count, broken, reliable, burnt,
                  admitted, entries, cut, abreast, submits, events>>
  BY DEF CheckAnswers, work, redis
<1>3. CASE Refuse(v)
  <2>1. events' \in Nat
    BY <1>2, ShapeNow
  <2> QED
    BY <1>1, <1>2, <1>3, <2>1, RefuseInv DEF work, redis
<1>4. CASE /\ Fits(req[v].given, req[v].form)
           /\ Goto(v, [req[v] EXCEPT !.pc = "insert", !.found = req[v].key[2] \in cands])
  <2> PICK r : r = [req[v] EXCEPT !.pc = "insert", !.found = req[v].key[2] \in cands]
    OBVIOUS
  <2>1. req' = [req EXCEPT ![v] = r]
    BY <1>4 DEF Goto
  <2>3. PICK f \in BOOLEAN : r = [req[v] EXCEPT !.pc = "insert", !.found = f]
    <3>1. CASE req[v].key[2] \in cands
      <4>1. (req[v].key[2] \in cands) = TRUE
        BY <3>1
      <4>2. r = [req[v] EXCEPT !.pc = "insert", !.found = TRUE]
        BY <4>1
      <4> QED
        BY <4>2
    <3>2. CASE req[v].key[2] \notin cands
      <4>1. (req[v].key[2] \in cands) = FALSE
        BY <3>2
      <4>2. r = [req[v] EXCEPT !.pc = "insert", !.found = FALSE]
        BY <4>1
      <4> QED
        BY <4>2
    <3> QED
      BY <3>1, <3>2
  <2>4. /\ r \in Submission /\ r.pc = "insert" /\ r.key = req[v].key /\ r.token = req[v].token
        /\ r.res = req[v].res /\ r.given = req[v].given /\ r.form = req[v].form
    BY <1>1, <2>3 DEF Submission
  <2>5. Carries(r)'
    BY <1>1, <1>2, <1>4, <2>4 DEF Carries, Fits
  <2>6. Shape'
    BY <1>1, <1>2, <2>1, <2>4, ShapeNow, ShapeStays
  <2>7. /\ \A w \in Visitor : Carries(req[w])'
        /\ \A b \in Admin : adm'[b].pc # "idle" => adm'[b].job # {}
        /\ AppsAreWhole' /\ DrawIsFair'
    <3>1. issued' \in Nat /\ issued <= issued'
      BY <1>2, ShapeNow
    <3> QED
      BY <1>1, <1>2, <2>1, <2>4, <2>5, <3>1, AppsRest
  <2>8. CountersTell'
    <3>1. /\ r.pc # "count" /\ req[v].pc # "count" /\ req[v].pc \in Passed /\ r.pc \notin Paid
          /\ cut \subseteq cut' /\ cut' \subseteq Key
      BY <1>1, <1>2, <2>4, ShapeNow DEF Passed, Paid
    <3> QED
      BY <1>2, <2>1, <2>4, <3>1, CountersAlone
  <2> QED
    BY <2>6, <2>7, <2>8 DEF IInv
<1> QED
  BY <1>3, <1>4 DEF CheckAnswers
-----------------------------------------------------------------------------
(***************************************************************************)
(* A request stores, completes or mails about its application, which no    *)
(* other request is at.                                                    *)
(***************************************************************************)
FairlyDrawn(drawn, pool) ==
    LET tags == UNION {TagsOf[q] : q \in pool}
    IN  /\ drawn \subseteq pool
        /\ drawn = pool \/ Cardinality(drawn) = QuizCount
        /\ QuizCount >= Cardinality(tags) => UNION {TagsOf[q] : q \in drawn} = tags

LEMMA AppMoves ==
  ASSUME IInv, NEW v \in Visitor, NEW r \in Submission, req' = [req EXCEPT ![v] = r],
         UNCHANGED <<job, adm, cut, issued>>,
         NEW k \in Key, k = req[v].key, r.key = k, r.pc \in Storing, Carries(r)',
         NEW a \in Application, app' = [app EXCEPT ![k] = a],
         req[v].pc \in Storing \/ app[k].st = "none",
         a.st # "none", a.st = "gone" => app[k].st = "gone", app[k].st = "live" => a.st = "live",
         app[k].mail # "none" => a.mail # "none",
         a.st = "live" /\ a.mail = "none" => r.pc \in {"quiz", "mail"},
         a.mail = "quiz_invite" <=> a.mail # "none" /\ a.drawn # {},
         FairlyDrawn(a.drawn, a.pool)
  PROVE  /\ \A w \in Visitor : Carries(req[w])'
         /\ \A b \in Admin : adm'[b].pc # "idle" => adm'[b].job # {}
         /\ AppsAreWhole' /\ DrawIsFair'
<1> USE Parts
<1>1. req'[v] = r /\ \A w \in Visitor \ {v} : req'[w] = req[w]
  BY DEF Shape
<1>2. app'[k] = a /\ \A i \in Key \ {k} : app'[i] = app[i]
  BY DEF Shape
<1>3. ASSUME NEW w \in Visitor, w # v, req[w].pc \in Storing
      PROVE  req[w].key # k
  <2>1. app[req[w].key].st # "none" /\ w \in Within(Storing)
    BY <1>3 DEF Carries, Storing, Within
  <2>2. req[v].pc \in Storing => v \in Within(Storing)
    BY DEF Within
  <2> QED
    BY <1>3, <2>1, <2>2 DEF AppsAreWhole
<1>4. ASSUME NEW w \in Visitor, w # v PROVE Carries(req[w])'
  <2>1. Carries(req[w]) /\ req'[w] = req[w] /\ UNCHANGED <<job, issued>>
    BY <1>1, <1>4
  <2>2. req[w].res # "none" => req[w].key \in Key
    BY <2>1 DEF Carries
  <2>3. req[w].pc \in Storing => req[w].key \in Key \ {k}
    BY <1>3, <1>4, ShapeNow DEF Storing
  <2>4. req[w].pc \in Storing => app'[req[w].key] = app[req[w].key]
    BY <1>2, <2>3
  <2>5. req[w].res = "conflict" => app'[req[w].key].st = "live" \/ job'[req[w].key[1]].st = "deleted"
    BY <1>2, <2>1, <2>2 DEF Carries
  <2>6. req[w].res = "created" => app'[req[w].key].mail # "none"
    BY <1>2, <2>1, <2>2 DEF Carries
  <2> QED
    BY <2>1, <2>4, <2>5, <2>6 DEF Carries, Storing
<1>5. \A w \in Visitor : Carries(req[w])'
  BY <1>1, <1>4
<1>6. AppsAreWhole'
  <2>1. ASSUME NEW i \in Key
        PROVE  /\ app'[i].st = "none" => app'[i].mail = "none"
               /\ app'[i].st = "gone" => job'[i[1]].st = "deleted"
               /\ app'[i].mail = "quiz_invite" <=> app'[i].mail # "none" /\ app'[i].drawn # {}
    BY <1>2 DEF AppsAreWhole
  <2>2. ASSUME NEW i \in Key, app'[i].st = "live", app'[i].mail = "none", i \notin cut'
        PROVE  \E w \in Within({"quiz", "mail"})' : req'[w].key = i
    <3>1. CASE i = k
      <4>1. v \in Within({"quiz", "mail"})' /\ req'[v].key = k
        BY <1>1, <1>2, <2>2, <3>1 DEF Within
      <4> QED
        BY <3>1, <4>1
    <3>2. CASE i # k
      <4>1. PICK w \in Within({"quiz", "mail"}) : req[w].key = i
        BY <1>2, <2>2, <3>2 DEF AppsAreWhole
      <4>2. w \in Visitor \ {v}
        BY <3>2, <4>1 DEF Within
      <4> QED
        BY <1>1, <4>1, <4>2 DEF Within
    <3> QED
      BY <3>1, <3>2
  <2>3. ASSUME NEW w \in Within(Storing)', NEW x \in Within(Storing)', req'[w].key = req'[x].key
        PROVE  w = x
    <3>1. w \in Visitor /\ x \in Visitor
      BY DEF Within
    <3>2. \A y \in Visitor : y \in Within(Storing)' /\ y # v => y \in Within(Storing) /\ req'[y] = req[y] /\ req[y].key # k
      BY <1>1, <1>3 DEF Within
    <3>3. req'[v].key = k
      BY <1>1
    <3> QED
      BY <2>3, <3>1, <3>2, <3>3 DEF AppsAreWhole
  <2> QED
    BY <2>1, <2>2, <2>3 DEF AppsAreWhole
<1>7. DrawIsFair'
  <2>1. \A i \in Key : FairlyDrawn(app[i].drawn, app[i].pool)
    BY DEF DrawIsFair, FairlyDrawn, Key
  <2>2. \A i \in Key : FairlyDrawn(app'[i].drawn, app'[i].pool)
    BY <1>2, <2>1
  <2> QED
    BY <2>2 DEF DrawIsFair, FairlyDrawn, Key
<1> QED
  BY <1>5, <1>6, <1>7

\* It stays among those that have passed the checks, and mails nothing yet.
LEMMA CountersRest ==
  ASSUME IInv, NEW v \in Visitor, NEW r \in Submission, req' = [req EXCEPT ![v] = r],
         UNCHANGED <<job, adm, abreast, count, broken, reliable, burnt, admitted, used, cut>>,
         Mailed' = Mailed, req[v].pc \in Passed, r.pc \in Passed,
         req[v].pc \notin Paid, r.pc \notin Paid
  PROVE  CountersTell'
<1> USE Parts
<1>1. req[v].pc # "count" /\ r.pc # "count"
  BY DEF Passed
<1>2. req'[v] = r /\ \A w \in Visitor \ {v} : req'[w] = req[w]
  BY DEF Shape
<1>3. Counted' = Counted
  BY <1>1, <1>2 DEF Counted, Within
<1>4. Within(Passed)' = Within(Passed) /\ Within(Paid)' = Within(Paid)
  BY <1>2 DEF Within
<1>5. Active' = Active /\ Publishing' = Publishing
  BY DEF Active, Publishing
<1> QED
  BY <1>3, <1>4, <1>5 DEF CountersTell

LEMMA InsertApplicationInv ==
  ASSUME IInv, NEW v \in Visitor, InsertApplication(v)
  PROVE  IInv'
<1> PICK k : k = req[v].key
  OBVIOUS
<1>1. req[v].pc = "insert" /\ req[v] \in Submission /\ Carries(req[v]) /\ k \in Key
  BY Parts, ShapeNow DEF InsertApplication, At
<1>2. UNCHANGED <<job, listed, retired, blocked, adm, issued, used, count, broken, reliable, burnt,
                  admitted, entries, cut, abreast, submits, events>>
  BY DEF InsertApplication, work, redis
<1>3. CASE Refuse(v) /\ UNCHANGED <<app, cands>>
  <2>1. events' \in Nat
    BY <1>2, ShapeNow
  <2> QED
    BY <1>1, <1>2, <1>3, <2>1, RefuseInv DEF work, redis
<1>4. CASE /\ app[k].st = "live" \/ job[k[1]].st = "deleted"
           /\ Answer(v, "conflict") /\ UNCHANGED <<app, cands>>
  <2> PICK r : r = [NoReq EXCEPT !.key = req[v].key, !.res = "conflict"]
    OBVIOUS
  <2>1. req' = [req EXCEPT ![v] = r]
    BY <1>4 DEF Answer, Goto
  <2>2. r \in Submission /\ r.pc = "idle" /\ r.key = k /\ r.res = "conflict" /\ r.token = {}
    BY <1>1, NoRequest DEF Submission
  <2>3. Carries(r)'
    BY <1>1, <1>2, <1>4, <2>2 DEF Carries
  <2>4. Shape'
    BY <1>1, <1>2, <1>4, <2>1, <2>2, ShapeNow, ShapeStays
  <2>5. /\ \A w \in Visitor : Carries(req[w])'
        /\ \A b \in Admin : adm'[b].pc # "idle" => adm'[b].job # {}
        /\ AppsAreWhole' /\ DrawIsFair'
    <3>1. issued' \in Nat /\ issued <= issued'
      BY <1>2, ShapeNow
    <3> QED
      BY <1>1, <1>2, <1>4, <2>1, <2>2, <2>3, <3>1, AppsRest
  <2>6. CountersTell'
    <3>1. /\ r.pc # "count" /\ req[v].pc # "count" /\ r.pc \notin Passed /\ r.pc \notin Paid
          /\ cut \subseteq cut' /\ cut' \subseteq Key
      BY <1>1, <1>2, <2>2, ShapeNow DEF Passed, Paid
    <3> QED
      BY <1>2, <1>4, <2>1, <2>2, <3>1, CountersAlone
  <2> QED
    BY <2>4, <2>5, <2>6 DEF IInv
<1>5. CASE /\ app[k].st # "live" /\ job[k[1]].st # "deleted"
           /\ app' = [app EXCEPT ![k] = [NoApp EXCEPT !.st = "live", !.asked = req[v].form,
                                                     !.given = req[v].given]]
           /\ cands' = cands \cup {k[2]}
           /\ Proceed(v, "quiz")
  <2> PICK r : r = [req[v] EXCEPT !.pc = "quiz"]
    OBVIOUS
  <2> PICK a : a = [NoApp EXCEPT !.st = "live", !.asked = req[v].form, !.given = req[v].given]
    OBVIOUS
  <2>1. req' = [req EXCEPT ![v] = r] /\ app' = [app EXCEPT ![k] = a]
    BY <1>5 DEF Proceed, Goto
  <2>2. r \in Submission /\ r.pc = "quiz" /\ r.key = k /\ r.res = req[v].res /\ r.token = req[v].token
    BY <1>1 DEF Submission
  <2>3. /\ a \in Application /\ a.st = "live" /\ a.mail = "none" /\ a.drawn = {} /\ a.pool = {}
        /\ a.asked = req[v].form /\ a.given = req[v].given
    <3>1. req[v].form \in Forms /\ req[v].given \in Forms
      BY <1>1 DEF Submission
    <3> QED
      BY <3>1, NoRequest DEF Application
  <2>4. app[k].st = "none" /\ app[k].mail = "none"
    <3>1. app[k] \in Application
      BY <1>1, ShapeNow
    <3>2. app[k].st # "gone" /\ (app[k].st = "none" => app[k].mail = "none")
      BY <1>1, <1>5, Parts DEF AppsAreWhole
    <3> QED
      BY <1>5, <3>1, <3>2 DEF Application
  <2>5. app'[k] = a /\ \A i \in Key \ {k} : app'[i] = app[i]
    BY <1>1, <2>1, ShapeNow
  <2>6. Carries(r)'
    <3>1. r.res = "conflict" => app'[r.key].st = "live"
      BY <2>2, <2>3, <2>5
    <3>2. r.res # "created"
      BY <1>1, <2>2, <2>4 DEF Carries
    <3>3. r.token \subseteq 1 .. issued'
      BY <1>1, <1>2, <2>2 DEF Carries
    <3>4. r.pc = "quiz" /\ r.key \in Key /\ app'[r.key].st # "none" /\ app'[r.key].mail = "none"
      BY <1>1, <2>2, <2>3, <2>5
    <3> QED
      BY <3>1, <3>2, <3>3, <3>4 DEF Carries
  <2>7. Shape'
    <3>1. app' \in [Key -> Application]
      BY <1>1, <2>1, <2>3, ShapeNow
    <3>2. cands' \in SUBSET Email
      BY <1>1, <1>5, ShapeNow DEF Key
    <3>3. Required \cap a.asked \subseteq a.given /\ a.given \subseteq a.asked
      BY <1>1, <2>3 DEF Carries, Fits
    <3>4. \A i \in Key : app'[i].st = "live" =>
            /\ i[2] \in cands'
            /\ Required \cap app'[i].asked \subseteq app'[i].given
            /\ app'[i].given \subseteq app'[i].asked
      BY <1>5, <2>5, <3>3, ShapeNow
    <3> QED
      BY <1>1, <1>2, <2>1, <2>2, <3>1, <3>2, <3>4, ShapeNow, ShapeStays
  <2>8. /\ \A w \in Visitor : Carries(req[w])'
        /\ \A b \in Admin : adm'[b].pc # "idle" => adm'[b].job # {}
        /\ AppsAreWhole' /\ DrawIsFair'
    <3>1. FairlyDrawn(a.drawn, a.pool)
      BY <2>3 DEF FairlyDrawn
    <3>2. r.pc \in Storing /\ r.pc \in {"quiz", "mail"} /\ UNCHANGED <<job, adm, cut, issued>>
      BY <1>2, <2>2 DEF Storing
    <3>3. /\ a.st # "none" /\ (a.st = "gone" => app[k].st = "gone")
          /\ (app[k].st = "live" => a.st = "live") /\ (app[k].mail # "none" => a.mail # "none")
          /\ (a.mail = "quiz_invite" <=> a.mail # "none" /\ a.drawn # {})
      BY <2>3, <2>4
    <3> QED
      BY <1>1, <2>1, <2>2, <2>3, <2>4, <2>6, <3>1, <3>2, <3>3, AppMoves
  <2>9. CountersTell'
    <3>1. Mailed' = Mailed
      <4>1. \A i \in Key : app'[i].mail = app[i].mail
        BY <2>3, <2>4, <2>5
      <4> QED
        BY <4>1 DEF Mailed
    <3>2. req[v].pc \in Passed /\ r.pc \in Passed /\ req[v].pc \notin Paid /\ r.pc \notin Paid
      BY <1>1, <2>2 DEF Passed, Paid
    <3> QED
      BY <1>2, <2>1, <2>2, <3>1, <3>2, CountersRest
  <2> QED
    BY <2>7, <2>8, <2>9 DEF IInv
<1> QED
  BY <1>3, <1>4, <1>5 DEF InsertApplication
-----------------------------------------------------------------------------
(***************************************************************************)
(* The questions that are drawn.  What holds along an iteration is proved  *)
(* from the least number for which it would not.                           *)
(***************************************************************************)
LEMMA LeastNat ==
  ASSUME NEW T \in SUBSET Nat, T # {}
  PROVE  \E m \in T : \A n \in T : m <= n
<1> DEFINE F == {0 .. k : k \in T}
           R == StrictSubsetOrdering(Nat)
<1>1. \A k \in T : 0 .. k \in FiniteSubsetsOf(Nat)
  BY FS_Interval DEF FiniteSubsetsOf
<1>2. F \subseteq FiniteSubsetsOf(Nat) /\ F # {}
  BY <1>1
<1>3. IsWellFoundedOn(R, FiniteSubsetsOf(Nat))
  BY FS_StrictSubsetOrderingWellFounded
<1> HIDE DEF F, R
<1>4. PICK x \in F : \A y \in F : ~(<<y, x>> \in R)
  BY <1>2, <1>3, WFMin
<1>5. PICK m \in T : x = 0 .. m
  BY DEF F
<1>6. ASSUME NEW n \in T, n < m PROVE FALSE
  <2>1. 0 .. n \in F
    BY DEF F
  <2>2. (0 .. n) \subseteq (0 .. m) /\ 0 .. n # 0 .. m
    BY <1>6
  <2>3. <<0 .. n, x>> \in R
    BY <1>1, <1>5, <2>2 DEF R, StrictSubsetOrdering, FiniteSubsetsOf
  <2> QED
    BY <1>4, <2>1, <2>3
<1> QED
  BY <1>6

LEMMA UpTo ==
  ASSUME NEW N \in Nat, NEW S, 0 \in S, \A i \in 1 .. N : i - 1 \in S => i \in S
  PROVE  \A i \in 0 .. N : i \in S
<1> DEFINE T == (0 .. N) \ S
<1> SUFFICES ASSUME T # {} PROVE FALSE
  OBVIOUS
<1>1. PICK m \in T : \A n \in T : m <= n
  <2>1. T \in SUBSET Nat
    OBVIOUS
  <2> HIDE DEF T
  <2> QED
    BY <2>1, LeastNat
<1>2. m \in 1 .. N /\ m \notin S
  OBVIOUS
<1>3. m - 1 \in S
  BY <1>1, <1>2
<1> QED
  BY <1>2, <1>3

\* An iteration of a step is a function.
Steps(N, step, S) == \A i \in 1 .. N, x \in S : step[i][x] \in S
Iterates(h, N, start, step, S) ==
    /\ h \in [0 .. N -> S]
    /\ h[0] = start
    /\ \A i \in 1 .. N : h[i] = step[i][h[i - 1]]

LEMMA IterationExists ==
  ASSUME NEW N \in Nat, NEW S, NEW start \in S, NEW step, Steps(N, step, S)
  PROVE  \E h : Iterates(h, N, start, step, S)
<1> DEFINE Good(n) == \E h \in [0 .. n -> S] : h[0] = start /\ \A i \in 1 .. n : h[i] = step[i][h[i - 1]]
           G == {n \in 0 .. N : Good(n)}
<1>1. 0 \in G
  <2> DEFINE h == [i \in 0 .. 0 |-> start]
  <2>1. h \in [0 .. 0 -> S] /\ h[0] = start /\ \A i \in 1 .. 0 : h[i] = step[i][h[i - 1]]
    OBVIOUS
  <2>2. Good(0)
    BY <2>1
  <2> QED
    BY <2>2
<1>2. ASSUME NEW n \in 1 .. N, n - 1 \in G PROVE n \in G
  <2>1. PICK g \in [0 .. n - 1 -> S] : g[0] = start /\ \A i \in 1 .. n - 1 : g[i] = step[i][g[i - 1]]
    BY <1>2
  <2> DEFINE h == [i \in 0 .. n |-> IF i = n THEN step[n][g[n - 1]] ELSE g[i]]
  <2>2. step[n][g[n - 1]] \in S
    <3>1. g[n - 1] \in S
      BY <1>2, <2>1
    <3> QED
      BY <3>1 DEF Steps
  <2>3. h \in [0 .. n -> S]
    BY <1>2, <2>1, <2>2
  <2>4. h[n] = step[n][g[n - 1]] /\ \A i \in 0 .. n - 1 : h[i] = g[i]
    BY <1>2
  <2> HIDE DEF h
  <2>5. h[0] = start
    BY <1>2, <2>1, <2>4
  <2>6. ASSUME NEW i \in 1 .. n PROVE h[i] = step[i][h[i - 1]]
    <3>1. h[i - 1] = g[i - 1]
      BY <2>4
    <3>2. i # n => i \in 1 .. n - 1 /\ h[i] = g[i]
      BY <2>4
    <3> QED
      BY <2>1, <2>4, <3>1, <3>2
  <2>7. Good(n)
    BY <2>3, <2>5, <2>6
  <2> HIDE DEF Good
  <2> QED
    BY <1>2, <2>7
<1> HIDE DEF G
<1>3. \A i \in 0 .. N : i \in G
  BY <1>1, <1>2, UpTo
<1>4. N \in G
  BY <1>3
<1> QED
  BY <1>4 DEF G, Iterates

AfterTag(C, tag, pool) ==
    UNION {IF Cardinality(c) >= QuizCount THEN {c} ELSE Pass(c, tag, pool) : c \in C}

LEMMA PassesAreSets ==
  ASSUME NEW C \in SUBSET SUBSET Question, NEW tag, NEW pool \in SUBSET Question
  PROVE  AfterTag(C, tag, pool) \in SUBSET SUBSET Question
<1> SUFFICES ASSUME NEW c \in C,
                    NEW d \in IF Cardinality(c) >= QuizCount THEN {c} ELSE Pass(c, tag, pool)
             PROVE  d \in SUBSET Question
  BY DEF AfterTag
<1>1. c \in SUBSET Question
  OBVIOUS
<1>2. CASE d = c
  BY <1>1, <1>2
<1>3. CASE \E q \in pool : d = c \cup {q}
  BY <1>1, <1>3
<1> QED
  BY <1>2, <1>3 DEF Pass

\* What a round goes through.
RoundBy(after, chosen, pool, cycle) ==
    /\ after \in [0 .. Len(cycle) -> SUBSET SUBSET Question]
    /\ after[0] = {chosen}
    /\ \A i \in 1 .. Len(cycle) : after[i] = AfterTag(after[i - 1], cycle[i], pool)
    /\ Round(chosen, pool, cycle) = after[Len(cycle)]

LEMMA RoundSteps ==
  ASSUME NEW chosen \in SUBSET Question, NEW pool \in SUBSET Question, NEW cycle \in Seq(Tag)
  PROVE  \E after : RoundBy(after, chosen, pool, cycle)
<1>1. PICK S : S = SUBSET SUBSET Question
  OBVIOUS
<1>2. PICK N \in Nat : N = Len(cycle)
  OBVIOUS
<1>3. \A i \in 1 .. N, C \in S : AfterTag(C, cycle[i], pool) \in S
  BY <1>1, PassesAreSets
<1>4. PICK start \in S : start = {chosen}
  BY <1>1
<1> DEFINE after[i \in 0 .. Len(cycle)] ==
              IF i = 0 THEN {chosen}
              ELSE UNION {IF Cardinality(c) >= QuizCount THEN {c} ELSE Pass(c, cycle[i], pool) :
                            c \in after[i - 1]}
<1>5. after = [i \in 0 .. N |-> IF i = 0 THEN {chosen} ELSE AfterTag(after[i - 1], cycle[i], pool)]
  <2> DEFINE step == [i \in 1 .. N |-> [C \in S |-> AfterTag(C, cycle[i], pool)]]
  <2>1. Steps(N, step, S)
    BY <1>3 DEF Steps
  <2>2. PICK h : Iterates(h, N, start, step, S)
    <3> HIDE DEF step, after
    <3> QED
      BY <1>2, <1>4, <2>1, IterationExists
  <2>5. h \in [0 .. N -> S] /\ h[0] = start /\ \A i \in 1 .. N : h[i] = step[i][h[i - 1]]
    <3> HIDE DEF step
    <3> QED
      BY <2>2 DEF Iterates
  <2>3. \A i \in 0 .. N : h[i] = IF i = 0 THEN {chosen} ELSE AfterTag(h[i - 1], cycle[i], pool)
    <3> SUFFICES ASSUME NEW i \in 0 .. N
                 PROVE  h[i] = IF i = 0 THEN {chosen} ELSE AfterTag(h[i - 1], cycle[i], pool)
      OBVIOUS
    <3>1. i # 0 => i \in 1 .. N /\ h[i - 1] \in S
      BY <2>5
    <3>2. i # 0 => step[i][h[i - 1]] = AfterTag(h[i - 1], cycle[i], pool)
      BY <3>1
    <3>3. h[i] = IF i = 0 THEN {chosen} ELSE step[i][h[i - 1]]
      BY <1>4, <2>5, <3>1
    <3> HIDE DEF step
    <3> QED
      BY <3>2, <3>3
  <2>4. h = [i \in 0 .. N |-> IF i = 0 THEN {chosen} ELSE AfterTag(h[i - 1], cycle[i], pool)]
    BY <2>5, <2>3
  <2> QED
    BY <1>2, <2>4 DEF AfterTag
<1>6. Round(chosen, pool, cycle) = after[N]
  BY <1>2 DEF Round
<1> HIDE DEF after
<1>7. after[0] = {chosen} /\ \A i \in 1 .. N : after[i] = AfterTag(after[i - 1], cycle[i], pool)
  <2>1. after[0] = {chosen}
    BY <1>5
  <2>2. ASSUME NEW i \in 1 .. N PROVE after[i] = AfterTag(after[i - 1], cycle[i], pool)
    <3>1. i \in 0 .. N /\ i # 0
      OBVIOUS
    <3> QED
      BY <1>5, <3>1
  <2> QED
    BY <2>1, <2>2
<1>8. \A i \in 0 .. N : after[i] \in S
  <2> DEFINE G == {i \in 0 .. N : after[i] \in S}
  <2>1. 0 \in G
    <3>1. 0 \in 0 .. N /\ after[0] = start
      BY <1>4, <1>7
    <3> QED
      BY <3>1
  <2>2. ASSUME NEW i \in 1 .. N, i - 1 \in G PROVE i \in G
    BY <1>3, <1>7, <2>2
  <2> HIDE DEF G
  <2>3. \A i \in 0 .. N : i \in G
    BY <2>1, <2>2, UpTo
  <2> QED
    BY <2>3 DEF G
<1>9. after \in [0 .. N -> S]
  BY <1>5, <1>8
<1>10. RoundBy(after, chosen, pool, cycle)
  BY <1>1, <1>2, <1>6, <1>7, <1>9 DEF RoundBy
<1> QED
  BY <1>10

AfterRound(C, pool, cycle) == UNION {Round(c, pool, cycle) : c \in C}

LEMMA RoundsAreSets ==
  ASSUME NEW C \in SUBSET SUBSET Question, NEW pool \in SUBSET Question, NEW cycle \in Seq(Tag)
  PROVE  AfterRound(C, pool, cycle) \in SUBSET SUBSET Question
<1> SUFFICES ASSUME NEW c \in C, NEW d \in Round(c, pool, cycle)
             PROVE  d \in SUBSET Question
  BY DEF AfterRound
<1>1. c \in SUBSET Question
  OBVIOUS
<1>2. PICK after : RoundBy(after, c, pool, cycle)
  BY <1>1, RoundSteps
<1>3. after[Len(cycle)] \in SUBSET SUBSET Question /\ Round(c, pool, cycle) = after[Len(cycle)]
  BY <1>2 DEF RoundBy
<1> QED
  BY <1>3

\* What a sample goes through.
LEMMA SampleSteps ==
  ASSUME NEW pool \in SUBSET Question, NEW cycle \in Seq(Tag)
  PROVE  \E rounds \in [0 .. QuizCount -> SUBSET SUBSET Question] :
            /\ rounds[0] = {{}}
            /\ \A n \in 1 .. QuizCount : rounds[n] = AfterRound(rounds[n - 1], pool, cycle)
            /\ Samples(pool, cycle) = rounds[QuizCount]
<1>1. PICK S : S = SUBSET SUBSET Question
  OBVIOUS
<1>2. PICK N \in Nat : N = QuizCount
  BY CountsAreNatural
<1>3. \A C \in S : AfterRound(C, pool, cycle) \in S
  BY <1>1, RoundsAreSets
<1>4. PICK start \in S : start = {{}}
  BY <1>1
<1> DEFINE rounds[n \in 0 .. QuizCount] ==
              IF n = 0 THEN {{}} ELSE UNION {Round(c, pool, cycle) : c \in rounds[n - 1]}
<1>5. rounds = [n \in 0 .. N |-> IF n = 0 THEN {{}} ELSE AfterRound(rounds[n - 1], pool, cycle)]
  <2> DEFINE step == [n \in 1 .. N |-> [C \in S |-> AfterRound(C, pool, cycle)]]
  <2>1. Steps(N, step, S)
    BY <1>3 DEF Steps
  <2>2. PICK h : Iterates(h, N, start, step, S)
    <3> HIDE DEF step, rounds
    <3> QED
      BY <1>2, <1>4, <2>1, IterationExists
  <2>3. h \in [0 .. N -> S] /\ h[0] = start /\ \A n \in 1 .. N : h[n] = step[n][h[n - 1]]
    <3> HIDE DEF step
    <3> QED
      BY <2>2 DEF Iterates
  <2>4. \A n \in 0 .. N : h[n] = IF n = 0 THEN {{}} ELSE AfterRound(h[n - 1], pool, cycle)
    <3> SUFFICES ASSUME NEW n \in 0 .. N
                 PROVE  h[n] = IF n = 0 THEN {{}} ELSE AfterRound(h[n - 1], pool, cycle)
      OBVIOUS
    <3>1. n # 0 => n \in 1 .. N /\ h[n - 1] \in S
      BY <2>3
    <3>2. n # 0 => step[n][h[n - 1]] = AfterRound(h[n - 1], pool, cycle)
      BY <3>1
    <3>3. h[n] = IF n = 0 THEN {{}} ELSE step[n][h[n - 1]]
      BY <1>4, <2>3, <3>1
    <3> HIDE DEF step
    <3> QED
      BY <3>2, <3>3
  <2>5. h = [n \in 0 .. N |-> IF n = 0 THEN {{}} ELSE AfterRound(h[n - 1], pool, cycle)]
    BY <2>3, <2>4
  <2> QED
    BY <1>2, <2>5 DEF AfterRound
<1>6. Samples(pool, cycle) = rounds[N]
  BY <1>2 DEF Samples
<1> HIDE DEF rounds
<1>7. rounds[0] = {{}} /\ \A n \in 1 .. N : rounds[n] = AfterRound(rounds[n - 1], pool, cycle)
  <2>1. rounds[0] = {{}}
    BY <1>5
  <2>2. ASSUME NEW n \in 1 .. N PROVE rounds[n] = AfterRound(rounds[n - 1], pool, cycle)
    <3>1. n \in 0 .. N /\ n # 0
      OBVIOUS
    <3> QED
      BY <1>5, <3>1
  <2> QED
    BY <2>1, <2>2
<1>8. \A n \in 0 .. N : rounds[n] \in S
  <2> DEFINE G == {n \in 0 .. N : rounds[n] \in S}
  <2>1. 0 \in G
    <3>1. 0 \in 0 .. N /\ rounds[0] = start
      BY <1>4, <1>7
    <3> QED
      BY <3>1
  <2>2. ASSUME NEW n \in 1 .. N, n - 1 \in G PROVE n \in G
    BY <1>3, <1>7, <2>2
  <2> HIDE DEF G
  <2>3. \A n \in 0 .. N : n \in G
    BY <2>1, <2>2, UpTo
  <2> QED
    BY <2>3 DEF G
<1>9. rounds \in [0 .. N -> S]
  BY <1>5, <1>8
<1> QED
  BY <1>1, <1>2, <1>6, <1>7, <1>9

\* One tag's turn adds a question of it, or there is none left to add.
LEMMA PassFacts ==
  ASSUME NEW pool, NEW c, NEW tag, NEW d, d \in Pass(c, tag, pool),
         c \subseteq pool, pool \subseteq Question
  PROVE  /\ c \subseteq d /\ d \subseteq pool
         /\ IsFiniteSet(c) /\ Cardinality(c) \in Nat /\ Cardinality(d) \in Nat
         /\ \/ d = c /\ \A q \in pool : tag \in TagsOf[q] => q \in c
            \/ Cardinality(d) = Cardinality(c) + 1
         /\ \A q \in pool : tag \in TagsOf[q] => \E p \in d : tag \in TagsOf[p]
<1>1. IsFiniteSet(c) /\ Cardinality(c) \in Nat
  BY TablesAreFinite, SubsetCount
<1>2. CASE d = c /\ \A q \in pool : tag \in TagsOf[q] => q \in c
  BY <1>1, <1>2
<1>3. ASSUME NEW q \in pool, q \notin c, tag \in TagsOf[q], d = c \cup {q}
      PROVE  /\ c \subseteq d /\ d \subseteq pool /\ Cardinality(d) = Cardinality(c) + 1
             /\ Cardinality(d) \in Nat /\ \E p \in d : tag \in TagsOf[p]
  <2>1. Cardinality(d) = Cardinality(c) + 1
    BY <1>1, <1>3, FS_AddElement
  <2> QED
    BY <1>1, <1>3, <2>1
<1> QED
  BY <1>1, <1>2, <1>3 DEF Pass

\* The tags of the pool, each in its turn.
Covers(cycle, pool) ==
    /\ \A i \in 1 .. Len(cycle) : \E q \in pool : cycle[i] \in TagsOf[q]
    /\ \A q \in pool : TagsOf[q] # {} /\ \A t \in TagsOf[q] : \E i \in 1 .. Len(cycle) : cycle[i] = t
    /\ Len(cycle) = Cardinality(UNION {TagsOf[q] : q \in pool})
Represents(c, cycle, n) == \A j \in 1 .. n : \E q \in c : cycle[j] \in TagsOf[q]

LEMMA RoundFacts ==
  ASSUME NEW pool \in SUBSET Question, NEW c \in SUBSET pool, Cardinality(c) <= QuizCount,
         NEW cycle \in Seq(Tag), Covers(cycle, pool), NEW d \in Round(c, pool, cycle)
  PROVE  /\ c \subseteq d /\ d \subseteq pool /\ Cardinality(d) <= QuizCount
         /\ Cardinality(d) = QuizCount \/ d = pool \/ Cardinality(c) + 1 <= Cardinality(d)
         /\ c = {} /\ Len(cycle) <= QuizCount => Represents(d, cycle, Len(cycle))
<1>1. PICK N \in Nat : N = Len(cycle)
  OBVIOUS
<1>2. PICK after :
         /\ after[0] = {c}
         /\ \A i \in 1 .. N : after[i] = AfterTag(after[i - 1], cycle[i], pool)
         /\ Round(c, pool, cycle) = after[N]
  <2>1. c \in SUBSET Question
    OBVIOUS
  <2>2. PICK after : RoundBy(after, c, pool, cycle)
    BY <2>1, RoundSteps
  <2> QED
    BY <1>1, <2>2 DEF RoundBy
<1> DEFINE Idle(i) == \A j \in 1 .. i, q \in pool : cycle[j] \in TagsOf[q] => q \in c
           Reached(e, i) ==
             /\ c \subseteq e /\ e \subseteq pool
             /\ Cardinality(e) \in Nat /\ Cardinality(e) <= QuizCount
             /\ Cardinality(e) = QuizCount \/ Cardinality(c) + 1 <= Cardinality(e) \/ (e = c /\ Idle(i))
             /\ c = {} /\ N <= QuizCount => Cardinality(e) <= i /\ Represents(e, cycle, i)
           G == {i \in 0 .. N : \A e \in after[i] : Reached(e, i)}
<1>3. Cardinality(c) \in Nat /\ QuizCount \in Nat /\ Cardinality({}) = 0
  BY TablesAreFinite, SubsetCount, CountsAreNatural, FS_EmptySet
<1>4. 0 \in G
  <2>1. ASSUME NEW e \in after[0] PROVE Reached(e, 0)
    <3>1. e = c /\ (c = {} => Cardinality(e) = 0)
      BY <1>2, <1>3, <2>1
    <3>2. Idle(0) /\ Represents(e, cycle, 0)
      BY DEF Represents
    <3> QED
      BY <1>3, <3>1, <3>2
  <2> QED
    BY <2>1
<1>5. ASSUME NEW i \in 1 .. N, i - 1 \in G PROVE i \in G
  <2> SUFFICES ASSUME NEW e \in after[i] PROVE Reached(e, i)
    OBVIOUS
  <2>1. PICK b \in after[i - 1] : e \in IF Cardinality(b) >= QuizCount THEN {b} ELSE Pass(b, cycle[i], pool)
    BY <1>2 DEF AfterTag
  <2>2. Reached(b, i - 1)
    BY <1>5
  <2>3. CASE Cardinality(b) >= QuizCount
    <3>1. e = b /\ Cardinality(e) = QuizCount
      BY <1>3, <2>1, <2>2, <2>3
    <3>2. c = {} /\ N <= QuizCount => FALSE
      BY <1>3, <2>2, <2>3
    <3> QED
      BY <2>2, <3>1, <3>2
  <2>4. CASE ~(Cardinality(b) >= QuizCount)
    <3>1. e \in Pass(b, cycle[i], pool) /\ b \subseteq pool /\ pool \subseteq Question
      BY <2>1, <2>2, <2>4
    <3>2. /\ b \subseteq e /\ e \subseteq pool
          /\ Cardinality(b) \in Nat /\ Cardinality(e) \in Nat
          /\ \/ e = b /\ \A q \in pool : cycle[i] \in TagsOf[q] => q \in b
             \/ Cardinality(e) = Cardinality(b) + 1
          /\ \A q \in pool : cycle[i] \in TagsOf[q] => \E p \in e : cycle[i] \in TagsOf[p]
      <4>1. PICK tag : tag = cycle[i]
        OBVIOUS
      <4>2. e \in Pass(b, tag, pool)
        BY <3>1, <4>1
      <4> HIDE DEF G, Reached, Idle
      <4>3. /\ b \subseteq e /\ e \subseteq pool
            /\ Cardinality(b) \in Nat /\ Cardinality(e) \in Nat
            /\ \/ e = b /\ \A q \in pool : tag \in TagsOf[q] => q \in b
               \/ Cardinality(e) = Cardinality(b) + 1
            /\ \A q \in pool : tag \in TagsOf[q] => \E p \in e : tag \in TagsOf[p]
        BY <3>1, <4>2, PassFacts
      <4> QED
        BY <4>1, <4>3
    <3>3. c \subseteq e /\ Cardinality(e) <= QuizCount
      BY <1>3, <2>2, <2>4, <3>2
    <3>4. Cardinality(e) = QuizCount \/ Cardinality(c) + 1 <= Cardinality(e) \/ (e = c /\ Idle(i))
      <4>1. CASE e = b /\ \A q \in pool : cycle[i] \in TagsOf[q] => q \in b
        <5>1. b = c /\ Idle(i - 1) => Idle(i)
          <6> SUFFICES ASSUME b = c, Idle(i - 1), NEW j \in 1 .. i, NEW q \in pool, cycle[j] \in TagsOf[q]
                       PROVE  q \in c
            OBVIOUS
          <6>1. CASE j = i
            BY <4>1, <6>1
          <6>2. CASE j # i
            <7>1. j \in 1 .. i - 1
              BY <6>2
            <7> QED
              BY <7>1
          <6> QED
            BY <6>1, <6>2
        <5> QED
          BY <2>2, <4>1, <5>1
      <4>2. CASE Cardinality(e) = Cardinality(b) + 1
        <5>1. Cardinality(c) <= Cardinality(b)
          BY <1>3, <2>2, <2>4
        <5> QED
          BY <1>3, <3>2, <4>2, <5>1
      <4> QED
        BY <3>2, <4>1, <4>2
    <3>5. c = {} /\ N <= QuizCount => Cardinality(e) <= i /\ Represents(e, cycle, i)
      <4> SUFFICES ASSUME c = {}, N <= QuizCount PROVE Cardinality(e) <= i /\ Represents(e, cycle, i)
        OBVIOUS
      <4>1. Cardinality(b) <= i - 1 /\ Represents(b, cycle, i - 1)
        BY <2>2
      <4>2. Cardinality(e) <= i
        BY <3>2, <4>1
      <4>3. ASSUME NEW j \in 1 .. i PROVE \E q \in e : cycle[j] \in TagsOf[q]
        <5>1. CASE j = i
          <6>1. \E q \in pool : cycle[i] \in TagsOf[q]
            BY <1>1 DEF Covers
          <6> QED
            BY <3>2, <5>1, <6>1
        <5>2. CASE j # i
          <6>1. j \in 1 .. i - 1
            BY <5>2
          <6> QED
            BY <3>2, <4>1, <6>1 DEF Represents
        <5> QED
          BY <5>1, <5>2
      <4> QED
        BY <4>2, <4>3 DEF Represents
    <3> QED
      BY <3>2, <3>3, <3>4, <3>5
  <2> QED
    BY <2>3, <2>4
<1> HIDE DEF G
<1>6. \A i \in 0 .. N : i \in G
  BY <1>4, <1>5, UpTo
<1>7. Reached(d, N)
  <2>1. N \in G
    BY <1>6
  <2> HIDE DEF Reached
  <2> QED
    BY <1>2, <2>1 DEF G
<1>8. d = c /\ Idle(N) => d = pool
  <2> SUFFICES ASSUME d = c, Idle(N), NEW q \in pool PROVE q \in d
    OBVIOUS
  <2>1. PICK t : t \in TagsOf[q]
    BY DEF Covers
  <2>2. PICK i \in 1 .. N : cycle[i] = t
    BY <1>1, <2>1 DEF Covers
  <2> QED
    BY <2>1, <2>2
<1> QED
  BY <1>1, <1>7, <1>8

LEMMA CycleFacts ==
  ASSUME NEW pool \in SUBSET Question, \A q \in pool : TagsOf[q] # {}, NEW cycle \in Cycles(pool)
  PROVE  cycle \in Seq(Tag) /\ Covers(cycle, pool)
<1>1. PICK T : T = UNION {TagsOf[q] : q \in pool}
  OBVIOUS
<1>2. T \subseteq Tag /\ IsFiniteSet(T)
  <2>1. T \subseteq Tag
    BY <1>1, TagsAreTags
  <2> QED
    BY <2>1, TablesAreFinite, SubsetCount
<1>3. PICK n \in Nat : n = Cardinality(T)
  BY <1>2, FS_CardinalityType
<1>4. cycle \in [1 .. n -> T] /\ \A i, j \in 1 .. n : i # j => cycle[i] # cycle[j]
  BY <1>1, <1>3 DEF Cycles, SetToSeqs
<1>5. cycle \in Seq(Tag) /\ Len(cycle) = n
  BY <1>2, <1>4
<1>6. \A t \in T : \E i \in 1 .. n : cycle[i] = t
  <2>1. cycle \in Injection(1 .. n, T)
    BY <1>4 DEF Injection, IsInjective
  <2>2. Cardinality(1 .. n) = n
    BY <1>3, FS_Interval
  <2>3. cycle \in Surjection(1 .. n, T)
    BY <1>2, <1>3, <2>1, <2>2, FS_Injection
  <2> QED
    BY <2>3 DEF Surjection
<1>7. \A i \in 1 .. n : \E q \in pool : cycle[i] \in TagsOf[q]
  BY <1>1, <1>4
<1>8. \A q \in pool : TagsOf[q] # {} /\ \A t \in TagsOf[q] : \E i \in 1 .. n : cycle[i] = t
  BY <1>1, <1>6
<1> QED
  BY <1>1, <1>3, <1>5, <1>7, <1>8 DEF Covers

\* Each round represents what is left to represent, or chooses one question more.
LEMMA SampleFacts ==
  ASSUME NEW pool \in SUBSET Question, NEW cycle \in Seq(Tag), Covers(cycle, pool),
         NEW d \in Samples(pool, cycle)
  PROVE  FairlyDrawn(d, pool)
<1>1. PICK rounds :
         /\ rounds[0] = {{}}
         /\ \A n \in 1 .. QuizCount : rounds[n] = AfterRound(rounds[n - 1], pool, cycle)
         /\ Samples(pool, cycle) = rounds[QuizCount]
  BY SampleSteps
<1>2. QuizCount \in Nat /\ Cardinality({}) = 0
  BY CountsAreNatural, FS_EmptySet
<1> DEFINE Reached(e, n) ==
             /\ e \subseteq pool /\ Cardinality(e) <= QuizCount
             /\ Cardinality(e) = QuizCount \/ e = pool \/ n <= Cardinality(e)
             /\ n = 0 => e = {}
             /\ n # 0 /\ Len(cycle) <= QuizCount => Represents(e, cycle, Len(cycle))
           G == {n \in 0 .. QuizCount : \A e \in rounds[n] : Reached(e, n)}
<1>3. 0 \in G
  <2>1. ASSUME NEW e \in rounds[0] PROVE Reached(e, 0)
    <3>1. e = {} /\ Cardinality(e) = 0
      BY <1>1, <1>2, <2>1
    <3> QED
      BY <1>2, <3>1
  <2> QED
    BY <1>2, <2>1
<1>4. ASSUME NEW n \in 1 .. QuizCount, n - 1 \in G PROVE n \in G
  <2> SUFFICES ASSUME NEW e \in rounds[n] PROVE Reached(e, n)
    OBVIOUS
  <2>1. PICK b \in rounds[n - 1] : e \in Round(b, pool, cycle)
    BY <1>1 DEF AfterRound
  <2>2. Reached(b, n - 1)
    BY <1>4
  <2>3. /\ b \subseteq e /\ e \subseteq pool /\ Cardinality(e) <= QuizCount
        /\ Cardinality(e) = QuizCount \/ e = pool \/ Cardinality(b) + 1 <= Cardinality(e)
        /\ b = {} /\ Len(cycle) <= QuizCount => Represents(e, cycle, Len(cycle))
    <3>1. b \in SUBSET pool /\ Cardinality(b) <= QuizCount
      BY <2>2
    <3> HIDE DEF Reached, G
    <3> QED
      BY <2>1, <3>1, RoundFacts
  <2>4. /\ IsFiniteSet(pool) /\ IsFiniteSet(e)
        /\ Cardinality(b) \in Nat /\ Cardinality(e) \in Nat /\ Cardinality(b) <= Cardinality(e)
    <3>1. IsFiniteSet(pool)
      BY TablesAreFinite, SubsetCount
    <3>2. IsFiniteSet(e)
      BY <2>3, <3>1, SubsetCount
    <3> QED
      BY <2>3, <3>1, <3>2, SubsetCount
  <2>5. Cardinality(e) = QuizCount \/ e = pool \/ n <= Cardinality(e)
    <3>1. CASE Cardinality(b) = QuizCount
      BY <1>2, <2>3, <2>4, <3>1
    <3>2. CASE b = pool
      BY <2>3, <3>2
    <3>3. CASE n - 1 <= Cardinality(b)
      BY <2>3, <2>4, <3>3
    <3> QED
      BY <2>2, <3>1, <3>2, <3>3
  <2>6. Len(cycle) <= QuizCount => Represents(e, cycle, Len(cycle))
    <3>1. CASE n = 1
      BY <2>2, <2>3, <3>1
    <3>2. CASE n # 1
      <4>1. Len(cycle) <= QuizCount => Represents(b, cycle, Len(cycle))
        BY <2>2, <3>2
      <4> QED
        BY <2>3, <4>1 DEF Represents
    <3> QED
      BY <3>1, <3>2
  <2> QED
    BY <2>3, <2>5, <2>6
<1> HIDE DEF G
<1>5. \A n \in 0 .. QuizCount : n \in G
  BY <1>2, <1>3, <1>4, UpTo
<1>6. Reached(d, QuizCount)
  <2>1. QuizCount \in G
    BY <1>2, <1>5
  <2> HIDE DEF Reached
  <2> QED
    BY <1>1, <2>1 DEF G
<1>7. d = pool \/ Cardinality(d) = QuizCount
  <2>1. Cardinality(d) \in Nat
    <3>1. IsFiniteSet(pool) /\ d \subseteq pool
      BY <1>6, TablesAreFinite, SubsetCount
    <3> QED
      BY <3>1, SubsetCount
  <2> QED
    BY <1>2, <1>6, <2>1
<1>8. ASSUME QuizCount >= Cardinality(UNION {TagsOf[q] : q \in pool})
      PROVE  UNION {TagsOf[q] : q \in d} = UNION {TagsOf[q] : q \in pool}
  <2>1. Len(cycle) <= QuizCount /\ Len(cycle) \in Nat
    BY <1>2, <1>8 DEF Covers
  <2> SUFFICES ASSUME NEW t, NEW q \in pool, t \in TagsOf[q] PROVE \E p \in d : t \in TagsOf[p]
    BY <1>6
  <2>2. PICK i \in 1 .. Len(cycle) : cycle[i] = t
    BY DEF Covers
  <2>3. QuizCount # 0
    BY <2>1, <2>2
  <2> QED
    BY <1>6, <2>1, <2>2, <2>3 DEF Represents
<1> QED
  BY <1>6, <1>7, <1>8 DEF FairlyDrawn

LEMMA DrawableIsFair ==
  ASSUME IInv, NEW v \in Visitor, NEW drawn \in Drawable(v), req[v] \in Submission,
         NEW pool, pool = IF req[v].quiz = "tags" THEN Pool(v) ELSE drawn
  PROVE  pool \in SUBSET Question /\ FairlyDrawn(drawn, pool)
<1>1. Pool(v) \in SUBSET Question /\ \A q \in Pool(v) : TagsOf[q] # {}
  BY DEF Pool
<1>2. CASE req[v].quiz = "tags"
  <2>1. PICK c \in Cycles(Pool(v)) : drawn \in Samples(Pool(v), c)
    BY <1>2 DEF Drawable
  <2>2. c \in Seq(Tag) /\ Covers(c, Pool(v))
    BY <1>1, CycleFacts
  <2>3. FairlyDrawn(drawn, Pool(v))
    BY <1>1, <2>1, <2>2, SampleFacts
  <2> QED
    BY <1>1, <1>2, <2>3
<1>3. CASE req[v].quiz # "tags"
  <2>1. req[v].quiz = "off" \/ req[v].quiz = "list"
    BY <1>3 DEF Submission, QuizKind
  <2>2. drawn \in SUBSET Question
    BY <1>1, <2>1, TagsAreTags DEF Drawable
  <2> QED
    BY <1>3, <2>2 DEF FairlyDrawn
<1> QED
  BY <1>2, <1>3
-----------------------------------------------------------------------------
\* The application is drawn its questions.
LEMMA CreateAttemptInv ==
  ASSUME IInv, NEW v \in Visitor, CreateAttempt(v)
  PROVE  IInv'
<1> PICK k : k = req[v].key
  OBVIOUS
<1>1. /\ req[v].pc = "quiz" /\ req[v] \in Submission /\ Carries(req[v]) /\ k \in Key
      /\ app[k] \in Application /\ app[k].st # "none" /\ app[k].mail = "none"
  BY Parts, ShapeNow DEF CreateAttempt, At, Carries
<1>2. UNCHANGED <<job, listed, retired, blocked, adm, cands, issued, used, count, broken, reliable, burnt,
                  admitted, entries, cut, abreast, submits, events>>
  BY DEF CreateAttempt, work, redis
<1>3. CASE Refuse(v) /\ UNCHANGED app /\ app[k].st # "live"
  <2>1. events' \in Nat
    BY <1>2, ShapeNow
  <2> QED
    BY <1>1, <1>2, <1>3, <2>1, RefuseInv DEF work, redis
<1>4. ASSUME NEW drawn \in Drawable(v), Proceed(v, "mail"),
             app' = [app EXCEPT ![k] = [@ EXCEPT !.drawn = drawn,
                                          !.pool = IF req[v].quiz = "tags" THEN Pool(v) ELSE drawn]]
      PROVE  IInv'
  <2> PICK r : r = [req[v] EXCEPT !.pc = "mail"]
    OBVIOUS
  <2> PICK pool : pool = IF req[v].quiz = "tags" THEN Pool(v) ELSE drawn
    OBVIOUS
  <2> PICK a : a = [app[k] EXCEPT !.drawn = drawn, !.pool = pool]
    OBVIOUS
  <2>1. req' = [req EXCEPT ![v] = r] /\ app' = [app EXCEPT ![k] = a]
    BY <1>1, <1>4, ShapeNow DEF Proceed, Goto
  <2>2. r \in Submission /\ r.pc = "mail" /\ r.key = k /\ r.res = req[v].res /\ r.token = req[v].token
    BY <1>1 DEF Submission
  <2>3. pool \in SUBSET Question /\ FairlyDrawn(drawn, pool)
    BY <1>1, DrawableIsFair
  <2>10. drawn \subseteq pool
    BY <2>3 DEF FairlyDrawn
  <2>4. /\ a \in Application /\ a.st = app[k].st /\ a.mail = "none" /\ a.drawn = drawn /\ a.pool = pool
        /\ a.asked = app[k].asked /\ a.given = app[k].given
    BY <1>1, <2>3, <2>10 DEF Application
  <2>5. app'[k] = a /\ \A i \in Key \ {k} : app'[i] = app[i]
    BY <1>1, <2>1, ShapeNow
  <2>6. Carries(r)'
    <3>0. app'[r.key] = a /\ r.key = req[v].key
      BY <2>2, <2>5
    <3>1. r.res = "conflict" => app'[r.key].st = "live" \/ job'[r.key[1]].st = "deleted"
      <4>1. req[v].res = "conflict" => app[k].st = "live" \/ job[k[1]].st = "deleted"
        BY <1>1 DEF Carries
      <4> QED
        BY <1>2, <2>2, <2>4, <3>0, <4>1
    <3>2. r.res # "created"
      BY <1>1, <2>2 DEF Carries
    <3>3. r.token \subseteq 1 .. issued'
      BY <1>1, <1>2, <2>2 DEF Carries
    <3>4. r.pc = "mail" /\ r.key \in Key /\ app'[r.key].st # "none" /\ app'[r.key].mail = "none"
      BY <1>1, <2>2, <2>4, <3>0
    <3> QED
      BY <3>1, <3>2, <3>3, <3>4 DEF Carries
  <2>7. Shape'
    <3>1. app' \in [Key -> Application]
      BY <1>1, <2>1, <2>4, ShapeNow
    <3>2. \A i \in Key : app'[i].st = "live" =>
            /\ i[2] \in cands'
            /\ Required \cap app'[i].asked \subseteq app'[i].given
            /\ app'[i].given \subseteq app'[i].asked
      <4>1. \A i \in Key : /\ app'[i].st = app[i].st /\ app'[i].asked = app[i].asked
                            /\ app'[i].given = app[i].given
        BY <2>4, <2>5
      <4> QED
        BY <1>2, <4>1, ShapeNow
    <3> QED
      BY <1>1, <1>2, <2>1, <2>2, <3>1, <3>2, ShapeNow, ShapeStays
  <2>8. /\ \A w \in Visitor : Carries(req[w])'
        /\ \A b \in Admin : adm'[b].pc # "idle" => adm'[b].job # {}
        /\ AppsAreWhole' /\ DrawIsFair'
    <3>1. FairlyDrawn(a.drawn, a.pool)
      BY <2>3, <2>4
    <3>2. /\ r.pc \in Storing /\ r.pc \in {"quiz", "mail"} /\ req[v].pc \in Storing
          /\ UNCHANGED <<job, adm, cut, issued>>
      BY <1>1, <1>2, <2>2 DEF Storing
    <3>3. /\ a.st # "none" /\ (a.st = "gone" => app[k].st = "gone")
          /\ (app[k].st = "live" => a.st = "live") /\ (app[k].mail # "none" => a.mail # "none")
          /\ (a.mail = "quiz_invite" <=> a.mail # "none" /\ a.drawn # {})
      BY <1>1, <2>4
    <3> QED
      BY <1>1, <2>1, <2>2, <2>4, <2>6, <3>1, <3>2, <3>3, AppMoves
  <2>9. CountersTell'
    <3>1. Mailed' = Mailed
      <4>1. \A i \in Key : app'[i].mail = app[i].mail
        BY <1>1, <2>4, <2>5
      <4> QED
        BY <4>1 DEF Mailed
    <3>2. req[v].pc \in Passed /\ r.pc \in Passed /\ req[v].pc \notin Paid /\ r.pc \notin Paid
      BY <1>1, <2>2 DEF Passed, Paid
    <3> QED
      BY <1>2, <2>1, <2>2, <3>1, <3>2, CountersRest
  <2> QED
    BY <2>7, <2>8, <2>9 DEF IInv
<1> QED
  BY <1>3, <1>4 DEF CreateAttempt

\* The mail takes the place that its request had been let through for.
LEMMA QueueMailInv ==
  ASSUME IInv, NEW v \in Visitor, QueueMail(v)
  PROVE  IInv'
<1> PICK k : k = req[v].key
  OBVIOUS
<1>1. /\ req[v].pc = "mail" /\ req[v] \in Submission /\ Carries(req[v]) /\ k \in Key
      /\ app[k] \in Application /\ app[k].st # "none" /\ app[k].mail = "none"
  BY Parts, ShapeNow DEF QueueMail, At, Carries
<1>2. UNCHANGED <<job, listed, retired, blocked, adm, cands, issued, used, count, broken, reliable, burnt,
                  admitted, entries, cut, abreast, submits, events>>
  BY DEF QueueMail, work, redis
<1>3. CASE Refuse(v) /\ UNCHANGED app /\ app[k].st # "live"
  <2>1. events' \in Nat
    BY <1>2, ShapeNow
  <2> QED
    BY <1>1, <1>2, <1>3, <2>1, RefuseInv DEF work, redis
<1>4. CASE app[k].st = "live" /\ app' = [app EXCEPT ![k].mail = Kind(k)] /\ Proceed(v, "count")
  <2> PICK r : r = [req[v] EXCEPT !.pc = "count"]
    OBVIOUS
  <2> PICK m : m = Kind(k)
    OBVIOUS
  <2> PICK a : a = [app[k] EXCEPT !.mail = m]
    OBVIOUS
  <2>1. req' = [req EXCEPT ![v] = r] /\ app' = [app EXCEPT ![k] = a]
    BY <1>1, <1>4, ShapeNow DEF Proceed, Goto
  <2>2. r \in Submission /\ r.pc = "count" /\ r.key = k /\ r.res = req[v].res /\ r.token = req[v].token
    BY <1>1 DEF Submission
  <2>3. m \in {"quiz_invite", "application_received"} /\ (m = "quiz_invite" <=> app[k].drawn # {})
    BY DEF Kind
  <2>4. /\ a \in Application /\ a.st = app[k].st /\ a.mail = m /\ a.drawn = app[k].drawn
        /\ a.pool = app[k].pool /\ a.asked = app[k].asked /\ a.given = app[k].given
    BY <1>1, <2>3 DEF Application
  <2>5. app'[k] = a /\ \A i \in Key \ {k} : app'[i] = app[i]
    BY <1>1, <2>1, ShapeNow
  <2>6. Carries(r)'
    <3>0. app'[r.key] = a /\ r.key = req[v].key
      BY <2>2, <2>5
    <3>1. r.res = "conflict" => app'[r.key].st = "live" \/ job'[r.key[1]].st = "deleted"
      BY <1>4, <2>2, <2>4, <2>5
    <3>2. r.res # "created"
      BY <1>1, <2>2 DEF Carries
    <3>3. r.token \subseteq 1 .. issued'
      BY <1>1, <1>2, <2>2 DEF Carries
    <3>4. r.pc = "count" /\ r.key \in Key /\ app'[r.key].st # "none" /\ app'[r.key].mail # "none"
      BY <1>1, <2>2, <2>3, <2>4, <3>0
    <3> QED
      BY <3>1, <3>2, <3>3, <3>4 DEF Carries
  <2>7. Shape'
    <3>1. app' \in [Key -> Application]
      BY <1>1, <2>1, <2>4, ShapeNow
    <3>2. \A i \in Key : app'[i].st = "live" =>
            /\ i[2] \in cands'
            /\ Required \cap app'[i].asked \subseteq app'[i].given
            /\ app'[i].given \subseteq app'[i].asked
      <4>1. \A i \in Key : /\ app'[i].st = app[i].st /\ app'[i].asked = app[i].asked
                            /\ app'[i].given = app[i].given
        BY <2>4, <2>5
      <4> QED
        BY <1>2, <4>1, ShapeNow
    <3> QED
      BY <1>1, <1>2, <2>1, <2>2, <3>1, <3>2, ShapeNow, ShapeStays
  <2>8. /\ \A w \in Visitor : Carries(req[w])'
        /\ \A b \in Admin : adm'[b].pc # "idle" => adm'[b].job # {}
        /\ AppsAreWhole' /\ DrawIsFair'
    <3>1. FairlyDrawn(a.drawn, a.pool)
      <4>1. FairlyDrawn(app[k].drawn, app[k].pool)
        BY <1>1, Parts DEF DrawIsFair, FairlyDrawn, Key
      <4> QED
        BY <2>4, <4>1 DEF FairlyDrawn
    <3>2. r.pc \in Storing /\ req[v].pc \in Storing /\ UNCHANGED <<job, adm, cut, issued>>
      BY <1>1, <1>2, <2>2 DEF Storing
    <3>3. /\ a.st # "none" /\ (a.st = "gone" => app[k].st = "gone")
          /\ (app[k].st = "live" => a.st = "live") /\ (app[k].mail # "none" => a.mail # "none")
          /\ (a.mail = "quiz_invite" <=> a.mail # "none" /\ a.drawn # {}) /\ a.mail # "none"
      BY <1>1, <2>3, <2>4
    <3> QED
      BY <1>1, <2>1, <2>2, <2>4, <2>6, <3>1, <3>2, <3>3, AppMoves
  <2>9. CountersTell'
    <3>1. req'[v] = r /\ \A w \in Visitor \ {v} : req'[w] = req[w]
      BY <2>1, ShapeNow
    <3>2. Mailed' = Mailed \cup {k} /\ Mailed \subseteq Key
      <4>1. \A i \in Key : app'[i].mail = IF i = k THEN m ELSE app[i].mail
        BY <2>4, <2>5
      <4> QED
        BY <1>1, <2>3, <4>1 DEF Mailed
    <3>3. Counted' \subseteq Counted
      <4>1. v \in Within({"count"})'
        BY <2>2, <3>1 DEF Within
      <4>2. \A w \in Within({"count"}) : w \in Within({"count"})' /\ req'[w].key = req[w].key
        BY <1>1, <3>1 DEF Within
      <4>3. k \notin Counted'
        BY <2>2, <3>1, <4>1 DEF Counted
      <4> QED
        BY <1>2, <3>2, <4>2, <4>3 DEF Counted
    <3>4. /\ Cardinality(Within(Passed)) \in Nat
          /\ Cardinality(Within(Passed)') = Cardinality(Within(Passed)) - 1
      <4>1. req[v].pc \in Passed /\ r.pc \notin Passed
        BY <1>1, <2>2 DEF Passed
      <4> QED
        BY <2>1, <4>1, ShapeNow, MoveCount
    <3>5. Within(Paid)' = Within(Paid)
      <4>1. req[v].pc \notin Paid /\ r.pc \notin Paid
        BY <1>1, <2>2 DEF Paid
      <4> QED
        BY <3>1, <4>1 DEF Within
    <3>6. Active' = Active /\ Publishing' = Publishing
      BY <1>2 DEF Active, Publishing
    <3>7. reliable => Cardinality(Counted') <= count["redis"]["emails"]
      <4> SUFFICES ASSUME reliable PROVE Cardinality(Counted') <= count["redis"]["emails"]
        OBVIOUS
      <4>1. IsFiniteSet(Counted) /\ Cardinality(Counted) <= count["redis"]["emails"]
        BY MailedFew, Parts DEF CountersTell
      <4>2. count["redis"]["emails"] \in Nat
        BY ShapeNow DEF Store, Counter, Scope
      <4> QED
        BY <3>3, <4>1, <4>2, SubsetCount
    <3>8. reliable => Cardinality(Mailed') + Cardinality(Within(Passed)')
                        <= EMAILS + abreast.mails - 1 + Cardinality(cut)
      <4> SUFFICES ASSUME reliable
                   PROVE  Cardinality(Mailed') + Cardinality(Within(Passed)')
                            <= EMAILS + abreast.mails - 1 + Cardinality(cut)
        OBVIOUS
      <4>1. /\ IsFiniteSet(Mailed) /\ Cardinality(Mailed) \in Nat /\ Cardinality(cut) \in Nat
            /\ Cardinality(Mailed) + Cardinality(Within(Passed)) <= EMAILS + abreast.mails - 1 + Cardinality(cut)
        BY MailedFew, Parts DEF CountersTell
      <4>2. Cardinality(Mailed') \in Nat /\ Cardinality(Mailed') <= Cardinality(Mailed) + 1
        BY <3>2, <4>1, GrownCount
      <4>3. abreast.mails \in Nat /\ EMAILS \in Nat
        BY ShapeNow, LimitsAreOn
      <4> QED
        BY <3>4, <4>1, <4>2, <4>3
    <3> QED
      BY <1>2, <3>5, <3>6, <3>7, <3>8, Parts DEF CountersTell
  <2> QED
    BY <2>7, <2>8, <2>9 DEF IInv
<1> QED
  BY <1>3, <1>4 DEF QueueMail

LEMMA CountMailInv ==
  ASSUME IInv, NEW v \in Visitor, CountMail(v)
  PROVE  IInv'
<1> PICK k : k = req[v].key
  OBVIOUS
<1>1. /\ req[v].pc = "count" /\ req[v] \in Submission /\ Carries(req[v]) /\ k \in Key
      /\ app[k].st # "none" /\ app[k].mail # "none"
  BY Parts, ShapeNow DEF CountMail, At, Carries
<1>2. UNCHANGED <<job, listed, retired, blocked, adm, app, cands, issued, used, burnt, admitted, entries, cut,
                  abreast, submits>>
  BY DEF CountMail, work
<1>3. PICK n \in Next0 : Hit("emails", n)
  BY DEF CountMail
<1>4. "emails" \in Counter /\ "applications" \in Counter
  BY DEF Counter, Scope
<1>5. /\ count' \in [Store -> [Counter -> Nat]]
      /\ broken' \in BOOLEAN /\ reliable' \in BOOLEAN /\ events' \in Nat
      /\ broken' => ~reliable'
  BY <1>3, <1>4, HitFacts
<1>6. PICK s \in Store :
      /\ n = count[s]["emails"] + 1 /\ count'[s]["emails"] = n
      /\ \A t \in Store, d \in Counter : t # s \/ d # "emails" => count'[t][d] = count[t][d]
      /\ s = "redis" => broken' = broken /\ reliable' = reliable
      /\ s = "memory" => broken' /\ ~reliable'
  BY <1>3, <1>4, HitFacts
<1> PICK r : r = [NoReq EXCEPT !.key = req[v].key, !.res = "created"]
  OBVIOUS
<1>7. req' = [req EXCEPT ![v] = r]
  BY DEF CountMail, Answer, Goto
<1>8. r \in Submission /\ r.pc = "idle" /\ r.key = k /\ r.res = "created" /\ r.token = {}
  BY <1>1, NoRequest DEF Submission
<1>9. Carries(r)'
  BY <1>1, <1>2, <1>8 DEF Carries
<1>10. Shape'
  BY <1>1, <1>2, <1>5, <1>7, <1>8, ShapeNow, ShapeStays
<1>11. /\ \A w \in Visitor : Carries(req[w])'
       /\ \A b \in Admin : adm'[b].pc # "idle" => adm'[b].job # {}
       /\ AppsAreWhole' /\ DrawIsFair'
  <2>1. issued' \in Nat /\ issued <= issued'
    BY <1>2, ShapeNow
  <2> QED
    BY <1>1, <1>2, <1>7, <1>8, <1>9, <2>1, AppsRest
<1>12. CountersTell'
  <2>1. reliable' => reliable
    BY <1>6 DEF Store
  <2>2. /\ count["redis"]["emails"] \in Nat /\ count["memory"]["emails"] \in Nat
        /\ "redis" \in Store /\ "memory" \in Store /\ "memory" # "redis" /\ "emails" # "applications"
    BY <1>4, ShapeNow DEF Store
  <2>3. /\ count["redis"]["emails"] <= count'["redis"]["emails"] /\ count'["redis"]["emails"] \in Nat
        /\ reliable' => count["redis"]["emails"] + 1 <= count'["redis"]["emails"]
    <3>1. CASE s = "redis"
      BY <1>6, <2>2, <3>1
    <3>2. CASE s = "memory"
      BY <1>4, <1>6, <2>2, <3>2
    <3> QED
      BY <3>1, <3>2 DEF Store
  <2>4. /\ count'["redis"]["applications"] = count["redis"]["applications"]
        /\ count'["memory"]["applications"] = count["memory"]["applications"]
    BY <1>4, <1>6, <2>2
  <2>5. ~broken' => ~broken
    BY <1>6 DEF Store
  <2>6. /\ ~broken' => count'["memory"]["applications"] = 0
        /\ admitted' <= Lesser(count'["redis"]["applications"], APPLICATIONS)
                       + Lesser(count'["memory"]["applications"], APPLICATIONS)
    BY <1>2, <2>4, <2>5, Parts DEF CountersTell
  <2>7. reliable' => burnt' + Cardinality(Within(Paid)') <= Cardinality(used')
    <3>1. /\ Cardinality(Within(Paid)) \in Nat /\ Cardinality(Within(Paid)') \in Nat
          /\ Cardinality(Within(Paid)') <= Cardinality(Within(Paid))
      <4>1. r.pc \notin Paid
        BY <1>8 DEF Paid
      <4> QED
        BY <1>7, <4>1, ShapeNow, FewerStand
    <3>2. /\ burnt \in Nat /\ Cardinality(used) \in Nat
          /\ reliable => burnt + Cardinality(Within(Paid)) <= Cardinality(used)
      BY Parts, ShapeNow, UsedAreFinite DEF CountersTell
    <3> QED
      BY <1>2, <2>1, <3>1, <3>2
  <2>8. /\ cut \subseteq cut' /\ cut' \subseteq Key /\ UNCHANGED <<job, adm, app, abreast>>
        /\ r.pc # "count" /\ r.pc \notin Passed
    BY <1>2, <1>8, ShapeNow DEF Passed
  <2> QED
    BY <1>5, <1>7, <1>8, <2>1, <2>3, <2>6, <2>7, <2>8, CountersStay
<1> QED
  BY <1>10, <1>11, <1>12 DEF IInv

LEMMA KillInv ==
  ASSUME IInv, NEW v \in Visitor, Kill(v)
  PROVE  IInv'
<1>1. req[v].pc # "idle" /\ Refuse(v) /\ UNCHANGED <<work, app, cands, redis, entries, abreast, submits>>
  BY DEF Kill, At
<1>2. events' \in Nat
  BY ShapeNow DEF Kill, Event
<1>3. cut' = IF req[v].pc \in {"quiz", "mail", "count"} THEN cut \cup {req[v].key} ELSE cut
  BY DEF Kill
<1>4. /\ cut' \in {cut, cut \cup {req[v].key}}
      /\ req[v].pc \in {"quiz", "mail", "count"} => req[v].key \in cut'
  BY <1>3
<1> QED
  BY <1>1, <1>2, <1>4, RefuseInv

LEMMA NextHourInv ==
  ASSUME IInv, NextHour
  PROVE  IInv'
<1>1. /\ UNCHANGED <<job, listed, retired, blocked, adm, req, app, cands, issued, used, broken, reliable, burnt,
                     entries, cut, abreast, submits>>
      /\ admitted' = 0
      /\ count' = [s \in Store |-> [count[s] EXCEPT !["applications"] = 0]]
  BY DEF NextHour, work
<1>2. events' \in Nat
  BY ShapeNow DEF NextHour, Event
<1>3. "applications" \in Counter /\ "emails" \in Counter /\ "redis" \in Store /\ "memory" \in Store
  BY DEF Counter, Scope, Store
<1>4. /\ count' \in [Store -> [Counter -> Nat]]
      /\ count'["redis"]["applications"] = 0 /\ count'["memory"]["applications"] = 0
      /\ count'["redis"]["emails"] = count["redis"]["emails"]
  BY <1>1, <1>3, ShapeNow
<1>5. Shape'
  <2>1. TypeOK'
    BY <1>1, Parts DEF TypeOK
  <2> QED
    BY <1>1, <1>2, <1>4, <2>1, Parts DEF Shape
<1>6. \A w \in Visitor : Carries(req[w])'
  BY <1>1, Parts DEF Carries, Fits
<1>7. AppsAreWhole' /\ DrawIsFair' /\ \A b \in Admin : adm'[b].pc # "idle" => adm'[b].job # {}
  <2>1. \A P : Within(P)' = Within(P)
    BY <1>1, NobodyMoved
  <2> QED
    BY <1>1, <2>1, Parts DEF AppsAreWhole, DrawIsFair
<1>8. CountersTell'
  <2>1. \A P : Within(P)' = Within(P)
    BY <1>1, NobodyMoved
  <2>2. Mailed' = Mailed /\ Active' = Active /\ Publishing' = Publishing
    BY <1>1 DEF Mailed, Active, Publishing
  <2>3. Counted' = Counted
    BY <1>1, <2>1, <2>2 DEF Counted
  <2>4. Lesser(0, APPLICATIONS) = 0
    BY LimitsAreOn DEF Lesser
  <2> QED
    BY <1>1, <1>4, <2>1, <2>2, <2>3, <2>4, Parts DEF CountersTell
<1> QED
  BY <1>5, <1>6, <1>7, <1>8 DEF IInv
-----------------------------------------------------------------------------
(***************************************************************************)
(* The team.                                                               *)
(***************************************************************************)
\* What a request of the team leaves as it was, and what it may change.
LEMMA TeamStays ==
  ASSUME IInv, NEW b \in Admin, NEW e \in TeamEdit, adm' = [adm EXCEPT ![b] = e],
         e.pc # "idle" => e.job # {},
         UNCHANGED <<req, cands, issued, used, count, broken, reliable, burnt, admitted, entries, cut, submits>>,
         abreast' \in [mails : Nat, jobs : Nat], abreast'.mails = abreast.mails, events' \in Nat,
         job' \in [Job -> [st : Status, form : Forms, quiz : QuizKind]],
         listed' \in BOOLEAN, retired' \in SUBSET Question, blocked' \in SUBSET Question,
         \A j \in Job : job[j].st = "deleted" => job'[j].st = "deleted",
         app' \in [Key -> Application],
         \A k \in Key :
            /\ app'[k] # app[k] => app'[k].st = "gone" /\ job'[k[1]].st = "deleted" /\ app[k].st = "live"
            /\ app'[k].mail = app[k].mail /\ app'[k].drawn = app[k].drawn /\ app'[k].pool = app[k].pool,
         Cardinality(Active') + Cardinality(Publishing') <= ACTIVE_JOBS + abreast'.jobs - 1
  PROVE  IInv'
<1> USE Parts
<1>1. \A P : Within(P)' = Within(P)
  BY NobodyMoved
<1>2. Shape'
  <2>1. adm' \in [Admin -> TeamEdit]
    BY DEF Shape
  <2>2. TypeOK'
    BY ShapeNow DEF TypeOK, Key
  <2> QED
    BY <2>1, <2>2, ShapeNow DEF Shape
<1>3. ASSUME NEW v \in Visitor PROVE Carries(req[v])'
  <2>1. Carries(req[v]) /\ UNCHANGED <<req, issued>>
    OBVIOUS
  <2>2. req[v].key \in Key => app'[req[v].key].mail = app[req[v].key].mail
    OBVIOUS
  <2>3. req[v].key \in Key => req[v].key[1] \in Job
    BY DEF Key
  <2>4. req[v].key \in Key /\ app[req[v].key].st # "none" => app'[req[v].key].st # "none"
    OBVIOUS
  <2>5. req[v].res = "conflict" => app'[req[v].key].st = "live" \/ job'[req[v].key[1]].st = "deleted"
    BY <2>1, <2>3 DEF Carries
  <2>6. req[v].res = "created" => app'[req[v].key].mail # "none"
    BY <2>1, <2>2 DEF Carries
  <2>7. req[v].pc \in Storing => req[v].key \in Key
    BY ShapeNow DEF Storing
  <2> QED
    BY <2>1, <2>2, <2>4, <2>5, <2>6, <2>7 DEF Carries, Storing, Fits
<1>4. \A c \in Admin : adm'[c].pc # "idle" => adm'[c].job # {}
  BY DEF Shape
<1>5. AppsAreWhole'
  <2>1. ASSUME NEW k \in Key
        PROVE  /\ app'[k].st = "none" => app'[k].mail = "none"
               /\ app'[k].st = "gone" => job'[k[1]].st = "deleted"
               /\ app'[k].mail = "quiz_invite" <=> app'[k].mail # "none" /\ app'[k].drawn # {}
    BY DEF AppsAreWhole, Key
  <2>2. ASSUME NEW k \in Key, app'[k].st = "live", app'[k].mail = "none", k \notin cut'
        PROVE  \E v \in Within({"quiz", "mail"})' : req'[v].key = k
    BY <1>1, <2>2 DEF AppsAreWhole
  <2>3. \A v, w \in Within(Storing)' : req'[v].key = req'[w].key => v = w
    BY <1>1 DEF AppsAreWhole
  <2> QED
    BY <2>1, <2>2, <2>3 DEF AppsAreWhole
<1>6. CountersTell'
  <2>1. Mailed' = Mailed
    BY DEF Mailed
  <2>2. Counted' = Counted
    BY <1>1, <2>1 DEF Counted
  <2> QED
    BY <1>1, <2>1, <2>2 DEF CountersTell
<1>7. DrawIsFair'
  <2>1. \A k \in Key : FairlyDrawn(app[k].drawn, app[k].pool)
    BY DEF DrawIsFair, FairlyDrawn, Key
  <2>2. \A k \in Key : FairlyDrawn(app'[k].drawn, app'[k].pool)
    BY <2>1
  <2> QED
    BY <2>2 DEF DrawIsFair, FairlyDrawn, Key
<1> QED
  BY <1>2, <1>3, <1>4, <1>5, <1>6, <1>7 DEF IInv

LEMMA TeamIsFinite ==
  /\ IsFiniteSet(Active) /\ IsFiniteSet(Publishing)
  /\ Cardinality(Active) \in Nat /\ Cardinality(Publishing) \in Nat
<1>1. Active \subseteq Job /\ Publishing \subseteq Admin
  BY DEF Active, Publishing
<1> QED
  BY <1>1, TablesAreFinite, SubsetCount

LEMMA TeamNow ==
  ASSUME IInv
  PROVE  /\ job \in [Job -> [st : Status, form : Forms, quiz : QuizKind]] /\ adm \in [Admin -> TeamEdit]
         /\ listed \in BOOLEAN /\ retired \in SUBSET Question /\ blocked \in SUBSET Question
         /\ \A b \in Admin : adm[b].pc # "idle" => \E j \in Job : adm[b].job = {j}
<1>1. adm \in [Admin -> TeamEdit]
  BY Parts DEF Shape
<1>2. ASSUME NEW b \in Admin, adm[b].pc # "idle" PROVE \E j \in Job : adm[b].job = {j}
  BY <1>1, <1>2, Parts DEF TeamEdit
<1> QED
  BY <1>1, <1>2, Parts DEF TypeOK

\* No job more is published and no request of the team is about to publish one.
LEMMA TeamFewer ==
  ASSUME IInv, NEW b \in Admin, NEW e \in TeamEdit, adm' = [adm EXCEPT ![b] = e], abreast' = abreast,
         e.pc # "counted", \A j \in Job : job'[j].st = "published" => job[j].st = "published"
  PROVE  /\ abreast' \in [mails : Nat, jobs : Nat] /\ abreast'.mails = abreast.mails
         /\ Cardinality(Active') + Cardinality(Publishing') <= ACTIVE_JOBS + abreast'.jobs - 1
<1>1. adm'[b] = e /\ \A c \in Admin \ {b} : adm'[c] = adm[c]
  BY TeamNow
<1>2. Active' \subseteq Active /\ Publishing' \subseteq Publishing
  BY <1>1 DEF Active, Publishing
<1>3. /\ Cardinality(Active') \in Nat /\ Cardinality(Active') <= Cardinality(Active)
      /\ Cardinality(Publishing') \in Nat /\ Cardinality(Publishing') <= Cardinality(Publishing)
      /\ Cardinality(Active) \in Nat /\ Cardinality(Publishing) \in Nat
  BY <1>2, TeamIsFinite, SubsetCount
<1>4. abreast.jobs \in Nat /\ ACTIVE_JOBS \in Nat /\ abreast \in [mails : Nat, jobs : Nat]
  BY ShapeNow, LimitsAreOn
<1> QED
  BY <1>3, <1>4, Parts DEF CountersTell

\* The same for a request that leaves the jobs' status and the applications alone.
LEMMA TeamEnds ==
  ASSUME IInv, NEW b \in Admin, NEW e \in TeamEdit, adm' = [adm EXCEPT ![b] = e],
         e.pc # "idle" => e.job # {}, e.pc # "counted",
         UNCHANGED <<req, app, cands, issued, used, count, broken, reliable, burnt, admitted, entries, cut,
                     abreast, submits>>,
         events' \in Nat, job' \in [Job -> [st : Status, form : Forms, quiz : QuizKind]],
         listed' \in BOOLEAN, retired' \in SUBSET Question, blocked' \in SUBSET Question,
         \A j \in Job : job'[j].st = job[j].st
  PROVE  IInv'
<1>1. /\ abreast' \in [mails : Nat, jobs : Nat] /\ abreast'.mails = abreast.mails
      /\ Cardinality(Active') + Cardinality(Publishing') <= ACTIVE_JOBS + abreast'.jobs - 1
  BY TeamFewer
<1>2. app' \in [Key -> Application]
  BY ShapeNow
<1> QED
  BY <1>1, <1>2, TeamStays

LEMMA LoadInv ==
  ASSUME IInv, NEW b \in Admin, NEW op \in Edits, NEW j \in Job, Load(b, op, j)
  PROVE  IInv'
<1> PICK e : e = [pc |-> "loaded", op |-> op, job |-> {j}, st |-> job[j].st, blocked |-> blocked]
  OBVIOUS
<1>1. /\ adm' = [adm EXCEPT ![b] = e]
      /\ UNCHANGED <<job, listed, retired, blocked, req, app, cands, issued, used, count, broken, reliable, burnt,
                     admitted, entries, cut, abreast, submits>>
  BY DEF Load, redis
<1>2. e \in TeamEdit /\ e.pc = "loaded" /\ e.job # {}
  BY TeamNow DEF TeamEdit
<1>3. events' \in Nat
  BY ShapeNow DEF Load, Event
<1> QED
  BY <1>1, <1>2, <1>3, TeamNow, TeamEnds

LEMMA CountActiveInv ==
  ASSUME IInv, NEW b \in Admin, CountActive(b)
  PROVE  IInv'
<1>1. /\ adm[b].pc = "loaded" /\ adm[b] \in TeamEdit
      /\ UNCHANGED <<req, cands, issued, used, count, broken, reliable, burnt, admitted, entries, cut, submits,
                     events, job, app, listed, retired, blocked>>
  BY TeamNow DEF CountActive, Doing, redis
<1>2. PICK n \in Nat : n = Cardinality(Publishing)
  BY TeamIsFinite
<1>3. CASE Ends(b) /\ UNCHANGED abreast
  <2>1. events' \in Nat
    BY <1>1, ShapeNow
  <2> QED
    BY <1>1, <1>3, <2>1, NoRequest, TeamNow, TeamEnds DEF Ends
<1>4. CASE /\ RoomForJobs
           /\ adm' = [adm EXCEPT ![b].pc = "counted"]
           /\ abreast' = [abreast EXCEPT !.jobs = More(@, 1 + Cardinality({c \in Admin : adm[c].pc = "counted"}))]
  <2> PICK e : e = [adm[b] EXCEPT !.pc = "counted"]
    OBVIOUS
  <2>1. adm' = [adm EXCEPT ![b] = e] /\ abreast' = [abreast EXCEPT !.jobs = More(@, 1 + n)]
    BY <1>2, <1>4, TeamNow DEF Publishing
  <2>2. e \in TeamEdit /\ e.pc = "counted" /\ e.job = adm[b].job
    BY <1>1 DEF TeamEdit
  <2>3. e.job # {}
    BY <1>1, <2>2, TeamNow
  <2>4. /\ abreast' \in [mails : Nat, jobs : Nat] /\ abreast'.mails = abreast.mails
        /\ 1 + n <= abreast'.jobs
    BY <2>1, ShapeNow DEF More
  <2>5. Cardinality(Publishing') = n + 1
    <3>1. adm'[b] = e /\ \A c \in Admin \ {b} : adm'[c] = adm[c]
      BY <2>1, TeamNow
    <3>2. Publishing' = Publishing \cup {b} /\ b \notin Publishing
      BY <1>1, <2>2, <3>1 DEF Publishing
    <3> QED
      BY <1>2, <3>2, TeamIsFinite, FS_AddElement
  <2>6. Cardinality(Active') < ACTIVE_JOBS /\ Cardinality(Active') \in Nat
    <3>1. Active' = Active
      BY <1>1 DEF Active
    <3> QED
      BY <1>4, <3>1, TeamIsFinite DEF RoomForJobs
  <2>7. Cardinality(Active') + Cardinality(Publishing') <= ACTIVE_JOBS + abreast'.jobs - 1
    <3>1. ACTIVE_JOBS \in Nat /\ abreast'.jobs \in Nat
      BY <2>4, LimitsAreOn
    <3> QED
      BY <2>4, <2>5, <2>6, <3>1
  <2>8. events' \in Nat /\ app' \in [Key -> Application]
    BY <1>1, ShapeNow
  <2> QED
    BY <1>1, <2>1, <2>2, <2>3, <2>4, <2>7, <2>8, TeamNow, TeamStays
<1> QED
  BY <1>3, <1>4 DEF CountActive

\* The status is that of one job, unless its row has been deleted.
LEMMA StatusFacts ==
  ASSUME IInv, NEW b \in Admin, adm[b].pc # "idle", NEW s \in Status, SetStatus(b, s)
  PROVE  /\ adm' = [adm EXCEPT ![b] = NoEdit]
         /\ UNCHANGED <<req, cands, issued, used, count, broken, reliable, burnt, admitted, entries, cut, abreast,
                        submits, events, listed, retired, blocked>>
         /\ job' \in [Job -> [st : Status, form : Forms, quiz : QuizKind]]
         /\ \E j \in Job :
              /\ adm[b].job = {j}
              /\ job'[j].st = IF job[j].st = "deleted" THEN "deleted" ELSE s
              /\ \A i \in Job \ {j} : job'[i] = job[i]
<1>1. /\ adm' = [adm EXCEPT ![b] = NoEdit]
      /\ UNCHANGED <<req, cands, issued, used, count, broken, reliable, burnt, admitted, entries, cut, abreast,
                     submits, events, listed, retired, blocked>>
      /\ job' = [j \in Job |-> IF j \in adm[b].job /\ job[j].st # "deleted"
                               THEN [job[j] EXCEPT !.st = s] ELSE job[j]]
  BY DEF SetStatus, Ends, EditsOnly, redis
<1>2. PICK j \in Job : adm[b].job = {j}
  BY TeamNow
<1>3. \A i \in Job : [job[i] EXCEPT !.st = s] \in [st : Status, form : Forms, quiz : QuizKind]
                     /\ [job[i] EXCEPT !.st = s].st = s
  BY TeamNow
<1>4. job' \in [Job -> [st : Status, form : Forms, quiz : QuizKind]]
  BY <1>1, <1>3, TeamNow
<1>5. /\ job'[j].st = IF job[j].st = "deleted" THEN "deleted" ELSE s
      /\ \A i \in Job \ {j} : job'[i] = job[i]
  BY <1>1, <1>2, <1>3
<1> QED
  BY <1>1, <1>2, <1>4, <1>5

\* The place among the active jobs is the one that was counted.
LEMMA PublishInv ==
  ASSUME IInv, NEW b \in Admin, Publish(b)
  PROVE  IInv'
<1>1. adm[b].pc = "counted" /\ SetStatus(b, "published") /\ UNCHANGED app /\ "published" \in Status
  BY DEF Publish, Status
<1>2. /\ adm' = [adm EXCEPT ![b] = NoEdit]
      /\ UNCHANGED <<req, cands, issued, used, count, broken, reliable, burnt, admitted, entries, cut, abreast,
                     submits, events, listed, retired, blocked>>
      /\ job' \in [Job -> [st : Status, form : Forms, quiz : QuizKind]]
  BY <1>1, StatusFacts
<1>3. PICK j \in Job : /\ job'[j].st = IF job[j].st = "deleted" THEN "deleted" ELSE "published"
                       /\ \A i \in Job \ {j} : job'[i] = job[i]
  BY <1>1, StatusFacts
<1>4. Cardinality(Active') <= Cardinality(Active) + 1 /\ Cardinality(Active') \in Nat
  <2>1. Active' \subseteq Active \cup {j}
    BY <1>3 DEF Active
  <2> QED
    BY <2>1, TeamIsFinite, GrownCount
<1>5. Cardinality(Publishing') = Cardinality(Publishing) - 1
  <2>1. adm'[b] = NoEdit /\ \A c \in Admin \ {b} : adm'[c] = adm[c]
    BY <1>2, TeamNow
  <2>2. Publishing' = Publishing \ {b} /\ b \in Publishing
    BY <1>1, <2>1, NoRequest DEF Publishing
  <2> QED
    BY <2>2, TeamIsFinite, FS_RemoveElement
<1>6. /\ abreast' \in [mails : Nat, jobs : Nat] /\ abreast'.mails = abreast.mails
      /\ Cardinality(Active') + Cardinality(Publishing') <= ACTIVE_JOBS + abreast'.jobs - 1
  <2>1. /\ Cardinality(Active) + Cardinality(Publishing) <= ACTIVE_JOBS + abreast.jobs - 1
        /\ abreast.jobs \in Nat /\ ACTIVE_JOBS \in Nat /\ abreast \in [mails : Nat, jobs : Nat]
    BY Parts, ShapeNow, LimitsAreOn DEF CountersTell
  <2> QED
    BY <1>2, <1>4, <1>5, <2>1, TeamIsFinite
<1>7. events' \in Nat /\ app' \in [Key -> Application] /\ \A i \in Job : job[i].st = "deleted" => job'[i].st = "deleted"
  BY <1>1, <1>2, <1>3, ShapeNow
<1> QED
  BY <1>1, <1>2, <1>6, <1>7, NoRequest, TeamNow, TeamStays

LEMMA CloseInv ==
  ASSUME IInv, NEW b \in Admin, Close(b)
  PROVE  IInv'
<1>1. adm[b].pc = "loaded" /\ SetStatus(b, "closed") /\ UNCHANGED app /\ "closed" \in Status
  BY DEF Close, Doing, Status
<1>2. /\ adm' = [adm EXCEPT ![b] = NoEdit]
      /\ UNCHANGED <<req, cands, issued, used, count, broken, reliable, burnt, admitted, entries, cut, abreast,
                     submits, events, listed, retired, blocked>>
      /\ job' \in [Job -> [st : Status, form : Forms, quiz : QuizKind]]
  BY <1>1, StatusFacts
<1>3. PICK j \in Job : /\ job'[j].st = IF job[j].st = "deleted" THEN "deleted" ELSE "closed"
                       /\ \A i \in Job \ {j} : job'[i] = job[i]
  BY <1>1, StatusFacts
<1>4. \A i \in Job : /\ job[i].st = "deleted" => job'[i].st = "deleted"
                     /\ job'[i].st = "published" => job[i].st = "published"
  BY <1>3
<1>5. /\ abreast' \in [mails : Nat, jobs : Nat] /\ abreast'.mails = abreast.mails
      /\ Cardinality(Active') + Cardinality(Publishing') <= ACTIVE_JOBS + abreast'.jobs - 1
  BY <1>2, <1>4, NoRequest, TeamFewer
<1>6. events' \in Nat /\ app' \in [Key -> Application]
  BY <1>1, <1>2, ShapeNow
<1> QED
  BY <1>1, <1>2, <1>4, <1>5, <1>6, NoRequest, TeamNow, TeamStays

\* The applications go with the row of their job.
LEMMA DeleteInv ==
  ASSUME IInv, NEW b \in Admin, Delete(b)
  PROVE  IInv'
<1>1. /\ adm[b].pc = "loaded" /\ SetStatus(b, "deleted") /\ "deleted" \in Status
      /\ app' = [k \in DOMAIN app |-> IF k[1] \in adm[b].job /\ app[k].st = "live"
                                      THEN [app[k] EXCEPT !.st = "gone"] ELSE app[k]]
  BY DEF Delete, Doing, Status
<1>2. /\ adm' = [adm EXCEPT ![b] = NoEdit]
      /\ UNCHANGED <<req, cands, issued, used, count, broken, reliable, burnt, admitted, entries, cut, abreast,
                     submits, events, listed, retired, blocked>>
      /\ job' \in [Job -> [st : Status, form : Forms, quiz : QuizKind]]
  BY <1>1, StatusFacts
<1>3. PICK j \in Job : /\ adm[b].job = {j}
                       /\ job'[j].st = IF job[j].st = "deleted" THEN "deleted" ELSE "deleted"
                       /\ \A i \in Job \ {j} : job'[i] = job[i]
  BY <1>1, StatusFacts
<1>4. \A i \in Job : /\ job[i].st = "deleted" => job'[i].st = "deleted"
                     /\ job'[i].st = "published" => job[i].st = "published"
  BY <1>3
<1>5. /\ abreast' \in [mails : Nat, jobs : Nat] /\ abreast'.mails = abreast.mails
      /\ Cardinality(Active') + Cardinality(Publishing') <= ACTIVE_JOBS + abreast'.jobs - 1
  BY <1>2, <1>4, NoRequest, TeamFewer
<1>6. \A k \in Key : LET a == [app[k] EXCEPT !.st = "gone"]
                     IN  /\ a \in Application /\ a.st = "gone" /\ a.mail = app[k].mail
                         /\ a.drawn = app[k].drawn /\ a.pool = app[k].pool
  BY ShapeNow DEF Application
<1>7. app' \in [Key -> Application]
  BY <1>1, <1>6, ShapeNow
<1>8. \A k \in Key :
         /\ app'[k] # app[k] => app'[k].st = "gone" /\ job'[k[1]].st = "deleted" /\ app[k].st = "live"
         /\ app'[k].mail = app[k].mail /\ app'[k].drawn = app[k].drawn /\ app'[k].pool = app[k].pool
  BY <1>1, <1>3, <1>6, ShapeNow
<1>9. events' \in Nat
  BY <1>2, ShapeNow
<1> QED
  BY <1>1, <1>2, <1>4, <1>5, <1>7, <1>8, <1>9, NoRequest, TeamNow, TeamStays

LEMMA ForbidInv ==
  ASSUME IInv, NEW b \in Admin, Forbid(b)
  PROVE  IInv'
<1>1. /\ adm' = [adm EXCEPT ![b] = NoEdit]
      /\ UNCHANGED <<req, cands, issued, used, count, broken, reliable, burnt, admitted, entries, cut, abreast,
                     submits, events, job, app, listed, retired, blocked>>
  BY DEF Forbid, Ends, EditsOnly, redis
<1>2. events' \in Nat
  BY <1>1, ShapeNow
<1> QED
  BY <1>1, <1>2, NoRequest, TeamNow, TeamEnds

LEMMA UpdateJobInv ==
  ASSUME IInv, NEW b \in Admin, UpdateJob(b)
  PROVE  IInv'
<1>1. /\ adm' = [adm EXCEPT ![b] = NoEdit]
      /\ UNCHANGED <<req, cands, issued, used, count, broken, reliable, burnt, admitted, entries, cut, abreast,
                     submits, events, app, listed, retired, blocked>>
  BY DEF UpdateJob, Ends, EditsOnly, redis
<1>2. events' \in Nat
  BY <1>1, ShapeNow
<1>3. /\ job' \in [Job -> [st : Status, form : Forms, quiz : QuizKind]]
      /\ \A j \in Job : job'[j].st = job[j].st
  <2>1. ASSUME NEW f \in Forms,
               job' = [j \in Job |-> IF j \in adm[b].job THEN [job[j] EXCEPT !.form = f] ELSE job[j]]
        PROVE  /\ job' \in [Job -> [st : Status, form : Forms, quiz : QuizKind]]
               /\ \A j \in Job : job'[j].st = job[j].st
    <3>1. \A j \in Job : /\ [job[j] EXCEPT !.form = f] \in [st : Status, form : Forms, quiz : QuizKind]
                         /\ [job[j] EXCEPT !.form = f].st = job[j].st
      BY TeamNow
    <3> QED
      BY <2>1, <3>1, TeamNow
  <2>2. ASSUME NEW z \in QuizKind,
               job' = [j \in Job |-> IF j \in adm[b].job THEN [job[j] EXCEPT !.quiz = z] ELSE job[j]]
        PROVE  /\ job' \in [Job -> [st : Status, form : Forms, quiz : QuizKind]]
               /\ \A j \in Job : job'[j].st = job[j].st
    <3>1. \A j \in Job : /\ [job[j] EXCEPT !.quiz = z] \in [st : Status, form : Forms, quiz : QuizKind]
                         /\ [job[j] EXCEPT !.quiz = z].st = job[j].st
      BY TeamNow
    <3> QED
      BY <2>2, <3>1, TeamNow
  <2> QED
    BY <2>1, <2>2 DEF UpdateJob
<1> QED
  BY <1>1, <1>2, <1>3, NoRequest, TeamNow, TeamEnds

LEMMA EditBankInv ==
  ASSUME IInv, NEW b \in Admin, EditBank(b)
  PROVE  IInv'
<1>1. /\ adm' = [adm EXCEPT ![b] = NoEdit]
      /\ UNCHANGED <<req, cands, issued, used, count, broken, reliable, burnt, admitted, entries, cut, abreast,
                     submits, events, job, app>>
  BY DEF EditBank, Ends, EditsOnly, redis
<1>2. events' \in Nat
  BY <1>1, ShapeNow
<1>3. adm[b].blocked \in SUBSET Question
  BY TeamNow DEF TeamEdit
<1>4. listed' \in BOOLEAN /\ retired' \in SUBSET Question /\ blocked' \in SUBSET Question
  BY <1>3, TeamNow DEF EditBank
<1> QED
  BY <1>1, <1>2, <1>4, NoRequest, TeamNow, TeamEnds
-----------------------------------------------------------------------------
LEMMA StutterInv ==
  ASSUME IInv, UNCHANGED vars
  PROVE  IInv'
<1>1. UNCHANGED <<job, listed, retired, blocked, adm, req, app, cands, issued, used, count, broken, reliable,
                  burnt, admitted, entries, cut, abreast, submits, events>>
  BY DEF vars, work, redis
<1>2. Shape'
  <2>1. TypeOK'
    BY <1>1, Parts DEF TypeOK
  <2> QED
    BY <1>1, <2>1, Parts DEF Shape
<1>3. \A v \in Visitor : Carries(req[v])'
  BY <1>1, Parts DEF Carries, Fits
<1>4. \A P : Within(P)' = Within(P)
  BY <1>1, NobodyMoved
<1>5. AppsAreWhole' /\ DrawIsFair' /\ \A b \in Admin : adm'[b].pc # "idle" => adm'[b].job # {}
  BY <1>1, <1>4, Parts DEF AppsAreWhole, DrawIsFair
<1>6. CountersTell'
  <2>1. Mailed' = Mailed /\ Active' = Active /\ Publishing' = Publishing
    BY <1>1 DEF Mailed, Active, Publishing
  <2>2. Counted' = Counted
    BY <1>1, <1>4, <2>1 DEF Counted
  <2> QED
    BY <1>1, <1>4, <2>1, <2>2, Parts DEF CountersTell
<1> QED
  BY <1>2, <1>3, <1>5, <1>6 DEF IInv

LEMMA NextInv ==
  ASSUME IInv, [Next]_vars
  PROVE  IInv'
<1>1. ASSUME NEW v \in Visitor, Submits(v) PROVE IInv'
  BY <1>1, SubmitInv DEF Submits
<1>2. ASSUME NEW v \in Visitor, Handles(v) PROVE IInv'
  BY <1>2, ClaimChallengeInv, GuardEmailsInv, GuardApplicationsInv, FlagBreachInv, RecordBreachInv,
     CheckAnswersInv, InsertApplicationInv, CreateAttemptInv, QueueMailInv, CountMailInv DEF Handles
<1>3. ASSUME NEW v \in Visitor, Kill(v) PROVE IInv'
  BY <1>3, KillInv
<1>4. ASSUME NEW b \in Admin, Edit(b) PROVE IInv'
  <2>1. ASSUME NEW op \in Edits, NEW j \in Job, Load(b, op, j) PROVE IInv'
    BY <2>1, LoadInv
  <2> QED
    BY <1>4, <2>1, CountActiveInv, PublishInv, CloseInv, DeleteInv, ForbidInv, UpdateJobInv, EditBankInv
    DEF Edit
<1>5. CASE NextHour
  BY <1>5, NextHourInv
<1>6. CASE UNCHANGED vars
  BY <1>6, StutterInv
<1> QED
  BY <1>1, <1>2, <1>3, <1>4, <1>5, <1>6 DEF Next

\* What the invariant says of the applications, of the counters and of the
\* requests holds however the steps of visitors and team interleave.
THEOREM Invariance == Spec => []IInv
<1>1. Init => IInv
  BY InitInv
<1>2. IInv /\ [Next]_vars => IInv'
  BY NextInv
<1> QED
  BY <1>1, <1>2, PTL DEF Spec

\* Jobs, requests and applications have their shape; what is stored of an
\* application's answers fits the questions it was asked (screening.py,
\* build_answers).
THEOREM TypeCorrect == Spec => []TypeOK
<1>1. IInv => TypeOK
  BY Parts
<1> QED
  BY <1>1, Invariance, PTL

\* No window of a store lets more submissions through than its limit says, mails
\* and active jobs go over theirs only by those who checked at the same time, and
\* each submission counted was paid for with a challenge (quotas.py, ratelimit.py,
\* challenge.py).
THEOREM LimitsAreKept == Spec => []LimitsHold
<1>1. ASSUME IInv PROVE LimitsHold
  <2>1. admitted <= IF broken THEN 2 * APPLICATIONS ELSE APPLICATIONS
    <3>1. /\ count["redis"]["applications"] \in Nat /\ count["memory"]["applications"] \in Nat
          /\ APPLICATIONS \in Nat /\ admitted \in Nat
      BY <1>1, ShapeNow, LimitsAreOn DEF Store, Counter, Scope
    <3>2. /\ ~broken => count["memory"]["applications"] = 0
          /\ admitted <= Lesser(count["redis"]["applications"], APPLICATIONS)
                          + Lesser(count["memory"]["applications"], APPLICATIONS)
      BY <1>1, Parts DEF CountersTell
    <3> QED
      BY <3>1, <3>2 DEF Lesser
  <2>2. reliable => Cardinality({k \in Job \X Email : app[k].mail # "none"})
                      <= EMAILS + abreast.mails - 1 + Cardinality(cut)
    <3> SUFFICES ASSUME reliable PROVE Cardinality(Mailed) <= EMAILS + abreast.mails - 1 + Cardinality(cut)
      BY DEF Mailed, Key
    <3>1. /\ Cardinality(Mailed) + Cardinality(Within(Passed)) <= EMAILS + abreast.mails - 1 + Cardinality(cut)
          /\ Cardinality(Mailed) \in Nat /\ Cardinality(cut) \in Nat
      BY <1>1, MailedFew, Parts DEF CountersTell
    <3>2. Cardinality(Within(Passed)) \in Nat
      <4>1. Within(Passed) \subseteq Visitor
        BY DEF Within
      <4> QED
        BY <4>1, TablesAreFinite, SubsetCount
    <3>3. EMAILS \in Nat /\ abreast.mails \in Nat
      BY <1>1, ShapeNow, LimitsAreOn
    <3> QED
      BY <3>1, <3>2, <3>3
  <2>3. Cardinality(Active) <= ACTIVE_JOBS + abreast.jobs - 1
    <3>1. /\ Cardinality(Active) + Cardinality(Publishing) <= ACTIVE_JOBS + abreast.jobs - 1
          /\ ACTIVE_JOBS \in Nat /\ abreast.jobs \in Nat
      BY <1>1, ShapeNow, Parts, LimitsAreOn DEF CountersTell
    <3> QED
      BY <3>1, TeamIsFinite
  <2>4. reliable => burnt <= Cardinality(used)
    <3>1. /\ reliable => burnt + Cardinality(Within(Paid)) <= Cardinality(used)
          /\ burnt \in Nat /\ Cardinality(used) \in Nat
      BY <1>1, ShapeNow, Parts, UsedAreFinite DEF CountersTell
    <3>2. Cardinality(Within(Paid)) \in Nat
      <4>1. Within(Paid) \subseteq Visitor
        BY DEF Within
      <4> QED
        BY <4>1, TablesAreFinite, SubsetCount
    <3> QED
      BY <3>1, <3>2
  <2> QED
    BY <2>1, <2>2, <2>3, <2>4 DEF LimitsHold, QuotasHold, OneUse
<1> QED
  BY <1>1, Invariance, PTL

\* Who was accepted is told so unless the request ended early; who is told that
\* he has applied has, or the job is gone (public.py, _apply).
THEOREM AcceptedAreAnswered == Spec => []AcceptedIsAnswered
<1>1. ASSUME IInv PROVE AcceptedIsAnswered
  <2>1. ASSUME NEW k \in Key, app[k].st = "live", app[k].mail = "none"
        PROVE  k \in cut \/ \E v \in Visitor : req[v].key = k /\ req[v].pc \in {"quiz", "mail"}
    BY <1>1, <2>1, Parts DEF AppsAreWhole, Within
  <2>2. \A k \in Key : app[k].mail = "quiz_invite" <=> app[k].mail # "none" /\ app[k].drawn # {}
    BY <1>1, Parts DEF AppsAreWhole
  <2>3. \A v \in Visitor :
          /\ req[v].res = "conflict" => app[req[v].key].st = "live" \/ job[req[v].key[1]].st = "deleted"
          /\ req[v].res = "created" => app[req[v].key].mail # "none"
    BY <1>1, Parts DEF Carries
  <2> QED
    BY <2>1, <2>2, <2>3 DEF AcceptedIsAnswered, Key
<1> QED
  BY <1>1, Invariance, PTL

\* For any bank, pool and count: a sample has as many questions as asked for or
\* all there are, and each tag one if there is room for all (quiz.py,
\* stratified_sample: "so every requested tag is represented when possible").
THEOREM DrawsAreFair == Spec => []DrawIsFair
<1>1. IInv => DrawIsFair
  BY Parts
<1> QED
  BY <1>1, Invariance, PTL
=============================================================================
