----------------------------- MODULE BoardProofs -----------------------------
(***************************************************************************)
(* Proofs about Pipeline and about what is shown of it: the reports of     *)
(* Reports and the board of Board, for any number of applications and      *)
(* requests.                                                               *)
(***************************************************************************)
EXTENDS Reports, Board, FiniteSetTheorems, WellFoundedInduction, TLAPS

Reason == {"none", "picked", "withdrew"}

LEMMA RequestFacts ==
  ASSUME NEW o \in Request
  PROVE  /\ o.to \in Stage /\ o.apps \subseteq App /\ o.why \in Reason
         /\ o.kind = "withdraw" => o.to = "withdrawn"
<1>1. "withdrawn" \in Stage
  BY DEF Stage, OUTCOMES
<1> QED
  BY <1>1, TargetsAreStages DEF Request, Reason

LEMMA NoOpIsNone == NoOp.apps = {} /\ NoOp.kind = "none"
  BY DEF NoOp

\* A moved row.
LEMMA MovedRow ==
  ASSUME NEW cur \in Row, NEW old \in Row, NEW to \in Stage, NEW why \in Reason,
         now \in Nat, now >= 2, old.decided < now, cur.decided < now
  PROVE  LET new == Moved(cur, old, to, why)
         IN  /\ new \in Row
             /\ new.stage = to /\ new.changed = now /\ new.decided <= now
             /\ to \in TERMINAL_STAGES => new.decided = now
             /\ cur = old =>
                  /\ to \notin TERMINAL_STAGES => new.decided = Never
                  /\ to \notin REASON_STAGES /\ (old.stage \notin REASON_STAGES => old.reason = "none")
                       => new.reason = "none"
<1> DEFINE d == DecidedAt(old, to)
           r == ReasonFor(old, to, why)
           new == Moved(cur, old, to, why)
<1>1. d \in {now, Never} /\ (to \in TERMINAL_STAGES => d = now) /\ (to \notin TERMINAL_STAGES => d = Never)
  BY DEF DecidedAt
<1>2. r \in Reason /\ (to \notin REASON_STAGES /\ (old.stage \notin REASON_STAGES => old.reason = "none")
                         => r = "none")
  BY DEF ReasonFor, Row, Reason
<1>3. new = [stage |-> to, decided |-> Column(old.decided, d, cur.decided),
             changed |-> now, reason |-> Column(old.reason, r, cur.reason)]
  BY DEF Moved
<1>4. /\ Column(old.decided, d, cur.decided) \in Nat
      /\ Column(old.decided, d, cur.decided) <= now
      /\ to \in TERMINAL_STAGES => Column(old.decided, d, cur.decided) = now
      /\ cur = old => Column(old.decided, d, cur.decided) = d
  BY <1>1 DEF Column, Row, Never
<1>5. Column(old.reason, r, cur.reason) \in Reason /\ (cur = old => Column(old.reason, r, cur.reason) = r)
  BY <1>2 DEF Column, Row, Reason
<1> HIDE DEF d, r
<1> QED
  BY <1>1, <1>2, <1>3, <1>4, <1>5 DEF Row, Reason

LEMMA Parts ==
  ASSUME IInv
  PROVE  /\ TypeOK /\ PastIsOver /\ HistoryIsWhole /\ LogIsHistory /\ MovesAreChained
         /\ CopyIsCurrent /\ ClockFollowsStage
  BY DEF IInv

LEMMA Types ==
  ASSUME TypeOK
  PROVE  /\ now \in Nat /\ now >= 2 /\ held \subseteq App /\ crossed \subseteq App
         /\ \A a \in App : row[a] \in Row /\ log[a] \subseteq Entry
         /\ \A p \in Proc :
              /\ pc[p] \in {"idle", "begun", "loaded", "mail"}
              /\ op[p] \in Request \cup {NoOp} /\ start[p] \in Nat
              /\ DOMAIN got[p] \subseteq App
              /\ \A a \in DOMAIN got[p] : got[p][a] \in Row
         /\ DOMAIN got = Proc
  BY DEF TypeOK

LEMMA Visited ==
  ASSUME TypeOK, NEW a \in App
  PROVE  /\ was[a] \in Seq(Visit) /\ Len(was[a]) \in Nat /\ DOMAIN was[a] = 1 .. Len(was[a])
         /\ \A i \in DOMAIN was[a] :
              /\ was[a][i] \in Visit /\ was[a][i].stage \in Stage
              /\ was[a][i].at \in Nat /\ was[a][i].begun \in Nat
<1>1. was[a] \in Seq(Visit)
  BY DEF TypeOK
<1>2. Len(was[a]) \in Nat /\ DOMAIN was[a] = 1 .. Len(was[a]) /\ \A i \in DOMAIN was[a] : was[a][i] \in Visit
  BY <1>1
<1> QED
  BY <1>1, <1>2 DEF Visit

LEMMA InitInv == Init => IInv
<1> SUFFICES ASSUME Init PROVE IInv
  OBVIOUS
<1>1. "new" \in Stage /\ "new" \notin TERMINAL_STAGES
  <2>1. 1 \in DOMAIN FUNNEL_ORDER /\ FUNNEL_ORDER[1] = "new"
    BY DEF FUNNEL_ORDER
  <2> QED
    BY <2>1 DEF Stage, TERMINAL_STAGES, OUTCOMES
<1>2. \A a \in App : /\ row[a] = [stage |-> "new", decided |-> Never, changed |-> 1, reason |-> "none"]
                     /\ row[a] \in Row
                     /\ log[a] = {}
                     /\ was[a] = <<[stage |-> "new", at |-> 1, begun |-> 1]>>
  BY <1>1 DEF Init, Row, Never
<1>3. \A p \in Proc : pc[p] = "idle" /\ op[p] = NoOp /\ start[p] = Never /\ got[p] = <<>>
  BY DEF Init
<1>4. DOMAIN <<>> = {}
  OBVIOUS
<1>5. \A a \in App : Len(was[a]) = 1 /\ DOMAIN was[a] = {1}
                     /\ was[a][1] = [stage |-> "new", at |-> 1, begun |-> 1]
                     /\ was[a] \in Seq(Visit)
  <2> TAKE a \in App
  <2> DEFINE v == [stage |-> "new", at |-> 1, begun |-> 1]
  <2>1. v \in Visit
    BY <1>1 DEF Visit
  <2>2. was[a] = <<v>>
    BY <1>2
  <2> HIDE DEF v
  <2>3. Len(was[a]) = 1 /\ DOMAIN was[a] = {1} /\ was[a][1] = v /\ was[a] \in Seq(Visit)
    BY <2>1, <2>2
  <2> QED
    BY <2>3 DEF v
<1>6. TypeOK
  <2>1. row \in [App -> Row] /\ log \in [App -> SUBSET Entry]
    BY <1>2 DEF Init
  <2>2. was \in [App -> Seq(Visit)]
    BY <1>5 DEF Init
  <2>3. DOMAIN got = Proc /\ \A p \in Proc : DOMAIN got[p] = {}
    BY <1>3, <1>4 DEF Init
  <2> QED
    BY <2>1, <2>2, <2>3 DEF TypeOK, Init, Never
<1>7. PastIsOver
  BY <1>2, <1>3, <1>4, <1>5 DEF PastIsOver, Init, Never
<1>8. HistoryIsWhole
  BY <1>2, <1>5 DEF HistoryIsWhole, LastMove
<1>9. LogIsHistory /\ MovesAreChained
  BY <1>2, <1>5 DEF LogIsHistory, MovesAreChained
<1>10. CopyIsCurrent
  BY <1>3 DEF CopyIsCurrent
<1>11. ClockFollowsStage
  BY <1>1, <1>2, <1>5 DEF ClockFollowsStage, REASON_STAGES, TERMINAL_STAGES, OUTCOMES, Never
<1> QED
  BY <1>6, <1>7, <1>8, <1>9, <1>10, <1>11 DEF IInv
-----------------------------------------------------------------------------
\* A step that leaves the applications alone, and changes at most one request,
\* which is idle or has just loaded the rows as they are.
LEMMA RequestStep ==
  ASSUME IInv, NEW p \in Proc,
         UNCHANGED <<row, log, was, crossed>>, held' \subseteq App, now' \in Nat, now' >= now,
         pc' \in [Proc -> {"idle", "begun", "loaded", "mail"}],
         op' \in [Proc -> Request \cup {NoOp}],
         start' \in [Proc -> Nat], start'[p] < now', DOMAIN got' = Proc,
         \A q \in Proc \ {p} : pc'[q] = pc[q] /\ op'[q] = op[q] /\ start'[q] = start[q] /\ got'[q] = got[q],
         DOMAIN got'[p] \subseteq App,
         \A a \in DOMAIN got'[p] :
            \/ got'[p][a] = row[a]
            \/ pc'[p] # "loaded" /\ a \in DOMAIN got[p] /\ got'[p][a] = got[p][a],
         pc'[p] = "loaded" => op'[p] \in Request /\ \A a \in DOMAIN got'[p] : row[a].stage # op'[p].to
  PROVE  IInv'
<1>a. /\ TypeOK /\ PastIsOver /\ HistoryIsWhole /\ LogIsHistory /\ MovesAreChained
      /\ CopyIsCurrent /\ ClockFollowsStage
  BY Parts
<1>b. /\ now \in Nat /\ now >= 2 /\ held \subseteq App /\ crossed \subseteq App
      /\ \A c \in App : row[c] \in Row /\ log[c] \subseteq Entry
      /\ \A q \in Proc :
           /\ pc[q] \in {"idle", "begun", "loaded", "mail"}
           /\ op[q] \in Request \cup {NoOp} /\ start[q] \in Nat
           /\ DOMAIN got[q] \subseteq App
           /\ \A c \in DOMAIN got[q] : got[q][c] \in Row
      /\ DOMAIN got = Proc
  BY <1>a, Types
<1>1. TypeOK'
  <2>1. \A q \in Proc : DOMAIN got'[q] \subseteq App /\ \A a \in DOMAIN got'[q] : got'[q][a] \in Row
    BY <1>b
  <2> QED
    BY <1>a, <1>b, <2>1 DEF TypeOK
<1>2. PastIsOver'
  <2>1. \A a \in App : /\ row[a].decided < now /\ row[a].changed < now
                       /\ \A i \in DOMAIN was[a] :
                            /\ was[a][i].begun <= was[a][i].at /\ was[a][i].at < now
                            /\ i # 1 => was[a][i].begun < was[a][i].at
    BY <1>a, <1>b DEF PastIsOver
  <2>2. \A a \in App : /\ row[a].decided < now' /\ row[a].changed < now'
                       /\ \A i \in DOMAIN was[a] :
                            /\ was[a][i].begun <= was[a][i].at /\ was[a][i].at < now'
                            /\ i # 1 => was[a][i].begun < was[a][i].at
    <3> TAKE a \in App
    <3>1. row[a].decided \in Nat /\ row[a].changed \in Nat
      BY <1>b DEF Row
    <3>2. \A i \in DOMAIN was[a] : was[a][i].at \in Nat
      BY <1>a, Visited
    <3> QED
      BY <1>b, <2>1, <3>1, <3>2
  <2>3. \A q \in Proc : start[q] < now' /\ \A a \in DOMAIN got[q] : got[q][a].decided < now'
    BY <1>a, <1>b DEF PastIsOver, Row
  <2> QED
    BY <1>a, <1>b, <2>2, <2>3 DEF PastIsOver
<1>3. HistoryIsWhole'
  BY <1>a, <1>b DEF HistoryIsWhole, LastMove
<1>4. LogIsHistory' /\ MovesAreChained'
  BY <1>a, <1>b DEF LogIsHistory, MovesAreChained
<1>5. CopyIsCurrent'
  <2>1. \A a \in App : \E i \in DOMAIN was[a] : row[a].stage = was[a][i].stage
    <3> TAKE a \in App
    <3>1. was[a] # <<>> /\ row[a].stage = was[a][Len(was[a])].stage
      BY <1>a, <1>b DEF HistoryIsWhole, LastMove
    <3>2. Len(was[a]) \in DOMAIN was[a]
      BY <3>1
    <3> QED
      BY <3>1, <3>2
  <2> SUFFICES ASSUME NEW q \in Proc, pc'[q] = "loaded"
               PROVE  /\ op'[q] \in Request
                      /\ \A a \in DOMAIN got'[q] :
                           /\ got'[q][a].stage # op'[q].to
                           /\ \E i \in DOMAIN was[a] : got'[q][a].stage = was[a][i].stage
                           /\ LastMove(a).at <= start'[q] => got'[q][a] = row[a]
    BY <1>a, <1>b DEF CopyIsCurrent, LastMove
  <2>2. CASE q = p
    BY <2>1, <2>2
  <2>3. CASE q # p
    BY <1>a, <1>b, <2>3 DEF CopyIsCurrent
  <2> QED
    BY <2>2, <2>3
<1>6. ClockFollowsStage'
  BY <1>a, <1>b DEF ClockFollowsStage
<1> QED
  BY <1>1, <1>2, <1>3, <1>4, <1>5, <1>6 DEF IInv

LEMMA DoneFacts ==
  ASSUME TypeOK, NEW p \in Proc, Done(p)
  PROVE  /\ pc' \in [Proc -> {"idle", "begun", "loaded", "mail"}]
         /\ op' \in [Proc -> Request \cup {NoOp}]
         /\ start' \in [Proc -> Nat] /\ start'[p] = Never /\ DOMAIN got' = Proc
         /\ \A q \in Proc \ {p} : pc'[q] = pc[q] /\ op'[q] = op[q] /\ start'[q] = start[q] /\ got'[q] = got[q]
         /\ DOMAIN got'[p] = {} /\ pc'[p] = "idle"
<1>1. DOMAIN got' = Proc /\ got'[p] = <<>>
  BY DEF TypeOK, Done
<1>2. DOMAIN <<>> = {}
  OBVIOUS
<1> QED
  BY <1>1, <1>2 DEF TypeOK, Done, Never

-----------------------------------------------------------------------------
LEMMA Appended ==
  ASSUME NEW T, NEW s \in Seq(T), NEW x \in T
  PROVE  LET t == Append(s, x)
         IN  /\ t \in Seq(T) /\ Len(t) = Len(s) + 1 /\ Len(s) \in Nat
             /\ DOMAIN s = 1 .. Len(s) /\ DOMAIN t = 1 .. Len(s) + 1
             /\ \A i \in DOMAIN s : t[i] = s[i]
             /\ t[Len(s) + 1] = x
  OBVIOUS

\* What a commit does to each application.
LEMMA CommitFacts ==
  ASSUME IInv, NEW p \in Proc, Commit(p)
  PROVE  LET D == DOMAIN got[p]
             visit == [stage |-> op[p].to, at |-> now, begun |-> start[p]]
         IN  /\ op[p] \in Request /\ D \subseteq App
             /\ now' = now + 1
             /\ held' \subseteq App
             /\ \A a \in App \ D : row'[a] = row[a] /\ log'[a] = log[a] /\ was'[a] = was[a]
             /\ \A a \in D : /\ row'[a] = Moved(row[a], got[p][a], op[p].to, op[p].why)
                             /\ log'[a] = log[a] \cup {Recorded(p, a)}
                             /\ was'[a] = Append(was[a], visit)
             /\ crossed' = crossed \cup {a \in D : LastMove(a).at > start[p]}
             /\ pc' \in [Proc -> {"idle", "begun", "loaded", "mail"}]
             /\ op' \in [Proc -> Request \cup {NoOp}]
             /\ start' \in [Proc -> Nat] /\ start'[p] < now /\ DOMAIN got' = Proc
             /\ \A q \in Proc \ {p} : pc'[q] = pc[q] /\ op'[q] = op[q] /\ start'[q] = start[q] /\ got'[q] = got[q]
             /\ got'[p] = got[p] \/ DOMAIN got'[p] = {}
             /\ pc'[p] # "loaded"
             /\ DOMAIN row' = App /\ row' = [a \in App |-> row'[a]]
             /\ log' = [a \in App |-> log'[a]]
             /\ was' = [a \in App |-> was'[a]]
<1>a. /\ TypeOK /\ PastIsOver /\ HistoryIsWhole /\ LogIsHistory /\ MovesAreChained
      /\ CopyIsCurrent /\ ClockFollowsStage
  BY Parts
<1>b. /\ now \in Nat /\ now >= 2 /\ held \subseteq App /\ crossed \subseteq App
      /\ \A c \in App : row[c] \in Row /\ log[c] \subseteq Entry
      /\ \A q \in Proc :
           /\ pc[q] \in {"idle", "begun", "loaded", "mail"}
           /\ op[q] \in Request \cup {NoOp} /\ start[q] \in Nat
           /\ DOMAIN got[q] \subseteq App
           /\ \A c \in DOMAIN got[q] : got[q][c] \in Row
      /\ DOMAIN got = Proc
  BY <1>a, Types
<1>1. op[p] \in Request
  BY <1>a, <1>b DEF CopyIsCurrent, Commit
<1>2. /\ \A a \in App \ DOMAIN got[p] : row'[a] = row[a] /\ log'[a] = log[a] /\ was'[a] = was[a]
      /\ \A a \in DOMAIN got[p] :
           /\ row'[a] = Moved(row[a], got[p][a], op[p].to, op[p].why)
           /\ log'[a] = log[a] \cup {Recorded(p, a)}
           /\ was'[a] = Append(was[a], [stage |-> op[p].to, at |-> now, begun |-> start[p]])
      /\ DOMAIN row' = App /\ row' = [a \in App |-> row'[a]]
      /\ log' = [a \in App |-> log'[a]]
      /\ was' = [a \in App |-> was'[a]]
  BY <1>b DEF Commit, History
<1>3. held' \subseteq App
  BY <1>b DEF Commit
<1>4. start[p] < now
  BY <1>a, <1>b DEF PastIsOver
<1>0. now' = now + 1 /\ crossed' = crossed \cup {a \in DOMAIN got[p] : LastMove(a).at > start[p]}
  BY DEF Commit, LastMove
<1>5. CASE op[p].kind = "withdraw"
  <2>1. Done(p)
    BY <1>5 DEF Commit
  <2>2. /\ pc' \in [Proc -> {"idle", "begun", "loaded", "mail"}]
        /\ op' \in [Proc -> Request \cup {NoOp}]
        /\ start' \in [Proc -> Nat] /\ start'[p] = Never /\ DOMAIN got' = Proc
        /\ \A q \in Proc \ {p} : pc'[q] = pc[q] /\ op'[q] = op[q] /\ start'[q] = start[q] /\ got'[q] = got[q]
        /\ DOMAIN got'[p] = {} /\ pc'[p] = "idle"
    BY <1>a, <2>1, DoneFacts
  <2>3. start'[p] < now
    BY <1>b, <2>2 DEF Never
  <2> QED
    <3>1. DOMAIN got[p] \subseteq App /\ pc'[p] # "loaded"
      BY <1>b, <2>2
    <3> QED
      BY <1>0, <1>1, <1>2, <1>3, <2>2, <2>3, <3>1
<1>6. CASE op[p].kind # "withdraw"
  <2>1. pc' = [pc EXCEPT ![p] = "mail"] /\ UNCHANGED <<op, start, got>>
    BY <1>6 DEF Commit
  <2>2. pc' \in [Proc -> {"idle", "begun", "loaded", "mail"}] /\ op' \in [Proc -> Request \cup {NoOp}]
        /\ start' \in [Proc -> Nat] /\ DOMAIN got' = Proc
    BY <1>a, <1>b, <2>1 DEF TypeOK
  <2>3. /\ pc'[p] = "mail"
        /\ \A q \in Proc \ {p} : pc'[q] = pc[q] /\ op'[q] = op[q] /\ start'[q] = start[q] /\ got'[q] = got[q]
        /\ got'[p] = got[p] /\ start'[p] = start[p]
    BY <1>a, <1>b, <2>1 DEF TypeOK
  <2> QED
    BY <1>b, <1>1, <1>2, <1>3, <1>4, <2>2, <2>3 DEF Commit, LastMove
<1> QED
  BY <1>5, <1>6

LEMMA CommitInv ==
  ASSUME IInv, NEW p \in Proc, Commit(p)
  PROVE  IInv'
<1> DEFINE D == DOMAIN got[p]
           to == op[p].to
           last == [stage |-> to, at |-> now, begun |-> start[p]]
<1>a. /\ TypeOK /\ PastIsOver /\ HistoryIsWhole /\ LogIsHistory /\ MovesAreChained
      /\ CopyIsCurrent /\ ClockFollowsStage
  BY Parts
<1>b. /\ now \in Nat /\ now >= 2 /\ held \subseteq App /\ crossed \subseteq App
      /\ \A c \in App : row[c] \in Row /\ log[c] \subseteq Entry
      /\ \A q \in Proc :
           /\ pc[q] \in {"idle", "begun", "loaded", "mail"}
           /\ op[q] \in Request \cup {NoOp} /\ start[q] \in Nat
           /\ DOMAIN got[q] \subseteq App
           /\ \A c \in DOMAIN got[q] : got[q][c] \in Row
      /\ DOMAIN got = Proc
  BY <1>a, Types
<1>1. /\ op[p] \in Request /\ D \subseteq App
      /\ now' = now + 1 /\ held' \subseteq App
      /\ \A a \in App \ D : row'[a] = row[a] /\ log'[a] = log[a] /\ was'[a] = was[a]
      /\ \A a \in D : /\ row'[a] = Moved(row[a], got[p][a], to, op[p].why)
                      /\ log'[a] = log[a] \cup {Recorded(p, a)}
                      /\ was'[a] = Append(was[a], last)
      /\ crossed' = crossed \cup {a \in D : LastMove(a).at > start[p]}
  BY CommitFacts
<1>2. /\ pc' \in [Proc -> {"idle", "begun", "loaded", "mail"}]
      /\ op' \in [Proc -> Request \cup {NoOp}]
      /\ start' \in [Proc -> Nat] /\ start'[p] < now /\ DOMAIN got' = Proc
      /\ \A q \in Proc \ {p} : pc'[q] = pc[q] /\ op'[q] = op[q] /\ start'[q] = start[q] /\ got'[q] = got[q]
      /\ got'[p] = got[p] \/ DOMAIN got'[p] = {}
      /\ pc'[p] # "loaded"
  BY CommitFacts
<1>3. /\ row' = [a \in App |-> row'[a]]
      /\ log' = [a \in App |-> log'[a]]
      /\ was' = [a \in App |-> was'[a]]
  BY CommitFacts
<1>4. pc[p] = "loaded" /\ start[p] < now /\ start[p] \in Nat /\ now \in Nat /\ now >= 2
      /\ to \in Stage /\ op[p].why \in Reason
  BY <1>a, <1>b, <1>1, RequestFacts DEF Commit, PastIsOver
<1>0. now' = now + 1 /\ now \in Nat
  BY <1>1, <1>4
<1>5. last \in Visit
  BY <1>4 DEF Visit
<1>6. \A a \in D : LET new == row'[a]
                   IN /\ new \in Row
                      /\ new.stage = to /\ new.changed = now /\ new.decided <= now
                      /\ to \in TERMINAL_STAGES => new.decided = now
                      /\ row[a] = got[p][a] =>
                           /\ to \notin TERMINAL_STAGES => new.decided = Never
                           /\ to \notin REASON_STAGES
                                /\ (row[a].stage \notin REASON_STAGES => row[a].reason = "none")
                                => new.reason = "none"
  <2> TAKE a \in D
  <2>1. row[a] \in Row /\ got[p][a] \in Row /\ row[a].decided < now /\ got[p][a].decided < now
    BY <1>a, <1>b, <1>1 DEF PastIsOver
  <2>2. row'[a] = Moved(row[a], got[p][a], to, op[p].why)
    BY <1>1
  <2> HIDE DEF to
  <2> QED
    BY <1>4, <2>1, <2>2, MovedRow
<1>7. \A a \in App : /\ was'[a] \in Seq(Visit) /\ Len(was[a]) \in Nat
                     /\ DOMAIN was[a] = 1 .. Len(was[a]) /\ DOMAIN was'[a] = 1 .. Len(was'[a])
                     /\ \A i \in DOMAIN was[a] : i \in DOMAIN was'[a] /\ was'[a][i] = was[a][i]
                     /\ Len(was[a]) >= 1
                     /\ a \in D => /\ Len(was'[a]) = Len(was[a]) + 1
                                   /\ was'[a][Len(was[a]) + 1] = last
                     /\ a \notin D => was'[a] = was[a]
  <2> TAKE a \in App
  <2>1. was[a] \in Seq(Visit) /\ was[a] # <<>>
    BY <1>a, Visited DEF HistoryIsWhole
  <2>2. CASE a \notin D
    BY <1>1, <2>1, <2>2
  <2>3. CASE a \in D
    <3>1. was'[a] = Append(was[a], last)
      BY <1>1, <2>3
    <3> HIDE DEF last, Visit
    <3> QED
      BY <1>5, <2>1, <2>3, <3>1, Appended
  <2> QED
    BY <2>2, <2>3
<1> HIDE DEF D, to
<1>8. TypeOK'
  <2>1. \A a \in App : row'[a] \in Row
    BY <1>b, <1>1, <1>6
  <2>2. row' \in [App -> Row]
    BY <1>3, <2>1
  <2>3. \A a \in D : Recorded(p, a) \in Entry
    <3> TAKE a \in D
    <3>1. got[p][a] \in Row
      BY <1>b DEF D
    <3> QED
      BY <1>4, <3>1 DEF Recorded, Entry, Row, to
  <2>4. \A a \in App : log'[a] \subseteq Entry
    BY <1>b, <1>1, <2>3
  <2>5. log' \in [App -> SUBSET Entry]
    BY <1>3, <2>4
  <2>6. was' \in [App -> Seq(Visit)]
    BY <1>3, <1>7
  <2>7. \A q \in Proc : DOMAIN got'[q] \subseteq App /\ \A a \in DOMAIN got'[q] : got'[q][a] \in Row
    <3> TAKE q \in Proc
    <3>1. got'[q] = got[q] \/ DOMAIN got'[q] = {}
      BY <1>2
    <3> QED
      BY <1>b, <3>1
  <2>8. crossed' \subseteq App
    BY <1>b, <1>1
  <2>9. now' \in Nat /\ now' >= 2
    BY <1>1, <1>4
  <2> QED
    BY <1>a, <1>b, <1>1, <1>2, <2>2, <2>5, <2>6, <2>7, <2>8, <2>9 DEF TypeOK
<1>9. PastIsOver'
  <2>1. \A a \in App : row'[a].decided < now' /\ row'[a].changed < now'
    <3> TAKE a \in App
    <3>1. CASE a \in D
      <4>1. row'[a].decided \in Nat /\ row'[a].decided <= now /\ row'[a].changed = now
        BY <1>6, <3>1 DEF Row
      <4> QED
        BY <1>1, <1>4, <4>1
    <3>2. CASE a \notin D
      <4>1. row'[a] = row[a] /\ row[a] \in Row /\ row[a].decided < now /\ row[a].changed < now
        BY <1>a, <1>b, <1>1, <3>2 DEF PastIsOver
      <4> QED
        BY <1>1, <1>4, <4>1 DEF Row
    <3> QED
      BY <3>1, <3>2
  <2>2. \A a \in App : \A i \in DOMAIN was'[a] :
           /\ was'[a][i].begun <= was'[a][i].at /\ was'[a][i].at < now'
           /\ i # 1 => was'[a][i].begun < was'[a][i].at
    <3> TAKE a \in App
    <3> TAKE i \in DOMAIN was'[a]
    <3>1. CASE i \in DOMAIN was[a]
      <4>1. was'[a][i] = was[a][i] /\ was[a][i].at \in Nat /\ was[a][i].begun \in Nat
        BY <1>a, <1>7, <3>1, Visited
      <4>2. /\ was[a][i].begun <= was[a][i].at /\ was[a][i].at < now
            /\ i # 1 => was[a][i].begun < was[a][i].at
        BY <1>a, <3>1 DEF PastIsOver
      <4> QED
        BY <1>0, <4>1, <4>2
    <3>2. CASE i \notin DOMAIN was[a]
      <4>1. was'[a][i] = last
        BY <1>7, <3>2
      <4> QED
        BY <1>1, <1>4, <4>1
    <3> QED
      BY <3>1, <3>2
  <2>3. \A q \in Proc : start'[q] < now' /\ \A a \in DOMAIN got'[q] : got'[q][a].decided < now'
    <3> TAKE q \in Proc
    <3>1. start'[q] \in Nat /\ start'[q] < now
      BY <1>a, <1>b, <1>2 DEF PastIsOver
    <3>2. \A a \in DOMAIN got'[q] : got'[q][a].decided \in Nat /\ got'[q][a].decided < now
      <4>1. got'[q] = got[q] \/ DOMAIN got'[q] = {}
        BY <1>2
      <4> QED
        BY <1>a, <1>b, <4>1 DEF PastIsOver, Row
    <3> QED
      BY <1>1, <1>4, <3>1, <3>2
  <2> QED
    BY <1>a, <1>b, <2>1, <2>2, <2>3 DEF PastIsOver
<1>10. HistoryIsWhole'
  <2> SUFFICES ASSUME NEW a \in App
               PROVE  /\ was'[a] # <<>>
                      /\ was'[a][1] = [stage |-> "new", at |-> 1, begun |-> 1]
                      /\ row'[a].stage = was'[a][Len(was'[a])].stage
    BY <1>a, <1>b DEF HistoryIsWhole, LastMove
  <2>1. was[a] # <<>> /\ was[a][1] = [stage |-> "new", at |-> 1, begun |-> 1]
        /\ row[a].stage = was[a][Len(was[a])].stage
    BY <1>a, <1>b DEF HistoryIsWhole, LastMove
  <2>2. 1 \in DOMAIN was[a]
    BY <1>7
  <2>3. was'[a][1] = was[a][1] /\ was'[a] # <<>>
    BY <1>7, <2>2
  <2>4. CASE a \in D
    <3>1. row'[a].stage = to
      BY <1>6, <2>4
    <3> QED
      BY <1>7, <2>1, <2>3, <2>4, <3>1
  <2>5. CASE a \notin D
    BY <1>1, <2>1, <2>5
  <2> QED
    BY <2>4, <2>5
<1>11. \A a \in D : /\ got[p][a].stage # to
                    /\ \E i \in DOMAIN was[a] : got[p][a].stage = was[a][i].stage
                    /\ LastMove(a).at <= start[p] => got[p][a] = row[a]
                    /\ Recorded(p, a) = [at |-> start[p], from |-> got[p][a].stage, to |-> to]
  BY <1>a, <1>b, <1>4 DEF CopyIsCurrent, D, to, Recorded
<1>12. LogIsHistory'
  <2> SUFFICES ASSUME NEW a \in App
               PROVE  /\ \A i \in DOMAIN was'[a] \ {1} :
                           \E e \in log'[a] : e.at = was'[a][i].begun /\ e.to = was'[a][i].stage
                      /\ \A e \in log'[a] :
                           /\ e.from # e.to
                           /\ \E i \in DOMAIN was'[a] : e.from = was'[a][i].stage
                           /\ \E i \in DOMAIN was'[a] : e.at = was'[a][i].begun /\ e.to = was'[a][i].stage
    BY <1>a, <1>b DEF LogIsHistory
  <2>1. /\ \A i \in DOMAIN was[a] \ {1} :
             \E e \in log[a] : e.at = was[a][i].begun /\ e.to = was[a][i].stage
        /\ \A e \in log[a] :
             /\ e.from # e.to
             /\ \E i \in DOMAIN was[a] : e.from = was[a][i].stage
             /\ \E i \in DOMAIN was[a] : e.at = was[a][i].begun /\ e.to = was[a][i].stage
    BY <1>a, <1>b DEF LogIsHistory
  <2>2. CASE a \notin D
    BY <1>1, <2>1, <2>2
  <2>3. CASE a \in D
    <3> DEFINE r == Recorded(p, a)
    <3>1. log'[a] = log[a] \cup {r}
      BY <1>1, <2>3
    <3>2. r.at = start[p] /\ r.from = got[p][a].stage /\ r.to = to
      BY <1>11, <2>3
    <3>3. /\ Len(was[a]) + 1 \in DOMAIN was'[a] /\ was'[a][Len(was[a]) + 1].begun = start[p]
          /\ was'[a][Len(was[a]) + 1].stage = to
          /\ DOMAIN was'[a] = DOMAIN was[a] \cup {Len(was[a]) + 1}
      BY <1>7, <2>3
    <3> HIDE DEF r, last
    <3>4. ASSUME NEW i \in DOMAIN was'[a] \ {1}
          PROVE  \E e \in log'[a] : e.at = was'[a][i].begun /\ e.to = was'[a][i].stage
      <4>1. CASE i \in DOMAIN was[a]
        BY <1>7, <2>1, <3>1, <4>1
      <4>2. CASE i = Len(was[a]) + 1
        BY <3>1, <3>2, <3>3, <4>2
      <4> QED
        BY <3>3, <4>1, <4>2
    <3>5. ASSUME NEW e \in log'[a]
          PROVE  /\ e.from # e.to
                 /\ \E i \in DOMAIN was'[a] : e.from = was'[a][i].stage
                 /\ \E i \in DOMAIN was'[a] : e.at = was'[a][i].begun /\ e.to = was'[a][i].stage
      <4>1. CASE e \in log[a]
        <5>1. PICK i \in DOMAIN was[a] : e.from = was[a][i].stage
          BY <2>1, <4>1
        <5>2. PICK j \in DOMAIN was[a] : e.at = was[a][j].begun /\ e.to = was[a][j].stage
          BY <2>1, <4>1
        <5>3. /\ i \in DOMAIN was'[a] /\ was'[a][i] = was[a][i]
              /\ j \in DOMAIN was'[a] /\ was'[a][j] = was[a][j]
          BY <1>7
        <5> QED
          BY <2>1, <4>1, <5>1, <5>2, <5>3
      <4>2. CASE e = r
        <5>1. PICK i \in DOMAIN was[a] : got[p][a].stage = was[a][i].stage
          BY <1>11, <2>3
        <5>2. i \in DOMAIN was'[a] /\ e.from = was'[a][i].stage
          BY <1>7, <3>2, <4>2, <5>1
        <5>3. e.from # e.to
          BY <1>11, <2>3, <3>2, <4>2
        <5>4. e.at = was'[a][Len(was[a]) + 1].begun /\ e.to = was'[a][Len(was[a]) + 1].stage
          BY <3>2, <3>3, <4>2
        <5> QED
          BY <3>3, <5>2, <5>3, <5>4
      <4> QED
        BY <3>1, <4>1, <4>2
    <3> QED
      BY <3>4, <3>5
  <2> QED
    BY <2>2, <2>3
<1>13. \A a \in App \ crossed' : a \notin crossed /\ (a \in D => LastMove(a).at <= start[p])
  <2> TAKE a \in App \ crossed'
  <2>1. LastMove(a).at \in Nat
    <3>1. Len(was[a]) \in DOMAIN was[a]
      BY <1>7
    <3> QED
      BY <1>a, <3>1, Visited DEF LastMove
  <2> QED
    BY <1>1, <1>4, <2>1
<1>14. MovesAreChained'
  <2> SUFFICES ASSUME NEW a \in App \ crossed'
               PROVE  /\ \A i, j \in DOMAIN was'[a] : i < j => was'[a][i].at <= was'[a][j].begun
                      /\ \A e \in log'[a] : \E i \in DOMAIN was'[a] \ {1} :
                           e = [at |-> was'[a][i].begun, from |-> was'[a][i - 1].stage, to |-> was'[a][i].stage]
    BY <1>a, <1>b DEF MovesAreChained
  <2>1. /\ \A i, j \in DOMAIN was[a] : i < j => was[a][i].at <= was[a][j].begun
        /\ \A e \in log[a] : \E i \in DOMAIN was[a] \ {1} :
             e = [at |-> was[a][i].begun, from |-> was[a][i - 1].stage, to |-> was[a][i].stage]
    BY <1>a, <1>b, <1>13 DEF MovesAreChained
  <2>2. CASE a \notin D
    BY <1>1, <2>1, <2>2
  <2>3. CASE a \in D
    <3> DEFINE n == Len(was[a])
    <3>1. /\ n \in Nat /\ n >= 1 /\ DOMAIN was[a] = 1 .. n /\ DOMAIN was'[a] = 1 .. n + 1
          /\ \A i \in 1 .. n : was'[a][i] = was[a][i] /\ was[a][i].at \in Nat /\ was[a][i].begun \in Nat
          /\ was'[a][n + 1] = last
      BY <1>a, <1>7, <2>3, Visited
    <3>2. LastMove(a) = was[a][n] /\ was[a][n].at <= start[p] /\ got[p][a] = row[a]
      BY <1>11, <1>13, <2>3 DEF LastMove
    <3>3. row[a].stage = was[a][n].stage
      BY <1>a, <1>b DEF HistoryIsWhole, LastMove
    <3>4. last.begun = start[p] /\ last.stage = to
      BY <1>b
    <3> HIDE DEF last, n
    <3>5. ASSUME NEW i \in 1 .. n PROVE was[a][i].at <= start[p]
      <4>1. was[a][i].at \in Nat /\ was[a][n].at \in Nat /\ was[a][n].begun \in Nat
        BY <1>b, <3>1
      <4>2. CASE i = n
        BY <3>2, <4>2
      <4>3. CASE i < n
        <5>1. i \in DOMAIN was[a] /\ n \in DOMAIN was[a]
          BY <3>1
        <5>0. was[a][i].at <= was[a][n].begun
          BY <2>1, <4>3, <5>1
        <5>2. was[a][n].begun <= was[a][n].at
          BY <1>a, <1>b, <3>1 DEF PastIsOver
        <5> QED
          BY <1>4, <3>2, <4>1, <5>0, <5>2
      <4> QED
        BY <3>1, <4>2, <4>3
    <3>6. ASSUME NEW i \in 1 .. n + 1, NEW j \in 1 .. n + 1, i < j
          PROVE  was'[a][i].at <= was'[a][j].begun
      <4>1. i \in 1 .. n /\ (j \in 1 .. n \/ j = n + 1)
        BY <3>1, <3>6
      <4>2. CASE j \in 1 .. n
        BY <2>1, <3>1, <3>6, <4>1, <4>2
      <4>3. CASE j = n + 1
        BY <3>1, <3>4, <3>5, <4>1, <4>3
      <4> QED
        BY <4>1, <4>2, <4>3
    <3>7. ASSUME NEW e \in log'[a]
          PROVE  \E i \in 2 .. n + 1 :
                   e = [at |-> was'[a][i].begun, from |-> was'[a][i - 1].stage, to |-> was'[a][i].stage]
      <4>1. CASE e \in log[a]
        <5>1. PICK i \in 2 .. n :
                e = [at |-> was[a][i].begun, from |-> was[a][i - 1].stage, to |-> was[a][i].stage]
          <6>1. PICK i \in DOMAIN was[a] \ {1} :
                  e = [at |-> was[a][i].begun, from |-> was[a][i - 1].stage, to |-> was[a][i].stage]
            BY <2>1, <4>1
          <6>2. i \in 2 .. n
            BY <3>1
          <6> QED
            BY <6>1, <6>2
        <5>2. i \in 1 .. n /\ i - 1 \in 1 .. n /\ i \in 2 .. n + 1
          BY <3>1, <5>1
        <5>3. was'[a][i] = was[a][i] /\ was'[a][i - 1] = was[a][i - 1]
          BY <3>1, <5>2
        <5> QED
          BY <5>1, <5>2, <5>3
      <4>2. CASE e = Recorded(p, a)
        <5> DEFINE k == n + 1
        <5>1. e = [at |-> was'[a][k].begun, from |-> was'[a][k - 1].stage, to |-> was'[a][k].stage]
          <6>1. k - 1 = n /\ n \in 1 .. n
            BY <3>1
          <6>2. e = [at |-> start[p], from |-> got[p][a].stage, to |-> to]
            BY <1>11, <2>3, <4>2
          <6> QED
            BY <3>1, <3>2, <3>3, <3>4, <6>1, <6>2
        <5>2. k \in 2 .. n + 1
          BY <3>1
        <5> HIDE DEF k
        <5> QED
          BY <5>1, <5>2
      <4> QED
        BY <1>1, <2>3, <4>1, <4>2
    <3>8. DOMAIN was'[a] \ {1} = 2 .. n + 1
      BY <3>1
    <3> QED
      BY <3>1, <3>6, <3>7, <3>8
  <2> QED
    BY <2>2, <2>3
<1>15. CopyIsCurrent'
  <2> SUFFICES ASSUME NEW q \in Proc, pc'[q] = "loaded", NEW a \in DOMAIN got'[q]
               PROVE  /\ op'[q] \in Request
                      /\ got'[q][a].stage # op'[q].to
                      /\ \E i \in DOMAIN was'[a] : got'[q][a].stage = was'[a][i].stage
                      /\ was'[a][Len(was'[a])].at <= start'[q] => got'[q][a] = row'[a]
    <3>1. \A q \in Proc : pc'[q] = "loaded" => op'[q] \in Request
      BY <1>a, <1>b, <1>2 DEF CopyIsCurrent
    <3> QED
      BY <1>a, <1>b, <3>1 DEF CopyIsCurrent, LastMove
  <2>1. q # p /\ pc[q] = "loaded" /\ op'[q] = op[q] /\ start'[q] = start[q] /\ got'[q] = got[q]
    BY <1>2
  <2>2. /\ op[q] \in Request /\ a \in App
        /\ got[q][a].stage # op[q].to
        /\ \E i \in DOMAIN was[a] : got[q][a].stage = was[a][i].stage
        /\ was[a][Len(was[a])].at <= start[q] => got[q][a] = row[a]
    BY <1>a, <1>b, <2>1 DEF CopyIsCurrent, LastMove
  <2>3. \E i \in DOMAIN was'[a] : got[q][a].stage = was'[a][i].stage
    BY <1>7, <2>2
  <2>4. was'[a][Len(was'[a])].at <= start[q] => got[q][a] = row'[a]
    <3>1. CASE a \in D
      <4>1. was'[a][Len(was'[a])] = last
        BY <1>7, <2>2, <3>1
      <4>2. start[q] < now /\ start[q] \in Nat
        BY <1>a, <1>b DEF PastIsOver
      <4> QED
        BY <1>4, <4>1, <4>2
    <3>2. CASE a \notin D
      BY <1>1, <2>2, <3>2
    <3> QED
      BY <3>1, <3>2
  <2> QED
    BY <2>1, <2>2, <2>3, <2>4
<1>16. ClockFollowsStage'
  <2> SUFFICES ASSUME NEW a \in App
               PROVE  /\ row'[a].stage \in TERMINAL_STAGES => row'[a].decided # Never
                      /\ a \notin crossed' =>
                           /\ row'[a].stage \notin TERMINAL_STAGES => row'[a].decided = Never
                           /\ row'[a].stage \notin REASON_STAGES => row'[a].reason = "none"
                           /\ row'[a].changed = was'[a][Len(was'[a])].at
    BY <1>a, <1>b DEF ClockFollowsStage
  <2>1. /\ row[a].stage \in TERMINAL_STAGES => row[a].decided # Never
        /\ a \notin crossed =>
             /\ row[a].stage \notin TERMINAL_STAGES => row[a].decided = Never
             /\ row[a].stage \notin REASON_STAGES => row[a].reason = "none"
             /\ row[a].changed = was[a][Len(was[a])].at
    BY <1>a, <1>b DEF ClockFollowsStage
  <2>2. CASE a \notin D
    BY <1>1, <1>13, <2>1, <2>2
  <2>3. CASE a \in D
    <3>1. row'[a].stage = to /\ row'[a].changed = now /\ (to \in TERMINAL_STAGES => row'[a].decided = now)
      BY <1>6, <2>3
    <3>2. was'[a][Len(was'[a])] = last
      BY <1>7, <2>3
    <3>3. a \notin crossed' =>
            /\ to \notin TERMINAL_STAGES => row'[a].decided = Never
            /\ to \notin REASON_STAGES => row'[a].reason = "none"
      BY <1>6, <1>11, <1>13, <2>1, <2>3
    <3> QED
      BY <1>4, <3>1, <3>2, <3>3 DEF Never
  <2> QED
    BY <2>2, <2>3
<1> QED
  BY <1>8, <1>9, <1>10, <1>12, <1>14, <1>15, <1>16 DEF IInv
-----------------------------------------------------------------------------
LEMMA NextInv ==
  ASSUME IInv, Next
  PROVE  IInv'
<1>a. /\ TypeOK /\ PastIsOver /\ HistoryIsWhole /\ LogIsHistory /\ MovesAreChained
      /\ CopyIsCurrent /\ ClockFollowsStage
  BY Parts
<1>b. /\ now \in Nat /\ now >= 2 /\ held \subseteq App /\ crossed \subseteq App
      /\ \A c \in App : row[c] \in Row /\ log[c] \subseteq Entry
      /\ \A q \in Proc :
           /\ pc[q] \in {"idle", "begun", "loaded", "mail"}
           /\ op[q] \in Request \cup {NoOp} /\ start[q] \in Nat
           /\ DOMAIN got[q] \subseteq App
           /\ \A c \in DOMAIN got[q] : got[q][c] \in Row
      /\ DOMAIN got = Proc
  BY <1>a, Types
<1>1. ASSUME NEW p \in Proc, NEW o \in Request, Begin(p, o) PROVE IInv'
  <2>1. /\ pc' \in [Proc -> {"idle", "begun", "loaded", "mail"}] /\ pc'[p] = "begun"
        /\ op' \in [Proc -> Request \cup {NoOp}]
        /\ start' \in [Proc -> Nat] /\ start'[p] = now /\ now' = now + 1
        /\ \A q \in Proc \ {p} : pc'[q] = pc[q] /\ op'[q] = op[q] /\ start'[q] = start[q] /\ got'[q] = got[q]
        /\ held' = held /\ DOMAIN got' = Proc
        /\ UNCHANGED <<row, log, was, crossed>>
    BY <1>a, <1>b, <1>1 DEF Begin, TypeOK
  <2>2. got'[p] = got[p]
    BY <1>1 DEF Begin
  <2>3. start'[p] < now'
    BY <2>1
  <2> QED
    BY <1>b, <2>1, <2>2, <2>3, RequestStep
<1>2. ASSUME NEW p \in Proc, LoadNothing(p) \/ Rollback(p) PROVE IInv'
  <2>1. Done(p) /\ UNCHANGED <<now, row, log, held, was, crossed>>
    BY <1>2 DEF LoadNothing, Rollback
  <2>2. /\ pc' \in [Proc -> {"idle", "begun", "loaded", "mail"}]
        /\ op' \in [Proc -> Request \cup {NoOp}]
        /\ start' \in [Proc -> Nat] /\ start'[p] = Never /\ DOMAIN got' = Proc
        /\ \A q \in Proc \ {p} : pc'[q] = pc[q] /\ op'[q] = op[q] /\ start'[q] = start[q] /\ got'[q] = got[q]
        /\ DOMAIN got'[p] = {} /\ pc'[p] = "idle"
    BY <1>a, <2>1, DoneFacts
  <2>3. start'[p] < now' /\ now' \in Nat /\ now' >= now
    BY <1>b, <2>1, <2>2 DEF Never
  <2>4. held' \subseteq App
    BY <1>b, <2>1
  <2> QED
    BY <2>1, <2>2, <2>3, <2>4, RequestStep
<1>3. ASSUME NEW p \in Proc, Load(p) PROVE IInv'
  <2>1. /\ pc' \in [Proc -> {"idle", "begun", "loaded", "mail"}]
        /\ \A q \in Proc \ {p} : pc'[q] = pc[q] /\ op'[q] = op[q] /\ start'[q] = start[q] /\ got'[q] = got[q]
        /\ held' = held /\ DOMAIN got' = Proc /\ op' = op /\ start' = start
        /\ UNCHANGED <<now, row, log, was, crossed>>
        /\ got'[p] = [a \in Movable(op[p]) |-> row[a]]
        /\ op \in [Proc -> Request \cup {NoOp}] /\ start \in [Proc -> Nat]
    BY <1>a, <1>b, <1>3 DEF Load, TypeOK
  <2>2. op[p] \in Request
    BY <1>a, <1>b, <1>3, NoOpIsNone DEF Load, Movable
  <2>3. \A a \in Movable(op[p]) : a \in App /\ row[a].stage # op[p].to
    BY <2>2, RequestFacts DEF Movable
  <2>4. DOMAIN got'[p] \subseteq App /\ \A a \in DOMAIN got'[p] : got'[p][a] = row[a] /\ row[a].stage # op[p].to
    BY <2>1, <2>3
  <2>5. start[p] < now
    BY <1>a, <1>b DEF PastIsOver
  <2> QED
    BY <1>b, <2>1, <2>2, <2>4, <2>5, RequestStep
<1>4. ASSUME NEW p \in Proc, MailAgain(p) PROVE IInv'
  <2>1. /\ pc' \in [Proc -> {"idle", "begun", "loaded", "mail"}] /\ pc'[p] = "mail"
        /\ \A q \in Proc \ {p} : pc'[q] = pc[q] /\ op'[q] = op[q] /\ start'[q] = start[q] /\ got'[q] = got[q]
        /\ held' = held /\ DOMAIN got' = Proc /\ op' = op /\ start' = start
        /\ UNCHANGED <<now, row, log, was, crossed>>
        /\ got'[p] = [a \in op[p].apps |-> row[a]]
        /\ op \in [Proc -> Request \cup {NoOp}] /\ start \in [Proc -> Nat]
    BY <1>a, <1>b, <1>4 DEF MailAgain, TypeOK
  <2>2. op[p] \in Request
    BY <1>a, <1>b, <1>4, NoOpIsNone DEF MailAgain
  <2>3. op[p].apps \subseteq App
    BY <2>2, RequestFacts
  <2>4. start[p] < now
    BY <1>a, <1>b DEF PastIsOver
  <2> QED
    BY <1>b, <2>1, <2>3, <2>4, RequestStep
<1>5. ASSUME NEW p \in Proc, Mail(p) PROVE IInv'
  <2>1. Done(p) /\ UNCHANGED <<now, row, log, was, crossed>> /\ held' \subseteq App
    BY <1>a, <1>b, <1>5 DEF Mail
  <2>2. /\ pc' \in [Proc -> {"idle", "begun", "loaded", "mail"}]
        /\ op' \in [Proc -> Request \cup {NoOp}]
        /\ start' \in [Proc -> Nat] /\ start'[p] = Never /\ DOMAIN got' = Proc
        /\ \A q \in Proc \ {p} : pc'[q] = pc[q] /\ op'[q] = op[q] /\ start'[q] = start[q] /\ got'[q] = got[q]
        /\ DOMAIN got'[p] = {} /\ pc'[p] = "idle"
    BY <1>a, <2>1, DoneFacts
  <2>3. start'[p] < now' /\ now' \in Nat /\ now' >= now
    BY <1>b, <2>1, <2>2 DEF Never
  <2>4. held' \subseteq App
    BY <1>b, <2>1
  <2> QED
    BY <2>1, <2>2, <2>3, <2>4, RequestStep
<1>6. ASSUME NEW a \in App, Release(a) PROVE IInv'
  <2>1. UNCHANGED <<now, row, log, pc, op, start, got, was, crossed>> /\ held' \subseteq App
    BY <1>a, <1>b, <1>6 DEF Release, reqVars
  <2>2. TypeOK'
    BY <1>a, <1>b, <2>1 DEF TypeOK
  <2> QED
    BY <1>a, <1>b, <2>1, <2>2 DEF IInv, PastIsOver, HistoryIsWhole, LastMove, LogIsHistory, MovesAreChained,
                      CopyIsCurrent, ClockFollowsStage
<1> QED
  BY <1>1, <1>2, <1>3, <1>4, <1>5, <1>6, CommitInv DEF Next

LEMMA StutterInv == IInv /\ UNCHANGED vars => IInv'
<1> SUFFICES ASSUME IInv, UNCHANGED vars PROVE IInv'
  OBVIOUS
<1>1. UNCHANGED <<now, row, log, held, pc, op, start, got, was, crossed>>
  BY DEF vars, reqVars
<1> QED
  BY <1>1 DEF IInv, TypeOK, PastIsOver, HistoryIsWhole, LastMove, LogIsHistory, MovesAreChained,
              CopyIsCurrent, ClockFollowsStage

LEMMA TimePasses ==
  ASSUME IInv, now' = now + 1, UNCHANGED <<row, log, held, pc, op, start, got, was, crossed>>
  PROVE  IInv'
<1>a. TypeOK /\ PastIsOver /\ now \in Nat
  BY Parts, Types
<1>1. TypeOK'
  BY <1>a DEF TypeOK
<1>2. PastIsOver'
  <2>1. \A c \in App : /\ row[c].decided \in Nat /\ row[c].changed \in Nat
                       /\ \A i \in DOMAIN was[c] : was[c][i].at \in Nat
    BY <1>a, Types, Visited DEF Row
  <2>2. \A q \in Proc : start[q] \in Nat /\ \A c \in DOMAIN got[q] : got[q][c].decided \in Nat
    BY <1>a, Types DEF Row
  <2> QED
    BY <1>a, <2>1, <2>2 DEF PastIsOver
<1> QED
  BY <1>1, <1>2 DEF IInv, HistoryIsWhole, LastMove, LogIsHistory, MovesAreChained, CopyIsCurrent, ClockFollowsStage

\* The invariant that the theorems about the stages and their reports rest on.
THEOREM Invariance == Spec => []IInv
<1>1. IInv /\ [Next]_vars => IInv'
  BY NextInv, StutterInv
<1> QED
  BY InitInv, <1>1, PTL DEF Spec

THEOREM TypeCorrect == Spec => []TypeOK
<1>1. IInv => TypeOK
  BY DEF IInv
<1> QED
  BY Invariance, <1>1, PTL

\* A decided application has its retention clock running whatever requests
\* crossed; an open one has neither clock nor reason, unless its moves overlapped
\* (move_stage, stamp_decision).
THEOREM ClocksFollowStages == Spec => []ClockFollowsStage
<1>1. IInv => ClockFollowsStage
  BY DEF IInv
<1> QED
  BY Invariance, <1>1, PTL
-----------------------------------------------------------------------------
(***************************************************************************)
(* The candidate's status page.                                            *)
(***************************************************************************)
LEMMA LeastNat ==
  ASSUME NEW T \in SUBSET Nat, T # {}
  PROVE  \E m \in T : \A n \in T : m <= n
<1> DEFINE F == {0 .. k : k \in T}
           R == StrictSubsetOrdering(Nat)
<1>1. \A k \in T : 0 .. k \in FiniteSubsetsOf(Nat)
  BY FS_Interval DEF FiniteSubsetsOf
<1>2. F \subseteq FiniteSubsetsOf(Nat) /\ F # {}
  BY <1>1
<1>3. IsWellFoundedOn(R, FiniteSubsetsOf(Nat))
  BY FS_StrictSubsetOrderingWellFounded
<1> HIDE DEF F, R
<1>4. PICK x \in F : \A y \in F : ~(<<y, x>> \in R)
  BY <1>2, <1>3, WFMin
<1>5. PICK m \in T : x = 0 .. m
  BY DEF F
<1>6. ASSUME NEW n \in T, n < m PROVE FALSE
  <2>1. 0 .. n \in F
    BY DEF F
  <2>2. (0 .. n) \subseteq (0 .. m) /\ 0 .. n # 0 .. m
    BY <1>6
  <2>3. <<0 .. n, x>> \in R
    BY <1>1, <1>5, <2>2 DEF R, StrictSubsetOrdering, FiniteSubsetsOf
  <2> QED
    BY <1>4, <2>1, <2>3
<1> QED
  BY <1>6

\* Among entries of the past there is a latest one.
LEMMA LatestEntry ==
  ASSUME NEW N \in Nat, NEW S, S \subseteq Entry, S # {}, \A e \in S : e.at < N
  PROVE  \E e \in S : \A f \in S : f.at <= e.at
<1> DEFINE T == {n \in Nat : \A f \in S : f.at <= n}
<1>1. \A e \in S : e.at \in Nat
  BY DEF Entry
<1>2. N \in T
  BY <1>1
<1>3. T \in SUBSET Nat /\ T # {}
  BY <1>2
<1>4. PICK m \in T : \A n \in T : m <= n
  <2> HIDE DEF T
  <2> QED
    BY <1>3, LeastNat
<1>5. SUFFICES ASSUME \A e \in S : e.at # m PROVE FALSE
  BY <1>1, <1>4
<1>6. \A f \in S : f.at <= m - 1 /\ m - 1 \in Nat
  BY <1>1, <1>4, <1>5
<1>7. m - 1 \in T
  BY <1>6
<1> QED
  BY <1>4, <1>7

LEMMA EntriesArePast ==
  ASSUME IInv, NEW a \in App
  PROVE  \A e \in log[a] : e \in Entry /\ e.at < now
<1>a. /\ TypeOK /\ PastIsOver /\ HistoryIsWhole /\ LogIsHistory /\ MovesAreChained
      /\ CopyIsCurrent /\ ClockFollowsStage
  BY Parts
<1>b. now \in Nat /\ log[a] \subseteq Entry
  BY <1>a, Types
<1> TAKE e \in log[a]
<1>1. PICK i \in DOMAIN was[a] : e.at = was[a][i].begun
  BY <1>a, <1>b DEF LogIsHistory
<1>2. was[a][i].begun \in Nat /\ was[a][i].at \in Nat
  BY <1>a, <1>1, Visited
<1>3. was[a][i].begun <= was[a][i].at /\ was[a][i].at < now
  BY <1>a, <1>1 DEF PastIsOver
<1> QED
  BY <1>b, <1>1, <1>2, <1>3

LEMMA ShownIsPast ==
  ASSUME IInv, NEW a \in App, a \in held, row[a].stage = "rejected"
  PROVE  /\ ShownStage(a) \in Stages(a) \ {"rejected"}
         /\ a \notin crossed => ShownStage(a) = was[a][Len(was[a]) - 1].stage
<1>a. /\ TypeOK /\ PastIsOver /\ HistoryIsWhole /\ LogIsHistory /\ MovesAreChained
      /\ CopyIsCurrent /\ ClockFollowsStage
  BY Parts
<1>b. now \in Nat /\ log[a] \subseteq Entry
  BY <1>a, Types
<1> DEFINE n == Len(was[a])
           into == {e \in log[a] : e.to = "rejected"}
           latest == CHOOSE e \in into : \A f \in into : f.at <= e.at
<1>1. /\ n \in Nat /\ n >= 1 /\ DOMAIN was[a] = 1 .. n
      /\ \A i \in 1 .. n : was[a][i].at \in Nat /\ was[a][i].begun \in Nat
  <2>1. was[a] # <<>> /\ was[a] \in Seq(Visit)
    BY <1>a, Visited DEF HistoryIsWhole
  <2>2. n >= 1
    BY <2>1
  <2> QED
    BY <1>a, <2>2, Visited
<1>2. was[a][1].stage = "new" /\ was[a][n].stage = "rejected"
  BY <1>a, <1>b DEF HistoryIsWhole, LastMove
<1>3. n # 1
  BY <1>2
<1>4. PICK e0 \in log[a] : e0.at = was[a][n].begun /\ e0.to = was[a][n].stage
  <2>1. n \in DOMAIN was[a] \ {1}
    BY <1>1, <1>3
  <2> QED
    BY <1>a, <2>1 DEF LogIsHistory
<1>5. e0 \in into
  BY <1>2, <1>4
<1>6. \E e \in into : \A f \in into : f.at <= e.at
  BY <1>a, <1>b, <1>5, EntriesArePast, LatestEntry
<1>7. latest \in into /\ \A f \in into : f.at <= latest.at
  <2> HIDE DEF into
  <2> QED
    BY <1>6
<1>8. ShownStage(a) = latest.from
  <2>1. StageBeforeRejection(a) = latest.from
    BY <1>5 DEF StageBeforeRejection
  <2> QED
    BY <2>1 DEF ShownStage
<1>9. latest \in log[a] /\ latest.to = "rejected"
  BY <1>7
<1> HIDE DEF latest
<1>10. latest.from # "rejected" /\ \E i \in DOMAIN was[a] : latest.from = was[a][i].stage
  BY <1>a, <1>b, <1>9 DEF LogIsHistory
<1>11. ASSUME a \notin crossed PROVE latest.from = was[a][n - 1].stage
  <2>1. PICK i \in DOMAIN was[a] \ {1} :
          latest = [at |-> was[a][i].begun, from |-> was[a][i - 1].stage, to |-> was[a][i].stage]
    BY <1>a, <1>b, <1>9, <1>11 DEF MovesAreChained
  <2>2. was[a][n].begun <= was[a][i].begun
    BY <1>4, <1>5, <1>7, <2>1
  <2>3. ASSUME i < n PROVE FALSE
    <3>1. was[a][i].at <= was[a][n].begun
      BY <1>a, <1>b, <1>1, <1>11, <2>1, <2>3 DEF MovesAreChained
    <3>2. was[a][i].begun < was[a][i].at
      BY <1>a, <1>b, <2>1 DEF PastIsOver
    <3>3. was[a][i].begun \in Nat /\ was[a][i].at \in Nat /\ was[a][n].begun \in Nat
      BY <1>1, <2>1
    <3> QED
      BY <2>2, <3>1, <3>2, <3>3
  <2>4. i = n
    BY <1>1, <2>1, <2>3
  <2> QED
    BY <2>1, <2>4
<1> QED
  BY <1>8, <1>10, <1>11 DEF Stages

\* "The candidate must not learn the decision before the mail that announces it":
\* while the mail is held the status page (get_status_by_token) shows a stage the
\* application was in and not the rejection; the one it was rejected from, unless
\* its moves overlapped.
THEOREM DecisionsAreKeptBack == Spec => []DecisionIsKeptBack
<1>1. IInv => DecisionIsKeptBack
  <2> SUFFICES ASSUME IInv, NEW a \in held, row[a].stage = "rejected"
               PROVE  /\ ShownStage(a) \in Stages(a) \ {"rejected"}
                      /\ a \notin crossed => ShownStage(a) = was[a][Len(was[a]) - 1].stage
    BY DEF DecisionIsKeptBack
  <2>1. a \in App
    BY Parts, Types
  <2> QED
    BY <2>1, ShownIsPast
<1> QED
  BY Invariance, <1>1, PTL
-----------------------------------------------------------------------------
LEMMA NobodysStart ==
  ASSUME EntriesApart, NEW p \in Proc, log' = log, pc'[p] \in {"idle", "mail"},
         start'[p] \in {Never, start[p]},
         \A q \in Proc \ {p} : pc'[q] = pc[q] /\ start'[q] = start[q]
  PROVE  EntriesApart'
<1> SUFFICES ASSUME NEW q \in Proc, pc'[q] \in {"begun", "loaded"}
             PROVE  /\ start'[q] # Never
                    /\ \A a \in App : \A e \in log[a] : e.at # start'[q]
                    /\ \A r \in Proc \ {q} : start'[r] # start'[q]
  BY DEF EntriesApart, Never
<1>1. q # p /\ pc[q] \in {"begun", "loaded"} /\ start'[q] = start[q]
  OBVIOUS
<1>2. /\ start[q] # Never
      /\ \A a \in App : \A e \in log[a] : e.at # start[q]
      /\ \A r \in Proc \ {q} : start[r] # start[q]
  BY <1>1 DEF EntriesApart
<1> QED
  BY <1>1, <1>2

\* Every moment begins or ends one request, and a request moves an application once.
LEMMA EntriesStayApart ==
  ASSUME IInv, EntriesApart, [Next]_vars
  PROVE  EntriesApart'
<1>a. TypeOK /\ PastIsOver /\ CopyIsCurrent
  BY Parts
<1>b. now \in Nat /\ now >= 2 /\ DOMAIN pc = Proc /\ DOMAIN start = Proc
  BY <1>a DEF TypeOK
<1>1. CASE UNCHANGED <<log, pc, start>>
  BY <1>1 DEF EntriesApart
<1>2. ASSUME NEW p \in Proc, NEW o \in Request, Begin(p, o) PROVE EntriesApart'
  <2>1. log' = log /\ pc' = [pc EXCEPT ![p] = "begun"] /\ start' = [start EXCEPT ![p] = now]
    BY <1>2 DEF Begin
  <2>2. \A a \in App : \A e \in log[a] : e.at < now
    BY EntriesArePast
  <2>3. \A q \in Proc : start[q] < now /\ start[q] \in Nat
    BY <1>a DEF PastIsOver, TypeOK
  <2>4. \A a \in App : \A e \in log[a] : e.at # now
    <3> SUFFICES ASSUME NEW a \in App, NEW e \in log[a] PROVE e.at # now
      OBVIOUS
    <3>1. e.at < now
      BY <2>2
    <3>2. ~(now < now)
      BY <1>b
    <3> QED
      BY <3>1, <3>2
  <2>5. start'[p] = now /\ \A q \in Proc \ {p} : start'[q] = start[q] /\ pc'[q] = pc[q] /\ start[q] # now
    BY <1>b, <2>1, <2>3
  <2> SUFFICES ASSUME NEW q \in Proc, pc'[q] \in {"begun", "loaded"}
               PROVE  /\ start'[q] # Never
                      /\ \A a \in App : \A e \in log[a] : e.at # start'[q]
                      /\ \A r \in Proc \ {q} : start'[r] # start'[q]
    BY <2>1 DEF EntriesApart, Never
  <2>6. CASE q = p
    BY <1>b, <2>4, <2>5, <2>6 DEF Never
  <2>7. CASE q # p
    <3>1. /\ start[q] # Never
          /\ \A a \in App : \A e \in log[a] : e.at # start[q]
          /\ \A r \in Proc \ {q} : start[r] # start[q]
      BY <2>5, <2>7 DEF EntriesApart
    <3> QED
      BY <2>5, <2>7, <3>1
  <2> QED
    BY <2>6, <2>7
<1>3. ASSUME NEW p \in Proc, Done(p), log' = log PROVE EntriesApart'
  <2>1. /\ start'[p] = Never /\ pc'[p] = "idle"
        /\ \A q \in Proc \ {p} : pc'[q] = pc[q] /\ start'[q] = start[q]
    BY <1>a, <1>3, DoneFacts
  <2> QED
    BY <1>3, <2>1, NobodysStart
<1>4. ASSUME NEW p \in Proc, Load(p) PROVE EntriesApart'
  <2>1. log' = log /\ start' = start /\ pc[p] = "begun" /\ pc' = [pc EXCEPT ![p] = "loaded"]
    BY <1>4 DEF Load
  <2>2. \A q \in Proc : pc'[q] \in {"begun", "loaded"} => pc[q] \in {"begun", "loaded"}
    BY <1>b, <2>1
  <2> QED
    BY <2>1, <2>2 DEF EntriesApart
<1>5. ASSUME NEW p \in Proc, MailAgain(p) PROVE EntriesApart'
  <2>1. log' = log /\ start' = start /\ pc' = [pc EXCEPT ![p] = "mail"]
    BY <1>5 DEF MailAgain
  <2> QED
    BY <1>b, <2>1, NobodysStart
<1>6. ASSUME NEW p \in Proc, Commit(p) PROVE EntriesApart'
  <2> DEFINE D == DOMAIN got[p]
  <2>1. /\ D \subseteq App
        /\ \A a \in App \ D : log'[a] = log[a]
        /\ \A a \in D : log'[a] = log[a] \cup {Recorded(p, a)}
        /\ \A q \in Proc \ {p} : pc'[q] = pc[q] /\ start'[q] = start[q]
    BY <1>6, CommitFacts
  <2>2. pc[p] = "loaded"
    BY <1>6 DEF Commit
  <2>3. pc'[p] \in {"idle", "mail"} /\ start'[p] \in {Never, start[p]}
    <3>1. CASE op[p].kind = "withdraw"
      <4>1. Done(p)
        BY <1>6, <3>1 DEF Commit
      <4> QED
        BY <1>a, <4>1, DoneFacts
    <3>2. CASE op[p].kind # "withdraw"
      BY <1>6, <1>b, <3>2 DEF Commit
    <3> QED
      BY <3>1, <3>2
  <2>4. /\ start[p] # Never
        /\ \A a \in App : \A e \in log[a] : e.at # start[p]
        /\ \A q \in Proc \ {p} : start[q] # start[p]
    BY <2>2 DEF EntriesApart
  <2>5. ASSUME NEW a \in App
        PROVE  /\ IsFiniteSet(log'[a]) /\ \A e \in log'[a] : e.at # Never
               /\ \A e, f \in log'[a] : e.at = f.at => e = f
    <3>1. /\ IsFiniteSet(log[a]) /\ \A e \in log[a] : e.at # Never
          /\ \A e, f \in log[a] : e.at = f.at => e = f
      BY DEF EntriesApart
    <3>2. CASE a \notin D
      BY <2>1, <3>1, <3>2
    <3>3. CASE a \in D
      <4>1. log'[a] = log[a] \cup {Recorded(p, a)} /\ Recorded(p, a).at = start[p]
        BY <2>1, <3>3 DEF Recorded
      <4>2. IsFiniteSet(log'[a])
        BY <3>1, <4>1, FS_AddElement
      <4> QED
        BY <2>4, <3>1, <4>1, <4>2
    <3> QED
      BY <3>2, <3>3
  <2>6. ASSUME NEW q \in Proc, pc'[q] \in {"begun", "loaded"}
        PROVE  /\ start'[q] # Never
               /\ \A a \in App : \A e \in log'[a] : e.at # start'[q]
               /\ \A r \in Proc \ {q} : start'[r] # start'[q]
    <3>1. q # p /\ pc[q] \in {"begun", "loaded"} /\ start'[q] = start[q]
      BY <2>1, <2>3, <2>6
    <3>2. /\ start[q] # Never
          /\ \A a \in App : \A e \in log[a] : e.at # start[q]
          /\ \A r \in Proc \ {q} : start[r] # start[q]
      BY <3>1 DEF EntriesApart
    <3>3. \A a \in App : \A e \in log'[a] : e \in log[a] \/ e.at = start[p]
      BY <2>1 DEF Recorded
    <3> QED
      BY <2>1, <2>3, <3>1, <3>2, <3>3
  <2> QED
    BY <2>5, <2>6 DEF EntriesApart
<1>7. ASSUME NEW p \in Proc, LoadNothing(p) \/ Rollback(p) \/ Mail(p) PROVE EntriesApart'
  BY <1>3, <1>7 DEF LoadNothing, Rollback, Mail
<1>8. ASSUME NEW a \in App, Release(a) PROVE EntriesApart'
  BY <1>1, <1>8 DEF Release, reqVars
<1>9. CASE UNCHANGED vars
  BY <1>1, <1>9 DEF vars, reqVars
<1> QED
  BY <1>2, <1>4, <1>5, <1>6, <1>7, <1>8, <1>9 DEF Next

LEMMA EntriesBeginApart == Init => EntriesApart
BY FS_EmptySet DEF Init, EntriesApart
-----------------------------------------------------------------------------
\* The rows of a history, no two at one moment.
Apart(rows) ==
    /\ IsFiniteSet(rows)
    /\ \A e \in rows : e.at \in Nat
    /\ \A e, f \in rows : e.at = f.at => e = f

LEMMA Places ==
  ASSUME NEW rows, Apart(rows), NEW e \in rows, NEW f \in rows
  PROVE  /\ Place(rows, e) \in 1 .. Cardinality(rows) /\ Cardinality(rows) \in Nat
         /\ e.at < f.at => Place(rows, e) < Place(rows, f)
<1> DEFINE below(x) == {y \in rows : y.at <= x.at}
<1>1. IsFiniteSet(rows) /\ Cardinality(rows) \in Nat
  BY FS_CardinalityType DEF Apart
<1>2. \A x \in rows :
        IsFiniteSet(below(x)) /\ Cardinality(below(x)) \in Nat /\ Cardinality(below(x)) <= Cardinality(rows)
  BY <1>1, FS_Subset, FS_CardinalityType
<1>3. e \in below(e)
  BY DEF Apart
<1>4. Cardinality(below(e)) # 0
  BY <1>2, <1>3, FS_EmptySet
<1>5. ASSUME e.at < f.at PROVE Cardinality(below(e)) < Cardinality(below(f))
  <2>1. below(e) \subseteq below(f) /\ f \in below(f) /\ f \notin below(e)
    BY <1>5 DEF Apart
  <2> HIDE DEF below
  <2>2. Cardinality(below(e)) <= Cardinality(below(f)) /\ Cardinality(below(e)) # Cardinality(below(f))
    BY <1>2, <2>1, FS_Subset
  <2> QED
    BY <1>2, <2>2
<1>6. Place(rows, e) = Cardinality(below(e)) /\ Place(rows, f) = Cardinality(below(f))
  BY DEF Place
<1> HIDE DEF below
<1> QED
  BY <1>1, <1>2, <1>4, <1>5, <1>6

LEMMA PlaceIsOwn ==
  ASSUME NEW rows, Apart(rows), NEW e \in rows, NEW f \in rows, Place(rows, e) = Place(rows, f)
  PROVE  e = f
<1>1. e.at \in Nat /\ f.at \in Nat /\ (e.at = f.at => e = f)
  BY DEF Apart
<1>2. Place(rows, e) \in Nat
  BY Places
<1>3. (e.at < f.at => Place(rows, e) < Place(rows, f)) /\ (f.at < e.at => Place(rows, f) < Place(rows, e))
  BY Places
<1> QED
  BY <1>1, <1>2, <1>3

LEMMA PlacesAreTaken ==
  ASSUME NEW rows, Apart(rows), NEW i \in 1 .. Cardinality(rows)
  PROVE  \E e \in rows : Place(rows, e) = i
<1> SUFFICES ASSUME \A e \in rows : Place(rows, e) # i PROVE FALSE
  OBVIOUS
<1> DEFINE n == Cardinality(rows)
           T == (1 .. n) \ {i}
           place == [e \in rows |-> Place(rows, e)]
<1>1. IsFiniteSet(rows) /\ n \in Nat
  BY FS_CardinalityType DEF Apart
<1>2. IsFiniteSet(1 .. n) /\ Cardinality(1 .. n) = n
  BY <1>1, FS_Interval
<1>3. IsFiniteSet(T) /\ Cardinality(T) = n - 1
  BY <1>2, FS_RemoveElement
<1>4. place \in [rows -> T]
  BY Places
<1> HIDE DEF place, T
<1>5. PICK e, f \in rows : e # f /\ place[e] = place[f]
  BY <1>1, <1>3, <1>4, FS_PigeonHole
<1>6. Place(rows, e) = Place(rows, f)
  BY <1>5 DEF place
<1> QED
  BY <1>5, <1>6, PlaceIsOwn

\* The history of an application in the order of its rows.
LEMMA EventsAreSorted ==
  ASSUME NEW a \in App, Apart(log[a])
  PROVE  LET ev == Events(a)
             n == Cardinality(log[a])
         IN  /\ n \in Nat /\ Len(ev) = n /\ DOMAIN ev = 1 .. n
             /\ \A i \in 1 .. n : ev[i] \in log[a] /\ Place(log[a], ev[i]) = i
             /\ \A e \in log[a] : \E i \in 1 .. n : ev[i] = e
             /\ \A i, j \in 1 .. n : i < j => ev[i].at < ev[j].at
<1> DEFINE ev == Events(a)
           n == Cardinality(log[a])
<1>1. n \in Nat
  BY FS_CardinalityType DEF Apart
<1>2. DOMAIN ev = 1 .. n /\ \A i \in 1 .. n : ev[i] = CHOOSE e \in log[a] : Place(log[a], e) = i
  BY DEF Events
<1>3. ev \in Seq({ev[i] : i \in 1 .. n}) /\ Len(ev) = n
  <2>1. ev = [i \in 1 .. n |-> ev[i]]
    BY <1>2 DEF Events
  <2> HIDE DEF ev
  <2>2. ev \in [1 .. n -> {ev[i] : i \in 1 .. n}]
    BY <1>2, <2>1
  <2> QED
    BY <1>1, <2>2
<1>4. \A i \in 1 .. n : ev[i] \in log[a] /\ Place(log[a], ev[i]) = i
  BY <1>2, PlacesAreTaken
<1> HIDE DEF ev
<1>5. ASSUME NEW e \in log[a] PROVE \E i \in 1 .. n : ev[i] = e
  <2>1. Place(log[a], e) \in 1 .. n
    BY Places
  <2> QED
    BY <1>4, <2>1, PlaceIsOwn
<1>6. ASSUME NEW i \in 1 .. n, NEW j \in 1 .. n, i < j PROVE ev[i].at < ev[j].at
  <2>1. ev[i] \in log[a] /\ ev[j] \in log[a] /\ Place(log[a], ev[i]) = i /\ Place(log[a], ev[j]) = j
    BY <1>4
  <2>2. ev[i].at \in Nat /\ ev[j].at \in Nat
    BY <2>1 DEF Apart
  <2>3. ev[j].at < ev[i].at => j < i
    BY <2>1, Places
  <2>4. ev[i].at = ev[j].at => i = j
    BY <2>1 DEF Apart
  <2> QED
    BY <1>6, <2>2, <2>3, <2>4
<1> QED
  BY <1>1, <1>2, <1>3, <1>4, <1>5, <1>6 DEF ev

LEMMA LogsAreApart ==
  ASSUME IInv, EntriesApart, NEW a \in App
  PROVE  Apart(log[a])
BY EntriesArePast DEF EntriesApart, Apart, Entry
-----------------------------------------------------------------------------
\* The row of the k-th stage of an application.
MoveTo(a, k) == [at |-> was[a][k].begun, from |-> was[a][k - 1].stage, to |-> was[a][k].stage]

\* The members of a sequence without repetition are counted by their indices.
LEMMA Counted ==
  ASSUME NEW n \in Nat, NEW g, \A i, j \in 1 .. n : g[i] = g[j] => i = j,
         NEW T, \A x : x \in T <=> \E i \in 1 .. n : x = g[i]
  PROVE  IsFiniteSet(T) /\ Cardinality(T) = n
<1> DEFINE h == [i \in 1 .. n |-> g[i]]
<1>1. IsFiniteSet(1 .. n) /\ Cardinality(1 .. n) = n
  BY FS_Interval
<1>2. h \in Bijection(1 .. n, T)
  BY DEF Bijection, Injection, Surjection, IsInjective
<1>3. ExistsBijection(1 .. n, T)
  BY <1>2 DEF ExistsBijection
<1> QED
  BY <1>1, <1>3, FS_Bijection

LEMMA MovesAreOrdered ==
  ASSUME IInv, NEW a \in App \ crossed
  PROVE  LET N == Len(was[a])
         IN  /\ N \in Nat \ {0} /\ DOMAIN was[a] = 1 .. N
             /\ \A k \in 1 .. N : was[a][k].begun \in Nat /\ was[a][k].at \in Nat
             /\ \A j, k \in 2 .. N : j < k => was[a][j].begun < was[a][k].begun
             /\ \A e \in log[a] : \E k \in 2 .. N : e = MoveTo(a, k)
             /\ \A k \in 2 .. N : MoveTo(a, k) \in log[a]
<1>a. /\ TypeOK /\ PastIsOver /\ HistoryIsWhole /\ LogIsHistory /\ MovesAreChained
  BY Parts
<1> DEFINE N == Len(was[a])
<1>1. /\ N \in Nat \ {0} /\ DOMAIN was[a] = 1 .. N
      /\ \A k \in 1 .. N : was[a][k].begun \in Nat /\ was[a][k].at \in Nat
  <2>1. was[a] # <<>> /\ was[a] \in Seq(Visit)
    BY <1>a, Visited DEF HistoryIsWhole
  <2>2. N # 0
    BY <2>1
  <2> QED
    BY <1>a, <2>2, Visited
<1>2. ASSUME NEW j \in 2 .. N, NEW k \in 2 .. N, j < k PROVE was[a][j].begun < was[a][k].begun
  <2>1. j \in DOMAIN was[a] \ {1} /\ k \in DOMAIN was[a]
    BY <1>1
  <2>2. was[a][j].at <= was[a][k].begun
    BY <1>a, <1>2, <2>1 DEF MovesAreChained
  <2>3. was[a][j].begun < was[a][j].at
    BY <1>a, <2>1 DEF PastIsOver
  <2> QED
    BY <1>1, <2>2, <2>3
<1>3. ASSUME NEW e \in log[a] PROVE \E k \in 2 .. N : e = MoveTo(a, k)
  <2>1. PICK i \in DOMAIN was[a] \ {1} :
          e = [at |-> was[a][i].begun, from |-> was[a][i - 1].stage, to |-> was[a][i].stage]
    BY <1>a DEF MovesAreChained
  <2>2. i \in 2 .. N
    BY <1>1
  <2> QED
    BY <2>1, <2>2 DEF MoveTo
<1>4. ASSUME NEW k \in 2 .. N PROVE MoveTo(a, k) \in log[a]
  <2>1. PICK e \in log[a] : e.at = was[a][k].begun
    <3>1. k \in DOMAIN was[a] \ {1}
      BY <1>1
    <3> QED
      BY <1>a, <3>1 DEF LogIsHistory
  <2>2. PICK i \in 2 .. N : e = MoveTo(a, i)
    BY <1>3
  <2>3. was[a][i].begun = was[a][k].begun
    BY <2>1, <2>2 DEF MoveTo
  <2>4. i = k
    BY <1>1, <1>2, <2>3
  <2> QED
    BY <2>2, <2>4
<1> QED
  BY <1>1, <1>2, <1>3, <1>4

\* Where no moves overlapped, the history has them one by one.
LEMMA EventsAreMoves ==
  ASSUME IInv, EntriesApart, NEW a \in App \ crossed
  PROVE  LET n == Len(was[a]) - 1
         IN  /\ n \in Nat /\ Len(Events(a)) = n /\ DOMAIN Events(a) = 1 .. n
             /\ \A i \in 1 .. n : Events(a)[i] = MoveTo(a, i + 1)
<1> DEFINE n == Len(was[a]) - 1
           g == [k \in 1 .. n |-> MoveTo(a, k + 1)]
           S == log[a]
           ev == Events(a)
<1>1. /\ n \in Nat /\ DOMAIN was[a] = 1 .. n + 1
      /\ \A k \in 1 .. n + 1 : was[a][k].begun \in Nat
      /\ \A j, k \in 2 .. n + 1 : j < k => was[a][j].begun < was[a][k].begun
      /\ \A e \in S : \E k \in 2 .. n + 1 : e = MoveTo(a, k)
      /\ \A k \in 2 .. n + 1 : MoveTo(a, k) \in S
  BY MovesAreOrdered
<1>2. \A k \in 1 .. n : g[k] = MoveTo(a, k + 1) /\ g[k].at = was[a][k + 1].begun /\ g[k] \in S
  <2> SUFFICES ASSUME NEW k \in 1 .. n
               PROVE  g[k] = MoveTo(a, k + 1) /\ g[k].at = was[a][k + 1].begun /\ g[k] \in S
    OBVIOUS
  <2>1. k + 1 \in 2 .. n + 1
    BY <1>1
  <2>2. MoveTo(a, k + 1) \in S /\ MoveTo(a, k + 1).at = was[a][k + 1].begun
    BY <1>1, <2>1 DEF MoveTo
  <2> QED
    BY <2>2
<1>3. ASSUME NEW e \in S PROVE \E k \in 1 .. n : e = g[k]
  <2>1. PICK k \in 2 .. n + 1 : e = MoveTo(a, k)
    BY <1>1
  <2>2. k - 1 \in 1 .. n /\ (k - 1) + 1 = k
    BY <1>1
  <2> QED
    BY <1>2, <2>1, <2>2
<1> HIDE DEF g
<1>4. ASSUME NEW i \in 1 .. n, NEW j \in 1 .. n PROVE g[i].at <= g[j].at <=> i <= j
  <2>1. /\ i + 1 \in 2 .. n + 1 /\ j + 1 \in 2 .. n + 1
        /\ i + 1 \in 1 .. n + 1 /\ j + 1 \in 1 .. n + 1
    BY <1>1
  <2>2. /\ i + 1 < j + 1 => was[a][i + 1].begun < was[a][j + 1].begun
        /\ j + 1 < i + 1 => was[a][j + 1].begun < was[a][i + 1].begun
        /\ was[a][i + 1].begun \in Nat /\ was[a][j + 1].begun \in Nat
    BY <1>1, <2>1
  <2>3. g[i].at = was[a][i + 1].begun /\ g[j].at = was[a][j + 1].begun
    BY <1>2
  <2>4. i < j \/ i = j \/ j < i
    OBVIOUS
  <2> QED
    BY <2>2, <2>3, <2>4
<1>5. \A i, j \in 1 .. n : g[i] = g[j] => i = j
  <2> SUFFICES ASSUME NEW i \in 1 .. n, NEW j \in 1 .. n, g[i] = g[j] PROVE i = j
    OBVIOUS
  <2>1. g[i].at <= g[j].at /\ g[j].at <= g[i].at
    <3>1. i <= i /\ j <= j
      OBVIOUS
    <3> QED
      BY <1>4, <3>1
  <2> QED
    BY <1>4, <2>1
<1>6. S = {g[k] : k \in 1 .. n}
  BY <1>2, <1>3
<1>7. Cardinality(S) = n
  <2>1. \A x : x \in S <=> \E k \in 1 .. n : x = g[k]
    BY <1>6
  <2> HIDE DEF S
  <2> QED
    BY <1>1, <1>5, <2>1, Counted
<1>8. Apart(S)
  BY LogsAreApart
<1>9. ASSUME NEW k \in 1 .. n PROVE Place(S, g[k]) = k
  <2> DEFINE below == {f \in S : f.at <= g[k].at}
  <2>1. \A x : x \in below <=> \E i \in 1 .. k : x = g[i]
    <3>1. \A i \in 1 .. n : g[i].at <= g[k].at <=> i \in 1 .. k
      BY <1>1, <1>4
    <3>2. \A i \in 1 .. k : i \in 1 .. n
      BY <1>1
    <3> QED
      BY <1>6, <3>1, <3>2
  <2>2. k \in Nat /\ \A i, j \in 1 .. k : g[i] = g[j] => i = j
    BY <1>1, <1>5
  <2>3. Place(S, g[k]) = Cardinality(below)
    BY DEF Place
  <2> HIDE DEF below
  <2> QED
    BY <2>1, <2>2, <2>3, Counted
<1>10. /\ Len(ev) = n /\ DOMAIN ev = 1 .. n
       /\ \A i \in 1 .. n : ev[i] \in S /\ Place(S, ev[i]) = i
  BY <1>7, <1>8, EventsAreSorted
<1>11. ASSUME NEW i \in 1 .. n PROVE ev[i] = MoveTo(a, i + 1)
  <2>1. ev[i] \in S /\ Place(S, ev[i]) = Place(S, g[i]) /\ g[i] \in S
    BY <1>2, <1>9, <1>10
  <2> HIDE DEF ev, S
  <2>2. ev[i] = g[i]
    BY <1>8, <2>1, PlaceIsOwn
  <2> QED
    BY <1>2, <2>2
<1> QED
  BY <1>1, <1>10, <1>11
-----------------------------------------------------------------------------
LEMMA MaxIs ==
  ASSUME NEW T \in SUBSET Nat, T # {}, NEW N \in Nat, \A x \in T : x <= N
  PROVE  Max(T) \in T /\ \A x \in T : x <= Max(T)
<1> DEFINE U == {n \in Nat : \A x \in T : x <= n}
<1>1. N \in U /\ U \in SUBSET Nat
  OBVIOUS
<1>2. PICK m \in U : \A n \in U : m <= n
  <2> HIDE DEF U
  <2> QED
    BY <1>1, LeastNat
<1>3. m \in T
  <2> SUFFICES ASSUME m \notin T PROVE FALSE
    OBVIOUS
  <2>1. m - 1 \in U
    <3>1. \A x \in T : x <= m - 1
      OBVIOUS
    <3>2. PICK x \in T : TRUE
      OBVIOUS
    <3>3. m - 1 \in Nat
      BY <3>1, <3>2
    <3> QED
      BY <3>1, <3>3
  <2> QED
    BY <1>2, <2>1
<1>4. \E x \in T : \A y \in T : x >= y
  BY <1>3
<1>5. Max(T) \in T /\ \A y \in T : Max(T) >= y
  BY <1>4 DEF Max
<1> QED
  BY <1>5

LEMMA MaxOnly ==
  ASSUME NEW T \in SUBSET Nat, NEW m \in T, \A x \in T : x <= m
  PROVE  Max(T) = m
<1>1. m \in Nat /\ T # {}
  OBVIOUS
<1>2. Max(T) \in T /\ \A x \in T : x <= Max(T)
  BY <1>1, MaxIs
<1>3. Max(T) \in Nat /\ Max(T) <= m /\ m <= Max(T)
  BY <1>2
<1> QED
  BY <1>1, <1>3

\* The stages of the funnel.
LEMMA FunnelFacts ==
  /\ DOMAIN FUNNEL_ORDER = 1 .. 5
  /\ FUNNEL_ORDER[1] = "new" /\ FUNNEL_ORDER[2] = "screening" /\ FUNNEL_ORDER[3] = "interview"
  /\ FUNNEL_ORDER[4] = "offer" /\ FUNNEL_ORDER[5] = "hired"
  /\ FunnelStages = {"new", "screening", "interview", "offer", "hired"}
  /\ Stage = FunnelStages \cup OUTCOMES /\ FunnelStages \cap OUTCOMES = {}
<1>1. /\ DOMAIN FUNNEL_ORDER = 1 .. 5
      /\ FUNNEL_ORDER[1] = "new" /\ FUNNEL_ORDER[2] = "screening" /\ FUNNEL_ORDER[3] = "interview"
      /\ FUNNEL_ORDER[4] = "offer" /\ FUNNEL_ORDER[5] = "hired"
  BY DEF FUNNEL_ORDER
<1>2. \A i : i \in 1 .. 5 <=> i \in {1, 2, 3, 4, 5}
  OBVIOUS
<1>3. FunnelStages = {"new", "screening", "interview", "offer", "hired"}
  BY <1>1, <1>2 DEF FunnelStages
<1>4. Stage = FunnelStages \cup OUTCOMES
  BY DEF Stage, FunnelStages
<1> QED
  BY <1>1, <1>3, <1>4 DEF OUTCOMES

LEMMA Ranks ==
  /\ Rank("new") = 1 /\ Rank("screening") = 2 /\ Rank("interview") = 3
  /\ Rank("offer") = 4 /\ Rank("hired") = 5
  /\ \A s \in FunnelStages : Rank(s) \in 1 .. 5
<1>1. \A i : i \in 1 .. 5 <=> i \in {1, 2, 3, 4, 5}
  OBVIOUS
<1>2. Rank("new") = 1
  BY <1>1, FunnelFacts DEF Rank
<1>3. Rank("screening") = 2
  BY <1>1, FunnelFacts DEF Rank
<1>4. Rank("interview") = 3
  BY <1>1, FunnelFacts DEF Rank
<1>5. Rank("offer") = 4
  BY <1>1, FunnelFacts DEF Rank
<1>6. Rank("hired") = 5
  BY <1>1, FunnelFacts DEF Rank
<1> QED
  BY <1>2, <1>3, <1>4, <1>5, <1>6, FunnelFacts

\* The history and the row know every stage but the first.
LEMMA SeenIsBeen ==
  ASSUME IInv, NEW a \in App
  PROVE  {e.to : e \in log[a]} \cup {row[a].stage, "new"} = Stages(a)
<1>a. /\ TypeOK /\ HistoryIsWhole /\ LogIsHistory
  BY Parts
<1>1. /\ Len(was[a]) \in Nat \ {0} /\ DOMAIN was[a] = 1 .. Len(was[a])
      /\ was[a][1].stage = "new" /\ row[a].stage = was[a][Len(was[a])].stage
  <2>1. was[a] # <<>> /\ was[a] \in Seq(Visit)
    BY <1>a, Visited DEF HistoryIsWhole
  <2>2. Len(was[a]) # 0
    BY <2>1
  <2>3. was[a][1].stage = "new" /\ row[a].stage = was[a][Len(was[a])].stage
    BY <1>a DEF HistoryIsWhole, LastMove
  <2> QED
    BY <1>a, <2>2, <2>3, Visited
<1>2. ASSUME NEW e \in log[a] PROVE e.to \in Stages(a)
  BY <1>a DEF LogIsHistory, Stages
<1>3. row[a].stage \in Stages(a) /\ "new" \in Stages(a)
  BY <1>1 DEF Stages
<1>4. ASSUME NEW i \in DOMAIN was[a] PROVE was[a][i].stage \in {e.to : e \in log[a]} \cup {"new"}
  BY <1>1, <1>a DEF LogIsHistory
<1> QED
  BY <1>2, <1>3, <1>4 DEF Stages

LEMMA ReachedIsTrue ==
  ASSUME IInv, NEW a \in App
  PROVE  ReachedRank(a) = Max({Rank(s) : s \in Stages(a) \cap FunnelStages})
<1> DEFINE seen == {e.to : e \in log[a]} \cup {row[a].stage}
<1>1. seen \cup {"new"} = Stages(a)
  BY SeenIsBeen
<1>2. "new" \in FunnelStages
  BY FunnelFacts
<1>3. {Rank(s) : s \in seen \cap FunnelStages} \cup {1} = {Rank(s) : s \in Stages(a) \cap FunnelStages}
  <2> HIDE DEF seen
  <2> QED
    BY <1>1, <1>2, Ranks
<1> QED
  BY <1>3 DEF ReachedRank
-----------------------------------------------------------------------------
\* The walk back from a row of the history, given where it must end: at h[i].
LEMMA WalkBack ==
  ASSUME NEW ev, Len(ev) \in Nat, NEW h,
         h = [i \in 0 .. Len(ev) |->
                IF i = 0 THEN None
                ELSE IF ev[i].from \in OUTCOMES THEN h[i - 1] ELSE ev[i].from]
  PROVE  \A i \in 0 .. Len(ev) : Origin(ev)[i] = h[i]
<1> DEFINE n == Len(ev)
           IsWalk(f) == f = [i \in 0 .. n |->
                               IF i = 0 THEN None
                               ELSE IF ev[i].from \in OUTCOMES THEN f[i - 1] ELSE ev[i].from]
           origin == CHOOSE f : IsWalk(f)
<1>1. Origin(ev) = origin
  BY DEF Origin
<1>2. IsWalk(origin)
  <2>1. IsWalk(h)
    OBVIOUS
  <2> HIDE DEF IsWalk
  <2> QED
    BY <2>1
<1> HIDE DEF origin
<1> DEFINE T == {i \in 0 .. n : origin[i] # h[i]}
<1> SUFFICES ASSUME T # {} PROVE FALSE
  BY <1>1
<1>3. PICK m \in T : \A i \in T : m <= i
  <2>1. T \in SUBSET Nat
    OBVIOUS
  <2> HIDE DEF T
  <2> QED
    BY <2>1, LeastNat
<1>4. m # 0
  BY <1>2
<1>5. m - 1 \in 0 .. n /\ m - 1 \notin T
  BY <1>3, <1>4
<1>6. origin[m - 1] = h[m - 1]
  BY <1>5
<1> QED
  BY <1>2, <1>4, <1>6

LEMMA LeftIsTrue ==
  ASSUME IInv, EntriesApart, NEW a \in App \ crossed
  PROVE  LeftFrom(a) = IF row[a].stage \in OUTCOMES THEN was[a][Max(InFunnel(a))].stage ELSE None
<1>1. CASE row[a].stage \notin OUTCOMES
  BY <1>1 DEF LeftFrom
<1>2. CASE row[a].stage \in OUTCOMES
  <2> DEFINE ev == Events(a)
             n == Len(was[a]) - 1
             in(i) == {k \in 1 .. i : was[a][k].stage \in FunnelStages}
             h == [i \in 0 .. n |-> IF i = 0 THEN None ELSE was[a][Max(in(i))].stage]
  <2>a. /\ TypeOK /\ HistoryIsWhole
    BY Parts
  <2>1. /\ n \in Nat /\ Len(ev) = n /\ DOMAIN ev = 1 .. n
        /\ \A i \in 1 .. n : ev[i] = MoveTo(a, i + 1)
        /\ DOMAIN was[a] = 1 .. n + 1 /\ was[a][1].stage = "new"
        /\ row[a].stage = was[a][n + 1].stage
        /\ \A i \in 1 .. n + 1 : was[a][i].stage \in FunnelStages \cup OUTCOMES
    <3>1. was[a][1].stage = "new" /\ row[a].stage = was[a][Len(was[a])].stage
      BY <2>a DEF HistoryIsWhole, LastMove
    <3>2. n \in Nat /\ DOMAIN was[a] = 1 .. n + 1 /\ n + 1 = Len(was[a])
      BY MovesAreOrdered
    <3>3. \A i \in 1 .. n + 1 : was[a][i].stage \in Stage
      BY <2>a, <3>2, Visited
    <3> QED
      BY <3>1, <3>2, <3>3, EventsAreMoves, FunnelFacts
  <2>2. n # 0
    BY <1>2, <2>1, FunnelFacts
  <2>3. \A i \in 1 .. n : ev[i].from = was[a][i].stage /\ ev[i].to = was[a][i + 1].stage
    <3> SUFFICES ASSUME NEW i \in 1 .. n
                 PROVE  ev[i].from = was[a][i].stage /\ ev[i].to = was[a][i + 1].stage
      OBVIOUS
    <3>1. (i + 1) - 1 = i
      OBVIOUS
    <3> QED
      <4>1. MoveTo(a, i + 1) = [at |-> was[a][i + 1].begun, from |-> was[a][i].stage,
                                to |-> was[a][i + 1].stage]
        BY <3>1 DEF MoveTo
      <4>2. ev[i] = MoveTo(a, i + 1)
        BY <2>1
      <4> QED
        BY <4>1, <4>2
  <2> HIDE DEF ev, n
  <2>4. ASSUME NEW i \in 1 .. n
        PROVE  /\ was[a][i].stage \in FunnelStages => Max(in(i)) = i
               /\ was[a][i].stage \in OUTCOMES => i # 1 /\ in(i) = in(i - 1)
    <3>1. ASSUME was[a][i].stage \in FunnelStages PROVE Max(in(i)) = i
      <4>1. in(i) \in SUBSET Nat /\ i \in in(i) /\ \A k \in in(i) : k <= i
        BY <3>1
      <4> HIDE DEF in
      <4> QED
        BY <4>1, MaxOnly
    <3>2. ASSUME was[a][i].stage \in OUTCOMES PROVE i # 1 /\ in(i) = in(i - 1)
      <4>1. was[a][i].stage \notin FunnelStages
        BY <3>2, FunnelFacts
      <4>2. i # 1
        BY <2>1, <4>1, FunnelFacts
      <4>3. \A k : k \in in(i) <=> k \in in(i - 1)
        BY <4>1
      <4> QED
        BY <4>2, <4>3
    <3> QED
      BY <3>1, <3>2
  <2>5. ASSUME NEW i \in 0 .. n
        PROVE  h[i] = IF i = 0 THEN None
                      ELSE IF ev[i].from \in OUTCOMES THEN h[i - 1] ELSE ev[i].from
    <3>1. CASE i = 0
      BY <3>1
    <3>2. CASE i # 0 /\ was[a][i].stage \in FunnelStages
      <4>1. i \in 1 .. n /\ ev[i].from = was[a][i].stage /\ ev[i].from \notin OUTCOMES
        BY <2>1, <2>3, <3>2, FunnelFacts
      <4>2. Max(in(i)) = i
        BY <2>4, <3>2, <4>1
      <4> HIDE DEF in
      <4> QED
        BY <3>2, <4>1, <4>2
    <3>3. CASE i # 0 /\ was[a][i].stage \in OUTCOMES
      <4>1. i \in 1 .. n /\ ev[i].from = was[a][i].stage
        BY <2>1, <2>3, <3>3
      <4>2. i - 1 # 0 /\ i - 1 \in 0 .. n /\ in(i) = in(i - 1)
        <5>1. i # 1 /\ in(i) = in(i - 1)
          BY <2>4, <3>3, <4>1
        <5> QED
          BY <2>1, <4>1, <5>1
      <4> HIDE DEF in
      <4> QED
        BY <3>3, <4>1, <4>2
    <3> QED
      <4>1. i # 0 => was[a][i].stage \in FunnelStages \cup OUTCOMES
        BY <2>1
      <4> QED
        BY <3>1, <3>2, <3>3, <4>1
  <2>6. h = [i \in 0 .. n |-> IF i = 0 THEN None
                              ELSE IF ev[i].from \in OUTCOMES THEN h[i - 1] ELSE ev[i].from]
    <3>1. DOMAIN h = 0 .. n /\ h = [i \in 0 .. n |-> h[i]]
      OBVIOUS
    <3> HIDE DEF h
    <3> QED
      BY <2>5, <3>1
  <2>7. Origin(ev)[n] = h[n]
    <3> HIDE DEF h
    <3> QED
      BY <2>1, <2>6, WalkBack
  <2>8. h[n] = was[a][Max(in(n))].stage
    BY <2>1, <2>2
  <2>9. InFunnel(a) = in(n)
    <3>1. was[a][n + 1].stage \notin FunnelStages
      BY <1>2, <2>1, FunnelFacts
    <3>2. \A k : k \in InFunnel(a) <=> k \in in(n)
      BY <2>1, <3>1 DEF InFunnel
    <3> QED
      BY <3>2
  <2> DEFINE into == {i \in DOMAIN ev : ev[i].to = row[a].stage}
  <2>10. into \in SUBSET Nat /\ n \in into /\ \A k \in into : k <= n
    BY <2>1, <2>2, <2>3
  <2>11. Max(into) = n
    <3> HIDE DEF into
    <3> QED
      BY <2>10, MaxOnly
  <2>12. LeftFrom(a) = Origin(ev)[Max(into)]
    BY <1>2, <2>10 DEF LeftFrom, ev
  <2> HIDE DEF h, in, into
  <2> QED
    BY <1>2, <2>7, <2>8, <2>9, <2>11, <2>12
<1> QED
  BY <1>1, <1>2
-----------------------------------------------------------------------------
\* Where no moves overlapped, the stays that are found are the ones that ended.
LEMMA StaysAreFound ==
  ASSUME IInv, EntriesApart, NEW a \in App \ crossed
  PROVE  {<<x.i, x.stage>> : x \in CompletedStays(a)} = {<<i, was[a][i].stage>> : i \in Left(a)}
<1> DEFINE ev == Events(a)
           n == Len(was[a]) - 1
           found == {j \in DOMAIN ev : ev[j].from = StageBefore(ev, j) /\ ev[j].from \in TIMED_STAGES}
<1>1. /\ n \in Nat /\ DOMAIN ev = 1 .. n
      /\ \A i \in 1 .. n : ev[i] = MoveTo(a, i + 1)
      /\ was[a][1].stage = "new"
  <2>1. was[a][1].stage = "new"
    BY Parts DEF HistoryIsWhole
  <2> QED
    BY <2>1, EventsAreMoves
<1> HIDE DEF ev
<1>2. ASSUME NEW i \in 1 .. n PROVE ev[i].from = was[a][i].stage /\ StageBefore(ev, i) = was[a][i].stage
  <2>1. (i + 1) - 1 = i
    OBVIOUS
  <2>2. MoveTo(a, i + 1) = [at |-> was[a][i + 1].begun, from |-> was[a][i].stage,
                            to |-> was[a][i + 1].stage]
    BY <2>1 DEF MoveTo
  <2>3. ev[i].from = was[a][i].stage
    BY <1>1, <2>2
  <2>4. CASE i = 1
    BY <1>1, <2>3, <2>4 DEF StageBefore
  <2>5. CASE i # 1
    <3>1. i - 1 \in 1 .. n /\ (i - 1) + 1 = i
      BY <1>1, <2>5
    <3>2. ev[i - 1] = MoveTo(a, i)
      BY <1>1, <3>1
    <3>3. ev[i - 1].to = was[a][i].stage
      BY <3>2 DEF MoveTo
    <3> QED
      BY <2>3, <2>5, <3>3 DEF StageBefore
  <2> QED
    BY <2>4, <2>5
<1>3. found = Left(a)
  <2>1. \A j : j \in found <=> j \in Left(a)
    BY <1>1, <1>2 DEF Left
  <2> QED
    BY <2>1
<1>4. CompletedStays(a) =
        {[i |-> i, stage |-> ev[i].from, days |-> Days(EnteredBefore(ev, i), ev[i].at)] : i \in found}
  BY DEF CompletedStays, ev
<1>5. \A i \in found : ev[i].from = was[a][i].stage
  BY <1>1, <1>2
<1> HIDE DEF found
<1>6. {<<x.i, x.stage>> : x \in CompletedStays(a)} = {<<i, ev[i].from>> : i \in found}
  <2>1. \A x : x \in CompletedStays(a) =>
              \E i \in found : <<x.i, x.stage>> = <<i, ev[i].from>>
    BY <1>4
  <2>2. \A i \in found : \E x \in CompletedStays(a) : <<x.i, x.stage>> = <<i, ev[i].from>>
    <3> SUFFICES ASSUME NEW i \in found
                 PROVE  \E x \in CompletedStays(a) : <<x.i, x.stage>> = <<i, ev[i].from>>
      OBVIOUS
    <3> DEFINE y == [i |-> i, stage |-> ev[i].from, days |-> Days(EnteredBefore(ev, i), ev[i].at)]
    <3>1. y \in CompletedStays(a) /\ y.i = i /\ y.stage = ev[i].from
      BY <1>4
    <3> QED
      BY <3>1
  <2> QED
    BY <2>1, <2>2
<1>7. {<<i, ev[i].from>> : i \in found} = {<<i, was[a][i].stage>> : i \in found}
  BY <1>5
<1> QED
  BY <1>3, <1>6, <1>7
-----------------------------------------------------------------------------
\* What the members of a set stand for, when no two share any of it.
PartsOf(B, s) == UNION {B[x] : x \in s}

LEMMA LeastSubset ==
  ASSUME NEW S, IsFiniteSet(S), NEW F \in SUBSET SUBSET S, F # {}
  PROVE  \E s \in F : \A t \in F : t \subseteq s => t = s
<1> DEFINE R == StrictSubsetOrdering(S)
<1>1. F \subseteq FiniteSubsetsOf(S)
  BY FS_Subset DEF FiniteSubsetsOf
<1>2. IsWellFoundedOn(R, FiniteSubsetsOf(S))
  BY FS_StrictSubsetOrderingWellFounded
<1> HIDE DEF R
<1>3. PICK s \in F : \A t \in F : ~(<<t, s>> \in R)
  BY <1>1, <1>2, WFMin
<1>4. ASSUME NEW t \in F, t \subseteq s, t # s PROVE FALSE
  <2>1. <<t, s>> \in R
    BY <1>4 DEF R, StrictSubsetOrdering
  <2> QED
    BY <1>3, <2>1
<1> QED
  BY <1>4

LEMMA OnePartMore ==
  ASSUME NEW B, NEW s, NEW c \in s, IsFiniteSet(B[c]), IsFiniteSet(PartsOf(B, s \ {c})),
         \A x \in s : x # c => B[x] \cap B[c] = {}
  PROVE  /\ IsFiniteSet(PartsOf(B, s))
         /\ Cardinality(PartsOf(B, s)) = Cardinality(B[c]) + Cardinality(PartsOf(B, s \ {c}))
<1> DEFINE rest == PartsOf(B, s \ {c})
           all == PartsOf(B, s)
<1>1. all = B[c] \cup rest /\ B[c] \cap rest = {}
  BY DEF PartsOf
<1> HIDE DEF rest, all
<1>2. Cardinality(B[c]) \in Nat /\ Cardinality(rest) \in Nat /\ Cardinality({}) = 0
  BY FS_CardinalityType, FS_EmptySet DEF rest
<1>3. /\ IsFiniteSet(B[c] \cup rest)
      /\ Cardinality(B[c] \cup rest) = Cardinality(B[c]) + Cardinality(rest) - Cardinality(B[c] \cap rest)
  BY FS_Union DEF rest
<1>4. Cardinality(B[c] \cap rest) = 0
  <2>1. IsFiniteSet(B[c] \cap rest)
    BY FS_Intersection
  <2> QED
    BY <1>1, <2>1, FS_EmptySet
<1>5. IsFiniteSet(all) /\ Cardinality(all) = Cardinality(B[c]) + Cardinality(rest)
  BY <1>1, <1>2, <1>3, <1>4
<1> QED
  BY <1>5 DEF all, rest

AreParts(B, S) ==
    /\ IsFiniteSet(S)
    /\ \A x \in S : IsFiniteSet(B[x])
    /\ \A x, y \in S : x # y => B[x] \cap B[y] = {}

LEMMA PartsAreFinite ==
  ASSUME NEW B, NEW S, AreParts(B, S), NEW t \in SUBSET S
  PROVE  IsFiniteSet(PartsOf(B, t))
<1> DEFINE F == {s \in SUBSET S : ~IsFiniteSet(PartsOf(B, s))}
<1> SUFFICES ASSUME F # {} PROVE FALSE
  OBVIOUS
<1>1. PICK s \in F : \A u \in F : u \subseteq s => u = s
  <2>1. F \in SUBSET SUBSET S /\ IsFiniteSet(S)
    BY DEF AreParts
  <2> HIDE DEF F
  <2> QED
    BY <2>1, LeastSubset
<1>2. s # {}
  <2>1. PartsOf(B, {}) = {}
    BY DEF PartsOf
  <2> QED
    BY <2>1, FS_EmptySet
<1>3. PICK c \in s : TRUE
  BY <1>2
<1>4. IsFiniteSet(PartsOf(B, s \ {c}))
  BY <1>1, <1>3
<1>5. IsFiniteSet(PartsOf(B, s))
  <2>1. IsFiniteSet(B[c]) /\ \A x \in s : x # c => B[x] \cap B[c] = {}
    BY <1>3 DEF AreParts
  <2> QED
    BY <1>3, <1>4, <2>1, OnePartMore
<1> QED
  BY <1>5

\* A sum that takes one member after the other, in any order, counts the parts.
LEMMA SumOfParts ==
  ASSUME NEW B, NEW S, AreParts(B, S), NEW g, g[{}] = 0,
         \A s \in SUBSET S : s # {} => \E c \in s : g[s] = Cardinality(B[c]) + g[s \ {c}]
  PROVE  g[S] = Cardinality(PartsOf(B, S))
<1> DEFINE F == {s \in SUBSET S : g[s] # Cardinality(PartsOf(B, s))}
<1> SUFFICES ASSUME F # {} PROVE FALSE
  OBVIOUS
<1>1. PICK s \in F : \A u \in F : u \subseteq s => u = s
  <2>1. F \in SUBSET SUBSET S /\ IsFiniteSet(S)
    BY DEF AreParts
  <2> HIDE DEF F
  <2> QED
    BY <2>1, LeastSubset
<1>2. s # {}
  <2>1. PartsOf(B, {}) = {}
    BY DEF PartsOf
  <2> QED
    BY <2>1, FS_EmptySet
<1>3. PICK c \in s : g[s] = Cardinality(B[c]) + g[s \ {c}]
  BY <1>2
<1>4. g[s \ {c}] = Cardinality(PartsOf(B, s \ {c}))
  BY <1>1, <1>3
<1>5. Cardinality(PartsOf(B, s)) = Cardinality(B[c]) + Cardinality(PartsOf(B, s \ {c}))
  <2>1. IsFiniteSet(B[c]) /\ \A x \in s : x # c => B[x] \cap B[c] = {}
    BY <1>3 DEF AreParts
  <2>2. IsFiniteSet(PartsOf(B, s \ {c}))
    BY PartsAreFinite
  <2> QED
    BY <1>3, <2>1, <2>2, OnePartMore
<1> QED
  BY <1>3, <1>4, <1>5

\* The members one at a time, as the folds of the library take them.
Taken(s) == CHOOSE x \in s : TRUE

LEMMA PartsAddUp ==
  ASSUME NEW B, NEW S, AreParts(B, S), NEW h,
         \A s \in SUBSET S : h[s] = Cardinality(PartsOf(B, s))
  PROVE  /\ h[{}] = 0
         /\ \A s \in SUBSET S : s # {} =>
              Taken(s) \in s /\ h[s] = Cardinality(B[Taken(s)]) + h[s \ {Taken(s)}]
<1>1. h[{}] = 0
  <2>1. PartsOf(B, {}) = {}
    BY DEF PartsOf
  <2> QED
    BY <2>1, FS_EmptySet
<1>2. ASSUME NEW s \in SUBSET S, s # {}
      PROVE  Taken(s) \in s /\ h[s] = Cardinality(B[Taken(s)]) + h[s \ {Taken(s)}]
  <2>1. PICK c : c = Taken(s)
    OBVIOUS
  <2>2. c \in s
    BY <1>2, <2>1 DEF Taken
  <2>3. IsFiniteSet(B[c]) /\ \A x \in s : x # c => B[x] \cap B[c] = {}
    BY <2>2 DEF AreParts
  <2>4. IsFiniteSet(PartsOf(B, s \ {c}))
    BY PartsAreFinite
  <2>5. Cardinality(PartsOf(B, s)) = Cardinality(B[c]) + Cardinality(PartsOf(B, s \ {c}))
    BY <2>2, <2>3, <2>4, OnePartMore
  <2> QED
    BY <2>1, <2>2, <2>5
<1> QED
  BY <1>1, <1>2

LEMMA DaysAddUp ==
  ASSUME NEW B, NEW S, AreParts(B, S), \A x \in S : Cardinality(B[x]) = x.days
  PROVE  DaysIn(S) = Cardinality(PartsOf(B, S))
<1> DEFINE sum[s \in SUBSET S] ==
             IF s = {} THEN 0 ELSE LET x == CHOOSE x \in s : TRUE IN x.days + sum[s \ {x}]
           h == [s \in SUBSET S |-> Cardinality(PartsOf(B, s))]
<1>1. DaysIn(S) = sum[S]
  BY DEF DaysIn, MapThenSumSet, MapThenFoldSet
<1>2. ASSUME NEW s \in SUBSET S
      PROVE  h[s] = IF s = {} THEN 0 ELSE LET x == CHOOSE x \in s : TRUE IN x.days + h[s \ {x}]
  <2>1. h[{}] = 0 /\ (s # {} => Taken(s) \in s /\ h[s] = Cardinality(B[Taken(s)]) + h[s \ {Taken(s)}])
    <3>1. \A t \in SUBSET S : h[t] = Cardinality(PartsOf(B, t))
      OBVIOUS
    <3> HIDE DEF h
    <3> QED
      BY <3>1, PartsAddUp
  <2> HIDE DEF h
  <2> QED
    BY <2>1 DEF Taken
<1>3. h = [s \in SUBSET S |-> IF s = {} THEN 0 ELSE LET x == CHOOSE x \in s : TRUE IN x.days + h[s \ {x}]]
  <2>1. h = [s \in SUBSET S |-> h[s]]
    OBVIOUS
  <2> HIDE DEF h
  <2> QED
    BY <1>2, <2>1
<1>4. sum = [s \in SUBSET S |-> IF s = {} THEN 0 ELSE LET x == CHOOSE x \in s : TRUE IN x.days + sum[s \ {x}]]
  <2> HIDE DEF h
  <2> QED
    BY <1>3
<1> HIDE DEF sum
<1>5. sum[{}] = 0
  BY <1>4
<1>6. ASSUME NEW s \in SUBSET S, s # {} PROVE \E c \in s : sum[s] = Cardinality(B[c]) + sum[s \ {c}]
  <2>1. sum[s] = Taken(s).days + sum[s \ {Taken(s)}]
    BY <1>4, <1>6 DEF Taken
  <2>2. Taken(s) \in s
    BY <1>6 DEF Taken
  <2> QED
    BY <2>1, <2>2
<1> QED
  BY <1>1, <1>5, <1>6, SumOfParts
-----------------------------------------------------------------------------
LEMMA DaysPass ==
  ASSUME NEW x \in Nat, NEW y \in Nat
  PROVE  Day(x) \in Nat /\ Day(y) \in Nat /\ (x <= y => Day(x) <= Day(y))
BY DaysHaveMoments DEF Day

\* The days of a stay.
LEMMA DaysBetween ==
  ASSUME NEW x \in Nat, NEW y \in Nat
  PROVE  /\ IsFiniteSet(Day(x) .. Day(y) - 1) /\ Days(x, y) \in Nat
         /\ Cardinality(Day(x) .. Day(y) - 1) = Days(x, y)
<1>1. Day(x) \in Nat /\ Day(y) \in Nat
  BY DaysPass
<1>2. /\ IsFiniteSet(Day(x) .. Day(y) - 1)
      /\ Cardinality(Day(x) .. Day(y) - 1) =
           IF Day(x) > Day(y) - 1 THEN 0 ELSE (Day(y) - 1) - Day(x) + 1
  <2>1. Day(y) - 1 \in Int /\ Day(x) \in Int
    BY <1>1
  <2> QED
    BY <2>1, FS_Interval
<1> QED
  BY <1>1, <1>2 DEF Days

\* No two stays of an application share a day, whatever requests crossed.
LEMMA StaysFit ==
  ASSUME IInv, EntriesApart, NEW a \in App
  PROVE  DaysIn(CompletedStays(a)) <= Days(1, now)
<1> DEFINE ev == Events(a)
           n == Cardinality(log[a])
           S == CompletedStays(a)
           B == [x \in S |-> Day(EnteredBefore(ev, x.i)) .. Day(ev[x.i].at) - 1]
<1>1. /\ n \in Nat /\ DOMAIN ev = 1 .. n
      /\ \A i \in 1 .. n : ev[i] \in log[a]
      /\ \A i, j \in 1 .. n : i < j => ev[i].at < ev[j].at
  BY LogsAreApart, EventsAreSorted
<1>2. now \in Nat /\ now >= 2
  BY Parts, Types
<1>3. ASSUME NEW i \in 1 .. n PROVE ev[i].at \in Nat /\ 1 <= ev[i].at /\ ev[i].at < now
  <2>1. ev[i] \in log[a]
    BY <1>1
  <2>2. ev[i] \in Entry /\ ev[i].at < now /\ ev[i].at # Never
    BY <2>1, EntriesArePast DEF EntriesApart
  <2> HIDE DEF ev
  <2>3. ev[i].at \in Nat
    BY <2>2 DEF Entry
  <2> QED
    BY <2>2, <2>3 DEF Never
<1>4. ASSUME NEW x \in S
      PROVE  /\ x.i \in 1 .. n
             /\ x = [i |-> x.i, stage |-> ev[x.i].from,
                     days |-> Days(EnteredBefore(ev, x.i), ev[x.i].at)]
  BY <1>1, <1>4 DEF CompletedStays
<1> HIDE DEF ev, S
<1>5. ASSUME NEW i \in 1 .. n
      PROVE  /\ EnteredBefore(ev, i) \in Nat /\ 1 <= EnteredBefore(ev, i)
             /\ \A j \in 1 .. n : j < i => ev[j].at <= EnteredBefore(ev, i)
  <2>1. CASE i = 1
    BY <2>1 DEF EnteredBefore
  <2>2. CASE i # 1
    <3>1. i - 1 \in 1 .. n /\ EnteredBefore(ev, i) = ev[i - 1].at
      BY <1>1, <2>2 DEF EnteredBefore
    <3>2. \A j \in 1 .. n : j < i => j = i - 1 \/ j < i - 1
      BY <1>1
    <3>3. \A j \in 1 .. n : j < i - 1 => ev[j].at < ev[i - 1].at
      BY <1>1, <3>1
    <3>4. \A j \in 1 .. n : ev[j].at \in Nat
      BY <1>3
    <3> QED
      BY <1>3, <3>1, <3>2, <3>3, <3>4
  <2> QED
    BY <2>1, <2>2
<1>6. IsFiniteSet(S)
  <2> DEFINE f == [x \in S |-> x.i]
  <2>1. f \in [S -> 1 .. n]
    BY <1>4
  <2>2. ASSUME NEW x \in S, NEW y \in S, f[x] = f[y] PROVE x = y
    <3>1. x.i = y.i
      BY <2>2
    <3> QED
      BY <1>4, <3>1
  <2>3. f \in Injection(S, 1 .. n)
    BY <2>1, <2>2 DEF Injection, IsInjective
  <2>4. IsFiniteSet(1 .. n)
    BY <1>1, FS_Interval
  <2> HIDE DEF f
  <2> QED
    BY <2>3, <2>4, FS_Injection
<1>7. ASSUME NEW x \in S
      PROVE  /\ IsFiniteSet(B[x]) /\ Cardinality(B[x]) = x.days
             /\ \A d \in B[x] : /\ d \in Int /\ Day(EnteredBefore(ev, x.i)) <= d
                                /\ d <= Day(ev[x.i].at) - 1
  <2>1. x.i \in 1 .. n
    BY <1>4
  <2>2. EnteredBefore(ev, x.i) \in Nat /\ ev[x.i].at \in Nat
    BY <1>3, <1>5, <2>1
  <2>3. x.days = Days(EnteredBefore(ev, x.i), ev[x.i].at)
    BY <1>4
  <2>4. B[x] = Day(EnteredBefore(ev, x.i)) .. Day(ev[x.i].at) - 1
    OBVIOUS
  <2>5. Day(EnteredBefore(ev, x.i)) \in Nat /\ Day(ev[x.i].at) \in Nat
    BY <2>2, DaysPass
  <2>6. IsFiniteSet(B[x]) /\ Cardinality(B[x]) = x.days
    BY <2>2, <2>3, <2>4, DaysBetween
  <2> QED
    BY <2>4, <2>5, <2>6
<1> HIDE DEF B
<1>8. ASSUME NEW x \in S, NEW y \in S, x.i < y.i PROVE B[x] \cap B[y] = {}
  <2>1. x.i \in 1 .. n /\ y.i \in 1 .. n
    BY <1>4
  <2>2. /\ ev[x.i].at <= EnteredBefore(ev, y.i)
        /\ ev[x.i].at \in Nat /\ EnteredBefore(ev, y.i) \in Nat
    BY <1>3, <1>5, <1>8, <2>1
  <2>3. /\ Day(ev[x.i].at) <= Day(EnteredBefore(ev, y.i))
        /\ Day(ev[x.i].at) \in Nat /\ Day(EnteredBefore(ev, y.i)) \in Nat
    BY <2>2, DaysPass
  <2>4. \A d \in B[x] : d \in Int /\ d <= Day(ev[x.i].at) - 1
    BY <1>7
  <2>5. \A d \in B[y] : d \in Int /\ Day(EnteredBefore(ev, y.i)) <= d
    BY <1>7
  <2> QED
    BY <2>3, <2>4, <2>5
<1>9. AreParts(B, S)
  <2>1. ASSUME NEW x \in S, NEW y \in S, x # y PROVE B[x] \cap B[y] = {}
    <3>1. x.i # y.i
      BY <1>4, <2>1
    <3>2. x.i \in 1 .. n /\ y.i \in 1 .. n
      BY <1>4
    <3>3. x.i < y.i \/ y.i < x.i
      BY <3>1, <3>2
    <3> QED
      BY <1>8, <3>3
  <2> QED
    BY <1>6, <1>7, <2>1 DEF AreParts
<1>10. DaysIn(S) = Cardinality(PartsOf(B, S))
  BY <1>7, <1>9, DaysAddUp
<1> DEFINE age == Day(1) .. Day(now) - 1
<1>11. PartsOf(B, S) \subseteq age
  <2> SUFFICES ASSUME NEW x \in S, NEW d \in B[x] PROVE d \in age
    BY DEF PartsOf
  <2>1. x.i \in 1 .. n
    BY <1>4
  <2>2. /\ EnteredBefore(ev, x.i) \in Nat /\ 1 <= EnteredBefore(ev, x.i)
        /\ ev[x.i].at \in Nat /\ ev[x.i].at <= now
    BY <1>2, <1>3, <1>5, <2>1
  <2>3. /\ Day(1) <= Day(EnteredBefore(ev, x.i)) /\ Day(ev[x.i].at) <= Day(now)
        /\ Day(1) \in Nat /\ Day(now) \in Nat
        /\ Day(EnteredBefore(ev, x.i)) \in Nat /\ Day(ev[x.i].at) \in Nat
    BY <1>2, <2>2, DaysPass
  <2>4. d \in Int /\ Day(EnteredBefore(ev, x.i)) <= d /\ d <= Day(ev[x.i].at) - 1
    BY <1>7
  <2> QED
    BY <2>3, <2>4
<1>12. IsFiniteSet(age) /\ Cardinality(age) = Days(1, now)
  BY <1>2, DaysBetween
<1> HIDE DEF age
<1>13. Cardinality(PartsOf(B, S)) <= Days(1, now)
  BY <1>11, <1>12, FS_Subset
<1> QED
  BY <1>10, <1>13 DEF S
-----------------------------------------------------------------------------
\* Whoever entered a stage first has been there longest.
LEMMA OldestIsTrue ==
  ASSUME IInv, crossed = {}, NEW s \in TIMED_STAGES
  PROVE  TimeInStage(s).oldest =
           LET live == {was[a][Len(was[a])].at : a \in {b \in App : row[b].stage = s}}
           IN  IF live = {} THEN {} ELSE {Days(Min(live), now)}
<1> DEFINE here == {b \in App : row[b].stage = s}
           live == {was[a][Len(was[a])].at : a \in here}
           ages == {Days(row[a].changed, now) : a \in here}
<1>1. \A a \in App : row[a].changed = was[a][Len(was[a])].at /\ row[a].changed \in Nat
  BY Parts, Types DEF ClockFollowsStage, Row
<1>2. now \in Nat
  BY Parts, Types
<1>3. TimeInStage(s).oldest = IF ages = {} THEN {} ELSE {Max(ages)}
  BY DEF TimeInStage
<1>4. live \in SUBSET Nat
  BY <1>1
<1>5. /\ \A d \in ages : \E t \in live : d = Days(t, now)
      /\ \A t \in live : Days(t, now) \in ages
  BY <1>1
<1> HIDE DEF live, ages
<1>6. CASE live = {}
  <2>1. ages = {}
    BY <1>5, <1>6
  <2> QED
    BY <1>3, <1>6, <2>1 DEF live
<1>7. CASE live # {}
  <2>1. \E m \in live : \A t \in live : m <= t
    BY <1>4, <1>7, LeastNat
  <2>2. Min(live) \in live /\ \A t \in live : Min(live) <= t
    BY <2>1 DEF Min
  <2> DEFINE m == Min(live)
  <2> HIDE DEF m
  <2>3. m \in live /\ \A t \in live : m <= t
    BY <2>2 DEF m
  <2>4. ages \in SUBSET Nat /\ Days(m, now) \in ages
    BY <1>2, <1>4, <1>5, <2>3, DaysBetween
  <2>5. ASSUME NEW d \in ages PROVE d <= Days(m, now)
    <3>1. PICK t \in live : d = Days(t, now)
      BY <1>5
    <3>2. t \in Nat /\ m \in Nat /\ m <= t
      BY <1>4, <2>3
    <3>3. Day(m) <= Day(t) /\ Day(m) \in Nat /\ Day(t) \in Nat /\ Day(now) \in Nat
      BY <1>2, <3>2, DaysPass
    <3> QED
      BY <3>1, <3>3 DEF Days
  <2>6. Max(ages) = Days(m, now)
    BY <2>4, <2>5, MaxOnly
  <2>7. TimeInStage(s).oldest = {Days(m, now)}
    BY <1>3, <2>4, <2>6
  <2> QED
    BY <1>7, <2>7 DEF m, live
<1> QED
  BY <1>6, <1>7
-----------------------------------------------------------------------------
\* Whom the funnel tells of at a stage: who left from it, and who is still there.
Out(i, outcome) == {a \in App : row[a].stage = outcome /\ LeftFrom(a) = FUNNEL_ORDER[i]}
Here(i) == {a \in App : row[a].stage = FUNNEL_ORDER[i] /\ FUNNEL_ORDER[i] \notin TERMINAL_STAGES}
ToldOf(i) == Out(i, "rejected") \cup Out(i, "withdrawn") \cup Here(i)

LEMMA TwoSets ==
  ASSUME NEW S, NEW T, IsFiniteSet(S), IsFiniteSet(T), S \cap T = {}
  PROVE  /\ IsFiniteSet(S \cup T)
         /\ Cardinality(S \cup T) = Cardinality(S) + Cardinality(T)
<1>1. Cardinality(S) \in Nat /\ Cardinality(T) \in Nat
  BY FS_CardinalityType
<1>2. Cardinality(S \cap T) = 0
  <2>1. IsFiniteSet(S \cap T)
    BY FS_Intersection
  <2> QED
    BY <2>1, FS_EmptySet
<1>3. /\ IsFiniteSet(S \cup T)
      /\ Cardinality(S \cup T) = Cardinality(S) + Cardinality(T) - Cardinality(S \cap T)
  BY FS_Union
<1> QED
  BY <1>1, <1>2, <1>3

LEMMA StepFacts ==
  ASSUME NEW i \in 1 .. 5
  PROVE  /\ Funnel[i].reached = Cardinality({a \in App : ReachedRank(a) >= i})
         /\ Funnel[i].rejected_from = Cardinality(Out(i, "rejected"))
         /\ Funnel[i].withdrawn_from = Cardinality(Out(i, "withdrawn"))
         /\ Funnel[i].still_here = Cardinality(Here(i))
<1>1. Funnel[i] = Step(i)
  BY FunnelFacts DEF Funnel
<1> QED
  BY <1>1 DEF Step, Out, Here

LEMMA ToldAre ==
  ASSUME NEW i \in 1 .. 5
  PROVE  IsFiniteSet(ToldOf(i)) /\ Told(i) = Cardinality(ToldOf(i)) /\ ToldOf(i) \subseteq App
<1> DEFINE R == Out(i, "rejected")
           W == Out(i, "withdrawn")
           H == Here(i)
<1>1. /\ R \subseteq App /\ W \subseteq App /\ H \subseteq App
      /\ R \cap W = {} /\ (R \cup W) \cap H = {}
  BY DEF Out, Here, TERMINAL_STAGES, OUTCOMES
<1> HIDE DEF R, W, H
<1>2. IsFiniteSet(R) /\ IsFiniteSet(W) /\ IsFiniteSet(H)
  BY <1>1, AppsAreFinite, FS_Subset
<1>3. IsFiniteSet(R \cup W) /\ Cardinality(R \cup W) = Cardinality(R) + Cardinality(W)
  BY <1>1, <1>2, TwoSets
<1>4. /\ IsFiniteSet((R \cup W) \cup H)
      /\ Cardinality((R \cup W) \cup H) = Cardinality(R \cup W) + Cardinality(H)
  BY <1>1, <1>2, <1>3, TwoSets
<1>5. Told(i) = Cardinality(R) + Cardinality(W) + Cardinality(H)
  BY StepFacts DEF Told, R, W, H
<1>6. ToldOf(i) = (R \cup W) \cup H
  BY DEF ToldOf, R, W, H
<1> QED
  BY <1>1, <1>3, <1>4, <1>5, <1>6

\* Nobody is told of at two stages.
LEMMA ToldOnce ==
  ASSUME NEW i \in 1 .. 5, NEW j \in 1 .. 5, i # j
  PROVE  ToldOf(i) \cap ToldOf(j) = {}
<1>1. \A k : k \in 1 .. 5 <=> k \in {1, 2, 3, 4, 5}
  OBVIOUS
<1>2. FUNNEL_ORDER[i] # FUNNEL_ORDER[j]
  BY <1>1, FunnelFacts
<1>3. \A a \in ToldOf(i) : \/ row[a].stage \in OUTCOMES /\ LeftFrom(a) = FUNNEL_ORDER[i]
                           \/ row[a].stage \notin OUTCOMES /\ row[a].stage = FUNNEL_ORDER[i]
  BY DEF ToldOf, Out, Here, OUTCOMES, TERMINAL_STAGES
<1>4. \A a \in ToldOf(j) : \/ row[a].stage \in OUTCOMES /\ LeftFrom(a) = FUNNEL_ORDER[j]
                           \/ row[a].stage \notin OUTCOMES /\ row[a].stage = FUNNEL_ORDER[j]
  BY DEF ToldOf, Out, Here, OUTCOMES, TERMINAL_STAGES
<1> QED
  BY <1>2, <1>3, <1>4

LEMMA ToldAddUp ==
  ASSUME NEW B, NEW S, AreParts(B, S), \A i \in S : Cardinality(B[i]) = Told(i)
  PROVE  MapThenSumSet(Told, S) = Cardinality(PartsOf(B, S))
<1> DEFINE sum[s \in SUBSET S] ==
             IF s = {} THEN 0 ELSE LET x == CHOOSE x \in s : TRUE IN Told(x) + sum[s \ {x}]
           h == [s \in SUBSET S |-> Cardinality(PartsOf(B, s))]
<1>1. MapThenSumSet(Told, S) = sum[S]
  BY DEF MapThenSumSet, MapThenFoldSet
<1>2. ASSUME NEW s \in SUBSET S
      PROVE  h[s] = IF s = {} THEN 0 ELSE LET x == CHOOSE x \in s : TRUE IN Told(x) + h[s \ {x}]
  <2>1. h[{}] = 0 /\ (s # {} => Taken(s) \in s /\ h[s] = Cardinality(B[Taken(s)]) + h[s \ {Taken(s)}])
    <3>1. \A t \in SUBSET S : h[t] = Cardinality(PartsOf(B, t))
      OBVIOUS
    <3> HIDE DEF h
    <3> QED
      BY <3>1, PartsAddUp
  <2> HIDE DEF h
  <2> QED
    BY <2>1 DEF Taken
<1>3. h = [s \in SUBSET S |-> IF s = {} THEN 0 ELSE LET x == CHOOSE x \in s : TRUE IN Told(x) + h[s \ {x}]]
  <2>1. h = [s \in SUBSET S |-> h[s]]
    OBVIOUS
  <2> HIDE DEF h
  <2> QED
    BY <1>2, <2>1
<1>4. sum = [s \in SUBSET S |-> IF s = {} THEN 0 ELSE LET x == CHOOSE x \in s : TRUE IN Told(x) + sum[s \ {x}]]
  <2> HIDE DEF h
  <2> QED
    BY <1>3
<1> HIDE DEF sum
<1>5. sum[{}] = 0
  BY <1>4
<1>6. ASSUME NEW s \in SUBSET S, s # {} PROVE \E c \in s : sum[s] = Cardinality(B[c]) + sum[s \ {c}]
  <2>1. sum[s] = Told(Taken(s)) + sum[s \ {Taken(s)}]
    BY <1>4, <1>6 DEF Taken
  <2>2. Taken(s) \in s
    BY <1>6 DEF Taken
  <2> QED
    BY <2>1, <2>2
<1> QED
  BY <1>1, <1>5, <1>6, SumOfParts

\* Everybody who is hired has been so since a moment that is known.
LEMMA HiresAreDated ==
  ASSUME IInv, NEW a \in App, ReachedRank(a) = Rank("hired")
  PROVE  TimeToHire(a) # {}
<1> DEFINE ranks == {Rank(s) : s \in Stages(a) \cap FunnelStages}
<1>1. "new" \in Stages(a) /\ {e.to : e \in log[a]} \cup {row[a].stage, "new"} = Stages(a)
  BY SeenIsBeen
<1>2. ranks \in SUBSET Nat /\ ranks # {} /\ \A r \in ranks : r <= 5
  BY <1>1, Ranks, FunnelFacts
<1>3. Max(ranks) \in ranks
  <2> HIDE DEF ranks
  <2> QED
    BY <1>2, MaxIs
<1>4. PICK s \in Stages(a) \cap FunnelStages : Rank(s) = 5
  BY <1>3, ReachedIsTrue, Ranks
<1>5. s = "hired"
  BY <1>4, Ranks, FunnelFacts
<1>6. (\E e \in log[a] : e.to = "hired") \/ row[a].stage = "hired"
  BY <1>1, <1>4, <1>5
<1>7. row[a].stage = "hired" => row[a].decided # Never
  BY Parts DEF ClockFollowsStage, TERMINAL_STAGES
<1> QED
  BY <1>6, <1>7 DEF TimeToHire

LEMMA FunnelAdds ==
  ASSUME IInv, EntriesApart
  PROVE  FunnelAddsUp
<1> DEFINE S == DOMAIN FUNNEL_ORDER
           B == [i \in S |-> ToldOf(i)]
           told == PartsOf(B, S)
           hired == {a \in App : row[a].stage = "hired"}
<1>1. S = 1 .. 5 /\ IsFiniteSet(S)
  <2>1. S = 1 .. 5
    BY FunnelFacts
  <2>2. 1 \in Int /\ 5 \in Int
    OBVIOUS
  <2>3. IsFiniteSet(1 .. 5)
    BY <2>2, FS_Interval, Zenon
  <2> HIDE DEF S
  <2> QED
    BY <2>1, <2>3, Zenon
<1>2. \A i \in S : B[i] = ToldOf(i) /\ IsFiniteSet(B[i]) /\ Cardinality(B[i]) = Told(i) /\ B[i] \subseteq App
  BY <1>1, ToldAre
<1>3. \A i, j \in S : i # j => B[i] \cap B[j] = {}
  BY <1>1, ToldOnce
<1>4. AreParts(B, S)
  <2> HIDE DEF B, S
  <2> QED
    BY <1>1, <1>2, <1>3 DEF AreParts
<1>5. ToldInAll = Cardinality(told)
  <2>1. ToldInAll = MapThenSumSet(Told, S)
    BY DEF ToldInAll
  <2> HIDE DEF B, S
  <2> QED
    BY <1>2, <1>4, <2>1, ToldAddUp
<1>6. told \subseteq App /\ hired \subseteq App
  <2>1. hired \subseteq App
    OBVIOUS
  <2> HIDE DEF B, S
  <2> QED
    BY <1>2, <2>1 DEF PartsOf
<1>7. told \cap hired = {}
  <2> SUFFICES ASSUME NEW i \in S, NEW a \in ToldOf(i), row[a].stage = "hired" PROVE FALSE
    BY <1>2 DEF PartsOf
  <2> QED
    BY DEF ToldOf, Out, Here, TERMINAL_STAGES
<1>8. ASSUME crossed = {}, NEW a \in App PROVE a \in told \/ a \in hired
  <2>1. row[a].stage \in FunnelStages \cup OUTCOMES
    BY Parts, Types, FunnelFacts DEF Row
  <2>2. CASE row[a].stage \in OUTCOMES
    <3>1. LeftFrom(a) = was[a][Max(InFunnel(a))].stage
      BY <1>8, <2>2, LeftIsTrue
    <3>2. InFunnel(a) \in SUBSET Nat /\ InFunnel(a) # {} /\ \A i \in InFunnel(a) : i <= Len(was[a])
      <4>1. Len(was[a]) \in Nat \ {0} /\ DOMAIN was[a] = 1 .. Len(was[a])
        BY <1>8, MovesAreOrdered
      <4>2. was[a][1].stage = "new"
        BY Parts DEF HistoryIsWhole
      <4>3. 1 \in InFunnel(a)
        BY <4>1, <4>2, FunnelFacts DEF InFunnel
      <4> QED
        BY <4>1, <4>3 DEF InFunnel
    <3>3. Len(was[a]) \in Nat
      BY <1>8, MovesAreOrdered
    <3>4. Max(InFunnel(a)) \in InFunnel(a)
      BY <3>2, <3>3, MaxIs
    <3>5. LeftFrom(a) \in FunnelStages
      BY <3>1, <3>4 DEF InFunnel
    <3>6. PICK i \in S : LeftFrom(a) = FUNNEL_ORDER[i]
      BY <3>5 DEF FunnelStages
    <3>7. a \in ToldOf(i)
      BY <2>2, <3>6 DEF ToldOf, Out, OUTCOMES
    <3> QED
      BY <1>2, <3>7 DEF PartsOf
  <2>3. CASE row[a].stage \in FunnelStages /\ row[a].stage # "hired"
    <3>1. PICK i \in S : row[a].stage = FUNNEL_ORDER[i]
      BY <2>3 DEF FunnelStages
    <3>2. row[a].stage \notin TERMINAL_STAGES
      BY <2>3, FunnelFacts DEF TERMINAL_STAGES
    <3>3. a \in ToldOf(i)
      BY <3>1, <3>2 DEF ToldOf, Here
    <3> QED
      BY <1>2, <3>3 DEF PartsOf
  <2> QED
    BY <2>1, <2>2, <2>3
<1> HIDE DEF told, hired
<1>9. /\ IsFiniteSet(told) /\ IsFiniteSet(hired) /\ IsFiniteSet(told \cup hired)
      /\ Cardinality(told \cup hired) = Cardinality(told) + Cardinality(hired)
  <2>1. IsFiniteSet(told) /\ IsFiniteSet(hired)
    BY <1>6, AppsAreFinite, FS_Subset
  <2> QED
    BY <1>7, <2>1, TwoSets
<1>10. Cardinality(told) + Cardinality(hired) <= Cardinality(App)
  BY <1>6, <1>9, AppsAreFinite, FS_Subset
<1>11. crossed = {} => Cardinality(told) + Cardinality(hired) = Cardinality(App)
  <2>1. crossed = {} => told \cup hired = App
    BY <1>6, <1>8
  <2> QED
    BY <1>9, <2>1
<1>12. Kpis.hires = Kpis.hires_n /\ Kpis.applications = Cardinality(App)
  <2> DEFINE H == {a \in App : ReachedRank(a) = Rank("hired")}
  <2>1. {a \in H : TimeToHire(a) # {}} = H
    BY HiresAreDated
  <2> QED
    BY <2>1 DEF Kpis
<1>13. ASSUME NEW i \in S \ {1} PROVE Funnel[i].reached <= Funnel[i - 1].reached
  <2> DEFINE to(k) == {a \in App : ReachedRank(a) >= k}
  <2>1. i \in 1 .. 5 /\ i - 1 \in 1 .. 5
    BY <1>1
  <2>2. Funnel[i].reached = Cardinality(to(i)) /\ Funnel[i - 1].reached = Cardinality(to(i - 1))
    BY <2>1, StepFacts
  <2>3. \A a \in App : ReachedRank(a) \in Nat
    <3> SUFFICES ASSUME NEW a \in App PROVE ReachedRank(a) \in Nat
      OBVIOUS
    <3> DEFINE ranks == {Rank(s) : s \in Stages(a) \cap FunnelStages}
    <3>1. "new" \in Stages(a)
      BY SeenIsBeen
    <3>2. ranks \in SUBSET Nat /\ ranks # {} /\ \A r \in ranks : r <= 5
      BY <3>1, Ranks, FunnelFacts
    <3>3. ReachedRank(a) = Max(ranks)
      BY ReachedIsTrue
    <3> HIDE DEF ranks
    <3> QED
      BY <3>2, <3>3, MaxIs
  <2>4. to(i) \subseteq to(i - 1) /\ to(i - 1) \subseteq App
    BY <2>1, <2>3
  <2> HIDE DEF to
  <2>5. IsFiniteSet(to(i - 1))
    BY <2>4, AppsAreFinite, FS_Subset
  <2> QED
    BY <2>2, <2>4, <2>5, FS_Subset
<1> QED
  BY <1>5, <1>10, <1>11, <1>12, <1>13 DEF FunnelAddsUp, hired
-----------------------------------------------------------------------------
\* For any number of applications and requests, and any length of a day: the
\* report (services/reports.py), which reads the history alone, tells of every
\* application the highest stage it reached, and where no moves of it overlapped
\* the stage it left from and every stay; no stays add up to more than the age,
\* and the funnel counts nobody twice.
THEOREM ReportsAreTrue == Spec => []ReportIsTrue
<1>1. Init => IInv /\ EntriesApart
  BY InitInv, EntriesBeginApart
<1>2. IInv /\ EntriesApart /\ [Next]_vars => (IInv /\ EntriesApart)'
  BY NextInv, StutterInv, EntriesStayApart
<1>3. IInv /\ EntriesApart => ReportIsTrue
  <2> SUFFICES ASSUME IInv, EntriesApart PROVE FunnelIsTrue /\ StaysAreTrue
    BY FunnelAdds DEF ReportIsTrue
  <2>1. FunnelIsTrue
    BY ReachedIsTrue, LeftIsTrue DEF FunnelIsTrue
  <2>2. StaysAreTrue
    BY StaysAreFound, StaysFit, OldestIsTrue DEF StaysAreTrue
  <2> QED
    BY <2>1, <2>2
<1> QED
  BY <1>1, <1>2, <1>3, PTL DEF Spec
-----------------------------------------------------------------------------
(***************************************************************************)
(* The board and the dashboard's queue.                                    *)
(***************************************************************************)
LEMMA BoardParts ==
  ASSUME BoardIInv
  PROVE  /\ IInv /\ BoardTypeOK /\ OldLinksAreDead /\ AloneIsCurrent /\ KeptIsLive /\ DismissalHolds
         /\ TypeOK /\ LogIsHistory /\ HistoryIsWhole
  BY Parts DEF BoardIInv

\* An attempt of an application.
LEMMA AttemptFacts ==
  ASSUME BoardTypeOK, NEW a \in App
  PROVE  /\ quiz[a] \in Seq(Attempt) /\ Len(quiz[a]) \in Nat /\ DOMAIN quiz[a] = 1 .. Len(quiz[a])
         /\ \A i \in DOMAIN quiz[a] :
              /\ quiz[a][i] \in Attempt /\ quiz[a][i] \in Attempts(a)
              /\ quiz[a][i].done \in Nat /\ quiz[a][i].expires \in Nat
              /\ quiz[a][i].status \in {"pending", "in_progress", "completed", "expired", "invalidated"}
         /\ quiz[a] # <<>> => Len(quiz[a]) \in DOMAIN quiz[a]
         /\ \A t \in Attempts(a) : \E i \in DOMAIN quiz[a] : t = quiz[a][i]
<1>1. quiz[a] \in Seq(Attempt)
  BY DEF BoardTypeOK
<1>2. Len(quiz[a]) \in Nat /\ DOMAIN quiz[a] = 1 .. Len(quiz[a]) /\ \A i \in DOMAIN quiz[a] : quiz[a][i] \in Attempt
  BY <1>1
<1>3. quiz[a] # <<>> => Len(quiz[a]) \in DOMAIN quiz[a]
  BY <1>1
<1> QED
  BY <1>1, <1>2, <1>3 DEF Attempt, Attempts

\* What is shown is computed from the tables and the time alone.
LEMMA DerivedSame ==
  ASSUME UNCHANGED <<now, row, log, candidateVars>>
  PROVE  DerivedItems' = DerivedItems
<1>1. UNCHANGED <<job, quiz, interview>>
  BY DEF candidateVars
<1>2. Live' = Live
  BY DEF Live
<1>3. Movement' = Movement
  BY <1>1 DEF Movement, Attempts
<1>4. \A a : IsOverdue(a)' <=> IsOverdue(a)
  BY <1>1 DEF IsOverdue, WaitingOn, InterviewRules, ForInterview, ForQuiz, Latest
<1>5. Status' = Status
  BY <1>2, <1>3, <1>4 DEF Status, MovedInLimit
<1>6. StalledRole' = StalledRole
  BY <1>1, <1>2, <1>5 DEF StalledRole, OnBoard
<1>7. OpenFlags' = OpenFlags
  BY <1>1, <1>2 DEF OpenFlags, Attempts
<1>8. Unbooked' = Unbooked
  BY <1>1, <1>2 DEF Unbooked
<1> QED
  BY <1>1, <1>6, <1>7, <1>8 DEF DerivedItems, JobWithoutQuiz

LEMMA DerivedTyped ==
  ASSUME BoardTypeOK
  PROVE  DerivedItems \subseteq Item
<1>1. Live \subseteq App /\ App \subseteq Nat
  BY AppsAreOrdered DEF Live
<1>2. JobWithoutQuiz \subseteq Item /\ StalledRole \subseteq Item
  BY DEF JobWithoutQuiz, StalledRole, Item
<1>3. OpenFlags \subseteq Item
  <2>1. \A a \in Live : \A t \in Attempts(a) :
          [kind |-> "integrity", app |-> a, since |-> t.done] \in Item
    <3> TAKE a \in Live
    <3>1. \A t \in Attempts(a) : t.done \in Nat
      BY <1>1, AttemptFacts
    <3> QED
      BY <1>1, <3>1 DEF Item
  <2> QED
    BY <2>1 DEF OpenFlags, First
<1>4. Unbooked \subseteq Item
  <2>1. \A a \in Live : [kind |-> "unbooked", app |-> a, since |-> interview[a].created] \in Item
    BY <1>1 DEF BoardTypeOK, Item
  <2> QED
    BY <2>1 DEF Unbooked, First
<1> QED
  BY <1>2, <1>3, <1>4 DEF DerivedItems

LEMMA BoardInitInv == BoardInit => BoardIInv
<1> SUFFICES ASSUME BoardInit PROVE BoardIInv
  OBVIOUS
<1>1. IInv
  BY InitInv DEF BoardInit
<1> DEFINE first == [status |-> "pending", sent |-> 1, expires |-> 1 + Ttl, done |-> Never, flagged |-> FALSE]
<1>2. first \in Attempt
  BY BoardNumbers DEF Attempt, Never
<1>3. quiz = [a \in App |-> IF job.quiz THEN <<first>> ELSE <<>>]
  BY DEF BoardInit
<1> HIDE DEF first
<1>4. \A a \in App : quiz[a] \in Seq(Attempt) /\ (quiz[a] = <<first>> \/ quiz[a] = <<>>)
  BY <1>2, <1>3
<1>5. BoardTypeOK
  <2>1. quiz \in [App -> Seq(Attempt)]
    BY <1>3, <1>4
  <2>2. job \in [open : BOOLEAN, quiz : BOOLEAN]
    BY DEF BoardInit
  <2>3. interview \in [App -> [status : {"none", "pending", "booked", "cancelled"},
                              created : Nat, end : Nat]]
    BY DEF BoardInit, NoInterview, Never
  <2>4. dismissed \subseteq Item /\ tab \in [Tab -> [pc : {"idle", "loaded"}, mine : SUBSET Item, alone : BOOLEAN]]
    BY DEF BoardInit, Idle
  <2> QED
    BY <2>1, <2>2, <2>3, <2>4 DEF BoardTypeOK
<1>6. OldLinksAreDead
  <2>1. \A a \in App : Len(quiz[a]) <= MaxAttempts /\ DOMAIN quiz[a] \ {Len(quiz[a])} = {}
    <3> TAKE a \in App
    <3>1. CASE quiz[a] = <<first>>
      BY <3>1, BoardNumbers
    <3>2. CASE quiz[a] = <<>>
      BY <3>2, BoardNumbers
    <3> QED
      BY <1>4, <3>1, <3>2
  <2> QED
    BY <2>1 DEF OldLinksAreDead
<1>7. AloneIsCurrent
  BY DEF AloneIsCurrent, BoardInit, Idle
<1> QED
  BY <1>1, <1>5, <1>6, <1>7 DEF BoardIInv, KeptIsLive, DismissalHolds, BoardInit

\* A step of the candidates, the team or the clock: nobody is at the dashboard.
LEMMA ElsewhereInv ==
  ASSUME BoardIInv, Elsewhere, IInv',
         job' \in [open : BOOLEAN, quiz : BOOLEAN],
         interview' \in [App -> [status : {"none", "pending", "booked", "cancelled"},
                                created : Nat, end : Nat]],
         quiz' \in [App -> Seq(Attempt)], OldLinksAreDead'
  PROVE  BoardIInv'
<1>1. UNCHANGED <<dismissed, tab, gone>> /\ kept' \subseteq kept /\ kept' \subseteq DerivedItems'
  BY DEF Elsewhere, StillLive
<1>2. BoardTypeOK'
  BY <1>1, BoardParts DEF BoardTypeOK
<1>3. AloneIsCurrent'
  BY <1>1, BoardParts DEF AloneIsCurrent
<1>4. KeptIsLive' /\ DismissalHolds'
  BY <1>1, BoardParts DEF KeptIsLive, DismissalHolds
<1> QED
  BY <1>2, <1>3, <1>4 DEF BoardIInv

LEMMA Replaced ==
  ASSUME NEW S, NEW s \in Seq(S), NEW n \in DOMAIN s, NEW t \in S
  PROVE  LET r == [s EXCEPT ![n] = t]
         IN  /\ r \in Seq(S) /\ Len(r) = Len(s) /\ DOMAIN r = DOMAIN s
             /\ \A i \in DOMAIN s \ {n} : r[i] = s[i]
<1> DEFINE r == [s EXCEPT ![n] = t]
<1>1. Len(s) \in Nat /\ DOMAIN s = 1 .. Len(s) /\ s \in [1 .. Len(s) -> S]
  OBVIOUS
<1>2. r \in [1 .. Len(s) -> S] /\ DOMAIN r = DOMAIN s /\ \A i \in DOMAIN s \ {n} : r[i] = s[i]
  BY <1>1
<1> HIDE DEF r
<1>3. r \in Seq(S) /\ Len(r) = Len(s)
  BY <1>1, <1>2
<1> QED
  BY <1>2, <1>3 DEF r

\* The latest attempt changes.
LEMMA SetLatestFacts ==
  ASSUME BoardIInv, NEW a \in App, quiz[a] # <<>>, NEW t \in Attempt, SetLatest(a, t)
  PROVE  quiz' \in [App -> Seq(Attempt)] /\ OldLinksAreDead'
<1> DEFINE n == Len(quiz[a])
<1>1. BoardTypeOK /\ OldLinksAreDead
  BY BoardParts
<1>2. quiz[a] \in Seq(Attempt) /\ n \in DOMAIN quiz[a] /\ quiz \in [App -> Seq(Attempt)]
  BY <1>1, AttemptFacts DEF BoardTypeOK
<1>3. quiz' = [quiz EXCEPT ![a] = [quiz[a] EXCEPT ![n] = t]]
  BY <1>2 DEF SetLatest
<1>4. /\ [quiz[a] EXCEPT ![n] = t] \in Seq(Attempt)
      /\ Len([quiz[a] EXCEPT ![n] = t]) = n
      /\ DOMAIN [quiz[a] EXCEPT ![n] = t] = DOMAIN quiz[a]
      /\ \A i \in DOMAIN quiz[a] \ {n} : [quiz[a] EXCEPT ![n] = t][i] = quiz[a][i]
  BY <1>2, Replaced
<1>5. quiz' \in [App -> Seq(Attempt)]
  BY <1>2, <1>3, <1>4
<1>6. quiz'[a] = [quiz[a] EXCEPT ![n] = t] /\ \A b \in App \ {a} : quiz'[b] = quiz[b]
  BY <1>2, <1>3
<1>7. ASSUME NEW b \in App
      PROVE  /\ Len(quiz'[b]) <= MaxAttempts
             /\ \A i \in DOMAIN quiz'[b] \ {Len(quiz'[b])} : quiz'[b][i].status \in {"expired", "invalidated"}
  <2>1. /\ Len(quiz[b]) <= MaxAttempts
        /\ \A i \in DOMAIN quiz[b] \ {Len(quiz[b])} : quiz[b][i].status \in {"expired", "invalidated"}
    BY <1>1 DEF OldLinksAreDead
  <2>2. CASE b = a
    <3>1. Len(quiz'[a]) = n /\ DOMAIN quiz'[a] = DOMAIN quiz[a] /\ \A i \in DOMAIN quiz[a] \ {n} : quiz'[a][i] = quiz[a][i]
      BY <1>4, <1>6
    <3> QED
      BY <2>1, <2>2, <3>1
  <2>3. CASE b # a
    BY <1>6, <2>1, <2>3
  <2> QED
    BY <2>2, <2>3
<1> QED
  BY <1>5, <1>7 DEF OldLinksAreDead

LEMMA ReissueFacts ==
  ASSUME BoardIInv, NEW a \in App, Reissue(a)
  PROVE  quiz' \in [App -> Seq(Attempt)] /\ OldLinksAreDead'
<1> DEFINE n == Len(quiz[a])
           new == [i \in 1 .. n + 1 |->
                     IF i > n THEN Link
                     ELSE IF i = n /\ quiz[a][i].status # "expired"
                       THEN [quiz[a][i] EXCEPT !.status = "invalidated"] ELSE quiz[a][i]]
<1>1. BoardTypeOK /\ OldLinksAreDead /\ now \in Nat
  BY BoardParts, Types
<1>2. /\ quiz[a] \in Seq(Attempt) /\ n \in Nat /\ DOMAIN quiz[a] = 1 .. n
      /\ \A i \in 1 .. n : quiz[a][i] \in Attempt
      /\ quiz \in [App -> Seq(Attempt)]
  BY <1>1, AttemptFacts DEF BoardTypeOK
<1>3. quiz' = [quiz EXCEPT ![a] = new] /\ n < MaxAttempts
  BY DEF Reissue
<1>4. Link \in Attempt
  BY <1>1, BoardNumbers DEF Link, Attempt, Never
<1>5. \A i \in 1 .. n : [quiz[a][i] EXCEPT !.status = "invalidated"] \in Attempt
                      /\ [quiz[a][i] EXCEPT !.status = "invalidated"].status = "invalidated"
  BY <1>2 DEF Attempt
<1>6. \A i \in 1 .. n + 1 : new[i] \in Attempt
  <2> TAKE i \in 1 .. n + 1
  <2>1. CASE i > n
    BY <1>2, <1>4, <2>1
  <2>2. CASE ~(i > n)
    <3>1. i \in 1 .. n
      BY <1>2, <2>2
    <3> QED
      BY <1>2, <1>5, <2>2, <3>1
  <2> QED
    BY <2>1, <2>2
<1>7. \A i \in 1 .. n : new[i].status \in {"expired", "invalidated"}
  <2> TAKE i \in 1 .. n
  <2>1. ~(i > n) /\ i \in 1 .. n + 1
    BY <1>2
  <2>2. i # n => quiz[a][i].status \in {"expired", "invalidated"}
    BY <1>1, <1>2 DEF OldLinksAreDead
  <2> QED
    BY <1>5, <2>1, <2>2
<1>8. DOMAIN new = 1 .. n + 1
  OBVIOUS
<1> HIDE DEF new
<1>9. new \in Seq(Attempt) /\ Len(new) = n + 1
  <2>1. new \in [1 .. n + 1 -> Attempt]
    <3>1. new = [i \in 1 .. n + 1 |-> new[i]]
      BY DEF new
    <3> QED
      BY <1>6, <3>1
  <2> HIDE DEF n
  <2> QED
    BY <1>2, <2>1
<1>10. quiz' \in [App -> Seq(Attempt)] /\ quiz'[a] = new /\ \A b \in App \ {a} : quiz'[b] = quiz[b]
  BY <1>2, <1>3, <1>9
<1>11. ASSUME NEW b \in App
       PROVE  /\ Len(quiz'[b]) <= MaxAttempts
              /\ \A i \in DOMAIN quiz'[b] \ {Len(quiz'[b])} : quiz'[b][i].status \in {"expired", "invalidated"}
  <2>1. CASE b = a
    <3>1. \A i \in DOMAIN new \ {n + 1} : i \in 1 .. n
      BY <1>2, <1>8
    <3>2. n + 1 <= MaxAttempts
      BY <1>2, <1>3, BoardNumbers
    <3> QED
      BY <1>7, <1>9, <1>10, <2>1, <3>1, <3>2
  <2>2. CASE b # a
    BY <1>1, <1>10, <2>2 DEF OldLinksAreDead
  <2> QED
    BY <2>1, <2>2
<1> QED
  BY <1>10, <1>11 DEF OldLinksAreDead

\* A dashboard request answers with its own copy of the dismissed keys.
LEMMA AnswerFacts ==
  ASSUME BoardIInv, NEW t \in Tab, tab[t].pc = "loaded", NEW new \in SUBSET Item, Answer(t, new)
  PROVE  /\ dismissed' = (IF new = tab[t].mine THEN dismissed ELSE new) /\ dismissed' \subseteq Item
         /\ IInv' /\ OldLinksAreDead' /\ BoardTypeOK'
         /\ DerivedItems' = DerivedItems
         /\ AloneIsCurrent'
         /\ tab[t].alone => dismissed' = new /\ tab[t].mine = dismissed
<1>1. /\ BoardTypeOK /\ OldLinksAreDead /\ AloneIsCurrent /\ IInv
  BY BoardParts
<1>2. /\ dismissed' = (IF new = tab[t].mine THEN dismissed ELSE new)
      /\ tab' = [tab EXCEPT ![t] = Idle]
      /\ UNCHANGED vars /\ UNCHANGED candidateVars /\ UNCHANGED <<job, quiz, interview>>
  BY DEF Answer, candidateVars
<1>3. UNCHANGED <<now, row, log>>
  BY <1>2 DEF vars
<1>4. IInv' /\ DerivedItems' = DerivedItems
  BY <1>1, <1>2, <1>3, StutterInv, DerivedSame
<1>5. OldLinksAreDead'
  BY <1>1, <1>2 DEF OldLinksAreDead
<1>6. dismissed' \subseteq Item
  BY <1>1, <1>2 DEF BoardTypeOK
<1>7. Idle \in [pc : {"idle", "loaded"}, mine : SUBSET Item, alone : BOOLEAN] /\ Idle.pc = "idle"
  BY DEF Idle
<1>8. tab' \in [Tab -> [pc : {"idle", "loaded"}, mine : SUBSET Item, alone : BOOLEAN]]
  BY <1>1, <1>2, <1>7 DEF BoardTypeOK
<1>9. BoardTypeOK'
  BY <1>1, <1>2, <1>6, <1>8 DEF BoardTypeOK
<1>10. tab'[t].pc = "idle" /\ \A u \in Tab \ {t} : tab'[u] = tab[u]
  BY <1>1, <1>2, <1>7 DEF BoardTypeOK
<1>11. AloneIsCurrent'
  <2> SUFFICES ASSUME NEW u \in Tab, tab'[u].pc = "loaded", tab'[u].alone
               PROVE  FALSE
    BY DEF AloneIsCurrent
  <2>1. u # t /\ tab[u] = tab'[u]
    BY <1>10
  <2>2. tab[t].pc = "idle"
    BY <1>1, <2>1 DEF AloneIsCurrent
  <2> QED
    BY <2>2
<1>12. tab[t].alone => tab[t].mine = dismissed
  BY <1>1 DEF AloneIsCurrent
<1> QED
  BY <1>2, <1>4, <1>5, <1>6, <1>9, <1>11, <1>12

LEMMA LoadUserInv ==
  ASSUME BoardIInv, NEW t \in Tab, LoadUser(t)
  PROVE  BoardIInv'
<1> DEFINE others == {u \in Tab : tab[u].pc = "loaded"}
           Tabs == [pc : {"idle", "loaded"}, mine : SUBSET Item, alone : BOOLEAN]
<1>1. /\ BoardTypeOK /\ OldLinksAreDead /\ AloneIsCurrent /\ IInv /\ KeptIsLive /\ DismissalHolds
      /\ tab \in [Tab -> Tabs] /\ dismissed \subseteq Item
  BY BoardParts DEF BoardTypeOK
<1>2. /\ tab' = [u \in Tab |->
                   IF u = t THEN [pc |-> "loaded", mine |-> dismissed, alone |-> others = {}]
                   ELSE IF u \in others THEN [tab[u] EXCEPT !.alone = FALSE]
                   ELSE tab[u]]
      /\ UNCHANGED vars /\ UNCHANGED candidateVars /\ UNCHANGED <<job, quiz, interview, dismissed, kept, gone>>
      /\ tab[t].pc = "idle"
  BY DEF LoadUser, candidateVars
<1>3. UNCHANGED <<now, row, log>>
  BY <1>2 DEF vars
<1>4. IInv' /\ DerivedItems' = DerivedItems
  BY <1>1, <1>2, <1>3, StutterInv, DerivedSame
<1>5. /\ tab'[t].pc = "loaded" /\ tab'[t].mine = dismissed /\ (tab'[t].alone <=> others = {})
      /\ \A u \in Tab \ {t} : tab[u].pc = "loaded" => ~tab'[u].alone
      /\ \A u \in Tab \ {t} : tab[u].pc # "loaded" => tab'[u] = tab[u]
  <2>1. \A u \in Tab : [tab[u] EXCEPT !.alone = FALSE].alone = FALSE
    BY <1>1
  <2> QED
    BY <1>2, <2>1
<1>6. tab' \in [Tab -> Tabs]
  <2>1. [pc |-> "loaded", mine |-> dismissed, alone |-> others = {}] \in Tabs
    <3>1. (others = {}) \in BOOLEAN
      OBVIOUS
    <3> QED
      BY <1>1, <3>1
  <2>2. \A u \in Tab : tab[u] \in Tabs /\ [tab[u] EXCEPT !.alone = FALSE] \in Tabs
    BY <1>1
  <2> HIDE DEF Tabs, others
  <2> QED
    BY <1>2, <2>1, <2>2
<1>7. BoardTypeOK'
  BY <1>1, <1>2, <1>6 DEF BoardTypeOK
<1>8. OldLinksAreDead'
  BY <1>1, <1>2 DEF OldLinksAreDead
<1>9. AloneIsCurrent'
  <2> SUFFICES ASSUME NEW u \in Tab, tab'[u].pc = "loaded", tab'[u].alone
               PROVE  /\ tab'[u].mine = dismissed
                      /\ \A w \in Tab \ {u} : tab'[w].pc = "idle"
    BY <1>2 DEF AloneIsCurrent
  <2>1. u = t
    BY <1>5
  <2>2. \A w \in Tab \ {t} : tab[w].pc # "loaded" /\ tab[w].pc \in {"idle", "loaded"}
    BY <1>1, <1>5, <2>1
  <2> QED
    BY <1>5, <2>1, <2>2
<1> QED
  BY <1>1, <1>2, <1>4, <1>7, <1>8, <1>9 DEF BoardIInv, KeptIsLive, DismissalHolds

LEMMA BoardStep ==
  ASSUME BoardIInv, [BoardNext]_allVars
  PROVE  BoardIInv'
<1>a. /\ BoardTypeOK /\ OldLinksAreDead /\ AloneIsCurrent /\ IInv /\ KeptIsLive /\ DismissalHolds
      /\ TypeOK
  BY BoardParts
<1>b. /\ job \in [open : BOOLEAN, quiz : BOOLEAN] /\ quiz \in [App -> Seq(Attempt)]
      /\ interview \in [App -> [status : {"none", "pending", "booked", "cancelled"},
                                created : Nat, end : Nat]]
      /\ now \in Nat /\ dismissed \subseteq Item
      /\ \A t \in Tab : tab[t] \in [pc : {"idle", "loaded"}, mine : SUBSET Item, alone : BOOLEAN]
  BY <1>a, Types DEF BoardTypeOK
<1>c. DerivedItems \subseteq Item
  BY <1>a, DerivedTyped
<1>d. ASSUME UNCHANGED <<job, quiz, interview>>, Elsewhere, IInv' PROVE BoardIInv'
  <2>1. OldLinksAreDead'
    BY <1>a, <1>d DEF OldLinksAreDead
  <2> QED
    BY <1>b, <1>d, <2>1, ElsewhereInv
\* An attempt changes, or an interview; nothing moves.
<1>e. ASSUME CandidateStep PROVE Elsewhere /\ IInv'
  BY <1>a, <1>e, StutterInv DEF CandidateStep
<1>f. ASSUME CandidateStep, UNCHANGED <<job, interview>>, quiz' \in [App -> Seq(Attempt)], OldLinksAreDead'
      PROVE  BoardIInv'
  BY <1>b, <1>e, <1>f, ElsewhereInv
<1>1. CASE StageRequest
  <2>1. IInv'
    BY <1>1, <1>a, NextInv DEF StageRequest
  <2> QED
    BY <1>1, <1>d, <2>1 DEF StageRequest, candidateVars
<1>2. CASE Tick
  <2>1. /\ now' = now + 1 /\ UNCHANGED <<row, log, held, pc, op, start, got, was, crossed, job, quiz, interview>>
        /\ Elsewhere
    BY <1>2 DEF Tick, reqVars, candidateVars
  <2>2. IInv'
    BY <1>a, <2>1, TimePasses
  <2> QED
    BY <1>d, <2>1, <2>2
<1>3. ASSUME NEW a \in App, OpenLink(a) PROVE BoardIInv'
  <2> DEFINE t == [Latest(a) EXCEPT !.status = IF now > Latest(a).expires THEN "expired" ELSE "in_progress"]
  <2>1. quiz[a] # <<>> /\ SetLatest(a, t) /\ UNCHANGED <<job, interview>> /\ CandidateStep
    BY <1>3 DEF OpenLink
  <2>2. Latest(a) \in Attempt
    BY <1>a, <2>1, AttemptFacts DEF Latest
  <2>3. t \in Attempt
    BY <2>2 DEF Attempt
  <2> HIDE DEF t
  <2> QED
    BY <1>f, <2>1, <2>3, SetLatestFacts
<1>4. ASSUME NEW a \in App, NEW flags \in BOOLEAN, CompleteQuiz(a, flags) PROVE BoardIInv'
  <2> DEFINE t == [status |-> "completed", sent |-> Latest(a).sent,
                   expires |-> Latest(a).expires, done |-> now, flagged |-> flags]
  <2>1. quiz[a] # <<>> /\ SetLatest(a, t) /\ UNCHANGED <<job, interview>> /\ CandidateStep
    BY <1>4 DEF CompleteQuiz
  <2>2. Latest(a) \in Attempt
    BY <1>a, <2>1, AttemptFacts DEF Latest
  <2>3. t \in Attempt
    BY <1>b, <2>2 DEF Attempt
  <2> HIDE DEF t
  <2> QED
    BY <1>f, <2>1, <2>3, SetLatestFacts
<1>5. ASSUME NEW a \in App, ReviewFlags(a) PROVE BoardIInv'
  <2> DEFINE t == [Latest(a) EXCEPT !.flagged = FALSE]
  <2>1. quiz[a] # <<>> /\ SetLatest(a, t) /\ UNCHANGED <<job, interview>> /\ CandidateStep
    BY <1>5 DEF ReviewFlags
  <2>2. Latest(a) \in Attempt
    BY <1>a, <2>1, AttemptFacts DEF Latest
  <2>3. t \in Attempt
    BY <2>2 DEF Attempt
  <2> HIDE DEF t
  <2> QED
    BY <1>f, <2>1, <2>3, SetLatestFacts
<1>6. ASSUME NEW a \in App, Reissue(a) PROVE BoardIInv'
  BY <1>f, <1>6, ReissueFacts DEF Reissue
<1>7. ASSUME NEW a \in App, NEW status \in {"pending", "booked", "cancelled"}, NEW end \in Nat,
             NEW from, SetInterview(a, from, status, end)
      PROVE  BoardIInv'
  <2>1. UNCHANGED <<job, quiz>> /\ CandidateStep
    BY <1>7 DEF SetInterview
  <2> DEFINE new == [status |-> status, created |-> IF status = "pending" THEN now ELSE interview[a].created,
                     end |-> end]
  <2>2. interview' = [interview EXCEPT ![a] = new]
    BY <1>7 DEF SetInterview
  <2>3. new \in [status : {"none", "pending", "booked", "cancelled"}, created : Nat, end : Nat]
    BY <1>b
  <2>4. interview' \in [App -> [status : {"none", "pending", "booked", "cancelled"},
                              created : Nat, end : Nat]]
    BY <1>b, <2>2, <2>3
  <2>5. OldLinksAreDead'
    BY <1>a, <2>1 DEF OldLinksAreDead
  <2> QED
    BY <1>b, <1>e, <2>1, <2>4, <2>5, ElsewhereInv
<1>8. ASSUME NEW a \in App, RequestInterview(a) \/ BookInterview(a) \/ CancelInterview(a) PROVE BoardIInv'
  <2>1. Never \in Nat /\ now + Meeting \in Nat
    BY <1>b, BoardNumbers DEF Never
  <2> QED
    BY <1>7, <1>8, <2>1 DEF RequestInterview, BookInterview, CancelInterview
<1>9. CASE EditQuiz \/ CloseJob
  <2>1. job' \in [open : BOOLEAN, quiz : BOOLEAN] /\ UNCHANGED <<quiz, interview>> /\ CandidateStep
    BY <1>9, <1>b DEF EditQuiz, CloseJob
  <2>2. OldLinksAreDead'
    BY <1>a, <2>1 DEF OldLinksAreDead
  <2> QED
    BY <1>b, <1>e, <2>1, <2>2, ElsewhereInv
<1>10. ASSUME NEW t \in Tab, LoadUser(t) PROVE BoardIInv'
  BY <1>10, LoadUserInv
<1>11. ASSUME NEW t \in Tab, VisibleItems(t) PROVE BoardIInv'
  <2> DEFINE new == Relevant(t)
  <2>1. /\ tab[t].pc = "loaded" /\ Answer(t, new)
        /\ kept' = IF tab[t].alone THEN kept ELSE {}
        /\ gone' = IF tab[t].alone THEN gone \cup (dismissed \ DerivedItems) ELSE {}
    BY <1>11 DEF VisibleItems
  <2>2. new = tab[t].mine \cap DerivedItems /\ new \in SUBSET Item
    BY <1>c DEF Relevant
  <2> HIDE DEF new
  <2>3. /\ IInv' /\ OldLinksAreDead' /\ BoardTypeOK' /\ DerivedItems' = DerivedItems /\ AloneIsCurrent'
        /\ tab[t].alone => dismissed' = new /\ tab[t].mine = dismissed
    BY <2>1, <2>2, AnswerFacts
  <2>4. KeptIsLive' /\ DismissalHolds'
    BY <1>a, <2>1, <2>2, <2>3 DEF KeptIsLive, DismissalHolds
  <2> QED
    BY <2>3, <2>4 DEF BoardIInv
<1>12. ASSUME NEW t \in Tab, NEW x \in DerivedItems, Dismiss(t, x) PROVE BoardIInv'
  <2> DEFINE new == tab[t].mine \cup {x}
  <2>1. /\ tab[t].pc = "loaded" /\ Answer(t, new)
        /\ kept' = IF tab[t].alone THEN kept \cup {x} ELSE {}
        /\ gone' = IF tab[t].alone THEN gone \ {x} ELSE {}
    BY <1>12 DEF Dismiss
  <2>2. new = tab[t].mine \cup {x} /\ new \in SUBSET Item
    BY <1>b, <1>c
  <2> HIDE DEF new
  <2>3. /\ IInv' /\ OldLinksAreDead' /\ BoardTypeOK' /\ DerivedItems' = DerivedItems /\ AloneIsCurrent'
        /\ tab[t].alone => dismissed' = new /\ tab[t].mine = dismissed
    BY <2>1, <2>2, AnswerFacts
  <2>4. KeptIsLive' /\ DismissalHolds'
    BY <1>a, <2>1, <2>2, <2>3 DEF KeptIsLive, DismissalHolds
  <2> QED
    BY <2>3, <2>4 DEF BoardIInv
<1>13. CASE UNCHANGED allVars
  <2>1. UNCHANGED vars /\ UNCHANGED candidateVars /\ UNCHANGED <<job, quiz, interview, dismissed, tab, kept, gone>>
    BY <1>13 DEF allVars, boardVars, candidateVars
  <2>2. UNCHANGED <<now, row, log>>
    BY <2>1 DEF vars
  <2>3. IInv' /\ DerivedItems' = DerivedItems
    BY <1>a, <2>1, <2>2, StutterInv, DerivedSame
  <2> QED
    BY <1>a, <2>1, <2>3 DEF BoardIInv, BoardTypeOK, OldLinksAreDead, AloneIsCurrent, KeptIsLive, DismissalHolds
<1> QED
  BY <1>1, <1>2, <1>3, <1>4, <1>5, <1>6, <1>8, <1>9, <1>10, <1>11, <1>12, <1>13 DEF BoardNext
-----------------------------------------------------------------------------
THEOREM BoardInvariance == BoardSpec => []BoardIInv
<1>1. BoardIInv /\ [BoardNext]_allVars => BoardIInv'
  BY BoardStep
<1> QED
  BY BoardInitInv, <1>1, PTL DEF BoardSpec

\* A dismissed item stays hidden while it is live, and one that a read found
\* resolved is shown when it returns, unless two requests of the user overlapped
\* (visible_items, dismiss).
THEOREM DismissalsHold == BoardSpec => []DismissalHolds
<1>1. BoardIInv => DismissalHolds
  BY DEF BoardIInv
<1> QED
  BY BoardInvariance, <1>1, PTL

LEMMA QuizViews ==
  ASSUME BoardIInv
  PROVE  ViewsAgree
<1> SUFFICES ASSUME NEW a \in App, quiz[a] # <<>>
             PROVE  LET lapsed == ListedAs(a) = "expired"
                    IN  /\ lapsed <=> <<a, Len(quiz[a])>> \in ReportLine.expired
                        /\ lapsed <=> Len(quiz[a]) \in TimelineExpired(a)
                        /\ Remindable(a) => ListedAs(a) = "pending"
                        /\ row[a].stage = "new" /\ ~InterviewRules(a) =>
                             /\ lapsed => WaitingOn(a).who = "team"
                             /\ Remindable(a) => WaitingOn(a).who = "candidate"
                        /\ {i \in DOMAIN quiz[a] : <<a, i>> \in ReportLine.invited
                                                     \ (ReportLine.completed \cup ReportLine.expired)}
                             \subseteq {Len(quiz[a])}
  BY DEF ViewsAgree
<1> DEFINE n == Len(quiz[a])
           s == quiz[a][n].status
           e == quiz[a][n].expires
<1>1. /\ BoardTypeOK /\ OldLinksAreDead /\ now \in Nat
  BY BoardParts, Types
<1>2. /\ n \in DOMAIN quiz[a] /\ DOMAIN quiz[a] = 1 .. n /\ n \in Nat /\ n <= MaxAttempts
      /\ Latest(a) = quiz[a][n] /\ e \in Nat
      /\ s \in {"pending", "in_progress", "completed", "expired", "invalidated"}
  BY <1>1, AttemptFacts DEF Latest, OldLinksAreDead
<1>3. /\ s = "pending" /\ e < now => ListedAs(a) = "expired"
      /\ ~(s = "pending" /\ e < now) => ListedAs(a) = s
  BY <1>2 DEF ListedAs
<1>4. Remindable(a) <=> s = "pending" /\ e > now
  BY <1>2 DEF Remindable
<1>5. \A i \in 1 .. n :
        /\ <<a, i>> \in ReportLine.invited <=> quiz[a][i].status # "invalidated"
        /\ <<a, i>> \in ReportLine.completed <=> quiz[a][i].status = "completed"
        /\ <<a, i>> \in ReportLine.expired <=>
              \/ quiz[a][i].status = "expired"
              \/ (quiz[a][i].status = "pending" /\ quiz[a][i].expires < now)
  <2> TAKE i \in 1 .. n
  <2>1. <<a, i>> \in App \X (1 .. MaxAttempts) /\ <<a, i>>[1] = a /\ <<a, i>>[2] = i
    BY <1>2, BoardNumbers
  <2> QED
    BY <1>2, <2>1 DEF ReportLine
<1>6. n \in TimelineExpired(a) <=> (s = "expired" \/ (s = "pending" /\ e < now))
  BY <1>2 DEF TimelineExpired
<1>7. ASSUME row[a].stage = "new", ~InterviewRules(a)
      PROVE  /\ ListedAs(a) = "expired" => WaitingOn(a).who = "team"
             /\ Remindable(a) => WaitingOn(a).who = "candidate"
  <2>1. WaitingOn(a) = ForQuiz(a)
    BY <1>7 DEF WaitingOn
  <2>2. ListedAs(a) = "expired" => ForQuiz(a).who = "team"
    BY <1>1, <1>2, <1>3 DEF ForQuiz
  <2>3. Remindable(a) => ForQuiz(a).who = "candidate"
    <3>1. SUFFICES ASSUME s = "pending", e > now PROVE ForQuiz(a).who = "candidate"
      BY <1>4
    <3>2. ForQuiz(a) = [who |-> "candidate", since |-> Latest(a).sent]
      BY <1>2, <3>1 DEF ForQuiz
    <3> QED
      BY <3>2
  <2> QED
    BY <2>1, <2>2, <2>3
<1>8. ASSUME NEW i \in DOMAIN quiz[a], i # n
      PROVE  <<a, i>> \in ReportLine.invited => <<a, i>> \in ReportLine.expired
  <2>1. quiz[a][i].status \in {"expired", "invalidated"} /\ i \in 1 .. n
    BY <1>1, <1>2, <1>8 DEF OldLinksAreDead
  <2> QED
    BY <1>5, <2>1
<1> HIDE DEF n, s, e
<1>9. n \in 1 .. n /\ n = Len(quiz[a]) /\ s = quiz[a][n].status /\ e = quiz[a][n].expires
  BY <1>2 DEF n, s, e
<1>10. Remindable(a) => ListedAs(a) = "pending"
  BY <1>1, <1>2, <1>3, <1>4
<1>11. ListedAs(a) = "expired" <=> (s = "expired" \/ (s = "pending" /\ e < now))
  BY <1>2, <1>3
<1> QED
  BY <1>5, <1>6, <1>7, <1>8, <1>9, <1>10, <1>11

\* The list, the report, the timeline, the board and the reminder say the same of
\* a link that may have lapsed, and at most one attempt of an application counts
\* and is not over (list_applications, reports, list_events, waiting_on, remind).
THEOREM ViewsAlwaysAgree == BoardSpec => []ViewsAgree
<1>1. BoardIInv => ViewsAgree
  BY QuizViews
<1> QED
  BY BoardInvariance, <1>1, PTL

LEMMA StalledRoles ==
  ASSUME BoardIInv
  PROVE  StalledIsTrue
<1> DEFINE Quiet(a) == /\ \A i \in DOMAIN was[a] : was[a][i].begun + Limit < now
                       /\ \A i \in DOMAIN quiz[a] :
                            quiz[a][i].done # Never => quiz[a][i].done + Limit < now
<1>1. /\ BoardTypeOK /\ TypeOK /\ LogIsHistory /\ HistoryIsWhole /\ now \in Nat /\ Limit \in Nat
  BY BoardParts, Types, BoardNumbers
<1> SUFFICES ASSUME Live # {}
             PROVE  Status = "stalled" <=> \A a \in App : Quiet(a)
  BY DEF StalledIsTrue
<1>2. Status = "stalled" <=> MovedInLimit = {}
  BY DEF Status
<1>3. \A a \in App : \A i \in DOMAIN was[a] : was[a][i].begun \in Movement /\ was[a][i].begun \in Nat
  <2> TAKE a \in App
  <2> TAKE i \in DOMAIN was[a]
  <2>1. was[a][i].begun \in Nat
    BY <1>1, Visited
  <2>2. CASE i = 1
    BY <1>1, <2>1, <2>2 DEF HistoryIsWhole, Movement
  <2>3. CASE i # 1
    <3>1. PICK x \in log[a] : x.at = was[a][i].begun
      BY <1>1, <2>3 DEF LogIsHistory
    <3> QED
      BY <2>1, <3>1 DEF Movement
  <2> QED
    BY <2>2, <2>3
<1>4. \A a \in App : \A i \in DOMAIN quiz[a] :
        quiz[a][i].done \in Nat /\ (quiz[a][i].done # Never => quiz[a][i].done \in Movement)
  <2> TAKE a \in App
  <2> TAKE i \in DOMAIN quiz[a]
  <2>1. quiz[a][i].done \in Nat /\ quiz[a][i] \in Attempts(a)
    BY <1>1, AttemptFacts
  <2>2. quiz[a][i] \in UNION {Attempts(b) : b \in App}
    BY <2>1
  <2> QED
    BY <2>1, <2>2 DEF Movement
<1>5. ASSUME MovedInLimit = {}, NEW a \in App PROVE Quiet(a)
  <2>1. \A t \in Movement : ~(t + Limit >= now)
    BY <1>5 DEF MovedInLimit
  <2>2. \A t \in Movement : t \in Nat => t + Limit < now
    BY <1>1, <2>1
  <2> QED
    BY <1>3, <1>4, <2>2
<1>6. ASSUME \A a \in App : Quiet(a), NEW t \in Movement PROVE ~(t + Limit >= now)
  <2>1. CASE \E a \in App : \E x \in log[a] : t = x.at
    <3>0. PICK a \in App : \E x \in log[a] : t = x.at
      BY <2>1
    <3>1. PICK x \in log[a] : t = x.at
      BY <3>0
    <3>2. PICK i \in DOMAIN was[a] : x.at = was[a][i].begun
      BY <1>1, <3>1 DEF LogIsHistory
    <3> QED
      BY <1>1, <1>3, <1>6, <3>0, <3>1, <3>2
  <2>2. CASE App # {} /\ t = 1
    <3>1. PICK a \in App : TRUE
      BY <2>2
    <3>2. was[a] # <<>> /\ was[a][1].begun = 1
      BY <1>1 DEF HistoryIsWhole
    <3>3. 1 \in DOMAIN was[a]
      BY <1>1, <3>2, Visited
    <3> QED
      BY <1>1, <1>6, <2>2, <3>2, <3>3
  <2>3. CASE \E a \in App : \E x \in Attempts(a) : t = x.done /\ x.done # Never
    <3>0. PICK a \in App : \E x \in Attempts(a) : t = x.done /\ x.done # Never
      BY <2>3
    <3>1. PICK x \in Attempts(a) : t = x.done /\ x.done # Never
      BY <3>0
    <3>2. PICK i \in DOMAIN quiz[a] : x = quiz[a][i]
      BY <1>1, <3>1, AttemptFacts
    <3> QED
      BY <1>1, <1>4, <1>6, <3>0, <3>1, <3>2
  <2> QED
    BY <2>1, <2>2, <2>3 DEF Movement
<1>7. MovedInLimit = {} <=> \A a \in App : Quiet(a)
  <2>1. (\A a \in App : Quiet(a)) => MovedInLimit = {}
    BY <1>6 DEF MovedInLimit
  <2> QED
    BY <1>5, <2>1
<1> QED
  BY <1>2, <1>7

\* A role with people in it is shown stalled exactly when nothing really moved
\* within its limit (board, _movement, _status).
THEOREM StalledRolesAreTrue == BoardSpec => []StalledIsTrue
<1>1. BoardIInv => StalledIsTrue
  BY StalledRoles
<1> QED
  BY BoardInvariance, <1>1, PTL
=============================================================================
