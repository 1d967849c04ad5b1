----------------------------- MODULE QuizProofs -----------------------------
(***************************************************************************)
(* Proofs about Quiz, for any number of tabs, team members, questions and  *)
(* attempts: its type invariant, that questions are served in the frozen   *)
(* order, that only a fully served attempt is scored, and that answers are *)
(* kept.  For a candidate who sends one request at a time, that the exam   *)
(* has one open question and that Quiz implements Exam.                    *)
(*                                                                         *)
(* An action is of one of four kinds, with one lemma each: it only moves a *)
(* request (Quiet), takes a rank for a re-issue (Reserve), commits a       *)
(* change of one attempt (Commit), or commits a re-issue (ReissueKeeps).   *)
(***************************************************************************)
EXTENDS Quiz, TLAPS, FiniteSetTheorems, SequenceTheorems

\* T continues S: it has S's rows, possibly answered since, and maybe more.
Grows(S, T) ==
    /\ Len(S) <= Len(T)
    /\ \A i \in 1 .. Len(S) : KeepsRow(S[i], T[i])

LEMMA GrowsRefl ==
  ASSUME NEW S \in Seq(Row) PROVE Grows(S, S)
  BY DEF Grows, KeepsRow

LEMMA GrowsServed ==
  ASSUME NEW S \in Seq(Row), NEW T \in Seq(Row), Grows(S, T)
  PROVE  /\ Served(S) \subseteq Served(T)
         /\ Remaining(S) = {} => Remaining(T) = {}
<1>1. Len(S) \in Nat /\ Len(T) \in Nat /\ DOMAIN S = 1 .. Len(S) /\ DOMAIN T = 1 .. Len(T)
  OBVIOUS
<1>2. ASSUME NEW i \in DOMAIN S PROVE i \in DOMAIN T /\ S[i].q = T[i].q
  BY <1>1 DEF Grows, KeepsRow
<1>3. Served(S) \subseteq Served(T)
  BY <1>2 DEF Served
<1> QED
  BY <1>3 DEF Remaining

\* Rows that only change in place serve what they served.
LEMMA SameServed ==
  ASSUME NEW S \in Seq(Row), NEW T \in Seq(Row), Grows(S, T), Len(S) = Len(T), InOrder(S)
  PROVE  InOrder(T)
<1>1. DOMAIN S = DOMAIN T /\ DOMAIN S = 1 .. Len(S)
  OBVIOUS
<1>2. \A i \in DOMAIN S : S[i].q = T[i].q
  BY <1>1 DEF Grows, KeepsRow
<1>3. Served(S) = Served(T)
  BY <1>1, <1>2 DEF Served
<1> QED
  BY <1>1, <1>2, <1>3 DEF InOrder

LEMMA ResolvedGrows ==
  ASSUME NEW S \in Seq(Row), NEW I
  PROVE  /\ Resolved(S, I) \in Seq(Row)
         /\ Len(Resolved(S, I)) = Len(S)
         /\ Grows(S, Resolved(S, I))
<1> DEFINE T == Resolved(S, I)
<1>1. DOMAIN S = 1 .. Len(S) /\ Len(S) \in Nat
  OBVIOUS
<1>2. ASSUME NEW i \in 1 .. Len(S)
      PROVE  T[i] \in Row /\ KeepsRow(S[i], T[i])
  <2>1. S[i] \in Row
    BY <1>1
  <2>2. T[i] = IF i \in I THEN [S[i] EXCEPT !.open = FALSE] ELSE S[i]
    BY <1>1 DEF Resolved
  <2> QED
    BY <2>1, <2>2 DEF Row, KeepsRow
<1>3. T = [i \in 1 .. Len(S) |-> T[i]]
  BY <1>1 DEF Resolved
<1>4. T \in Seq(Row)
  BY <1>1, <1>2, <1>3, IsASeq
<1>5. Len(T) = Len(S)
  BY <1>1, <1>3, <1>4, LenProperties
<1> QED
  BY <1>1, <1>2, <1>4, <1>5 DEF Grows

LEMMA ExceptGrows ==
  ASSUME NEW S \in Seq(Row), NEW i \in DOMAIN S, NEW r \in Row, KeepsRow(S[i], r)
  PROVE  /\ [S EXCEPT ![i] = r] \in Seq(Row)
         /\ Len([S EXCEPT ![i] = r]) = Len(S)
         /\ Grows(S, [S EXCEPT ![i] = r])
<1> DEFINE T == [S EXCEPT ![i] = r]
<1>1. DOMAIN S = 1 .. Len(S) /\ Len(S) \in Nat
  OBVIOUS
<1>2. T \in Seq(Row) /\ Len(T) = Len(S) /\ \A j \in 1 .. Len(S) : T[j] = IF j = i THEN r ELSE S[j]
  BY <1>1, ExceptSeq
<1>3. \A j \in 1 .. Len(S) : KeepsRow(S[j], T[j])
  BY <1>2 DEF KeepsRow
<1> QED
  BY <1>1, <1>2, <1>3 DEF Grows

\* Serving the least question left after S keeps rows T, which continue S, in order.
LEMMA AppendGrows ==
  ASSUME NEW S \in Seq(Row), NEW T \in Seq(Row), NEW r \in Row,
         Grows(S, T), InOrder(T),
         \A k \in Frozen : k < r.q => k \in Served(S)
  PROVE  /\ Append(T, r) \in Seq(Row)
         /\ Grows(T, Append(T, r))
         /\ InOrder(Append(T, r))
<1> DEFINE U == Append(T, r)
<1>1. U \in Seq(Row) /\ Len(U) = Len(T) + 1 /\ Len(T) \in Nat
  OBVIOUS
<1>2. DOMAIN T = 1 .. Len(T) /\ DOMAIN U = 1 .. Len(T) + 1
  BY <1>1
<1>3. (\A i \in DOMAIN T : U[i] = T[i]) /\ U[Len(T) + 1] = r
  BY <1>1, <1>2
<1>4. Grows(T, U)
  BY <1>1, <1>2, <1>3 DEF Grows, KeepsRow
<1>5. Served(S) \subseteq Served(T) /\ Served(T) \subseteq Served(U)
  BY <1>1, <1>4, GrowsServed
<1>6. r.q \in Served(U)
  BY <1>1, <1>2, <1>3 DEF Served
<1>7. ASSUME NEW i \in DOMAIN U, NEW k \in Frozen, k <= U[i].q PROVE k \in Served(U)
  <2>1. CASE i \in DOMAIN T
    BY <1>3, <1>5, <1>7, <2>1 DEF InOrder
  <2>2. CASE i = Len(T) + 1
    <3>1. k <= r.q /\ k \in Int /\ r.q \in Int
      BY <1>3, <1>7, <2>2, SizesArePositive DEF Row, Frozen
    <3>2. CASE k < r.q
      BY <1>5, <3>2
    <3>3. CASE k = r.q
      BY <1>6, <3>3
    <3> QED
      BY <3>1, <3>2, <3>3
  <2> QED
    BY <1>2, <2>1, <2>2, <1>1
<1> QED
  BY <1>1, <1>4, <1>7 DEF InOrder
-----------------------------------------------------------------------------
(***************************************************************************)
(* The four kinds of step.                                                 *)
(***************************************************************************)
\* What a request record must satisfy in the present tables.
Sound(r) ==
    /\ r.pc # "idle" =>
         /\ r.stat # "none"
         /\ att[r.att].status # "none"
         /\ r.stat # "pending" => att[r.att].status # "pending"
    /\ r.pc \in {"decide", "score"} =>
         /\ Len(r.seen) <= Len(rows[r.att])
         /\ \A i \in 1 .. Len(r.seen) : r.seen[i].q = rows[r.att][i].q
    /\ r.pc = "submit" => r.row \in 1 .. Len(rows[r.att])
    /\ r.pc = "score" => Remaining(r.seen) = {}

LEMMA AllSound == IInv <=> /\ TypeOK /\ ServedInOrder /\ ScoredWasServed /\ PendingIsUnseen
                           /\ RanksAreOwn /\ \A p \in Proc : Sound(req[p])
  BY DEF IInv, Sound, SeenIsPast, ScorerSawAll, LoadedIsBorn

LEMMA ReqUpdate ==
  ASSUME TypeOK, NEW p \in Proc, NEW r \in Request, Goto(p, r)
  PROVE  /\ req' \in [Proc -> Request]
         /\ req'[p] = r
         /\ \A o \in Proc : o # p => req'[o] = req[o]
  BY DEF TypeOK, Goto

LEMMA Quiet ==
  ASSUME IInv, NEW p \in Proc, NEW r \in Request, Goto(p, r), Sound(r), r.pc # "reissue",
         UNCHANGED <<att, rows, taken>>, crashes' \in 0 .. MaxCrashes
  PROVE  IInv'
<1>1. TypeOK /\ ServedInOrder /\ ScoredWasServed /\ PendingIsUnseen /\ RanksAreOwn
      /\ \A o \in Proc : Sound(req[o])
  BY AllSound
<1>2. /\ req' \in [Proc -> Request] /\ req'[p] = r
      /\ \A o \in Proc : o # p => req'[o] = req[o]
  BY <1>1, ReqUpdate
<1>3. TypeOK'
  BY <1>1, <1>2 DEF TypeOK
<1>4. ServedInOrder' /\ ScoredWasServed' /\ PendingIsUnseen'
  BY <1>1 DEF ServedInOrder, ScoredWasServed, PendingIsUnseen
<1>5. ASSUME NEW o \in Proc PROVE Sound(req[o])'
  <2>1. Sound(req'[o])
    BY <1>1, <1>2
  <2> QED
    BY <2>1 DEF Sound
<1>6. RanksAreOwn'
  BY <1>1, <1>2 DEF RanksAreOwn
<1>7. SeenIsPast' /\ ScorerSawAll' /\ LoadedIsBorn'
  BY <1>5 DEF Sound, SeenIsPast, ScorerSawAll, LoadedIsBorn
<1> QED
  BY <1>3, <1>4, <1>6, <1>7 DEF IInv

LEMMA Reserve ==
  ASSUME IInv, NEW p \in Proc, NEW r \in Request, Goto(p, r), Sound(r),
         r.pc = "reissue", r.slot = taken + 1, taken < MaxAttempts, taken' = taken + 1,
         UNCHANGED <<att, rows, crashes>>
  PROVE  IInv'
<1>1. TypeOK /\ ServedInOrder /\ ScoredWasServed /\ PendingIsUnseen /\ RanksAreOwn
      /\ \A o \in Proc : Sound(req[o])
  BY AllSound
<1>2. /\ req' \in [Proc -> Request] /\ req'[p] = r
      /\ \A o \in Proc : o # p => req'[o] = req[o]
  BY <1>1, ReqUpdate
<1>3. taken \in 1 .. MaxAttempts /\ taken' \in Slot
  BY <1>1, SizesArePositive DEF TypeOK, Slot
<1>4. TypeOK'
  BY <1>1, <1>2, <1>3 DEF TypeOK
<1>5. ServedInOrder' /\ ScoredWasServed' /\ PendingIsUnseen'
  BY <1>1 DEF ServedInOrder, ScoredWasServed, PendingIsUnseen
<1>6. ASSUME NEW o \in Proc PROVE Sound(req[o])'
  <2>1. Sound(req'[o])
    BY <1>1, <1>2
  <2> QED
    BY <2>1 DEF Sound
<1>7. RanksAreOwn'
  <2>1. att[taken + 1].status = "none" /\ taken + 1 \in 1 .. taken'
    BY <1>1, <1>3 DEF RanksAreOwn, Slot
  <2>2. \A a \in Slot : a > taken' => att'[a].status = "none"
    BY <1>1, <1>3 DEF RanksAreOwn, Slot
  <2>3. ASSUME NEW o \in Proc, o # p, req[o].pc = "reissue"
        PROVE  /\ req[o].slot \in 1 .. taken' /\ req[o].slot # taken + 1
               /\ att'[req[o].slot].status = "none"
    BY <1>1, <1>3, <2>3 DEF RanksAreOwn
  <2> QED
    BY <1>1, <1>2, <2>1, <2>2, <2>3 DEF RanksAreOwn
<1>8. SeenIsPast' /\ ScorerSawAll' /\ LoadedIsBorn'
  BY <1>6 DEF Sound, SeenIsPast, ScorerSawAll, LoadedIsBorn
<1> QED
  BY <1>4, <1>5, <1>7, <1>8 DEF IInv

\* A request that has ended, or has just expired the attempt and asks on.
Settled(r, a, x) ==
    \/ r.pc = "idle"
    \/ r.pc = "ask" /\ r.stat = "expired" /\ r.att = a /\ x.status # "pending"

\* Attempt a becomes x and its rows become S.
LEMMA Commit ==
  ASSUME IInv, NEW a \in Slot, NEW x \in Attempt, NEW S \in Seq(Row),
         att' = [att EXCEPT ![a] = x], rows' = [rows EXCEPT ![a] = S],
         req' \in [Proc -> Request], UNCHANGED <<taken, crashes>>,
         \A o \in Proc : req'[o] = req[o] \/ Settled(req'[o], a, x),
         att[a].status # "none", x.status # "none",
         x.status = "pending" => att[a].status = "pending" /\ S = <<>> /\ x.score = NoScore,
         Grows(rows[a], S), InOrder(S),
         x.score # NoScore => Remaining(S) = {}
  PROVE  IInv'
<1>1. TypeOK /\ ServedInOrder /\ ScoredWasServed /\ PendingIsUnseen /\ RanksAreOwn
      /\ \A o \in Proc : Sound(req[o])
  BY AllSound
<1>2. /\ att'[a] = x /\ rows'[a] = S
      /\ \A b \in Slot : b # a => att'[b] = att[b] /\ rows'[b] = rows[b]
      /\ att' \in [Slot -> Attempt] /\ rows' \in [Slot -> Seq(Row)]
  BY <1>1 DEF TypeOK
<1>3. TypeOK'
  BY <1>1, <1>2 DEF TypeOK
<1>4. ServedInOrder'
  BY <1>1, <1>2 DEF ServedInOrder
<1>5. ScoredWasServed'
  BY <1>1, <1>2 DEF ScoredWasServed
<1>6. PendingIsUnseen'
  BY <1>1, <1>2 DEF PendingIsUnseen
<1>7. ASSUME NEW o \in Proc PROVE Sound(req[o])'
  <2>1. CASE req'[o] = req[o]
    <3>1. req[o] \in Request /\ req[o].att \in Slot /\ req[o].seen \in Seq(Row)
      BY <1>1 DEF TypeOK, Request
    <3>2. Sound(req[o])
      BY <1>1
    <3>3. CASE req[o].att # a
      BY <1>2, <2>1, <3>1, <3>2, <3>3 DEF Sound
    <3>4. CASE req[o].att = a
      <4>1. rows[a] \in Seq(Row)
        BY <1>1 DEF TypeOK
      <4>2. ASSUME req[o].pc \in {"decide", "score"}
            PROVE  /\ Len(req[o].seen) <= Len(S)
                   /\ \A i \in 1 .. Len(req[o].seen) : req[o].seen[i].q = S[i].q
        <5>1. /\ Len(req[o].seen) <= Len(rows[a])
              /\ \A i \in 1 .. Len(req[o].seen) : req[o].seen[i].q = rows[a][i].q
          BY <3>2, <3>4, <4>2 DEF Sound
        <5>2. /\ Len(rows[a]) <= Len(S)
              /\ \A i \in 1 .. Len(rows[a]) : S[i].q = rows[a][i].q
          BY DEF Grows, KeepsRow
        <5>3. Len(req[o].seen) \in Nat /\ Len(rows[a]) \in Nat /\ Len(S) \in Nat
          BY <3>1, <4>1
        <5> QED
          BY <5>1, <5>2, <5>3
      <4>3. req[o].pc = "submit" => req[o].row \in 1 .. Len(S)
        BY <3>1, <3>2, <3>4, <4>1 DEF Sound, Grows
      <4> QED
        BY <1>2, <2>1, <3>2, <3>4, <4>2, <4>3 DEF Sound
    <3> QED
      BY <3>3, <3>4
  <2>2. CASE Settled(req'[o], a, x)
    BY <1>2, <2>2 DEF Settled, Sound
  <2> QED
    BY <2>1, <2>2
<1>8. RanksAreOwn'
  <2>1. \A o \in Proc : req'[o].pc = "reissue" => req'[o] = req[o]
    BY DEF Settled
  <2>2. \A o \in Proc : req[o].pc = "reissue" => req[o].slot # a /\ req[o].slot \in Slot
    BY <1>1, SizesArePositive DEF RanksAreOwn, TypeOK, Slot
  <2> QED
    BY <1>1, <1>2, <2>1, <2>2 DEF RanksAreOwn
<1>9. SeenIsPast' /\ ScorerSawAll' /\ LoadedIsBorn'
  BY <1>7 DEF Sound, SeenIsPast, ScorerSawAll, LoadedIsBorn
<1> QED
  BY <1>3, <1>4, <1>5, <1>6, <1>8, <1>9 DEF IInv
-----------------------------------------------------------------------------
(***************************************************************************)
(* Requests load an attempt.                                               *)
(***************************************************************************)
LEMMA IdleType == Idle \in Request
<1> <<>> \in Seq(Row) /\ 0 \in 0 .. MaxAttempts /\ 1 \in Slot
  BY SizesArePositive DEF Slot
<1> QED
  BY DEF Idle, Request, Part, Status

LEMMA IdleIsSound == Sound(Idle)
  BY DEF Sound, Idle

Op == {"next", "answer", "events", "ask", "reissue", "grant", "dismiss"}

LEMMA LoadedType ==
  ASSUME TypeOK, NEW a \in Slot, NEW o \in Op
  PROVE  /\ Loaded(o, a) \in Request
         /\ Loaded(o, a).att = a /\ Loaded(o, a).stat = att[a].status
         /\ Loaded(o, a).seen = <<>>
<1>1. att[a] \in Attempt
  BY DEF TypeOK
<1>2. Idle \in Request /\ Idle.seen = <<>>
  BY IdleType DEF Idle
<1> QED
  BY <1>1, <1>2 DEF Loaded, Request, Attempt, Op

LEMMA LoadNextKeeps ==
  ASSUME IInv, NEW p \in Proc, NEW a \in Slot, LoadNext(p, a) PROVE IInv'
<1> DEFINE late == {i \in DOMAIN rows[a] : rows[a][i].due}
           r == [Loaded("next", a) EXCEPT !.pc = Entry(a), !.late = late]
<1>1. TypeOK
  BY DEF IInv
<1>2. late \in SUBSET Nat
  <2>1. rows[a] \in Seq(Row)
    BY <1>1 DEF TypeOK
  <2>2. DOMAIN rows[a] = 1 .. Len(rows[a]) /\ Len(rows[a]) \in Nat
    BY <2>1
  <2> QED
    BY <2>2
<1>3. Entry(a) \in {"look", "expire", "start"}
  BY DEF Entry
<1>4. r \in Request /\ r.pc \in {"look", "expire", "start"} /\ r.att = a /\ r.stat = att[a].status
  <2>1. Loaded("next", a) \in Request /\ Loaded("next", a).att = a
        /\ Loaded("next", a).stat = att[a].status
    BY <1>1, LoadedType DEF Op
  <2> HIDE DEF late
  <2> QED
    BY <1>2, <1>3, <2>1 DEF Request
<1>5. att[a].status # "none"
  BY DEF LoadNext, Serving
<1>6. Goto(p, r) /\ UNCHANGED <<att, rows, taken>> /\ crashes' \in 0 .. MaxCrashes
  BY <1>1 DEF LoadNext, TypeOK
<1>7. Sound(r)
  BY <1>4, <1>5 DEF Sound
<1> HIDE DEF r
<1> QED
  BY <1>4, <1>6, <1>7, Quiet

LEMMA LoadSubmitKeeps ==
  ASSUME IInv, NEW p \in Proc, NEW a \in Slot, NEW i \in DOMAIN rows[a], LoadSubmit(p, a, i)
  PROVE  IInv'
<1>1. TypeOK
  BY DEF IInv
<1>2. PICK correct \in BOOLEAN :
        Goto(p, [Loaded("answer", a) EXCEPT !.pc = "submit", !.row = i,
                                            !.right = correct /\ ~rows[a][i].due])
  BY DEF LoadSubmit
<1> DEFINE right == correct /\ ~rows[a][i].due
           r == [Loaded("answer", a) EXCEPT !.pc = "submit", !.row = i, !.right = right]
<1>3. i \in Nat /\ i \in 1 .. Len(rows[a])
  <2>1. rows[a] \in Seq(Row)
    BY <1>1 DEF TypeOK
  <2> QED
    BY <2>1
<1>4. r \in Request /\ r.pc = "submit" /\ r.att = a /\ r.stat = att[a].status /\ r.row = i
  <2>1. Loaded("answer", a) \in Request /\ Loaded("answer", a).att = a
        /\ Loaded("answer", a).stat = att[a].status
    BY <1>1, LoadedType DEF Op
  <2>2. right \in BOOLEAN
    OBVIOUS
  <2> HIDE DEF right
  <2> QED
    BY <1>3, <2>1, <2>2 DEF Request
<1>5. att[a].status # "none" /\ UNCHANGED <<att, rows, taken>> /\ crashes' \in 0 .. MaxCrashes
  BY <1>1 DEF LoadSubmit, TypeOK
<1>6. Sound(r)
  BY <1>3, <1>4, <1>5 DEF Sound
<1>7. Goto(p, r)
  BY <1>2
<1> HIDE DEF r
<1> QED
  BY <1>4, <1>5, <1>6, <1>7, Quiet

\* The other loads hold an attempt that exists.
LEMMA LoadKeeps ==
  ASSUME IInv, NEW p \in Proc, NEW r \in Request, Goto(p, r),
         att[r.att].status # "none", r.stat = att[r.att].status,
         r.pc \in {"note", "ask", "expire", "extra"}, UNCHANGED <<att, rows, taken, crashes>>
  PROVE  IInv'
<1>1. Sound(r)
  BY DEF Sound
<1>2. crashes' \in 0 .. MaxCrashes
  BY DEF IInv, TypeOK
<1> QED
  BY <1>1, <1>2, Quiet

LEMMA LoadReserves ==
  ASSUME IInv, NEW p \in Proc, NEW r \in Request, Goto(p, r),
         att[r.att].status # "none", r.stat = att[r.att].status,
         r.pc = "reissue", r.slot = taken + 1,
         taken < MaxAttempts, taken' = taken + 1, UNCHANGED <<att, rows, crashes>>
  PROVE  IInv'
<1>1. Sound(r)
  BY DEF Sound
<1> QED
  BY <1>1, Reserve

LEMMA LoadsKeep ==
  ASSUME IInv, NEW p \in Proc, NEW a \in Slot, NEW m \in BOOLEAN
  PROVE  /\ LoadEvents(p, a) => IInv'
         /\ LoadAsk(p, a) => IInv'
         /\ LoadDismiss(p, a) => IInv'
         /\ LoadReissue(p, a) => IInv'
         /\ LoadGrant(p, a, m) => IInv'
         /\ LoadGrantReissue(p, a, m) => IInv'
<1>1. TypeOK
  BY DEF IInv
<1>8. taken < MaxAttempts => taken + 1 \in 0 .. MaxAttempts
  BY <1>1, SizesArePositive DEF TypeOK, Slot
<1>2. ASSUME LoadEvents(p, a) PROVE IInv'
  <2> DEFINE r == [Loaded("events", a) EXCEPT !.pc = "note", !.why = "events"]
  <2>1. Loaded("events", a) \in Request /\ Loaded("events", a).att = a
        /\ Loaded("events", a).stat = att[a].status
    BY <1>1, LoadedType DEF Op
  <2>2. r \in Request /\ r.att = a /\ r.stat = att[a].status /\ r.pc \in {"note", "ask", "expire", "extra"}
    BY <2>1 DEF Request, Part
  <2>3. Goto(p, r) /\ att[a].status # "none" /\ UNCHANGED <<att, rows, taken, crashes>>
    BY <1>2 DEF LoadEvents, Born
  <2> HIDE DEF r
  <2> QED
    BY <2>2, <2>3, LoadKeeps
<1>3. ASSUME LoadAsk(p, a) PROVE IInv'
  <2> DEFINE r == [Loaded("ask", a) EXCEPT !.pc = IF att[a].status = "expired" THEN "ask" ELSE "expire"]
  <2>1. Loaded("ask", a) \in Request /\ Loaded("ask", a).att = a
        /\ Loaded("ask", a).stat = att[a].status
    BY <1>1, LoadedType DEF Op
  <2>2. r \in Request /\ r.att = a /\ r.stat = att[a].status /\ r.pc \in {"note", "ask", "expire", "extra"}
    BY <2>1 DEF Request, Part
  <2>3. Goto(p, r) /\ att[a].status # "none" /\ UNCHANGED <<att, rows, taken, crashes>>
    BY <1>3 DEF LoadAsk
  <2> HIDE DEF r
  <2> QED
    BY <2>2, <2>3, LoadKeeps
<1>4. ASSUME LoadDismiss(p, a) PROVE IInv'
  <2> DEFINE r == [Loaded("dismiss", a) EXCEPT !.pc = "note", !.why = "review"]
  <2>1. Loaded("dismiss", a) \in Request /\ Loaded("dismiss", a).att = a
        /\ Loaded("dismiss", a).stat = att[a].status
    BY <1>1, LoadedType DEF Op
  <2>2. r \in Request /\ r.att = a /\ r.stat = att[a].status /\ r.pc \in {"note", "ask", "expire", "extra"}
    BY <2>1 DEF Request, Part
  <2>3. Goto(p, r) /\ att[a].status # "none" /\ UNCHANGED <<att, rows, taken, crashes>>
    BY <1>4 DEF LoadDismiss, IsLatest, Born
  <2> HIDE DEF r
  <2> QED
    BY <2>2, <2>3, LoadKeeps
<1>5. ASSUME LoadReissue(p, a) PROVE IInv'
  <2> DEFINE r == [Loaded("reissue", a) EXCEPT !.pc = "reissue", !.slot = taken + 1]
  <2>1. Loaded("reissue", a) \in Request /\ Loaded("reissue", a).att = a
        /\ Loaded("reissue", a).stat = att[a].status
    BY <1>1, LoadedType DEF Op
  <2>2. r \in Request /\ r.att = a /\ r.stat = att[a].status /\ r.pc = "reissue" /\ r.slot = taken + 1
    BY <1>1, <1>5, <2>1, <1>8 DEF Request, LoadReissue
  <2>3. /\ Goto(p, r) /\ att[a].status # "none" /\ UNCHANGED <<att, rows, crashes>>
        /\ taken < MaxAttempts /\ taken' = taken + 1
    BY <1>5 DEF LoadReissue, IsLatest, Born
  <2> HIDE DEF r
  <2> QED
    BY <2>2, <2>3, LoadReserves
<1>6. ASSUME LoadGrant(p, a, m) PROVE IInv'
  <2> DEFINE r == [Loaded("grant", a) EXCEPT !.pc = "extra", !.want = m]
  <2>1. Loaded("grant", a) \in Request /\ Loaded("grant", a).att = a
        /\ Loaded("grant", a).stat = att[a].status
    BY <1>1, LoadedType DEF Op
  <2>2. r \in Request /\ r.att = a /\ r.stat = att[a].status /\ r.pc \in {"note", "ask", "expire", "extra"}
    BY <2>1 DEF Request, Part
  <2>3. Goto(p, r) /\ att[a].status # "none" /\ UNCHANGED <<att, rows, taken, crashes>>
    BY <1>6 DEF LoadGrant
  <2> HIDE DEF r
  <2> QED
    BY <2>2, <2>3, LoadKeeps
<1>7. ASSUME LoadGrantReissue(p, a, m) PROVE IInv'
  <2> DEFINE r == [Loaded("grant", a) EXCEPT !.pc = "reissue", !.want = m, !.slot = taken + 1]
  <2>1. Loaded("grant", a) \in Request /\ Loaded("grant", a).att = a
        /\ Loaded("grant", a).stat = att[a].status
    BY <1>1, LoadedType DEF Op
  <2>2. r \in Request /\ r.att = a /\ r.stat = att[a].status /\ r.pc = "reissue" /\ r.slot = taken + 1
    BY <1>1, <1>7, <2>1, <1>8 DEF Request, LoadGrantReissue
  <2>3. /\ Goto(p, r) /\ att[a].status # "none" /\ UNCHANGED <<att, rows, crashes>>
        /\ taken < MaxAttempts /\ taken' = taken + 1
    BY <1>7 DEF LoadGrantReissue, IsLatest, Born
  <2> HIDE DEF r
  <2> QED
    BY <2>2, <2>3, LoadReserves
<1> QED
  BY <1>2, <1>3, <1>4, <1>5, <1>6, <1>7
-----------------------------------------------------------------------------
(***************************************************************************)
(* Requests go on without a commit.                                        *)
(***************************************************************************)
LEMMA AskTeamKeeps ==
  ASSUME IInv, NEW p \in Proc, AskTeam(p) PROVE IInv'
<1> DEFINE r == [req[p] EXCEPT !.pc = "note", !.why = "reissue_requested"]
<1>1. TypeOK /\ Sound(req[p]) /\ req[p] \in Request
  BY AllSound DEF TypeOK
<1>2. /\ r \in Request /\ r.pc = "note"
      /\ r.att = req[p].att /\ r.stat = req[p].stat
  BY <1>1 DEF Request, Part
<1>3. req[p].pc = "ask" /\ Goto(p, r) /\ UNCHANGED <<att, rows, taken>> /\ crashes' \in 0 .. MaxCrashes
  BY <1>1 DEF AskTeam, TypeOK
<1>4. Sound(r)
  BY <1>1, <1>2, <1>3 DEF Sound
<1> HIDE DEF r
<1> QED
  BY <1>2, <1>3, <1>4, Quiet

LEMMA AutoReissueKeeps ==
  ASSUME IInv, NEW p \in Proc, AutoReissue(p) PROVE IInv'
<1> DEFINE r == [req[p] EXCEPT !.pc = "reissue", !.slot = taken + 1]
<1>1. TypeOK /\ Sound(req[p]) /\ req[p] \in Request
  BY AllSound DEF TypeOK
<1>2. /\ req[p].pc = "ask" /\ Goto(p, r) /\ UNCHANGED <<att, rows, crashes>>
      /\ taken < MaxAttempts /\ taken' = taken + 1
  BY DEF AutoReissue
<1>3. taken + 1 \in 0 .. MaxAttempts
  BY <1>1, <1>2, SizesArePositive DEF TypeOK, Slot
<1>4. /\ r \in Request /\ r.pc = "reissue" /\ r.slot = taken + 1
      /\ r.att = req[p].att /\ r.stat = req[p].stat
  BY <1>1, <1>3 DEF Request
<1>5. Sound(r)
  BY <1>1, <1>2, <1>4 DEF Sound
<1> HIDE DEF r
<1> QED
  BY <1>2, <1>4, <1>5, Reserve

LEMMA EndKeeps ==
  ASSUME IInv, NEW p \in Proc, Done(p), UNCHANGED <<att, rows, taken>>, crashes' \in 0 .. MaxCrashes
  PROVE  IInv'
<1>1. Goto(p, Idle) /\ Idle.pc # "reissue"
  BY DEF Done, Idle
<1> QED
  BY <1>1, IdleType, IdleIsSound, Quiet

LEMMA ReadAnswersKeeps ==
  ASSUME IInv, NEW p \in Proc, ReadAnswers(p) PROVE IInv'
<1> DEFINE r == [req[p] EXCEPT !.pc = "decide", !.seen = rows[req[p].att]]
<1>1. TypeOK /\ Sound(req[p]) /\ req[p] \in Request
  BY AllSound DEF TypeOK
<1>2. rows[req[p].att] \in Seq(Row)
  BY <1>1 DEF TypeOK, Request
<1>3. /\ r \in Request /\ r.pc = "decide" /\ r.seen = rows[req[p].att]
      /\ r.att = req[p].att /\ r.stat = req[p].stat
  BY <1>1, <1>2 DEF Request
<1>4. req[p].pc # "idle" /\ Goto(p, r) /\ UNCHANGED <<att, rows, taken>> /\ crashes' \in 0 .. MaxCrashes
  BY <1>1 DEF ReadAnswers, TypeOK
<1>5. Len(r.seen) <= Len(rows[r.att]) /\ \A i \in 1 .. Len(r.seen) : r.seen[i].q = rows[r.att][i].q
  BY <1>2, <1>3
<1>6. Sound(r)
  BY <1>1, <1>3, <1>4, <1>5 DEF Sound
<1> HIDE DEF r
<1> QED
  BY <1>3, <1>4, <1>6, Quiet

LEMMA FinalScoreType ==
  ASSUME TypeOK, NEW p \in Proc PROVE FinalScore(p) \in Nat
<1> DEFINE S == rows[req[p].att]
           seen == req[p].seen
           T == [i \in DOMAIN S |-> IF i \in DOMAIN seen THEN seen[i] ELSE S[i]]
           X == {i \in DOMAIN T : T[i].right}
<1>1. S \in Seq(Row)
  BY DEF TypeOK, Request
<1>2. DOMAIN S = 1 .. Len(S) /\ Len(S) \in Nat /\ DOMAIN T = DOMAIN S
  BY <1>1
<1>3. IsFiniteSet(1 .. Len(S)) /\ X \subseteq 1 .. Len(S)
  BY <1>2, FS_Interval
<1> HIDE DEF X
<1>4. Cardinality(X) \in Nat
  BY <1>3, FS_Subset, FS_CardinalityType
<1>5. FinalScore(p) = Cardinality(X)
  BY DEF FinalScore, Right, X
<1> QED
  BY <1>4, <1>5

LEMMA ReadScoreKeeps ==
  ASSUME IInv, NEW p \in Proc, ReadScore(p) PROVE IInv'
<1> DEFINE score == FinalScore(p)
           r == [req[p] EXCEPT !.pc = "score", !.score = score]
<1>1. TypeOK /\ Sound(req[p]) /\ req[p] \in Request
  BY AllSound DEF TypeOK
<1>2. score \in Int
  BY <1>1, FinalScoreType
<1>3. req[p].pc = "decide" /\ Goto(p, r) /\ UNCHANGED <<att, rows, taken>> /\ crashes' \in 0 .. MaxCrashes
      /\ Remaining(req[p].seen) = {}
  BY <1>1 DEF ReadScore, Exhausted, TypeOK
<1> HIDE DEF score
<1>4. /\ r \in Request /\ r.pc = "score" /\ r.seen = req[p].seen
      /\ r.att = req[p].att /\ r.stat = req[p].stat
  BY <1>1, <1>2 DEF Request
<1>5. Sound(r)
  BY <1>1, <1>3, <1>4 DEF Sound
<1> HIDE DEF r
<1> QED
  BY <1>3, <1>4, <1>5, Quiet
-----------------------------------------------------------------------------
(***************************************************************************)
(* Commits.                                                                *)
(***************************************************************************)
\* The request that commits has ended; the others are where they were.
LEMMA OneEnds ==
  ASSUME TypeOK, NEW p \in Proc, Done(p)
  PROVE  /\ req' \in [Proc -> Request]
         /\ \A o \in Proc : req'[o] = req[o] \/ req'[o].pc = "idle"
<1>1. /\ req' \in [Proc -> Request] /\ req'[p] = Idle
      /\ \A o \in Proc : o # p => req'[o] = req[o]
  BY IdleType, ReqUpdate DEF Done
<1> QED
  BY <1>1 DEF Idle

LEMMA CommitAttempt ==
  ASSUME IInv, NEW a \in Slot, NEW x \in Attempt, SetAttempt(a, x), UNCHANGED <<rows, taken, crashes>>,
         req' \in [Proc -> Request],
         \A o \in Proc : req'[o] = req[o] \/ Settled(req'[o], a, x),
         att[a].status # "none", x.status # "none", x.score = att[a].score,
         x.status = "pending" => att[a].status = "pending"
  PROVE  IInv'
<1>1. TypeOK /\ rows[a] \in Seq(Row)
  BY DEF IInv, TypeOK
<1>2. rows' = [rows EXCEPT ![a] = rows[a]] /\ att' = [att EXCEPT ![a] = x]
  BY <1>1 DEF TypeOK, SetAttempt
<1>3. InOrder(rows[a]) /\ Grows(rows[a], rows[a])
  BY <1>1, GrowsRefl DEF IInv, ServedInOrder
<1>4. x.score # NoScore => Remaining(rows[a]) = {}
  BY DEF IInv, ScoredWasServed
<1>5. x.status = "pending" => att[a].status = "pending" /\ rows[a] = <<>> /\ x.score = NoScore
  BY DEF IInv, PendingIsUnseen
<1> QED
  BY <1>1, <1>2, <1>3, <1>4, <1>5, Commit

LEMMA CommitRows ==
  ASSUME IInv, NEW a \in Slot, NEW S \in Seq(Row), SetRows(a, S), UNCHANGED <<att, taken, crashes>>,
         req' \in [Proc -> Request],
         \A o \in Proc : req'[o] = req[o] \/ req'[o].pc = "idle",
         rows[a] # <<>>, Len(S) = Len(rows[a]), Grows(rows[a], S)
  PROVE  IInv'
<1>1. TypeOK /\ rows[a] \in Seq(Row) /\ att[a] \in Attempt
  BY DEF IInv, TypeOK
<1>2. rows' = [rows EXCEPT ![a] = S] /\ att' = [att EXCEPT ![a] = att[a]]
  BY <1>1 DEF TypeOK, SetRows
<1>3. InOrder(S)
  BY <1>1, SameServed DEF IInv, ServedInOrder
<1>4. att[a].score # NoScore => Remaining(S) = {}
  BY <1>1, GrowsServed DEF IInv, ScoredWasServed
<1>5. att[a].status \notin {"none", "pending"}
  BY DEF IInv, PendingIsUnseen
<1>6. \A o \in Proc : req'[o] = req[o] \/ Settled(req'[o], a, att[a])
  BY DEF Settled
<1> QED
  BY <1>1, <1>2, <1>3, <1>4, <1>5, <1>6, Commit

LEMMA ExpireKeeps ==
  ASSUME IInv, NEW p \in Proc, Expire(p) PROVE IInv'
<1> DEFINE a == req[p].att
           x == [att[a] EXCEPT !.status = "expired"]
           r == IF req[p].op = "ask" THEN [req[p] EXCEPT !.pc = "ask", !.stat = "expired"] ELSE Idle
<1>1. TypeOK /\ Sound(req[p]) /\ req[p] \in Request /\ a \in Slot /\ att[a] \in Attempt
  BY AllSound DEF TypeOK, Request
<1>2. req[p].pc = "expire" /\ SetAttempt(a, x) /\ Goto(p, r) /\ UNCHANGED <<rows, taken, crashes>>
  BY DEF Expire
<1>3. att[a].status # "none"
  BY <1>1, <1>2 DEF Sound
<1>4. x \in Attempt /\ x.status = "expired" /\ x.score = att[a].score
  BY <1>1 DEF Attempt, Status
<1>5. r \in Request /\ (r.pc = "idle" \/ (r.pc = "ask" /\ r.stat = "expired" /\ r.att = a))
  BY <1>1, IdleType DEF Request, Status, Idle
<1> HIDE DEF r, x
<1>6. req' \in [Proc -> Request] /\ \A o \in Proc : req'[o] = req[o] \/ Settled(req'[o], a, x)
  BY <1>1, <1>2, <1>4, <1>5, ReqUpdate DEF Settled
<1> QED
  BY <1>1, <1>2, <1>3, <1>4, <1>6, CommitAttempt

LEMMA WriteNoteKeeps ==
  ASSUME IInv, NEW p \in Proc, WriteNote(p) PROVE IInv'
<1> DEFINE a == req[p].att
           x == [att[a] EXCEPT !.parts = req[p].parts \cup {req[p].why}]
<1>1. TypeOK /\ Sound(req[p]) /\ req[p] \in Request /\ a \in Slot /\ att[a] \in Attempt
  BY AllSound DEF TypeOK, Request
<1>2. req[p].pc = "note" /\ SetAttempt(a, x) /\ Done(p) /\ UNCHANGED <<rows, taken, crashes>>
  BY DEF WriteNote
<1>3. att[a].status # "none"
  BY <1>1, <1>2 DEF Sound
<1>4. x \in Attempt /\ x.status = att[a].status /\ x.score = att[a].score
  BY <1>1 DEF Attempt, Request
<1> HIDE DEF x
<1>5. req' \in [Proc -> Request] /\ \A o \in Proc : req'[o] = req[o] \/ Settled(req'[o], a, x)
  BY <1>1, <1>2, OneEnds DEF Settled
<1> QED
  BY <1>1, <1>2, <1>3, <1>4, <1>5, CommitAttempt

LEMMA GrantExtraKeeps ==
  ASSUME IInv, NEW p \in Proc, GrantExtra(p) PROVE IInv'
<1> DEFINE a == req[p].att
           loaded == req[p].parts
           parts == IF req[p].want THEN loaded \cup {"accommodation"} ELSE loaded \ {"accommodation"}
           e == IF req[p].want # req[p].extra THEN req[p].want ELSE att[a].extra
           ps == IF req[p].want \/ parts # loaded THEN parts ELSE att[a].parts
           x == [att[a] EXCEPT !.extra = e, !.parts = ps]
<1>1. TypeOK /\ Sound(req[p]) /\ req[p] \in Request /\ a \in Slot /\ att[a] \in Attempt
  BY AllSound DEF TypeOK, Request
<1>2. req[p].pc = "extra" /\ SetAttempt(a, x) /\ Done(p) /\ UNCHANGED <<rows, taken, crashes>>
  BY DEF GrantExtra
<1>3. att[a].status # "none"
  BY <1>1, <1>2 DEF Sound
<1>4. e \in BOOLEAN /\ ps \in SUBSET Part
  <2>1. req[p].want \in BOOLEAN /\ att[a].extra \in BOOLEAN
    BY <1>1 DEF Request, Attempt
  <2>2. loaded \in SUBSET Part /\ att[a].parts \in SUBSET Part /\ "accommodation" \in Part
    BY <1>1 DEF Request, Attempt, Part
  <2> QED
    BY <2>1, <2>2
<1> HIDE DEF e, ps
<1>5. x \in Attempt /\ x.status = att[a].status /\ x.score = att[a].score
  BY <1>1, <1>4 DEF Attempt
<1> HIDE DEF x
<1>6. req' \in [Proc -> Request] /\ \A o \in Proc : req'[o] = req[o] \/ Settled(req'[o], a, x)
  BY <1>1, <1>2, OneEnds DEF Settled
<1> QED
  BY <1>1, <1>2, <1>3, <1>5, <1>6, CommitAttempt

LEMMA LapseKeeps ==
  ASSUME IInv, NEW a \in Slot, Lapse(a) PROVE IInv'
<1> DEFINE x == [att[a] EXCEPT !.lapsed = TRUE]
<1>1. TypeOK /\ att[a] \in Attempt /\ req \in [Proc -> Request]
  BY DEF IInv, TypeOK
<1>2. SetAttempt(a, x) /\ req' = req /\ UNCHANGED <<rows, taken, crashes>> /\ att[a].status = "pending"
  BY DEF Lapse
<1>3. x \in Attempt /\ x.status = att[a].status /\ x.score = att[a].score
  BY <1>1 DEF Attempt
<1> HIDE DEF x
<1> QED
  BY <1>1, <1>2, <1>3, CommitAttempt

LEMMA DeadlineKeeps ==
  ASSUME IInv, NEW a \in Slot, NEW i \in DOMAIN rows[a], Deadline(a, i) PROVE IInv'
<1> DEFINE r == [rows[a][i] EXCEPT !.due = TRUE]
           S == [rows[a] EXCEPT ![i] = r]
<1>1. TypeOK /\ rows[a] \in Seq(Row) /\ req \in [Proc -> Request]
  BY DEF IInv, TypeOK
<1>2. SetRows(a, S) /\ req' = req /\ UNCHANGED <<att, taken, crashes>>
  BY DEF Deadline
<1>3. rows[a][i] \in Row
  BY <1>1
<1>4. r \in Row /\ KeepsRow(rows[a][i], r)
  BY <1>3 DEF Row, KeepsRow
<1> HIDE DEF r
<1>5. S \in Seq(Row) /\ Len(S) = Len(rows[a]) /\ Grows(rows[a], S)
  BY <1>1, <1>4, ExceptGrows
<1>6. rows[a] # <<>>
  OBVIOUS
<1> HIDE DEF S
<1> QED
  BY <1>1, <1>2, <1>5, <1>6, CommitRows

LEMMA SubmitKeeps ==
  ASSUME IInv, NEW p \in Proc, Submit(p) PROVE IInv'
<1> DEFINE a == req[p].att
           i == req[p].row
           r == Answered(rows[a][i], req[p].right)
           S == [rows[a] EXCEPT ![i] = r]
<1>1. TypeOK /\ Sound(req[p]) /\ req[p] \in Request /\ a \in Slot /\ rows[a] \in Seq(Row)
  BY AllSound DEF TypeOK, Request
<1>2. req[p].pc = "submit" /\ SetRows(a, S) /\ Done(p) /\ UNCHANGED <<att, taken, crashes>>
  BY DEF Submit
<1>3. i \in DOMAIN rows[a] /\ rows[a][i] \in Row /\ req[p].right \in BOOLEAN
  BY <1>1, <1>2 DEF Sound, Request
<1>4. r \in Row /\ KeepsRow(rows[a][i], r)
  BY <1>3 DEF Answered, Row, KeepsRow
<1> HIDE DEF r
<1>5. S \in Seq(Row) /\ Len(S) = Len(rows[a]) /\ Grows(rows[a], S)
  BY <1>1, <1>3, <1>4, ExceptGrows
<1>6. rows[a] # <<>>
  BY <1>3
<1> HIDE DEF S
<1>7. req' \in [Proc -> Request] /\ \A o \in Proc : req'[o] = req[o] \/ req'[o].pc = "idle"
  BY <1>1, <1>2, OneEnds
<1> QED
  BY <1>1, <1>2, <1>5, <1>6, <1>7, CommitRows

\* The attempt as the commit of a /next leaves it: no longer pending.
LEMMA StartedAttempt ==
  ASSUME IInv, NEW p \in Proc, req[p].pc = "decide", CommitStarted(p)
  PROVE  \E x \in Attempt : /\ SetAttempt(req[p].att, x)
                             /\ x.status \notin {"none", "pending"}
                             /\ x.score = att[req[p].att].score
<1> DEFINE a == req[p].att
           y == [att[a] EXCEPT !.status = "in_progress"]
<1>1. TypeOK /\ Sound(req[p]) /\ a \in Slot /\ att[a] \in Attempt
  BY AllSound DEF TypeOK, Request
<1>2. y \in Attempt /\ y.status = "in_progress" /\ y.score = att[a].score
  BY <1>1 DEF Attempt, Status
<1>3. CASE req[p].stat = "pending"
  <2>1. SetAttempt(a, y)
    BY <1>3 DEF CommitStarted
  <2> HIDE DEF y
  <2> QED
    BY <1>2, <2>1
<1>4. CASE req[p].stat # "pending"
  <2>1. SetAttempt(a, att[a])
    BY <1>1, <1>4 DEF CommitStarted, SetAttempt, TypeOK
  <2>2. att[a].status \notin {"none", "pending"}
    BY <1>1, <1>4 DEF Sound
  <2> QED
    BY <1>1, <2>1, <2>2
<1> QED
  BY <1>3, <1>4

LEMMA ReturnOpenKeeps ==
  ASSUME IInv, NEW p \in Proc, ReturnOpen(p) PROVE IInv'
<1> DEFINE a == req[p].att
<1>1. TypeOK /\ Sound(req[p]) /\ a \in Slot /\ rows[a] \in Seq(Row)
  BY AllSound DEF TypeOK, Request
<1>2. req[p].pc = "decide" /\ CommitStarted(p) /\ Done(p) /\ UNCHANGED <<taken, crashes>>
  BY DEF ReturnOpen
<1>3. PICK M : SetRows(a, Resolved(rows[a], M))
  BY DEF ReturnOpen
<1>4. PICK x \in Attempt :
        SetAttempt(a, x) /\ x.status \notin {"none", "pending"} /\ x.score = att[a].score
  BY <1>2, StartedAttempt
<1> DEFINE S == Resolved(rows[a], M)
<1>5. S \in Seq(Row) /\ Len(S) = Len(rows[a]) /\ Grows(rows[a], S)
  BY <1>1, ResolvedGrows
<1>6. SetRows(a, S)
  BY <1>3
<1> HIDE DEF S
<1>7. InOrder(S)
  BY <1>1, <1>5, SameServed DEF IInv, ServedInOrder
<1>8. x.score # NoScore => Remaining(S) = {}
  BY <1>1, <1>4, <1>5, GrowsServed DEF IInv, ScoredWasServed
<1>9. req' \in [Proc -> Request] /\ \A o \in Proc : req'[o] = req[o] \/ Settled(req'[o], a, x)
  BY <1>1, <1>2, OneEnds DEF Settled
<1>10. att[a].status # "none"
  BY <1>1, <1>2 DEF Sound
<1> QED
  BY <1>1, <1>2, <1>4, <1>5, <1>6, <1>7, <1>8, <1>9, <1>10, Commit DEF SetAttempt, SetRows

LEMMA ServeNextKeeps ==
  ASSUME IInv, NEW p \in Proc, ServeNext(p) PROVE IInv'
<1> DEFINE a == req[p].att
           seen == req[p].seen
           T == Resolved(rows[a], Missed(p))
<1>1. TypeOK /\ Sound(req[p]) /\ req[p] \in Request /\ a \in Slot /\ rows[a] \in Seq(Row)
  BY AllSound DEF TypeOK, Request
<1>2. req[p].pc = "decide" /\ CommitStarted(p) /\ Done(p) /\ UNCHANGED <<taken, crashes>>
  BY DEF ServeNext
<1>3. PICK q \in Frozen :
        /\ IsNext(q, seen)
        /\ SetRows(a, Append(T, [q |-> q, open |-> TRUE, right |-> FALSE, due |-> FALSE,
                                 extra |-> req[p].extra]))
  BY DEF ServeNext
<1> DEFINE r == [q |-> q, open |-> TRUE, right |-> FALSE, due |-> FALSE, extra |-> req[p].extra]
           S == Append(T, r)
<1>4. PICK x \in Attempt :
        SetAttempt(a, x) /\ x.status \notin {"none", "pending"} /\ x.score = att[a].score
  BY <1>2, StartedAttempt
<1>5. r \in Row /\ r.q = q
  BY <1>1 DEF Row, Request
<1>6. T \in Seq(Row) /\ Len(T) = Len(rows[a]) /\ Grows(rows[a], T)
  BY <1>1, ResolvedGrows
<1>7. SetRows(a, S)
  BY <1>3
<1> HIDE DEF T, r
<1>8. InOrder(T)
  BY <1>1, <1>6, SameServed DEF IInv, ServedInOrder
<1>9. \A k \in Frozen : k < r.q => k \in Served(T)
  <2>1. SUFFICES ASSUME NEW k \in Frozen, k < q PROVE k \in Served(T)
    BY <1>5
  <2>2. k \notin Remaining(seen)
    BY <1>3, <2>1, SizesArePositive DEF IsNext, Frozen, Remaining
  <2>3. PICK i \in DOMAIN seen : seen[i].q = k
    BY <2>1, <2>2 DEF Remaining, Served
  <2>4. seen \in Seq(Row)
    BY <1>1 DEF Request
  <2>5. i \in 1 .. Len(seen) /\ i \in 1 .. Len(rows[a]) /\ rows[a][i].q = k
    BY <1>1, <1>2, <2>3, <2>4 DEF Sound
  <2>6. i \in DOMAIN T /\ T[i].q = k
    BY <1>1, <1>6, <2>5 DEF Grows, KeepsRow
  <2> QED
    BY <2>6 DEF Served
<1>10. S \in Seq(Row) /\ Grows(T, S) /\ InOrder(S)
  BY <1>5, <1>6, <1>8, <1>9, GrowsRefl, AppendGrows
<1>11. Grows(rows[a], S)
  BY <1>1, <1>6, <1>10 DEF Grows, KeepsRow
<1> HIDE DEF S
<1>12. x.score # NoScore => Remaining(S) = {}
  BY <1>1, <1>4, <1>10, <1>11, GrowsServed DEF IInv, ScoredWasServed
<1>13. req' \in [Proc -> Request] /\ \A o \in Proc : req'[o] = req[o] \/ Settled(req'[o], a, x)
  BY <1>1, <1>2, OneEnds DEF Settled
<1>14. att[a].status # "none"
  BY <1>1, <1>2 DEF Sound
<1> QED
  BY <1>1, <1>2, <1>4, <1>7, <1>10, <1>11, <1>12, <1>13, <1>14, Commit DEF SetAttempt, SetRows

LEMMA FinalizeKeeps ==
  ASSUME IInv, NEW p \in Proc, Finalize(p) PROVE IInv'
<1> DEFINE a == req[p].att
           S == Resolved(rows[a], Missed(p))
           x == [att[a] EXCEPT !.status = "completed", !.score = req[p].score,
                               !.parts = req[p].parts \cup {"flags"}]
<1>1. TypeOK /\ Sound(req[p]) /\ req[p] \in Request /\ a \in Slot
      /\ rows[a] \in Seq(Row) /\ att[a] \in Attempt
  BY AllSound DEF TypeOK, Request
<1>2. /\ req[p].pc = "score" /\ SetRows(a, S) /\ SetAttempt(a, x) /\ Done(p)
      /\ UNCHANGED <<taken, crashes>>
  BY DEF Finalize
<1>3. x \in Attempt /\ x.status = "completed"
  BY <1>1 DEF Attempt, Request, Status, Part
<1>4. S \in Seq(Row) /\ Len(S) = Len(rows[a]) /\ Grows(rows[a], S)
  BY <1>1, ResolvedGrows
<1> HIDE DEF S, x
<1>5. InOrder(S)
  BY <1>1, <1>4, SameServed DEF IInv, ServedInOrder
<1>6. Remaining(S) = {}
  <2>1. Remaining(req[p].seen) = {} /\ req[p].seen \in Seq(Row)
    BY <1>1, <1>2 DEF Sound, Request
  <2>2. Served(req[p].seen) \subseteq Served(rows[a])
    BY <1>1, <1>2, <2>1 DEF Served, Sound
  <2>3. Remaining(rows[a]) = {}
    BY <2>1, <2>2 DEF Remaining
  <2> QED
    BY <1>1, <1>4, <2>3, GrowsServed
<1>7. req' \in [Proc -> Request] /\ \A o \in Proc : req'[o] = req[o] \/ Settled(req'[o], a, x)
  BY <1>1, <1>2, OneEnds DEF Settled
<1>8. att[a].status # "none"
  BY <1>1, <1>2 DEF Sound
<1> QED
  BY <1>1, <1>2, <1>3, <1>4, <1>5, <1>6, <1>7, <1>8, Commit DEF SetAttempt, SetRows

\* The loaded attempt is dead, the rank taken holds a pending attempt without
\* rows, and the request has ended.
LEMMA ReissueKeeps ==
  ASSUME IInv, NEW p \in Proc, Reissue(p) PROVE IInv'
<1> DEFINE a == req[p].att
           s == req[p].slot
<1>1. TypeOK /\ ServedInOrder /\ ScoredWasServed /\ PendingIsUnseen /\ RanksAreOwn
      /\ \A o \in Proc : Sound(req[o])
  BY AllSound
<1>2. req[p] \in Request /\ a \in Slot /\ req[p].pc = "reissue"
  BY <1>1 DEF TypeOK, Request, Reissue
<1>3. s \in Slot /\ s <= taken /\ att[s].status = "none" /\ rows[s] = <<>>
  BY <1>1, <1>2, SizesArePositive DEF RanksAreOwn, PendingIsUnseen, TypeOK, Slot
<1>4. att[a].status # "none" /\ a # s
  BY <1>1, <1>2, <1>3 DEF Sound
<1>5. PICK fresh \in Attempt :
        /\ fresh.status = "pending" /\ fresh.score = NoScore
        /\ att' = [b \in Slot |-> IF b = s THEN fresh
                                  ELSE IF b = a /\ Supersedes(p)
                                         THEN [att[b] EXCEPT !.status = "invalidated"]
                                         ELSE att[b]]
  <2> DEFINE stamped == req[p].want /\ (req[p].op = "grant" \/ "accommodation" \in req[p].parts)
             parts == (IF stamped THEN {"accommodation"} ELSE {})
                         \cup (IF req[p].op = "ask" THEN {"auto"} ELSE {})
             f == Fresh(req[p].want, parts)
  <2>1. parts \in SUBSET Part
    BY DEF Part
  <2>2. req[p].want \in BOOLEAN
    BY <1>2 DEF Request
  <2>3. att' = [b \in Slot |-> IF b = s THEN f
                               ELSE IF b = a /\ Supersedes(p)
                                      THEN [att[b] EXCEPT !.status = "invalidated"]
                                      ELSE att[b]]
    BY DEF Reissue
  <2> HIDE DEF parts
  <2>4. f \in Attempt /\ f.status = "pending" /\ f.score = NoScore
    BY <2>1, <2>2 DEF Fresh, Attempt, Status, NoScore
  <2> HIDE DEF f
  <2> QED
    BY <2>3, <2>4
<1>6. PICK x \in Attempt :
        /\ x.score = att[a].score
        /\ x = att[a] \/ x.status = "invalidated"
        /\ att' = [b \in Slot |-> IF b = s THEN fresh ELSE IF b = a THEN x ELSE att[b]]
  <2> DEFINE y == [att[a] EXCEPT !.status = "invalidated"]
  <2>1. att[a] \in Attempt
    BY <1>1, <1>2 DEF TypeOK
  <2>2. y \in Attempt /\ y.status = "invalidated" /\ y.score = att[a].score
    BY <2>1 DEF Attempt, Status
  <2>3. CASE Supersedes(p)
    <3>1. att' = [b \in Slot |-> IF b = s THEN fresh ELSE IF b = a THEN y ELSE att[b]]
      BY <1>5, <2>3
    <3> HIDE DEF y
    <3> QED
      BY <2>2, <3>1
  <2>4. CASE ~Supersedes(p)
    <3>1. att' = [b \in Slot |-> IF b = s THEN fresh ELSE IF b = a THEN att[a] ELSE att[b]]
      BY <1>5, <2>4
    <3> QED
      BY <2>1, <3>1
  <2> QED
    BY <2>3, <2>4
<1>7. /\ att'[s] = fresh /\ att'[a] = x
      /\ \A b \in Slot : b # s /\ b # a => att'[b] = att[b]
  BY <1>2, <1>3, <1>4, <1>6
<1>8. att' \in [Slot -> Attempt]
  BY <1>1, <1>5, <1>6 DEF TypeOK
<1>9. rows' = rows /\ taken' = taken /\ crashes' = crashes /\ Done(p)
  BY DEF Reissue
<1>10. /\ req' \in [Proc -> Request] /\ req'[p] = Idle
       /\ \A o \in Proc : o # p => req'[o] = req[o]
  BY <1>1, <1>9, IdleType, ReqUpdate DEF Done
<1>11. TypeOK'
  BY <1>1, <1>8, <1>9, <1>10 DEF TypeOK
<1>12. ServedInOrder'
  BY <1>1, <1>9 DEF ServedInOrder
<1>13. ScoredWasServed'
  BY <1>1, <1>5, <1>6, <1>7, <1>9 DEF ScoredWasServed
<1>14. PendingIsUnseen'
  BY <1>1, <1>3, <1>5, <1>6, <1>7, <1>9 DEF PendingIsUnseen
<1>15. ASSUME NEW o \in Proc PROVE Sound(req[o])'
  <2>1. CASE o = p
    BY <1>10, <2>1 DEF Sound, Idle
  <2>2. CASE o # p
    <3>1. Sound(req[o]) /\ req[o].att \in Slot /\ req'[o] = req[o]
      BY <1>1, <1>10, <2>2 DEF TypeOK, Request
    <3>2. ASSUME req[o].pc # "idle"
          PROVE  /\ att'[req[o].att].status # "none"
                 /\ req[o].stat # "pending" => att'[req[o].att].status # "pending"
      <4>1. req[o].att # s
        BY <1>3, <3>1, <3>2 DEF Sound
      <4>2. CASE req[o].att = a
        BY <1>4, <1>6, <1>7, <3>1, <3>2, <4>2 DEF Sound
      <4>3. CASE req[o].att # a
        BY <1>7, <3>1, <3>2, <4>1, <4>3 DEF Sound
      <4> QED
        BY <4>2, <4>3
    <3> QED
      BY <1>9, <3>1, <3>2 DEF Sound
  <2> QED
    BY <2>1, <2>2
<1>16. RanksAreOwn'
  <2>1. ASSUME NEW b \in Slot, b > taken PROVE att'[b].status = "none"
    <3>1. b # s /\ att[b].status = "none"
      BY <1>1, <1>3, <2>1 DEF RanksAreOwn, TypeOK, Slot
    <3> QED
      BY <1>4, <1>7, <3>1
  <2>2. ASSUME NEW o \in Proc, o # p, req[o].pc = "reissue"
        PROVE  att'[req[o].slot].status = "none" /\ req[o].slot \in 1 .. taken
    <3>1. /\ req[o].slot \in 1 .. taken /\ att[req[o].slot].status = "none"
          /\ req[o].slot # s
      BY <1>1, <1>2, <2>2 DEF RanksAreOwn
    <3>2. req[o].slot \in Slot
      BY <1>1, <3>1, SizesArePositive DEF TypeOK, Slot
    <3> QED
      BY <1>4, <1>7, <3>1, <3>2
  <2> QED
    BY <1>1, <1>9, <1>10, <2>1, <2>2 DEF RanksAreOwn, Idle
<1>17. SeenIsPast' /\ ScorerSawAll' /\ LoadedIsBorn'
  BY <1>15 DEF Sound, SeenIsPast, ScorerSawAll, LoadedIsBorn
<1> QED
  BY <1>11, <1>12, <1>13, <1>14, <1>16, <1>17 DEF IInv
-----------------------------------------------------------------------------
(***************************************************************************)
(* The theorems.                                                           *)
(***************************************************************************)
LEMMA InitIInv == ASSUME Init PROVE IInv
<1>1. Fresh(FALSE, {}) \in Attempt /\ NoAttempt \in Attempt
  BY DEF Fresh, NoAttempt, Attempt, Status, NoScore
<1>2. <<>> \in Seq(Row) /\ 1 \in Slot /\ 0 \in 0 .. MaxCrashes
  BY SizesArePositive DEF Slot
<1>3. TypeOK
  BY <1>1, <1>2, IdleType DEF Init, TypeOK
<1>4. \A a \in Slot : rows[a] = <<>> /\ att[a].score = NoScore
  BY DEF Init, Fresh, NoAttempt
<1>5. ServedInOrder /\ ScoredWasServed /\ PendingIsUnseen
  BY <1>4 DEF ServedInOrder, InOrder, ScoredWasServed, PendingIsUnseen
<1>6. RanksAreOwn
  <2>1. ASSUME NEW a \in Slot, a > taken PROVE att[a].status = "none"
    <3>1. a # 1
      BY <2>1, SizesArePositive DEF Init, Slot
    <3>2. att[a] = NoAttempt
      BY <3>1 DEF Init
    <3> QED
      BY <3>2 DEF NoAttempt
  <2>2. \A p \in Proc : req[p].pc # "reissue"
    BY DEF Init, Idle
  <2> QED
    BY <2>1, <2>2 DEF RanksAreOwn
<1>7. \A p \in Proc : Sound(req[p])
  BY IdleIsSound DEF Init
<1> QED
  BY <1>3, <1>5, <1>6, <1>7, AllSound

LEMMA TabStepKeeps ==
  ASSUME IInv, NEW p \in Tab, TabStep(p) PROVE IInv'
<1>0. p \in Proc /\ FALSE \in BOOLEAN
  BY DEF Proc
<1>1. CASE \E a \in Slot : LoadNext(p, a) \/ LoadEvents(p, a) \/ LoadAsk(p, a)
  BY <1>0, <1>1, LoadNextKeeps, LoadsKeep
<1>2. CASE \E a \in Slot : \E i \in DOMAIN rows[a] : LoadSubmit(p, a, i)
  BY <1>0, <1>2, LoadSubmitKeeps
<1>3. CASE Expire(p)
  BY <1>0, <1>3, ExpireKeeps
<1>4. CASE ReadAnswers(p)
  BY <1>0, <1>4, ReadAnswersKeeps
<1>5. CASE ReturnOpen(p)
  BY <1>0, <1>5, ReturnOpenKeeps
<1>6. CASE ServeNext(p)
  BY <1>0, <1>6, ServeNextKeeps
<1>7. CASE ReadScore(p)
  BY <1>0, <1>7, ReadScoreKeeps
<1>8. CASE Finalize(p)
  BY <1>0, <1>8, FinalizeKeeps
<1>9. CASE Submit(p)
  BY <1>0, <1>9, SubmitKeeps
<1>10. CASE WriteNote(p)
  BY <1>0, <1>10, WriteNoteKeeps
<1>11. CASE RefuseAsk(p)
  BY <1>0, <1>11, EndKeeps DEF RefuseAsk, IInv, TypeOK
<1>12. CASE AutoReissue(p)
  BY <1>0, <1>12, AutoReissueKeeps
<1>13. CASE AskTeam(p)
  BY <1>0, <1>13, AskTeamKeeps
<1>14. CASE Reissue(p)
  BY <1>0, <1>14, ReissueKeeps
<1> QED
  BY <1>1, <1>2, <1>3, <1>4, <1>5, <1>6, <1>7, <1>8, <1>9, <1>10, <1>11, <1>12, <1>13, <1>14
     DEF TabStep

LEMMA StaffStepKeeps ==
  ASSUME IInv, NEW p \in Staff, StaffStep(p) PROVE IInv'
<1>0. p \in Proc /\ FALSE \in BOOLEAN
  BY DEF Proc
<1>1. CASE \E a \in Slot : LoadReissue(p, a) \/ LoadDismiss(p, a)
  BY <1>0, <1>1, LoadsKeep
<1>2. CASE \E a \in Slot : \E m \in BOOLEAN : LoadGrant(p, a, m) \/ LoadGrantReissue(p, a, m)
  BY <1>0, <1>2, LoadsKeep
<1>3. CASE GrantExtra(p)
  BY <1>0, <1>3, GrantExtraKeeps
<1>4. CASE Reissue(p)
  BY <1>0, <1>4, ReissueKeeps
<1>5. CASE WriteNote(p)
  BY <1>0, <1>5, WriteNoteKeeps
<1> QED
  BY <1>1, <1>2, <1>3, <1>4, <1>5 DEF StaffStep

LEMMA StepKeeps == ASSUME IInv, [Next]_vars PROVE IInv'
<1>1. CASE \E p \in Tab : TabStep(p)
  BY <1>1, TabStepKeeps
<1>2. CASE \E p \in Staff : StaffStep(p)
  BY <1>2, StaffStepKeeps
<1>3. ASSUME NEW p \in Proc, Crash(p) PROVE IInv'
  <2>1. crashes' \in 0 .. MaxCrashes
    BY <1>3, SizesArePositive DEF Crash, IInv, TypeOK
  <2> QED
    BY <1>3, <2>1, EndKeeps DEF Crash
<1>4. CASE Time
  BY <1>4, LapseKeeps, DeadlineKeeps DEF Time
<1>5. CASE UNCHANGED vars
  BY <1>5 DEF vars, IInv, TypeOK, ServedInOrder, ScoredWasServed, PendingIsUnseen,
              SeenIsPast, ScorerSawAll, LoadedIsBorn, RanksAreOwn
<1> QED
  BY <1>1, <1>2, <1>3, <1>4, <1>5 DEF Next

\* The inductive invariant holds in every reachable state, for any number of
\* tabs, team members, questions, attempts and crashes.
THEOREM Invariance == Spec => []IInv
<1>1. Init => IInv
  BY InitIInv
<1>2. IInv /\ [Next]_vars => IInv'
  BY StepKeeps
<1> QED
  BY <1>1, <1>2, PTL DEF Spec

\* The tables and the requests' variables keep their types.
THEOREM TypeCorrect == Spec => []TypeOK
<1>1. IInv => TypeOK
  BY DEF IInv
<1> QED
  BY <1>1, Invariance, PTL

\* However many tabs ask at once, an attempt's questions are served in the
\* frozen order without a gap (current_or_next_question takes remaining[0]).
THEOREM OrderIsServed == Spec => []ServedInOrder
<1>1. IInv => ServedInOrder
  BY DEF IInv
<1> QED
  BY <1>1, Invariance, PTL

\* An attempt with a score was served every question of its quiz: no race of
\* tabs makes _finalize score it early.
THEOREM ScoreIsComplete == Spec => []ScoredWasServed
<1>1. IInv => ScoredWasServed
  BY DEF IInv
<1> QED
  BY <1>1, Invariance, PTL

\* A pending attempt has no served question and no score, so extra time granted
\* in place (grant_extra_time) and the TTL (AttemptExpiredError) find a quiz
\* nobody has seen.
THEOREM PendingUnseen == Spec => []PendingIsUnseen
<1>1. IInv => PendingIsUnseen
  BY DEF IInv
<1> QED
  BY <1>1, Invariance, PTL

\* Every commit leaves the rows of every attempt as they were, or grown.
LEMMA RowsGrow ==
  ASSUME IInv, [Next]_vars, NEW b \in Slot PROVE Grows(rows[b], rows'[b])
<1>1. TypeOK /\ rows[b] \in Seq(Row) /\ \A p \in Proc : Sound(req[p])
  BY AllSound DEF TypeOK
<1>2. CASE rows' = rows
  BY <1>1, <1>2, GrowsRefl
<1>3. ASSUME NEW a \in Slot, NEW S \in Seq(Row), SetRows(a, S), Grows(rows[a], S)
      PROVE  Grows(rows[b], rows'[b])
  <2>1. rows'[b] = IF b = a THEN S ELSE rows[b]
    BY <1>1, <1>3 DEF SetRows, TypeOK
  <2> QED
    BY <1>1, <1>3, <2>1, GrowsRefl
<1>4. ASSUME NEW p \in Proc, ReturnOpen(p) PROVE Grows(rows[b], rows'[b])
  <2>1. req[p].att \in Slot /\ rows[req[p].att] \in Seq(Row)
    BY <1>1 DEF TypeOK, Request
  <2>2. PICK M : SetRows(req[p].att, Resolved(rows[req[p].att], M))
    BY <1>4 DEF ReturnOpen
  <2> QED
    BY <1>3, <2>1, <2>2, ResolvedGrows
<1>5. ASSUME NEW p \in Proc, ServeNext(p) PROVE Grows(rows[b], rows'[b])
  <2> DEFINE T == Resolved(rows[req[p].att], Missed(p))
  <2>1. req[p] \in Request /\ req[p].att \in Slot /\ rows[req[p].att] \in Seq(Row)
    BY <1>1 DEF TypeOK, Request
  <2>2. PICK r \in Row : SetRows(req[p].att, Append(T, r))
    <3>1. PICK q \in Frozen :
            SetRows(req[p].att, Append(T, [q |-> q, open |-> TRUE, right |-> FALSE,
                                           due |-> FALSE, extra |-> req[p].extra]))
      BY <1>5 DEF ServeNext
    <3>2. [q |-> q, open |-> TRUE, right |-> FALSE, due |-> FALSE, extra |-> req[p].extra] \in Row
      BY <2>1 DEF Row, Request
    <3> QED
      BY <3>1, <3>2
  <2>3. T \in Seq(Row) /\ Len(T) = Len(rows[req[p].att]) /\ Grows(rows[req[p].att], T)
    BY <2>1, ResolvedGrows
  <2> HIDE DEF T
  <2>4. Append(T, r) \in Seq(Row) /\ Len(Append(T, r)) = Len(T) + 1
        /\ \A i \in 1 .. Len(T) : Append(T, r)[i] = T[i]
    BY <2>2, <2>3
  <2>5. Grows(rows[req[p].att], Append(T, r))
    BY <2>1, <2>3, <2>4 DEF Grows
  <2> QED
    BY <1>3, <2>1, <2>2, <2>4, <2>5
<1>6. ASSUME NEW p \in Proc, Finalize(p) PROVE Grows(rows[b], rows'[b])
  <2>1. req[p].att \in Slot /\ rows[req[p].att] \in Seq(Row)
    BY <1>1 DEF TypeOK, Request
  <2>2. SetRows(req[p].att, Resolved(rows[req[p].att], Missed(p)))
    BY <1>6 DEF Finalize
  <2> QED
    BY <1>3, <2>1, <2>2, ResolvedGrows
<1>7. ASSUME NEW p \in Proc, Submit(p) PROVE Grows(rows[b], rows'[b])
  <2> DEFINE a == req[p].att
             i == req[p].row
             r == Answered(rows[a][i], req[p].right)
  <2>1. Sound(req[p]) /\ req[p] \in Request /\ a \in Slot /\ rows[a] \in Seq(Row)
    BY <1>1 DEF TypeOK, Request
  <2>2. req[p].pc = "submit" /\ SetRows(a, [rows[a] EXCEPT ![i] = r])
    BY <1>7 DEF Submit
  <2>3. i \in DOMAIN rows[a] /\ rows[a][i] \in Row /\ req[p].right \in BOOLEAN
    BY <2>1, <2>2 DEF Sound, Request
  <2>4. r \in Row /\ KeepsRow(rows[a][i], r)
    BY <2>3 DEF Answered, Row, KeepsRow
  <2> HIDE DEF r
  <2> QED
    BY <1>3, <2>1, <2>2, <2>3, <2>4, ExceptGrows
<1>8. ASSUME NEW a \in Slot, NEW i \in DOMAIN rows[a], Deadline(a, i)
      PROVE  Grows(rows[b], rows'[b])
  <2> DEFINE r == [rows[a][i] EXCEPT !.due = TRUE]
  <2>1. rows[a] \in Seq(Row) /\ rows[a][i] \in Row
    BY <1>1 DEF TypeOK
  <2>2. SetRows(a, [rows[a] EXCEPT ![i] = r])
    BY <1>8 DEF Deadline
  <2>3. r \in Row /\ KeepsRow(rows[a][i], r)
    BY <2>1 DEF Row, KeepsRow
  <2> HIDE DEF r
  <2> QED
    BY <1>3, <2>1, <2>2, <2>3, ExceptGrows
<1>9. ASSUME NEW p \in Tab, TabStep(p) PROVE Grows(rows[b], rows'[b])
  <2>1. p \in Proc
    BY DEF Proc
  <2> QED
    BY <1>2, <1>4, <1>5, <1>6, <1>7, <1>9, <2>1
       DEF TabStep, LoadNext, LoadEvents, LoadAsk, LoadSubmit, Expire, ReadAnswers, ReadScore,
           WriteNote, RefuseAsk, AutoReissue, AskTeam, Reissue
<1>10. ASSUME NEW p \in Staff, StaffStep(p) PROVE rows' = rows
  BY <1>10 DEF StaffStep, LoadReissue, LoadDismiss, LoadGrant, LoadGrantReissue, GrantExtra,
               Reissue, WriteNote
<1>11. ASSUME NEW p \in Proc, Crash(p) PROVE rows' = rows
  BY <1>11 DEF Crash
<1>12. CASE Time
  BY <1>2, <1>8, <1>12 DEF Time, Lapse
<1>13. CASE UNCHANGED vars
  BY <1>2, <1>13 DEF vars
<1> QED
  BY <1>2, <1>9, <1>10, <1>11, <1>12, <1>13 DEF Next

\* No request ever removes an answer, re-opens it, moves it to another question
\* or limit, or takes back a right one, whatever copy of it the request loaded
\* (submit_answer, and the missed deadlines of current_or_next_question, write
\* onto rows that other requests may have changed since).
THEOREM AnswersKept == Spec => AnswersAreKept
<1> DEFINE Kept == \A a \in Slot : \A i \in DOMAIN rows[a] :
                     i \in DOMAIN rows'[a] /\ KeepsRow(rows[a][i], rows'[a][i])
<1>1. ASSUME IInv, IInv', [Next]_vars PROVE Kept
  <2>1. TypeOK /\ TypeOK'
    BY <1>1 DEF IInv
  <2>2. ASSUME NEW a \in Slot, NEW i \in DOMAIN rows[a]
        PROVE  i \in DOMAIN rows'[a] /\ KeepsRow(rows[a][i], rows'[a][i])
    <3>1. Grows(rows[a], rows'[a])
      BY <1>1, RowsGrow
    <3>2. rows[a] \in Seq(Row) /\ rows'[a] \in Seq(Row)
      BY <2>1 DEF TypeOK
    <3>3. DOMAIN rows[a] = 1 .. Len(rows[a]) /\ DOMAIN rows'[a] = 1 .. Len(rows'[a])
          /\ Len(rows[a]) \in Nat /\ Len(rows'[a]) \in Nat
      BY <3>2
    <3> QED
      BY <3>1, <3>3 DEF Grows
  <2> QED
    BY <2>2
<1>2. IInv /\ IInv' /\ [Next]_vars => [Kept]_vars
  BY <1>1
<1> QED
  BY <1>2, Invariance, PTL DEF Spec, AnswersAreKept

\* Questions are served as QuestionsServed says, for any number of racing tabs
\* and members of the team.
THEOREM QuestionsAreServed == Spec => []QuestionsServed
<1>1. ServedInOrder /\ ScoredWasServed /\ PendingIsUnseen => QuestionsServed
  BY DEF QuestionsServed
<1> QED
  BY <1>1, OrderIsServed, ScoreIsComplete, PendingUnseen, PTL
-----------------------------------------------------------------------------
(***************************************************************************)
(* One request of the candidate at a time.  What it has read of an attempt *)
(* is so when it commits; the team's steps only end an attempt or issue a  *)
(* fresh one, and the clock only makes rows due.                           *)
(***************************************************************************)
\* What a request r of p must find, given that it is the candidate's only one.
Sees(p, r) ==
    /\ r.pc \in TabPlaces => p \in Tab
    /\ r.pc \in {"start", "look", "decide", "score"} =>
         att[r.att].score = NoScore /\ att[r.att].status # "expired"
    /\ r.pc = "expire" => rows[r.att] = <<>>
    /\ r.pc = "submit" => r.row \in Open(rows[r.att])
    /\ r.pc \in {"decide", "score"} => SameRows(r.seen, rows[r.att])
    /\ r.pc = "score" => Open(r.seen) \subseteq r.late /\ r.score = Right(rows[r.att])

InPlace(S) ==
    /\ \A i \in DOMAIN S : S[i].q = i
    /\ \A i, j \in Open(S) : i = j

LEMMA AllSee ==
  ASSUME OneTab', IInv', (\A a \in Slot : InPlace(rows[a]))', ExpiredUnstarted', ScoredIsOver',
         \A p \in Proc : Sees(p, req[p])'
  PROVE  OneTabIInv'
<1>1. RowsInPlace'
  BY DEF RowsInPlace, InPlace
<1>2. TabSees'
  <2>1. ASSUME NEW p \in Proc, req'[p].pc = "score" PROVE Waiting(p)' = {}
    BY <2>1 DEF Sees, Waiting
  <2> QED
    BY <2>1 DEF TabSees, Sees
<1> QED
  BY <1>1, <1>2 DEF OneTabIInv

LEMMA SeenByAll ==
  ASSUME OneTabIInv
  PROVE  /\ OneTab /\ IInv /\ TypeOK
         /\ \A a \in Slot : rows[a] \in Seq(Row) /\ att[a] \in Attempt /\ InPlace(rows[a])
         /\ \A p \in Proc : /\ req[p] \in Request /\ req[p].att \in Slot
                            /\ req[p].seen \in Seq(Row) /\ Sees(p, req[p])
<1>1. OneTab /\ IInv /\ TypeOK
  BY DEF OneTabIInv, IInv
<1>2. \A a \in Slot : rows[a] \in Seq(Row) /\ att[a] \in Attempt /\ InPlace(rows[a])
  BY <1>1 DEF OneTabIInv, RowsInPlace, InPlace, TypeOK
<1>3. ASSUME NEW p \in Proc
      PROVE  /\ req[p] \in Request /\ req[p].att \in Slot
             /\ req[p].seen \in Seq(Row) /\ Sees(p, req[p])
  <2>1. req[p] \in Request /\ req[p].att \in Slot /\ req[p].seen \in Seq(Row)
    BY <1>1 DEF TypeOK, Request
  <2>2. req[p].pc = "score" => Open(req[p].seen) \subseteq req[p].late
    BY DEF OneTabIInv, TabSees, Waiting
  <2> QED
    BY <2>1, <2>2 DEF OneTabIInv, TabSees, Sees
<1> QED
  BY <1>1, <1>2, <1>3

LEMMA IdleSees == ASSUME NEW p PROVE Sees(p, Idle) /\ Sees(p, Idle)' /\ Idle.pc \notin TabPlaces
BY DEF Idle, Sees, TabPlaces

\* Elsewhere than at the places of an exam there is nothing to see.
LEMMA NothingToSee ==
  ASSUME NEW p, NEW r, r.pc \notin TabPlaces PROVE Sees(p, r) /\ Sees(p, r)'
BY DEF Sees, TabPlaces

LEMMA SameSets ==
  ASSUME NEW S \in Seq(Row), NEW T \in Seq(Row), SameRows(S, T)
  PROVE  Open(S) = Open(T) /\ Right(S) = Right(T) /\ Served(S) = Served(T) /\ DOMAIN S = DOMAIN T
<1>1. DOMAIN S = 1 .. Len(S) /\ DOMAIN T = 1 .. Len(T) /\ DOMAIN S = DOMAIN T
  BY DEF SameRows
<1>2. \A i \in DOMAIN S : S[i].q = T[i].q /\ S[i].open = T[i].open /\ S[i].right = T[i].right
  BY <1>1 DEF SameRows
<1>3. Open(S) = Open(T) /\ Served(S) = Served(T)
  BY <1>1, <1>2 DEF Open, Served
<1>4. {i \in DOMAIN S : S[i].right} = {i \in DOMAIN T : T[i].right}
  BY <1>1, <1>2
<1> QED
  BY <1>1, <1>3, <1>4 DEF Right

LEMMA SameRefl ==
  ASSUME NEW S PROVE SameRows(S, S)
BY DEF SameRows

\* The one request of the candidate that is at a place of an exam.
LEMMA OnlyTab ==
  ASSUME OneTabIInv, NEW p \in Tab, NEW q \in Proc, q # p
  PROVE  req[q].pc \notin TabPlaces
BY DEF OneTabIInv, OneTab, TabSees

(***************************************************************************)
(* Steps by what they do to the tables.                                    *)
(***************************************************************************)
\* No commit: a request goes on, or ends.
LEMMA TabQuiet ==
  ASSUME OneTabIInv, IInv', NEW p \in Proc, NEW r \in Request, Goto(p, r),
         UNCHANGED <<att, rows>>, Sees(p, r)
  PROVE  OneTabIInv'
<1>1. TypeOK /\ \A q \in Proc : Sees(q, req[q])
  BY SeenByAll
<1>2. req'[p] = r /\ \A q \in Proc : q # p => req'[q] = req[q]
  BY <1>1, ReqUpdate
<1>3. ASSUME NEW q \in Proc PROVE Sees(q, req[q])'
  <2>1. Sees(q, req'[q])
    BY <1>1, <1>2
  <2> QED
    BY <2>1 DEF Sees
<1>4. OneTab' /\ ExpiredUnstarted' /\ ScoredIsOver'
  BY DEF OneTabIInv, OneTab, ExpiredUnstarted, ScoredIsOver
<1>5. (\A a \in Slot : InPlace(rows[a]))'
  BY SeenByAll DEF InPlace
<1> QED
  BY <1>3, <1>4, <1>5, AllSee

\* The attempts change aside: no score is given, no attempt expires, and the
\* rows stay.
LEMMA TabAside ==
  ASSUME OneTabIInv, IInv', rows' = rows,
         \A a \in Slot : /\ att'[a].score = att[a].score
                         /\ att'[a].status \in {att[a].status, "pending", "invalidated"},
         \A q \in Proc : req'[q] = req[q] \/ req'[q].pc \notin TabPlaces
  PROVE  OneTabIInv'
<1>1. \A q \in Proc : req[q].att \in Slot /\ Sees(q, req[q])
  BY SeenByAll
<1>2. ASSUME NEW q \in Proc PROVE Sees(q, req[q])'
  <2>1. CASE req'[q] = req[q]
    BY <1>1, <2>1 DEF Sees
  <2>2. CASE req'[q].pc \notin TabPlaces
    BY <2>2 DEF Sees, TabPlaces
  <2> QED
    BY <2>1, <2>2
<1>3. OneTab' /\ ExpiredUnstarted'
  BY DEF OneTabIInv, OneTab, ExpiredUnstarted
<1>4. ScoredIsOver'
  <2>1. \A a \in Slot : att'[a].status = "pending" => att'[a].score = NoScore
    BY DEF IInv, PendingIsUnseen
  <2> QED
    BY <2>1 DEF OneTabIInv, ScoredIsOver
<1>5. (\A a \in Slot : InPlace(rows[a]))'
  BY SeenByAll DEF InPlace
<1> QED
  BY <1>2, <1>3, <1>4, <1>5, AllSee

\* The candidate's request commits attempt a as x with rows S.
LEMMA TabCommit ==
  ASSUME OneTabIInv, IInv', NEW p \in Tab, NEW r \in Request, Goto(p, r), Sees(p, r)',
         NEW a \in Slot, NEW x, NEW S, SetAttempt(a, x), SetRows(a, S),
         InPlace(S), x.status = "expired" => S = <<>>,
         x.score # NoScore => x.status \in {"completed", "invalidated"} /\ Open(S) = {}
  PROVE  OneTabIInv'
<1>1. TypeOK /\ \A q \in Proc : q # p => req[q].pc \notin TabPlaces
  BY SeenByAll, OnlyTab
<1>2. req'[p] = r /\ \A q \in Proc : q # p => req'[q] = req[q]
  BY <1>1, ReqUpdate DEF Proc
<1>3. /\ att'[a] = x /\ rows'[a] = S
      /\ \A b \in Slot : b # a => att'[b] = att[b] /\ rows'[b] = rows[b]
  BY <1>1 DEF TypeOK, SetAttempt, SetRows
<1>4. ASSUME NEW q \in Proc PROVE Sees(q, req[q])'
  <2>1. CASE q = p
    BY <1>2, <2>1 DEF Sees
  <2>2. CASE q # p
    BY <1>1, <1>2, <2>2 DEF Sees, TabPlaces
  <2> QED
    BY <2>1, <2>2
<1>5. OneTab' /\ ExpiredUnstarted' /\ ScoredIsOver'
  BY <1>3 DEF OneTabIInv, OneTab, ExpiredUnstarted, ScoredIsOver
<1>6. ASSUME NEW b \in Slot PROVE InPlace(rows[b])'
  <2>1. InPlace(rows'[b])
    BY <1>3, SeenByAll
  <2> QED
    BY <2>1 DEF InPlace, Open
<1> QED
  BY <1>4, <1>5, <1>6, AllSee

\* A request has ended.
LEMMA Ended ==
  ASSUME TypeOK, NEW p \in Proc, Done(p)
  PROVE  \A q \in Proc : req'[q] = req[q] \/ req'[q].pc \notin TabPlaces
<1>1. req'[p] = Idle /\ \A q \in Proc : q # p => req'[q] = req[q]
  BY IdleType, ReqUpdate DEF Done
<1> QED
  BY <1>1, IdleSees

(***************************************************************************)
(* The candidate's commits.                                                *)
(***************************************************************************)
\* The open question is served again and nothing else changes.
LEMMA ReturnsSame ==
  ASSUME OneTabIInv, NEW p \in Tab, ReturnOpen(p)
  PROVE  /\ rows' = rows /\ Done(p)
         /\ \E x : /\ SetAttempt(req[p].att, x)
                   /\ x.score = NoScore /\ x.status # "expired"
         /\ att[req[p].att].score = NoScore
<1> DEFINE a == req[p].att  S == rows[a]
<1>1. p \in Proc
  BY DEF Proc
<1>2. /\ IInv /\ TypeOK /\ a \in Slot /\ S \in Seq(Row) /\ att[a] \in Attempt /\ InPlace(S)
      /\ req[p].seen \in Seq(Row) /\ Sees(p, req[p])
  BY <1>1, SeenByAll
<1>3. req[p].pc = "decide" /\ Waiting(p) # {} /\ CommitStarted(p) /\ Done(p)
  BY DEF ReturnOpen
<1>4. PICK M \in SUBSET Missed(p) : SetRows(a, Resolved(S, M))
  BY DEF ReturnOpen
<1>5. SameRows(req[p].seen, S) /\ att[a].score = NoScore /\ att[a].status # "expired"
  BY <1>2, <1>3 DEF Sees
<1>6. Open(req[p].seen) = Open(S)
  BY <1>2, <1>5, SameSets
<1>7. M = {}
  BY <1>2, <1>3, <1>4, <1>6 DEF InPlace, Waiting, Missed
<1>8. Resolved(S, {}) = S
  BY <1>2 DEF Resolved
<1>9. rows' = rows
  BY <1>2, <1>4, <1>7, <1>8 DEF SetRows, TypeOK
<1>10. \E x : SetAttempt(a, x) /\ x.score = NoScore /\ x.status # "expired"
  <2> DEFINE y == [att[a] EXCEPT !.status = "in_progress"]
  <2>1. CASE req[p].stat = "pending"
    <3>1. SetAttempt(a, y)
      BY <1>3, <2>1 DEF CommitStarted
    <3>2. y.score = NoScore /\ y.status # "expired"
      BY <1>2, <1>5 DEF Attempt
    <3> QED
      BY <3>1, <3>2
  <2>2. CASE req[p].stat # "pending"
    <3>1. SetAttempt(a, att[a])
      BY <1>2, <1>3, <2>2 DEF CommitStarted, SetAttempt, TypeOK
    <3> QED
      BY <1>5, <3>1
  <2> QED
    BY <2>1, <2>2
<1> QED
  BY <1>3, <1>5, <1>9, <1>10

LEMMA ResolvedSets ==
  ASSUME NEW S \in Seq(Row), NEW I
  PROVE  /\ Open(Resolved(S, I)) = Open(S) \ I
         /\ Right(Resolved(S, I)) = Right(S)
         /\ \A i \in DOMAIN S : Resolved(S, I)[i].q = S[i].q
         /\ DOMAIN Resolved(S, I) = DOMAIN S
<1> DEFINE T == Resolved(S, I)
<1>1. DOMAIN T = DOMAIN S
  BY DEF Resolved
<1>2. ASSUME NEW i \in DOMAIN S
      PROVE  /\ T[i].q = S[i].q /\ T[i].right = S[i].right
             /\ T[i].open <=> (S[i].open /\ i \notin I)
  <2>1. S[i] \in Row /\ T[i] = IF i \in I THEN [S[i] EXCEPT !.open = FALSE] ELSE S[i]
    BY DEF Resolved
  <2>2. CASE i \in I
    <3>1. T[i].q = S[i].q /\ T[i].right = S[i].right /\ T[i].open = FALSE
      BY <2>1, <2>2 DEF Row
    <3> QED
      BY <2>2, <3>1
  <2>3. CASE i \notin I
    BY <2>1, <2>3
  <2> QED
    BY <2>2, <2>3
<1> HIDE DEF T
<1>3. Open(T) = Open(S) \ I
  BY <1>1, <1>2 DEF Open
<1>4. {i \in DOMAIN T : T[i].right} = {i \in DOMAIN S : S[i].right}
  BY <1>1, <1>2
<1> QED
  BY <1>1, <1>2, <1>3, <1>4 DEF Right, T

\* The next question is put in its place, and is the only one open.
LEMMA ServesOneMore ==
  ASSUME OneTabIInv, NEW p \in Tab, ServeNext(p)
  PROVE  LET a == req[p].att  S == rows[a]
         IN  /\ Done(p) /\ att[a].score = NoScore
             /\ \E x : /\ SetAttempt(a, x)
                       /\ x.score = NoScore /\ x.status # "expired"
             /\ Len(S) < N
             /\ \E T \in Seq(Row) :
                  /\ SetRows(a, T) /\ Len(T) = Len(S) + 1 /\ InPlace(T)
                  /\ Open(T) = {Len(T)} /\ Right(T) = Right(S)
<1> DEFINE a == req[p].att  S == rows[a]  seen == req[p].seen
<1>1. p \in Proc
  BY DEF Proc
<1>2. /\ IInv /\ TypeOK /\ a \in Slot /\ S \in Seq(Row) /\ att[a] \in Attempt /\ InPlace(S)
      /\ seen \in Seq(Row) /\ Sees(p, req[p]) /\ req[p] \in Request
  BY <1>1, SeenByAll
<1>3. req[p].pc = "decide" /\ Waiting(p) = {} /\ CommitStarted(p) /\ Done(p)
  BY DEF ServeNext
<1>4. SameRows(seen, S) /\ att[a].score = NoScore /\ att[a].status # "expired"
  BY <1>2, <1>3 DEF Sees
<1>5. Open(seen) = Open(S) /\ Served(seen) = Served(S)
  BY <1>2, <1>4, SameSets
<1>6. \E x : SetAttempt(a, x) /\ x.score = NoScore /\ x.status # "expired"
  <2> DEFINE y == [att[a] EXCEPT !.status = "in_progress"]
  <2>1. CASE req[p].stat = "pending"
    <3>1. SetAttempt(a, y)
      BY <1>3, <2>1 DEF CommitStarted
    <3>2. y.score = NoScore /\ y.status # "expired"
      BY <1>2, <1>4 DEF Attempt
    <3> QED
      BY <3>1, <3>2
  <2>2. CASE req[p].stat # "pending"
    <3>1. SetAttempt(a, att[a])
      BY <1>2, <1>3, <2>2 DEF CommitStarted, SetAttempt, TypeOK
    <3> QED
      BY <1>4, <3>1
  <2> QED
    BY <2>1, <2>2
<1> DEFINE U == Resolved(S, Missed(p))
           R(q) == [q |-> q, open |-> TRUE, right |-> FALSE, due |-> FALSE, extra |-> req[p].extra]
<1>7. PICK q \in Frozen : IsNext(q, seen) /\ SetRows(a, Append(U, R(q)))
  BY DEF ServeNext
<1>8. Len(S) \in Nat /\ DOMAIN S = 1 .. Len(S) /\ q \in Nat /\ q \in 1 .. N /\ N \in Nat
  BY <1>2, SizesArePositive DEF Frozen
<1>9. Served(S) = 1 .. Len(S)
  <2>1. \A i \in DOMAIN S : S[i].q = i
    BY <1>2 DEF InPlace
  <2> QED
    BY <1>8, <2>1 DEF Served
<1>10. q = Len(S) + 1 /\ Len(S) < N
  <2>1. /\ q \in Frozen \ (1 .. Len(S))
        /\ \A k \in Frozen \ (1 .. Len(S)) : q <= k
    BY <1>5, <1>7, <1>9 DEF IsNext, Remaining
  <2>2. Len(S) + 1 <= q /\ Len(S) + 1 \in Frozen
    BY <1>8, <2>1 DEF Frozen
  <2>3. Len(S) + 1 \notin 1 .. Len(S)
    BY <1>8
  <2> QED
    BY <1>8, <2>1, <2>2, <2>3
<1>11. /\ U \in Seq(Row) /\ Len(U) = Len(S) /\ Open(U) = {} /\ Right(U) = Right(S)
       /\ \A i \in 1 .. Len(S) : U[i].q = i
  <2>1. Open(S) \ Missed(p) = {}
    BY <1>3, <1>5 DEF Waiting, Missed
  <2>2. \A i \in DOMAIN S : S[i].q = i
    BY <1>2 DEF InPlace
  <2>3. U \in Seq(Row) /\ Len(U) = Len(S)
    BY <1>2, ResolvedGrows
  <2>4. Open(U) = {} /\ Right(U) = Right(S) /\ \A i \in DOMAIN S : U[i].q = S[i].q
    BY <1>2, <2>1, ResolvedSets
  <2> QED
    BY <1>8, <2>2, <2>3, <2>4
<1>12. /\ R(q) \in Row /\ R(q).q = q /\ R(q).open = TRUE /\ R(q).right = FALSE
  BY <1>2 DEF Row, Request
<1> DEFINE r == R(q)  T == Append(U, r)
<1>13. r \in Row /\ r.q = Len(S) + 1 /\ r.open = TRUE /\ r.right = FALSE /\ SetRows(a, T)
  BY <1>7, <1>10, <1>12
<1> HIDE DEF U, r, R
<1>14. /\ T \in Seq(Row) /\ Len(T) = Len(S) + 1 /\ DOMAIN T = 1 .. Len(S) + 1
       /\ T[Len(S) + 1] = r /\ \A i \in 1 .. Len(S) : T[i] = U[i]
  BY <1>8, <1>11, <1>13
<1> HIDE DEF T
<1>15. Open(T) = {Len(S) + 1}
  <2>1. \A i \in 1 .. Len(S) : ~U[i].open
    BY <1>11 DEF Open
  <2>2. \A i \in 1 .. Len(S) : ~T[i].open
    BY <1>14, <2>1
  <2>3. T[Len(S) + 1].open
    BY <1>13, <1>14
  <2>4. \A i \in DOMAIN T : i \in 1 .. Len(S) \/ i = Len(S) + 1
    BY <1>8, <1>14
  <2>5. Len(S) + 1 \in DOMAIN T
    BY <1>8, <1>14
  <2> QED
    BY <2>2, <2>3, <2>4, <2>5 DEF Open
<1>16. Right(T) = Right(S)
  <2>1. DOMAIN U = 1 .. Len(S)
    BY <1>11
  <2>2. ~T[Len(S) + 1].right
    BY <1>13, <1>14
  <2>3. \A i \in DOMAIN T : i \in 1 .. Len(S) \/ i = Len(S) + 1
    BY <1>8, <1>14
  <2>4. DOMAIN U \subseteq DOMAIN T
    BY <1>8, <1>14, <2>1
  <2>5. \A i \in DOMAIN U : T[i] = U[i]
    BY <1>14, <2>1
  <2>6. {i \in DOMAIN T : T[i].right} = {i \in DOMAIN U : U[i].right}
    BY <2>1, <2>2, <2>3, <2>4, <2>5
  <2> QED
    BY <1>11, <2>6 DEF Right
<1>17. InPlace(T)
  <2>1. ASSUME NEW i \in DOMAIN T PROVE T[i].q = i
    <3>1. CASE i \in 1 .. Len(S)
      BY <1>11, <1>14, <3>1
    <3>2. CASE i = Len(S) + 1
      BY <1>13, <1>14, <3>2
    <3> QED
      BY <1>8, <1>14, <3>1, <3>2
  <2> QED
    BY <1>15, <2>1 DEF InPlace
<1>18. \E V \in Seq(Row) : /\ SetRows(a, V) /\ Len(V) = Len(S) + 1 /\ InPlace(V)
                            /\ Open(V) = {Len(V)} /\ Right(V) = Right(S)
  BY <1>13, <1>14, <1>15, <1>16, <1>17
<1> QED
  BY <1>3, <1>4, <1>6, <1>10, <1>18

\* The score is the number of right answers, all questions were asked, and none
\* is left open.
LEMMA FinalizeScores ==
  ASSUME OneTabIInv, NEW p \in Tab, Finalize(p)
  PROVE  LET a == req[p].att  S == rows[a]
         IN  /\ Done(p) /\ att[a].score = NoScore /\ Len(S) = N
             /\ \E x : /\ SetAttempt(a, x)
                       /\ x.score = Right(S) /\ x.status = "completed"
             /\ \E T \in Seq(Row) :
                  /\ SetRows(a, T) /\ Len(T) = Len(S) /\ InPlace(T)
                  /\ Open(T) = {} /\ Right(T) = Right(S)
<1> DEFINE a == req[p].att  S == rows[a]  seen == req[p].seen  T == Resolved(S, Missed(p))
<1>1. p \in Proc
  BY DEF Proc
<1>2. /\ IInv /\ TypeOK /\ a \in Slot /\ S \in Seq(Row) /\ att[a] \in Attempt /\ InPlace(S)
      /\ seen \in Seq(Row) /\ Sees(p, req[p])
  BY <1>1, SeenByAll
<1>3. req[p].pc = "score" /\ Done(p) /\ SetRows(a, T)
  BY DEF Finalize
<1>4. /\ SameRows(seen, S) /\ att[a].score = NoScore
      /\ Open(seen) \subseteq req[p].late /\ req[p].score = Right(S)
  BY <1>2, <1>3 DEF Sees
<1>5. Open(seen) = Open(S) /\ Served(seen) = Served(S)
  BY <1>2, <1>4, SameSets
<1>6. Len(S) = N
  <2>1. Remaining(seen) = {}
    BY <1>1, <1>2, <1>3 DEF IInv, ScorerSawAll
  <2>2. Len(S) \in Nat /\ DOMAIN S = 1 .. Len(S) /\ N \in Nat \ {0}
    BY <1>2, SizesArePositive
  <2>3. \A i \in 1 .. Len(S) : S[i].q = i /\ S[i].q \in Frozen
    <3>1. \A i \in 1 .. Len(S) : S[i].q = i
      BY <1>2, <2>2 DEF InPlace
    <3>2. \A i \in 1 .. Len(S) : S[i] \in Row
      BY <1>2
    <3> QED
      BY <3>1, <3>2 DEF Row
  <2>4. N \in Served(S)
    BY <1>5, <2>1, <2>2 DEF Remaining, Frozen
  <2>5. N <= Len(S)
    BY <2>2, <2>3, <2>4 DEF Served
  <2>6. Len(S) <= N
    <3>1. CASE Len(S) = 0
      BY <2>2, <3>1
    <3>2. CASE Len(S) # 0
      <4>1. Len(S) \in 1 .. Len(S)
        BY <2>2, <3>2
      <4>2. Len(S) \in Frozen
        BY <2>3, <4>1
      <4> QED
        BY <2>2, <4>2 DEF Frozen
    <3> QED
      BY <3>1, <3>2
  <2> QED
    BY <2>2, <2>5, <2>6
<1>7. /\ T \in Seq(Row) /\ Len(T) = Len(S) /\ Open(T) = {} /\ Right(T) = Right(S)
      /\ \A i \in DOMAIN T : T[i].q = i
  <2>1. Open(S) \ Missed(p) = {}
    BY <1>4, <1>5 DEF Missed
  <2>2. \A i \in DOMAIN S : S[i].q = i
    BY <1>2 DEF InPlace
  <2>3. T \in Seq(Row) /\ Len(T) = Len(S)
    BY <1>2, ResolvedGrows
  <2>4. /\ Open(T) = {} /\ Right(T) = Right(S) /\ DOMAIN T = DOMAIN S
        /\ \A i \in DOMAIN S : T[i].q = S[i].q
    BY <1>2, <2>1, ResolvedSets
  <2> QED
    BY <2>2, <2>3, <2>4
<1> HIDE DEF T
<1>8. InPlace(T)
  BY <1>7 DEF InPlace
<1>9. \E x : SetAttempt(a, x) /\ x.score = Right(S) /\ x.status = "completed"
  <2> DEFINE y == [att[a] EXCEPT !.status = "completed", !.score = req[p].score,
                                 !.parts = req[p].parts \cup {"flags"}]
  <2>1. SetAttempt(a, y)
    BY DEF Finalize
  <2>2. y.score = Right(S) /\ y.status = "completed"
    BY <1>2, <1>4 DEF Attempt
  <2> QED
    BY <2>1, <2>2
<1> QED
  BY <1>3, <1>4, <1>6, <1>7, <1>8, <1>9

\* An answer closes the open question, and at most adds a point.
LEMMA SubmitCloses ==
  ASSUME OneTabIInv, NEW p \in Tab, Submit(p)
  PROVE  LET a == req[p].att  S == rows[a]
         IN  /\ Done(p) /\ att' = att /\ Open(S) # {} /\ att[a].score = NoScore
             /\ S # <<>>
             /\ \E T \in Seq(Row) :
                  /\ SetRows(a, T) /\ Len(T) = Len(S) /\ InPlace(T)
                  /\ Open(T) = {} /\ Right(T) \in {Right(S), Right(S) + 1}
<1> DEFINE a == req[p].att  S == rows[a]  i == req[p].row
           r == Answered(S[i], req[p].right)  T == [S EXCEPT ![i] = r]
<1>1. p \in Proc
  BY DEF Proc
<1>2. /\ IInv /\ TypeOK /\ a \in Slot /\ S \in Seq(Row) /\ InPlace(S)
      /\ Sees(p, req[p]) /\ req[p] \in Request
  BY <1>1, SeenByAll
<1>3. req[p].pc = "submit" /\ Done(p) /\ SetRows(a, T) /\ att' = att
  BY DEF Submit
<1>4. i \in Open(S) /\ i \in DOMAIN S /\ S[i] \in Row /\ req[p].right \in BOOLEAN
  BY <1>2, <1>3 DEF Sees, Open, Request
<1>5. att[a].score = NoScore
  BY <1>2, <1>4 DEF OneTabIInv, ScoredIsOver
<1>6. r \in Row /\ r.q = S[i].q /\ r.open = FALSE /\ (S[i].right => r.right)
  BY <1>4 DEF Answered, Row
<1> HIDE DEF r
<1>7. /\ T \in Seq(Row) /\ Len(T) = Len(S) /\ DOMAIN T = DOMAIN S
      /\ \A j \in DOMAIN S : T[j] = IF j = i THEN r ELSE S[j]
  <2>1. T \in Seq(Row) /\ Len(T) = Len(S)
    BY <1>2, <1>4, <1>6, ExceptSeq
  <2> QED
    BY <1>2, <1>4, <2>1
<1> HIDE DEF T
<1>8. Open(T) = {}
  <2>1. \A j \in Open(S) : j = i
    BY <1>2, <1>4 DEF InPlace
  <2>2. \A j \in DOMAIN S : j # i => ~S[j].open
    BY <2>1 DEF Open
  <2> QED
    BY <1>6, <1>7, <2>2 DEF Open
<1>9. InPlace(T)
  BY <1>2, <1>4, <1>6, <1>7, <1>8 DEF InPlace
<1>10. Right(T) \in {Right(S), Right(S) + 1}
  <2> DEFINE X == {j \in DOMAIN S : S[j].right}
  <2>1. IsFiniteSet(X)
    <3>1. DOMAIN S = 1 .. Len(S) /\ Len(S) \in Nat
      BY <1>2
    <3>2. X \subseteq 1 .. Len(S)
      BY <3>1
    <3>3. IsFiniteSet(1 .. Len(S))
      BY <3>1, FS_Interval
    <3> HIDE DEF X
    <3> QED
      BY <3>2, <3>3, FS_Subset
  <2>2. {j \in DOMAIN T : T[j].right} = IF r.right THEN X \cup {i} ELSE X
    <3>1. ASSUME NEW j \in DOMAIN S
          PROVE  T[j].right <=> (IF j = i THEN r.right ELSE S[j].right)
      BY <1>7, <3>1
    <3>2. CASE r.right
      BY <1>4, <1>7, <3>1, <3>2
    <3>3. CASE ~r.right
      BY <1>4, <1>6, <1>7, <3>1, <3>3
    <3> QED
      BY <3>2, <3>3
  <2>3. Right(S) = Cardinality(X)
    BY DEF Right
  <2>4. Right(T) = Cardinality(IF r.right THEN X \cup {i} ELSE X)
    BY <2>2 DEF Right
  <2> HIDE DEF X
  <2>5. Cardinality(X \cup {i}) \in {Cardinality(X), Cardinality(X) + 1}
    BY <2>1, FS_AddElement
  <2> QED
    BY <2>3, <2>4, <2>5
<1>11. S # <<>> /\ Open(S) # {}
  BY <1>4
<1> QED
  BY <1>3, <1>5, <1>7, <1>8, <1>9, <1>10, <1>11

\* A lapsed attempt expires unseen.
LEMMA ExpiresUnseen ==
  ASSUME OneTabIInv, NEW p \in Tab, Expire(p)
  PROVE  LET a == req[p].att
         IN  /\ rows' = rows /\ rows[a] = <<>> /\ att[a].score = NoScore
             /\ \E x : SetAttempt(a, x) /\ x.score = NoScore
             /\ \E r \in Request : Goto(p, r) /\ Sees(p, r)'
<1> DEFINE a == req[p].att  x == [att[a] EXCEPT !.status = "expired"]
<1>1. p \in Proc
  BY DEF Proc
<1>2. /\ IInv /\ TypeOK /\ a \in Slot /\ att[a] \in Attempt
      /\ Sees(p, req[p]) /\ req[p] \in Request
  BY <1>1, SeenByAll
<1>3. req[p].pc = "expire" /\ SetAttempt(a, x) /\ rows' = rows
  BY DEF Expire
<1>4. rows[a] = <<>>
  BY <1>2, <1>3 DEF Sees
<1>5. att[a].score = NoScore
  <2>1. Remaining(<<>>) = Frozen /\ 1 \in Frozen
    BY SizesArePositive DEF Remaining, Served, Frozen
  <2> QED
    BY <1>2, <1>4, <2>1 DEF IInv, ScoredWasServed
<1>6. x.score = NoScore
  BY <1>2, <1>5 DEF Attempt
<1>7. PICK r \in Request : Goto(p, r) /\ r.pc \in {"ask", "idle"}
  <2> DEFINE s == IF req[p].op = "ask" THEN [req[p] EXCEPT !.pc = "ask", !.stat = "expired"] ELSE Idle
  <2>1. s \in Request /\ s.pc \in {"ask", "idle"}
    BY <1>2, IdleType DEF Request, Status, Idle
  <2>2. Goto(p, s)
    BY DEF Expire
  <2> HIDE DEF s
  <2> QED
    BY <2>1, <2>2
<1> HIDE DEF x
<1>8. Sees(p, r)'
  BY <1>1, <1>7 DEF Sees, TabPlaces
<1> QED
  BY <1>3, <1>4, <1>5, <1>6, <1>7, <1>8

(***************************************************************************)
(* The other steps, and the theorems of one tab.                           *)
(***************************************************************************)
\* A request that is, or ends up, at no place of an exam.
LEMMA TabLeaves ==
  ASSUME OneTabIInv, IInv', NEW p \in Proc, NEW r, Goto(p, r), r.pc \notin TabPlaces,
         UNCHANGED <<att, rows>>
  PROVE  OneTabIInv'
<1>1. TypeOK
  BY SeenByAll
<1>2. \A q \in Proc : req'[q] = req[q] \/ req'[q].pc \notin TabPlaces
  BY <1>1 DEF TypeOK, Goto
<1> QED
  BY <1>2, TabAside

LEMMA TabEnds ==
  ASSUME OneTabIInv, IInv', NEW p \in Proc, Done(p), UNCHANGED <<att, rows>>
  PROVE  OneTabIInv'
<1>1. Goto(p, Idle) /\ Idle.pc \notin TabPlaces
  BY IdleSees DEF Done
<1> QED
  BY <1>1, TabLeaves

LEMMA TabLoads ==
  ASSUME OneTabIInv, IInv', NEW p \in Tab, NEW a \in Slot,
         LoadNext(p, a) \/ LoadEvents(p, a) \/ LoadAsk(p, a)
  PROVE  OneTabIInv'
<1>1. p \in Proc /\ TypeOK /\ att[a] \in Attempt /\ IInv /\ rows[a] \in Seq(Row)
  BY SeenByAll DEF Proc
<1>2. \A o \in Op : Loaded(o, a) \in Request /\ Loaded(o, a).att = a
  BY <1>1, LoadedType
<1>3. CASE LoadNext(p, a)
  <2> DEFINE late == {i \in DOMAIN rows[a] : rows[a][i].due}
             r == [Loaded("next", a) EXCEPT !.pc = Entry(a), !.late = late]
  <2>1. late \in SUBSET Nat
    <3>1. DOMAIN rows[a] = 1 .. Len(rows[a]) /\ Len(rows[a]) \in Nat
      BY <1>1
    <3> QED
      BY <3>1
  <2> HIDE DEF late
  <2>2. Entry(a) \in {"look", "expire", "start"}
    BY DEF Entry
  <2>3. r \in Request /\ r.att = a /\ r.pc = Entry(a)
    BY <1>2, <2>1, <2>2 DEF Op, Request
  <2>4. Goto(p, r) /\ UNCHANGED <<att, rows>> /\ att[a].status \in {"pending", "in_progress"}
    BY <1>3 DEF LoadNext, late, Serving
  <2> HIDE DEF r
  <2>5. att[a].score = NoScore /\ att[a].status # "expired"
    BY <2>4 DEF OneTabIInv, ScoredIsOver
  <2>6. Entry(a) = "expire" => rows[a] = <<>>
    <3>1. CASE att[a].status = "in_progress"
      <4>1. Entry(a) = "look"
        BY <3>1 DEF Entry
      <4> QED
        BY <4>1
    <3>2. CASE att[a].status = "pending"
      BY <1>1, <3>2 DEF IInv, PendingIsUnseen
    <3> QED
      BY <2>4, <3>1, <3>2
  <2>7. Sees(p, r)
    BY <2>2, <2>3, <2>5, <2>6 DEF Sees
  <2> QED
    BY <1>1, <2>3, <2>4, <2>7, TabQuiet
<1>4. CASE LoadEvents(p, a)
  <2> DEFINE r == [Loaded("events", a) EXCEPT !.pc = "note", !.why = "events"]
  <2>1. r.pc \notin TabPlaces
    BY <1>2 DEF Op, Request, TabPlaces
  <2>2. Goto(p, r) /\ UNCHANGED <<att, rows>>
    BY <1>4 DEF LoadEvents
  <2> HIDE DEF r
  <2> QED
    BY <1>1, <2>1, <2>2, TabLeaves
<1>5. CASE LoadAsk(p, a)
  <2> DEFINE r == [Loaded("ask", a) EXCEPT !.pc = IF att[a].status = "expired" THEN "ask" ELSE "expire"]
  <2>1. /\ r \in Request /\ r.att = a
        /\ r.pc = IF att[a].status = "expired" THEN "ask" ELSE "expire"
    BY <1>2 DEF Op, Request
  <2>2. Goto(p, r) /\ UNCHANGED <<att, rows>> /\ att[a].status \in {"expired", "pending"}
    BY <1>5 DEF LoadAsk
  <2> HIDE DEF r
  <2>3. r.pc = "expire" => rows[a] = <<>>
    BY <1>1, <2>1, <2>2 DEF IInv, PendingIsUnseen
  <2>4. Sees(p, r)
    BY <2>1, <2>3 DEF Sees
  <2> QED
    BY <1>1, <2>1, <2>2, <2>4, TabQuiet
<1> QED
  BY <1>3, <1>4, <1>5

LEMMA TabLoadsSubmit ==
  ASSUME OneTabIInv, IInv', NEW p \in Tab, NEW a \in Slot, NEW i \in DOMAIN rows[a],
         LoadSubmit(p, a, i)
  PROVE  OneTabIInv'
<1>1. p \in Proc /\ TypeOK /\ rows[a] \in Seq(Row)
  BY SeenByAll DEF Proc
<1>2. Loaded("answer", a) \in Request /\ Loaded("answer", a).att = a
  BY <1>1, LoadedType DEF Op
<1>3. PICK correct \in BOOLEAN :
        Goto(p, [Loaded("answer", a) EXCEPT !.pc = "submit", !.row = i,
                                            !.right = correct /\ ~rows[a][i].due])
  BY DEF LoadSubmit
<1> DEFINE right == correct /\ ~rows[a][i].due
           r == [Loaded("answer", a) EXCEPT !.pc = "submit", !.row = i, !.right = right]
<1>4. i \in Nat /\ right \in BOOLEAN
  <2>1. DOMAIN rows[a] = 1 .. Len(rows[a]) /\ Len(rows[a]) \in Nat
    BY <1>1
  <2> QED
    BY <2>1
<1> HIDE DEF right
<1>5. r \in Request /\ r.att = a /\ r.pc = "submit" /\ r.row = i
  BY <1>2, <1>4 DEF Request
<1>6. Goto(p, r)
  BY <1>3 DEF right
<1> HIDE DEF r
<1>7. UNCHANGED <<att, rows>> /\ i \in Open(rows[a])
  BY DEF LoadSubmit
<1>8. Sees(p, r)
  BY <1>5, <1>7 DEF Sees
<1> QED
  BY <1>1, <1>5, <1>6, <1>7, <1>8, TabQuiet

LEMMA TabReads ==
  ASSUME OneTabIInv, IInv', NEW p \in Tab, ReadAnswers(p)
  PROVE  OneTabIInv'
<1> DEFINE r == [req[p] EXCEPT !.pc = "decide", !.seen = rows[req[p].att]]
<1>1. /\ p \in Proc /\ req[p] \in Request /\ req[p].att \in Slot /\ Sees(p, req[p])
      /\ rows[req[p].att] \in Seq(Row)
  BY SeenByAll DEF Proc
<1>2. r \in Request /\ r.att = req[p].att /\ r.pc = "decide" /\ r.seen = rows[r.att]
  BY <1>1 DEF Request
<1>3. Goto(p, r) /\ UNCHANGED <<att, rows>> /\ req[p].pc \in {"start", "look"}
  BY DEF ReadAnswers
<1> HIDE DEF r
<1>4. SameRows(r.seen, rows[r.att])
  BY <1>2, SameRefl
<1>5. Sees(p, r)
  BY <1>1, <1>2, <1>3, <1>4 DEF Sees
<1> QED
  BY <1>1, <1>2, <1>3, <1>5, TabQuiet

LEMMA TabReadsScore ==
  ASSUME OneTabIInv, IInv', NEW p \in Tab, ReadScore(p)
  PROVE  OneTabIInv'
<1> DEFINE S == rows[req[p].att]  seen == req[p].seen  score == FinalScore(p)
           r == [req[p] EXCEPT !.pc = "score", !.score = score]
<1>1. /\ p \in Proc /\ TypeOK /\ req[p] \in Request /\ Sees(p, req[p])
      /\ S \in Seq(Row) /\ seen \in Seq(Row)
  BY SeenByAll DEF Proc
<1>2. /\ Goto(p, r) /\ UNCHANGED <<att, rows>> /\ req[p].pc = "decide"
      /\ Open(seen) \subseteq req[p].late
  BY DEF ReadScore, Waiting
<1>3. SameRows(seen, S)
  BY <1>1, <1>2 DEF Sees
<1>4. FinalScore(p) = Right(S)
  <2>1. DOMAIN seen = DOMAIN S /\ Right(seen) = Right(S)
    BY <1>1, <1>3, SameSets
  <2>2. [i \in DOMAIN S |-> IF i \in DOMAIN seen THEN seen[i] ELSE S[i]] = seen
    BY <1>1, <2>1
  <2> QED
    BY <2>1, <2>2 DEF FinalScore
<1>5. score \in Int
  BY <1>1, FinalScoreType
<1> HIDE DEF score
<1>6. /\ r \in Request /\ r.att = req[p].att /\ r.pc = "score" /\ r.seen = seen
      /\ r.late = req[p].late /\ r.score = score
  BY <1>1, <1>5 DEF Request
<1> HIDE DEF r
<1>7. r.score = Right(rows[r.att])
  BY <1>4, <1>6 DEF score
<1>8. Sees(p, r)
  BY <1>1, <1>2, <1>3, <1>6, <1>7 DEF Sees
<1> QED
  BY <1>1, <1>2, <1>6, <1>8, TabQuiet

LEMMA TabCommits ==
  ASSUME OneTabIInv, IInv', NEW p \in Tab,
         Expire(p) \/ ReturnOpen(p) \/ ServeNext(p) \/ Finalize(p) \/ Submit(p)
  PROVE  OneTabIInv'
<1> DEFINE a == req[p].att  S == rows[a]
<1>1. /\ p \in Proc /\ TypeOK /\ a \in Slot /\ InPlace(S) /\ IInv
      /\ Idle \in Request /\ Sees(p, Idle)'
  BY SeenByAll, IdleType, IdleSees DEF Proc
<1>2. rows' = rows => SetRows(a, S)
  BY <1>1 DEF TypeOK, SetRows
<1>3. att' = att => SetAttempt(a, att[a])
  BY <1>1 DEF TypeOK, SetAttempt
<1>4. CASE Expire(p)
  <2>1. PICK r \in Request : Goto(p, r) /\ Sees(p, r)'
    BY <1>4, ExpiresUnseen
  <2>2. PICK x : SetAttempt(a, x) /\ x.score = NoScore
    BY <1>4, ExpiresUnseen
  <2>3. SetRows(a, S) /\ S = <<>>
    BY <1>2, <1>4, ExpiresUnseen
  <2> QED
    BY <1>1, <2>1, <2>2, <2>3, TabCommit
<1>5. CASE ReturnOpen(p)
  <2>1. PICK x : SetAttempt(a, x) /\ x.score = NoScore /\ x.status # "expired"
    BY <1>5, ReturnsSame
  <2>2. SetRows(a, S) /\ Goto(p, Idle)
    BY <1>2, <1>5, ReturnsSame DEF Done
  <2> QED
    BY <1>1, <2>1, <2>2, TabCommit
<1>6. CASE ServeNext(p)
  <2>1. PICK x : SetAttempt(a, x) /\ x.score = NoScore /\ x.status # "expired"
    BY <1>6, ServesOneMore
  <2>2. PICK T \in Seq(Row) : SetRows(a, T) /\ InPlace(T)
    BY <1>6, ServesOneMore
  <2>3. Goto(p, Idle)
    BY <1>6, ServesOneMore DEF Done
  <2> QED
    BY <1>1, <2>1, <2>2, <2>3, TabCommit
<1>7. CASE Finalize(p)
  <2>1. PICK x : SetAttempt(a, x) /\ x.status = "completed"
    BY <1>7, FinalizeScores
  <2>2. PICK T \in Seq(Row) : SetRows(a, T) /\ InPlace(T) /\ Open(T) = {}
    BY <1>7, FinalizeScores
  <2>3. Goto(p, Idle)
    BY <1>7, FinalizeScores DEF Done
  <2> QED
    BY <1>1, <2>1, <2>2, <2>3, TabCommit
<1>8. CASE Submit(p)
  <2>1. PICK T \in Seq(Row) : SetRows(a, T) /\ InPlace(T)
    BY <1>8, SubmitCloses
  <2>2. Goto(p, Idle) /\ SetAttempt(a, att[a]) /\ S # <<>> /\ att[a].score = NoScore
    BY <1>3, <1>8, SubmitCloses DEF Done
  <2>3. att[a].status # "expired"
    BY <1>1, <2>2 DEF OneTabIInv, ExpiredUnstarted
  <2> QED
    BY <1>1, <2>1, <2>2, <2>3, TabCommit
<1> QED
  BY <1>4, <1>5, <1>6, <1>7, <1>8

\* The steps that neither serve, answer nor score.
LEMMA AsideSteps ==
  ASSUME OneTabIInv, NEW p \in Proc, WriteNote(p) \/ GrantExtra(p) \/ Reissue(p)
  PROVE  /\ rows' = rows /\ Done(p)
         /\ \A a \in Slot : /\ att'[a].score = att[a].score
                            /\ att'[a].status \in {att[a].status, "pending", "invalidated"}
<1>1. TypeOK /\ IInv /\ req[p].att \in Slot /\ \A a \in Slot : att[a] \in Attempt
  BY SeenByAll
<1>2. rows' = rows /\ Done(p)
  BY DEF WriteNote, GrantExtra, Reissue
<1>3. CASE WriteNote(p) \/ GrantExtra(p)
  <2>1. PICK e, ps : SetAttempt(req[p].att, [att[req[p].att] EXCEPT !.extra = e, !.parts = ps])
    <3>1. CASE WriteNote(p)
      <4> DEFINE ps == req[p].parts \cup {req[p].why}
      <4>1. [att[req[p].att] EXCEPT !.parts = ps] =
              [att[req[p].att] EXCEPT !.extra = att[req[p].att].extra, !.parts = ps]
        BY <1>1 DEF Attempt
      <4>2. SetAttempt(req[p].att, [att[req[p].att] EXCEPT !.parts = ps])
        BY <3>1 DEF WriteNote
      <4> QED
        BY <4>1, <4>2
    <3>2. CASE GrantExtra(p)
      BY <3>2 DEF GrantExtra
    <3> QED
      BY <1>3, <3>1, <3>2
  <2> DEFINE x == [att[req[p].att] EXCEPT !.extra = e, !.parts = ps]
  <2>2. x.score = att[req[p].att].score /\ x.status = att[req[p].att].status
    BY <1>1 DEF Attempt
  <2>3. SetAttempt(req[p].att, x)
    BY <2>1
  <2> HIDE DEF x
  <2>4. \A a \in Slot : att'[a] = IF a = req[p].att THEN x ELSE att[a]
    BY <1>1, <2>3 DEF SetAttempt, TypeOK
  <2> QED
    BY <1>2, <2>2, <2>4
<1>4. CASE Reissue(p)
  <2> DEFINE stamped == req[p].want /\ (req[p].op = "grant" \/ "accommodation" \in req[p].parts)
             parts == (IF stamped THEN {"accommodation"} ELSE {})
                        \cup (IF req[p].op = "ask" THEN {"auto"} ELSE {})
             f == Fresh(req[p].want, parts)
  <2>1. \A a \in Slot : att'[a] = IF a = req[p].slot THEN f
                                  ELSE IF a = req[p].att /\ Supersedes(p)
                                         THEN [att[a] EXCEPT !.status = "invalidated"]
                                         ELSE att[a]
    BY <1>4 DEF Reissue
  <2> HIDE DEF parts
  <2>2. f.score = NoScore /\ f.status = "pending"
    BY DEF Fresh
  <2>3. \A a \in Slot : LET y == [att[a] EXCEPT !.status = "invalidated"]
                        IN  y.score = att[a].score /\ y.status = "invalidated"
    BY <1>1 DEF Attempt
  <2>4. \A a \in Slot : a = req[p].slot => att[a].score = NoScore
    BY <1>1, <1>4 DEF Reissue, IInv, RanksAreOwn, PendingIsUnseen
  <2> HIDE DEF f
  <2> QED
    BY <1>2, <2>1, <2>2, <2>3, <2>4
<1> QED
  BY <1>3, <1>4

LEMMA TabAsideSteps ==
  ASSUME OneTabIInv, IInv', NEW p \in Proc, WriteNote(p) \/ GrantExtra(p) \/ Reissue(p)
  PROVE  OneTabIInv'
<1>1. \A q \in Proc : req'[q] = req[q] \/ req'[q].pc \notin TabPlaces
  BY AsideSteps, SeenByAll, Ended
<1> QED
  BY <1>1, AsideSteps, TabAside

LEMMA StaffLoads ==
  ASSUME OneTabIInv, IInv', NEW p \in Proc, NEW a \in Slot, NEW m \in BOOLEAN,
         \/ LoadReissue(p, a) \/ LoadDismiss(p, a)
         \/ LoadGrant(p, a, m) \/ LoadGrantReissue(p, a, m)
  PROVE  OneTabIInv'
<1>1. \A o \in Op : Loaded(o, a) \in Request
  BY SeenByAll, LoadedType
<1>2. PICK r : Goto(p, r) /\ r.pc \in {"reissue", "note", "extra"}
  <2>1. CASE LoadReissue(p, a)
    <3> DEFINE r == [Loaded("reissue", a) EXCEPT !.pc = "reissue", !.slot = taken + 1]
    <3>1. r.pc = "reissue" /\ Goto(p, r)
      BY <1>1, <2>1 DEF LoadReissue, Op, Request
    <3> QED
      BY <3>1
  <2>2. CASE LoadDismiss(p, a)
    <3> DEFINE r == [Loaded("dismiss", a) EXCEPT !.pc = "note", !.why = "review"]
    <3>1. r.pc = "note" /\ Goto(p, r)
      BY <1>1, <2>2 DEF LoadDismiss, Op, Request
    <3> QED
      BY <3>1
  <2>3. CASE LoadGrant(p, a, m)
    <3> DEFINE r == [Loaded("grant", a) EXCEPT !.pc = "extra", !.want = m]
    <3>1. r.pc = "extra" /\ Goto(p, r)
      BY <1>1, <2>3 DEF LoadGrant, Op, Request
    <3> QED
      BY <3>1
  <2>4. CASE LoadGrantReissue(p, a, m)
    <3> DEFINE r == [Loaded("grant", a) EXCEPT !.pc = "reissue", !.want = m, !.slot = taken + 1]
    <3>1. r.pc = "reissue" /\ Goto(p, r)
      BY <1>1, <2>4 DEF LoadGrantReissue, Op, Request
    <3> QED
      BY <3>1
  <2> QED
    BY <2>1, <2>2, <2>3, <2>4
<1>3. UNCHANGED <<att, rows>>
  BY DEF LoadReissue, LoadDismiss, LoadGrant, LoadGrantReissue
<1>4. r.pc \notin TabPlaces
  BY <1>2 DEF TabPlaces
<1> QED
  BY <1>2, <1>3, <1>4, TabLeaves

\* A request for a new link goes to the team, or is granted at once.
LEMMA TabAsks ==
  ASSUME OneTabIInv, IInv', NEW p \in Proc, AutoReissue(p) \/ AskTeam(p)
  PROVE  OneTabIInv'
<1>1. req[p] \in Request
  BY SeenByAll
<1>2. PICK r : Goto(p, r) /\ r.pc \in {"reissue", "note"}
  <2>1. CASE AutoReissue(p)
    <3> DEFINE r == [req[p] EXCEPT !.pc = "reissue", !.slot = taken + 1]
    <3>1. r.pc = "reissue" /\ Goto(p, r)
      BY <1>1, <2>1 DEF AutoReissue, Request
    <3> QED
      BY <3>1
  <2>2. CASE AskTeam(p)
    <3> DEFINE r == [req[p] EXCEPT !.pc = "note", !.why = "reissue_requested"]
    <3>1. r.pc = "note" /\ Goto(p, r)
      BY <1>1, <2>2 DEF AskTeam, Request
    <3> QED
      BY <3>1
  <2> QED
    BY <2>1, <2>2
<1>3. UNCHANGED <<att, rows>> /\ r.pc \notin TabPlaces
  BY <1>2 DEF AutoReissue, AskTeam, TabPlaces
<1> QED
  BY <1>2, <1>3, TabLeaves

\* A deadline passes: a row becomes due.
LEMMA DueSame ==
  ASSUME OneTabIInv, NEW a \in Slot, NEW i \in DOMAIN rows[a], Deadline(a, i)
  PROVE  /\ att' = att /\ req' = req
         /\ \A b \in Slot : SameRows(rows[b], rows'[b]) /\ rows'[b] \in Seq(Row)
<1> DEFINE S == rows[a]  r == [S[i] EXCEPT !.due = TRUE]  T == [S EXCEPT ![i] = r]
<1>1. TypeOK /\ S \in Seq(Row) /\ \A b \in Slot : rows[b] \in Seq(Row)
  BY SeenByAll
<1>2. SetRows(a, T) /\ att' = att /\ req' = req
  BY DEF Deadline
<1>3. /\ r \in Row /\ r.q = S[i].q /\ r.open = S[i].open /\ r.right = S[i].right
  <2>1. i \in 1 .. Len(S) /\ S[i] \in Row
    BY <1>1
  <2> QED
    BY <2>1 DEF Row
<1> HIDE DEF r
<1>4. T \in Seq(Row) /\ Len(T) = Len(S) /\ \A j \in 1 .. Len(S) : T[j] = IF j = i THEN r ELSE S[j]
  BY <1>1, <1>3, ExceptSeq
<1> HIDE DEF T
<1>5. SameRows(S, T)
  BY <1>3, <1>4 DEF SameRows
<1>6. \A b \in Slot : rows'[b] = IF b = a THEN T ELSE rows[b]
  BY <1>1, <1>2 DEF TypeOK, SetRows
<1>7. \A b \in Slot : SameRows(rows[b], rows'[b]) /\ rows'[b] \in Seq(Row)
  BY <1>1, <1>4, <1>5, <1>6, SameRefl
<1> QED
  BY <1>2, <1>7

LEMMA TabDeadline ==
  ASSUME OneTabIInv, IInv', NEW a \in Slot, NEW i \in DOMAIN rows[a], Deadline(a, i)
  PROVE  OneTabIInv'
<1>1. \A b \in Slot : /\ rows[b] \in Seq(Row) /\ InPlace(rows[b])
                      /\ rows'[b] \in Seq(Row) /\ SameRows(rows[b], rows'[b])
  BY SeenByAll, DueSame
<1>2. att' = att /\ req' = req
  BY DueSame
<1>3. ASSUME NEW b \in Slot
      PROVE  /\ Open(rows'[b]) = Open(rows[b]) /\ Right(rows'[b]) = Right(rows[b])
             /\ DOMAIN rows'[b] = DOMAIN rows[b] /\ InPlace(rows'[b])
             /\ (rows[b] = <<>> => rows'[b] = <<>>)
  <2>1. Open(rows'[b]) = Open(rows[b]) /\ Right(rows'[b]) = Right(rows[b])
        /\ DOMAIN rows'[b] = DOMAIN rows[b]
    BY <1>1, SameSets
  <2>2. \A j \in DOMAIN rows[b] : rows'[b][j].q = rows[b][j].q
    BY <1>1 DEF SameRows
  <2>3. rows[b] = <<>> => rows'[b] = <<>>
    BY <1>1 DEF SameRows
  <2> QED
    BY <1>1, <2>1, <2>2, <2>3 DEF InPlace
<1>4. ASSUME NEW q \in Proc PROVE Sees(q, req[q])'
  <2>1. Sees(q, req[q]) /\ req[q].att \in Slot /\ req[q].seen \in Seq(Row)
    BY SeenByAll
  <2> DEFINE S == rows[req[q].att]  T == rows'[req[q].att]
  <2>2. SameRows(S, T) /\ Open(T) = Open(S) /\ Right(T) = Right(S) /\ (S = <<>> => T = <<>>)
    BY <1>1, <1>3, <2>1
  <2>3. SameRows(req[q].seen, S) => SameRows(req[q].seen, T)
    BY <2>2 DEF SameRows
  <2> HIDE DEF T
  <2>4. Sees(q, req[q]) => /\ req[q].pc \in TabPlaces => q \in Tab
                           /\ req[q].pc = "expire" => T = <<>>
                           /\ req[q].pc = "submit" => req[q].row \in Open(T)
                           /\ req[q].pc \in {"decide", "score"} => SameRows(req[q].seen, T)
                           /\ req[q].pc = "score" => req[q].score = Right(T)
    BY <2>2, <2>3 DEF Sees
  <2> QED
    BY <1>2, <2>1, <2>4 DEF Sees, T
<1>5. OneTab' /\ ExpiredUnstarted'
  BY <1>2, <1>3 DEF OneTabIInv, OneTab, ExpiredUnstarted
<1>6. ScoredIsOver'
  <2>1. ASSUME NEW b \in Slot, att[b].score # NoScore
        PROVE  att[b].status \in {"completed", "invalidated"} /\ Open(rows'[b]) = {}
    BY <1>3, <2>1 DEF OneTabIInv, ScoredIsOver
  <2> QED
    BY <1>2, <2>1 DEF ScoredIsOver
<1>7. (\A b \in Slot : InPlace(rows[b]))'
  BY <1>3 DEF InPlace, Open
<1> QED
  BY <1>4, <1>5, <1>6, <1>7, AllSee

LEMMA TabLapse ==
  ASSUME OneTabIInv, IInv', NEW a \in Slot, Lapse(a)
  PROVE  OneTabIInv'
<1> DEFINE x == [att[a] EXCEPT !.lapsed = TRUE]
<1>1. TypeOK /\ att[a] \in Attempt
  BY SeenByAll
<1>2. SetAttempt(a, x) /\ UNCHANGED <<rows, req>>
  BY DEF Lapse
<1>3. x.score = att[a].score /\ x.status = att[a].status
  BY <1>1 DEF Attempt
<1> HIDE DEF x
<1>4. \A b \in Slot : att'[b] = IF b = a THEN x ELSE att[b]
  BY <1>1, <1>2 DEF SetAttempt, TypeOK
<1> QED
  BY <1>2, <1>3, <1>4, TabAside

\* Which of the lemmas a step falls under.
LEMMA StepKinds ==
  ASSUME Next
  PROVE  \/ \E p \in Tab : \/ Expire(p) \/ ReturnOpen(p) \/ ServeNext(p) \/ Finalize(p)
                           \/ Submit(p)
         \/ \E p \in Proc : WriteNote(p) \/ GrantExtra(p) \/ Reissue(p)
         \/ \E a \in Slot : \E i \in DOMAIN rows[a] : Deadline(a, i)
         \/ \E a \in Slot : Lapse(a)
         \/ UNCHANGED <<att, rows>>
<1>1. CASE \E p \in Tab : TabStep(p)
  <2>1. PICK p \in Tab : TabStep(p)
    BY <1>1
  <2>2. p \in Proc
    BY DEF Proc
  <2> QED
    BY <2>1, <2>2 DEF TabStep, LoadNext, LoadEvents, LoadAsk, LoadSubmit, ReadAnswers, ReadScore,
       RefuseAsk, AutoReissue, AskTeam
<1>2. CASE \E p \in Staff : StaffStep(p)
  <2>1. PICK p \in Staff : StaffStep(p)
    BY <1>2
  <2>2. p \in Proc
    BY DEF Proc
  <2> QED
    BY <2>1, <2>2 DEF StaffStep, LoadReissue, LoadDismiss, LoadGrant, LoadGrantReissue
<1>3. CASE \E p \in Proc : Crash(p)
  BY <1>3 DEF Crash
<1> QED
  BY <1>1, <1>2, <1>3 DEF Next, Time

LEMMA OneTabInit == OneTab /\ Init => OneTabIInv
<1> SUFFICES ASSUME OneTab, Init PROVE OneTabIInv
  OBVIOUS
<1>1. IInv
  BY InitIInv
<1>2. /\ \A a \in Slot : rows[a] = <<>> /\ att[a].score = NoScore
      /\ \A p \in Proc : req[p].pc = "idle"
  BY DEF Init, Fresh, NoAttempt, Idle
<1>3. RowsInPlace /\ ExpiredUnstarted /\ ScoredIsOver
  BY <1>2 DEF RowsInPlace, ExpiredUnstarted, ScoredIsOver, Open
<1>4. TabSees
  BY <1>2 DEF TabSees, TabPlaces
<1> QED
  BY <1>1, <1>3, <1>4 DEF OneTabIInv

LEMMA OneTabNext == OneTabIInv /\ [Next]_vars => OneTabIInv'
<1> SUFFICES ASSUME OneTabIInv, [Next]_vars PROVE OneTabIInv'
  OBVIOUS
<1>1. IInv'
  BY StepKeeps DEF OneTabIInv
<1>2. ASSUME NEW p \in Tab, TabStep(p) PROVE OneTabIInv'
  <2>1. p \in Proc
    BY DEF Proc
  <2>2. CASE RefuseAsk(p)
    BY <1>1, <2>1, <2>2, TabEnds DEF RefuseAsk
  <2> QED
    BY <1>1, <1>2, <2>1, <2>2, TabLoads, TabLoadsSubmit, TabReads, TabReadsScore, TabCommits,
       TabAsideSteps, TabAsks DEF TabStep
<1>3. ASSUME NEW p \in Staff, StaffStep(p) PROVE OneTabIInv'
  <2>1. p \in Proc /\ TRUE \in BOOLEAN
    BY DEF Proc
  <2> QED
    BY <1>1, <1>3, <2>1, StaffLoads, TabAsideSteps DEF StaffStep
<1>4. ASSUME NEW p \in Proc, Crash(p) PROVE OneTabIInv'
  BY <1>1, <1>4, TabEnds DEF Crash
<1>5. CASE Time
  BY <1>1, <1>5, TabDeadline, TabLapse DEF Time
<1>6. CASE UNCHANGED vars
  BY <1>1, <1>6, TabAside DEF vars
<1> QED
  BY <1>2, <1>3, <1>4, <1>5, <1>6 DEF Next

\* While the candidate sends one request at a time, whatever the team does meanwhile:
\* one question is open at a time (README.md:30), none is asked twice, and an expired
\* attempt was never started.
THEOREM OneTabIsAnExam == OneTab /\ Spec => []OneTabExam
<1>1. OneTab /\ Spec => []OneTabIInv
  BY OneTabInit, OneTabNext, PTL DEF Spec
<1>2. ASSUME OneTabIInv PROVE OneTabExam
  <2>1. ASSUME NEW a \in Slot PROVE Cardinality(Open(rows[a])) <= 1
    <3>1. \A i, j \in Open(rows[a]) : i = j
      BY <1>2 DEF OneTabIInv, RowsInPlace
    <3>2. CASE Open(rows[a]) = {}
      BY <3>2, FS_EmptySet
    <3>3. CASE Open(rows[a]) # {}
      <4>1. PICK i : i \in Open(rows[a])
        BY <3>3
      <4>2. Open(rows[a]) = {i}
        BY <3>1, <4>1
      <4>3. Cardinality({i}) = 1
        BY FS_Singleton
      <4> QED
        BY <4>2, <4>3
    <3> QED
      BY <3>2, <3>3
  <2>2. ServedOnce
    BY <1>2 DEF OneTabIInv, RowsInPlace, ServedOnce
  <2>3. OneOpen
    BY <2>1 DEF OneOpen
  <2> QED
    BY <1>2, <2>2, <2>3 DEF OneTabIInv, OneTabExam
<1> QED
  BY <1>1, <1>2, PTL

\* What a step does to one attempt as an exam: it asks, takes an answer, closes, or
\* does not show.
LEMMA StepIsExam ==
  ASSUME OneTabIInv, [Next]_vars, NEW b \in Slot
  PROVE  [ExamOf(b)!Next]_(ExamOf(b)!vars)
<1> DEFINE Same == /\ Len(rows'[b]) = Len(rows[b]) /\ Open(rows'[b]) = Open(rows[b])
                   /\ Right(rows'[b]) = Right(rows[b]) /\ att'[b].score = att[b].score
<1>1. TypeOK /\ IInv
  BY SeenByAll
<1>2. Same => UNCHANGED ExamOf(b)!vars
  BY DEF ExamOf!vars, Open, Right
<1>3. CASE UNCHANGED <<att, rows>>
  BY <1>2, <1>3
<1>4. ASSUME NEW p \in Proc, WriteNote(p) \/ GrantExtra(p) \/ Reissue(p) PROVE Same
  BY <1>4, AsideSteps
<1>5. ASSUME NEW a \in Slot, NEW i \in DOMAIN rows[a], Deadline(a, i) PROVE Same
  <2>1. att' = att /\ SameRows(rows[b], rows'[b]) /\ rows[b] \in Seq(Row) /\ rows'[b] \in Seq(Row)
    BY <1>5, DueSame, SeenByAll
  <2>2. Open(rows'[b]) = Open(rows[b]) /\ Right(rows'[b]) = Right(rows[b])
    BY <2>1, SameSets
  <2> QED
    BY <2>1, <2>2 DEF SameRows
<1>6. ASSUME NEW a \in Slot, Lapse(a) PROVE Same
  <2>1. att[a] \in Attempt /\ rows' = rows
    BY <1>6, SeenByAll DEF Lapse
  <2>2. att'[b].score = att[b].score
    BY <1>1, <1>6, <2>1 DEF Lapse, SetAttempt, TypeOK, Attempt
  <2> QED
    BY <2>1, <2>2
<1>7. ASSUME NEW p \in Tab, Expire(p) \/ ReturnOpen(p) PROVE Same
  <2>1. p \in Proc /\ req[p].att \in Slot
    BY SeenByAll DEF Proc
  <2>2. /\ rows' = rows /\ att[req[p].att].score = NoScore
        /\ \E x : SetAttempt(req[p].att, x) /\ x.score = NoScore
    BY <1>7, ExpiresUnseen, ReturnsSame
  <2> QED
    BY <1>1, <2>1, <2>2 DEF SetAttempt, TypeOK
<1>8. ASSUME NEW p \in Tab, ServeNext(p) \/ Finalize(p) \/ Submit(p), req[p].att # b PROVE Same
  <2>1. /\ \E x : SetAttempt(req[p].att, x) \/ att' = att
        /\ \E T : SetRows(req[p].att, T)
    BY <1>8, ServesOneMore, FinalizeScores, SubmitCloses
  <2> QED
    BY <1>1, <1>8, <2>1 DEF SetAttempt, SetRows, TypeOK
<1>9. ASSUME NEW p \in Tab, ServeNext(p), req[p].att = b PROVE ExamOf(b)!Ask
  <2>1. PICK x : SetAttempt(b, x) /\ x.score = NoScore
    BY <1>9, ServesOneMore
  <2>2. PICK T \in Seq(Row) : /\ SetRows(b, T) /\ Len(T) = Len(rows[b]) + 1
                              /\ Open(T) = {Len(T)} /\ Right(T) = Right(rows[b])
    BY <1>9, ServesOneMore
  <2>3. att'[b].score = NoScore /\ rows'[b] = T
    BY <1>1, <2>1, <2>2 DEF SetAttempt, SetRows, TypeOK
  <2>4. att[b].score = NoScore /\ Len(rows[b]) < N
    BY <1>9, ServesOneMore
  <2>5. /\ Len(rows'[b]) = Len(rows[b]) + 1 /\ Open(rows'[b]) # {}
        /\ Right(rows'[b]) = Right(rows[b])
    BY <2>2, <2>3
  <2> QED
    BY <2>3, <2>4, <2>5 DEF ExamOf!Ask, ExamOf!Running, NoScore, Open, Right
<1>10. ASSUME NEW p \in Tab, Submit(p), req[p].att = b PROVE ExamOf(b)!Answer
  <2>1. PICK T \in Seq(Row) : /\ SetRows(b, T) /\ Len(T) = Len(rows[b]) /\ Open(T) = {}
                              /\ Right(T) \in {Right(rows[b]), Right(rows[b]) + 1}
    BY <1>10, SubmitCloses
  <2>2. rows'[b] = T
    BY <1>1, <2>1 DEF SetRows, TypeOK
  <2>3. att' = att /\ att[b].score = NoScore /\ Open(rows[b]) # {}
    BY <1>10, SubmitCloses
  <2>4. /\ Len(rows'[b]) = Len(rows[b]) /\ Open(rows'[b]) = {}
        /\ Right(rows'[b]) \in {Right(rows[b]), Right(rows[b]) + 1}
    BY <2>1, <2>2
  <2> QED
    BY <2>3, <2>4 DEF ExamOf!Answer, ExamOf!Running, NoScore, Open, Right
<1>11. ASSUME NEW p \in Tab, Finalize(p), req[p].att = b PROVE ExamOf(b)!Close
  <2>1. PICK x : SetAttempt(b, x) /\ x.score = Right(rows[b])
    BY <1>11, FinalizeScores
  <2>2. PICK T \in Seq(Row) : /\ SetRows(b, T) /\ Len(T) = Len(rows[b]) /\ Open(T) = {}
                              /\ Right(T) = Right(rows[b])
    BY <1>11, FinalizeScores
  <2>3. att'[b].score = Right(rows[b]) /\ rows'[b] = T
    BY <1>1, <2>1, <2>2 DEF SetAttempt, SetRows, TypeOK
  <2>4. att[b].score = NoScore /\ Len(rows[b]) = N
    BY <1>11, FinalizeScores
  <2>5. /\ Len(rows'[b]) = Len(rows[b]) /\ Open(rows'[b]) = {}
        /\ Right(rows'[b]) = Right(rows[b])
    BY <2>2, <2>3
  <2> QED
    BY <2>3, <2>4, <2>5 DEF ExamOf!Close, ExamOf!Running, NoScore, Open, Right
<1>12. CASE Next
  <2>1. CASE UNCHANGED ExamOf(b)!vars
    BY <2>1
  <2>2. CASE ExamOf(b)!Ask \/ ExamOf(b)!Answer \/ ExamOf(b)!Close
    BY <2>2 DEF ExamOf!Next
  <2> HIDE DEF Same
  <2> QED
    BY <1>2, <1>3, <1>4, <1>5, <1>6, <1>7, <1>8, <1>9, <1>10, <1>11, <1>12, <2>1, <2>2, StepKinds
<1> QED
  BY <1>3, <1>12 DEF vars

\* While the candidate sends one request at a time, every attempt implements Exam: its
\* questions are asked one after the other, each is answered at most once or missed,
\* and the score, given once at the end, is the number of right answers.
THEOREM ExamImplemented == OneTab /\ Spec => ImplementsExam
<1> DEFINE Starts == \A a \in Slot : ExamOf(a)!Init
           Steps == \A a \in Slot : [ExamOf(a)!Next]_(ExamOf(a)!vars)
<1>1. OneTab /\ Spec => []OneTabIInv
  BY OneTabInit, OneTabNext, PTL DEF Spec
<1>2. ASSUME Init PROVE Starts
  <2>1. \A a \in Slot : rows[a] = <<>> /\ att[a].score = NoScore
    BY <1>2 DEF Init, Fresh, NoAttempt
  <2>2. Open(<<>>) = {} /\ Right(<<>>) = 0
    <3>1. {i \in DOMAIN <<>> : <<>>[i].right} = {}
      OBVIOUS
    <3> QED
      BY <3>1, FS_EmptySet DEF Open, Right
  <2>3. \A a \in Slot : Open(rows[a]) = {} /\ Right(rows[a]) = 0 /\ Len(rows[a]) = 0
    BY <2>1, <2>2
  <2> QED
    BY <2>1, <2>3 DEF ExamOf!Init, ExamOf!Running, NoScore, Open, Right
<1>3. ASSUME OneTabIInv, [Next]_vars PROVE [Steps]_vars
  BY <1>3, StepIsExam
<1>4. Init => Starts
  BY <1>2
<1>5. OneTabIInv /\ [Next]_vars => [Steps]_vars
  BY <1>3
<1> HIDE DEF Starts, Steps
<1>6. OneTab /\ Spec => Starts /\ [][Steps]_vars
  BY <1>1, <1>4, <1>5, PTL DEF Spec
<1> QED
  BY <1>6 DEF ImplementsExam, Starts, Steps
=============================================================================
