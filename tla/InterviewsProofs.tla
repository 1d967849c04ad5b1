-------------------------- MODULE InterviewsProofs --------------------------
(***************************************************************************)
(* Proofs about Interviews and Invitations, the two views of an interview. *)
(*                                                                         *)
(* Interviews, for any number of requests, interviews, applications and    *)
(* starts.  Every step changes the record of one request; what that record *)
(* must satisfy, given the tables, is Sound.  Most steps leave the tables  *)
(* alone (Moves); the others have a lemma each.                            *)
(*                                                                         *)
(* Invitations, for any number of requests, starts and moves of one        *)
(* interview, and any number of faults.  What the mails say to a calendar  *)
(* is proved once (BookingMailsSay, CancelMailsSay, EraseMailsSay).  As    *)
(* long as the interview is left alone, mails may only move on             *)
(* (CalendarsKeep) or arrive (CalendarsReceive); a change is ahead of all  *)
(* that is on its way (CommitCalendars).                                   *)
(***************************************************************************)
EXTENDS Meetings, Sequences, FiniteSetTheorems, TLAPS

Kinds == {"book", "move", "cancel"}
Locks(r) == r.op \in {"book", "move"} /\ r.pc \in {"locked", "flushed"}

\* A record r is sound with interviews I, scorecards C and asked-for applications A.
Placed(r) ==
    /\ r.pc \in {"slots", "wait", "locked"} => r.op \in {"book", "move"}
    /\ r.pc \in {"flushed", "mail"} => r.op \in Kinds
    /\ r.pc = "answer" => r.op \in Answers
    /\ r.op \in Kinds /\ r.pc # "idle" => r.app = AppOf[r.iv]
    /\ r.op \in {"book", "move"} /\ r.pc # "idle" => r.want \in Slot

Clear(r, I) ==
    Locks(r) /\ r.pc = "flushed" =>
      \A j \in Interview \ {r.iv} : I[j].status = "booked" =>
         ~Overlap(r.want, Dur[r.iv], I[j].start, Dur[j])

Current(r, I) ==
    /\ Locks(r) /\ r.op = "move" => r.seq = I[r.iv].seq
    /\ r.op = "move" /\ r.pc = "mail" => r.seq <= I[r.iv].seq

Kept(r, C, A) ==
    /\ r.card.there => C[r.app].there
    /\ r.pc = "answer" => r.card.there
    /\ r.pc = "ask" => r.app \in A

Counts(r, C, A) ==
    r.app \notin A =>
      /\ r.op = "book" /\ r.pc = "flushed" =>
           C[r.app].there = r.card.there /\ C[r.app].link = r.card.link
      /\ r.op = "cancel" /\ r.pc = "flushed" /\ Open(C[r.app]) /\ C[r.app].link = r.iv =>
           Open(r.card) /\ r.card.link = r.iv

Sound(r, I, C, A) ==
    Placed(r) /\ Clear(r, I) /\ Current(r, I) /\ Kept(r, C, A) /\ Counts(r, C, A)

LEMMA SoundRequests ==
  ASSUME IInv PROVE \A p \in Proc : Sound(req[p], iv, card, asked)
<1> SUFFICES ASSUME NEW p \in Proc PROVE Sound(req[p], iv, card, asked)
  OBVIOUS
<1>1. Placed(req[p])
  BY DEF IInv, InStep, WantIsClear, Placed, Kinds
<1>2. Clear(req[p], iv)
  BY DEF IInv, WantIsClear, HoldsLock, Clear, Locks
<1>3. Current(req[p], iv)
  BY DEF IInv, SeqIsCurrent, HoldsLock, At, Current, Locks
<1>4. Kept(req[p], card, asked)
  BY DEF IInv, CopyIsThere, Kept
<1>5. Counts(req[p], card, asked)
  BY DEF IInv, CopyIsCurrent, At, Counts
<1> QED
  BY <1>1, <1>2, <1>3, <1>4, <1>5 DEF Sound

\* The invariant from the tables, the mails and the records.
LEMMA SoundSuffices ==
  ASSUME TypeOK', NoOverlap', MovesAreOrdered', CardIsWithdrawn', BookedHasTime', LinkIsOwn',
         LocksAreExclusive', SeqIsOwn', (\A m \in mails : m.op = "move" => m.seq <= iv[m.iv].seq)',
         \A p \in Proc : Sound(req'[p], iv', card', asked')
  PROVE  IInv'
<1>1. InStep'
  BY DEF InStep, Sound, Placed, Kinds
<1>2. WantIsClear'
  BY DEF WantIsClear, HoldsLock, Sound, Placed, Clear, Locks, Kinds
<1>3. SeqIsCurrent'
  BY DEF SeqIsCurrent, HoldsLock, At, Sound, Current, Locks
<1>4. CopyIsThere'
  BY DEF CopyIsThere, Sound, Kept
<1>5. CopyIsCurrent'
  BY DEF CopyIsCurrent, At, Sound, Counts
<1> QED
  BY <1>1, <1>2, <1>3, <1>4, <1>5 DEF IInv

LEMMA Shapes ==
  /\ AnIv \in Interview /\ AnApp \in App
  /\ Idle \in Request /\ NoCard \in Card /\ NoRow \in Row
<1>1. AnIv \in Interview
  BY SomethingToBook DEF AnIv
<1>2. AnApp \in App
  BY <1>1, AppOfIsAnApp DEF AnApp
<1>3. NoCard \in Card /\ NoRow \in Row
  BY DEF NoCard, Card, NoRow, Row, Status
<1> QED
  BY <1>1, <1>2, <1>3 DEF Idle, Request

LEMMA IdleIsSound ==
  ASSUME NEW I, NEW C, NEW A PROVE Sound(Idle, I, C, A)
BY DEF Idle, NoCard, Sound, Placed, Clear, Current, Kept, Counts, Locks

LEMMA InitInv == Init => IInv
<1> SUFFICES ASSUME Init PROVE IInv
  OBVIOUS
<1>1. TypeOK
  BY Shapes, BoundsAreNatural DEF Init, TypeOK
<1>2. /\ \A i \in Interview : iv[i].status = "none"
      /\ \A a \in App : card[a] = NoCard
      /\ \A p \in Proc : req[p] = Idle
      /\ mails = {}
  BY DEF Init, NoRow
<1>3. NoOverlap /\ BookedHasTime /\ MovesAreOrdered
  BY <1>2 DEF NoOverlap, BookedHasTime, MovesAreOrdered
<1>4. CardIsWithdrawn /\ LinkIsOwn
  <2>1. ~NoCard.there /\ NoCard.link = None
    BY DEF NoCard
  <2> QED
    BY <1>2, <2>1 DEF CardIsWithdrawn, LinkIsOwn, Open
<1>5. InStep /\ LocksAreExclusive /\ WantIsClear
  BY <1>2 DEF InStep, LocksAreExclusive, WantIsClear, HoldsLock, Idle
<1>6. SeqIsCurrent /\ SeqIsOwn
  BY <1>2 DEF SeqIsCurrent, SeqIsOwn, HoldsLock, At, Idle
<1>7. CopyIsThere /\ CopyIsCurrent
  BY <1>2 DEF CopyIsThere, CopyIsCurrent, At, Idle, NoCard
<1> QED
  BY <1>1, <1>3, <1>4, <1>5, <1>6, <1>7 DEF IInv
-----------------------------------------------------------------------------
(***************************************************************************)
(* Steps that leave the tables and the mails alone.                        *)
(***************************************************************************)
LEMMA Moves ==
  ASSUME IInv, NEW p \in Proc, NEW r \in Request,
         req' = [req EXCEPT ![p] = r], UNCHANGED <<iv, card, mails>>,
         Sound(r, iv, card, asked'),
         ~(r.op = "move" /\ r.pc = "mail"),
         Locks(r) => \A q \in Proc \ {p} : ~HoldsLock(q),
         r.pc = "flushed" => RowFree(p, r.iv),
         asked \subseteq asked', asked' \in SUBSET App,
         disturbed' \in SUBSET Interview, aborts' \in 0 .. MaxAborts
  PROVE  IInv'
<1>1. TypeOK /\ req \in [Proc -> Request]
  BY DEF IInv, TypeOK
<1>2. \A q \in Proc : req'[q] = IF q = p THEN r ELSE req[q]
  BY <1>1
<1>3. TypeOK'
  BY <1>1 DEF TypeOK
<1>4. NoOverlap' /\ MovesAreOrdered' /\ BookedHasTime' /\ LinkIsOwn'
  BY DEF IInv, NoOverlap, MovesAreOrdered, BookedHasTime, LinkIsOwn
<1>5. CardIsWithdrawn'
  BY DEF IInv, CardIsWithdrawn
<1>6. (\A m \in mails : m.op = "move" => m.seq <= iv[m.iv].seq)'
  BY DEF IInv, SeqIsCurrent
<1>7. LocksAreExclusive'
  <2>1. \A q, s \in Proc : HoldsLock(q)' /\ HoldsLock(s)' => q = s
    BY <1>2 DEF IInv, LocksAreExclusive, HoldsLock, Locks
  <2>2. \A q, s \in Proc :
          req'[q].pc = "flushed" /\ req'[s].pc = "flushed" /\ req'[q].iv = req'[s].iv => q = s
    BY <1>2 DEF IInv, LocksAreExclusive, RowFree, HoldsRow
  <2> QED
    BY <2>1, <2>2 DEF LocksAreExclusive
<1>8. SeqIsOwn'
  BY <1>2 DEF IInv, SeqIsOwn, At
<1>9. ASSUME NEW q \in Proc PROVE Sound(req'[q], iv', card', asked')
  <2>1. CASE q = p
    BY <1>2, <2>1
  <2>2. CASE q # p
    <3>1. req'[q] = req[q] /\ Sound(req[q], iv, card, asked)
      BY <1>2, <2>2, SoundRequests
    <3>2. Kept(req[q], card, asked') /\ Counts(req[q], card, asked')
      BY <3>1 DEF Sound, Kept, Counts
    <3> QED
      BY <3>1, <3>2 DEF Sound
  <2> QED
    BY <2>1, <2>2
<1> QED
  BY <1>3, <1>4, <1>5, <1>6, <1>7, <1>8, <1>9, SoundSuffices

\* The fields of a request, and its record, typed.
LEMMA Fields ==
  ASSUME TypeOK
  PROVE  /\ \A p \in Proc : /\ req[p] \in Request /\ req[p].iv \in Interview
                            /\ req[p].app \in App /\ req[p].seq \in Nat /\ req[p].card \in Card
                            /\ req[p].start \in Slot \cup {NoStart}
                            /\ req[p].want \in Slot \cup {NoStart}
         /\ \A i \in Interview : /\ iv[i] \in Row /\ iv[i].seq \in Nat
                                 /\ iv[i].start \in Slot \cup {NoStart}
                                 /\ iv[i].status \in Status
         /\ \A a \in App : card[a] \in Card
BY DEF TypeOK, Request, Row

LEMMA RestKeeps ==
  ASSUME IInv, NEW p \in Proc, Done(p), UNCHANGED <<iv, card, mails, asked>>,
         disturbed' \in SUBSET Interview, aborts' \in 0 .. MaxAborts
  PROVE  IInv'
<1>1. /\ Idle \in Request /\ Sound(Idle, iv, card, asked') /\ req' = [req EXCEPT ![p] = Idle]
      /\ Idle.pc = "idle"
  BY Shapes, IdleIsSound DEF Done, Goto, Idle
<1>2. asked' = asked /\ asked \in SUBSET App
  BY DEF IInv, TypeOK
<1> QED
  BY <1>1, <1>2, Moves DEF Locks

LEMMA Loading ==
  ASSUME TypeOK, NEW o \in Kinds, NEW i \in Interview
  PROVE  /\ Loaded(o, i) \in Request
         /\ Loaded(o, i).op = o /\ Loaded(o, i).iv = i /\ Loaded(o, i).app = AppOf[i]
         /\ ~Loaded(o, i).card.there
<1>1. AppOf[i] \in App /\ iv[i].start \in Slot \cup {NoStart} /\ iv[i].seq \in Nat
  BY Fields, AppOfIsAnApp
<1>2. Loaded(o, i) \in Request
  BY <1>1, Shapes DEF Loaded, Request, Kinds
<1>3. Loaded(o, i).card = NoCard /\ ~NoCard.there
  BY DEF Loaded, Idle, NoCard
<1> QED
  BY <1>2, <1>3 DEF Loaded, Idle

LEMMA LoadKeeps ==
  ASSUME IInv, NEW p \in Proc, NEW i \in Interview,
         LoadCancel(p, i) \/ \E s \in Slot : LoadBook(p, i, s) \/ LoadMove(p, i, s)
  PROVE  IInv'
<1>1. TypeOK
  BY DEF IInv
<1>2. PICK r \in Request :
        /\ req' = [req EXCEPT ![p] = r]
        /\ r.op \in Kinds /\ r.pc \in {"slots", "cancel"}
        /\ r.pc = "slots" => r.op \in {"book", "move"}
        /\ r.op \in {"book", "move"} => r.want \in Slot
        /\ r.app = AppOf[r.iv] /\ ~r.card.there
  <2>1. LET r == [Loaded("cancel", i) EXCEPT !.pc = "cancel"]
        IN  /\ r \in Request /\ r.op = "cancel" /\ r.pc = "cancel"
            /\ r.app = AppOf[r.iv] /\ ~r.card.there
    <3>1. /\ Loaded("cancel", i) \in Request /\ Loaded("cancel", i).op = "cancel"
          /\ ~Loaded("cancel", i).card.there
          /\ Loaded("cancel", i).app = AppOf[Loaded("cancel", i).iv]
      BY <1>1, Loading DEF Kinds
    <3> QED
      BY <3>1 DEF Request
  <2>2. CASE \E s \in Slot : LoadBook(p, i, s) \/ LoadMove(p, i, s)
    <3>1. PICK o \in {"book", "move"}, s \in Slot :
            req' = [req EXCEPT ![p] = [Loaded(o, i) EXCEPT !.pc = "slots", !.want = s]]
      BY <2>2 DEF LoadBook, LoadMove, Goto
    <3> DEFINE r == [Loaded(o, i) EXCEPT !.pc = "slots", !.want = s]
    <3>2. /\ Loaded(o, i) \in Request /\ Loaded(o, i).op = o
          /\ Loaded(o, i).app = AppOf[Loaded(o, i).iv] /\ ~Loaded(o, i).card.there
      BY <1>1, Loading DEF Kinds
    <3>3. /\ r \in Request /\ r.op = o /\ r.pc = "slots" /\ r.want = s
          /\ r.app = AppOf[r.iv] /\ ~r.card.there
      BY <3>2 DEF Request
    <3>4. req' = [req EXCEPT ![p] = r]
      BY <3>1
    <3> HIDE DEF r
    <3> QED
      BY <3>3, <3>4 DEF Kinds
  <2>3. CASE LoadCancel(p, i)
    BY <2>1, <2>3 DEF LoadCancel, Goto, Kinds
  <2> QED
    BY <2>2, <2>3
<1>3. Sound(r, iv, card, asked')
  BY <1>2 DEF Sound, Placed, Clear, Current, Kept, Counts, Locks, Kinds
<1>4. UNCHANGED <<iv, card, mails, asked, aborts>> /\ disturbed' \in SUBSET Interview
  BY <1>1 DEF LoadBook, LoadMove, LoadCancel, Touch, TypeOK
<1> QED
  BY <1>1, <1>2, <1>3, <1>4, Moves DEF TypeOK, Locks

LEMMA OtherLoadsKeep ==
  ASSUME IInv, NEW p \in Proc, NEW a \in App,
         LoadCreate(p, a) \/ LoadAsk(p, a) \/ \E o \in Answers : LoadAnswer(p, a, o)
  PROVE  IInv'
<1>1. TypeOK /\ card[a] \in Card /\ ~NoCard.there
  BY Fields DEF IInv, NoCard
<1>2. PICK r \in Request :
        /\ req' = [req EXCEPT ![p] = r]
        /\ r.op \notin Kinds /\ r.pc \in {"insert", "ask", "answer"} /\ r.app = a
        /\ r.card \in {NoCard, card[a]}
        /\ r.pc = "answer" => r.op \in Answers /\ r.card = card[a] /\ card[a].there
        /\ r.pc = "ask" => a \in asked'
  <2>1. CASE LoadCreate(p, a)
    <3> DEFINE r == [Idle EXCEPT !.op = "create", !.pc = "insert", !.app = a]
    <3>1. /\ r \in Request /\ r.op = "create" /\ r.pc = "insert" /\ r.app = a
          /\ r.card = NoCard
      BY Shapes DEF Request, Idle
    <3>2. req' = [req EXCEPT ![p] = r]
      BY <2>1 DEF LoadCreate, Goto
    <3> HIDE DEF r
    <3> QED
      BY <3>1, <3>2 DEF Kinds
  <2>2. CASE LoadAsk(p, a)
    <3> DEFINE r == [Idle EXCEPT !.op = "ask", !.pc = "ask", !.app = a, !.card = card[a]]
    <3>1. r \in Request /\ r.op = "ask" /\ r.pc = "ask" /\ r.app = a /\ r.card = card[a]
      BY <1>1, Shapes DEF Request, Idle
    <3>2. req' = [req EXCEPT ![p] = r] /\ a \in asked'
      BY <2>2 DEF LoadAsk, Goto
    <3> HIDE DEF r
    <3> QED
      BY <3>1, <3>2 DEF Kinds
  <2>3. CASE \E o \in Answers : LoadAnswer(p, a, o)
    <3>1. PICK o \in Answers : LoadAnswer(p, a, o)
      BY <2>3
    <3> DEFINE r == [Idle EXCEPT !.op = o, !.pc = "answer", !.app = a, !.card = card[a]]
    <3>2. r \in Request /\ r.op = o /\ r.pc = "answer" /\ r.app = a /\ r.card = card[a]
      BY <1>1, Shapes DEF Request, Idle, Answers
    <3>3. req' = [req EXCEPT ![p] = r] /\ card[a].there
      BY <3>1 DEF LoadAnswer, Goto, Open
    <3> HIDE DEF r
    <3> QED
      BY <3>2, <3>3 DEF Kinds, Answers
  <2> QED
    BY <2>1, <2>2, <2>3
<1>3. Sound(r, iv, card, asked')
  BY <1>1, <1>2 DEF Sound, Placed, Clear, Current, Kept, Counts, Locks, Kinds
<1>4. /\ UNCHANGED <<iv, card, mails, disturbed, aborts>>
      /\ asked \subseteq asked' /\ asked' \in SUBSET App
  BY <1>1 DEF LoadCreate, LoadAsk, LoadAnswer, TypeOK
<1> QED
  BY <1>1, <1>2, <1>3, <1>4, Moves DEF TypeOK, Locks, Kinds

LEMMA CheckSlotsKeeps ==
  ASSUME IInv, NEW p \in Proc, CheckSlots(p)
  PROVE  IInv'
<1>1. TypeOK
  BY DEF IInv
<1>2. CASE Offered(p)
  <2> DEFINE r == [req[p] EXCEPT !.pc = "wait"]
  <2>1. req[p] \in Request /\ Sound(req[p], iv, card, asked) /\ req[p].pc = "slots"
    BY <1>1, Fields, SoundRequests DEF CheckSlots
  <2>2. /\ r \in Request /\ r.pc = "wait" /\ r.op = req[p].op /\ r.iv = req[p].iv
        /\ r.app = req[p].app /\ r.want = req[p].want /\ r.card = req[p].card
    BY <2>1 DEF Request
  <2>3. req' = [req EXCEPT ![p] = r] /\ UNCHANGED <<iv, card, mails, disturbed, asked, aborts>>
    BY <1>2 DEF CheckSlots, Goto
  <2> HIDE DEF r
  <2>4. Sound(r, iv, card, asked')
    BY <2>1, <2>2, <2>3 DEF Sound, Placed, Clear, Current, Kept, Counts, Locks
  <2> QED
    BY <1>1, <2>2, <2>3, <2>4, Moves DEF TypeOK, Locks
<1>3. CASE ~Offered(p)
  BY <1>1, <1>3, RestKeeps DEF CheckSlots, TypeOK
<1> QED
  BY <1>2, <1>3

LEMMA LockKeeps ==
  ASSUME IInv, NEW p \in Proc, Lock(p)
  PROVE  IInv'
<1>1. TypeOK
  BY DEF IInv
<1>2. CASE StillThere(p)
  <2> DEFINE r == [req[p] EXCEPT !.pc = "locked",
                                 !.seq = IF req[p].op = "move" THEN Refreshed(p) ELSE @]
  <2>1. /\ req[p] \in Request /\ Sound(req[p], iv, card, asked) /\ req[p].pc = "wait"
        /\ iv[req[p].iv].seq \in Nat
    BY <1>1, Fields, SoundRequests DEF Lock
  <2>2. /\ r \in Request /\ r.pc = "locked" /\ r.op = req[p].op /\ r.iv = req[p].iv
        /\ r.app = req[p].app /\ r.want = req[p].want /\ r.card = req[p].card
        /\ r.op = "move" => r.seq = iv[r.iv].seq
    BY <2>1 DEF Request, Refreshed
  <2>3. req' = [req EXCEPT ![p] = r] /\ UNCHANGED <<iv, card, mails, disturbed, asked, aborts>>
    BY <1>2 DEF Lock, Goto
  <2> HIDE DEF r
  <2>4. Sound(r, iv, card, asked')
    BY <2>1, <2>2, <2>3 DEF Sound, Placed, Clear, Current, Kept, Counts, Locks
  <2> QED
    BY <1>1, <2>2, <2>3, <2>4, Moves DEF Lock, TypeOK, Locks
<1>3. CASE ~StillThere(p)
  BY <1>1, <1>3, RestKeeps DEF Lock, TypeOK
<1> QED
  BY <1>2, <1>3

\* The query looks back far enough: what it does not compare does not overlap.
LEMMA UnbookedIsClear ==
  ASSUME IInv, NEW p \in Proc, Unbooked(p), req[p].op \in {"book", "move"}, req[p].pc = "locked",
         NEW j \in Interview \ {req[p].iv}, iv[j].status = "booked"
  PROVE  ~Overlap(req[p].want, Dur[req[p].iv], iv[j].start, Dur[j])
<1> DEFINE w == req[p].want  d == Dur[req[p].iv]  t == iv[j].start  e == Dur[j]
<1>1. TypeOK /\ req[p].iv \in Interview
  BY Fields DEF IInv
<1>2. w \in Nat /\ t \in Nat /\ t # NoStart
  BY SlotsAreTimes DEF IInv, WantIsClear, BookedHasTime
<1>3. d \in Nat /\ e \in Nat /\ e <= MAX_INTERVIEW_MINUTES /\ MAX_INTERVIEW_MINUTES \in Nat
  BY <1>1, DurationsAreCapped
<1>4. t >= w - MAX_INTERVIEW_MINUTES /\ t < w + d => ~Overlap(w, d, t, e)
  BY <1>2 DEF Unbooked, LookBack, Conflict, SeenStart
<1> HIDE DEF w, d, t, e
<1>5. t < w - MAX_INTERVIEW_MINUTES \/ t >= w + d => ~Overlap(w, d, t, e)
  BY <1>2, <1>3 DEF Overlap
<1>6. ~Overlap(w, d, t, e)
  BY <1>2, <1>3, <1>4, <1>5
<1> QED
  BY <1>6 DEF w, d, t, e

\* A flush keeps the request but for the scorecard it reads.
LEMMA Flushing ==
  ASSUME TypeOK, NEW p \in Proc
  PROVE  LET r == [req[p] EXCEPT !.pc = "flushed", !.card = card[req[p].app]]
         IN  /\ r \in Request /\ r.pc = "flushed" /\ r.op = req[p].op /\ r.iv = req[p].iv
             /\ r.app = req[p].app /\ r.want = req[p].want /\ r.seq = req[p].seq
             /\ r.card = card[req[p].app]
<1>1. req[p] \in Request /\ card[req[p].app] \in Card
  BY Fields
<1> QED
  BY <1>1 DEF Request

LEMMA FlushKeeps ==
  ASSUME IInv, NEW p \in Proc, Flush(p)
  PROVE  IInv'
<1> DEFINE ok == Unbooked(p) /\ (req[p].op = "book" => ActiveIn(req[p].app) \subseteq {req[p].iv})
           r == [req[p] EXCEPT !.pc = "flushed", !.card = card[req[p].app]]
<1>1. TypeOK /\ asked \in SUBSET App /\ disturbed \in SUBSET Interview /\ aborts \in 0 .. MaxAborts
  BY DEF IInv, TypeOK
<1>2. UNCHANGED <<iv, card, mails, disturbed, asked, aborts>>
  BY DEF Flush
<1>3. CASE ok
  <2>1. req' = [req EXCEPT ![p] = r]
    BY <1>3 DEF Flush, Goto
  <2>2. /\ r \in Request /\ r.pc = "flushed" /\ r.op = req[p].op /\ r.iv = req[p].iv
        /\ r.app = req[p].app /\ r.want = req[p].want /\ r.seq = req[p].seq
        /\ r.card = card[req[p].app]
    BY <1>1, Flushing
  <2>3. req[p].op \in {"book", "move"} /\ req[p].pc = "locked" /\ RowFree(p, req[p].iv)
        /\ Sound(req[p], iv, card, asked) /\ HoldsLock(p)
    BY SoundRequests DEF Flush, HoldsLock
  <2>4. Clear(r, iv)
    BY <1>3, <2>2, <2>3, UnbookedIsClear DEF Clear
  <2>5. \A q \in Proc \ {p} : ~HoldsLock(q)
    BY <2>3 DEF IInv, LocksAreExclusive
  <2> HIDE DEF r
  <2>6. Sound(r, iv, card, asked')
    BY <2>2, <2>3, <2>4 DEF Sound, Placed, Current, Kept, Counts, Locks, Kinds
  <2> QED
    BY <1>1, <1>2, <2>1, <2>2, <2>3, <2>5, <2>6, Moves
<1>4. CASE ~ok
  <2>1. Done(p)
    BY <1>4 DEF Flush
  <2> QED
    BY <1>1, <1>2, <2>1, RestKeeps
<1> QED
  BY <1>3, <1>4

LEMMA FlushCancelKeeps ==
  ASSUME IInv, NEW p \in Proc, FlushCancel(p)
  PROVE  IInv'
<1> DEFINE r == [req[p] EXCEPT !.pc = "flushed", !.card = card[req[p].app]]
<1>1. TypeOK /\ asked \in SUBSET App /\ disturbed \in SUBSET Interview /\ aborts \in 0 .. MaxAborts
  BY DEF IInv, TypeOK
<1>2. UNCHANGED <<iv, card, mails, disturbed, asked, aborts>> /\ req' = [req EXCEPT ![p] = r]
  BY DEF FlushCancel, Goto
<1>3. /\ r \in Request /\ r.pc = "flushed" /\ r.op = req[p].op /\ r.iv = req[p].iv
      /\ r.app = req[p].app /\ r.card = card[req[p].app]
  BY <1>1, Flushing
<1>4. req[p].op = "cancel" /\ req[p].pc = "cancel" /\ RowFree(p, req[p].iv)
      /\ Sound(req[p], iv, card, asked)
  BY SoundRequests DEF FlushCancel, At
<1> HIDE DEF r
<1>5. Sound(r, iv, card, asked')
  BY <1>3, <1>4 DEF Sound, Placed, Clear, Current, Kept, Counts, Locks, Kinds
<1> QED
  BY <1>1, <1>2, <1>3, <1>4, <1>5, Moves DEF Locks

LEMMA AbortKeeps ==
  ASSUME IInv, NEW p \in Proc, Abort(p)
  PROVE  IInv'
<1>1. TypeOK /\ req[p].iv \in Interview
  BY Fields DEF IInv
<1>2. aborts' \in 0 .. MaxAborts /\ disturbed' \in SUBSET Interview
  BY <1>1, BoundsAreNatural DEF Abort, TypeOK
<1> QED
  BY <1>2, RestKeeps DEF Abort
-----------------------------------------------------------------------------
(***************************************************************************)
(* Steps that change the tables.                                           *)
(***************************************************************************)
\* A request that leaves the locks makes them no less exclusive.
LEMMA Leaves ==
  ASSUME IInv, NEW p \in Proc, NEW r \in Request, req' = [req EXCEPT ![p] = r],
         r.pc \notin {"locked", "flushed"}
  PROVE  /\ \A q \in Proc : req'[q] = IF q = p THEN r ELSE req[q]
         /\ req' \in [Proc -> Request]
         /\ LocksAreExclusive'
         /\ mails' = mails /\ ~(r.op = "move" /\ r.pc = "mail") => SeqIsOwn'
<1>1. req \in [Proc -> Request]
  BY DEF IInv, TypeOK
<1>2. \A q \in Proc : req'[q] = IF q = p THEN r ELSE req[q]
  BY <1>1
<1>3. LocksAreExclusive'
  BY <1>2 DEF IInv, LocksAreExclusive, HoldsLock
<1>4. mails' = mails /\ ~(r.op = "move" /\ r.pc = "mail") => SeqIsOwn'
  BY <1>2 DEF IInv, SeqIsOwn, At
<1> QED
  BY <1>1, <1>2, <1>3, <1>4

LEMMA InsertKeeps ==
  ASSUME IInv, NEW p \in Proc, NEW i \in Interview, Insert(p, i)
  PROVE  IInv'
<1>1. TypeOK
  BY DEF IInv
<1>2. UNCHANGED <<card, mails, disturbed, asked, aborts>> /\ Done(p) /\ iv[i].status = "none"
  BY DEF Insert
<1>3. CASE iv' = iv
  BY <1>1, <1>2, <1>3, RestKeeps DEF TypeOK
<1>4. CASE iv' = [iv EXCEPT ![i].status = "pending"]
  <2>1. /\ iv' \in [Interview -> Row]
        /\ \A j \in Interview : iv'[j].seq = iv[j].seq /\ iv'[j].start = iv[j].start
        /\ \A j \in Interview : iv'[j].status = IF j = i THEN "pending" ELSE iv[j].status
    BY <1>1, <1>4, Fields DEF TypeOK, Row, Status
  <2>2. /\ \A q \in Proc : req'[q] = IF q = p THEN Idle ELSE req[q]
        /\ req' \in [Proc -> Request] /\ LocksAreExclusive' /\ SeqIsOwn'
    <3>1. Idle.pc = "idle" /\ req' = [req EXCEPT ![p] = Idle]
      BY <1>2 DEF Done, Goto, Idle
    <3> QED
      BY <1>2, <3>1, Shapes, Leaves
  <2>3. TypeOK'
    BY <1>1, <1>2, <2>1, <2>2 DEF TypeOK
  <2>4. NoOverlap' /\ BookedHasTime'
    BY <2>1 DEF IInv, NoOverlap, BookedHasTime
  <2>5. MovesAreOrdered' /\ (\A m \in mails : m.op = "move" => m.seq <= iv[m.iv].seq)'
    BY <1>1, <1>2, <2>1 DEF IInv, MovesAreOrdered, SeqIsCurrent, TypeOK, Mail
  <2>6. LinkIsOwn'
    BY <1>2 DEF IInv, LinkIsOwn
  <2>7. CardIsWithdrawn'
    <3>1. ASSUME NEW a \in App \ asked, Open(card[a]), card[a].link # None
          PROVE  iv'[card[a].link].status # "cancelled"
      <4>1. card[a].link \in Interview /\ iv[card[a].link].status # "cancelled"
        BY <1>1, <3>1, Fields DEF IInv, CardIsWithdrawn, Card
      <4> QED
        BY <2>1, <4>1
    <3> QED
      BY <1>2, <3>1 DEF CardIsWithdrawn
  <2>8. ASSUME NEW q \in Proc PROVE Sound(req'[q], iv', card', asked')
    <3>1. CASE q = p
      BY <2>2, <3>1, IdleIsSound
    <3>2. CASE q # p
      <4>1. req'[q] = req[q] /\ Sound(req[q], iv, card, asked) /\ req[q].iv \in Interview
        BY <1>1, <2>2, <3>2, SoundRequests, Fields
      <4>2. Clear(req[q], iv')
        BY <2>1, <4>1 DEF Sound, Clear
      <4>3. Current(req[q], iv')
        BY <2>1, <4>1 DEF Sound, Current
      <4> QED
        BY <1>2, <4>1, <4>2, <4>3 DEF Sound
    <3> QED
      BY <3>1, <3>2
  <2> QED
    BY <2>2, <2>3, <2>4, <2>5, <2>6, <2>7, <2>8, SoundSuffices
<1> QED
  BY <1>3, <1>4 DEF Insert

\* What scorecards.request makes of a row c that it had loaded as old.
LEMMA Reopening ==
  ASSUME NEW c \in Card, NEW old \in Card, NEW l \in Interview \cup {None},
         old.there => c.there
  PROVE  LET d == Reopened(c, old, l)
         IN  /\ d \in Card /\ d.there
             /\ d.link \in {c.link, l}
             /\ c.there /\ c.submitted => d.submitted
             /\ c.there = old.there /\ c.link = old.link => d.link = l
<1>1. CASE old.there
  BY <1>1 DEF Reopened, Card
<1>2. CASE ~old.there
  BY <1>2 DEF Reopened, Card, NewCard, NoCard
<1> QED
  BY <1>1, <1>2

LEMMA OverlapIsSymmetric ==
  ASSUME NEW s, NEW d, NEW t, NEW e PROVE Overlap(s, d, t, e) <=> Overlap(t, e, s, d)
BY DEF Overlap

LEMMA CommitBookKeeps ==
  ASSUME IInv, NEW p \in Proc, CommitBook(p)
  PROVE  IInv'
<1> DEFINE i == req[p].iv
           a == req[p].app
           old == req[p].card
           r == [req[p] EXCEPT !.pc = "mail", !.seq = 0]
<1>1. /\ TypeOK /\ i \in Interview /\ a \in App /\ old \in Card /\ card[a] \in Card
      /\ req[p].want \in Slot \cup {NoStart}
  BY Fields DEF IInv
<1>2. req[p].op = "book" /\ req[p].pc = "flushed" /\ Sound(req[p], iv, card, asked)
  BY SoundRequests DEF CommitBook, At
<1>3. /\ iv' = [iv EXCEPT ![i] = [@ EXCEPT !.status = "booked", !.start = req[p].want]]
      /\ card' = IF Requestable(old) THEN [card EXCEPT ![a] = Reopened(@, old, i)] ELSE card
      /\ req' = [req EXCEPT ![p] = r]
      /\ UNCHANGED <<mails, disturbed, asked, aborts>>
  BY DEF CommitBook, Goto
<1>4. /\ r \in Request /\ r.pc = "mail" /\ r.op = "book" /\ r.iv = i /\ r.app = a
      /\ r.want = req[p].want /\ r.card = old
  <2>1. req[p] \in Request
    BY <1>1, Fields
  <2> QED
    BY <1>2, <2>1 DEF Request
<1>5. a = AppOf[i] /\ req[p].want \in Slot /\ (old.there => card[a].there)
  BY <1>2 DEF Sound, Placed, Kept, Kinds
<1> HIDE DEF r
<1>6. /\ \A q \in Proc : req'[q] = IF q = p THEN r ELSE req[q]
      /\ req' \in [Proc -> Request] /\ LocksAreExclusive' /\ SeqIsOwn'
  BY <1>3, <1>4, Leaves
<1>7. /\ iv' \in [Interview -> Row]
      /\ \A j \in Interview : iv'[j].seq = iv[j].seq
      /\ \A j \in Interview : j # i => iv'[j] = iv[j]
      /\ iv'[i].status = "booked" /\ iv'[i].start = req[p].want
  BY <1>1, <1>3 DEF TypeOK, Row, Status
\* What becomes of the scorecard.
<1>8. \/ card' = card
      \/ /\ card' = [card EXCEPT ![a] = Reopened(card[a], old, i)]
         /\ Reopened(card[a], old, i) \in Card /\ Reopened(card[a], old, i).there
         /\ Reopened(card[a], old, i).link \in {card[a].link, i}
         /\ a \notin asked => Reopened(card[a], old, i).link = i
  <2>1. a \notin asked => card[a].there = old.there /\ card[a].link = old.link
    BY <1>2 DEF Sound, Counts
  <2>2. LET d == Reopened(card[a], old, i)
        IN  /\ d \in Card /\ d.there /\ d.link \in {card[a].link, i}
            /\ card[a].there = old.there /\ card[a].link = old.link => d.link = i
    BY <1>1, <1>5, Reopening
  <2> QED
    BY <1>3, <2>1, <2>2
<1>9. /\ card' \in [App -> Card]
      /\ \A b \in App : b # a => card'[b] = card[b]
      /\ \A b \in App : card[b].there => card'[b].there
      /\ card'[a] = card[a] \/ (card'[a].there /\ card'[a].link \in {card[a].link, i}
                                /\ (a \notin asked => card'[a].link = i))
  BY <1>1, <1>8 DEF TypeOK
<1>10. TypeOK'
  BY <1>1, <1>3, <1>6, <1>7, <1>9 DEF TypeOK
<1>11. NoOverlap'
  <2>1. \A j \in Interview \ {i} : iv[j].status = "booked" =>
           ~Overlap(req[p].want, Dur[i], iv[j].start, Dur[j])
    BY <1>2 DEF Sound, Clear, Locks
  <2>2. ASSUME NEW j \in Interview, NEW k \in Interview, j # k,
               iv'[j].status = "booked", iv'[k].status = "booked"
        PROVE  ~Overlap(iv'[j].start, Dur[j], iv'[k].start, Dur[k])
    <3>1. CASE j = i
      BY <1>7, <2>1, <2>2, <3>1
    <3>2. CASE k = i
      BY <1>7, <2>1, <2>2, <3>2, OverlapIsSymmetric
    <3>3. CASE j # i /\ k # i
      BY <1>7, <2>2, <3>3 DEF IInv, NoOverlap
    <3> QED
      BY <3>1, <3>2, <3>3
  <2> QED
    BY <2>2 DEF NoOverlap
<1>12. BookedHasTime'
  BY <1>5, <1>7 DEF IInv, BookedHasTime
<1>13. MovesAreOrdered' /\ (\A m \in mails : m.op = "move" => m.seq <= iv[m.iv].seq)'
  BY <1>1, <1>3, <1>7 DEF IInv, MovesAreOrdered, SeqIsCurrent, TypeOK, Mail
<1>14. LinkIsOwn'
  <2>1. ASSUME NEW b \in App
        PROVE  /\ ~card'[b].there => card'[b] = NoCard
               /\ card'[b].link # None => AppOf[card'[b].link] = b
    BY <1>5, <1>9 DEF IInv, LinkIsOwn
  <2> QED
    BY <2>1 DEF LinkIsOwn
<1>15. CardIsWithdrawn'
  <2>1. ASSUME NEW b \in App \ asked, Open(card'[b]), card'[b].link # None
        PROVE  iv'[card'[b].link].status # "cancelled"
    <3>1. CASE card'[b] = card[b]
      <4>1. card[b].link \in Interview /\ iv[card[b].link].status # "cancelled"
        BY <1>1, <2>1, <3>1, Fields DEF IInv, CardIsWithdrawn, Card
      <4> QED
        BY <1>7, <3>1, <4>1
    <3>2. CASE card'[b] # card[b]
      BY <1>7, <1>9, <3>2
    <3> QED
      BY <3>1, <3>2
  <2> QED
    BY <1>3, <2>1 DEF CardIsWithdrawn
<1>16. ASSUME NEW q \in Proc PROVE Sound(req'[q], iv', card', asked')
  <2>1. CASE q = p
    <3>1. Placed(r)
      BY <1>4, <1>5 DEF Placed, Kinds
    <3>2. r.card.there => card'[r.app].there
      BY <1>1, <1>4, <1>5, <1>9
    <3>3. Clear(r, iv') /\ Current(r, iv') /\ Kept(r, card', asked') /\ Counts(r, card', asked')
      BY <1>4, <3>2 DEF Clear, Current, Kept, Counts, Locks
    <3> QED
      BY <1>6, <2>1, <3>1, <3>3 DEF Sound
  <2>2. CASE q # p
    <3>1. /\ req'[q] = req[q] /\ Sound(req[q], iv, card, asked)
          /\ req[q].iv \in Interview /\ req[q].app \in App
      BY <1>1, <1>6, <2>2, SoundRequests, Fields
    <3>2. ~Locks(req[q]) /\ (req[q].pc = "flushed" => req[q].iv # i)
      BY <1>2, <2>2 DEF IInv, LocksAreExclusive, HoldsLock, Locks
    <3>3. Clear(req[q], iv') /\ Current(req[q], iv')
      BY <1>7, <3>1, <3>2 DEF Sound, Clear, Current
    <3>4. Kept(req[q], card', asked')
      BY <1>3, <1>9, <3>1 DEF Sound, Kept
    <3>5. Counts(req[q], card', asked')
      <4>1. CASE card'[req[q].app] = card[req[q].app]
        BY <1>3, <3>1, <4>1 DEF Sound, Counts
      <4>2. CASE card'[req[q].app] # card[req[q].app]
        BY <1>3, <1>9, <3>1, <3>2, <4>2 DEF Counts, Locks
      <4> QED
        BY <4>1, <4>2
    <3> QED
      BY <3>1, <3>3, <3>4, <3>5 DEF Sound
  <2> QED
    BY <2>1, <2>2
<1> QED
  BY <1>6, <1>10, <1>11, <1>12, <1>13, <1>14, <1>15, <1>16, SoundSuffices

LEMMA CommitMoveKeeps ==
  ASSUME IInv, NEW p \in Proc, CommitMove(p)
  PROVE  IInv'
<1> DEFINE i == req[p].iv
           n == req[p].seq + 1
           t == IF req[p].want = req[p].start THEN iv[i].start ELSE req[p].want
           r == [req[p] EXCEPT !.pc = "mail", !.seq = n]
<1>1. /\ TypeOK /\ i \in Interview /\ iv[i] \in Row /\ req[p].seq \in Nat
      /\ iv[i].start \in Slot \cup {NoStart}
  BY Fields DEF IInv
<1>2. req[p].op = "move" /\ req[p].pc = "flushed" /\ Sound(req[p], iv, card, asked)
  BY SoundRequests DEF CommitMove, At
<1>3. /\ iv' = [iv EXCEPT ![i] = [@ EXCEPT !.start = t, !.seq = n]]
      /\ req' = [req EXCEPT ![p] = r]
      /\ UNCHANGED <<card, mails, disturbed, asked, aborts>>
  BY DEF CommitMove, Goto
<1>4. /\ req[p].seq = iv[i].seq /\ n \in Nat /\ n = iv[i].seq + 1
      /\ req[p].want \in Slot /\ req[p].app = AppOf[i]
  BY <1>1, <1>2 DEF Sound, Placed, Current, Locks, Kinds
<1> HIDE DEF n
<1>5. /\ r \in Request /\ r.pc = "mail" /\ r.op = "move" /\ r.iv = i /\ r.app = req[p].app
      /\ r.want = req[p].want /\ r.seq = n /\ r.card = req[p].card
  <2>1. req[p] \in Request
    BY <1>1, Fields
  <2> QED
    BY <1>2, <1>4, <2>1 DEF Request
<1> HIDE DEF r
<1>6. /\ \A q \in Proc : req'[q] = IF q = p THEN r ELSE req[q]
      /\ req' \in [Proc -> Request] /\ LocksAreExclusive'
  BY <1>3, <1>5, Leaves
<1>7. /\ iv' \in [Interview -> Row]
      /\ \A j \in Interview : iv'[j].status = iv[j].status
      /\ \A j \in Interview : j # i => iv'[j] = iv[j]
      /\ iv'[i].start = t /\ iv'[i].seq = n /\ t \in {iv[i].start, req[p].want}
  <2> DEFINE w == [iv[i] EXCEPT !.start = t, !.seq = n]
  <2>1. iv' = [iv EXCEPT ![i] = w]
    BY <1>3
  <2>2. t \in Slot \cup {NoStart} /\ t \in {iv[i].start, req[p].want}
    BY <1>1, <1>4
  <2> HIDE DEF t
  <2>3. w \in Row /\ w.status = iv[i].status /\ w.start = t /\ w.seq = n
    BY <1>1, <1>4, <2>2 DEF Row
  <2> HIDE DEF w
  <2> QED
    BY <1>1, <2>1, <2>2, <2>3 DEF TypeOK
<1>8. \A j \in Interview : iv[j].seq \in Nat /\ iv[j].seq <= iv'[j].seq
  BY <1>1, <1>4, <1>7, Fields
<1> HIDE DEF t
<1>9. TypeOK'
  BY <1>1, <1>3, <1>6, <1>7 DEF TypeOK
<1>10. NoOverlap'
  <2>1. \A j \in Interview \ {i} : iv[j].status = "booked" =>
           ~Overlap(req[p].want, Dur[i], iv[j].start, Dur[j])
    BY <1>2 DEF Sound, Clear, Locks
  <2>2. ASSUME NEW j \in Interview \ {i}, iv[i].status = "booked", iv[j].status = "booked"
        PROVE  ~Overlap(t, Dur[i], iv[j].start, Dur[j])
    BY <1>1, <1>7, <2>1, <2>2 DEF IInv, NoOverlap
  <2>3. ASSUME NEW j \in Interview, NEW k \in Interview, j # k,
               iv'[j].status = "booked", iv'[k].status = "booked"
        PROVE  ~Overlap(iv'[j].start, Dur[j], iv'[k].start, Dur[k])
    <3>1. CASE j = i
      BY <1>7, <2>2, <2>3, <3>1
    <3>2. CASE k = i
      BY <1>7, <2>2, <2>3, <3>2, OverlapIsSymmetric
    <3>3. CASE j # i /\ k # i
      BY <1>7, <2>3, <3>3 DEF IInv, NoOverlap
    <3> QED
      BY <3>1, <3>2, <3>3
  <2> QED
    BY <2>3 DEF NoOverlap
<1>11. BookedHasTime'
  BY <1>4, <1>7 DEF IInv, BookedHasTime
<1>12. MovesAreOrdered' /\ (\A m \in mails : m.op = "move" => m.seq <= iv[m.iv].seq)'
  <2>1. ASSUME NEW m \in mails, m.op = "move" PROVE m.seq <= iv'[m.iv].seq
    <3>1. m.iv \in Interview /\ m.seq \in Nat /\ m.seq <= iv[m.iv].seq
      BY <1>1, <2>1 DEF IInv, SeqIsCurrent, TypeOK, Mail
    <3>2. iv[m.iv].seq \in Nat /\ iv'[m.iv].seq \in Nat
      BY <1>7, <1>8, <3>1 DEF Row
    <3> QED
      BY <1>8, <3>1, <3>2
  <2> QED
    BY <1>3, <2>1 DEF IInv, MovesAreOrdered
<1>13. SeqIsOwn'
  <2>1. ASSUME NEW m \in mails, m.op = "move", m.iv = i PROVE m.seq # n
    <3>1. m.seq \in Nat /\ m.seq <= iv[i].seq
      BY <1>1, <2>1 DEF IInv, SeqIsCurrent, TypeOK, Mail
    <3> QED
      BY <1>1, <1>4, <3>1
  <2>2. ASSUME NEW q \in Proc \ {p}, At(q, "move", "mail"), req[q].iv = i PROVE req[q].seq # n
    <3>1. req[q].seq \in Nat /\ req[q].seq <= iv[i].seq
      BY <1>1, <2>2, Fields DEF IInv, SeqIsCurrent
    <3> QED
      BY <1>1, <1>4, <3>1
  <2>3. ASSUME NEW q \in Proc, At(q, "move", "mail")'
        PROVE  /\ \A m \in mails' : m.op = "move" /\ m.iv = req'[q].iv => m.seq # req'[q].seq
               /\ \A s \in Proc \ {q} : At(s, "move", "mail")' /\ req'[s].iv = req'[q].iv =>
                    req'[s].seq # req'[q].seq
    <3>1. CASE q = p
      BY <1>3, <1>5, <1>6, <2>1, <2>2, <3>1 DEF At
    <3>2. CASE q # p
      <4>1. req'[q] = req[q] /\ At(q, "move", "mail")
        BY <1>6, <2>3, <3>2 DEF At
      <4>2. \A m \in mails' : m.op = "move" /\ m.iv = req'[q].iv => m.seq # req'[q].seq
        BY <1>3, <4>1 DEF IInv, SeqIsOwn
      <4>3. ASSUME NEW s \in Proc \ {q}, At(s, "move", "mail")', req'[s].iv = req'[q].iv
            PROVE  req'[s].seq # req'[q].seq
        <5>1. CASE s = p
          BY <1>5, <1>6, <2>2, <3>2, <4>1, <4>3, <5>1
        <5>2. CASE s # p
          BY <1>6, <4>1, <4>3, <5>2 DEF IInv, SeqIsOwn, At
        <5> QED
          BY <5>1, <5>2
      <4> QED
        BY <4>2, <4>3
    <3> QED
      BY <3>1, <3>2
  <2> QED
    BY <2>3 DEF SeqIsOwn
<1>14. LinkIsOwn'
  BY <1>3 DEF IInv, LinkIsOwn
<1>15. CardIsWithdrawn'
  <2>1. ASSUME NEW b \in App \ asked, Open(card[b]), card[b].link # None
        PROVE  iv'[card[b].link].status # "cancelled"
    <3>1. card[b].link \in Interview /\ iv[card[b].link].status # "cancelled"
      BY <1>1, <2>1, Fields DEF IInv, CardIsWithdrawn, Card
    <3> QED
      BY <1>7, <3>1
  <2> QED
    BY <1>3, <2>1 DEF CardIsWithdrawn
<1>16. ASSUME NEW q \in Proc PROVE Sound(req'[q], iv', card', asked')
  <2>1. CASE q = p
    <3>1. Placed(r) /\ Clear(r, iv') /\ Counts(r, card', asked')
      BY <1>4, <1>5 DEF Placed, Clear, Counts, Locks, Kinds
    <3>2. Current(r, iv')
      BY <1>4, <1>5, <1>7 DEF Current, Locks
    <3>3. Kept(r, card', asked')
      BY <1>2, <1>3, <1>5 DEF Sound, Kept
    <3> QED
      BY <1>6, <2>1, <3>1, <3>2, <3>3 DEF Sound
  <2>2. CASE q # p
    <3>1. req'[q] = req[q] /\ Sound(req[q], iv, card, asked) /\ req[q].iv \in Interview
          /\ req[q].seq \in Nat
      BY <1>1, <1>6, <2>2, SoundRequests, Fields
    <3>2. ~Locks(req[q])
      BY <1>2, <2>2 DEF IInv, LocksAreExclusive, HoldsLock, Locks
    <3>3. req[q].op = "move" /\ req[q].pc = "mail" => req[q].seq <= iv'[req[q].iv].seq
      <4>1. iv[req[q].iv].seq \in Nat /\ iv'[req[q].iv].seq \in Nat
            /\ iv[req[q].iv].seq <= iv'[req[q].iv].seq
        BY <1>7, <1>8, <3>1 DEF Row
      <4> QED
        BY <3>1, <4>1 DEF Sound, Current
    <3>4. Clear(req[q], iv') /\ Current(req[q], iv')
      BY <3>2, <3>3 DEF Clear, Current
    <3> QED
      BY <1>3, <3>1, <3>4 DEF Sound
  <2> QED
    BY <2>1, <2>2
<1> QED
  BY <1>6, <1>9, <1>10, <1>11, <1>12, <1>13, <1>14, <1>15, <1>16, SoundSuffices

LEMMA CommitCancelKeeps ==
  ASSUME IInv, NEW p \in Proc, CommitCancel(p)
  PROVE  IInv'
<1> DEFINE i == req[p].iv
           a == req[p].app
           c == req[p].card
<1>1. /\ TypeOK /\ i \in Interview /\ a \in App /\ c \in Card /\ req[p] \in Request
      /\ req[p].seq \in Nat /\ req[p].start \in Slot \cup {NoStart}
  BY Fields DEF IInv
<1>2. req[p].op = "cancel" /\ req[p].pc = "flushed" /\ Sound(req[p], iv, card, asked)
  BY SoundRequests DEF CommitCancel, At
<1>3. /\ iv' = [iv EXCEPT ![i].status = "cancelled"]
      /\ card' = IF Open(c) /\ c.link = i THEN [card EXCEPT ![a].dismissed = TRUE] ELSE card
      /\ UNCHANGED <<mails, disturbed, asked, aborts>>
  BY DEF CommitCancel
<1>4. a = AppOf[i] /\ (c.there => card[a].there)
  BY <1>2 DEF Sound, Placed, Kept, Kinds
<1>5. PICK r \in Request :
        /\ req' = [req EXCEPT ![p] = r]
        /\ r = Idle \/ (/\ r.pc = "mail" /\ r.op = "cancel" /\ r.app = a /\ r.iv = i
                        /\ r.card = c)
  <2>1. CASE Done(p)
    BY <2>1, Shapes DEF Done, Goto
  <2>2. CASE ~Done(p)
    <3> DEFINE n == req[p].seq + 1
               r == [req[p] EXCEPT !.pc = "mail", !.seq = n, !.want = req[p].start]
    <3>1. req' = [req EXCEPT ![p] = r] /\ n \in Nat
      BY <1>1, <2>2 DEF CommitCancel, Goto, Notice
    <3> HIDE DEF n
    <3>2. /\ r \in Request /\ r.pc = "mail" /\ r.op = "cancel" /\ r.app = a /\ r.iv = i
          /\ r.card = c
      BY <1>1, <1>2, <3>1 DEF Request
    <3> HIDE DEF r
    <3> QED
      BY <3>1, <3>2
  <2> QED
    BY <2>1, <2>2
<1>6. r.pc \in {"idle", "mail"} /\ ~(r.op = "move" /\ r.pc = "mail")
  BY <1>5 DEF Idle
<1>7. /\ \A q \in Proc : req'[q] = IF q = p THEN r ELSE req[q]
      /\ req' \in [Proc -> Request] /\ LocksAreExclusive' /\ SeqIsOwn'
  BY <1>3, <1>5, <1>6, Leaves
<1>8. /\ iv' \in [Interview -> Row]
      /\ \A j \in Interview : iv'[j].seq = iv[j].seq /\ iv'[j].start = iv[j].start
      /\ \A j \in Interview : iv'[j].status = IF j = i THEN "cancelled" ELSE iv[j].status
  BY <1>1, <1>3, Fields DEF TypeOK, Row, Status
<1>9. /\ card' \in [App -> Card]
      /\ \A b \in App : card'[b].there = card[b].there /\ card'[b].link = card[b].link
      /\ \A b \in App : Open(card'[b]) => Open(card[b])
      /\ \A b \in App : ~card[b].there => card'[b] = card[b]
  <2>1. CASE Open(c) /\ c.link = i
    <3>1. card' = [card EXCEPT ![a].dismissed = TRUE] /\ card[a].there
      BY <1>3, <1>4, <2>1 DEF Open
    <3> QED
      BY <1>1, <3>1 DEF TypeOK, Card, Open
  <2>2. CASE ~(Open(c) /\ c.link = i)
    BY <1>1, <1>3, <2>2 DEF TypeOK
  <2> QED
    BY <2>1, <2>2
<1>10. TypeOK'
  BY <1>1, <1>3, <1>7, <1>8, <1>9 DEF TypeOK
<1>11. NoOverlap' /\ BookedHasTime'
  BY <1>8 DEF IInv, NoOverlap, BookedHasTime
<1>12. MovesAreOrdered' /\ (\A m \in mails : m.op = "move" => m.seq <= iv[m.iv].seq)'
  BY <1>1, <1>3, <1>8 DEF IInv, MovesAreOrdered, SeqIsCurrent, TypeOK, Mail
<1>13. LinkIsOwn'
  <2>1. ASSUME NEW b \in App
        PROVE  /\ ~card'[b].there => card'[b] = NoCard
               /\ card'[b].link # None => AppOf[card'[b].link] = b
    BY <1>9 DEF IInv, LinkIsOwn
  <2> QED
    BY <2>1 DEF LinkIsOwn
\* The open scorecard of the cancelled interview is the one that was read.
<1>14. a \notin asked => ~(Open(card'[a]) /\ card'[a].link = i)
  <2> SUFFICES ASSUME a \notin asked, Open(card'[a]), card'[a].link = i PROVE FALSE
    OBVIOUS
  <2>1. Open(c) /\ c.link = i
    BY <1>1, <1>2, <1>9 DEF Sound, Counts
  <2>2. card'[a].dismissed
    BY <1>1, <1>3, <2>1 DEF TypeOK, Card
  <2> QED
    BY <2>2 DEF Open
<1>15. CardIsWithdrawn'
  <2>1. ASSUME NEW b \in App \ asked, Open(card'[b]), card'[b].link # None
        PROVE  iv'[card'[b].link].status # "cancelled"
    <3>1. /\ card[b].link \in Interview /\ iv[card[b].link].status # "cancelled"
          /\ AppOf[card[b].link] = b /\ card'[b].link = card[b].link
      BY <1>1, <1>9, <2>1, Fields DEF IInv, CardIsWithdrawn, LinkIsOwn, Card
    <3>2. card[b].link # i
      BY <1>4, <1>14, <2>1, <3>1
    <3> QED
      BY <1>8, <3>1, <3>2
  <2> QED
    BY <1>3, <2>1 DEF CardIsWithdrawn
<1>16. ASSUME NEW q \in Proc PROVE Sound(req'[q], iv', card', asked')
  <2>1. CASE q = p
    <3>1. CASE r = Idle
      BY <1>7, <2>1, <3>1, IdleIsSound
    <3>2. CASE r # Idle
      <4>1. /\ r.pc = "mail" /\ r.op = "cancel" /\ r.app = AppOf[r.iv]
            /\ r.card.there => card'[r.app].there
        BY <1>1, <1>4, <1>5, <1>9, <3>2
      <4> QED
        BY <1>7, <2>1, <4>1 DEF Sound, Placed, Clear, Current, Kept, Counts, Locks, Kinds
    <3> QED
      BY <3>1, <3>2
  <2>2. CASE q # p
    <3>1. /\ req'[q] = req[q] /\ Sound(req[q], iv, card, asked)
          /\ req[q].iv \in Interview /\ req[q].app \in App
      BY <1>1, <1>7, <2>2, SoundRequests, Fields
    <3>2. Clear(req[q], iv') /\ Current(req[q], iv')
      BY <1>8, <3>1 DEF Sound, Clear, Current
    <3>3. /\ card'[req[q].app].there = card[req[q].app].there
          /\ card'[req[q].app].link = card[req[q].app].link
          /\ Open(card'[req[q].app]) => Open(card[req[q].app])
      BY <1>9, <3>1
    <3>4. Kept(req[q], card', asked')
      BY <1>3, <3>1, <3>3 DEF Sound, Kept
    <3>5. Counts(req[q], card', asked')
      BY <1>3, <3>1, <3>3 DEF Sound, Counts
    <3> QED
      BY <3>1, <3>2, <3>4, <3>5 DEF Sound
  <2> QED
    BY <2>1, <2>2
<1> QED
  BY <1>7, <1>10, <1>11, <1>12, <1>13, <1>15, <1>16, SoundSuffices

LEMMA QueueMailKeeps ==
  ASSUME IInv, NEW p \in Proc, QueueMail(p)
  PROVE  IInv'
<1> DEFINE m == [op |-> req[p].op, iv |-> req[p].iv, seq |-> req[p].seq, start |-> req[p].want]
<1>1. /\ TypeOK /\ req[p].iv \in Interview /\ req[p].seq \in Nat
      /\ req[p].want \in Slot \cup {NoStart}
  BY Fields DEF IInv
<1>2. /\ req[p].pc = "mail" /\ mails' = mails \cup {m} /\ req' = [req EXCEPT ![p] = Idle]
      /\ UNCHANGED <<iv, card, disturbed, asked, aborts>>
  BY DEF QueueMail, Done, Goto, MailOf
<1>3. req[p].op \in Kinds
  BY <1>2 DEF IInv, InStep, Kinds
<1>4. m \in Mail /\ m.op = req[p].op /\ m.iv = req[p].iv /\ m.seq = req[p].seq
  BY <1>1, <1>3 DEF Mail, Kinds
<1> HIDE DEF m
<1>5. /\ \A q \in Proc : req'[q] = IF q = p THEN Idle ELSE req[q]
      /\ req' \in [Proc -> Request] /\ LocksAreExclusive'
  <2>1. Idle.pc = "idle"
    BY DEF Idle
  <2> QED
    BY <1>2, <2>1, Shapes, Leaves
<1>6. TypeOK'
  BY <1>1, <1>2, <1>4, <1>5 DEF TypeOK
<1>7. NoOverlap' /\ BookedHasTime' /\ LinkIsOwn' /\ CardIsWithdrawn'
  BY <1>2 DEF IInv, NoOverlap, BookedHasTime, LinkIsOwn, CardIsWithdrawn
<1>8. m.op = "move" => /\ m.seq <= iv[m.iv].seq
                       /\ \A n \in mails : n.op = "move" /\ n.iv = m.iv => n.seq # m.seq
  BY <1>2, <1>4 DEF IInv, SeqIsCurrent, SeqIsOwn, At
<1>9. MovesAreOrdered'
  BY <1>2, <1>8 DEF IInv, MovesAreOrdered
<1>10. (\A n \in mails : n.op = "move" => n.seq <= iv[n.iv].seq)'
  BY <1>2, <1>8 DEF IInv, SeqIsCurrent
<1>11. SeqIsOwn'
  <2>1. Idle.pc # "mail"
    BY DEF Idle
  <2>2. ASSUME NEW q \in Proc, At(q, "move", "mail")'
        PROVE  /\ \A n \in mails' : n.op = "move" /\ n.iv = req'[q].iv => n.seq # req'[q].seq
               /\ \A s \in Proc \ {q} : At(s, "move", "mail")' /\ req'[s].iv = req'[q].iv =>
                    req'[s].seq # req'[q].seq
    <3>1. q # p /\ req'[q] = req[q] /\ At(q, "move", "mail")
      BY <1>5, <2>1, <2>2 DEF At
    <3>2. \A n \in mails : n.op = "move" /\ n.iv = req[q].iv => n.seq # req[q].seq
      BY <3>1 DEF IInv, SeqIsOwn
    <3>3. m.op = "move" /\ m.iv = req[q].iv => m.seq # req[q].seq
      BY <1>2, <1>4, <3>1 DEF IInv, SeqIsOwn, At
    <3>4. ASSUME NEW s \in Proc \ {q}, At(s, "move", "mail")', req'[s].iv = req'[q].iv
          PROVE  req'[s].seq # req'[q].seq
      BY <1>5, <2>1, <3>1, <3>4 DEF IInv, SeqIsOwn, At
    <3> QED
      BY <1>2, <3>1, <3>2, <3>3, <3>4
  <2> QED
    BY <2>2 DEF SeqIsOwn
<1>12. ASSUME NEW q \in Proc PROVE Sound(req'[q], iv', card', asked')
  BY <1>2, <1>5, SoundRequests, IdleIsSound
<1> QED
  BY <1>5, <1>6, <1>7, <1>9, <1>10, <1>11, <1>12, SoundSuffices

LEMMA AskKeeps ==
  ASSUME IInv, NEW p \in Proc, Ask(p)
  PROVE  IInv'
<1> DEFINE a == req[p].app
           c == Reopened(card[a], req[p].card, None)
<1>1. /\ TypeOK /\ a \in App /\ req[p].card \in Card /\ card[a] \in Card
      /\ req[p].card.there => card[a].there
      /\ a \in asked
  BY Fields DEF IInv, CopyIsThere, Ask
<1>2. /\ card' = [card EXCEPT ![a] = c] /\ req' = [req EXCEPT ![p] = Idle]
      /\ UNCHANGED <<iv, mails, disturbed, asked, aborts>>
  BY DEF Ask, Done, Goto
<1>3. c \in Card /\ c.there /\ c.link \in {card[a].link, None}
  BY <1>1, Reopening
<1> HIDE DEF c
<1>4. /\ card' \in [App -> Card]
      /\ \A b \in App : b # a => card'[b] = card[b]
      /\ card'[a] = c
  BY <1>1, <1>2, <1>3 DEF TypeOK
<1>5. /\ \A q \in Proc : req'[q] = IF q = p THEN Idle ELSE req[q]
      /\ req' \in [Proc -> Request] /\ LocksAreExclusive' /\ SeqIsOwn'
  <2>1. Idle.pc = "idle"
    BY DEF Idle
  <2> QED
    BY <1>2, <2>1, Shapes, Leaves
<1>6. TypeOK'
  BY <1>1, <1>2, <1>4, <1>5 DEF TypeOK
<1>7. NoOverlap' /\ BookedHasTime' /\ MovesAreOrdered'
      /\ (\A m \in mails : m.op = "move" => m.seq <= iv[m.iv].seq)'
  BY <1>2 DEF IInv, NoOverlap, BookedHasTime, MovesAreOrdered, SeqIsCurrent
<1>8. LinkIsOwn'
  <2>1. ASSUME NEW b \in App
        PROVE  /\ ~card'[b].there => card'[b] = NoCard
               /\ card'[b].link # None => AppOf[card'[b].link] = b
    BY <1>3, <1>4 DEF IInv, LinkIsOwn
  <2> QED
    BY <2>1 DEF LinkIsOwn
<1>9. CardIsWithdrawn'
  <2>1. \A b \in App \ asked : card'[b] = card[b]
    BY <1>1, <1>4
  <2> QED
    BY <1>2, <2>1 DEF IInv, CardIsWithdrawn
<1>10. ASSUME NEW q \in Proc PROVE Sound(req'[q], iv', card', asked')
  <2>1. CASE q = p
    BY <1>5, <2>1, IdleIsSound
  <2>2. CASE q # p
    <3>1. /\ req'[q] = req[q] /\ Sound(req[q], iv, card, asked) /\ req[q].app \in App
      BY <1>1, <1>5, <2>2, SoundRequests, Fields
    <3>2. Kept(req[q], card', asked')
      BY <1>2, <1>3, <1>4, <3>1 DEF Sound, Kept
    <3>3. Counts(req[q], card', asked')
      BY <1>1, <1>2, <1>4, <3>1 DEF Sound, Counts
    <3> QED
      BY <1>2, <3>1, <3>2, <3>3 DEF Sound
  <2> QED
    BY <2>1, <2>2
<1> QED
  BY <1>5, <1>6, <1>7, <1>8, <1>9, <1>10, SoundSuffices

LEMMA AnswerKeeps ==
  ASSUME IInv, NEW p \in Proc, Answer(p)
  PROVE  IInv'
<1> DEFINE a == req[p].app
<1>1. TypeOK /\ a \in App /\ card[a] \in Card /\ card[a].there /\ req[p].op \in Answers
  BY Fields DEF IInv, CopyIsThere, InStep, Answer
<1>2. /\ req' = [req EXCEPT ![p] = Idle]
      /\ UNCHANGED <<iv, mails, disturbed, asked, aborts>>
  BY DEF Answer, Done, Goto
<1>3. /\ card' \in [App -> Card]
      /\ \A b \in App : card'[b].there = card[b].there /\ card'[b].link = card[b].link
      /\ \A b \in App : Open(card'[b]) => Open(card[b])
      /\ \A b \in App : ~card[b].there => card'[b] = card[b]
  <2>1. \/ card' = [card EXCEPT ![a].submitted = TRUE]
        \/ card' = [card EXCEPT ![a].declined = TRUE]
        \/ card' = [card EXCEPT ![a].dismissed = TRUE]
    BY <1>1 DEF Answer, Answers
  <2>2. CASE card' = [card EXCEPT ![a].submitted = TRUE]
    BY <1>1, <2>2 DEF TypeOK, Card, Open
  <2>3. CASE card' = [card EXCEPT ![a].declined = TRUE]
    BY <1>1, <2>3 DEF TypeOK, Card, Open
  <2>4. CASE card' = [card EXCEPT ![a].dismissed = TRUE]
    BY <1>1, <2>4 DEF TypeOK, Card, Open
  <2> QED
    BY <2>1, <2>2, <2>3, <2>4
<1>4. /\ \A q \in Proc : req'[q] = IF q = p THEN Idle ELSE req[q]
      /\ req' \in [Proc -> Request] /\ LocksAreExclusive' /\ SeqIsOwn'
  <2>1. Idle.pc = "idle"
    BY DEF Idle
  <2> QED
    BY <1>2, <2>1, Shapes, Leaves
<1>5. TypeOK'
  BY <1>1, <1>2, <1>3, <1>4 DEF TypeOK
<1>6. NoOverlap' /\ BookedHasTime' /\ MovesAreOrdered'
      /\ (\A m \in mails : m.op = "move" => m.seq <= iv[m.iv].seq)'
  BY <1>2 DEF IInv, NoOverlap, BookedHasTime, MovesAreOrdered, SeqIsCurrent
<1>7. LinkIsOwn'
  <2>1. ASSUME NEW b \in App
        PROVE  /\ ~card'[b].there => card'[b] = NoCard
               /\ card'[b].link # None => AppOf[card'[b].link] = b
    BY <1>3 DEF IInv, LinkIsOwn
  <2> QED
    BY <2>1 DEF LinkIsOwn
<1>8. CardIsWithdrawn'
  <2>1. ASSUME NEW b \in App \ asked, Open(card'[b]), card'[b].link # None
        PROVE  iv[card'[b].link].status # "cancelled"
    BY <1>3, <2>1 DEF IInv, CardIsWithdrawn
  <2> QED
    BY <1>2, <2>1 DEF CardIsWithdrawn
<1>9. ASSUME NEW q \in Proc PROVE Sound(req'[q], iv', card', asked')
  <2>1. CASE q = p
    BY <1>4, <2>1, IdleIsSound
  <2>2. CASE q # p
    <3>1. /\ req'[q] = req[q] /\ Sound(req[q], iv, card, asked) /\ req[q].app \in App
      BY <1>1, <1>4, <2>2, SoundRequests, Fields
    <3>2. /\ card'[req[q].app].there = card[req[q].app].there
          /\ card'[req[q].app].link = card[req[q].app].link
          /\ Open(card'[req[q].app]) => Open(card[req[q].app])
      BY <1>3, <3>1
    <3>3. Kept(req[q], card', asked')
      BY <1>2, <3>1, <3>2 DEF Sound, Kept
    <3>4. Counts(req[q], card', asked')
      BY <1>2, <3>1, <3>2 DEF Sound, Counts
    <3> QED
      BY <1>2, <3>1, <3>3, <3>4 DEF Sound
  <2> QED
    BY <2>1, <2>2
<1> QED
  BY <1>4, <1>5, <1>6, <1>7, <1>8, <1>9, SoundSuffices
-----------------------------------------------------------------------------
(***************************************************************************)
(* The theorems.                                                           *)
(***************************************************************************)
LEMMA NextInv == IInv /\ [Next]_vars => IInv'
<1> SUFFICES ASSUME IInv, [Next]_vars PROVE IInv'
  OBVIOUS
<1>1. CASE UNCHANGED vars
  BY <1>1 DEF vars, IInv, TypeOK, NoOverlap, MovesAreOrdered, CardIsWithdrawn, InStep,
     LocksAreExclusive, WantIsClear, BookedHasTime, SeqIsCurrent, SeqIsOwn, LinkIsOwn,
     CopyIsThere, CopyIsCurrent, HoldsLock, At
<1>2. CASE Next
  <2>1. PICK p \in Proc :
          Create(p) \/ Schedule(p) \/ Cancel(p) \/ QueueMail(p) \/ Scorecard(p) \/ Abort(p)
    BY <1>2 DEF Next
  <2>2. CASE Create(p)
    BY <2>2, OtherLoadsKeep, InsertKeeps DEF Create
  <2>3. CASE Schedule(p)
    BY <2>3, LoadKeeps, CheckSlotsKeeps, LockKeeps, FlushKeeps, CommitBookKeeps,
       CommitMoveKeeps DEF Schedule
  <2>4. CASE Cancel(p)
    BY <2>4, LoadKeeps, FlushCancelKeeps, CommitCancelKeeps DEF Cancel
  <2>5. CASE Scorecard(p)
    BY <2>5, OtherLoadsKeep, AskKeeps, AnswerKeeps DEF Scorecard
  <2> QED
    BY <2>1, <2>2, <2>3, <2>4, <2>5, QueueMailKeeps, AbortKeeps
<1> QED
  BY <1>1, <1>2

\* The inductive invariant holds in every reachable state.
THEOREM Invariance == Spec => []IInv
BY InitInv, NextInv, PTL DEF Spec

\* The tables, the requests' variables and the mails keep their types.
THEOREM TypeCorrect == Spec => []TypeOK
<1>1. IInv => TypeOK
  BY DEF IInv
<1> QED
  BY <1>1, Invariance, PTL

\* Booked interviews of one interviewer never overlap (self-hosting.md:69), for any
\* number of concurrent requests, any durations up to the cap and any starts.
THEOREM NoDoubleBooking == Spec => []NoOverlap
<1>1. IInv => NoOverlap
  BY DEF IInv
<1> QED
  BY <1>1, Invariance, PTL

\* No two reschedules of an interview are mailed under one sequence number.
THEOREM MovesOrdered == Spec => []MovesAreOrdered
<1>1. IInv => MovesAreOrdered
  BY DEF IInv
<1> QED
  BY <1>1, Invariance, PTL

\* Cancelling an interview withdraws the scorecard request its booking made.
THEOREM CardWithdrawn == Spec => []CardIsWithdrawn
<1>1. IInv => CardIsWithdrawn
  BY DEF IInv
<1> QED
  BY <1>1, Invariance, PTL

\* A step takes no submitted scorecard back.
LEMMA SubmittedStep ==
  ASSUME IInv, Next, NEW a \in App, card[a].submitted
  PROVE  card'[a].submitted
<1>1. TypeOK /\ card[a] \in Card /\ card[a].there
  <2>1. ~NoCard.submitted
    BY DEF NoCard
  <2> QED
    BY <2>1, Fields DEF IInv, LinkIsOwn
<1>2. PICK p \in Proc :
        Create(p) \/ Schedule(p) \/ Cancel(p) \/ QueueMail(p) \/ Scorecard(p) \/ Abort(p)
  BY DEF Next
<1>3. /\ req[p].card \in Card /\ req[p].app \in App /\ req[p].iv \in Interview
      /\ req[p].card.there => card[req[p].app].there
  BY <1>1, Fields DEF IInv, CopyIsThere
<1>4. ASSUME NEW l \in Interview \cup {None},
             card' = [card EXCEPT ![req[p].app] = Reopened(@, req[p].card, l)]
      PROVE  card'[a].submitted
  <2>1. CASE req[p].app = a
    <3>1. card'[a] = Reopened(card[a], req[p].card, l)
      BY <1>1, <1>4, <2>1 DEF TypeOK
    <3>2. req[p].card.there => card[a].there
      BY <1>3, <2>1
    <3>3. Reopened(card[a], req[p].card, l).submitted
      BY <1>1, <1>3, <3>2, Reopening
    <3> QED
      BY <3>1, <3>3
  <2>2. CASE req[p].app # a
    BY <1>1, <1>4, <2>2 DEF TypeOK
  <2> QED
    BY <2>1, <2>2
<1>5. CASE CommitBook(p)
  <2>1. \/ card' = card
        \/ card' = [card EXCEPT ![req[p].app] = Reopened(@, req[p].card, req[p].iv)]
    BY <1>5 DEF CommitBook
  <2> QED
    BY <1>3, <1>4, <2>1
<1>6. CASE Ask(p)
  BY <1>4, <1>6 DEF Ask
<1>7. CASE CommitCancel(p)
  <2>1. card' = card \/ card' = [card EXCEPT ![req[p].app].dismissed = TRUE]
    BY <1>7 DEF CommitCancel
  <2> QED
    BY <1>1, <2>1 DEF TypeOK, Card
<1>8. CASE Answer(p)
  <2>1. req[p].op \in Answers
    BY <1>8 DEF IInv, InStep, Answer
  <2>2. \/ card' = [card EXCEPT ![req[p].app].submitted = TRUE]
        \/ card' = [card EXCEPT ![req[p].app].declined = TRUE]
        \/ card' = [card EXCEPT ![req[p].app].dismissed = TRUE]
    BY <1>8, <2>1 DEF Answer, Answers
  <2> QED
    BY <1>1, <2>2 DEF TypeOK, Card
<1>9. CASE card' = card
  BY <1>9
<1>10. card' = card \/ CommitBook(p) \/ CommitCancel(p) \/ Ask(p) \/ Answer(p)
  <2>1. CASE Create(p)
    BY <2>1 DEF Create, LoadCreate, Insert
  <2>2. CASE Schedule(p)
    BY <2>2 DEF Schedule, LoadBook, LoadMove, CheckSlots, Lock, Flush, CommitMove
  <2>3. CASE Cancel(p)
    BY <2>3 DEF Cancel, LoadCancel, FlushCancel
  <2>4. CASE Scorecard(p)
    BY <2>4 DEF Scorecard, LoadAsk, LoadAnswer
  <2>5. CASE QueueMail(p) \/ Abort(p)
    BY <2>5 DEF QueueMail, Abort
  <2> QED
    BY <1>2, <2>1, <2>2, <2>3, <2>4, <2>5
<1> QED
  BY <1>5, <1>6, <1>7, <1>8, <1>9, <1>10

\* A submitted scorecard stays submitted, whatever else is under way.
THEOREM SubmittedForGood == Spec => SubmittedIsKept
<1>1. IInv /\ [Next]_vars => [\A a \in App : card[a].submitted => card'[a].submitted]_vars
  BY SubmittedStep
<1> QED
  BY <1>1, Invariance, PTL DEF Spec, SubmittedIsKept
-----------------------------------------------------------------------------
(***************************************************************************)
(* The interviewer's calendar.  Of an undisturbed interview, everything    *)
(* said so far, mailed or about to be, is told apart by its sequence; a    *)
(* commit adds one word to it, and queueing a mail changes nothing.        *)
(***************************************************************************)
Word(r) == [op |-> r.op, iv |-> r.iv, seq |-> r.seq, start |-> r.want]
Tells(r, i) == r.pc = "mail" /\ r.iv = i
WorksAt(r, i) == r.op \in Kinds /\ r.pc \notin {"idle", "mail"} /\ r.iv = i

\* What a request that works at interview i may do there, given its row.
LoadedAs(r, w) ==
    /\ r.op = "book" => w.status = "pending"
    /\ r.op = "move" => w.status = "booked"
    /\ r.op = "cancel" => w.status \in {"pending", "booked"}
    /\ r.start = w.start /\ r.seq = w.seq

Agrees(i) == AloneAt(i) /\ LoadIsCurrent(i) /\ SaidIsSo(i)

LEMMA SaidMembers ==
  ASSUME NEW i \in Interview, NEW m
  PROVE  m \in SaidOf(i) <=> \/ m \in mails /\ m.iv = i
                             \/ \E q \in Proc : Tells(req[q], i) /\ m = Word(req[q])
BY DEF SaidOf, MailsOf, MailOf, Word, Tells

LEMMA SaidMembersNext ==
  ASSUME NEW i \in Interview, NEW m
  PROVE  m \in SaidOf(i)' <=> \/ m \in mails' /\ m.iv = i
                              \/ \E q \in Proc : Tells(req'[q], i) /\ m = Word(req'[q])
BY DEF SaidOf, MailsOf, MailOf, Word, Tells

LEMMA SaidTyped ==
  ASSUME IInv, NEW i \in Interview, NEW m \in SaidOf(i)
  PROVE  m \in Mail /\ m.seq \in Nat /\ m.iv = i
<1>1. TypeOK /\ \A p \in Proc : req[p].pc = "mail" => req[p].op \in Kinds
  BY DEF IInv, InStep, Kinds
<1>2. CASE m \in mails /\ m.iv = i
  BY <1>1, <1>2 DEF TypeOK, Mail
<1>3. CASE \E q \in Proc : Tells(req[q], i) /\ m = Word(req[q])
  BY <1>1, <1>3, Fields DEF Tells, Word, Mail, Kinds
<1> QED
  BY <1>2, <1>3, SaidMembers

\* A step that queues no mail adds the word of the request that commits.
LEMMA SaidGrows ==
  ASSUME NEW p \in Proc, NEW r, NEW i \in Interview,
         \A q \in Proc : req'[q] = IF q = p THEN r ELSE req[q],
         mails' = mails, ~Tells(req[p], i)
  PROVE  SaidOf(i)' = IF Tells(r, i) THEN SaidOf(i) \cup {Word(r)} ELSE SaidOf(i)
<1> DEFINE told == IF Tells(r, i) THEN {Word(r)} ELSE {}
<1>1. ASSUME NEW m \in SaidOf(i)' PROVE m \in SaidOf(i) \cup told
  <2>1. CASE m \in mails' /\ m.iv = i
    BY <2>1, SaidMembers
  <2>2. CASE \E q \in Proc : Tells(req'[q], i) /\ m = Word(req'[q])
    <3>1. PICK q \in Proc : Tells(req'[q], i) /\ m = Word(req'[q])
      BY <2>2
    <3> QED
      BY <3>1, SaidMembers
  <2> QED
    BY <1>1, <2>1, <2>2, SaidMembersNext
<1>2. ASSUME NEW m \in SaidOf(i) PROVE m \in SaidOf(i)'
  <2>1. CASE m \in mails /\ m.iv = i
    BY <2>1, SaidMembersNext
  <2>2. CASE \E q \in Proc : Tells(req[q], i) /\ m = Word(req[q])
    <3>1. PICK q \in Proc : Tells(req[q], i) /\ m = Word(req[q])
      BY <2>2
    <3>2. q # p
      BY <3>1
    <3> QED
      BY <3>1, <3>2, SaidMembersNext
  <2> QED
    BY <1>2, <2>1, <2>2, SaidMembers
<1>3. ASSUME NEW m \in told PROVE m \in SaidOf(i)'
  BY <1>3, SaidMembersNext
<1>4. SaidOf(i)' = SaidOf(i) \cup told
  BY <1>1, <1>2, <1>3
<1> QED
  BY <1>4

\* A step of p that leaves the row of i and what was said of it.
LEMMA Undisturbed ==
  ASSUME NEW i \in Interview, Agrees(i), NEW p \in Proc,
         \A q \in Proc \ {p} : req'[q] = req[q],
         iv'[i] = iv[i], SaidOf(i)' = SaidOf(i),
         WorksAt(req'[p], i) =>
           LoadedAs(req'[p], iv[i]) /\ \A q \in Proc \ {p} : ~WorksAt(req[q], i)
  PROVE  Agrees(i)'
<1>1. AloneAt(i)'
  BY DEF Agrees, AloneAt, Working, WorksAt, Kinds
<1>2. LoadIsCurrent(i)'
  BY DEF Agrees, LoadIsCurrent, LoadedAs, Active, Working, WorksAt, Kinds
<1>3. SaidIsSo(i)'
  BY DEF Agrees, SaidIsSo
<1> QED
  BY <1>1, <1>2, <1>3 DEF Agrees

\* A request that works at an interview it had to itself.
LEMMA WorksAlone ==
  ASSUME NEW i \in Interview, Agrees(i), NEW p \in Proc, WorksAt(req[p], i)
  PROVE  LoadedAs(req[p], iv[i]) /\ \A q \in Proc \ {p} : ~WorksAt(req[q], i)
BY DEF Agrees, AloneAt, LoadIsCurrent, LoadedAs, Active, Working, WorksAt, Kinds

\* After the only request at i has committed, none works there.
LEMMA NoneLeft ==
  ASSUME NEW i \in Interview, NEW p \in Proc,
         \A q \in Proc \ {p} : req'[q] = req[q],
         ~WorksAt(req'[p], i), \A q \in Proc \ {p} : ~WorksAt(req[q], i)
  PROVE  AloneAt(i)' /\ LoadIsCurrent(i)'
<1>1. \A q \in Proc : ~WorksAt(req'[q], i)
  OBVIOUS
<1> QED
  BY <1>1 DEF AloneAt, LoadIsCurrent, Working, WorksAt, Kinds

LEMMA CalendarInit == Init => CalendarIInv
<1> SUFFICES ASSUME Init PROVE CalendarIInv
  OBVIOUS
<1>1. IInv
  BY InitInv
<1>2. ASSUME NEW i \in Interview PROVE Agrees(i)
  <2>1. \A q \in Proc : req[q].pc = "idle"
    BY DEF Init, Idle
  <2>2. iv[i] = NoRow /\ mails = {}
    BY DEF Init
  <2>3. SaidOf(i) = {}
    BY <2>1, <2>2, SaidMembers DEF Tells
  <2>4. AloneAt(i) /\ LoadIsCurrent(i)
    BY <2>1 DEF AloneAt, LoadIsCurrent, Working
  <2>5. SaidIsSo(i)
    BY <2>2, <2>3 DEF SaidIsSo, NoRow
  <2> QED
    BY <2>4, <2>5 DEF Agrees
<1> QED
  BY <1>1, <1>2 DEF CalendarIInv, Agrees

\* The requests after a step of p.
LEMMA Turns ==
  ASSUME TypeOK, NEW p \in Proc, NEW r, Goto(p, r)
  PROVE  \A q \in Proc : req'[q] = IF q = p THEN r ELSE req[q]
BY DEF TypeOK, Goto

\* A load of interview j: whoever else works there disturbs it.
LEMMA LoadsAgree ==
  ASSUME CalendarIInv, NEW p \in Proc, NEW j \in Interview, NEW i \in Interview \ disturbed',
         LoadCancel(p, j) \/ \E s \in Slot : LoadBook(p, j, s) \/ LoadMove(p, j, s)
  PROVE  Agrees(i)'
<1>1. TypeOK
  BY DEF CalendarIInv, IInv
<1>2. PICK r : /\ Goto(p, r)
               /\ r.iv = j /\ r.pc \in {"slots", "cancel"} /\ LoadedAs(r, iv[j])
  <2>1. ASSUME NEW o \in Kinds
        PROVE  /\ Loaded(o, j) \in Request /\ Loaded(o, j).op = o /\ Loaded(o, j).iv = j
               /\ Loaded(o, j).start = iv[j].start /\ Loaded(o, j).seq = iv[j].seq
    BY <1>1, Loading DEF Loaded, Idle
  <2>2. CASE LoadCancel(p, j)
    <3> DEFINE r == [Loaded("cancel", j) EXCEPT !.pc = "cancel"]
    <3>1. /\ r.pc = "cancel" /\ r.iv = j /\ r.op = "cancel"
          /\ r.start = iv[j].start /\ r.seq = iv[j].seq
      BY <2>1 DEF Request, Kinds
    <3>2. Goto(p, r) /\ iv[j].status \in {"pending", "booked"}
      BY <2>2 DEF LoadCancel, Active
    <3> HIDE DEF r
    <3> QED
      BY <3>1, <3>2 DEF LoadedAs
  <2>3. CASE \E s \in Slot : LoadBook(p, j, s) \/ LoadMove(p, j, s)
    <3>1. PICK o \in {"book", "move"}, s \in Slot :
            /\ Goto(p, [Loaded(o, j) EXCEPT !.pc = "slots", !.want = s])
            /\ o = "book" => iv[j].status = "pending"
            /\ o = "move" => iv[j].status = "booked"
      BY <2>3 DEF LoadBook, LoadMove
    <3> DEFINE r == [Loaded(o, j) EXCEPT !.pc = "slots", !.want = s]
    <3>2. /\ r.pc = "slots" /\ r.iv = j /\ r.op = o
          /\ r.start = iv[j].start /\ r.seq = iv[j].seq
      BY <2>1 DEF Request, Kinds
    <3>3. Goto(p, r)
      BY <3>1
    <3> HIDE DEF r
    <3> QED
      BY <3>1, <3>2, <3>3 DEF LoadedAs
  <2> QED
    BY <2>2, <2>3
<1>3. UNCHANGED <<iv, mails>> /\ Touch(j) /\ req[p].pc = "idle"
  BY DEF LoadCancel, LoadBook, LoadMove, Begins
<1>4. \A q \in Proc : req'[q] = IF q = p THEN r ELSE req[q]
  BY <1>1, <1>2, Turns
<1>5. i \notin disturbed /\ (i = j => \A q \in Proc : ~(Working(q) /\ req[q].iv = j))
  BY <1>3 DEF Touch
<1>6. Agrees(i)
  BY <1>5 DEF CalendarIInv, Agrees
<1>7. SaidOf(i)' = SaidOf(i)
  BY <1>2, <1>3, <1>4, SaidGrows DEF Tells
<1>8. WorksAt(r, i) => /\ LoadedAs(r, iv[i])
                       /\ \A q \in Proc \ {p} : ~WorksAt(req[q], i)
  BY <1>2, <1>5 DEF WorksAt, Working, Kinds
<1> QED
  BY <1>3, <1>4, <1>6, <1>7, <1>8, Undisturbed

\* A request that goes on, or is done, without touching the tables.
LEMMA RestsAgree ==
  ASSUME CalendarIInv, NEW p \in Proc, NEW r, NEW i \in Interview \ disturbed',
         Goto(p, r), iv'[i] = iv[i], mails' = mails, disturbed \subseteq disturbed',
         ~Tells(req[p], i), ~Tells(r, i),
         WorksAt(r, i) => /\ WorksAt(req[p], i)
                          /\ r.op = req[p].op /\ r.start = req[p].start
                          /\ r.seq \in {req[p].seq, iv[i].seq}
  PROVE  Agrees(i)'
<1>1. TypeOK /\ i \notin disturbed
  BY DEF CalendarIInv, IInv
<1>2. Agrees(i)
  BY <1>1 DEF CalendarIInv, Agrees
<1>3. \A q \in Proc : req'[q] = IF q = p THEN r ELSE req[q]
  BY <1>1, Turns
<1>4. SaidOf(i)' = SaidOf(i)
  BY <1>3, SaidGrows
<1>5. WorksAt(r, i) => /\ LoadedAs(r, iv[i])
                       /\ \A q \in Proc \ {p} : ~WorksAt(req[q], i)
  BY <1>2, WorksAlone DEF LoadedAs
<1> QED
  BY <1>2, <1>3, <1>4, <1>5, Undisturbed

LEMMA IdleRests ==
  ASSUME NEW i PROVE ~Tells(Idle, i) /\ ~WorksAt(Idle, i)
BY DEF Idle, Tells, WorksAt

LEMMA GoOnAgree ==
  ASSUME CalendarIInv, NEW p \in Proc, NEW i \in Interview \ disturbed',
         CheckSlots(p) \/ Lock(p) \/ Flush(p) \/ FlushCancel(p)
  PROVE  Agrees(i)'
<1>1. /\ TypeOK /\ req[p] \in Request
      /\ req[p].pc \in {"slots", "wait", "locked", "cancel"}
      /\ req[p].op \in Kinds
      /\ UNCHANGED <<iv, mails, disturbed>>
  BY Fields DEF CalendarIInv, IInv, InStep, CheckSlots, Lock, Flush, FlushCancel, HoldsLock, At, Kinds
<1>2. PICK r : /\ Goto(p, r)
               /\ r = Idle \/ /\ r.op = req[p].op /\ r.iv = req[p].iv /\ r.pc \notin {"idle", "mail"}
                              /\ r.start = req[p].start
                              /\ r.seq \in {req[p].seq, iv[req[p].iv].seq}
  <2>1. CASE Done(p)
    BY <2>1 DEF Done
  <2>2. CASE Goto(p, [req[p] EXCEPT !.pc = "wait"])
    <3> DEFINE r == [req[p] EXCEPT !.pc = "wait"]
    <3>1. r.op = req[p].op /\ r.iv = req[p].iv /\ r.pc = "wait" /\ r.start = req[p].start
          /\ r.seq = req[p].seq
      BY <1>1 DEF Request
    <3> QED
      BY <2>2, <3>1
  <2>3. CASE Lock(p) /\ ~Done(p)
    <3> DEFINE r == [req[p] EXCEPT !.pc = "locked",
                                   !.seq = IF req[p].op = "move" THEN Refreshed(p) ELSE @]
    <3>1. Goto(p, r)
      BY <2>3 DEF Lock
    <3>2. r.op = req[p].op /\ r.iv = req[p].iv /\ r.pc = "locked" /\ r.start = req[p].start
          /\ r.seq \in {req[p].seq, iv[req[p].iv].seq}
      BY <1>1 DEF Request, Refreshed
    <3> QED
      BY <3>1, <3>2
  <2>4. CASE Goto(p, [req[p] EXCEPT !.pc = "flushed", !.card = card[req[p].app]])
    <3> DEFINE r == [req[p] EXCEPT !.pc = "flushed", !.card = card[req[p].app]]
    <3>1. r.op = req[p].op /\ r.iv = req[p].iv /\ r.pc = "flushed" /\ r.start = req[p].start
          /\ r.seq = req[p].seq
      BY <1>1 DEF Request
    <3> QED
      BY <2>4, <3>1
  <2> QED
    BY <2>1, <2>2, <2>3, <2>4 DEF CheckSlots, Lock, Flush, FlushCancel
<1>3. ~Tells(req[p], i) /\ ~Tells(r, i)
  BY <1>1, <1>2, IdleRests DEF Tells
<1>4. WorksAt(r, i) => /\ WorksAt(req[p], i)
                       /\ r.op = req[p].op /\ r.start = req[p].start
                       /\ r.seq \in {req[p].seq, iv[i].seq}
  BY <1>1, <1>2, IdleRests DEF WorksAt, Kinds
<1> QED
  BY <1>1, <1>2, <1>3, <1>4, RestsAgree

LEMMA AsideFields ==
  ASSUME NEW a, NEW c
  PROVE  /\ LET r == [Idle EXCEPT !.op = "create", !.pc = "insert", !.app = a]
            IN  r.op \notin Kinds /\ r.pc # "mail"
         /\ LET r == [Idle EXCEPT !.op = "ask", !.pc = "ask", !.app = a, !.card = c]
            IN  r.op \notin Kinds /\ r.pc # "mail"
         /\ \A o \in Answers :
              LET r == [Idle EXCEPT !.op = o, !.pc = "answer", !.app = a, !.card = c]
              IN  r.op \notin Kinds /\ r.pc # "mail"
BY DEF Idle, Kinds, Answers

\* The scorecard's own steps, the request of an interview and a request that ends.
LEMMA AsidesAgree ==
  ASSUME CalendarIInv, NEW p \in Proc, NEW i \in Interview \ disturbed',
         \/ \E a \in App : LoadCreate(p, a) \/ LoadAsk(p, a) \/ \E o \in Answers : LoadAnswer(p, a, o)
         \/ Ask(p) \/ Answer(p) \/ Abort(p)
  PROVE  Agrees(i)'
<1>1. PICK r : Goto(p, r) /\ (r = Idle \/ (r.op \notin Kinds /\ r.pc # "mail"))
  <2>1. CASE Done(p)
    BY <2>1 DEF Done
  <2>2. CASE \E a \in App : LoadCreate(p, a)
    <3>1. PICK a \in App : Goto(p, [Idle EXCEPT !.op = "create", !.pc = "insert", !.app = a])
      BY <2>2 DEF LoadCreate
    <3> QED
      BY <3>1, AsideFields
  <2>3. CASE \E a \in App : LoadAsk(p, a)
    <3>1. PICK a \in App :
            Goto(p, [Idle EXCEPT !.op = "ask", !.pc = "ask", !.app = a, !.card = card[a]])
      BY <2>3 DEF LoadAsk
    <3> QED
      BY <3>1, AsideFields
  <2>4. CASE \E a \in App : \E o \in Answers : LoadAnswer(p, a, o)
    <3>1. PICK a \in App, o \in Answers :
            Goto(p, [Idle EXCEPT !.op = o, !.pc = "answer", !.app = a, !.card = card[a]])
      BY <2>4 DEF LoadAnswer
    <3> QED
      BY <3>1, AsideFields
  <2> QED
    BY <2>1, <2>2, <2>3, <2>4 DEF Ask, Answer, Abort
<1>2. /\ UNCHANGED <<iv, mails>> /\ disturbed \subseteq disturbed'
      /\ ~Tells(req[p], i)
  BY DEF LoadCreate, LoadAsk, LoadAnswer, Begins, Ask, Answer, Abort, Tells
<1>3. ~Tells(r, i) /\ ~WorksAt(r, i)
  BY <1>1, IdleRests DEF Tells, WorksAt
<1> QED
  BY <1>1, <1>2, <1>3, RestsAgree

LEMMA InsertAgrees ==
  ASSUME CalendarIInv, NEW p \in Proc, NEW j \in Interview, Insert(p, j),
         NEW i \in Interview \ disturbed'
  PROVE  Agrees(i)'
<1>1. TypeOK /\ iv \in [Interview -> Row]
  BY DEF CalendarIInv, IInv, TypeOK
<1>2. /\ Goto(p, Idle) /\ UNCHANGED <<mails, disturbed>> /\ iv[j].status = "none"
      /\ req[p].pc = "insert" /\ req[p].op = "create"
      /\ iv' = iv \/ iv' = [iv EXCEPT ![j].status = "pending"]
  BY DEF Insert, Done, At
<1>3. CASE iv'[i] = iv[i]
  BY <1>2, <1>3, IdleRests, RestsAgree DEF Tells
<1>4. CASE iv'[i] # iv[i]
  <2>1. /\ i = j /\ iv'[i].status = "pending"
        /\ iv'[i].start = iv[i].start /\ iv'[i].seq = iv[i].seq
    BY <1>1, <1>2, <1>4 DEF Row
  <2>2. Agrees(i) /\ \A q \in Proc : req'[q] = IF q = p THEN Idle ELSE req[q]
    BY <1>1, <1>2, Turns DEF CalendarIInv, Agrees
  <2>3. SaidOf(i)' = SaidOf(i)
    BY <1>2, <2>2, SaidGrows, IdleRests DEF Tells
  <2>4. \A q \in Proc : ~WorksAt(req[q], i)
    BY <1>2, <2>1, <2>2 DEF Agrees, LoadIsCurrent, Working, WorksAt, Kinds, Active
  <2>5. AloneAt(i)' /\ LoadIsCurrent(i)'
    BY <2>2, <2>4, IdleRests, NoneLeft
  <2>6. SaidIsSo(i)'
    BY <1>2, <2>1, <2>2, <2>3 DEF Agrees, SaidIsSo
  <2> QED
    BY <2>5, <2>6 DEF Agrees
<1> QED
  BY <1>3, <1>4

\* The last word on a booked interview is its row, and nothing has a higher sequence.
LEMMA LastWord ==
  ASSUME CalendarIInv, NEW i \in Interview \ disturbed, iv[i].status = "booked",
         NEW n \in SaidOf(i)
  PROVE  n.seq \in Nat /\ iv[i].seq \in Nat /\ n.seq <= iv[i].seq
<1>1. IInv /\ SaidIsSo(i)
  BY DEF CalendarIInv
<1>2. PICK m \in SaidOf(i) : m.seq = iv[i].seq /\ \A k \in SaidOf(i) : k = m \/ k.seq < m.seq
  BY <1>1 DEF SaidIsSo
<1>3. n.seq \in Nat /\ m.seq \in Nat
  BY <1>1, SaidTyped
<1> QED
  BY <1>2, <1>3

LEMMA CommitBookAgrees ==
  ASSUME CalendarIInv, NEW p \in Proc, CommitBook(p), NEW i \in Interview \ disturbed'
  PROVE  Agrees(i)'
<1> DEFINE r == [req[p] EXCEPT !.pc = "mail", !.seq = 0]
<1>1. TypeOK /\ req[p] \in Request /\ req[p].iv \in Interview /\ iv \in [Interview -> Row]
  BY Fields DEF CalendarIInv, IInv, TypeOK
<1>2. /\ Goto(p, r) /\ UNCHANGED <<mails, disturbed>>
      /\ iv' = [iv EXCEPT ![req[p].iv] = [@ EXCEPT !.status = "booked", !.start = req[p].want]]
      /\ req[p].op = "book" /\ req[p].pc = "flushed"
  BY DEF CommitBook, At
<1>3. r.pc = "mail" /\ r.op = "book" /\ r.iv = req[p].iv /\ r.seq = 0 /\ r.want = req[p].want
  BY <1>1, <1>2 DEF Request
<1> HIDE DEF r
<1>4. ~Tells(req[p], i) /\ ~WorksAt(r, i)
  BY <1>2, <1>3 DEF Tells, WorksAt
<1>5. CASE i # req[p].iv
  <2>1. iv'[i] = iv[i] /\ ~Tells(r, i)
    BY <1>1, <1>2, <1>3, <1>5 DEF Tells
  <2> QED
    BY <1>2, <1>4, <2>1, RestsAgree
<1>6. CASE i = req[p].iv
  <2>1. Agrees(i) /\ \A q \in Proc : req'[q] = IF q = p THEN r ELSE req[q]
    BY <1>1, <1>2, Turns DEF CalendarIInv, Agrees
  <2>2. WorksAt(req[p], i)
    BY <1>2, <1>6 DEF WorksAt, Kinds
  <2>3. LoadedAs(req[p], iv[i]) /\ \A q \in Proc \ {p} : ~WorksAt(req[q], i)
    BY <2>1, <2>2, WorksAlone
  <2>4. AloneAt(i)' /\ LoadIsCurrent(i)'
    BY <1>4, <2>1, <2>3, NoneLeft
  <2>5. SaidOf(i) = {} /\ iv[i].seq = 0
    BY <1>2, <2>1, <2>3 DEF Agrees, SaidIsSo, LoadedAs
  <2>6. SaidOf(i)' = {Word(r)}
    BY <1>3, <1>4, <1>6, <1>2, <2>1, <2>5, SaidGrows DEF Tells
  <2>7. iv'[i].status = "booked" /\ iv'[i].start = req[p].want /\ iv'[i].seq = 0
    BY <1>1, <1>2, <1>6, <2>5 DEF Row
  <2>8. Word(r).op = "book" /\ Word(r).seq = 0 /\ Word(r).start = req[p].want
    BY <1>3 DEF Word
  <2>9. SaidIsSo(i)'
    BY <2>6, <2>7, <2>8 DEF SaidIsSo
  <2> QED
    BY <2>4, <2>9 DEF Agrees
<1> QED
  BY <1>5, <1>6

LEMMA CommitMoveAgrees ==
  ASSUME CalendarIInv, NEW p \in Proc, CommitMove(p), NEW i \in Interview \ disturbed'
  PROVE  Agrees(i)'
<1> DEFINE n == req[p].seq + 1
           s == IF req[p].want = req[p].start THEN iv[req[p].iv].start ELSE req[p].want
           r == [req[p] EXCEPT !.pc = "mail", !.seq = n]
<1>1. /\ TypeOK /\ req[p] \in Request /\ req[p].iv \in Interview /\ iv \in [Interview -> Row]
      /\ req[p].seq \in Nat
  BY Fields DEF CalendarIInv, IInv, TypeOK
<1>2. /\ Goto(p, r) /\ UNCHANGED <<mails, disturbed>>
      /\ iv' = [iv EXCEPT ![req[p].iv] = [@ EXCEPT !.start = s, !.seq = n]]
      /\ req[p].op = "move" /\ req[p].pc = "flushed"
  BY DEF CommitMove, At
<1>3. r.pc = "mail" /\ r.op = "move" /\ r.iv = req[p].iv /\ r.seq = n /\ r.want = req[p].want
  BY <1>1, <1>2 DEF Request
<1> HIDE DEF r
<1>4. ~Tells(req[p], i) /\ ~WorksAt(r, i)
  BY <1>2, <1>3 DEF Tells, WorksAt
<1>5. CASE i # req[p].iv
  <2>1. iv'[i] = iv[i] /\ ~Tells(r, i)
    BY <1>1, <1>2, <1>3, <1>5 DEF Tells
  <2> QED
    BY <1>2, <1>4, <2>1, RestsAgree
<1>6. CASE i = req[p].iv
  <2>1. Agrees(i) /\ \A q \in Proc : req'[q] = IF q = p THEN r ELSE req[q]
    BY <1>1, <1>2, Turns DEF CalendarIInv, Agrees
  <2>2. WorksAt(req[p], i)
    BY <1>2, <1>6 DEF WorksAt, Kinds
  <2>3. LoadedAs(req[p], iv[i]) /\ \A q \in Proc \ {p} : ~WorksAt(req[q], i)
    BY <2>1, <2>2, WorksAlone
  <2>4. AloneAt(i)' /\ LoadIsCurrent(i)'
    BY <1>4, <2>1, <2>3, NoneLeft
  <2>5. iv[i].status = "booked" /\ req[p].start = iv[i].start /\ req[p].seq = iv[i].seq
    BY <1>2, <2>3 DEF LoadedAs
  <2>6. \A k \in SaidOf(i) : k.seq < n
    <3>1. ASSUME NEW k \in SaidOf(i) PROVE k.seq < n
      <4>1. k.seq \in Nat /\ k.seq <= req[p].seq
        BY <1>2, <2>5, LastWord
      <4> QED
        BY <1>1, <4>1
    <3> QED
      BY <3>1
  <2>7. s = req[p].want
    BY <1>6, <2>5
  <2> HIDE DEF s, n
  <2>8. SaidOf(i)' = SaidOf(i) \cup {Word(r)}
    BY <1>2, <1>3, <1>4, <1>6, <2>1, SaidGrows DEF Tells
  <2>9. iv'[i].status = "booked" /\ iv'[i].start = req[p].want /\ iv'[i].seq = n
    BY <1>1, <1>2, <1>6, <2>5, <2>7 DEF Row
  <2>10. Word(r).op = "move" /\ Word(r).seq = n /\ Word(r).start = req[p].want
    BY <1>3 DEF Word
  <2>11. SaidIsSo(i)'
    BY <2>6, <2>8, <2>9, <2>10 DEF SaidIsSo
  <2> QED
    BY <2>4, <2>11 DEF Agrees
<1> QED
  BY <1>5, <1>6

LEMMA CommitCancelAgrees ==
  ASSUME CalendarIInv, NEW p \in Proc, CommitCancel(p), NEW i \in Interview \ disturbed'
  PROVE  Agrees(i)'
<1> DEFINE n == req[p].seq + 1
           r == IF req[p].start = NoStart THEN Idle
                ELSE [req[p] EXCEPT !.pc = "mail", !.seq = n, !.want = req[p].start]
<1>1. /\ TypeOK /\ req[p] \in Request /\ req[p].iv \in Interview /\ iv \in [Interview -> Row]
      /\ req[p].seq \in Nat
  BY Fields DEF CalendarIInv, IInv, TypeOK
<1>2. /\ Goto(p, r) /\ UNCHANGED <<mails, disturbed>>
      /\ iv' = [iv EXCEPT ![req[p].iv].status = "cancelled"]
      /\ req[p].op = "cancel" /\ req[p].pc = "flushed"
  BY DEF CommitCancel, At, Done, Notice
<1>3. /\ req[p].start = NoStart => r = Idle
      /\ req[p].start # NoStart =>
           r.pc = "mail" /\ r.op = "cancel" /\ r.iv = req[p].iv /\ r.seq = n
  BY <1>1, <1>2 DEF Request
<1> HIDE DEF r
<1>4. ~Tells(req[p], i) /\ ~WorksAt(r, i)
  BY <1>2, <1>3, IdleRests DEF Tells, WorksAt
<1>5. CASE i # req[p].iv
  <2>1. iv'[i] = iv[i] /\ ~Tells(r, i)
    BY <1>1, <1>2, <1>3, <1>5, IdleRests DEF Tells
  <2> QED
    BY <1>2, <1>4, <2>1, RestsAgree
<1>6. CASE i = req[p].iv
  <2>1. Agrees(i) /\ \A q \in Proc : req'[q] = IF q = p THEN r ELSE req[q]
    BY <1>1, <1>2, Turns DEF CalendarIInv, Agrees
  <2>2. WorksAt(req[p], i)
    BY <1>2, <1>6 DEF WorksAt, Kinds
  <2>3. LoadedAs(req[p], iv[i]) /\ \A q \in Proc \ {p} : ~WorksAt(req[q], i)
    BY <2>1, <2>2, WorksAlone
  <2>4. AloneAt(i)' /\ LoadIsCurrent(i)'
    BY <1>4, <2>1, <2>3, NoneLeft
  <2>5. /\ iv[i].status \in {"pending", "booked"}
        /\ req[p].start = iv[i].start /\ req[p].seq = iv[i].seq
    BY <1>2, <2>3 DEF LoadedAs
  <2>6. iv'[i].status = "cancelled"
    BY <1>1, <1>2, <1>6 DEF Row
  <2>7. CASE req[p].start = NoStart
    <3>1. iv[i].status # "booked"
      BY <2>5, <2>7, SlotsAreTimes DEF CalendarIInv, IInv, BookedHasTime
    <3>2. SaidOf(i) = {}
      BY <2>1, <2>5, <3>1 DEF Agrees, SaidIsSo
    <3>3. ~Tells(r, i)
      BY <1>3, <2>7, IdleRests
    <3>4. SaidOf(i)' = {}
      BY <1>2, <1>4, <2>1, <3>2, <3>3, SaidGrows
    <3>5. SaidIsSo(i)'
      BY <2>6, <3>4 DEF SaidIsSo
    <3> QED
      BY <2>4, <3>5 DEF Agrees
  <2>8. CASE req[p].start # NoStart
    <3>1. iv[i].status = "booked"
      BY <2>1, <2>5, <2>8 DEF Agrees, SaidIsSo
    <3>2. \A k \in SaidOf(i) : k.seq < n
      <4>1. ASSUME NEW k \in SaidOf(i) PROVE k.seq < n
        <5>1. k.seq \in Nat /\ k.seq <= req[p].seq
          BY <1>2, <2>5, <3>1, LastWord
        <5> QED
          BY <1>1, <5>1
      <4> QED
        BY <4>1
    <3> HIDE DEF n
    <3>3. Tells(r, i) /\ Word(r).op = "cancel" /\ Word(r).seq = n
      BY <1>3, <1>6, <2>8 DEF Tells, Word
    <3>4. SaidOf(i)' = SaidOf(i) \cup {Word(r)}
      BY <1>2, <1>4, <2>1, <3>3, SaidGrows
    <3>5. SaidIsSo(i)'
      BY <2>6, <3>2, <3>3, <3>4 DEF SaidIsSo
    <3> QED
      BY <2>4, <3>5 DEF Agrees
  <2> QED
    BY <2>7, <2>8
<1> QED
  BY <1>5, <1>6

\* A queued mail was about to be queued: nothing new is said.
LEMMA QueueMailAgrees ==
  ASSUME CalendarIInv, NEW p \in Proc, QueueMail(p), NEW i \in Interview \ disturbed'
  PROVE  Agrees(i)'
<1>1. /\ TypeOK /\ Goto(p, Idle) /\ UNCHANGED <<iv, disturbed>>
      /\ req[p].pc = "mail" /\ mails' = mails \cup {Word(req[p])}
  BY DEF CalendarIInv, IInv, QueueMail, Done, MailOf, Word
<1>2. Agrees(i) /\ \A q \in Proc : req'[q] = IF q = p THEN Idle ELSE req[q]
  BY <1>1, Turns DEF CalendarIInv, Agrees
<1>3. SaidOf(i)' = SaidOf(i)
  <2>1. ASSUME NEW m \in SaidOf(i)' PROVE m \in SaidOf(i)
    <3>1. CASE m \in mails /\ m.iv = i
      BY <3>1, SaidMembers
    <3>2. CASE m = Word(req[p]) /\ m.iv = i
      <4>1. Tells(req[p], i)
        BY <1>1, <3>2 DEF Tells, Word
      <4> QED
        BY <3>2, <4>1, SaidMembers
    <3>3. CASE \E q \in Proc : Tells(req'[q], i) /\ m = Word(req'[q])
      <4>1. PICK q \in Proc : Tells(req'[q], i) /\ m = Word(req'[q])
        BY <3>3
      <4>2. req'[q] = req[q]
        BY <1>2, <4>1, IdleRests
      <4> QED
        BY <4>1, <4>2, SaidMembers
    <3> QED
      BY <1>1, <2>1, <3>1, <3>2, <3>3, SaidMembersNext
  <2>2. ASSUME NEW m \in SaidOf(i) PROVE m \in SaidOf(i)'
    <3>1. CASE m \in mails /\ m.iv = i
      BY <1>1, <3>1, SaidMembersNext
    <3>2. CASE \E q \in Proc : Tells(req[q], i) /\ m = Word(req[q])
      <4>1. PICK q \in Proc : Tells(req[q], i) /\ m = Word(req[q])
        BY <3>2
      <4>2. CASE q = p
        <5>1. m \in mails' /\ m.iv = i
          BY <1>1, <4>1, <4>2 DEF Tells, Word
        <5> QED
          BY <5>1, SaidMembersNext
      <4>3. CASE q # p
        BY <1>2, <4>1, <4>3, SaidMembersNext
      <4> QED
        BY <4>2, <4>3
    <3> QED
      BY <2>2, <3>1, <3>2, SaidMembers
  <2> QED
    BY <2>1, <2>2
<1> QED
  BY <1>1, <1>2, <1>3, IdleRests, Undisturbed

LEMMA CalendarNext == CalendarIInv /\ [Next]_vars => CalendarIInv'
<1> SUFFICES ASSUME CalendarIInv, [Next]_vars PROVE CalendarIInv'
  OBVIOUS
<1>1. IInv'
  BY NextInv DEF CalendarIInv
<1>2. ASSUME NEW i \in Interview \ disturbed' PROVE Agrees(i)'
  <2>1. CASE UNCHANGED vars
    <3>1. Agrees(i)
      BY <2>1 DEF vars, CalendarIInv, Agrees
    <3> QED
      BY <2>1, <3>1 DEF vars, Agrees, AloneAt, LoadIsCurrent, SaidIsSo, SaidOf, MailsOf, MailOf,
         Working, Active
  <2>2. CASE Next
    <3>1. PICK p \in Proc :
            Create(p) \/ Schedule(p) \/ Cancel(p) \/ QueueMail(p) \/ Scorecard(p) \/ Abort(p)
      BY <2>2 DEF Next
    <3>2. CASE Create(p)
      BY <3>2, AsidesAgree, InsertAgrees DEF Create
    <3>3. CASE Schedule(p)
      BY <3>3, LoadsAgree, GoOnAgree, CommitBookAgrees, CommitMoveAgrees DEF Schedule
    <3>4. CASE Cancel(p)
      BY <3>4, LoadsAgree, GoOnAgree, CommitCancelAgrees DEF Cancel
    <3>5. CASE Scorecard(p)
      BY <3>5, AsidesAgree DEF Scorecard
    <3> QED
      BY <3>1, <3>2, <3>3, <3>4, <3>5, QueueMailAgrees, AsidesAgree
  <2> QED
    BY <2>1, <2>2
<1> QED
  BY <1>1, <1>2 DEF CalendarIInv, Agrees

\* Once every word is mailed, the mail with the highest sequence is the last word.
LEMMA SaidIsLatest == CalendarIInv => CalendarIsLatest
<1> SUFFICES ASSUME CalendarIInv, NEW i \in Interview \ disturbed,
                    \A p \in Proc : ~(req[p].pc = "mail" /\ req[p].iv = i)
             PROVE  /\ iv[i].status = "booked" =>
                         Cardinality(Latest(i)) = 1 /\ \A m \in Latest(i) :
                            m.op # "cancel" /\ m.seq = iv[i].seq /\ m.start = iv[i].start
                    /\ iv[i].status = "cancelled" => \A m \in Latest(i) : m.op = "cancel"
  BY DEF CalendarIsLatest
<1>1. IInv /\ SaidIsSo(i)
  BY DEF CalendarIInv
<1>2. MailsOf(i) = SaidOf(i)
  BY SaidMembers DEF MailsOf, Tells
<1>3. \A n \in MailsOf(i) : n.seq \in Nat
  BY <1>1, <1>2, SaidTyped
<1>4. ASSUME iv[i].status = "booked"
      PROVE  Cardinality(Latest(i)) = 1 /\ \A m \in Latest(i) :
                m.op # "cancel" /\ m.seq = iv[i].seq /\ m.start = iv[i].start
  <2>1. PICK m \in MailsOf(i) : /\ m.op # "cancel" /\ m.seq = iv[i].seq /\ m.start = iv[i].start
                                /\ \A n \in MailsOf(i) : n = m \/ n.seq < m.seq
    BY <1>1, <1>2, <1>4 DEF SaidIsSo
  <2>2. m \in Latest(i)
    BY <1>3, <2>1 DEF Latest
  <2>3. \A n \in Latest(i) : n = m
    BY <1>3, <2>1 DEF Latest
  <2>4. Latest(i) = {m}
    BY <2>2, <2>3
  <2> QED
    BY <2>1, <2>4, FS_Singleton
<1>5. ASSUME iv[i].status = "cancelled", NEW m \in Latest(i) PROVE m.op = "cancel"
  <2>1. m \in MailsOf(i) /\ \A n \in MailsOf(i) : n.seq <= m.seq
    BY DEF Latest
  <2>2. PICK c \in MailsOf(i) : /\ c.op = "cancel"
                                /\ \A n \in MailsOf(i) : n.op = "cancel" \/ n.seq < c.seq
    BY <1>1, <1>2, <1>5, <2>1 DEF SaidIsSo
  <2> QED
    BY <1>3, <2>1, <2>2
<1> QED
  BY <1>4, <1>5

\* Reschedules are always told apart, and the calendar of an interview that two
\* requests were never at, whose mails are all queued, says what the interview is.
THEOREM CalendarsAgree == Spec => []CalendarAgrees
<1>1. Spec => []CalendarIInv
  BY CalendarInit, CalendarNext, PTL DEF Spec
<1>2. CalendarIInv => CalendarAgrees
  BY SaidIsLatest DEF CalendarAgrees, CalendarIInv, IInv
<1> QED
  BY <1>1, <1>2, PTL

(***************************************************************************)
(* Invitations: mails, calendars and reminders.                            *)
(***************************************************************************)
\* Wherever a notice or a booking mail is made, it is made of these parts.
LEMMA InvitePlain ==
  /\ V!IsMail(V!Invite) /\ V!EventOf(V!Invite).method = "none"
  /\ V!Invite.application
<1>1. /\ V!EventOf(V!Invite) = V!NoCalendar
      /\ V!Invite.kwargs.to = "candidate" /\ V!Invite.application
      /\ V!Invite.kind = "interview_invite"
  BY DEF V!Invite, V!Row, V!InterviewKwargs, V!EventOf, V!MailOf, V!SendInterviewInvite, V!SendEmail
<1> QED
  BY <1>1 DEF V!IsMail, V!NoCalendar, V!Side

\* The two mails of a booked time hold it with its sequence.
LEMMA BookingsFit ==
  ASSUME NEW s \in Start, NEW n \in Nat, V!InvitationsConstants
  PROVE  /\ V!BookingMails(s, n) = <<V!BookingMails(s, n)[1], V!BookingMails(s, n)[2]>>
         /\ \A k \in {1, 2} :
              LET m == V!BookingMails(s, n)[k]
              IN  /\ V!IsMail(m) /\ m.application
                  /\ m.kwargs.to = IF k = 1 THEN "candidate" ELSE "interviewer"
                  /\ V!EventOf(m).method = "REQUEST"
                  /\ V!EventOf(m).sequence = n /\ V!EventOf(m).start = s
<1> DEFINE a == V!Row("interview_confirmed", TRUE,
                      V!InterviewKwargs("candidate", "booking_url", "token", s, n))
           b == V!Row("interview_scheduled", TRUE,
                      V!InterviewKwargs("interviewer", "applicant_url", "staff", s, n))
<1>1. V!BookingMails(s, n) = <<a, b>>
  BY DEF V!BookingMails
<1>2. /\ a.application /\ a.kind = "interview_confirmed" /\ a.kwargs.to = "candidate"
      /\ b.application /\ b.kind = "interview_scheduled" /\ b.kwargs.to = "interviewer"
  BY DEF V!Row, V!InterviewKwargs
<1>3. /\ a.kwargs.start = s /\ a.kwargs.sequence = n
      /\ b.kwargs.start = s /\ b.kwargs.sequence = n
  BY DEF V!Row, V!InterviewKwargs
<1> HIDE DEF a, b
<1>4. /\ V!EventOf(a).method = "REQUEST" /\ V!EventOf(a).sequence = n /\ V!EventOf(a).start = s
      /\ V!EventOf(b).method = "REQUEST" /\ V!EventOf(b).sequence = n /\ V!EventOf(b).start = s
  BY <1>2, <1>3
     DEF V!EventOf, V!MailOf, V!SendInterviewConfirmed, V!SendInterviewScheduled, V!SendEmail,
     V!CalendarPart
<1>5. V!IsMail(a) /\ V!IsMail(b)
  BY <1>2, <1>4 DEF V!IsMail, V!Side
<1> QED
  BY <1>1, <1>2, <1>4, <1>5

\* A notice to the interviewer calls the event off, one sequence higher.
LEMMA InterviewerNoticeFits ==
  ASSUME NEW seen \in V!Meeting, seen.start # 0, NEW linked \in BOOLEAN, V!InvitationsConstants
  PROVE  LET m == V!InterviewerNotice(seen, linked)
         IN  /\ V!IsMail(m) /\ m.application = linked /\ m.kwargs.to = "interviewer"
             /\ V!EventOf(m).method = "CANCEL" /\ V!EventOf(m).sequence = seen.seq + 1
<1> DEFINE k == V!InterviewKwargs("interviewer", "none", "none", V!Notice(seen).start,
                                  V!Notice(seen).sequence)
           j == [k EXCEPT !.candidate = "", !.candidate_email = ""]
           kw == IF linked THEN k ELSE j
           m == V!Row("interview_cancelled_interviewer", linked, kw)
<1>1. m = V!InterviewerNotice(seen, linked)
  BY DEF V!InterviewerNotice
<1>2. k.to = "interviewer" /\ k.start = seen.start /\ k.sequence = seen.seq + 1
  BY DEF V!InterviewKwargs, V!Notice
<1>3. j.to = "interviewer" /\ j.start = seen.start /\ j.sequence = seen.seq + 1
  BY DEF V!InterviewKwargs, V!Notice
<1> HIDE DEF k, j
<1>4. kw.to = "interviewer" /\ kw.start = seen.start /\ kw.sequence = seen.seq + 1
  BY <1>2, <1>3
<1> HIDE DEF kw
<1>5. m.kind = "interview_cancelled_interviewer" /\ m.application = linked /\ m.kwargs = kw
  BY DEF V!Row
<1> HIDE DEF m
<1>6. V!EventOf(m).method = "CANCEL" /\ V!EventOf(m).sequence = kw.sequence
      /\ V!EventOf(m).start = kw.start
  BY <1>5 DEF V!EventOf, V!MailOf, V!SendInterviewCancelledInterviewer, V!SendEmail, V!CalendarPart
<1>7. kw.start \in Start /\ kw.sequence \in Nat
  BY <1>4 DEF V!Meeting
<1>8. V!IsMail(m)
  BY <1>4, <1>5, <1>6, <1>7 DEF V!IsMail, V!Side
<1> QED
  BY <1>1, <1>4, <1>5, <1>6, <1>8

\* One to the candidate does if a time was booked.
LEMMA CandidateNoticeFits ==
  ASSUME NEW seen \in V!Meeting, V!InvitationsConstants
  PROVE  LET m == V!CandidateNotice(seen)
         IN  /\ V!IsMail(m) /\ m.application /\ m.kwargs.to = "candidate"
             /\ seen.start = 0 => V!EventOf(m).method = "none"
             /\ seen.start # 0 =>
                  V!EventOf(m).method = "CANCEL" /\ V!EventOf(m).sequence = seen.seq + 1
<1> DEFINE n == IF seen.start = 0 THEN 0 ELSE V!Notice(seen).sequence
           kw == V!InterviewKwargs("candidate", "none", "none", V!Notice(seen).start, n)
           m == V!Row("interview_cancelled", TRUE, kw)
<1>1. m = V!CandidateNotice(seen)
  BY DEF V!CandidateNotice
<1>2. seen.start # 0 => n = seen.seq + 1
  BY DEF V!Notice
<1> HIDE DEF n
<1>3. kw.to = "candidate" /\ kw.start = seen.start /\ kw.sequence = n
  BY DEF V!InterviewKwargs, V!Notice
<1> HIDE DEF kw
<1>4. m.kind = "interview_cancelled" /\ m.application /\ m.kwargs = kw
  BY DEF V!Row
<1> HIDE DEF m
<1>5. /\ kw.start = 0 => V!EventOf(m).method = "none"
      /\ kw.start # 0 => /\ V!EventOf(m).method = "CANCEL" /\ V!EventOf(m).sequence = kw.sequence
                         /\ V!EventOf(m).start = kw.start
  BY <1>4
     DEF V!EventOf, V!MailOf, V!SendInterviewCancelled, V!SendEmail, V!CalendarPart, V!NoCalendar
<1>6. kw.start # 0 => kw.start \in Start /\ kw.sequence \in Nat
  BY <1>2, <1>3 DEF V!Meeting
<1>7. V!IsMail(m)
  BY <1>3, <1>4, <1>5, <1>6 DEF V!IsMail, V!Side
<1> QED
  BY <1>1, <1>2, <1>3, <1>4, <1>5, <1>7

\* A reminder has no event.
LEMMA ReminderIsPlain ==
  ASSUME NEW side \in V!Side, NEW s
  PROVE  V!ReminderMail(side, s).calendar.method = "none"
BY
   DEF V!ReminderMail, V!SendInterviewReminder, V!SendInterviewReminderInterviewer, V!SendEmail,
       V!NoCalendar

\* What is queued of one mail, of two, and of none.
LEMMA QueuedIs ==
  ASSUME NEW a, NEW b
  PROVE  V!Queued(<<>>) = {} /\ V!Queued(<<a>>) = {a} /\ V!Queued(<<a, b>>) = {a, b}
BY DEF V!Queued

LEMMA Joined ==
  ASSUME NEW a, NEW b
  PROVE  /\ <<>> \o <<>> = <<>> /\ <<a>> \o <<>> = <<a>>
         /\ <<>> \o <<b>> = <<b>> /\ <<a>> \o <<b>> = <<a, b>>
<1>1. <<>> \o <<>> = <<>>
  OBVIOUS
<1>2. <<a>> \o <<>> = <<a>>
  OBVIOUS
<1>3. <<>> \o <<b>> = <<b>>
  OBVIOUS
<1>4. <<a>> \o <<b>> = <<a, b>>
  <2> DEFINE x == <<a>> \o <<b>>
  <2>1. PICK S : a \in S /\ b \in S
    <3>1. a \in {a, b} /\ b \in {a, b}
      OBVIOUS
    <3> QED
      BY <3>1
  <2>2. x \in Seq(S) /\ Len(x) = 2
    BY <2>1
  <2>3. x[1] = a /\ x[2] = b
    OBVIOUS
  <2> HIDE DEF x
  <2>4. DOMAIN x = 1 .. 2 /\ x = [k \in DOMAIN x |-> x[k]]
    BY <2>2
  <2>5. \A k \in 1 .. 2 : x[k] = <<a, b>>[k]
    BY <2>3
  <2>6. <<a, b>> = [k \in 1 .. 2 |-> <<a, b>>[k]]
    OBVIOUS
  <2>7. x = <<a, b>>
    BY <2>4, <2>5, <2>6
  <2> QED
    BY <2>7 DEF x
<1> QED
  BY <1>1, <1>2, <1>3, <1>4

\* The mails a change queues, each as IsTodo says.
LEMMA MailsAreTodo ==
  ASSUME NEW t, V!IsTask(t), t.pc = "commit", V!Asked(t), ~V!Refused(t), meeting \in V!Meeting,
         V!InvitationsConstants
  PROVE  V!MailsOf(t) = <<>> \/ V!IsTodo(V!MailsOf(t))
<1>0. t.seen \in V!Meeting
  BY DEF V!IsTask, V!TaskRecord
<1>1. CASE t.op = "create"
  BY <1>1, InvitePlain DEF V!MailsOf, V!IsTodo
<1>2. CASE t.op = "book"
  <2>1. t.want \in Start
    BY <1>2 DEF V!Asked
  <2>2. V!MailsOf(t) = V!BookingMails(t.want, 0)
    BY <1>2 DEF V!MailsOf
  <2> QED
    BY <2>1, <2>2, BookingsFit DEF V!IsTodo
<1>3. CASE t.op = "move"
  <2>1. t.want \in Start
    BY <1>3 DEF V!Asked
  <2>2. V!MailsOf(t) = V!BookingMails(t.want, meeting.seq + 1) /\ meeting.seq + 1 \in Nat
    BY <1>3 DEF V!MailsOf, V!Meeting
  <2> QED
    BY <2>1, <2>2, BookingsFit DEF V!IsTodo
<1>4. CASE t.op \in {"cancel", "withdraw"}
  <2> DEFINE c == V!CandidateNotice(t.seen)
             i == V!InterviewerNotice(t.seen, TRUE)
  <2>1. V!MailsOf(t) = V!CancelMails(t.op, t.seen)
    BY <1>4 DEF V!MailsOf
  <2>2. V!IsMail(c) /\ c.application
    BY <1>0, CandidateNoticeFits
  <2>3. V!TimeBooked(t.seen) => V!IsMail(i) /\ i.application
    BY <1>0, InterviewerNoticeFits DEF V!TimeBooked
  <2>4. V!MailsOf(t) = (IF t.op = "cancel" THEN <<c>> ELSE <<>>)
                       \o (IF V!TimeBooked(t.seen) THEN <<i>> ELSE <<>>)
    BY <2>1 DEF V!CancelMails
  <2> HIDE DEF c, i
  <2>5. CASE V!TimeBooked(t.seen)
    <3>1. V!MailsOf(t) = <<c, i>> \/ V!MailsOf(t) = <<i>>
      BY <2>4, <2>5, Joined
    <3> QED
      BY <2>2, <2>3, <2>5, <3>1 DEF V!IsTodo
  <2>6. CASE ~V!TimeBooked(t.seen)
    <3>1. V!MailsOf(t) = <<c>> \/ V!MailsOf(t) = <<>>
      BY <2>4, <2>6, Joined
    <3> QED
      BY <2>2, <3>1 DEF V!IsTodo
  <2> QED
    BY <2>5, <2>6
<1>5. CASE t.op = "erase"
  <2>1. V!MailsOf(t) = V!EraseMails(t.seen)
    BY <1>5 DEF V!MailsOf
  <2>2. t.seen.status = "booked" => V!IsMail(V!InterviewerNotice(t.seen, FALSE))
    BY <1>0, <1>5, InterviewerNoticeFits DEF V!Meeting
  <2> DEFINE n == V!InterviewerNotice(t.seen, FALSE)
  <2>3. \/ V!MailsOf(t) = <<>>
        \/ t.seen.status = "booked" /\ V!MailsOf(t) = <<n>>
    BY <2>1 DEF V!EraseMails
  <2>4. t.seen.status = "booked" => V!IsMail(n)
    BY <2>2
  <2> HIDE DEF n
  <2> QED
    BY <2>3, <2>4 DEF V!IsTodo
<1> QED
  BY <1>1, <1>2, <1>3, <1>4, <1>5 DEF V!Asked

\* What a request remembers, as it is changed field by field.
Begun(a, b, c, d) == [V!Resting EXCEPT !.pc = a, !.op = b, !.seen = c, !.want = d]
Waiting(t) == [t EXCEPT !.pc = "commit", !.queued = TRUE]
Unreminded(t) == [t EXCEPT !.pc = "commit"]
Mailing(t, a) == [t EXCEPT !.pc = "mail", !.todo = a]
Shorter(t, a) == [t EXCEPT !.todo = a]
Overtaken(t) == [t EXCEPT !.over = TRUE]

LEMMA RestingIs ==
  ASSUME V!InvitationsConstants
  PROVE  /\ V!IsTask(V!Resting)
         /\ V!Resting.pc = "idle" /\ V!Resting.todo = <<>> /\ ~V!Resting.over
<1>1. V!Nothing \in V!Meeting
  BY DEF V!Nothing, V!Meeting
<1>2. V!Resting.pc = "idle" /\ V!Resting.todo = <<>> /\ ~V!Resting.over
  BY DEF V!Resting
<1>3. V!Resting \in V!TaskRecord(<<>>)
  BY <1>1 DEF V!Resting, V!TaskRecord
<1> QED
  BY <1>2, <1>3 DEF V!IsTask

LEMMA BegunIs ==
  ASSUME V!InvitationsConstants, NEW a \in {"remind", "commit"},
         NEW b \in {"create", "book", "move", "cancel", "withdraw", "erase"},
         NEW c \in V!Meeting, NEW d \in Start \cup {0}, NEW t, t = Begun(a, b, c, d)
  PROVE  /\ t \in V!TaskRecord(<<>>)
         /\ t.pc = a /\ t.op = b /\ t.seen = c /\ t.want = d /\ ~t.over /\ t.todo = <<>>
<1>1. V!Resting \in [pc : {"idle"}, op : {"none"}, seen : {V!Nothing}, want : {0},
                     over : {FALSE}, queued : BOOLEAN, todo : {<<>>}]
  BY DEF V!Resting
<1>2. /\ t \in [pc : {"idle", a}, op : {"none", b}, seen : {V!Nothing, c}, want : {0, d},
               over : {FALSE}, queued : BOOLEAN, todo : {<<>>}]
      /\ t.pc = a /\ t.op = b /\ t.seen = c /\ t.want = d
  BY <1>1 DEF Begun
<1>3. t.over = FALSE /\ t.todo = <<>>
  BY <1>2
<1>4. t \in V!TaskRecord(<<>>)
  <2>1. V!Nothing \in V!Meeting
    BY RestingIs DEF V!Nothing, V!Meeting
  <2> QED
    BY <1>2, <2>1 DEF V!TaskRecord
<1> QED
  BY <1>2, <1>3, <1>4

LEMMA WaitingIs ==
  ASSUME NEW todo, NEW t \in V!TaskRecord(todo), NEW n, n = Waiting(t)
  PROVE  /\ n \in V!TaskRecord(todo) /\ n.pc = "commit" /\ n.op = t.op /\ n.seen = t.seen
         /\ n.want = t.want /\ n.over = t.over /\ n.todo = todo
BY DEF Waiting, V!TaskRecord

LEMMA UnremindedIs ==
  ASSUME NEW todo, NEW t \in V!TaskRecord(todo), NEW n, n = Unreminded(t)
  PROVE  /\ n \in V!TaskRecord(todo) /\ n.pc = "commit" /\ n.op = t.op /\ n.seen = t.seen
         /\ n.want = t.want /\ n.over = t.over /\ n.todo = todo
BY DEF Unreminded, V!TaskRecord

LEMMA MailingIs ==
  ASSUME NEW todo, NEW t \in V!TaskRecord(todo), NEW a, NEW n, n = Mailing(t, a)
  PROVE  n \in V!TaskRecord(a) /\ n.pc = "mail" /\ n.todo = a
BY DEF Mailing, V!TaskRecord

LEMMA ShorterIs ==
  ASSUME NEW todo, NEW t \in V!TaskRecord(todo), NEW a, NEW n, n = Shorter(t, a)
  PROVE  n \in V!TaskRecord(a) /\ n.pc = t.pc /\ n.todo = a
BY DEF Shorter, V!TaskRecord

LEMMA OvertakenIs ==
  ASSUME NEW todo, NEW t \in V!TaskRecord(todo), NEW n, n = Overtaken(t)
  PROVE  /\ n \in V!TaskRecord(todo) /\ n.pc = t.pc /\ n.op = t.op /\ n.seen = t.seen
         /\ n.want = t.want /\ n.over /\ n.todo = todo
BY DEF Overtaken, V!TaskRecord

\* A request that is not at rest is before its change, or has mails to queue.
LEMMA TaskCases ==
  ASSUME NEW t, V!IsTask(t), V!InvitationsConstants
  PROVE  /\ t.pc \in {"idle", "remind", "commit", "mail"}
         /\ t.pc = "idle" <=> t = V!Resting
         /\ t.pc # "mail" => t.todo = <<>>
         /\ t.pc = "mail" <=> t.todo # <<>>
<1>1. ~V!IsTodo(<<>>)
  <2>1. \A a, b : <<>> # <<a>> /\ <<>> # <<a, b>>
    OBVIOUS
  <2> QED
    BY <2>1 DEF V!IsTodo
<1> QED
  BY <1>1, RestingIs DEF V!IsTask

LEMMA PartsAre ==
  ASSUME NEW a, NEW b
  PROVE  /\ Head(<<a>>) = a /\ Tail(<<a>>) = <<>>
         /\ Head(<<a, b>>) = a /\ Tail(<<a, b>>) = <<b>>
OBVIOUS

\* Queuing a mail leaves a shorter todo, and loses nothing.
LEMMA TodoIs ==
  ASSUME NEW todo, V!IsTodo(todo)
  PROVE  /\ Head(todo) \in V!Queued(todo)
         /\ V!Queued(todo) = {Head(todo)} \cup V!Queued(Tail(todo))
         /\ \A m \in V!Queued(todo) : V!IsMail(m)
         /\ Tail(todo) = <<>> \/ V!IsTodo(Tail(todo))
         /\ Head(todo).application => \A m \in V!Queued(todo) : m.application
<1>1. CASE todo = <<todo[1]>> /\ V!IsMail(todo[1])
  <2>1. PICK a : a = todo[1]
    OBVIOUS
  <2>2. todo = <<a>> /\ V!IsMail(a)
    BY <1>1, <2>1
  <2>3. Head(todo) = a /\ Tail(todo) = <<>>
    BY <2>2, PartsAre
  <2>4. V!Queued(todo) = {a} /\ V!Queued(Tail(todo)) = {}
    BY <2>2, <2>3, QueuedIs
  <2> QED
    BY <2>2, <2>3, <2>4
<1>2. CASE /\ todo = <<todo[1], todo[2]>> /\ V!IsMail(todo[1]) /\ V!IsMail(todo[2])
           /\ todo[1].application /\ todo[2].application
  <2>1. PICK a, b : a = todo[1] /\ b = todo[2]
    OBVIOUS
  <2>2. todo = <<a, b>>
    BY <1>2, <2>1
  <2>3. Head(todo) = a /\ Tail(todo) = <<b>>
    BY <2>2, PartsAre
  <2>4. V!IsMail(a) /\ V!IsMail(b) /\ a.application /\ b.application
    BY <1>2, <2>1
  <2>5. V!IsTodo(<<b>>)
    BY <2>4 DEF V!IsTodo
  <2>6. V!Queued(todo) = {a, b} /\ V!Queued(Tail(todo)) = {b}
    BY <2>2, <2>3, QueuedIs
  <2> QED
    BY <2>3, <2>4, <2>5, <2>6
<1> QED
  BY <1>1, <1>2 DEF V!IsTodo

\* The mails that are on their way, one by one.
LEMMA ComingIs ==
  ASSUME NEW m
  PROVE  m \in V!Coming <=> \/ m \in outbox
                            \/ \E p \in Proc : m \in V!Queued(task[p].todo)
BY DEF V!Coming

LEMMA ComingIsMail ==
  ASSUME V!InvitationsTypeOK, NEW m \in V!Coming, V!InvitationsConstants
  PROVE  V!IsMail(m)
<1>1. CASE m \in outbox
  BY <1>1 DEF V!InvitationsTypeOK
<1>2. CASE \E p \in Proc : m \in V!Queued(task[p].todo)
  <2>1. PICK p \in Proc : m \in V!Queued(task[p].todo)
    BY <1>2
  <2>2. V!IsTask(task[p])
    BY DEF V!InvitationsTypeOK
  <2>3. task[p].todo # <<>>
    BY <2>1, QueuedIs
  <2>4. V!IsTodo(task[p].todo)
    BY <2>2, <2>3, TaskCases, RestingIs DEF V!IsTask
  <2> QED
    BY <2>1, <2>4, TodoIs
<1> QED
  BY <1>1, <1>2, ComingIs

LEMMA ComingNext ==
  ASSUME NEW m
  PROVE  m \in V!Coming' <=> \/ m \in outbox'
                             \/ \E p \in Proc : m \in V!Queued(task'[p].todo)
BY DEF V!Coming, V!Queued

LEMMA ComingStays ==
  ASSUME outbox' = outbox, \A p \in Proc : task'[p].todo = task[p].todo
  PROVE  V!Coming' = V!Coming
<1>1. \A m : m \in V!Coming' <=> m \in V!Coming
  BY ComingIs, ComingNext
<1> QED
  BY <1>1

\* One request goes on, the others stay.
LEMMA OneGoesOn ==
  ASSUME V!InvitationsTypeOK, NEW p \in Proc, NEW t, V!Goto(p, t)
  PROVE  /\ task' = [q \in Proc |-> IF q = p THEN t ELSE task[q]]
         /\ \A q \in Proc : task'[q] = IF q = p THEN t ELSE task[q]
<1>1. DOMAIN task = Proc /\ task' = [task EXCEPT ![p] = t]
  BY DEF V!InvitationsTypeOK, V!Goto
<1> QED
  BY <1>1

\* What happens to the calendars as long as the interview is left alone: a mail
\* may be gone only if the side it was for is known to miss one, or the mail does
\* not matter any more.
LEMMA CalendarsKeep ==
  ASSUME V!InvitationsTypeOK, V!InvitationsConstants, V!CalendarsFit,
         meeting' = meeting, ended' = ended, calendar' = calendar, overlapped' = overlapped,
         now' \in Nat, now <= now',
         V!Coming' \subseteq V!Coming, lost \subseteq lost',
         \A m \in V!Coming \ V!Coming' :
           \/ V!EventOf(m).method = "none"
           \/ m.kwargs.to \in lost'
           \/ meeting.status # "booked" /\ V!EventOf(m).method = "REQUEST"
           \/ meeting.status = "erased" /\ m.kwargs.to = "candidate"
  PROVE  V!CalendarsFit'
<1> SUFFICES ASSUME ~overlapped
             PROVE  /\ V!TimesFit'
                    /\ \A m \in V!Coming' : V!MailFits(V!EventOf(m))'
                    /\ \A side \in V!Side : V!EntryFits(calendar[side])' /\ V!LastIsComing(side)'
  BY DEF V!CalendarsFit
<1>1. V!TimesFit'
  BY DEF V!CalendarsFit, V!TimesFit
<1>2. ASSUME NEW m \in V!Coming'
      PROVE  V!MailFits(V!EventOf(m))'
  BY DEF V!CalendarsFit, V!MailFits
<1>3. ASSUME NEW side \in V!Side
      PROVE  V!EntryFits(calendar[side])'
  BY DEF V!CalendarsFit, V!EntryFits
<1>4. ASSUME NEW side \in V!Side
      PROVE  V!LastIsComing(side)'
  <2> SUFFICES ASSUME side \notin lost'
               PROVE  /\ meeting.status = "booked" =>
                                \/ calendar[side].seq = meeting.seq
                                \/ \E m \in V!Coming' : /\ m.kwargs.to = side
                                                        /\ V!EventOf(m).method = "REQUEST"
                                                        /\ V!EventOf(m).sequence = meeting.seq
                      /\ V!CalledOff(side)' =>
                           \/ calendar[side].seq = meeting.seq + 1
                           \/ \E m \in V!Coming' : m.kwargs.to = side /\ V!EventOf(m).method = "CANCEL"
    BY DEF V!LastIsComing
  <2>1. V!LastIsComing(side) /\ side \notin lost
    BY DEF V!CalendarsFit
  <2>2. V!CalledOff(side)' => V!CalledOff(side)
    <3>1. now \in Nat /\ meeting.start \in Nat
      BY DEF V!InvitationsTypeOK, V!Meeting, V!InvitationsConstants
    <3> QED
      BY <3>1 DEF V!CalledOff
  <2>3. ASSUME meeting.status = "booked", NEW m \in V!Coming, m.kwargs.to = side,
               V!EventOf(m).method = "REQUEST"
        PROVE  m \in V!Coming'
    BY <2>3
  <2>4. ASSUME V!CalledOff(side), NEW m \in V!Coming, m.kwargs.to = side,
               V!EventOf(m).method = "CANCEL"
        PROVE  m \in V!Coming'
    BY <2>4 DEF V!CalledOff
  <2> QED
    BY <2>1, <2>2, <2>3, <2>4 DEF V!LastIsComing
<1> QED
  BY <1>1, <1>2, <1>3, <1>4

\* A mail arrives, and the calendar keeps the event that is ahead.
LEMMA CalendarsReceive ==
  ASSUME V!InvitationsTypeOK, V!InvitationsConstants, V!CalendarsFit,
         NEW m \in V!Coming, NEW side \in V!Side, m.kwargs.to = side,
         calendar' = [calendar EXCEPT ![side] = V!Received(calendar[side], V!EventOf(m))],
         meeting' = meeting, ended' = ended, overlapped' = overlapped, now' = now, lost' = lost,
         V!Coming' \subseteq V!Coming, \A x \in V!Coming \ V!Coming' : x = m
  PROVE  V!CalendarsFit'
<1> SUFFICES ASSUME ~overlapped
             PROVE  /\ V!TimesFit'
                    /\ \A x \in V!Coming' : V!MailFits(V!EventOf(x))'
                    /\ \A s \in V!Side : V!EntryFits(calendar[s])' /\ V!LastIsComing(s)'
  BY DEF V!CalendarsFit
<1> DEFINE e == V!EventOf(m)
           c == calendar[side]
           d == V!Received(c, e)
<1>1. V!TimesFit'
  BY DEF V!CalendarsFit, V!TimesFit
<1>2. ASSUME NEW x \in V!Coming'
      PROVE  V!MailFits(V!EventOf(x))'
  BY DEF V!CalendarsFit, V!MailFits
<1>3. /\ V!MailFits(e) /\ V!EntryFits(c) /\ V!LastIsComing(side)
      /\ c \in V!CalendarEntry
      /\ e.method \in {"none", "REQUEST", "CANCEL"}
      /\ e.method # "none" => e.sequence \in Nat
      /\ meeting.seq \in Nat
  BY ComingIsMail DEF V!CalendarsFit, V!InvitationsTypeOK, V!IsMail, V!Meeting
<1>4. /\ calendar'[side] = d
      /\ \A s \in V!Side : s # side => calendar'[s] = calendar[s]
  BY DEF V!InvitationsTypeOK
<1>5. \/ d = c /\ (e.method = "none" \/ e.sequence < c.seq)
      \/ /\ e.method # "none" /\ e.sequence >= c.seq
         /\ d.seq = e.sequence /\ d.start = e.start /\ d.there = (e.method # "CANCEL")
  BY <1>3 DEF V!Received, V!CalendarEntry
<1> HIDE DEF d, c, e
<1>6. V!NoEvent.seq = -1
  BY DEF V!NoEvent
<1>7. V!EntryFits(d)
  BY <1>3, <1>5 DEF V!EntryFits, V!MailFits
<1>8. /\ meeting.status = "booked" /\ (c.seq = meeting.seq \/ (e.method = "REQUEST" /\ e.sequence = meeting.seq))
                => d.seq = meeting.seq
      /\ c.seq = meeting.seq + 1 \/ e.method = "CANCEL" => d.seq = meeting.seq + 1
  BY <1>3, <1>5, <1>6 DEF V!EntryFits, V!MailFits, V!CalendarEntry
<1>9. V!LastIsComing(side)'
  <2> SUFFICES ASSUME side \notin lost
               PROVE  /\ meeting.status = "booked" =>
                                \/ d.seq = meeting.seq
                                \/ \E x \in V!Coming' : /\ x.kwargs.to = side
                                                        /\ V!EventOf(x).method = "REQUEST"
                                                        /\ V!EventOf(x).sequence = meeting.seq
                      /\ V!CalledOff(side) =>
                           \/ d.seq = meeting.seq + 1
                           \/ \E x \in V!Coming' : x.kwargs.to = side /\ V!EventOf(x).method = "CANCEL"
    BY <1>4 DEF V!LastIsComing, V!CalledOff
  <2>1. ASSUME meeting.status = "booked"
        PROVE  \/ d.seq = meeting.seq
               \/ \E x \in V!Coming' : /\ x.kwargs.to = side
                                       /\ V!EventOf(x).method = "REQUEST"
                                       /\ V!EventOf(x).sequence = meeting.seq
    BY <1>3, <1>8, <2>1 DEF V!LastIsComing, e, c
  <2>2. ASSUME V!CalledOff(side)
        PROVE  \/ d.seq = meeting.seq + 1
               \/ \E x \in V!Coming' : x.kwargs.to = side /\ V!EventOf(x).method = "CANCEL"
    BY <1>3, <1>8, <2>2 DEF V!LastIsComing, e, c
  <2> QED
    BY <2>1, <2>2
<1>10. ASSUME NEW s \in V!Side, s # side
       PROVE  V!EntryFits(calendar[s])' /\ V!LastIsComing(s)'
  <2>1. V!EntryFits(calendar[s]) /\ V!LastIsComing(s)
    BY DEF V!CalendarsFit
  <2>2. calendar'[s] = calendar[s]
    BY <1>4, <1>10
  <2>3. \A x \in V!Coming : x.kwargs.to = s => x \in V!Coming'
    BY <1>10
  <2>4. V!EntryFits(calendar[s])'
    BY <2>1, <2>2 DEF V!EntryFits
  <2>5. V!LastIsComing(s)'
    BY <2>1, <2>2, <2>3 DEF V!LastIsComing, V!CalledOff
  <2> QED
    BY <2>4, <2>5
<1>11. V!EntryFits(calendar[side])'
  BY <1>4, <1>7 DEF V!EntryFits
<1> QED
  BY <1>1, <1>2, <1>9, <1>10, <1>11

\* A request begins, or its reminder is queued: nothing is on its way by that.
LEMMA BeginTypes ==
  ASSUME V!InvitationsTypeOK, V!InvitationsConstants, NEW p \in Proc, NEW op, NEW want \in Start \cup {0},
         V!Begin(p, op, want),
         \/ op = "create"
         \/ op = "book" /\ meeting.status = "pending" /\ want \in Start
         \/ op = "move" /\ meeting.status = "booked" /\ want \in Start
         \/ op \in {"cancel", "withdraw"} /\ meeting.status \in {"pending", "booked"}
         \/ op = "erase" /\ meeting.status # "none"
  PROVE  /\ V!InvitationsTypeOK'
         /\ \A q \in Proc : task'[q].todo = task[q].todo
         /\ \A q \in Proc : q # p => task'[q] = task[q]
         /\ task'[p].seen = meeting /\ ~task'[p].over
         /\ task'[p].op \in {"book", "move"} => task'[p].pc = "remind"
<1> DEFINE pc == IF op \in {"book", "move"} THEN "remind" ELSE "commit"
           t == Begun(pc, op, meeting, want)
<1>1. V!Goto(p, t)
  BY DEF V!Begin, Begun
<1>2. pc \in {"remind", "commit"} /\ meeting \in V!Meeting
  BY DEF V!InvitationsTypeOK
<1> HIDE DEF pc, t
<1>3. /\ t \in V!TaskRecord(<<>>)
      /\ t.pc = pc /\ t.op = op /\ t.seen = meeting /\ t.want = want /\ ~t.over /\ t.todo = <<>>
  BY <1>2, BegunIs DEF t
<1>4. V!IsTask(t)
  <2>1. t.pc \in {"remind", "commit"} /\ V!Asked(t)
    BY <1>2, <1>3 DEF V!Asked, pc
  <2> QED
    BY <1>3, <2>1 DEF V!IsTask
<1>5. /\ task' = [q \in Proc |-> IF q = p THEN t ELSE task[q]]
      /\ \A q \in Proc : task'[q] = IF q = p THEN t ELSE task[q]
  BY <1>1, OneGoesOn
<1>6. task[p].todo = <<>>
  BY RestingIs DEF V!Begin
<1>7. V!InvitationsTypeOK'
  BY <1>4, <1>5 DEF V!InvitationsTypeOK, V!Begin, V!reminding, V!past
<1> QED
  BY <1>3, <1>5, <1>6, <1>7 DEF pc

LEMMA BeginKeeps ==
  ASSUME V!InvitationsIInv, V!InvitationsConstants, NEW p \in Proc, NEW op, NEW want \in Start \cup {0},
         V!Begin(p, op, want),
         \/ op = "create"
         \/ op = "book" /\ meeting.status = "pending" /\ want \in Start
         \/ op = "move" /\ meeting.status = "booked" /\ want \in Start
         \/ op \in {"cancel", "withdraw"} /\ meeting.status \in {"pending", "booked"}
         \/ op = "erase" /\ meeting.status # "none"
  PROVE  V!InvitationsIInv'
<1> USE DEF V!InvitationsIInv
<1>1. /\ V!InvitationsTypeOK'
      /\ \A q \in Proc : task'[q].todo = task[q].todo
      /\ \A q \in Proc : q # p => task'[q] = task[q]
      /\ task'[p].seen = meeting /\ ~task'[p].over
      /\ task'[p].op \in {"book", "move"} => task'[p].pc = "remind"
  BY BeginTypes
<1>2. UNCHANGED <<now, meeting, outbox, calendar, jobs, job, reminded, arranged, ended, lost, overlapped>>
  BY DEF V!Begin, V!reminding, V!past
<1>3. V!Coming' = V!Coming
  BY <1>1, <1>2, ComingStays
<1>4. V!LoadedIsThere'
  BY <1>1, <1>2 DEF V!LoadedIsThere
<1>5. V!CalendarsFit'
  BY <1>2, <1>3, CalendarsKeep DEF V!InvitationsTypeOK
<1>6. V!ReminderWaits'
  BY <1>1, <1>2 DEF V!ReminderWaits, V!RemindersFit
<1>7. V!RemindersFit'
  BY <1>2, <1>6 DEF V!RemindersFit, V!RemindersHold, V!RemindedOnce
<1> QED
  BY <1>1, <1>4, <1>5, <1>7

LEMMA QueueReminderTypes ==
  ASSUME V!InvitationsTypeOK, V!InvitationsConstants, NEW p \in Proc, V!QueueReminder(p)
  PROVE  /\ V!InvitationsTypeOK'
         /\ \A q \in Proc : task'[q].todo = task[q].todo
         /\ \A q \in Proc : q # p => task'[q] = task[q]
         /\ \/ task'[p] = V!Resting
            \/ /\ task'[p].pc = "commit" /\ task'[p].seen = task[p].seen
               /\ task'[p].want = task[p].want /\ task'[p].over = task[p].over
               /\ task[p].want \in Start
<1> DEFINE t == task[p]
<1>1. t \in V!TaskRecord(<<>>) /\ t.pc = "remind" /\ t.todo = <<>> /\ V!Asked(t)
  <2>1. V!IsTask(t) /\ t.pc = "remind"
    BY DEF V!InvitationsTypeOK, V!QueueReminder
  <2> QED
    BY <2>1, RestingIs DEF V!IsTask
<1>2. \E n : V!Goto(p, n) /\ (n = V!Resting \/ n = Waiting(t) \/ n = Unreminded(t))
  BY DEF V!QueueReminder, Waiting, Unreminded
<1>3. PICK n : V!Goto(p, n) /\ (n = V!Resting \/ n = Waiting(t) \/ n = Unreminded(t))
  BY <1>2
<1>4. /\ task' = [q \in Proc |-> IF q = p THEN n ELSE task[q]]
      /\ \A q \in Proc : task'[q] = IF q = p THEN n ELSE task[q]
  BY <1>3, OneGoesOn
<1>5. \/ n = V!Resting
      \/ /\ n \in V!TaskRecord(<<>>) /\ n.pc = "commit" /\ n.op = t.op /\ n.seen = t.seen
         /\ n.want = t.want /\ n.over = t.over /\ n.todo = <<>>
  BY <1>1, <1>3, WaitingIs, UnremindedIs
<1>6. V!IsTask(n) /\ n.todo = <<>> /\ (n = V!Resting \/ n.want \in Start)
  <2>1. CASE n = V!Resting
    BY <2>1, RestingIs
  <2>2. CASE n # V!Resting
    <3>1. V!Asked(n) /\ n.want \in Start
      BY <1>1, <1>5, <2>2 DEF V!Asked
    <3> QED
      BY <1>5, <2>2, <3>1 DEF V!IsTask
  <2> QED
    BY <2>1, <2>2
<1>7. jobs' \subseteq Start
  <2>1. t.want \in Start
    BY <1>1 DEF V!Asked
  <2> QED
    BY <2>1 DEF V!QueueReminder, V!Enqueued, V!InvitationsTypeOK
<1>8. V!InvitationsTypeOK'
  BY <1>4, <1>6, <1>7 DEF V!InvitationsTypeOK, V!QueueReminder
<1> QED
  BY <1>1, <1>4, <1>5, <1>6, <1>8

LEMMA QueueReminderKeeps ==
  ASSUME V!InvitationsIInv, V!InvitationsConstants, NEW p \in Proc, V!QueueReminder(p)
  PROVE  V!InvitationsIInv'
<1> USE DEF V!InvitationsIInv
<1>1. /\ V!InvitationsTypeOK'
      /\ \A q \in Proc : task'[q].todo = task[q].todo
      /\ \A q \in Proc : q # p => task'[q] = task[q]
      /\ \/ task'[p] = V!Resting
         \/ /\ task'[p].pc = "commit" /\ task'[p].seen = task[p].seen
            /\ task'[p].want = task[p].want /\ task'[p].over = task[p].over
            /\ task[p].want \in Start
  BY QueueReminderTypes
<1>2. /\ UNCHANGED <<now, meeting, outbox, calendar, job, reminded, arranged, ended, overlapped>>
      /\ lost \subseteq lost' /\ jobs \subseteq jobs'
      /\ "rerun" \in lost' => "rerun" \in lost
      /\ \A s \in jobs' : s \in jobs \/ s - DAY > now
      /\ task'[p].pc = "commit" /\ "reminder" \notin lost' =>
           (task'[p].want - DAY > now => task'[p].want \in jobs')
  <2>1. \/ jobs' = jobs
        \/ jobs' = jobs \cup {task[p].want} /\ task[p].want - DAY > now
    BY DEF V!QueueReminder, V!Enqueued
  <2>2. lost' = lost \/ lost' = lost \cup {"reminder"}
    BY DEF V!QueueReminder
  <2>3. task'[p].pc = "commit" /\ "reminder" \notin lost' =>
           (task'[p].want - DAY > now => task'[p].want \in jobs')
    <3>1. CASE task'[p] = V!Resting
      BY <3>1, RestingIs
    <3>2. CASE task'[p] # V!Resting
      <4>1. V!Goto(p, V!Resting) => task'[p] = V!Resting
        BY OneGoesOn
      <4> QED
        BY <1>1, <3>2, <4>1 DEF V!QueueReminder, V!Enqueued
    <3> QED
      BY <3>1, <3>2
  <2> QED
    BY <2>1, <2>2, <2>3 DEF V!QueueReminder
<1>3. V!Coming' = V!Coming
  BY <1>1, <1>2, ComingStays
<1>4. V!LoadedIsThere'
  <2>1. task[p].pc = "remind"
    BY DEF V!QueueReminder
  <2> QED
    BY <1>1, <1>2, <2>1, RestingIs DEF V!LoadedIsThere
<1>5. V!CalendarsFit'
  BY <1>1, <1>2, <1>3, CalendarsKeep DEF V!InvitationsTypeOK
<1>6. V!ReminderWaits'
  BY <1>1, <1>2 DEF V!ReminderWaits, V!RemindersFit
<1>7. V!RemindersHold'
  BY <1>2 DEF V!RemindersHold, V!RemindersFit
<1>8. "rerun" \notin lost' => \A side \in V!Side, s \in Start : V!RemindedOnce(side, s)'
  <2> SUFFICES ASSUME "rerun" \notin lost', NEW side \in V!Side, NEW s \in Start
               PROVE  V!RemindedOnce(side, s)'
    OBVIOUS
  <2>1. V!RemindedOnce(side, s)
    BY <1>2 DEF V!RemindersFit
  <2>2. s \in jobs' /\ s \notin jobs => s - DAY > now
    BY <1>2
  <2>3. /\ now \in Nat /\ s \in Nat /\ DAY \in Nat /\ reminded[side][s] \in Nat
    BY DEF V!InvitationsTypeOK, V!InvitationsConstants
  <2>4. job # V!NoJob => now >= job.start - DAY
    BY DEF V!ReminderWaits, V!RemindersFit
  <2>5. V!NoJob.start \notin Start
    BY DEF V!NoJob, V!InvitationsConstants
  <2> QED
    BY <1>2, <2>1, <2>2, <2>3, <2>4, <2>5 DEF V!RemindedOnce
<1> QED
  BY <1>1, <1>4, <1>5, <1>6, <1>7, <1>8 DEF V!RemindersFit

LEMMA AbortTypes ==
  ASSUME V!InvitationsTypeOK, V!InvitationsConstants, NEW p \in Proc, V!Abort(p)
  PROVE  /\ V!InvitationsTypeOK'
         /\ task'[p] = V!Resting /\ \A q \in Proc : q # p => task'[q] = task[q]
         /\ \A m \in V!Coming' : m \in V!Coming
         /\ \A m \in V!Coming : m \in V!Coming' \/ m.kwargs.to \in lost'
<1>1. /\ task' = [q \in Proc |-> IF q = p THEN V!Resting ELSE task[q]]
      /\ \A q \in Proc : task'[q] = IF q = p THEN V!Resting ELSE task[q]
  BY OneGoesOn DEF V!Abort
<1>2. V!InvitationsTypeOK'
  BY <1>1, RestingIs DEF V!InvitationsTypeOK, V!Abort, V!reminding
<1>3. outbox' = outbox
  BY DEF V!Abort
<1>4. V!Queued(V!Resting.todo) = {}
  BY RestingIs, QueuedIs
<1>5. \A m \in V!Queued(task[p].todo) : m.kwargs.to \in lost'
  BY DEF V!Abort, V!Queued
<1> QED
  BY <1>1, <1>2, <1>3, <1>4, <1>5, ComingIs, ComingNext

LEMMA AbortedKeeps ==
  ASSUME V!InvitationsIInv, V!InvitationsConstants, NEW p \in Proc, V!Abort(p)
  PROVE  V!InvitationsIInv'
<1> USE DEF V!InvitationsIInv
<1>1. /\ V!InvitationsTypeOK'
      /\ task'[p] = V!Resting /\ \A q \in Proc : q # p => task'[q] = task[q]
      /\ \A m \in V!Coming' : m \in V!Coming
      /\ \A m \in V!Coming : m \in V!Coming' \/ m.kwargs.to \in lost'
  BY AbortTypes
<1>2. /\ UNCHANGED <<now, meeting, outbox, calendar, jobs, job, reminded, arranged, ended, overlapped>>
      /\ lost \subseteq lost'
  BY DEF V!Abort, V!reminding
<1>3. "rerun" \in lost' => "rerun" \in lost
  <2>1. V!IsTask(task[p])
    BY DEF V!InvitationsTypeOK
  <2>2. \A m \in V!Queued(task[p].todo) : V!IsMail(m)
    BY <2>1, TaskCases, TodoIs, QueuedIs, RestingIs DEF V!IsTask
  <2>3. \A m \in V!Queued(task[p].todo) : m.kwargs.to # "rerun"
    BY <2>2 DEF V!IsMail, V!Side
  <2> QED
    BY <2>3 DEF V!Abort, V!Queued
<1>4. V!LoadedIsThere'
  BY <1>1, <1>2, RestingIs DEF V!LoadedIsThere
<1>5. V!CalendarsFit'
  BY <1>1, <1>2, CalendarsKeep DEF V!InvitationsTypeOK
<1>6. V!ReminderWaits'
  BY <1>1, <1>2, RestingIs DEF V!ReminderWaits, V!RemindersFit
<1>7. V!RemindersHold'
  BY <1>2 DEF V!RemindersHold, V!RemindersFit
<1>8. V!RemindersFit'
  BY <1>2, <1>3, <1>6, <1>7 DEF V!RemindersFit, V!RemindedOnce
<1> QED
  BY <1>1, <1>4, <1>5, <1>8

LEMMA NoticeLostIs ==
  ASSUME NEW S, V!NoticeLost(S)
  PROVE  /\ lost \subseteq lost' /\ lost' \subseteq lost \cup {"interviewer"}
         /\ \A m \in S : m.application /\ m.kind = "interview_cancelled_interviewer" =>
              "interviewer" \in lost'
BY DEF V!NoticeLost

\* What the reminders need, when neither they nor the booked time change.
LEMMA RemindersKeep ==
  ASSUME V!InvitationsTypeOK, V!RemindersFit,
         UNCHANGED <<now, meeting, jobs, job, reminded, arranged, overlapped>>,
         lost \subseteq lost', "rerun" \in lost' => "rerun" \in lost,
         \A p \in Proc : task'[p].pc = "commit" => task'[p] = task[p]
  PROVE  V!RemindersFit'
<1>1. V!ReminderWaits'
  BY DEF V!ReminderWaits, V!RemindersFit
<1>2. V!RemindersHold'
  BY DEF V!RemindersHold, V!RemindersFit
<1> QED
  BY <1>1, <1>2 DEF V!RemindersFit, V!RemindedOnce

LEMMA QueueMailTypes ==
  ASSUME V!InvitationsTypeOK, V!InvitationsConstants, NEW p \in Proc, V!QueueMail(p)
  PROVE  /\ V!InvitationsTypeOK'
         /\ task'[p] = V!Resting \/ task'[p].pc = "mail"
         /\ \A q \in Proc : q # p => task'[q] = task[q]
         /\ \A m \in V!Coming' : m \in V!Coming
         /\ lost \subseteq lost' /\ lost' \subseteq lost \cup {"interviewer"}
         /\ \A m \in V!Coming : m \notin V!Coming' =>
              /\ meeting.status = "erased"
              /\ m.kind = "interview_cancelled_interviewer" => "interviewer" \in lost'
<1> DEFINE todo == task[p].todo
           mail == Head(todo)
           rest == Tail(todo)
<1>1. task[p].pc = "mail" /\ task[p] \in V!TaskRecord(todo) /\ V!IsTodo(todo)
  <2>1. V!IsTask(task[p]) /\ task[p].pc = "mail"
    BY DEF V!InvitationsTypeOK, V!QueueMail
  <2> QED
    BY <2>1, RestingIs DEF V!IsTask
<1>2. /\ mail \in V!Queued(todo)
      /\ V!Queued(todo) = {mail} \cup V!Queued(rest)
      /\ \A m \in V!Queued(todo) : V!IsMail(m)
      /\ rest = <<>> \/ V!IsTodo(rest)
      /\ mail.application => \A m \in V!Queued(todo) : m.application
  BY <1>1, TodoIs
<1>3. \E n : V!Goto(p, n) /\ (n = V!Resting \/ (n = Shorter(task[p], rest) /\ rest # <<>>))
  BY DEF V!QueueMail, Shorter
<1>4. PICK n : V!Goto(p, n) /\ (n = V!Resting \/ (n = Shorter(task[p], rest) /\ rest # <<>>))
  BY <1>3
<1>5. /\ task' = [q \in Proc |-> IF q = p THEN n ELSE task[q]]
      /\ \A q \in Proc : task'[q] = IF q = p THEN n ELSE task[q]
  BY <1>4, OneGoesOn
<1>6. n = V!Resting \/ (n \in V!TaskRecord(rest) /\ n.pc = "mail" /\ n.todo = rest /\ rest # <<>>)
  BY <1>1, <1>4, ShorterIs
<1>7. V!IsTask(n)
  BY <1>2, <1>6, RestingIs DEF V!IsTask
<1>8. UNCHANGED <<now, meeting, calendar, V!reminding, arranged, ended, overlapped>>
  BY DEF V!QueueMail
<1>9. CASE meeting.status = "erased" /\ mail.application
  <2>1. outbox' = outbox /\ V!NoticeLost({todo[k] : k \in DOMAIN todo}) /\ V!Goto(p, V!Resting)
    BY <1>9 DEF V!QueueMail
  <2>2. /\ lost \subseteq lost' /\ lost' \subseteq lost \cup {"interviewer"}
        /\ \A m \in V!Queued(todo) : m.application /\ m.kind = "interview_cancelled_interviewer" =>
             "interviewer" \in lost'
    BY <2>1, NoticeLostIs DEF V!Queued
  <2>3. task'[p] = V!Resting
    BY <2>1, OneGoesOn
  <2>4. V!Queued(V!Resting.todo) = {}
    BY RestingIs, QueuedIs
  <2>5. \A m \in V!Coming' : m \in V!Coming
    BY <1>5, <2>1, <2>3, <2>4, ComingIs, ComingNext
  <2>6. \A m \in V!Coming : m \notin V!Coming' => m \in V!Queued(todo)
    BY <1>5, <2>1, <2>3, <2>4, ComingIs, ComingNext
  <2>7. V!InvitationsTypeOK'
    BY <1>5, <1>7, <1>8, <2>1 DEF V!InvitationsTypeOK, V!reminding
  <2> QED
    BY <1>2, <1>5, <1>9, <2>2, <2>3, <2>5, <2>6, <2>7
<1>10. CASE ~(meeting.status = "erased" /\ mail.application)
  <2>1. /\ outbox' = outbox \cup {mail} /\ lost' = lost
        /\ V!Goto(p, IF rest = <<>> THEN V!Resting ELSE Shorter(task[p], rest))
    BY <1>10 DEF V!QueueMail, Shorter
  <2>2. task'[p] = IF rest = <<>> THEN V!Resting ELSE Shorter(task[p], rest)
    BY <2>1, OneGoesOn
  <2>3. task'[p].todo = rest
    <3>1. CASE rest = <<>>
      BY <2>2, <3>1, RestingIs
    <3>2. CASE rest # <<>>
      <4>1. task'[p] = Shorter(task[p], rest)
        BY <2>2, <3>2
      <4> HIDE DEF rest, todo
      <4> QED
        BY <1>1, <4>1, ShorterIs
    <3> QED
      BY <3>1, <3>2
  <2>4. \A m : m \in V!Queued(todo) <=> m = mail \/ m \in V!Queued(task'[p].todo)
    BY <1>2, <2>3
  <2>5. \A m : m \in V!Coming' <=> m \in V!Coming
    BY <1>5, <2>1, <2>4, ComingIs, ComingNext
  <2>6. V!InvitationsTypeOK'
    BY <1>2, <1>5, <1>7, <1>8, <2>1 DEF V!InvitationsTypeOK, V!reminding
  <2> QED
    BY <1>5, <1>6, <2>1, <2>5, <2>6
<1> QED
  BY <1>9, <1>10

LEMMA QueuedMailKeeps ==
  ASSUME V!InvitationsIInv, V!InvitationsConstants, NEW p \in Proc, V!QueueMail(p)
  PROVE  V!InvitationsIInv'
<1> USE DEF V!InvitationsIInv
<1>1. /\ V!InvitationsTypeOK'
      /\ task'[p] = V!Resting \/ task'[p].pc = "mail"
      /\ \A q \in Proc : q # p => task'[q] = task[q]
      /\ \A m \in V!Coming' : m \in V!Coming
      /\ lost \subseteq lost' /\ lost' \subseteq lost \cup {"interviewer"}
      /\ \A m \in V!Coming : m \notin V!Coming' =>
           /\ meeting.status = "erased"
           /\ m.kind = "interview_cancelled_interviewer" => "interviewer" \in lost'
  BY QueueMailTypes
<1>2. UNCHANGED <<now, meeting, calendar, jobs, job, reminded, arranged, ended, overlapped>>
  BY DEF V!QueueMail, V!reminding
<1>3. V!LoadedIsThere'
  BY <1>1, <1>2, RestingIs DEF V!LoadedIsThere
<1>4. V!CalendarsFit'
  <2>1. \A m \in V!Coming \ V!Coming' :
          \/ V!EventOf(m).method = "none"
          \/ m.kwargs.to \in lost'
          \/ meeting.status # "booked" /\ V!EventOf(m).method = "REQUEST"
          \/ meeting.status = "erased" /\ m.kwargs.to = "candidate"
    <3> SUFFICES ASSUME NEW m \in V!Coming, m \notin V!Coming'
                 PROVE  \/ V!EventOf(m).method = "none"
                        \/ m.kwargs.to \in lost'
                        \/ meeting.status # "booked" /\ V!EventOf(m).method = "REQUEST"
                        \/ meeting.status = "erased" /\ m.kwargs.to = "candidate"
      OBVIOUS
    <3>1. V!IsMail(m)
      BY ComingIsMail
    <3> QED
      BY <1>1, <3>1 DEF V!IsMail, V!Side
  <2> QED
    BY <1>1, <1>2, <2>1, CalendarsKeep DEF V!InvitationsTypeOK
<1>5. V!RemindersFit'
  BY <1>1, <1>2, RestingIs, RemindersKeep
<1> QED
  BY <1>1, <1>3, <1>4, <1>5

LEMMA DeliverKeeps ==
  ASSUME V!InvitationsIInv, V!InvitationsConstants, NEW m \in outbox, V!Deliver(m)
  PROVE  V!InvitationsIInv'
<1> USE DEF V!InvitationsIInv
<1> DEFINE side == m.kwargs.to
<1>1. /\ UNCHANGED <<now, meeting, task, jobs, job, reminded, arranged, ended, overlapped>>
      /\ outbox' = outbox \ {m}
      /\ lost \subseteq lost' /\ (lost' = lost \/ lost' = lost \cup {side})
  BY DEF V!Deliver, V!reminding
<1>2. V!IsMail(m) /\ m \in V!Coming /\ side \in V!Side
  BY ComingIs DEF V!InvitationsTypeOK, V!IsMail
<1>3. /\ \A x \in V!Coming' : x \in V!Coming
      /\ \A x \in V!Coming : x \notin V!Coming' => x = m
  BY <1>1, ComingIs, ComingNext
<1> HIDE DEF side
<1>4. /\ now' \in Nat /\ arranged' \in Nat /\ meeting' \in V!Meeting
      /\ DOMAIN task' = Proc /\ task' = [q \in Proc |-> task'[q]]
      /\ \A q \in Proc : V!IsTask(task'[q])
      /\ \A x \in outbox' : V!IsMail(x)
      /\ jobs' \subseteq Start
      /\ job' = V!NoJob \/ job' \in [pc : V!Side, start : Start, over : BOOLEAN]
      /\ reminded' \in [V!Side -> [Start -> Nat]]
  BY <1>1 DEF V!InvitationsTypeOK
<1>5. ASSUME calendar' = calendar, lost' = lost \cup {side}
      PROVE  V!InvitationsTypeOK' /\ V!CalendarsFit'
  <2>1. V!CalendarsFit'
    BY <1>1, <1>3, <1>5, CalendarsKeep DEF V!InvitationsTypeOK, side
  <2>2. V!InvitationsTypeOK'
    BY <1>4, <1>5 DEF V!InvitationsTypeOK
  <2> QED
    BY <2>1, <2>2
<1>6. ASSUME calendar' = [calendar EXCEPT ![side] = V!Received(calendar[side], V!EventOf(m))],
             lost' = lost
      PROVE  V!InvitationsTypeOK' /\ V!CalendarsFit'
  <2>1. V!CalendarsFit'
    BY <1>1, <1>2, <1>3, <1>6, CalendarsReceive DEF side
  <2>2. V!Received(calendar[side], V!EventOf(m)) \in V!CalendarEntry
    <3>1. calendar[side] \in V!CalendarEntry
      BY <1>2 DEF V!InvitationsTypeOK
    <3> QED
      BY <1>2, <3>1 DEF V!Received, V!CalendarEntry, V!IsMail
  <2>3. calendar' \in [V!Side -> V!CalendarEntry]
    BY <1>2, <1>6, <2>2 DEF V!InvitationsTypeOK
  <2>4. V!InvitationsTypeOK'
    BY <1>4, <2>3 DEF V!InvitationsTypeOK
  <2> QED
    BY <2>1, <2>4
<1>7. V!InvitationsTypeOK' /\ V!CalendarsFit'
  BY <1>5, <1>6 DEF V!Deliver, V!EventOf, side
<1>8. V!LoadedIsThere'
  BY <1>1 DEF V!LoadedIsThere
<1>9. V!RemindersFit'
  BY <1>1, <1>2, RemindersKeep DEF V!Side
<1> QED
  BY <1>7, <1>8, <1>9

\* invite.ics holds the interview as it is booked.
LEMMA DownloadKeeps ==
  ASSUME V!InvitationsIInv, V!InvitationsConstants, V!Download
  PROVE  V!InvitationsIInv'
<1> USE DEF V!InvitationsIInv
<1> DEFINE c == calendar["candidate"]
           d == V!Received(c, V!CandidateEvent)
<1>1. /\ UNCHANGED <<now, meeting, task, outbox, jobs, job, reminded, arranged, ended, lost, overlapped>>
      /\ meeting.status = "booked"
      /\ calendar' = [calendar EXCEPT !["candidate"] = d]
  BY DEF V!Download, V!reminding, V!past
<1>2. /\ c \in V!CalendarEntry /\ meeting.seq \in Nat /\ meeting.start \in Start
      /\ "candidate" \in V!Side
  BY <1>1 DEF V!InvitationsTypeOK, V!Side, V!Meeting
<1> HIDE DEF d
<1>3. /\ calendar'["candidate"] = d
      /\ \A s \in V!Side : s # "candidate" => calendar'[s] = calendar[s]
  BY <1>1, <1>2 DEF V!InvitationsTypeOK
<1>4. \/ d = c /\ meeting.seq < c.seq
      \/ meeting.seq >= c.seq /\ d = [seq |-> meeting.seq, start |-> meeting.start, there |-> TRUE]
  <2>1. /\ V!CandidateEvent.method # "none" /\ V!CandidateEvent.method # "CANCEL"
        /\ V!CandidateEvent.sequence = meeting.seq /\ V!CandidateEvent.start = meeting.start
    BY DEF V!CandidateEvent
  <2>2. c.seq \in Int
    BY <1>2 DEF V!CalendarEntry
  <2> HIDE DEF c
  <2>3. d = IF meeting.seq < c.seq THEN c ELSE [seq |-> meeting.seq, start |-> meeting.start, there |-> TRUE]
    BY <2>1 DEF d, V!Received
  <2> DEFINE r == [seq |-> meeting.seq, start |-> meeting.start, there |-> TRUE]
  <2>4. d = IF meeting.seq < c.seq THEN c ELSE r
    BY <2>3
  <2> HIDE DEF r
  <2>5. \/ d = c /\ meeting.seq < c.seq
        \/ meeting.seq >= c.seq /\ d = r
    BY <1>2, <2>2, <2>4
  <2> QED
    BY <2>5 DEF r
<1>5. d \in V!CalendarEntry
  <2>1. [seq |-> meeting.seq, start |-> meeting.start, there |-> TRUE] \in V!CalendarEntry
    BY <1>2 DEF V!CalendarEntry
  <2> HIDE DEF c
  <2> QED
    BY <1>2, <1>4, <2>1
<1>6. V!InvitationsTypeOK'
  <2>1. calendar' \in [V!Side -> V!CalendarEntry]
    BY <1>1, <1>5 DEF V!InvitationsTypeOK
  <2> QED
    BY <1>1, <2>1 DEF V!InvitationsTypeOK
<1>7. V!Coming' = V!Coming
  BY <1>1, ComingStays
<1>8. V!CalendarsFit'
  <2> SUFFICES ASSUME ~overlapped
               PROVE  V!CalendarsFit'
    BY <1>1 DEF V!CalendarsFit
  <2>1. V!EntryFits(c) /\ meeting.start # 0
    BY <1>1, <1>2 DEF V!CalendarsFit, V!InvitationsConstants
  <2>2. V!EntryFits(d) /\ d.seq = meeting.seq
    <3>1. c.seq <= meeting.seq
      BY <1>1, <1>2, <2>1 DEF V!EntryFits, V!NoEvent
    <3>2. d = [seq |-> meeting.seq, start |-> meeting.start, there |-> TRUE]
      BY <1>2, <1>4, <3>1 DEF V!CalendarEntry
    <3> HIDE DEF d
    <3> QED
      BY <1>2, <2>1, <3>2 DEF V!EntryFits
  <2>3. V!EntryFits(calendar["candidate"])'
    BY <1>1, <1>3, <2>2 DEF V!EntryFits
  <2>4. V!LastIsComing("candidate")'
    BY <1>1, <1>3, <2>2 DEF V!LastIsComing, V!CalledOff
  <2>5. ASSUME NEW s \in V!Side, s # "candidate"
        PROVE  V!EntryFits(calendar[s])' /\ V!LastIsComing(s)'
    <3>1. V!EntryFits(calendar[s]) /\ V!LastIsComing(s) /\ calendar'[s] = calendar[s]
      BY <1>3, <2>5 DEF V!CalendarsFit
    <3>2. V!EntryFits(calendar[s])'
      BY <1>1, <3>1 DEF V!EntryFits
    <3>3. V!LastIsComing(s)'
      BY <1>1, <1>7, <3>1 DEF V!LastIsComing, V!CalledOff
    <3> QED
      BY <3>2, <3>3
  <2>6. V!TimesFit' /\ \A m \in V!Coming' : V!MailFits(V!EventOf(m))'
    BY <1>1, <1>7 DEF V!CalendarsFit, V!TimesFit, V!MailFits
  <2> QED
    BY <2>3, <2>4, <2>5, <2>6 DEF V!CalendarsFit
<1>9. V!LoadedIsThere'
  BY <1>1 DEF V!LoadedIsThere
<1>10. V!RemindersFit'
  BY <1>1, RemindersKeep
<1> QED
  BY <1>6, <1>8, <1>9, <1>10

\* The jobs: what they leave alone, and what they may have.
LEMMA JobsKeep ==
  ASSUME V!InvitationsTypeOK, V!InvitationsConstants, V!LoadedIsThere, V!CalendarsFit,
         UNCHANGED <<meeting, task, outbox, calendar, arranged, ended, overlapped>>,
         now' \in Nat, now <= now', lost \subseteq lost', jobs' \subseteq Start,
         job' = V!NoJob \/ job' \in [pc : V!Side, start : Start, over : BOOLEAN],
         reminded' \in [V!Side -> [Start -> Nat]]
  PROVE  V!InvitationsTypeOK' /\ V!LoadedIsThere' /\ V!CalendarsFit'
<1>1. V!InvitationsTypeOK'
  BY DEF V!InvitationsTypeOK
<1>2. V!LoadedIsThere'
  BY DEF V!LoadedIsThere
<1>3. V!Coming' = V!Coming
  BY ComingStays
<1>4. V!CalendarsFit'
  BY <1>3, CalendarsKeep
<1> QED
  BY <1>1, <1>2, <1>4

LEMMA TimesAreNumbers ==
  ASSUME V!InvitationsTypeOK, V!InvitationsConstants
  PROVE  /\ now \in Nat /\ arranged \in Nat /\ DAY \in Nat /\ Start \subseteq Nat /\ 0 \notin Start
         /\ meeting.start \in Nat /\ job.start \in Nat
         /\ meeting.status = "booked" => meeting.start \in Start
         /\ job # V!NoJob => job.start \in Start /\ job.pc \in V!Side
         /\ V!NoJob.start = 0 /\ V!NoJob.over = FALSE /\ V!NoJob.pc = "idle"
         /\ \A side \in V!Side, s \in Start : reminded[side][s] \in Nat
BY DEF V!InvitationsTypeOK, V!InvitationsConstants, V!Meeting, V!NoJob

LEMMA StartReminderKeeps ==
  ASSUME V!InvitationsIInv, V!InvitationsConstants, NEW s \in jobs, V!StartReminder(s)
  PROVE  V!InvitationsIInv'
<1> USE DEF V!InvitationsIInv
<1> DEFINE j == [V!NoJob EXCEPT !.pc = "candidate", !.start = s]
<1>1. /\ UNCHANGED <<now, meeting, task, outbox, calendar, reminded, arranged, ended, overlapped>>
      /\ jobs' = jobs \ {s} /\ job = V!NoJob /\ now >= s - DAY
      /\ job' = IF V!Due(s) THEN j ELSE V!NoJob
      /\ lost' = lost \/ lost' = lost \cup {"reminder"}
  BY DEF V!StartReminder, V!world
<1>2. s \in Start
  BY DEF V!InvitationsTypeOK
<1>3. /\ j \in [pc : V!Side, start : Start, over : BOOLEAN]
      /\ j.pc = "candidate" /\ j.start = s
  <2>1. V!NoJob \in [pc : {"idle"}, start : {0}, over : {FALSE}]
    BY DEF V!NoJob
  <2>2. /\ j \in [pc : {"idle", "candidate"}, start : {0, s}, over : {FALSE}]
        /\ j.pc = "candidate" /\ j.start = s
    BY <2>1
  <2> HIDE DEF j
  <2> QED
    BY <1>2, <2>2 DEF V!Side
<1> HIDE DEF j
<1>4. V!InvitationsTypeOK' /\ V!LoadedIsThere' /\ V!CalendarsFit'
  <2>1. now' \in Nat /\ now <= now' /\ jobs' \subseteq Start /\ lost \subseteq lost'
    BY <1>1 DEF V!InvitationsTypeOK
  <2>2. job' = V!NoJob \/ job' \in [pc : V!Side, start : Start, over : BOOLEAN]
    BY <1>1, <1>3
  <2>3. reminded' \in [V!Side -> [Start -> Nat]]
    BY <1>1 DEF V!InvitationsTypeOK
  <2> QED
    BY <1>1, <2>1, <2>2, <2>3, JobsKeep
<1>5. job' # V!NoJob => V!Due(s) /\ job' = j
  BY <1>1
<1>6. V!ReminderWaits'
  <2> SUFFICES ASSUME TRUE
               PROVE  /\ \A p \in Proc :
                           LET t == task[p]
                           IN  t.pc = "commit" /\ t.op \in {"book", "move"} /\ "reminder" \notin lost' =>
                                 (t.want - DAY > now => t.want \in jobs')
                      /\ job' # V!NoJob => now >= job'.start - DAY
    BY <1>1 DEF V!ReminderWaits
  <2>1. V!ReminderWaits
    BY DEF V!RemindersFit
  <2>2. job' # V!NoJob => now >= job'.start - DAY
    BY <1>1, <1>3, <1>5
  <2>3. ASSUME NEW p \in Proc, task[p].pc = "commit", task[p].op \in {"book", "move"},
               "reminder" \notin lost', task[p].want - DAY > now
        PROVE  task[p].want \in jobs'
    <3>1. task[p].want \in jobs
      BY <1>1, <2>1, <2>3 DEF V!ReminderWaits
    <3>2. task[p].want # s
      BY <1>1, <1>2, <2>3, TimesAreNumbers
    <3> QED
      BY <1>1, <3>1, <3>2
  <2> QED
    BY <2>2, <2>3
<1>7. V!RemindersHold'
  <2>1. V!RemindersHold
    BY DEF V!RemindersFit
  <2>2. job' # V!NoJob /\ ~job'.over => meeting.status = "booked" /\ meeting.start = job'.start
    BY <1>3, <1>5 DEF V!Due
  <2>3. ASSUME meeting.status = "booked", meeting.start - DAY > arranged, "reminder" \notin lost', ~overlapped
        PROVE  \/ meeting.start \in jobs' \cup {job'.start}
               \/ reminded["interviewer"][meeting.start] > 0
               \/ now >= meeting.start
    <3>1. /\ meeting.start \in Nat /\ meeting.start # 0 /\ now \in Nat /\ s \in Nat
          /\ job.start # meeting.start
      BY <1>1, <1>2, <2>3, TimesAreNumbers
    <3>2. \/ meeting.start \in jobs
          \/ reminded["interviewer"][meeting.start] > 0
          \/ now >= meeting.start
      BY <1>1, <2>1, <2>3, <3>1 DEF V!RemindersHold
    <3>3. meeting.start = s /\ s > now => job'.start = s
      BY <1>1, <1>3, <2>3 DEF V!Due
    <3> QED
      BY <1>1, <3>1, <3>2, <3>3
  <2>4. \A side \in V!Side, x \in Start : reminded[side][x] <= 1 \/ "rerun" \in lost'
    BY <1>1, <2>1 DEF V!RemindersHold
  <2> QED
    BY <1>1, <2>2, <2>3, <2>4 DEF V!RemindersHold
<1>8. "rerun" \notin lost' => \A side \in V!Side, x \in Start : V!RemindedOnce(side, x)'
  <2> SUFFICES ASSUME "rerun" \notin lost', NEW side \in V!Side, NEW x \in Start
               PROVE  V!RemindedOnce(side, x)'
    OBVIOUS
  <2>1. V!RemindedOnce(side, x)
    BY <1>1 DEF V!RemindersFit
  <2>2. job'.start = x => x = s
    BY <1>1, <1>3, TimesAreNumbers
  <2> QED
    BY <1>1, <2>1, <2>2 DEF V!RemindedOnce
<1> QED
  BY <1>4, <1>6, <1>7, <1>8 DEF V!RemindersFit

LEMMA SendReminderKeeps ==
  ASSUME V!InvitationsIInv, V!InvitationsConstants, V!SendReminder
  PROVE  V!InvitationsIInv'
<1> USE DEF V!InvitationsIInv
<1> DEFINE side == job.pc
           s == job.start
           j == [job EXCEPT !.pc = "interviewer"]
<1>1. /\ UNCHANGED <<now, meeting, task, outbox, jobs, arranged, ended, lost, overlapped>>
      /\ job # V!NoJob
      /\ reminded' = [reminded EXCEPT ![side][s] = reminded[side][s] + 1]
      /\ calendar' = [calendar EXCEPT ![side] = V!Received(calendar[side], V!ReminderMail(side, s).calendar)]
      /\ job' = IF side = "candidate" THEN j ELSE V!NoJob
  BY DEF V!SendReminder, V!past
<1>2. /\ side \in V!Side /\ s \in Start /\ job \in [pc : V!Side, start : Start, over : BOOLEAN]
      /\ side = "candidate" \/ side = "interviewer"
  BY <1>1 DEF V!InvitationsTypeOK, V!Side
<1>3. calendar' = calendar
  <2>1. V!ReminderMail(side, s).calendar.method = "none"
    BY <1>2, ReminderIsPlain
  <2>2. V!Received(calendar[side], V!ReminderMail(side, s).calendar) = calendar[side]
    BY <2>1 DEF V!Received
  <2>3. calendar' = [calendar EXCEPT ![side] = calendar[side]]
    BY <1>1, <2>2
  <2> QED
    BY <1>2, <2>3 DEF V!InvitationsTypeOK
<1>4. /\ j \in [pc : V!Side, start : Start, over : BOOLEAN]
      /\ j.pc = "interviewer" /\ j.start = s /\ j.over = job.over
  BY <1>2 DEF V!Side
<1>5. /\ reminded' \in [V!Side -> [Start -> Nat]]
      /\ reminded'[side][s] = reminded[side][s] + 1
      /\ \A a \in V!Side, x \in Start : a # side \/ x # s => reminded'[a][x] = reminded[a][x]
  BY <1>1, <1>2 DEF V!InvitationsTypeOK
<1> HIDE DEF j, side, s
<1>6. V!InvitationsTypeOK' /\ V!LoadedIsThere' /\ V!CalendarsFit'
  <2>1. now' \in Nat /\ now <= now' /\ jobs' \subseteq Start /\ lost \subseteq lost'
    BY <1>1 DEF V!InvitationsTypeOK
  <2>2. job' = V!NoJob \/ job' \in [pc : V!Side, start : Start, over : BOOLEAN]
    BY <1>1, <1>4
  <2> QED
    BY <1>1, <1>3, <1>5, <2>1, <2>2, JobsKeep
<1>7. job' # V!NoJob => side = "candidate" /\ job' = j
  BY <1>1
<1>8. V!ReminderWaits'
  <2>1. job' # V!NoJob => now >= job'.start - DAY
    BY <1>1, <1>4, <1>7 DEF V!RemindersFit, V!ReminderWaits, s
  <2> QED
    BY <1>1, <2>1 DEF V!RemindersFit, V!ReminderWaits
<1>9. "rerun" \notin lost => \A a \in V!Side, x \in Start : V!RemindedOnce(a, x)'
  <2> SUFFICES ASSUME "rerun" \notin lost, NEW a \in V!Side, NEW x \in Start
               PROVE  V!RemindedOnce(a, x)'
    OBVIOUS
  <2>1. V!RemindedOnce(a, x) /\ V!RemindedOnce(side, s)
    BY <1>2 DEF V!RemindersFit
  <2>2. /\ reminded[side][s] = 0 /\ s \notin jobs /\ now >= s - DAY
        /\ side = "candidate" => reminded["interviewer"][s] = 0
    <3>1. V!RemindedOnce("interviewer", s)
      BY <1>2 DEF V!RemindersFit, V!Side
    <3> QED
      BY <1>1, <1>2, <2>1, <3>1 DEF V!RemindedOnce, side, s, V!RemindersFit, V!ReminderWaits
  <2>3. job'.start = x => x = s /\ side = "candidate" /\ job'.pc = "interviewer"
    BY <1>1, <1>4, TimesAreNumbers
  <2>4. reminded'[a][x] = IF a = side /\ x = s THEN 1 ELSE reminded[a][x]
    BY <1>5, <2>2
  <2>5. /\ reminded'[a][x] <= 1
        /\ x \in jobs => reminded'[a][x] = 0
        /\ reminded'[a][x] > 0 => now >= x - DAY
    BY <2>1, <2>2, <2>4 DEF V!RemindedOnce
  <2>6. job'.start = x =>
          x \notin jobs /\ (a = "interviewer" \/ job'.pc = "candidate" => reminded'[a][x] = 0)
    BY <2>2, <2>3, <2>4
  <2> QED
    BY <1>1, <2>5, <2>6 DEF V!RemindedOnce
<1>10. V!RemindersHold'
  <2>1. V!RemindersHold
    BY DEF V!RemindersFit
  <2>2. job' # V!NoJob /\ ~job'.over => meeting.status = "booked" /\ meeting.start = job'.start
    BY <1>1, <1>4, <1>7, <2>1 DEF V!RemindersHold, s
  <2>3. ASSUME meeting.status = "booked", meeting.start - DAY > arranged, "reminder" \notin lost, ~overlapped
        PROVE  \/ meeting.start \in jobs \cup {job'.start}
               \/ reminded'["interviewer"][meeting.start] > 0
               \/ now >= meeting.start
    <3>1. /\ meeting.start \in Start /\ now \in Nat /\ "interviewer" \in V!Side
          /\ \A x \in Start : reminded["interviewer"][x] \in Nat
      BY <2>3, TimesAreNumbers DEF V!Side
    <3>2. \/ meeting.start \in jobs
          \/ meeting.start = s
          \/ reminded["interviewer"][meeting.start] > 0
          \/ now >= meeting.start
      BY <2>1, <2>3 DEF V!RemindersHold, s
    <3>3. reminded["interviewer"][meeting.start] > 0 => reminded'["interviewer"][meeting.start] > 0
      BY <1>5, <3>1
    <3>4. CASE meeting.start = s /\ side = "candidate"
      BY <1>1, <1>4, <3>4
    <3>5. CASE meeting.start = s /\ side = "interviewer"
      BY <1>5, <3>1, <3>5
    <3> QED
      BY <1>2, <3>2, <3>3, <3>4, <3>5
  <2>4. \A a \in V!Side, x \in Start : reminded'[a][x] <= 1 \/ "rerun" \in lost
    BY <1>1, <1>9 DEF V!RemindedOnce
  <2> QED
    BY <1>1, <2>2, <2>3, <2>4 DEF V!RemindersHold
<1> QED
  BY <1>1, <1>6, <1>8, <1>9, <1>10 DEF V!RemindersFit

LEMMA ReminderFailsKeeps ==
  ASSUME V!InvitationsIInv, V!InvitationsConstants, NEW again \in BOOLEAN, V!ReminderFails(again)
  PROVE  V!InvitationsIInv'
<1> USE DEF V!InvitationsIInv
<1>1. /\ UNCHANGED <<now, meeting, task, outbox, calendar, reminded, arranged, ended, overlapped>>
      /\ job # V!NoJob /\ job' = V!NoJob
      /\ \/ "rerun" \in lost' /\ lost \subseteq lost' /\ jobs' = jobs \cup {job.start}
         \/ "reminder" \in lost' /\ lost' = lost \cup {"reminder"} /\ jobs' = jobs
  BY DEF V!ReminderFails, V!world
<1>2. job.start \in Start
  BY <1>1 DEF V!InvitationsTypeOK
<1>3. V!InvitationsTypeOK' /\ V!LoadedIsThere' /\ V!CalendarsFit'
  <2>1. /\ now' \in Nat /\ now <= now' /\ jobs' \subseteq Start /\ lost \subseteq lost'
        /\ reminded' \in [V!Side -> [Start -> Nat]]
    BY <1>1, <1>2 DEF V!InvitationsTypeOK
  <2> QED
    BY <1>1, <2>1, JobsKeep
<1>4. lost \subseteq lost' /\ jobs \subseteq jobs'
  BY <1>1
<1>5. V!ReminderWaits'
  BY <1>1, <1>4 DEF V!RemindersFit, V!ReminderWaits
<1>6. V!RemindersHold'
  BY <1>1, <1>4 DEF V!RemindersFit, V!RemindersHold
<1>7. "rerun" \notin lost' => \A side \in V!Side, s \in Start : V!RemindedOnce(side, s)'
  <2> SUFFICES ASSUME "rerun" \notin lost', NEW side \in V!Side, NEW s \in Start
               PROVE  V!RemindedOnce(side, s)'
    OBVIOUS
  <2>1. V!RemindedOnce(side, s)
    BY <1>1 DEF V!RemindersFit
  <2>2. V!NoJob.start # s
    BY TimesAreNumbers
  <2> QED
    BY <1>1, <2>1, <2>2 DEF V!RemindedOnce
<1> QED
  BY <1>3, <1>5, <1>6, <1>7 DEF V!RemindersFit

LEMMA TickKeeps ==
  ASSUME V!InvitationsIInv, V!InvitationsConstants, V!Tick
  PROVE  V!InvitationsIInv'
<1> USE DEF V!InvitationsIInv
<1>1. /\ UNCHANGED <<meeting, task, outbox, calendar, jobs, job, reminded, arranged, ended, lost, overlapped>>
      /\ now' = now + 1
  BY DEF V!Tick, V!world, V!reminding, V!past
<1>2. now \in Nat /\ now' \in Nat /\ now <= now'
  BY <1>1 DEF V!InvitationsTypeOK
<1>3. V!InvitationsTypeOK' /\ V!LoadedIsThere' /\ V!CalendarsFit'
  <2>1. jobs' \subseteq Start /\ reminded' \in [V!Side -> [Start -> Nat]]
        /\ (job' = V!NoJob \/ job' \in [pc : V!Side, start : Start, over : BOOLEAN])
    BY <1>1 DEF V!InvitationsTypeOK
  <2> QED
    BY <1>1, <1>2, <2>1, JobsKeep
<1>4. ASSUME NEW x \in Nat
      PROVE  /\ x - DAY > now' => x - DAY > now
             /\ now >= x - DAY => now' >= x - DAY
             /\ now >= x => now' >= x
  BY <1>1, <1>2 DEF V!InvitationsConstants
<1>5. V!ReminderWaits'
  <2>1. \A p \in Proc : task[p].pc = "commit" /\ task[p].op \in {"book", "move"} =>
          task[p].want \in Nat
    <3> SUFFICES ASSUME NEW p \in Proc, task[p].pc = "commit"
                 PROVE  task[p].want \in Nat
      OBVIOUS
    <3>1. task[p] \in V!TaskRecord(task[p].todo)
      BY DEF V!InvitationsTypeOK, V!IsTask
    <3> QED
      BY <3>1, TimesAreNumbers DEF V!TaskRecord
  <2>2. job # V!NoJob => job.start \in Nat
    BY TimesAreNumbers
  <2> QED
    BY <1>1, <1>4, <2>1, <2>2 DEF V!RemindersFit, V!ReminderWaits
<1>6. V!RemindersHold'
  <2>1. meeting.start \in Nat
    BY TimesAreNumbers
  <2> QED
    BY <1>1, <1>4, <2>1 DEF V!RemindersFit, V!RemindersHold
<1>7. "rerun" \notin lost => \A side \in V!Side, s \in Start : V!RemindedOnce(side, s)'
  <2> SUFFICES ASSUME "rerun" \notin lost, NEW side \in V!Side, NEW s \in Start
               PROVE  V!RemindedOnce(side, s)'
    OBVIOUS
  <2>1. V!RemindedOnce(side, s) /\ s \in Nat
    BY TimesAreNumbers DEF V!RemindersFit
  <2> QED
    BY <1>1, <1>4, <2>1 DEF V!RemindedOnce
<1> QED
  BY <1>1, <1>3, <1>5, <1>6, <1>7 DEF V!RemindersFit

\* The mails of a change, as the calendars will see them.
LEMMA BookingMailsSay ==
  ASSUME NEW s \in Start, NEW n \in Nat, V!InvitationsConstants
  PROVE  /\ \A m \in V!Queued(V!BookingMails(s, n)) :
              /\ V!EventOf(m).method = "REQUEST" /\ V!EventOf(m).sequence = n
              /\ V!EventOf(m).start = s
         /\ \A side \in V!Side : \E m \in V!Queued(V!BookingMails(s, n)) : m.kwargs.to = side
<1>1. PICK a, b : a = V!BookingMails(s, n)[1] /\ b = V!BookingMails(s, n)[2]
  OBVIOUS
<1>2. V!Queued(V!BookingMails(s, n)) = {a, b}
  <2>1. V!BookingMails(s, n) = <<a, b>>
    BY <1>1, BookingsFit
  <2> QED
    BY <2>1, QueuedIs
<1>3. /\ V!EventOf(a).method = "REQUEST" /\ V!EventOf(a).sequence = n /\ V!EventOf(a).start = s
      /\ V!EventOf(b).method = "REQUEST" /\ V!EventOf(b).sequence = n /\ V!EventOf(b).start = s
      /\ a.kwargs.to = "candidate" /\ b.kwargs.to = "interviewer"
  BY <1>1, BookingsFit
<1> QED
  BY <1>2, <1>3 DEF V!Side

LEMMA CancelMailsSay ==
  ASSUME NEW seen \in V!Meeting, NEW op \in {"cancel", "withdraw"}, V!InvitationsConstants
  PROVE  /\ \A m \in V!Queued(V!CancelMails(op, seen)) :
              \/ V!EventOf(m).method = "none"
              \/ V!EventOf(m).method = "CANCEL" /\ V!EventOf(m).sequence = seen.seq + 1 /\ seen.start # 0
         /\ seen.start # 0 =>
              \E m \in V!Queued(V!CancelMails(op, seen)) :
                m.kwargs.to = "interviewer" /\ V!EventOf(m).method = "CANCEL"
         /\ seen.start # 0 /\ op = "cancel" =>
              \E m \in V!Queued(V!CancelMails(op, seen)) :
                m.kwargs.to = "candidate" /\ V!EventOf(m).method = "CANCEL"
<1> DEFINE c == V!CandidateNotice(seen)
           i == V!InterviewerNotice(seen, TRUE)
<1>1. /\ c.kwargs.to = "candidate"
      /\ seen.start = 0 => V!EventOf(c).method = "none"
      /\ seen.start # 0 => V!EventOf(c).method = "CANCEL" /\ V!EventOf(c).sequence = seen.seq + 1
  BY CandidateNoticeFits
<1>2. seen.start # 0 =>
        /\ i.kwargs.to = "interviewer"
        /\ V!EventOf(i).method = "CANCEL" /\ V!EventOf(i).sequence = seen.seq + 1
  BY InterviewerNoticeFits
<1>3. V!CancelMails(op, seen) = (IF op = "cancel" THEN <<c>> ELSE <<>>)
                                \o (IF seen.start # 0 THEN <<i>> ELSE <<>>)
  BY DEF V!CancelMails, V!TimeBooked
<1> HIDE DEF c, i
<1>4. V!Queued(V!CancelMails(op, seen)) = (IF op = "cancel" THEN {c} ELSE {})
                                        \cup (IF seen.start # 0 THEN {i} ELSE {})
  <2>1. CASE op = "cancel" /\ seen.start # 0
    <3>1. V!CancelMails(op, seen) = <<c, i>>
      <4>1. V!CancelMails(op, seen) = <<c>> \o <<i>>
        BY <1>3, <2>1
      <4> QED
        BY <4>1, Joined
    <3>2. V!Queued(V!CancelMails(op, seen)) = {c, i}
      BY <3>1, QueuedIs
    <3> QED
      BY <2>1, <3>2
  <2>2. CASE op = "cancel" /\ seen.start = 0
    <3>1. V!CancelMails(op, seen) = <<c>>
      BY <1>3, <2>2, Joined
    <3> QED
      BY <2>2, <3>1, QueuedIs
  <2>3. CASE op # "cancel" /\ seen.start # 0
    <3>1. V!CancelMails(op, seen) = <<i>>
      BY <1>3, <2>3, Joined
    <3> QED
      BY <2>3, <3>1, QueuedIs
  <2>4. CASE op # "cancel" /\ seen.start = 0
    <3>1. V!CancelMails(op, seen) = <<>>
      BY <1>3, <2>4, Joined
    <3> QED
      BY <2>4, <3>1, QueuedIs
  <2> QED
    BY <2>1, <2>2, <2>3, <2>4
<1> QED
  BY <1>1, <1>2, <1>4

LEMMA EraseMailsSay ==
  ASSUME NEW seen \in V!Meeting, V!InvitationsConstants
  PROVE  /\ \A m \in V!Queued(V!EraseMails(seen)) :
              /\ V!EventOf(m).method = "CANCEL" /\ V!EventOf(m).sequence = seen.seq + 1
              /\ seen.start # 0
         /\ seen.status = "booked" /\ seen.start > now =>
              \E m \in V!Queued(V!EraseMails(seen)) :
                m.kwargs.to = "interviewer" /\ V!EventOf(m).method = "CANCEL"
<1> DEFINE i == V!InterviewerNotice(seen, FALSE)
<1>1. seen.start # 0 =>
        /\ i.kwargs.to = "interviewer"
        /\ V!EventOf(i).method = "CANCEL" /\ V!EventOf(i).sequence = seen.seq + 1
  BY InterviewerNoticeFits
<1>2. V!EraseMails(seen) = IF seen.status = "booked" /\ seen.start > now THEN <<i>> ELSE <<>>
  BY DEF V!EraseMails
<1> HIDE DEF i
<1>3. V!Queued(V!EraseMails(seen)) = IF seen.status = "booked" /\ seen.start > now THEN {i} ELSE {}
  BY <1>2, QueuedIs
<1>4. seen.status = "booked" => seen.start # 0
  BY DEF V!Meeting
<1> QED
  BY <1>1, <1>3, <1>4

\* The interview as a change leaves it.
LEMMA WrittenIs ==
  ASSUME meeting \in V!Meeting, NEW t, t.want \in Start \/ t.op \notin {"book", "move"},
         t.op \in {"create", "book", "move", "cancel", "withdraw", "erase"},
         ~V!Refused(t), V!InvitationsConstants
  PROVE  LET n == V!Written(t)
         IN  /\ n \in V!Meeting
             /\ t.op = "create" => n.status = "pending"
             /\ t.op \in {"book", "move"} => n.status = "booked"
             /\ t.op \in {"cancel", "withdraw"} => n.status = "cancelled"
             /\ t.op = "erase" => n.status = "erased"
             /\ t.op \notin {"book", "move"} => n.start = meeting.start /\ n.seq = meeting.seq
             /\ t.op = "book" => n.start = t.want /\ n.seq = meeting.seq
             /\ t.op = "move" => /\ meeting.status = "booked" /\ n.seq = meeting.seq + 1
                                 /\ n.start = IF t.want = t.seen.start THEN meeting.start ELSE t.want
<1> DEFINE R == [status : {"none", "pending", "booked", "cancelled", "erased"},
                 start : Start \cup {0}, seq : Nat]
           n == V!Written(t)
<1>0. /\ meeting \in R
      /\ meeting.status = "booked" => meeting.start # 0
      /\ 0 \notin Start
  BY DEF V!Meeting, V!InvitationsConstants
<1>1. CASE t.op = "create"
  <2>1. n = [meeting EXCEPT !.status = "pending"]
    BY <1>1 DEF V!Written
  <2>2. n \in R /\ n.status = "pending" /\ n.start = meeting.start /\ n.seq = meeting.seq
    BY <1>0, <2>1
  <2> HIDE DEF n
  <2> QED
    BY <1>1, <2>2 DEF V!Meeting, n
<1>2. CASE t.op = "book"
  <2>1. n = [meeting EXCEPT !.status = "booked", !.start = t.want]
    BY <1>2 DEF V!Written
  <2>2. n \in R /\ n.status = "booked" /\ n.start = t.want /\ n.seq = meeting.seq
    BY <1>0, <1>2, <2>1
  <2> HIDE DEF n
  <2> QED
    BY <1>0, <1>2, <2>2 DEF V!Meeting, n
<1>3. CASE t.op = "move"
  <2> DEFINE s == IF t.want = t.seen.start THEN meeting.start ELSE t.want
             k == meeting.seq + 1
  <2>1. n = [meeting EXCEPT !.start = s, !.seq = k]
    BY <1>3 DEF V!Written
  <2>2. meeting.status = "booked" /\ s \in Start /\ k \in Nat
    BY <1>0, <1>3 DEF V!Refused
  <2> HIDE DEF s, k
  <2>3. n \in R /\ n.status = "booked" /\ n.start = s /\ n.seq = k
    BY <1>0, <2>1, <2>2
  <2> HIDE DEF n
  <2>4. n \in V!Meeting
    BY <1>0, <2>2, <2>3 DEF V!Meeting
  <2> QED
    BY <1>3, <2>2, <2>3, <2>4 DEF n, s, k
<1>4. CASE t.op \in {"cancel", "withdraw"}
  <2>1. n = [meeting EXCEPT !.status = "cancelled"]
    BY <1>4 DEF V!Written
  <2>2. n \in R /\ n.status = "cancelled" /\ n.start = meeting.start /\ n.seq = meeting.seq
    BY <1>0, <2>1
  <2> HIDE DEF n
  <2> QED
    BY <1>4, <2>2 DEF V!Meeting, n
<1>5. CASE t.op = "erase"
  <2>1. n = [meeting EXCEPT !.status = "erased"]
    BY <1>5 DEF V!Written
  <2>2. n \in R /\ n.status = "erased" /\ n.start = meeting.start /\ n.seq = meeting.seq
    BY <1>0, <2>1
  <2> HIDE DEF n
  <2> QED
    BY <1>5, <2>2 DEF V!Meeting, n
<1> QED
  BY <1>1, <1>2, <1>3, <1>4, <1>5

\* What a change does to the requests and to the mails on their way.
LEMMA CommitTypes ==
  ASSUME V!InvitationsTypeOK, V!InvitationsConstants, NEW p \in Proc, NEW t, t = task[p],
         V!Commit(p), ~V!Refused(t)
  PROVE  /\ V!InvitationsTypeOK'
         /\ \A q \in Proc : task'[q].pc \in {"remind", "commit"} =>
              /\ task'[q].over
              /\ task[q].pc = task'[q].pc /\ task[q].op = task'[q].op
              /\ task[q].want = task'[q].want
         /\ \A m \in V!Coming' : m \in V!Coming \/ m \in V!Queued(V!MailsOf(t))
         /\ \A m \in V!Queued(V!MailsOf(t)) : m \in V!Coming'
         /\ \A m \in V!Coming : m \notin V!Coming' =>
              /\ t.op = "erase" /\ m \in outbox \ outbox' /\ m.application
<1>1. /\ t \in V!TaskRecord(<<>>) /\ t.pc = "commit" /\ t.todo = <<>> /\ V!Asked(t)
      /\ t.want \in Start \/ t.op \notin {"book", "move"}
      /\ V!IsTask(t)
  <2>1. V!IsTask(t) /\ t.pc = "commit"
    BY DEF V!InvitationsTypeOK, V!Commit
  <2>2. t \in V!TaskRecord(<<>>) /\ t.todo = <<>> /\ V!Asked(t)
    BY <2>1, RestingIs DEF V!IsTask
  <2> QED
    BY <2>1, <2>2 DEF V!Asked
<1> DEFINE Next1(q) == IF q = p THEN IF V!MailsOf(t) = <<>> THEN V!Resting ELSE Mailing(t, V!MailsOf(t))
                       ELSE IF task[q].pc \in {"remind", "commit"} THEN Overtaken(task[q])
                       ELSE task[q]
<1>2. /\ meeting' = V!Written(t)
      /\ task' = [q \in Proc |-> Next1(q)]
      /\ outbox' = IF t.op = "erase" THEN {m \in outbox : ~m.application} ELSE outbox
      /\ job' = [job EXCEPT !.over = job # V!NoJob]
      /\ arranged' = IF t.op \in {"book", "move"} THEN now ELSE arranged
      /\ UNCHANGED <<now, calendar, jobs, reminded>>
  BY DEF V!Commit, Mailing, Overtaken
<1>3. \A q \in Proc : task'[q] = Next1(q)
  BY <1>2
<1>4. meeting' \in V!Meeting
  <2>1. t.op \in {"create", "book", "move", "cancel", "withdraw", "erase"}
    BY <1>1 DEF V!Asked
  <2>2. V!Written(t) \in V!Meeting
    BY <1>1, <2>1, WrittenIs DEF V!InvitationsTypeOK
  <2> QED
    BY <1>2, <2>2
<1>5. V!MailsOf(t) = <<>> \/ V!IsTodo(V!MailsOf(t))
  BY <1>1, MailsAreTodo DEF V!InvitationsTypeOK
<1>6. /\ V!IsTask(task'[p]) /\ task'[p].todo = V!MailsOf(t)
      /\ task'[p].pc \in {"idle", "mail"}
  <2>1. CASE V!MailsOf(t) = <<>>
    BY <1>3, <2>1, RestingIs
  <2>2. CASE V!MailsOf(t) # <<>>
    <3>1. task'[p] = Mailing(t, V!MailsOf(t))
      BY <1>3, <2>2
    <3>2. /\ task'[p] \in V!TaskRecord(V!MailsOf(t)) /\ task'[p].pc = "mail"
          /\ task'[p].todo = V!MailsOf(t)
      BY <1>1, <3>1, MailingIs
    <3> QED
      BY <1>5, <2>2, <3>2 DEF V!IsTask
  <2> QED
    BY <2>1, <2>2
<1>7. ASSUME NEW q \in Proc, q # p
      PROVE  /\ V!IsTask(task'[q]) /\ task'[q].todo = task[q].todo
             /\ task'[q].pc \in {"remind", "commit"} =>
                  /\ task'[q].over
                  /\ task[q].pc = task'[q].pc /\ task[q].op = task'[q].op
                  /\ task[q].want = task'[q].want
  <2>1. V!IsTask(task[q])
    BY DEF V!InvitationsTypeOK
  <2>2. CASE task[q].pc \in {"remind", "commit"}
    <3>1. task'[q] = Overtaken(task[q])
      BY <1>3, <1>7, <2>2
    <3>2. task[q] \in V!TaskRecord(<<>>) /\ task[q].todo = <<>> /\ V!Asked(task[q])
      BY <2>1, <2>2, RestingIs DEF V!IsTask
    <3>3. /\ task'[q] \in V!TaskRecord(<<>>) /\ task'[q].pc = task[q].pc
          /\ task'[q].op = task[q].op /\ task'[q].seen = task[q].seen
          /\ task'[q].want = task[q].want /\ task'[q].over /\ task'[q].todo = <<>>
      BY <3>1, <3>2, OvertakenIs
    <3>4. V!Asked(task'[q])
      BY <3>2, <3>3 DEF V!Asked
    <3> QED
      BY <2>2, <3>2, <3>3, <3>4 DEF V!IsTask
  <2>3. CASE task[q].pc \notin {"remind", "commit"}
    <3>1. task'[q] = task[q]
      BY <1>3, <1>7, <2>3
    <3> QED
      BY <2>1, <2>3, <3>1
  <2> QED
    BY <2>2, <2>3
<1>8. job' = V!NoJob \/ job' \in [pc : V!Side, start : Start, over : BOOLEAN]
  <2>1. CASE job = V!NoJob
    <3>1. V!NoJob.over = FALSE
      BY DEF V!NoJob
    <3>2. job' = [V!NoJob EXCEPT !.over = FALSE]
      BY <1>2, <2>1
    <3> QED
      BY <3>2 DEF V!NoJob
  <2>2. CASE job # V!NoJob
    BY <1>2, <2>2 DEF V!InvitationsTypeOK
  <2> QED
    BY <2>1, <2>2
<1>9. V!InvitationsTypeOK'
  <2>1. DOMAIN task' = Proc /\ task' = [q \in Proc |-> task'[q]]
    BY <1>2
  <2>2. \A q \in Proc : V!IsTask(task'[q])
    BY <1>6, <1>7
  <2>3. \A m \in outbox' : V!IsMail(m)
    BY <1>2 DEF V!InvitationsTypeOK
  <2>4. /\ now' \in Nat /\ arranged' \in Nat /\ jobs' \subseteq Start
        /\ calendar' \in [V!Side -> V!CalendarEntry]
        /\ reminded' \in [V!Side -> [Start -> Nat]]
    BY <1>2 DEF V!InvitationsTypeOK
  <2> QED
    BY <1>4, <1>8, <2>1, <2>2, <2>3, <2>4 DEF V!InvitationsTypeOK
<1>10. V!Queued(t.todo) = {}
  BY <1>1, QueuedIs
<1>11. \A m : m \in V!Coming' <=> \/ m \in outbox'
                                  \/ m \in V!Queued(V!MailsOf(t))
                                  \/ \E q \in Proc : q # p /\ m \in V!Queued(task[q].todo)
  BY <1>6, <1>7, ComingNext
<1>12. \A m : m \in V!Coming <=> \/ m \in outbox
                                 \/ \E q \in Proc : q # p /\ m \in V!Queued(task[q].todo)
  BY <1>10, ComingIs
<1> QED
  BY <1>2, <1>6, <1>7, <1>9, <1>11, <1>12

\* What a change and its mails do to the calendars.
LEMMA CommitCalendars ==
  ASSUME V!InvitationsIInv, V!InvitationsConstants, NEW p \in Proc, NEW t, t = task[p],
         V!Commit(p), ~V!Refused(t)
  PROVE  V!CalendarsFit'
<1> SUFFICES ASSUME ~overlapped'
             PROVE  /\ V!TimesFit'
                    /\ \A m \in V!Coming' : V!MailFits(V!EventOf(m))'
                    /\ \A side \in V!Side : V!EntryFits(calendar[side])' /\ V!LastIsComing(side)'
  BY DEF V!CalendarsFit
<1> USE DEF V!InvitationsIInv
<1>1. /\ \A m \in V!Coming' : m \in V!Coming \/ m \in V!Queued(V!MailsOf(t))
      /\ \A m \in V!Queued(V!MailsOf(t)) : m \in V!Coming'
      /\ \A m \in V!Coming : m \notin V!Coming' =>
           /\ t.op = "erase" /\ m \in outbox \ outbox' /\ m.application
  BY CommitTypes
<1>2. /\ meeting' = V!Written(t) /\ V!NoticeLost(outbox \ outbox')
      /\ ended' = IF t.op \in {"cancel", "withdraw", "erase"} THEN t.op ELSE ended
      /\ UNCHANGED <<now, calendar>>
      /\ ~overlapped /\ ~V!Crosses(t)
  BY DEF V!Commit
<1>3. /\ V!Asked(t) /\ t.pc = "commit" /\ t.seen \in V!Meeting
      /\ ~t.over => t.seen = meeting
  <2>1. V!IsTask(t) /\ t.pc = "commit"
    BY DEF V!InvitationsTypeOK, V!Commit
  <2>2. t.seen \in V!Meeting
    BY <2>1 DEF V!IsTask, V!TaskRecord
  <2> QED
    BY <2>1, <2>2, RestingIs DEF V!IsTask, V!LoadedIsThere
<1>4. /\ V!TimesFit
      /\ \A m \in V!Coming : V!MailFits(V!EventOf(m)) /\ V!IsMail(m)
      /\ \A side \in V!Side : /\ V!EntryFits(calendar[side]) /\ V!LastIsComing(side)
                              /\ calendar[side] \in V!CalendarEntry
      /\ meeting \in V!Meeting /\ meeting.seq \in Nat /\ 0 \notin Start /\ Start \subseteq Nat /\ now \in Nat
  BY <1>2, ComingIsMail DEF V!CalendarsFit, V!InvitationsTypeOK, V!Meeting, V!InvitationsConstants
<1>5. V!NoEvent.seq = -1
  BY DEF V!NoEvent
<1>6. CASE t.op = "create"
  <2>1. meeting.status = "none" /\ meeting.start = 0 /\ meeting.seq = 0
    BY <1>4, <1>6 DEF V!Refused, V!TimesFit
  <2>2. meeting'.status = "pending" /\ meeting'.start = 0 /\ meeting'.seq = 0
    BY <1>2, <1>4, <1>6, <2>1, WrittenIs
  <2>3. \A m \in V!Coming' : V!EventOf(m).method = "none"
    <3>1. V!Queued(V!MailsOf(t)) = {V!Invite}
      BY <1>6, QueuedIs DEF V!MailsOf
    <3>2. \A m \in V!Coming : V!EventOf(m).method = "none"
      BY <1>4, <2>1 DEF V!MailFits, V!IsMail
    <3> QED
      BY <1>1, <3>1, <3>2, InvitePlain
  <2>4. \A side \in V!Side : calendar'[side] = V!NoEvent
    BY <1>2, <1>4, <2>1 DEF V!EntryFits
  <2> QED
    BY <2>2, <2>3, <2>4 DEF V!TimesFit, V!MailFits, V!EntryFits, V!LastIsComing, V!CalledOff
<1>7. CASE t.op = "book"
  <2>1. t.seen = meeting /\ t.want \in Start /\ meeting.status = "pending"
    BY <1>2, <1>3, <1>7 DEF V!Crosses, V!Asked
  <2>2. meeting.start = 0 /\ meeting.seq = 0
    BY <1>4, <2>1 DEF V!TimesFit
  <2>3. meeting'.status = "booked" /\ meeting'.start = t.want /\ meeting'.seq = 0
    BY <1>2, <1>4, <1>7, <2>1, <2>2, WrittenIs
  <2>4. V!MailsOf(t) = V!BookingMails(t.want, 0)
    BY <1>7 DEF V!MailsOf
  <2>5. /\ \A m \in V!Queued(V!MailsOf(t)) :
             /\ V!EventOf(m).method = "REQUEST" /\ V!EventOf(m).sequence = 0
             /\ V!EventOf(m).start = t.want
        /\ \A side \in V!Side : \E m \in V!Queued(V!MailsOf(t)) : m.kwargs.to = side
    BY <2>1, <2>4, BookingMailsSay
  <2>6. \A m \in V!Coming : V!EventOf(m).method = "none"
    BY <1>4, <2>1, <2>2 DEF V!MailFits, V!IsMail
  <2>7. \A m \in V!Coming' : V!MailFits(V!EventOf(m))'
    BY <1>1, <1>4, <2>1, <2>3, <2>5, <2>6 DEF V!MailFits
  <2>8. ASSUME NEW side \in V!Side
        PROVE  V!EntryFits(calendar[side])' /\ V!LastIsComing(side)'
    <3>1. calendar'[side] = V!NoEvent
      BY <1>2, <1>4, <2>1, <2>2 DEF V!EntryFits
    <3>2. PICK m \in V!Queued(V!MailsOf(t)) : m.kwargs.to = side
      BY <2>5
    <3> QED
      BY <1>1, <2>3, <2>5, <3>1, <3>2 DEF V!EntryFits, V!LastIsComing, V!CalledOff
  <2> QED
    BY <2>3, <2>7, <2>8 DEF V!TimesFit
<1>8. CASE t.op = "move"
  <2>1. t.want \in Start
    BY <1>3, <1>8 DEF V!Asked
  <2>2. /\ meeting'.status = "booked" /\ meeting'.start = t.want /\ meeting'.seq = meeting.seq + 1
        /\ meeting.status = "booked"
    <3>1. /\ meeting'.status = "booked" /\ meeting'.seq = meeting.seq + 1 /\ meeting.status = "booked"
          /\ meeting'.start = IF t.want = t.seen.start THEN meeting.start ELSE t.want
      BY <1>2, <1>4, <1>8, <2>1, WrittenIs
    <3>2. t.want = t.seen.start => t.seen = meeting
      BY <1>2, <1>3 DEF V!Crosses
    <3> QED
      BY <3>1, <3>2
  <2>3. V!MailsOf(t) = V!BookingMails(t.want, meeting.seq + 1) /\ meeting.seq + 1 \in Nat
    BY <1>4, <1>8 DEF V!MailsOf
  <2>4. /\ \A m \in V!Queued(V!MailsOf(t)) :
             /\ V!EventOf(m).method = "REQUEST" /\ V!EventOf(m).sequence = meeting.seq + 1
             /\ V!EventOf(m).start = t.want
        /\ \A side \in V!Side : \E m \in V!Queued(V!MailsOf(t)) : m.kwargs.to = side
    BY <2>1, <2>3, BookingMailsSay
  <2>5. \A m \in V!Coming : /\ V!EventOf(m).method # "CANCEL"
                            /\ V!EventOf(m).method = "REQUEST" =>
                               V!EventOf(m).sequence <= meeting.seq /\ V!EventOf(m).sequence \in Nat
    BY <1>4, <2>2 DEF V!MailFits, V!IsMail
  <2>6. \A m \in V!Coming' : V!MailFits(V!EventOf(m))'
    <3> SUFFICES ASSUME NEW m \in V!Coming'
                 PROVE  V!MailFits(V!EventOf(m))'
      OBVIOUS
    <3>1. CASE m \in V!Coming
      BY <1>4, <2>1, <2>2, <2>5, <3>1 DEF V!MailFits
    <3>2. CASE m \in V!Queued(V!MailsOf(t))
      BY <1>4, <2>1, <2>2, <2>4, <3>2 DEF V!MailFits
    <3> QED
      BY <1>1, <3>1, <3>2
  <2>7. ASSUME NEW side \in V!Side
        PROVE  V!EntryFits(calendar[side])' /\ V!LastIsComing(side)'
    <3> DEFINE c == calendar[side]
    <3>1. c = V!NoEvent \/ (c.there /\ c.seq <= meeting.seq /\ c.seq \in Int)
      BY <1>4, <2>2 DEF V!EntryFits, V!CalendarEntry
    <3>2. calendar'[side] = c
      BY <1>2
    <3> HIDE DEF c
    <3>3. V!EntryFits(calendar[side])'
      BY <1>4, <2>1, <2>2, <3>1, <3>2 DEF V!EntryFits
    <3>4. PICK m \in V!Queued(V!MailsOf(t)) : m.kwargs.to = side
      BY <2>4
    <3>5. V!LastIsComing(side)'
      BY <1>1, <2>2, <2>4, <3>4 DEF V!LastIsComing, V!CalledOff
    <3> QED
      BY <3>3, <3>5
  <2> QED
    BY <2>2, <2>6, <2>7 DEF V!TimesFit
<1>9. CASE t.op \in {"cancel", "withdraw"}
  <2>1. t.seen = meeting /\ meeting.status \in {"pending", "booked"}
    BY <1>2, <1>3, <1>9 DEF V!Crosses, V!Asked
  <2>2. meeting'.status = "cancelled" /\ meeting'.start = meeting.start /\ meeting'.seq = meeting.seq /\ ended' = t.op
    BY <1>2, <1>4, <1>9, WrittenIs
  <2>3. V!MailsOf(t) = V!CancelMails(t.op, meeting)
    BY <1>9, <2>1 DEF V!MailsOf
  <2>4. /\ \A m \in V!Queued(V!MailsOf(t)) :
             \/ V!EventOf(m).method = "none"
             \/ V!EventOf(m).method = "CANCEL" /\ V!EventOf(m).sequence = meeting.seq + 1 /\ meeting.start # 0
        /\ meeting.start # 0 =>
                  \E m \in V!Queued(V!MailsOf(t)) :
               m.kwargs.to = "interviewer" /\ V!EventOf(m).method = "CANCEL"
        /\ meeting.start # 0 /\ t.op = "cancel" =>
                  \E m \in V!Queued(V!MailsOf(t)) :
               m.kwargs.to = "candidate" /\ V!EventOf(m).method = "CANCEL"
    BY <1>4, <1>9, <2>3, CancelMailsSay
  <2>5. \A m \in V!Coming' : V!MailFits(V!EventOf(m))'
    BY <1>1, <1>4, <2>1, <2>2, <2>4 DEF V!MailFits
  <2>6. ASSUME NEW side \in V!Side
        PROVE  V!EntryFits(calendar[side])' /\ V!LastIsComing(side)'
    <3>1. V!EntryFits(calendar[side])'
      BY <1>2, <1>4, <2>1, <2>2 DEF V!EntryFits
    <3>2. V!LastIsComing(side)'
      BY <1>1, <2>2, <2>4 DEF V!LastIsComing, V!CalledOff, V!Side
    <3> QED
      BY <3>1, <3>2
  <2> QED
    BY <2>2, <2>5, <2>6 DEF V!TimesFit
<1>10. CASE t.op = "erase"
  <2>1. t.seen = meeting /\ meeting.status \notin {"none", "erased"}
    BY <1>2, <1>3, <1>10 DEF V!Crosses, V!Asked, V!Refused
  <2>2. meeting'.status = "erased" /\ meeting'.start = meeting.start /\ meeting'.seq = meeting.seq
    BY <1>2, <1>4, <1>10, WrittenIs
  <2>3. V!MailsOf(t) = V!EraseMails(meeting)
    BY <1>10, <2>1 DEF V!MailsOf
  <2>4. /\ \A m \in V!Queued(V!MailsOf(t)) :
             /\ V!EventOf(m).method = "CANCEL" /\ V!EventOf(m).sequence = meeting.seq + 1
             /\ meeting.start # 0
        /\ meeting.status = "booked" /\ meeting.start > now =>
                  \E m \in V!Queued(V!MailsOf(t)) :
               m.kwargs.to = "interviewer" /\ V!EventOf(m).method = "CANCEL"
    BY <1>4, <2>3, EraseMailsSay
  <2>5. \A m \in V!Coming' : V!MailFits(V!EventOf(m))'
    BY <1>1, <1>4, <2>1, <2>2, <2>4 DEF V!MailFits
  <2>6. ASSUME NEW side \in V!Side
        PROVE  V!EntryFits(calendar[side])'
    BY <1>2, <1>4, <2>1, <2>2 DEF V!EntryFits
  <2>7. ASSUME meeting.start > now, "interviewer" \notin lost'
        PROVE  \/ calendar["interviewer"].seq = meeting.seq + 1
               \/ \E m \in V!Coming' : m.kwargs.to = "interviewer" /\ V!EventOf(m).method = "CANCEL"
    <3>1. CASE meeting.status = "pending"
      <4>1. meeting.start = 0
        BY <1>4, <3>1 DEF V!TimesFit
      <4> QED
        BY <1>4, <2>7, <4>1
    <3>2. CASE meeting.status = "booked"
      BY <1>1, <2>4, <2>7, <3>2
    <3>3. CASE meeting.status = "cancelled"
      <4>1. lost \subseteq lost'
        BY <1>2, NoticeLostIs
      <4>2. meeting.start # 0
        BY <1>4, <2>7
      <4>3. V!CalledOff("interviewer") /\ V!LastIsComing("interviewer")
        BY <1>4, <3>3, <4>2 DEF V!CalledOff, V!Side
      <4>4. \/ calendar["interviewer"].seq = meeting.seq + 1
            \/ \E m \in V!Coming : m.kwargs.to = "interviewer" /\ V!EventOf(m).method = "CANCEL"
        BY <2>7, <4>1, <4>3 DEF V!LastIsComing
      <4>5. ASSUME NEW m \in V!Coming, m.kwargs.to = "interviewer", V!EventOf(m).method = "CANCEL"
            PROVE  m \in V!Coming'
        <5>1. m.kind = "interview_cancelled_interviewer"
          BY <1>4, <4>5 DEF V!IsMail
        <5>2. m \in outbox \ outbox' /\ m.application => "interviewer" \in lost'
          BY <1>2, <5>1, NoticeLostIs
        <5> QED
          BY <1>1, <2>7, <5>2
      <4> QED
        BY <4>4, <4>5
    <3> QED
      BY <1>4, <2>1, <3>1, <3>2, <3>3 DEF V!Meeting
  <2>8. ASSUME NEW side \in V!Side
        PROVE  V!LastIsComing(side)'
    BY <1>2, <2>2, <2>7 DEF V!LastIsComing, V!CalledOff
  <2> QED
    BY <2>2, <2>5, <2>6, <2>8 DEF V!TimesFit
<1> QED
  BY <1>3, <1>6, <1>7, <1>8, <1>9, <1>10 DEF V!Asked

\* What a change does to the reminders: the one that runs is overtaken, and the
\* new time has its job.
LEMMA CommitReminders ==
  ASSUME V!InvitationsIInv, V!InvitationsConstants, NEW p \in Proc, NEW t, t = task[p],
         V!Commit(p), ~V!Refused(t)
  PROVE  V!RemindersFit'
<1> USE DEF V!InvitationsIInv
<1>1. \A q \in Proc : task'[q].pc \in {"remind", "commit"} =>
        /\ task[q].pc = task'[q].pc /\ task[q].op = task'[q].op
        /\ task[q].want = task'[q].want
  BY CommitTypes
<1>2. /\ meeting' = V!Written(t)
      /\ job' = [job EXCEPT !.over = job # V!NoJob]
      /\ arranged' = IF t.op \in {"book", "move"} THEN now ELSE arranged
      /\ overlapped' = (overlapped \/ V!Crosses(t))
      /\ UNCHANGED <<now, jobs, reminded>>
      /\ t.pc = "commit"
      /\ V!NoticeLost(outbox \ outbox')
  BY DEF V!Commit
<1>3. lost \subseteq lost' /\ lost' \subseteq lost \cup {"interviewer"}
  BY <1>2, NoticeLostIs
<1>4. /\ job'.start = job.start /\ job'.pc = job.pc
      /\ job' # V!NoJob => job # V!NoJob /\ job'.over
  <2>1. CASE job = V!NoJob
    <3>1. job' = [V!NoJob EXCEPT !.over = FALSE]
      BY <1>2, <2>1
    <3>2. job' = V!NoJob
      BY <3>1 DEF V!NoJob
    <3> QED
      BY <2>1, <3>2
  <2>2. CASE job # V!NoJob
    <3>1. job \in [pc : V!Side, start : Start, over : BOOLEAN] /\ job' = [job EXCEPT !.over = TRUE]
      BY <1>2, <2>2 DEF V!InvitationsTypeOK
    <3> QED
      BY <2>2, <3>1
  <2> QED
    BY <2>1, <2>2
<1>5. /\ V!IsTask(t) /\ V!Asked(t) /\ t.seen \in V!Meeting
      /\ t.op \in {"create", "book", "move", "cancel", "withdraw", "erase"}
      /\ t.want \in Start \/ t.op \notin {"book", "move"}
      /\ ~t.over => t.seen = meeting
  <2>1. V!IsTask(t) /\ t.pc = "commit"
    BY <1>2 DEF V!InvitationsTypeOK
  <2>2. t.seen \in V!Meeting
    BY <2>1 DEF V!IsTask, V!TaskRecord
  <2>3. V!Asked(t) /\ (~t.over => t.seen = meeting)
    BY <2>1, RestingIs DEF V!IsTask, V!LoadedIsThere
  <2> QED
    BY <2>1, <2>2, <2>3 DEF V!Asked
<1>6. /\ t.op \notin {"book", "move"} => meeting'.status # "booked"
      /\ t.op \in {"book", "move"} /\ ~overlapped' => meeting'.start = t.want
  <2>1. meeting \in V!Meeting
    BY DEF V!InvitationsTypeOK
  <2>2. t.op \notin {"book", "move"} => meeting'.status # "booked"
    BY <1>2, <1>5, <2>1, WrittenIs
  <2>3. t.op = "book" => meeting'.start = t.want
    BY <1>2, <1>5, <2>1, WrittenIs
  <2>4. ASSUME t.op = "move", ~overlapped'
        PROVE  meeting'.start = t.want
    <3>1. meeting'.start = IF t.want = t.seen.start THEN meeting.start ELSE t.want
      BY <1>2, <1>5, <2>1, <2>4, WrittenIs
    <3>2. t.want = t.seen.start => t.seen = meeting
      BY <1>2, <1>5, <2>4 DEF V!Crosses
    <3> QED
      BY <3>1, <3>2
  <2> QED
    BY <2>2, <2>3, <2>4
<1>7. V!ReminderWaits'
  <2>1. V!ReminderWaits
    BY DEF V!RemindersFit
  <2> QED
    BY <1>1, <1>2, <1>3, <1>4, <2>1 DEF V!ReminderWaits
<1>8. V!RemindersHold'
  <2>1. ASSUME meeting'.status = "booked", meeting'.start - DAY > arranged', "reminder" \notin lost', ~overlapped'
        PROVE  meeting'.start \in jobs
    <3>1. t.op \in {"book", "move"} /\ meeting'.start = t.want /\ t.want - DAY > now
      BY <1>2, <1>6, <2>1
    <3> QED
      BY <1>2, <1>3, <2>1, <3>1 DEF V!RemindersFit, V!ReminderWaits
  <2>2. \A side \in V!Side, s \in Start : reminded[side][s] <= 1 \/ "rerun" \in lost'
    BY <1>3 DEF V!RemindersFit, V!RemindersHold
  <2> QED
    BY <1>2, <1>4, <2>1, <2>2 DEF V!RemindersHold
<1>9. "rerun" \notin lost' => \A side \in V!Side, s \in Start : V!RemindedOnce(side, s)'
  BY <1>2, <1>3, <1>4 DEF V!RemindersFit, V!RemindedOnce
<1> QED
  BY <1>7, <1>8, <1>9 DEF V!RemindersFit

LEMMA CommitKeeps ==
  ASSUME V!InvitationsIInv, V!InvitationsConstants, NEW p \in Proc, V!Commit(p)
  PROVE  V!InvitationsIInv'
<1> USE DEF V!InvitationsIInv
<1>1. CASE V!Refused(task[p])
  <2>1. /\ V!Goto(p, V!Resting) /\ task[p].pc = "commit"
        /\ UNCHANGED <<meeting, outbox, job, arranged, ended, overlapped, lost, now, calendar, jobs, reminded>>
    BY <1>1 DEF V!Commit
  <2>2. /\ task' = [q \in Proc |-> IF q = p THEN V!Resting ELSE task[q]]
        /\ \A q \in Proc : task'[q] = IF q = p THEN V!Resting ELSE task[q]
    BY <2>1, OneGoesOn
  <2>3. V!InvitationsTypeOK'
    BY <2>1, <2>2, RestingIs DEF V!InvitationsTypeOK
  <2>4. \A q \in Proc : task'[q].todo = task[q].todo
    <3>1. V!IsTask(task[p])
      BY DEF V!InvitationsTypeOK
    <3>2. task[p].todo = <<>>
      BY <2>1, <3>1, TaskCases
    <3> QED
      BY <2>2, <3>2, RestingIs
  <2>5. V!Coming' = V!Coming
    BY <2>1, <2>4, ComingStays
  <2>6. V!LoadedIsThere'
    BY <2>1, <2>2, RestingIs DEF V!LoadedIsThere
  <2>7. V!CalendarsFit'
    BY <2>1, <2>5, CalendarsKeep DEF V!InvitationsTypeOK
  <2>8. V!RemindersFit'
    BY <2>1, <2>2, RestingIs, RemindersKeep
  <2> QED
    BY <2>3, <2>6, <2>7, <2>8
<1>2. CASE ~V!Refused(task[p])
  <2>1. /\ V!InvitationsTypeOK'
        /\ \A q \in Proc : task'[q].pc \in {"remind", "commit"} => task'[q].over
    BY <1>2, CommitTypes
  <2>2. V!LoadedIsThere'
    BY <2>1 DEF V!LoadedIsThere
  <2> QED
    BY <1>2, <2>1, <2>2, CommitCalendars, CommitReminders
<1> QED
  BY <1>1, <1>2

LEMMA InvitationsBegin ==
  ASSUME V!Init, V!InvitationsConstants
  PROVE  V!InvitationsIInv
<1>1. /\ now = 0 /\ meeting = V!Nothing /\ task = [p \in Proc |-> V!Resting] /\ outbox = {}
      /\ calendar = [s \in V!Side |-> V!NoEvent] /\ jobs = {} /\ job = V!NoJob
      /\ reminded = [s \in V!Side |-> [x \in Start |-> 0]]
      /\ arranged = 0 /\ lost = {} /\ ~overlapped
  BY DEF V!Init
<1>2. meeting \in V!Meeting /\ meeting.status = "none" /\ meeting.start = 0 /\ meeting.seq = 0
  BY <1>1 DEF V!Nothing, V!Meeting
<1>3. V!NoEvent \in V!CalendarEntry
  BY DEF V!NoEvent, V!CalendarEntry
<1>4. V!InvitationsTypeOK
  BY <1>1, <1>2, <1>3, RestingIs DEF V!InvitationsTypeOK
<1>5. \A m : m \notin V!Coming
  BY <1>1, RestingIs, QueuedIs, ComingIs
<1>6. V!LoadedIsThere
  BY <1>1, RestingIs DEF V!LoadedIsThere
<1>7. V!CalendarsFit
  BY <1>1, <1>2, <1>5 DEF V!CalendarsFit, V!TimesFit, V!EntryFits, V!LastIsComing, V!CalledOff
<1>8. V!NoJob.start = 0 /\ 0 \notin Start
  BY DEF V!NoJob, V!InvitationsConstants
<1>9. V!RemindersFit
  BY <1>1, <1>2, <1>8, RestingIs
     DEF V!RemindersFit, V!RemindersHold, V!ReminderWaits, V!RemindedOnce
<1> QED
  BY <1>4, <1>6, <1>7, <1>9 DEF V!InvitationsIInv

LEMMA InvitationsGoOn ==
  ASSUME V!InvitationsIInv, V!InvitationsConstants, [V!Next]_(V!vars)
  PROVE  V!InvitationsIInv'
<1>1. CASE UNCHANGED V!vars
  <2>1. /\ UNCHANGED <<meeting, task, outbox, calendar, arranged, ended, overlapped, now, lost, jobs, job>>
        /\ reminded' = reminded
    BY <1>1 DEF V!vars, V!world, V!reminding, V!past
  <2>2. V!InvitationsTypeOK /\ V!LoadedIsThere /\ V!CalendarsFit /\ V!RemindersFit
    BY DEF V!InvitationsIInv
  <2>3. /\ now' \in Nat /\ now <= now' /\ lost \subseteq lost' /\ jobs' \subseteq Start
        /\ job' = V!NoJob \/ job' \in [pc : V!Side, start : Start, over : BOOLEAN]
        /\ reminded' \in [V!Side -> [Start -> Nat]]
    BY <2>1, <2>2 DEF V!InvitationsTypeOK
  <2>4. V!InvitationsTypeOK' /\ V!LoadedIsThere' /\ V!CalendarsFit'
    BY <2>1, <2>2, <2>3, JobsKeep
  <2>5. V!RemindersFit'
    BY <2>1, <2>2, RemindersKeep
  <2> QED
    BY <2>4, <2>5 DEF V!InvitationsIInv
<1>2. ASSUME NEW p \in Proc, V!BeginCreate(p)
      PROVE  V!InvitationsIInv'
  BY <1>2, BeginKeeps DEF V!BeginCreate
<1>3. ASSUME NEW p \in Proc, V!BeginErase(p)
      PROVE  V!InvitationsIInv'
  <2>1. V!Begin(p, "erase", 0) /\ meeting.status # "none"
    BY <1>3 DEF V!BeginErase
  <2> QED
    BY <2>1, BeginKeeps
<1>4. ASSUME NEW p \in Proc, V!QueueReminder(p)
      PROVE  V!InvitationsIInv'
  BY <1>4, QueueReminderKeeps
<1>5. ASSUME NEW p \in Proc, V!Commit(p)
      PROVE  V!InvitationsIInv'
  BY <1>5, CommitKeeps
<1>6. ASSUME NEW p \in Proc, V!QueueMail(p)
      PROVE  V!InvitationsIInv'
  BY <1>6, QueuedMailKeeps
<1>7. ASSUME NEW p \in Proc, V!Abort(p)
      PROVE  V!InvitationsIInv'
  BY <1>7, AbortedKeeps
<1>8. ASSUME NEW p \in Proc, NEW s \in Start, V!BeginBook(p, s)
      PROVE  V!InvitationsIInv'
  <2>1. V!Begin(p, "book", s) /\ meeting.status = "pending"
    BY <1>8 DEF V!BeginBook
  <2> QED
    BY <2>1, BeginKeeps
<1>9. ASSUME NEW p \in Proc, NEW s \in Start, V!BeginMove(p, s)
      PROVE  V!InvitationsIInv'
  <2>1. V!Begin(p, "move", s) /\ meeting.status = "booked"
    BY <1>9 DEF V!BeginMove
  <2> QED
    BY <2>1, BeginKeeps
<1>10. ASSUME NEW p \in Proc, NEW op \in {"cancel", "withdraw"}, V!BeginCancel(p, op)
       PROVE  V!InvitationsIInv'
  <2>1. V!Begin(p, op, 0) /\ meeting.status \in {"pending", "booked"}
    BY <1>10 DEF V!BeginCancel, V!Active
  <2> QED
    BY <1>10, <2>1, BeginKeeps
<1>11. ASSUME NEW m \in outbox, V!Deliver(m)
       PROVE  V!InvitationsIInv'
  BY <1>11, DeliverKeeps
<1>12. CASE V!Download
  BY <1>12, DownloadKeeps
<1>13. ASSUME NEW s \in jobs, V!StartReminder(s)
       PROVE  V!InvitationsIInv'
  BY <1>13, StartReminderKeeps
<1>14. CASE V!SendReminder
  BY <1>14, SendReminderKeeps
<1>15. ASSUME NEW again \in BOOLEAN, V!ReminderFails(again)
       PROVE  V!InvitationsIInv'
  BY <1>15, ReminderFailsKeeps
<1>16. CASE V!Tick
  BY <1>16, TickKeeps
<1> QED
  BY <1>1, <1>2, <1>3, <1>4, <1>5, <1>6, <1>7, <1>8, <1>9, <1>10, <1>11, <1>12, <1>13, <1>14,
     <1>15, <1>16 DEF V!Next

\* With nothing on its way any more, the calendars show what is booked.
LEMMA CalendarsThenFollow ==
  ASSUME V!InvitationsIInv, V!InvitationsConstants
  PROVE  V!CalendarsFollow
<1> USE DEF V!InvitationsIInv
<1> SUFFICES ASSUME NEW side \in V!Side, V!Served(side), ~overlapped
             PROVE  /\ meeting.status = "booked" =>
                              calendar[side].there /\ calendar[side].start = meeting.start
                    /\ meeting.status = "cancelled" /\ (side = "interviewer" \/ ended = "cancel") =>
                              ~calendar[side].there
                    /\ meeting.status = "erased" /\ side = "interviewer" =>
                              ~calendar[side].there \/ meeting.start <= now
  BY DEF V!CalendarsFollow
<1>1. /\ V!TimesFit /\ V!EntryFits(calendar[side]) /\ V!LastIsComing(side)
      /\ meeting \in V!Meeting /\ meeting.seq \in Nat /\ meeting.start \in Nat /\ now \in Nat /\ 0 \notin Start
      /\ calendar[side].seq \in Int
  BY DEF V!CalendarsFit, V!InvitationsTypeOK, V!Meeting, V!InvitationsConstants, V!CalendarEntry
<1>2. side \notin lost /\ \A m \in V!Coming : m.kwargs.to # side
  <2>1. \A q \in Proc : task[q].todo = <<>>
    BY TaskCases DEF V!Served, V!InvitationsTypeOK
  <2>2. \A m : m \in V!Coming => m \in outbox
    BY <2>1, QueuedIs, ComingIs
  <2> QED
    BY <2>2 DEF V!Served
<1>3. V!NoEvent.seq = -1 /\ ~V!NoEvent.there
  BY DEF V!NoEvent
<1>4. meeting.status = "booked" => calendar[side].there /\ calendar[side].start = meeting.start
  <2> SUFFICES ASSUME meeting.status = "booked"
               PROVE  calendar[side].there /\ calendar[side].start = meeting.start
    OBVIOUS
  <2>1. calendar[side].seq = meeting.seq
    BY <1>1, <1>2 DEF V!LastIsComing
  <2> QED
    BY <1>1, <1>3, <2>1 DEF V!EntryFits
<1>5. V!CalledOff(side) => ~calendar[side].there
  <2> SUFFICES ASSUME V!CalledOff(side)
               PROVE  ~calendar[side].there
    OBVIOUS
  <2>1. calendar[side].seq = meeting.seq + 1
    BY <1>1, <1>2 DEF V!LastIsComing
  <2> QED
    BY <1>1, <1>3, <2>1 DEF V!EntryFits
<1>6. meeting.start = 0 => ~calendar[side].there
  BY <1>1, <1>3 DEF V!EntryFits
<1> QED
  BY <1>1, <1>4, <1>5, <1>6 DEF V!CalledOff

\* Both calendars follow the interview whatever the order in which two changes,
\* their mails and a download arrive, and both sides are reminded of the booked
\* time, once: for any number of requests, of starts and of moves.
THEOREM CalendarsAndReminders == V!Spec => []InvitationsHold
<1>1. V!Init => V!InvitationsIInv
  BY InvitationsAreSound, InvitationsBegin
<1>2. V!InvitationsIInv /\ [V!Next]_(V!vars) => V!InvitationsIInv'
  BY InvitationsAreSound, InvitationsGoOn
<1>3. V!InvitationsIInv => InvitationsHold
  BY InvitationsAreSound, CalendarsThenFollow
     DEF InvitationsHold, V!InvitationsHold, V!InvitationsIInv, V!RemindersFit
<1> QED
  BY <1>1, <1>2, <1>3, PTL DEF V!Spec
=============================================================================
