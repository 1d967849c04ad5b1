---------------------------- MODULE OutboxProofs ----------------------------
(***************************************************************************)
(* Proofs about Outbox, for any number of requests, deliveries and         *)
(* faults: its type invariant, the bounds on provider calls, and that a    *)
(* cancelled mail is never sent.                                           *)
(***************************************************************************)
EXTENDS Outbox, TLAPS

LEMMA InitType == Init => TypeOK
<1> SUFFICES ASSUME Init PROVE TypeOK
  OBVIOUS
<1>1. NoRow \in Row
  BY DEF NoRow, Row, Status, Kind
<1>2. 0 \in 0 .. MaxJobs /\ 0 \in 0 .. MaxFaults
  BY BoundsAreNatural
<1>3. stage \in Stage /\ seen \in [Req -> Stage] /\ appLock \in Req \cup {None}
  BY DEF Init, Stage
<1>4. rows \in [Req -> Row] /\ due \in [Req -> BOOLEAN] /\ lock \in [Req -> Worker \cup {None}]
  BY <1>1 DEF Init
<1>5. jobs \in [Req -> 0 .. MaxJobs] /\ suppressed \in BOOLEAN /\ faults \in 0 .. MaxFaults
  BY <1>2 DEF Init
<1>6. /\ calls \in [Req -> Nat] /\ delivered \in [Req -> Nat] /\ revoked \subseteq Req
      /\ todo \in [Req -> SUBSET Req] /\ op \in [Req -> Ops]
  BY DEF Init
<1> QED
  BY <1>3, <1>4, <1>5, <1>6 DEF Init, TypeOK

\* Rewriting the status, or a status and a counter, of a row keeps it a row.
LEMMA RowUpdate ==
  ASSUME NEW r \in Row, NEW s \in Status, NEW n \in Nat
  PROVE  /\ [r EXCEPT !.status = s] \in Row
         /\ [r EXCEPT !.status = s, !.attempts = n] \in Row
  BY DEF Row

LEMMA SetStatusType ==
  ASSUME TypeOK, NEW S, NEW s \in Status
  PROVE  SetStatus(S, s) \in [Req -> Row]
<1> SUFFICES ASSUME NEW q \in Req
             PROVE  [rows[q] EXCEPT !.status = s] \in Row /\ rows[q] \in Row
  BY DEF SetStatus
<1> QED
  BY RowUpdate DEF TypeOK

LEMMA SetStatusFields ==
  ASSUME TypeOK, NEW S, NEW s, NEW q \in Req
  PROVE  /\ q \notin S => SetStatus(S, s)[q] = rows[q]
         /\ q \in S => /\ SetStatus(S, s)[q].status = s
                       /\ SetStatus(S, s)[q].attempts = rows[q].attempts
                       /\ SetStatus(S, s)[q].held = rows[q].held
                       /\ SetStatus(S, s)[q].kind = rows[q].kind
<1>1. rows[q] \in Row
  BY DEF TypeOK
<1>2. SetStatus(S, s)[q] = IF q \in S THEN [rows[q] EXCEPT !.status = s] ELSE rows[q]
  BY DEF SetStatus
<1> QED
  BY <1>1, <1>2 DEF Row

LEMMA AttemptedFields ==
  ASSUME TypeOK, NEW r \in Req, NEW s \in Status
  PROVE  /\ Attempted(r, s) \in [Req -> Row]
         /\ Attempted(r, s)[r].status = s
         /\ Attempted(r, s)[r].attempts = rows[r].attempts + 1
         /\ Attempted(r, s)[r].held = rows[r].held
         /\ \A q \in Req : q # r => Attempted(r, s)[q] = rows[q]
<1> DEFINE new == [rows[r] EXCEPT !.status = s, !.attempts = @ + 1]
<1>1. rows \in [Req -> Row] /\ rows[r] \in Row /\ rows[r].attempts + 1 \in Nat
  BY DEF TypeOK, Row
<1>2. new \in Row
  BY <1>1, RowUpdate
<1>3. new.status = s /\ new.attempts = rows[r].attempts + 1 /\ new.held = rows[r].held
  BY <1>1 DEF Row
<1>4. \A q \in Req : q # r => Attempted(r, s)[q] = rows[q]
  BY DEF Attempted
<1>5. Attempted(r, s)[r] = new
  BY DEF Attempted
<1>6. Attempted(r, s) \in [Req -> Row]
  <2>1. \A q \in Req : Attempted(r, s)[q] \in Row
    BY <1>1, <1>2, <1>4, <1>5
  <2>2. Attempted(r, s) = [q \in Req |-> Attempted(r, s)[q]]
    BY DEF Attempted
  <2> QED
    BY <2>1, <2>2
<1> QED
  BY <1>3, <1>4, <1>5, <1>6

LEMMA RequestType ==
  ASSUME NEW q \in Req, TypeOK, Request(q)
  PROVE  TypeOK'
<1> USE BoundsAreNatural, OpsAreRequests DEF TypeOK, Goto
<1>op. op[q].target \in Stage /\ AfterMove(q) \in {"queue", "done"}
  BY DEF AllOps, Stage, AfterMove
<1>set. \A S : SetStatus(S, "cancelled") \in [Req -> Row]
  BY SetStatusType DEF Status
<1>1. CASE Load(q)
  BY <1>1 DEF Load, wrkVars, history, AllOps
<1>2. CASE MailAgain(q)
  BY <1>2 DEF MailAgain, wrkVars, history
<1>3. CASE CheckHeld(q)
  BY <1>3 DEF CheckHeld, wrkVars, history
<1>4. CASE SetStage(q)
  BY <1>4, <1>op DEF SetStage, wrkVars, history, AllOps
<1>5. CASE SelectHeld(q)
  BY <1>5 DEF SelectHeld, wrkVars, history
<1>6. CASE FlushWithdraw(q)
  BY <1>6 DEF FlushWithdraw, wrkVars, history
<1>7. CASE CancelHeld(q)
  BY <1>7, <1>op, <1>set DEF CancelHeld, CancelRows, wrkVars
<1>8. CASE CommitWithdraw(q)
  BY <1>8, <1>set DEF CommitWithdraw, CancelRows, Stage, wrkVars
<1>9. CASE QueueEmail(q)
  BY <1>9 DEF QueueEmail, Row, Status, Kind, wrkVars, history
<1>10. CASE Enqueue(q)
  BY <1>10 DEF Enqueue, wrkVars, history
<1> QED
  BY <1>1, <1>2, <1>3, <1>4, <1>5, <1>6, <1>7, <1>8, <1>9, <1>10 DEF Request

LEMMA DeliveryType ==
  ASSUME NEW w \in Worker, TypeOK, LockDiscipline, Delivery(w)
  PROVE  TypeOK'
<1> USE BoundsAreNatural, NoneIsNobody DEF TypeOK, Step, Release
<1>row. wpc[w] # "idle" => wrow[w] \in Req
  BY DEF LockDiscipline
<1>set. \A S : \A s \in Status : SetStatus(S, s) \in [Req -> Row]
  BY SetStatusType
<1>st. {"cancelled", "failed", "suppressed", "sent", "queued"} \subseteq Status
  BY DEF Status
<1>1. ASSUME NEW q \in Req, Take(w, q) PROVE TypeOK'
  BY <1>1 DEF Take, reqVars, history
<1>2. CASE CheckStage(w)
  BY <1>2, <1>row, <1>set, <1>st DEF CheckStage, reqVars
<1>3. CASE CheckAddress(w)
  BY <1>3, <1>row, <1>set, <1>st DEF CheckAddress, reqVars, history
<1>4. CASE Dispatch(w)
  BY <1>4, <1>row DEF Dispatch, Accepts, Rejects, AnswerLost, reqVars
<1>5. CASE CommitSent(w)
  <2>1. wrow[w] \in Req
    BY <1>5, <1>row DEF CommitSent
  <2>2. rows' \in [Req -> Row]
    BY <1>5, <2>1, <1>st, AttemptedFields DEF CommitSent
  <2> QED
    BY <1>5, <2>1, <2>2 DEF CommitSent, reqVars, history
<1>6. CASE CommitFailure(w)
  <2>1. wrow[w] \in Req
    BY <1>6, <1>row DEF CommitFailure
  <2>2. \A s \in {"failed", "queued"} : Attempted(wrow[w], s) \in [Req -> Row]
    BY <2>1, <1>st, AttemptedFields
  <2>3. rows' \in [Req -> Row]
    BY <1>6, <2>2 DEF CommitFailure
  <2> QED
    BY <1>6, <2>1, <2>3 DEF CommitFailure, reqVars, history
<1> QED
  BY <1>1, <1>2, <1>3, <1>4, <1>5, <1>6 DEF Delivery

LEMMA OtherType ==
  ASSUME NEW q \in Req, TypeOK,
         \/ Abort(q) \/ CancelScheduled(q) \/ ApplyEvents(q)
         \/ Tick(q) \/ SweepOutbox(q) \/ TakeStale(q)
  PROVE  TypeOK'
<1> USE BoundsAreNatural DEF TypeOK, Goto
<1>set. \A S : \A s \in {"cancelled", "bounced"} : SetStatus(S, s) \in [Req -> Row]
  BY SetStatusType DEF Status
<1>1. CASE Abort(q)
  BY <1>1 DEF Abort, wrkVars, history
<1>2. CASE CancelScheduled(q)
  BY <1>2, <1>set DEF CancelScheduled, reqVars, wrkVars
<1>3. CASE ApplyEvents(q)
  BY <1>3, <1>set DEF ApplyEvents, reqVars, wrkVars, history
<1>4. CASE Tick(q)
  BY <1>4 DEF Tick, reqVars, wrkVars, history
<1>5. CASE SweepOutbox(q)
  BY <1>5 DEF SweepOutbox, reqVars, wrkVars, history
<1>6. CASE TakeStale(q)
  BY <1>6 DEF TakeStale, reqVars, wrkVars, history
<1> QED
  BY <1>1, <1>2, <1>3, <1>4, <1>5, <1>6

LEMMA WorkerCrashType ==
  ASSUME NEW w \in Worker, TypeOK, LockDiscipline, WorkerCrash(w)
  PROVE  TypeOK'
<1>1. wrow[w] \in Req
  BY DEF LockDiscipline, WorkerCrash, TypeOK
<1> QED
  BY <1>1, BoundsAreNatural, NoneIsNobody DEF WorkerCrash, Release, TypeOK, reqVars, history
-----------------------------------------------------------------------------
(***************************************************************************)
(* The inductive invariant.                                                *)
(***************************************************************************)
LEMMA InitIInv == Init => IInv
<1> SUFFICES ASSUME Init PROVE IInv
  OBVIOUS
<1>1. TypeOK
  BY InitType
<1>2. /\ \A q \in Req : /\ rows[q] = NoRow /\ delivered[q] = 0 /\ calls[q] = 0
                        /\ lock[q] = None /\ pc[q] = "idle"
      /\ \A w \in Worker : wpc[w] = "idle" /\ wrow[w] = None
      /\ revoked = {} /\ appLock = None /\ faults = 0
  BY DEF Init
<1>3. LockDiscipline
  BY <1>2, NoneIsNobody DEF LockDiscipline
<1>4. RowsAreQueuedOnce /\ HoldInv /\ SentWasAccepted /\ RevokedInv /\ AppLockInv
  BY <1>2 DEF RowsAreQueuedOnce, HoldInv, SentWasAccepted, RevokedInv, AppLockInv, NoRow
<1>5. AttemptInv /\ AcceptedOnce
  BY <1>2, BoundsAreNatural DEF AttemptInv, AcceptedOnce, NoRow, Live
<1>6. CallInv
  <2>1. NoRow.attempts = 0
    BY DEF NoRow
  <2> SUFFICES ASSUME NEW q \in Req PROVE calls[q] <= rows[q].attempts + faults
    BY DEF CallInv
  <2> QED
    BY <1>2, <2>1
<1>7. DeliveredInv
  BY <1>2 DEF DeliveredInv, InCall, InAccepted, NoRow, Live
<1> QED
  BY <1>1, <1>3, <1>4, <1>5, <1>6, <1>7 DEF IInv

mailVars == <<rows, due, lock, wpc, wrow, calls, delivered, revoked>>

\* A step that leaves the mails and their deliveries alone.
LEMMA MailsUntouched ==
  ASSUME IInv, TypeOK', AppLockInv', UNCHANGED mailVars, faults' \in {faults, faults + 1},
         \A q \in Req : pc'[q] = pc[q] \/ pc'[q] \in {"enqueue", "done"}
                                    \/ pc[q] \notin {"enqueue", "done"}
  PROVE  IInv'
<1> USE DEF IInv, mailVars
<1>t. /\ faults \in Nat /\ faults' \in Nat
      /\ \A q \in Req : rows[q].attempts \in Nat /\ calls[q] \in Nat /\ delivered[q] \in Nat
  BY BoundsAreNatural DEF TypeOK, Row
<1>1. LockDiscipline' /\ HoldInv' /\ AttemptInv' /\ SentWasAccepted' /\ RevokedInv'
  BY DEF LockDiscipline, HoldInv, AttemptInv, SentWasAccepted, RevokedInv, Deliverable
<1>2. RowsAreQueuedOnce'
  BY DEF RowsAreQueuedOnce
<1>3. CallInv'
  BY <1>t DEF CallInv, InCall
<1>4. DeliveredInv' /\ AcceptedOnce'
  BY <1>t DEF DeliveredInv, AcceptedOnce, InAccepted
<1> QED
  BY <1>1, <1>2, <1>3, <1>4

\* A committed cancel of live rows that no delivery holds.
LEMMA CancelPreserves ==
  ASSUME IInv, TypeOK', AppLockInv', NEW S \in SUBSET Req,
         \A r \in S : Free(r) /\ rows[r].status \in Live,
         rows' = SetStatus(S, "cancelled"), revoked' = revoked \cup S,
         UNCHANGED <<due, lock, wpc, wrow, calls, delivered, faults>>,
         \A q \in Req : pc'[q] = pc[q] \/ pc[q] \notin {"enqueue", "done"}
  PROVE  IInv'
<1> USE DEF IInv
<1>1. \A q \in Req :
        /\ q \notin S => rows'[q] = rows[q]
        /\ q \in S => /\ rows'[q].status = "cancelled"
                      /\ rows'[q].attempts = rows[q].attempts
                      /\ rows[q].status # "none"
  BY SetStatusFields DEF Live
<1>2. \A w \in Worker : wpc[w] # "idle" => wrow[w] \in Req /\ wrow[w] \notin S
  BY NoneIsNobody DEF LockDiscipline, TypeOK, Free
<1>3. LockDiscipline'
  BY <1>1, <1>2 DEF LockDiscipline, Deliverable
<1>4. RowsAreQueuedOnce'
  BY <1>1 DEF RowsAreQueuedOnce
<1>5. HoldInv' /\ SentWasAccepted' /\ RevokedInv'
  BY <1>1 DEF HoldInv, SentWasAccepted, RevokedInv, Live, TypeOK
<1>6. AttemptInv' /\ AcceptedOnce'
  BY <1>1 DEF AttemptInv, AcceptedOnce, Live
<1>7. CallInv' /\ DeliveredInv'
  BY <1>1 DEF CallInv, DeliveredInv, InCall, InAccepted, Live
<1> QED
  BY <1>3, <1>4, <1>5, <1>6, <1>7

\* Control may leave or enter the withdrawal's steps only where the code does.
LEMMA AppLockStep ==
  ASSUME NEW q \in Req, IInv, Request(q)
  PROVE  AppLockInv'
<1> USE NoneIsNobody DEF IInv, TypeOK, AppLockInv, Goto
<1>op. AfterMove(q) \in {"queue", "done"}
  BY DEF AfterMove
<1>1. CASE Load(q)
  <2>1. /\ pc'[q] \in {"held?", "flush"} => op[q].route = "withdraw"
        /\ pc'[q] = "move" /\ op[q].route = "withdraw" => seen'[q] = "interview"
    BY <1>1, OpsAreRequests DEF Load, AllOps
  <2> QED
    BY <1>1, <2>1 DEF Load
<1>2. CASE MailAgain(q)
  BY <1>2 DEF MailAgain
<1>3. CASE CheckHeld(q)
  BY <1>3 DEF CheckHeld
<1>4. CASE SetStage(q)
  <2>1. pc'[q] \notin {"held?", "flush"}
    BY <1>4, <1>op, OpsAreRequests DEF SetStage, AllOps
  <2> QED
    BY <1>4, <2>1 DEF SetStage
<1>5. CASE SelectHeld(q)
  BY <1>5 DEF SelectHeld
<1>6. CASE FlushWithdraw(q)
  BY <1>6 DEF FlushWithdraw
<1>7. CASE CancelHeld(q)
  BY <1>7, <1>op DEF CancelHeld, CancelRows
<1>8. CASE CommitWithdraw(q)
  BY <1>8 DEF CommitWithdraw, CancelRows
<1>9. CASE QueueEmail(q)
  BY <1>9 DEF QueueEmail
<1>10. CASE Enqueue(q)
  BY <1>10 DEF Enqueue
<1> QED
  BY <1>1, <1>2, <1>3, <1>4, <1>5, <1>6, <1>7, <1>8, <1>9, <1>10 DEF Request

LEMMA HeldIsLive ==
  ASSUME NEW q, HeldRejection(q)
  PROVE  rows[q].status \in Live
  BY DEF HeldRejection, Live

LEMMA RequestIInv ==
  ASSUME NEW q \in Req, IInv, Request(q)
  PROVE  IInv'
<1>t. TypeOK /\ TypeOK' /\ AppLockInv'
  BY RequestType, AppLockStep DEF IInv
<1>pc. \A l : Goto(q, l) => \A r \in Req : pc'[r] = IF r = q THEN l ELSE pc[r]
  BY <1>t DEF Goto, TypeOK
<1>1. CASE Load(q)
  BY <1>1, <1>t, <1>pc, MailsUntouched DEF Load, mailVars, wrkVars, history
<1>2. CASE MailAgain(q)
  BY <1>2, <1>t, <1>pc, MailsUntouched DEF MailAgain, mailVars, wrkVars, history
<1>3. CASE CheckHeld(q)
  BY <1>3, <1>t, <1>pc, MailsUntouched DEF CheckHeld, mailVars, wrkVars, history
<1>4. CASE SetStage(q)
  BY <1>4, <1>t, <1>pc, MailsUntouched DEF SetStage, mailVars, wrkVars, history
<1>5. CASE SelectHeld(q)
  BY <1>5, <1>t, <1>pc, MailsUntouched DEF SelectHeld, mailVars, wrkVars, history
<1>6. CASE FlushWithdraw(q)
  BY <1>6, <1>t, <1>pc, MailsUntouched DEF FlushWithdraw, mailVars, wrkVars, history
<1>7. CASE CancelHeld(q)
  <2>1. PICK S \in SUBSET Req :
          /\ CancelRows(q, S) /\ rows' = SetStatus(S, "cancelled")
          /\ revoked' = revoked \cup S /\ Goto(q, AfterMove(q))
          /\ UNCHANGED <<due, wrkVars, calls, delivered, faults>>
    BY <1>7 DEF CancelHeld
  <2>2. \A r \in S : Free(r) /\ rows[r].status \in Live
    BY <2>1, HeldIsLive DEF CancelRows
  <2>3. \A r \in Req : pc'[r] = pc[r] \/ pc[r] \notin {"enqueue", "done"}
    BY <2>1, <1>pc DEF CancelRows
  <2> QED
    BY <1>t, <2>1, <2>2, <2>3, CancelPreserves DEF wrkVars
<1>8. CASE CommitWithdraw(q)
  <2>1. PICK S \in SUBSET Req :
          /\ CancelRows(q, S) /\ rows' = SetStatus(S, "cancelled")
          /\ revoked' = revoked \cup S /\ Goto(q, "done")
          /\ UNCHANGED <<due, wrkVars, calls, delivered, faults>>
    BY <1>8 DEF CommitWithdraw
  <2>2. \A r \in S : Free(r) /\ rows[r].status \in Live
    BY <2>1, HeldIsLive DEF CancelRows
  <2>3. \A r \in Req : pc'[r] = pc[r] \/ pc[r] \notin {"enqueue", "done"}
    BY <2>1, <1>pc DEF CancelRows
  <2> QED
    BY <1>t, <2>1, <2>2, <2>3, CancelPreserves DEF wrkVars
<1>9. CASE QueueEmail(q)
  <2>1. rows[q] = NoRow /\ delivered[q] = 0 /\ calls[q] = 0 /\ q \notin revoked
    BY <1>9 DEF QueueEmail, IInv, RowsAreQueuedOnce
  <2>2. /\ \A r \in Req \ {q} : rows'[r] = rows[r]
        /\ rows'[q].status = IF op[q].mail = "held" THEN "scheduled" ELSE "queued"
        /\ rows'[q].held = (op[q].mail = "held") /\ rows'[q].attempts = 0
    BY <1>9, <1>t DEF QueueEmail, TypeOK
  <2>3. \A r \in Req : pc'[r] = IF r = q THEN "enqueue" ELSE pc[r]
    BY <1>9, <1>pc DEF QueueEmail
  <2>4. UNCHANGED <<due, lock, wpc, wrow, calls, delivered, revoked, faults>>
    BY <1>9 DEF QueueEmail, wrkVars, history
  <2>5. \A w \in Worker : wpc[w] # "idle" => wrow[w] \in Req \ {q}
    <3>1. ~Deliverable(q)
      BY <2>1 DEF Deliverable, NoRow
    <3> QED
      BY <3>1, <1>t, NoneIsNobody DEF IInv, LockDiscipline, TypeOK
  <2>6. faults \in Nat
    BY <1>t, BoundsAreNatural DEF TypeOK
  <2>7. LockDiscipline'
    BY <2>2, <2>4, <2>5 DEF IInv, LockDiscipline, Deliverable
  <2>8. RowsAreQueuedOnce'
    BY <2>2, <2>3, <2>4 DEF IInv, RowsAreQueuedOnce
  <2>9. HoldInv'
    BY <2>2, <2>4 DEF IInv, HoldInv
  <2>10. AttemptInv' /\ SentWasAccepted'
    BY <2>2, <2>4, BoundsAreNatural DEF IInv, AttemptInv, SentWasAccepted
  <2>11. CallInv'
    BY <2>1, <2>2, <2>4, <2>6 DEF IInv, CallInv, InCall
  <2>12. DeliveredInv' /\ AcceptedOnce'
    BY <2>1, <2>2, <2>4, <2>6 DEF IInv, DeliveredInv, AcceptedOnce, InAccepted
  <2>13. RevokedInv'
    BY <2>1, <2>2, <2>4, <1>t DEF IInv, RevokedInv, TypeOK
  <2> QED
    BY <1>t, <2>7, <2>8, <2>9, <2>10, <2>11, <2>12, <2>13 DEF IInv
<1>10. CASE Enqueue(q)
  BY <1>10, <1>t, <1>pc, MailsUntouched DEF Enqueue, mailVars, wrkVars, history
<1> QED
  BY <1>1, <1>2, <1>3, <1>4, <1>5, <1>6, <1>7, <1>8, <1>9, <1>10 DEF Request

\* What the end of a delivery's transaction leaves alone: the other deliveries.
LEMMA ReleaseFacts ==
  ASSUME NEW w \in Worker, TypeOK, LockDiscipline, wpc[w] # "idle", Release(w),
         UNCHANGED due, \A r \in Req : r # wrow[w] => rows'[r] = rows[r]
  PROVE  /\ wrow[w] \in Req /\ Deliverable(wrow[w])
         /\ wpc'[w] = "idle"
         /\ \A v \in Worker :
              v # w => wpc'[v] = wpc[v] /\ wrow'[v] = wrow[v] /\ wrow[v] # wrow[w]
         /\ LockDiscipline'
<1>1. wrow[w] \in Req /\ lock[wrow[w]] = w /\ Deliverable(wrow[w])
  BY DEF TypeOK, LockDiscipline
<1>2. \A v \in Worker : v # w => wrow[v] # wrow[w]
  BY <1>1 DEF LockDiscipline
<1>3. /\ \A v \in Worker : wpc'[v] = IF v = w THEN "idle" ELSE wpc[v]
      /\ \A v \in Worker : wrow'[v] = IF v = w THEN None ELSE wrow[v]
  BY DEF Release, TypeOK
<1>4. \A r \in Req : lock'[r] = IF r = wrow[w] THEN None ELSE lock[r]
  BY <1>1 DEF Release, TypeOK
<1>5. LockDiscipline'
  <2>1. \A v \in Worker : wpc'[v] = "idle" <=> wrow'[v] = None
    BY <1>3 DEF LockDiscipline
  <2>2. \A v \in Worker, r \in Req : lock'[r] = v <=> wrow'[v] = r
    BY <1>1, <1>2, <1>3, <1>4, NoneIsNobody DEF LockDiscipline
  <2>3. \A v \in Worker : wpc'[v] # "idle" => Deliverable(wrow[v])'
    <3> SUFFICES ASSUME NEW v \in Worker, wpc'[v] # "idle" PROVE Deliverable(wrow[v])'
      OBVIOUS
    <3>1. v # w /\ Deliverable(wrow[v]) /\ wrow[v] \in Req
      BY <1>3 DEF LockDiscipline, TypeOK
    <3> QED
      BY <3>1, <1>2, <1>3 DEF Deliverable
  <2> QED
    BY <2>1, <2>2, <2>3 DEF LockDiscipline
<1> QED
  BY <1>1, <1>2, <1>3, <1>5

\* A delivery that has made no call leaves its row with no call unaccounted for.
LEMMA BeforeTheCall ==
  ASSUME NEW w \in Worker, IInv, wpc[w] \in {"taken", "staged", "cleared"}
  PROVE  /\ wrow[w] \in Req /\ rows[wrow[w]].status \in Live
         /\ calls[wrow[w]] <= rows[wrow[w]].attempts + faults
         /\ delivered[wrow[w]] <= faults
         /\ wrow[w] \notin revoked
<1>1. wrow[w] \in Req /\ Deliverable(wrow[w]) /\ \A v \in Worker : wrow[v] = wrow[w] => v = w
  BY DEF IInv, TypeOK, LockDiscipline
<1>2. rows[wrow[w]].status \in Live
  BY <1>1 DEF Deliverable, Live
<1>3. ~InCall(wrow[w]) /\ ~InAccepted(wrow[w])
  BY <1>1 DEF InCall, InAccepted
<1> QED
  BY <1>1, <1>2, <1>3 DEF IInv, CallInv, DeliveredInv, RevokedInv, Live

\* A delivery settles its row without having called the provider.
LEMMA SettlePreserves ==
  ASSUME NEW w \in Worker, IInv, TypeOK', wpc[w] \in {"taken", "staged"},
         NEW s \in {"cancelled", "failed", "suppressed"},
         rows' = SetStatus({wrow[w]}, s), Release(w),
         \/ revoked' = revoked
         \/ s = "cancelled" /\ revoked' = revoked \cup {wrow[w]},
         UNCHANGED <<appLock, due, pc, op, seen, calls, delivered, faults>>
  PROVE  IInv'
<1> USE DEF IInv
<1>0. /\ wrow[w] \in Req /\ wrow[w] \notin revoked /\ rows[wrow[w]].status \in Live
      /\ calls[wrow[w]] <= rows[wrow[w]].attempts + faults
  BY BeforeTheCall
<1>1. \A r \in Req :
        /\ r # wrow[w] => rows'[r] = rows[r]
        /\ r = wrow[w] => rows'[r].status = s /\ rows'[r].attempts = rows[r].attempts
  BY SetStatusFields
<1>2. /\ LockDiscipline' /\ wpc'[w] = "idle"
      /\ \A v \in Worker :
           v # w => wpc'[v] = wpc[v] /\ wrow'[v] = wrow[v] /\ wrow[v] # wrow[w]
  BY <1>1, ReleaseFacts
<1>3. AppLockInv'
  BY DEF AppLockInv
<1>8. RowsAreQueuedOnce'
  <2>1. \A r \in Req : r # wrow[w] => (r \in revoked' <=> r \in revoked)
    OBVIOUS
  <2> QED
    <3> SUFFICES ASSUME NEW r \in Req
                 PROVE  /\ pc[r] \notin {"enqueue", "done"} => rows'[r].status = "none"
                        /\ rows'[r].status = "none" =>
                             /\ rows'[r] = NoRow /\ delivered[r] = 0 /\ calls[r] = 0
                             /\ r \notin revoked'
      BY DEF RowsAreQueuedOnce
    <3>1. CASE r = wrow[w]
      BY <3>1, <1>0, <1>1 DEF RowsAreQueuedOnce, Live
    <3>2. CASE r # wrow[w]
      BY <3>2, <2>1, <1>1 DEF RowsAreQueuedOnce
    <3> QED
      BY <3>1, <3>2
<1>4. HoldInv' /\ AttemptInv' /\ SentWasAccepted' /\ AcceptedOnce'
  BY <1>0, <1>1 DEF HoldInv, AttemptInv, SentWasAccepted, AcceptedOnce, Live
<1>5. RevokedInv'
  <2> SUFFICES ASSUME NEW r \in revoked' PROVE rows'[r].status \in {"cancelled", "bounced"}
    BY DEF RevokedInv
  <2>1. CASE r \in revoked
    BY <2>1, <1>0, <1>1 DEF RevokedInv, TypeOK
  <2>2. CASE r \notin revoked
    <3>1. r = wrow[w] /\ s = "cancelled"
      BY <2>2
    <3> QED
      BY <3>1, <1>0, <1>1
  <2> QED
    BY <2>1, <2>2
<1>6. CallInv'
  <2> SUFFICES ASSUME NEW r \in Req
               PROVE  \/ calls[r] <= rows'[r].attempts + faults
                      \/ InCall(r)' /\ calls[r] <= rows'[r].attempts + faults + 1
    BY DEF CallInv
  <2>1. CASE r = wrow[w]
    BY <2>1, <1>0, <1>1
  <2>2. CASE r # wrow[w]
    <3>1. InCall(r) => InCall(r)'
      BY <2>2, <1>2 DEF InCall
    <3> QED
      BY <2>2, <3>1, <1>1 DEF CallInv
  <2> QED
    BY <2>1, <2>2
<1>7. DeliveredInv'
  <2>1. \A r \in Req : r # wrow[w] => (InAccepted(r) => InAccepted(r)')
    BY <1>2 DEF InAccepted
  <2> QED
    BY <2>1, <1>0, <1>1, <1>2 DEF DeliveredInv, Live
<1> QED
  BY <1>2, <1>3, <1>4, <1>5, <1>6, <1>7, <1>8

\* A delivery goes on to its next check.
LEMMA StepPreserves ==
  ASSUME NEW w \in Worker, IInv, TypeOK', wpc[w] \in {"taken", "staged"},
         NEW l \in {"staged", "cleared"}, Step(w, l),
         UNCHANGED <<appLock, rows, due, pc, op, seen, calls, delivered, revoked, faults>>
  PROVE  IInv'
<1> USE DEF IInv
<1>1. /\ \A v \in Worker : wpc'[v] = IF v = w THEN l ELSE wpc[v]
      /\ wrow' = wrow /\ lock' = lock
  BY DEF Step, TypeOK
<1>2. LockDiscipline'
  BY <1>1 DEF LockDiscipline, Deliverable
<1>3. RowsAreQueuedOnce' /\ AppLockInv' /\ HoldInv' /\ AttemptInv'
  BY DEF RowsAreQueuedOnce, AppLockInv, HoldInv, AttemptInv
<1>4. SentWasAccepted' /\ AcceptedOnce' /\ RevokedInv'
  BY DEF SentWasAccepted, AcceptedOnce, RevokedInv
<1>5. CallInv' /\ DeliveredInv'
  BY <1>1 DEF CallInv, DeliveredInv, InCall, InAccepted
<1> QED
  BY <1>2, <1>3, <1>4, <1>5

LEMMA DeliveryIInv ==
  ASSUME NEW w \in Worker, IInv, Delivery(w)
  PROVE  IInv'
<1>t. TypeOK /\ LockDiscipline /\ TypeOK'
  BY DeliveryType DEF IInv
<1>n. /\ faults \in Nat
      /\ \A q \in Req : rows[q].attempts \in Nat /\ calls[q] \in Nat /\ delivered[q] \in Nat
  BY <1>t, BoundsAreNatural DEF TypeOK, Row
<1>1. ASSUME NEW q \in Req, Take(w, q) PROVE IInv'
  <2>1. /\ \A v \in Worker : wpc'[v] = IF v = w THEN "taken" ELSE wpc[v]
        /\ \A v \in Worker : wrow'[v] = IF v = w THEN q ELSE wrow[v]
        /\ \A r \in Req : lock'[r] = IF r = q THEN w ELSE lock[r]
        /\ wpc[w] = "idle" /\ wrow[w] = None /\ lock[q] = None /\ Deliverable(q)
    BY <1>1, <1>t DEF Take, Free, TypeOK, LockDiscipline
  <2>2. UNCHANGED <<appLock, rows, due, pc, op, seen, calls, delivered, revoked, faults>>
    BY <1>1 DEF Take, reqVars, history
  <2>3. \A v \in Worker : v # w => wrow[v] # q
    BY <2>1, <1>t, NoneIsNobody DEF LockDiscipline
  <2>4. LockDiscipline'
    <3>1. \A v \in Worker : wpc'[v] = "idle" <=> wrow'[v] = None
      BY <2>1, <1>t, NoneIsNobody DEF LockDiscipline
    <3>2. \A v \in Worker, r \in Req : lock'[r] = v <=> wrow'[v] = r
      BY <2>1, <2>3, <1>t, NoneIsNobody DEF LockDiscipline
    <3>3. \A v \in Worker : wpc'[v] # "idle" => Deliverable(wrow[v])'
      BY <2>1, <2>2, <1>t DEF LockDiscipline, Deliverable
    <3> QED
      BY <3>1, <3>2, <3>3 DEF LockDiscipline
  <2>5. RowsAreQueuedOnce' /\ AppLockInv' /\ HoldInv' /\ AttemptInv'
    BY <2>2 DEF IInv, RowsAreQueuedOnce, AppLockInv, HoldInv, AttemptInv
  <2>6. SentWasAccepted' /\ AcceptedOnce' /\ RevokedInv'
    BY <2>2 DEF IInv, SentWasAccepted, AcceptedOnce, RevokedInv
  <2>7. \A r \in Req : (InCall(r) => InCall(r)') /\ (InAccepted(r) => InAccepted(r)')
    BY <2>1 DEF InCall, InAccepted
  <2>8. CallInv' /\ DeliveredInv'
    BY <2>1, <2>2, <2>7 DEF IInv, CallInv, DeliveredInv
  <2> QED
    BY <1>t, <2>4, <2>5, <2>6, <2>8 DEF IInv
<1>2. CASE CheckStage(w)
  <2>1. UNCHANGED <<appLock, due, pc, op, seen, calls, delivered, faults>> /\ wpc[w] = "taken"
    BY <1>2 DEF CheckStage, reqVars
  <2>2. CASE Step(w, "staged") /\ UNCHANGED <<rows, revoked>>
    BY <2>1, <2>2, <1>t, StepPreserves
  <2>3. CASE /\ rows' = SetStatus({wrow[w]}, "cancelled")
             /\ revoked' = revoked \cup {wrow[w]} /\ Release(w)
    BY <2>1, <2>3, <1>t, SettlePreserves
  <2> QED
    BY <2>2, <2>3, <1>2 DEF CheckStage
<1>3. CASE CheckAddress(w)
  <2>1. /\ UNCHANGED <<appLock, due, pc, op, seen, calls, delivered, revoked, faults>>
        /\ wpc[w] = "staged"
    BY <1>3 DEF CheckAddress, reqVars, history
  <2>2. CASE Step(w, "cleared") /\ UNCHANGED rows
    BY <2>1, <2>2, <1>t, StepPreserves
  <2>3. CASE rows' = SetStatus({wrow[w]}, "failed") /\ Release(w)
    <3>1. /\ wpc[w] \in {"taken", "staged"} /\ revoked' = revoked
          /\ UNCHANGED <<appLock, due, pc, op, seen, calls, delivered, faults>>
      BY <2>1
    <3> QED
      BY <3>1, <2>3, <1>t, SettlePreserves
  <2>4. CASE rows' = SetStatus({wrow[w]}, "suppressed") /\ Release(w)
    <3>1. /\ wpc[w] \in {"taken", "staged"} /\ revoked' = revoked
          /\ UNCHANGED <<appLock, due, pc, op, seen, calls, delivered, faults>>
      BY <2>1
    <3> QED
      BY <3>1, <2>4, <1>t, SettlePreserves
  <2> QED
    BY <2>2, <2>3, <2>4, <1>3 DEF CheckAddress
<1>4. CASE Dispatch(w)
  <2> DEFINE q == wrow[w]
  <2>0. /\ q \in Req /\ rows[q].status \in Live /\ delivered[q] <= faults
        /\ calls[q] <= rows[q].attempts + faults /\ wpc[w] = "cleared"
    BY <1>4, BeforeTheCall DEF Dispatch
  <2>1. UNCHANGED <<appLock, rows, due, pc, op, seen, wrow, lock, revoked>>
    BY <1>4 DEF Dispatch, Accepts, Rejects, AnswerLost, Step, reqVars
  <2>2. /\ \A r \in Req : calls'[r] = IF r = q THEN calls[r] + 1 ELSE calls[r]
        /\ \A v \in Worker : v # w => wpc'[v] = wpc[v]
        /\ \A r \in Req : r # q => delivered'[r] = delivered[r]
        /\ \/ wpc'[w] = "accepted" /\ delivered'[q] = delivered[q] + 1 /\ faults' = faults
           \/ wpc'[w] = "raised" /\ delivered'[q] = delivered[q] /\ faults' = faults
           \/ wpc'[w] = "raised" /\ delivered'[q] = delivered[q] + 1 /\ faults' = faults + 1
    BY <1>4, <2>0, <1>t DEF Dispatch, Accepts, Rejects, AnswerLost, Step, TypeOK
  <2>3. LockDiscipline'
    BY <2>0, <2>1, <2>2, <1>t DEF LockDiscipline, Deliverable
  <2>4. AppLockInv' /\ HoldInv' /\ AttemptInv' /\ RevokedInv'
    BY <2>1 DEF IInv, AppLockInv, HoldInv, AttemptInv, RevokedInv
  <2>5. RowsAreQueuedOnce' /\ SentWasAccepted'
    <3>1. \A r \in Req : rows[r].status = "none" => r # q
      BY <2>0 DEF Live
    <3>2. \A r \in Req : delivered'[r] >= delivered[r]
      BY <2>2, <1>n
    <3> QED
      BY <3>1, <3>2, <2>1, <2>2, <1>n DEF IInv, RowsAreQueuedOnce, SentWasAccepted
  <2>6. AcceptedOnce'
    BY <2>0, <2>1, <2>2, <1>n DEF IInv, AcceptedOnce
  <2>7. InCall(q)' /\ \A r \in Req : (InCall(r) => InCall(r)')
    BY <2>0, <2>1, <2>2 DEF InCall
  <2>8. CallInv'
    BY <2>0, <2>1, <2>2, <2>7, <1>n DEF IInv, CallInv
  <2>9. DeliveredInv'
    <3>1. \A r \in Req : InAccepted(r) => InAccepted(r)'
      BY <2>0, <2>1, <2>2 DEF InAccepted
    <3>2. wpc'[w] = "accepted" => \A r \in Req : r = q => InAccepted(r)'
      BY <2>1 DEF InAccepted
    <3>3. \A r \in Req : rows[r].status \in Live =>
            delivered'[r] <= faults' \/ (InAccepted(r)' /\ delivered'[r] <= faults' + 1)
      <4> SUFFICES ASSUME NEW r \in Req, rows[r].status \in Live
                   PROVE  delivered'[r] <= faults' \/ (InAccepted(r)' /\ delivered'[r] <= faults' + 1)
        OBVIOUS
      <4>1. CASE r = q
        <5>1. CASE wpc'[w] = "accepted" /\ delivered'[q] = delivered[q] + 1 /\ faults' = faults
          <6>1. InAccepted(r)'
            BY <5>1, <4>1, <3>2
          <6>2. delivered'[r] <= faults' + 1
            BY <5>1, <4>1, <2>0, <1>n
          <6> QED
            BY <6>1, <6>2
        <5>2. CASE delivered'[q] = delivered[q] /\ faults' = faults
          BY <5>2, <4>1, <2>0
        <5>3. CASE delivered'[q] = delivered[q] + 1 /\ faults' = faults + 1
          BY <5>3, <4>1, <2>0, <1>n
        <5> QED
          BY <5>1, <5>2, <5>3, <2>2
      <4>2. CASE r # q
        BY <4>2, <2>2, <3>1, <1>n DEF IInv, DeliveredInv
      <4> QED
        BY <4>1, <4>2
    <3>4. \A v \in Worker : wpc'[v] = "accepted" => delivered'[wrow[v]] > 0
      <4>1. \A v \in Worker : wpc[v] = "accepted" => wrow[v] \in Req
        BY <1>t DEF TypeOK, LockDiscipline
      <4> QED
        BY <4>1, <2>0, <2>2, <1>n DEF IInv, DeliveredInv
    <3> QED
      BY <3>3, <3>4, <2>1 DEF DeliveredInv
  <2> QED
    BY <1>t, <2>3, <2>4, <2>5, <2>6, <2>8, <2>9 DEF IInv
<1>5. CASE CommitSent(w) \/ CommitFailure(w)
  <2> DEFINE q == wrow[w]
  <2>0. wpc[w] \in {"accepted", "raised"} /\ Release(w)
    BY <1>5 DEF CommitSent, CommitFailure
  <2>1. q \in Req /\ Deliverable(q) /\ \A v \in Worker : wrow[v] = q => v = w
    BY <2>0, <1>t DEF TypeOK, LockDiscipline
  <2>2. rows[q].status \in Live /\ rows[q].attempts < MAX_ATTEMPTS /\ q \notin revoked
    <3>1. rows[q].status \in Live
      BY <2>1 DEF Deliverable, Live
    <3> QED
      BY <3>1, <2>1 DEF IInv, AttemptInv, RevokedInv, Live
  <2>3. UNCHANGED <<appLock, due, pc, op, seen, calls, delivered, revoked, faults>>
    BY <1>5 DEF CommitSent, CommitFailure, reqVars, history
  <2>4. /\ \A r \in Req : r # q => rows'[r] = rows[r]
        /\ rows'[q].attempts = rows[q].attempts + 1 /\ rows'[q].held = rows[q].held
        /\ \/ rows'[q].status = "sent" /\ wpc[w] = "accepted"
           \/ rows'[q].status = "failed" /\ wpc[w] = "raised"
           \/ /\ rows'[q].status = "queued" /\ wpc[w] = "raised"
              /\ rows[q].attempts + 1 < MAX_ATTEMPTS
    <3>1. {"sent", "failed", "queued"} \subseteq Status
      BY DEF Status
    <3>2. CASE CommitSent(w)
      BY <3>1, <3>2, <2>1, <1>t, AttemptedFields DEF CommitSent
    <3>3. CASE CommitFailure(w)
      <4>1. CASE Parked(q)
        <5>1. rows' = Attempted(q, "failed") /\ wpc[w] = "raised"
          BY <3>3, <4>1 DEF CommitFailure
        <5> QED
          BY <5>1, <3>1, <2>1, <1>t, AttemptedFields
      <4>2. CASE ~Parked(q)
        <5>1. rows' = Attempted(q, "queued") /\ wpc[w] = "raised"
          BY <3>3, <4>2 DEF CommitFailure
        <5>2. rows[q].attempts + 1 < MAX_ATTEMPTS
          BY <4>2, <2>1, <1>n, BoundsAreNatural DEF Parked
        <5> QED
          BY <5>1, <5>2, <3>1, <2>1, <1>t, AttemptedFields
      <4> QED
        BY <4>1, <4>2
    <3> QED
      BY <3>2, <3>3, <1>5
  <2>5. /\ LockDiscipline' /\ wpc'[w] = "idle"
        /\ \A v \in Worker :
             v # w => wpc'[v] = wpc[v] /\ wrow'[v] = wrow[v] /\ wrow[v] # q
    BY <2>0, <2>3, <2>4, <1>t, ReleaseFacts
  <2>6. AppLockInv'
    BY <2>3 DEF IInv, AppLockInv
  <2>7. RowsAreQueuedOnce' /\ RevokedInv'
    BY <2>2, <2>3, <2>4 DEF IInv, RowsAreQueuedOnce, RevokedInv, TypeOK, Live
  <2>8. HoldInv'
    BY <2>1, <2>3, <2>4 DEF IInv, HoldInv, Deliverable
  <2>9. AttemptInv'
    BY <2>2, <2>3, <2>4, <1>n, BoundsAreNatural DEF IInv, AttemptInv, Live
  <2>10. SentWasAccepted' /\ AcceptedOnce'
    BY <2>0, <2>3, <2>4 DEF IInv, SentWasAccepted, AcceptedOnce, DeliveredInv
  <2>11. CallInv'
    <3>1. \A r \in Req : r # q => (InCall(r) => InCall(r)')
      BY <2>5 DEF InCall
    <3> SUFFICES ASSUME NEW r \in Req
                 PROVE  \/ calls[r] <= rows'[r].attempts + faults
                        \/ InCall(r)' /\ calls[r] <= rows'[r].attempts + faults + 1
      BY <2>3 DEF CallInv
    <3>2. CASE r = q
      BY <3>2, <2>1, <2>4, <1>n DEF IInv, CallInv
    <3>3. CASE r # q
      BY <3>1, <3>3, <2>4 DEF IInv, CallInv
    <3> QED
      BY <3>2, <3>3
  <2>12. DeliveredInv'
    <3>1. \A r \in Req : r # q => (InAccepted(r) => InAccepted(r)')
      BY <2>5 DEF InAccepted
    <3>2. rows'[q].status \in Live => delivered[q] <= faults
      <4>1. wpc[w] = "raised" => ~InAccepted(q)
        BY <2>1 DEF InAccepted
      <4> QED
        BY <4>1, <2>1, <2>2, <2>4 DEF IInv, DeliveredInv, Live
    <3>3. \A r \in Req : rows'[r].status \in Live =>
            delivered[r] <= faults \/ (InAccepted(r)' /\ delivered[r] <= faults + 1)
      BY <3>1, <3>2, <2>4 DEF IInv, DeliveredInv
    <3>4. \A v \in Worker : wpc'[v] = "accepted" => delivered[wrow'[v]] > 0
      BY <2>5 DEF IInv, DeliveredInv
    <3> QED
      BY <3>3, <3>4, <2>3 DEF DeliveredInv
  <2> QED
    BY <1>t, <2>5, <2>6, <2>7, <2>8, <2>9, <2>10, <2>11, <2>12 DEF IInv
<1> QED
  BY <1>1, <1>2, <1>3, <1>4, <1>5 DEF Delivery

LEMMA WorkerCrashIInv ==
  ASSUME NEW w \in Worker, IInv, WorkerCrash(w)
  PROVE  IInv'
<1>t. TypeOK /\ LockDiscipline /\ TypeOK'
  BY WorkerCrashType DEF IInv
<1>n. /\ faults \in Nat
      /\ \A q \in Req : rows[q].attempts \in Nat /\ calls[q] \in Nat /\ delivered[q] \in Nat
  BY <1>t, BoundsAreNatural DEF TypeOK, Row
<1>1. /\ UNCHANGED <<appLock, rows, due, pc, op, seen, calls, delivered, revoked>>
      /\ faults' = faults + 1 /\ wpc[w] # "idle" /\ Release(w)
  BY DEF WorkerCrash, reqVars, history
<1>2. /\ LockDiscipline' /\ wpc'[w] = "idle"
      /\ \A v \in Worker :
           v # w => wpc'[v] = wpc[v] /\ wrow'[v] = wrow[v] /\ wrow[v] # wrow[w]
  BY <1>1, <1>t, ReleaseFacts
<1>3. RowsAreQueuedOnce' /\ HoldInv' /\ AttemptInv' /\ SentWasAccepted' /\ RevokedInv' /\ AppLockInv'
  BY <1>1 DEF IInv, RowsAreQueuedOnce, HoldInv, AttemptInv, SentWasAccepted, RevokedInv, AppLockInv
<1>4. CallInv' /\ AcceptedOnce'
  BY <1>1, <1>n DEF IInv, CallInv, AcceptedOnce
<1>5. DeliveredInv'
  BY <1>1, <1>2, <1>n DEF IInv, DeliveredInv
<1> QED
  BY <1>t, <1>2, <1>3, <1>4, <1>5 DEF IInv

LEMMA OtherIInv ==
  ASSUME NEW q \in Req, IInv,
         \/ Abort(q) \/ CancelScheduled(q) \/ ApplyEvents(q)
         \/ Tick(q) \/ SweepOutbox(q) \/ TakeStale(q)
  PROVE  IInv'
<1>t. TypeOK /\ LockDiscipline /\ TypeOK'
  BY OtherType DEF IInv
<1>1. CASE Abort(q)
  <2>1. AppLockInv'
    BY <1>1, <1>t, NoneIsNobody DEF Abort, Goto, IInv, AppLockInv, TypeOK
  <2>2. \A r \in Req : pc'[r] = pc[r] \/ pc'[r] \in {"enqueue", "done"}
    BY <1>1, <1>t DEF Abort, Goto, TypeOK
  <2> QED
    BY <1>1, <1>t, <2>1, <2>2, MailsUntouched DEF Abort, mailVars, wrkVars, history
<1>2. CASE CancelScheduled(q)
  <2>1. AppLockInv'
    BY <1>2 DEF CancelScheduled, IInv, AppLockInv, reqVars
  <2> QED
    BY <1>2, <1>t, <2>1, CancelPreserves DEF CancelScheduled, Live, reqVars, wrkVars
<1>3. CASE ApplyEvents(q)
  <2>1. /\ UNCHANGED <<appLock, due, pc, op, seen, lock, wpc, wrow, calls, delivered, revoked, faults>>
        /\ delivered[q] > 0 /\ lock[q] = None
    BY <1>3 DEF ApplyEvents, Free, reqVars, wrkVars, history
  <2>2. \A r \in Req :
          /\ r # q => rows'[r] = rows[r]
          /\ r = q => rows'[r].status = "bounced" /\ rows'[r].attempts = rows[r].attempts
    BY <1>3, <1>t, SetStatusFields DEF ApplyEvents
  <2>3. rows[q].status # "none"
    BY <2>1 DEF IInv, RowsAreQueuedOnce
  <2>4. \A v \in Worker : wrow[v] # q
    BY <2>1, <1>t, NoneIsNobody DEF LockDiscipline
  <2>5. LockDiscipline'
    <3>1. \A v \in Worker : wpc[v] # "idle" => wrow[v] \in Req \ {q}
      BY <2>4, <1>t DEF LockDiscipline, TypeOK
    <3> QED
      BY <3>1, <2>1, <2>2, <1>t DEF LockDiscipline, Deliverable
  <2>6. RowsAreQueuedOnce' /\ AppLockInv'
    BY <2>1, <2>2, <2>3 DEF IInv, RowsAreQueuedOnce, AppLockInv
  <2>7. HoldInv' /\ AttemptInv' /\ SentWasAccepted' /\ AcceptedOnce' /\ RevokedInv'
    BY <2>1, <2>2, <1>t DEF IInv, HoldInv, AttemptInv, SentWasAccepted, AcceptedOnce, RevokedInv,
                         Live, TypeOK
  <2>8. CallInv' /\ DeliveredInv'
    BY <2>1, <2>2 DEF IInv, CallInv, DeliveredInv, InCall, InAccepted, Live
  <2> QED
    BY <1>t, <2>5, <2>6, <2>7, <2>8 DEF IInv
<1>4. CASE Tick(q)
  <2>1. /\ UNCHANGED <<appLock, rows, pc, op, seen, lock, wpc, wrow, calls, delivered, revoked, faults>>
        /\ \A r \in Req : due[r] => due'[r]
    BY <1>4, <1>t DEF Tick, reqVars, wrkVars, history, TypeOK
  <2>2. LockDiscipline' /\ HoldInv'
    BY <2>1, <1>t DEF IInv, LockDiscipline, HoldInv, Deliverable, TypeOK
  <2>3. RowsAreQueuedOnce' /\ AttemptInv' /\ CallInv' /\ DeliveredInv'
    BY <2>1 DEF IInv, RowsAreQueuedOnce, AttemptInv, CallInv, DeliveredInv, InCall, InAccepted
  <2>4. AcceptedOnce' /\ SentWasAccepted' /\ RevokedInv' /\ AppLockInv'
    BY <2>1 DEF IInv, AcceptedOnce, SentWasAccepted, RevokedInv, AppLockInv
  <2> QED
    BY <1>t, <2>2, <2>3, <2>4 DEF IInv
<1>5. CASE SweepOutbox(q) \/ TakeStale(q)
  <2>1. UNCHANGED <<mailVars, appLock, pc, op, seen, faults>>
    BY <1>5 DEF SweepOutbox, TakeStale, mailVars, reqVars, wrkVars, history
  <2>2. AppLockInv'
    BY <2>1 DEF IInv, AppLockInv
  <2> QED
    BY <1>t, <2>1, <2>2, MailsUntouched
<1> QED
  BY <1>1, <1>2, <1>3, <1>4, <1>5

THEOREM Inductive == Spec => []IInv
<1>1. Init => IInv
  BY InitIInv
<1>2. IInv /\ [Next]_vars => IInv'
  <2> SUFFICES ASSUME IInv, [Next]_vars PROVE IInv'
    OBVIOUS
  <2>1. CASE UNCHANGED vars
    <3>1. UNCHANGED <<mailVars, pc, op, seen, appLock, faults>> /\ TypeOK'
      BY <2>1 DEF vars, mailVars, reqVars, wrkVars, history, IInv, TypeOK
    <3>2. AppLockInv'
      BY <3>1 DEF IInv, AppLockInv
    <3> QED
      BY <3>1, <3>2, MailsUntouched
  <2>2. ASSUME NEW q \in Req, Request(q) PROVE IInv'
    BY <2>2, RequestIInv
  <2>3. ASSUME NEW w \in Worker, Delivery(w) PROVE IInv'
    BY <2>3, DeliveryIInv
  <2>4. ASSUME NEW w \in Worker, WorkerCrash(w) PROVE IInv'
    BY <2>4, WorkerCrashIInv
  <2>5. ASSUME NEW q \in Req,
               \/ Abort(q) \/ CancelScheduled(q) \/ ApplyEvents(q)
               \/ Tick(q) \/ SweepOutbox(q) \/ TakeStale(q)
        PROVE  IInv'
    BY <2>5, OtherIInv
  <2> QED
    BY <2>1, <2>2, <2>3, <2>4, <2>5 DEF Next, Quiescent
<1> QED
  BY <1>1, <1>2, PTL DEF Spec
-----------------------------------------------------------------------------
\* Every variable keeps its type, whatever requests, jobs and faults there are.
THEOREM TypeCorrect == Spec => []TypeOK
<1>1. IInv => TypeOK
  BY DEF IInv
<1> QED
  BY <1>1, Inductive, PTL

\* A row under delivery is locked by that delivery alone and stays deliverable.
THEOREM LockSafety == Spec => []LockDiscipline
<1>1. IInv => LockDiscipline
  BY DEF IInv
<1> QED
  BY <1>1, Inductive, PTL

\* At most MAX_ATTEMPTS provider calls for a mail, plus one for each crash.
THEOREM CallsBounded == Spec => []CallBound
<1>1. IInv => CallBound
  <2> SUFFICES ASSUME IInv, NEW q \in Req PROVE calls[q] <= MAX_ATTEMPTS + faults
    BY DEF CallBound
  <2>1. /\ faults \in Nat /\ rows[q].attempts \in Nat /\ calls[q] \in Nat
        /\ rows[q].attempts <= MAX_ATTEMPTS
    BY BoundsAreNatural DEF IInv, TypeOK, Row, AttemptInv
  <2>2. CASE calls[q] <= rows[q].attempts + faults
    BY <2>1, <2>2, BoundsAreNatural
  <2>3. CASE InCall(q) /\ calls[q] <= rows[q].attempts + faults + 1
    <3>1. rows[q].status \in Live
      BY <2>3 DEF InCall, IInv, LockDiscipline, Deliverable, Live
    <3>2. rows[q].attempts < MAX_ATTEMPTS
      BY <3>1 DEF IInv, AttemptInv
    <3> QED
      BY <2>1, <2>3, <3>2, BoundsAreNatural
  <2> QED
    BY <2>2, <2>3 DEF IInv, CallInv
<1> QED
  BY <1>1, Inductive, PTL

\* The provider accepts a mail at most once, plus once for each crash.
THEOREM AcceptedAtMostOnce == Spec => []AcceptedOnce
<1>1. IInv => AcceptedOnce
  BY DEF IInv
<1> QED
  BY <1>1, Inductive, PTL

\* A row says sent only if the provider accepted the mail.
THEOREM SentMeansAccepted == Spec => []SentWasAccepted
<1>1. IInv => SentWasAccepted
  BY DEF IInv
<1> QED
  BY <1>1, Inductive, PTL

\* The status of a row and what the provider did agree.
THEOREM LoggedMeansAccepted == Spec => []AcceptedAsLogged
<1>1. IInv => AcceptedAsLogged
  BY DEF IInv, AcceptedAsLogged
<1> QED
  BY <1>1, Inductive, PTL

\* Only a delivery that has passed its checks calls the provider.
LEMMA OnlyDispatchCalls ==
  ASSUME IInv, [Next]_vars, NEW q \in Req, calls'[q] # calls[q]
  PROVE  \E w \in Worker : wpc[w] = "cleared" /\ wrow[w] = q
<1>1. CASE UNCHANGED vars
  BY <1>1 DEF vars, history
<1>2. ASSUME NEW r \in Req, Request(r) PROVE FALSE
  BY <1>2 DEF Request, Load, MailAgain, CheckHeld, SetStage, SelectHeld, FlushWithdraw,
              CancelHeld, CommitWithdraw, QueueEmail, Enqueue, history
<1>3. ASSUME NEW w \in Worker, Delivery(w)
      PROVE  \E v \in Worker : wpc[v] = "cleared" /\ wrow[v] = q
  BY <1>3 DEF Delivery, Take, CheckStage, CheckAddress, Dispatch, CommitSent, CommitFailure,
              history, IInv, TypeOK
<1>4. ASSUME NEW w \in Worker, WorkerCrash(w) PROVE FALSE
  BY <1>4 DEF WorkerCrash, history
<1>5. ASSUME NEW r \in Req,
             \/ Abort(r) \/ CancelScheduled(r) \/ ApplyEvents(r)
             \/ Tick(r) \/ SweepOutbox(r) \/ TakeStale(r)
      PROVE  FALSE
  BY <1>5 DEF Abort, CancelScheduled, ApplyEvents, Tick, SweepOutbox, TakeStale, history
<1> QED
  BY <1>1, <1>2, <1>3, <1>4, <1>5 DEF Next, Quiescent

\* No provider call is made for a mail that a committed cancel took back.
THEOREM CancelIsFinal == Spec => CancelledNeverSent
<1>1. IInv /\ [Next]_vars => [\A q \in Req : calls'[q] # calls[q] => q \notin revoked]_vars
  <2> SUFFICES ASSUME IInv, [Next]_vars, NEW q \in Req, calls'[q] # calls[q]
               PROVE  q \notin revoked
    OBVIOUS
  <2>1. PICK w \in Worker : wpc[w] = "cleared" /\ wrow[w] = q
    BY OnlyDispatchCalls
  <2> QED
    BY <2>1, BeforeTheCall
<1> QED
  BY <1>1, Inductive, PTL DEF Spec, CancelledNeverSent

\* A held mail is never handed over before its send_after has passed.
THEOREM HoldIsKept == Spec => NeverEarly
<1>1. IInv /\ [Next]_vars =>
        [\A q \in Req : calls'[q] # calls[q] => (rows[q].held => due[q])]_vars
  <2> SUFFICES ASSUME IInv, [Next]_vars, NEW q \in Req, calls'[q] # calls[q], rows[q].held
               PROVE  due[q]
    OBVIOUS
  <2>1. PICK w \in Worker : wpc[w] = "cleared" /\ wrow[w] = q
    BY OnlyDispatchCalls
  <2> QED
    BY <2>1 DEF IInv, LockDiscipline, HoldInv, Deliverable
<1> QED
  BY <1>1, Inductive, PTL DEF Spec, NeverEarly

\* A withdrawal gets past a decision it has seen only by taking back the held
\* mail of a rejection; past one it has not seen, only if it had loaded the
\* application open.
THEOREM WithdrawalTakesBack == Spec => WithdrawTakesBack
<1>1. IInv /\ [Next]_vars =>
        [\A q \in Req : op[q].route = "withdraw" /\ pc[q] # pc'[q] /\ stage' # stage
           => \/ seen[q] = "interview"
              \/ \E r \in revoked' \ revoked : rows[r].held /\ delivered[r] <= faults]_vars
  <2> SUFFICES ASSUME IInv, [Next]_vars, stage' # stage,
                      NEW q \in Req, op[q].route = "withdraw", pc[q] # pc'[q]
               PROVE  \/ seen[q] = "interview"
                      \/ \E r \in revoked' \ revoked : rows[r].held /\ delivered[r] <= faults
    OBVIOUS
  <2>1. ASSUME NEW r \in Req, Request(r), ~SetStage(r), ~CommitWithdraw(r) PROVE FALSE
    BY <2>1 DEF Request, Load, MailAgain, CheckHeld, SelectHeld, FlushWithdraw,
                CancelHeld, QueueEmail, Enqueue
  <2>2. ASSUME NEW w \in Worker, Delivery(w) PROVE FALSE
    BY <2>2 DEF Delivery, Take, CheckStage, CheckAddress, Dispatch, CommitSent, CommitFailure
  <2>3. PICK p \in Req : SetStage(p) \/ CommitWithdraw(p)
    BY <2>1, <2>2 DEF Next, Quiescent, vars, WorkerCrash, Abort, CancelScheduled, ApplyEvents,
                      Tick, SweepOutbox, TakeStale
  <2>4. p = q
    BY <2>3 DEF SetStage, CommitWithdraw, Goto, IInv, TypeOK
  <2>5. CASE SetStage(q)
    BY <2>5 DEF SetStage, IInv, AppLockInv
  <2>6. CASE CommitWithdraw(q)
    <3>1. PICK S \in SUBSET Req : /\ CancelRows(q, S) /\ revoked' = revoked \cup S
                                  /\ stage' = IF S = {} THEN stage ELSE "withdrawn"
      BY <2>6 DEF CommitWithdraw
    <3>2. PICK r \in S : HeldRejection(r) /\ Free(r)
      BY <3>1 DEF CancelRows
    <3>3. r \in Req /\ rows[r].status \in Live /\ r \in revoked'
      BY <3>1, <3>2, HeldIsLive
    <3>4. r \notin revoked /\ rows[r].held
      BY <3>2, <3>3 DEF IInv, RevokedInv, HoldInv, HeldRejection, Live
    <3>5. ~InAccepted(r)
      BY <3>2, <3>3, NoneIsNobody DEF InAccepted, Free, IInv, LockDiscipline
    <3>6. delivered[r] <= faults
      BY <3>3, <3>5 DEF IInv, DeliveredInv
    <3> QED
      BY <3>3, <3>4, <3>6
  <2> QED
    BY <2>3, <2>4, <2>5, <2>6
<1> QED
  BY <1>1, Inductive, PTL DEF Spec, WithdrawTakesBack

\* What the row counts and says is what the provider was asked and did.
THEOREM ProviderIsLogged == Spec => []ProviderAsLogged
<1>1. CallBound /\ AcceptedAsLogged => ProviderAsLogged
  BY DEF ProviderAsLogged
<1> QED
  BY <1>1, CallsBounded, LoggedMeansAccepted, PTL
-----------------------------------------------------------------------------
(***************************************************************************)
(* Outbox implements MailPromise: every step of the outbox is a step of    *)
(* what it promises for its mails, or changes nothing the promise sees.    *)
(***************************************************************************)
life == [q \in Req |-> LifeOf(rows[q].status)]

\* LifeOf, one status at a time.
LEMMA LifeOfStatus ==
  /\ LifeOf("none") = "none"
  /\ \A s \in Live : LifeOf(s) = "pending"
  /\ LifeOf("sent") = "sent"
  /\ \A s \in {"failed", "suppressed", "cancelled"} : LifeOf(s) = "dropped"
  /\ LifeOf("bounced") = "returned"
  BY DEF LifeOf, Live

\* Nothing the promise sees has changed.
LEMMA Stutter ==
  ASSUME \A q \in Req : LifeOf(rows'[q].status) = LifeOf(rows[q].status), delivered' = delivered
  PROVE  UNCHANGED Promise!vars
<1>1. life' = life
  BY DEF life
<1> QED
  BY <1>1 DEF Promise!vars, life

\* Some mails left their pending life without having been sent.
LEMMA DropStep ==
  ASSUME NEW S \in SUBSET Req, S # {}, delivered' = delivered,
         \A r \in S : /\ rows[r].status \in Live
                      /\ rows'[r].status \in {"failed", "suppressed", "cancelled"},
         \A r \in Req \ S : rows'[r] = rows[r]
  PROVE  Promise!Next
<1>1. \A r \in S : LifeOf(rows[r].status) = "pending" /\ LifeOf(rows'[r].status) = "dropped"
  BY LifeOfStatus
<1>2. Promise!Drop(S)
  BY <1>1 DEF Promise!Drop
<1> QED
  BY <1>2 DEF Promise!Next

\* One mail moved from one life to another.
LEMMA LifeStep ==
  ASSUME NEW q \in Req, NEW l, LifeOf(rows'[q].status) = l,
         \A r \in Req \ {q} : rows'[r] = rows[r]
  PROVE  life' = [life EXCEPT ![q] = l]
  BY DEF life

LEMMA CancelStep ==
  ASSUME TypeOK, NEW S \in SUBSET Req, \A r \in S : rows[r].status \in Live,
         NEW s \in {"cancelled", "failed", "suppressed"},
         rows' = SetStatus(S, s), delivered' = delivered
  PROVE  [Promise!Next]_(Promise!vars)
<1>1. \A r \in Req : /\ r \notin S => rows'[r] = rows[r]
                     /\ r \in S => rows'[r].status = s
  BY SetStatusFields
<1>2. CASE S = {}
  BY <1>1, <1>2, Stutter
<1>3. CASE S # {}
  BY <1>1, <1>3, DropStep
<1> QED
  BY <1>2, <1>3

LEMMA RequestRefines ==
  ASSUME NEW q \in Req, IInv, Request(q)
  PROVE  [Promise!Next]_(Promise!vars)
<1>t. TypeOK
  BY DEF IInv
<1>1. CASE UNCHANGED <<rows, delivered>>
  BY <1>1, Stutter
<1>2. CASE CancelHeld(q) \/ CommitWithdraw(q)
  <2>1. PICK S \in SUBSET Req : CancelRows(q, S) /\ rows' = SetStatus(S, "cancelled")
    BY <1>2 DEF CancelHeld, CommitWithdraw
  <2>2. \A r \in S : rows[r].status \in Live
    BY <2>1, HeldIsLive DEF CancelRows
  <2>3. delivered' = delivered
    BY <1>2 DEF CancelHeld, CommitWithdraw
  <2> QED
    BY <1>t, <2>1, <2>2, <2>3, CancelStep
<1>3. CASE QueueEmail(q)
  <2>1. rows[q].status = "none"
    BY <1>3 DEF QueueEmail, IInv, RowsAreQueuedOnce
  <2>2. rows'[q].status \in Live /\ delivered' = delivered
        /\ \A r \in Req \ {q} : rows'[r] = rows[r]
    BY <1>3, <1>t DEF QueueEmail, TypeOK, Live, history
  <2>3. LifeOf(rows[q].status) = "none" /\ LifeOf(rows'[q].status) = "pending"
    BY <2>1, <2>2, LifeOfStatus
  <2>4. life' = [life EXCEPT ![q] = "pending"]
    BY <2>2, <2>3, LifeStep
  <2>5. Promise!Accept(q)
    BY <2>2, <2>3, <2>4 DEF Promise!Accept, life
  <2> QED
    BY <2>5 DEF Promise!Next
<1>4. \/ UNCHANGED <<rows, delivered>> \/ QueueEmail(q)
      \/ CancelHeld(q) \/ CommitWithdraw(q)
  BY DEF Request, Load, MailAgain, CheckHeld, SetStage, SelectHeld, FlushWithdraw, Enqueue, history
<1> QED
  BY <1>1, <1>2, <1>3, <1>4

LEMMA DeliveryRefines ==
  ASSUME NEW w \in Worker, IInv, Delivery(w)
  PROVE  [Promise!Next]_(Promise!vars)
<1>t. TypeOK /\ LockDiscipline
  BY DEF IInv
<1>q. wpc[w] # "idle" => wrow[w] \in Req /\ rows[wrow[w]].status \in Live
  BY <1>t DEF TypeOK, LockDiscipline, Deliverable, Live
<1>1. CASE UNCHANGED <<rows, delivered>>
  BY <1>1, Stutter
<1>2. CASE CheckStage(w) \/ CheckAddress(w)
  <2>1. delivered' = delivered /\ wpc[w] # "idle"
    BY <1>2 DEF CheckStage, CheckAddress, history
  <2>2. CASE UNCHANGED rows
    BY <1>1, <2>1, <2>2
  <2>3. CASE \E s \in {"cancelled", "failed", "suppressed"} : rows' = SetStatus({wrow[w]}, s)
    BY <1>t, <1>q, <2>1, <2>3, CancelStep
  <2> QED
    BY <1>2, <2>2, <2>3 DEF CheckStage, CheckAddress
<1>3. CASE Dispatch(w) /\ delivered' # delivered
  <2>1. wrow[w] \in Req /\ LifeOf(rows[wrow[w]].status) = "pending"
    BY <1>3, <1>q, LifeOfStatus DEF Dispatch
  <2>2. UNCHANGED rows /\ delivered' = [delivered EXCEPT ![wrow[w]] = @ + 1]
    BY <1>3 DEF Dispatch, Accepts, Rejects, AnswerLost
  <2>3. life' = life
    BY <2>2 DEF life
  <2>4. Promise!HandOver(wrow[w])
    BY <2>1, <2>2, <2>3 DEF Promise!HandOver, life
  <2> QED
    BY <2>1, <2>4 DEF Promise!Next
<1>4. CASE CommitSent(w)
  <2>1. wrow[w] \in Req /\ LifeOf(rows[wrow[w]].status) = "pending" /\ delivered[wrow[w]] > 0
    BY <1>4, <1>q, LifeOfStatus DEF CommitSent, IInv, DeliveredInv
  <2>2. /\ rows'[wrow[w]].status = "sent" /\ delivered' = delivered
        /\ \A r \in Req \ {wrow[w]} : rows'[r] = rows[r]
    BY <1>4, <1>t, <2>1, AttemptedFields DEF CommitSent, Status, history
  <2>3. life' = [life EXCEPT ![wrow[w]] = "sent"]
    BY <2>1, <2>2, LifeOfStatus, LifeStep
  <2>4. Promise!Settle(wrow[w])
    BY <2>1, <2>2, <2>3 DEF Promise!Settle, life
  <2> QED
    BY <2>1, <2>4 DEF Promise!Next
<1>5. CASE CommitFailure(w)
  <2>1. wrow[w] \in Req /\ rows[wrow[w]].status \in Live
    BY <1>5, <1>q DEF CommitFailure
  <2>2. /\ rows'[wrow[w]].status \in {"failed", "queued"} /\ delivered' = delivered
        /\ \A r \in Req \ {wrow[w]} : rows'[r] = rows[r]
    <3>1. \E s \in {"failed", "queued"} : rows' = Attempted(wrow[w], s)
      BY <1>5 DEF CommitFailure
    <3>2. {"failed", "queued"} \subseteq Status
      BY DEF Status
    <3>3. delivered' = delivered
      BY <1>5 DEF CommitFailure, history
    <3> QED
      BY <1>t, <2>1, <3>1, <3>2, <3>3, AttemptedFields
  <2>3. CASE rows'[wrow[w]].status = "queued"
    <3>1. LifeOf(rows'[wrow[w]].status) = LifeOf(rows[wrow[w]].status)
      BY <2>1, <2>3, LifeOfStatus DEF Live
    <3> QED
      BY <2>2, <3>1, Stutter
  <2>4. CASE rows'[wrow[w]].status = "failed"
    <3>1. \A r \in {wrow[w]} : /\ rows[r].status \in Live
                               /\ rows'[r].status \in {"failed", "suppressed", "cancelled"}
      BY <2>1, <2>4
    <3>2. {wrow[w]} \in SUBSET Req /\ {wrow[w]} # {}
      BY <2>1
    <3>3. Promise!Next
      BY <2>2, <3>1, <3>2, DropStep
    <3> QED
      BY <3>3
  <2> QED
    BY <2>2, <2>3, <2>4
<1>6. ASSUME NEW q \in Req, Take(w, q) PROVE UNCHANGED <<rows, delivered>>
  BY <1>6 DEF Take, history
<1>7. Dispatch(w) => UNCHANGED rows
  BY DEF Dispatch
<1> QED
  BY <1>1, <1>2, <1>3, <1>4, <1>5, <1>6, <1>7 DEF Delivery

LEMMA OtherRefines ==
  ASSUME NEW q \in Req, IInv,
         \/ Abort(q) \/ CancelScheduled(q) \/ ApplyEvents(q)
         \/ Tick(q) \/ SweepOutbox(q) \/ TakeStale(q)
  PROVE  [Promise!Next]_(Promise!vars)
<1>t. TypeOK
  BY DEF IInv
<1>1. CASE CancelScheduled(q)
  <2>1. /\ rows' = SetStatus({q}, "cancelled") /\ delivered' = delivered
        /\ \A r \in {q} : rows[r].status \in Live
    BY <1>1 DEF CancelScheduled, Live
  <2> QED
    BY <1>t, <2>1, CancelStep
<1>2. CASE ApplyEvents(q)
  <2>1. delivered[q] > 0 /\ delivered' = delivered
    BY <1>2 DEF ApplyEvents, history
  <2>2. rows'[q].status = "bounced" /\ \A r \in Req \ {q} : rows'[r] = rows[r]
    BY <1>2, <1>t, SetStatusFields DEF ApplyEvents
  <2>3. life' = [life EXCEPT ![q] = "returned"]
    BY <2>2, LifeOfStatus, LifeStep
  <2>4. Promise!Return(q)
    BY <2>1, <2>3 DEF Promise!Return, life
  <2> QED
    BY <2>4 DEF Promise!Next
<1>3. CASE Abort(q) \/ Tick(q) \/ SweepOutbox(q) \/ TakeStale(q)
  <2>1. UNCHANGED <<rows, delivered>>
    BY <1>3 DEF Abort, Tick, SweepOutbox, TakeStale, history
  <2> QED
    BY <2>1, Stutter
<1> QED
  BY <1>1, <1>2, <1>3

\* The outbox, with all its jobs, locks, requests and faults, implements what it
\* promises: a mail once settled is not handed over again, a mail is settled as
\* sent only after a hand-over, and a bounce is about a mail that went out.
THEOREM Refinement == Spec => ImplementsPromise
<1>1. Init => Promise!Init
  <2> SUFFICES ASSUME Init PROVE Promise!Init
    OBVIOUS
  <2>1. \A q \in Req : LifeOf(rows[q].status) = "none"
    BY LifeOfStatus DEF Init, NoRow
  <2> QED
    BY <2>1 DEF Init, Promise!Init
<1>2. IInv /\ [Next]_vars => [Promise!Next]_(Promise!vars)
  <2> SUFFICES ASSUME IInv, [Next]_vars PROVE [Promise!Next]_(Promise!vars)
    OBVIOUS
  <2>1. CASE UNCHANGED vars
    <3>1. UNCHANGED <<rows, delivered>>
      BY <2>1 DEF vars, history
    <3> QED
      BY <3>1, Stutter
  <2>2. ASSUME NEW w \in Worker, WorkerCrash(w) PROVE UNCHANGED Promise!vars
    <3>1. UNCHANGED <<rows, delivered>>
      BY <2>2 DEF WorkerCrash, history
    <3> QED
      BY <3>1, Stutter
  <2> QED
    BY <2>1, <2>2, RequestRefines, DeliveryRefines, OtherRefines DEF Next, Quiescent
<1> QED
  BY <1>1, <1>2, Inductive, PTL DEF Spec, ImplementsPromise, Promise!Spec
=============================================================================
