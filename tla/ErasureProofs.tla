--------------------------- MODULE ErasureProofs ---------------------------
(***************************************************************************)
(* Proofs about Erasure, for any number of applications, candidates,       *)
(* processes, restores and faults.  A step that only moves a job keeps the *)
(* invariant if the job stays sound (JobMoves); the steps that change the  *)
(* bucket, the tables or the dump have a lemma each.                       *)
(***************************************************************************)
EXTENDS Erasure, TLAPS

LEMMA IdleIsJob == Idle \in Job
  BY DEF Idle, Job, Op

\* What the type invariant says of one application, one job.
LEMMA Fields ==
  ASSUME TypeOK
  PROVE  /\ \A a \in App : app[a] \in Row /\ cv[a] \in Object
         /\ \A p \in Proc : /\ job[p] \in Job
                            /\ job[p].todo \in SUBSET App /\ job[p].done \in SUBSET App
                            /\ job[p].cands \in SUBSET Cand /\ job[p].old \in SUBSET App
                            /\ job[p].skipped \in SUBSET App
         /\ tomb \in SUBSET (App \cup Cand)
  BY DEF TypeOK, Job

LEMMA Parts ==
  ASSUME IInv
  PROVE  /\ TypeOK /\ BackupIsConsistent /\ KeptAreLive /\ CvIsKept
         /\ TombstonesAreKept /\ NewIsUnmarked
         /\ (\A p \in Proc : Sound(p)) /\ OneAtATime
         /\ ErasedStaysErased
  BY DEF IInv

LEMMA InitInv == Init => IInv
<1> SUFFICES ASSUME Init PROVE IInv
  OBVIOUS
<1>1. NoRow \in Row /\ NoBackup \in Backup
  BY DEF NoRow, Row, Clock, NoBackup, Backup, Object
<1>2. TypeOK
  <2>1. job \in [Proc -> Job] /\ app \in [App -> Row] /\ backup \in Backup
    BY <1>1, IdleIsJob DEF Init
  <2>2. \A a \in App : ~Live(a)
    BY DEF Init, Live, NoRow
  <2> QED
    BY <2>1, <2>2, BoundsAreBounds DEF Init, TypeOK, Object
<1>3. BackupIsConsistent /\ KeptAreLive /\ CvIsKept /\ TombstonesAreKept /\ NewIsUnmarked
  BY DEF Init, BackupIsConsistent, KeptAreLive, CvIsKept, TombstonesAreKept, NewIsUnmarked,
         NoBackup, NoRow
<1>4. (\A p \in Proc : Sound(p)) /\ OneAtATime /\ ErasedStaysErased
  BY DEF Init, Sound, OneAtATime, ErasedStaysErased, Idle
<1> QED
  BY <1>2, <1>3, <1>4 DEF IInv
-----------------------------------------------------------------------------
(***************************************************************************)
(* Jobs that only move.                                                    *)
(***************************************************************************)
\* What the other processes know is not touched by a step of one.
LEMMA OthersStaySound ==
  ASSUME TypeOK, NEW p \in Proc, NEW j \in Job, Goto(p, j),
         \A q \in Proc : Sound(q),
         \A a \in App : app[a].st # "new" => app'[a].st # "new",
         \A q \in Proc \ {p}, a \in App :
            job[q].pc = "insert" /\ a \in job[q].todo => app'[a].st = app[a].st,
         \A a \in App : a \in tomb' /\ Live(a)' => a \in tomb /\ Live(a),
         \A a \in App : cv[a] \in {"old", "gone"} => cv'[a] \in {"old", "gone"},
         \A a \in App : a \in kept' => a \in kept \/ cv[a] = "fresh",
         phase' = "restored" => phase = "restored",
         \A q \in Proc \ {p} : job[q].op = "replay" => phase' = phase
  PROVE  \A q \in Proc \ {p} : Sound(q)'
<1> TAKE q \in Proc \ {p}
<1>1. job'[q] = job[q] /\ job[q] \in Job
  BY DEF Goto, TypeOK
<1>2. job[q].todo \in SUBSET App /\ job[q].done \in SUBSET App /\ job[q].old \in SUBSET App
  BY <1>1 DEF Job
<1>3. Sound(q)
  OBVIOUS
<1>4. job[q].pc = "sweep" => (job[q].old \ job[q].done) \cap kept' = {}
  <2> SUFFICES ASSUME job[q].pc = "sweep", NEW a \in App,
                      a \in job[q].old \ job[q].done, a \in kept'
               PROVE  FALSE
    BY <1>2
  <2>1. cv[a] \in {"old", "gone"} /\ a \notin kept
    BY <1>3 DEF Sound
  <2> QED
    BY <2>1
<1>5. job[q].pc \in {"objects", "delete"} =>
        \A a \in job[q].todo \cup job[q].done : app'[a].st # "new"
  BY <1>2, <1>3 DEF Sound
<1>6. job[q].op = "purge" =>
        phase' # "restored" /\ \A a \in job[q].old : cv'[a] \in {"old", "gone"}
  BY <1>2, <1>3 DEF Sound
<1>7. job[q].op = "replay" =>
        /\ job[q].pc \in {"objects", "delete"} /\ phase' = "merged"
        /\ job[q].pc = "delete" => job[q].todo = {}
        /\ \A a \in App \cap tomb' :
             Live(a)' => a \in job[q].todo \cup job[q].done \cup job[q].skipped
  BY <1>3 DEF Sound
<1>8. job[q].pc \in {"refs", "sweep"} => job[q].op = "purge"
  BY <1>3 DEF Sound
<1>9. job[q].pc = "insert" => \A a \in job[q].todo : app'[a].st = "new"
  BY <1>2, <1>3 DEF Sound
<1> QED
  BY <1>1, <1>4, <1>5, <1>6, <1>7, <1>8, <1>9 DEF Sound

\* What j has to respect of the other jobs to take the place of job[p].
Exclusive(p, j) ==
  \A q \in Proc \ {p} :
    /\ ~(j.op = "replay" /\ job[q].op = "replay")
    /\ j.pc = "insert" /\ job[q].pc = "insert" => j.todo \cap job[q].todo = {}

LEMMA OneAtATimeStays ==
  ASSUME TypeOK, OneAtATime, NEW p \in Proc, NEW j \in Job, Goto(p, j), Exclusive(p, j)
  PROVE  OneAtATime'
<1>1. job'[p] = j /\ \A q \in Proc \ {p} : job'[q] = job[q]
  BY DEF TypeOK, Goto
<1> QED
  BY <1>1 DEF OneAtATime, Exclusive

LEMMA JobMoves ==
  ASSUME IInv, NEW p \in Proc, NEW j \in Job, Goto(p, j),
         UNCHANGED <<rows, cv, ops, kept>>, faults' \in 0 .. MaxFaults,
         Sound(p)', Exclusive(p, j)
  PROVE  IInv'
<1> USE Parts
<1>1. UNCHANGED <<app, cand, tomb, cv, kept, phase, backup, saved, erased, lost, missed, restores>>
  BY DEF rows, ops
<1>2. job' \in [Proc -> Job]
  BY DEF Goto, TypeOK
<1>3. TypeOK'
  BY <1>1, <1>2 DEF TypeOK, Live, LiveCands
<1>4. (BackupIsConsistent /\ KeptAreLive /\ CvIsKept /\ TombstonesAreKept /\ NewIsUnmarked)'
  BY <1>1 DEF BackupIsConsistent, KeptAreLive, CvIsKept, TombstonesAreKept, NewIsUnmarked,
              Live, Stored
<1>5. \A q \in Proc \ {p} : Sound(q)'
  BY <1>1, OthersStaySound DEF Live
<1>6. OneAtATime' /\ ErasedStaysErased'
  BY <1>1, OneAtATimeStays DEF ErasedStaysErased, Live
<1> QED
  BY <1>3, <1>4, <1>5, <1>6 DEF IInv

\* A job that ends, whatever it was.
LEMMA Ends ==
  ASSUME IInv, NEW p \in Proc, Done(p)
  PROVE  Goto(p, Idle) /\ job'[p] = Idle /\ Sound(p)' /\ Exclusive(p, Idle)
<1>1. job'[p] = Idle
  BY DEF IInv, TypeOK, Done, Goto
<1> QED
  BY <1>1 DEF Done, Sound, Idle, Exclusive
-----------------------------------------------------------------------------
LEMMA FaultCounts ==
  ASSUME TypeOK, Fault
  PROVE  faults' \in 0 .. MaxFaults
  BY BoundsAreBounds DEF TypeOK, Fault

LEMMA LoadApplyInv ==
  ASSUME IInv, NEW p \in Proc, NEW a \in App, LoadApply(p, a)
  PROVE  IInv'
<1> DEFINE j == [Idle EXCEPT !.pc = "insert", !.todo = {a},
                             !.cands = {c \in LiveCands : EmailOf[c] = OwnerOf[a]}]
<1>1. j \in Job /\ j.pc = "insert" /\ j.op = "apply" /\ j.todo = {a}
  BY DEF Idle, Job, Op, LiveCands
<1>2. /\ Goto(p, j) /\ UNCHANGED <<rows, cv, ops, kept, faults>> /\ app[a].st = "new"
      /\ \A q \in Proc : ~(job[q].pc = "insert" /\ a \in job[q].todo)
  BY DEF LoadApply, At
<1> HIDE DEF j
<1>3. job'[p] = j /\ faults' \in 0 .. MaxFaults /\ app' = app
  BY <1>2 DEF IInv, TypeOK, Goto, rows
<1>4. Sound(p)' /\ Exclusive(p, j)
  BY <1>1, <1>2, <1>3 DEF Sound, Exclusive
<1> QED
  BY <1>1, <1>2, <1>3, <1>4, JobMoves

LEMMA BeginEraseInv ==
  ASSUME IInv, NEW p \in Proc, NEW c \in Cand, BeginErase(p, c)
  PROVE  IInv'
<1> DEFINE j == [Idle EXCEPT !.pc = "objects", !.op = "erase", !.todo = Apps(c), !.cands = {c}]
<1>1. j \in Job /\ j.pc = "objects" /\ j.op = "erase" /\ j.todo = Apps(c) /\ j.done = {}
  BY DEF Idle, Job, Op, Apps
<1>2. Goto(p, j) /\ UNCHANGED <<rows, cv, ops, kept, faults>>
  BY DEF BeginErase
<1> HIDE DEF j
<1>3. job'[p] = j /\ faults' \in 0 .. MaxFaults /\ app' = app
  BY <1>2 DEF IInv, TypeOK, Goto, rows
<1>4. Sound(p)' /\ Exclusive(p, j)
  BY <1>1, <1>3 DEF Sound, Apps, Live, Exclusive
<1> QED
  BY <1>1, <1>2, <1>3, <1>4, JobMoves

LEMMA BeginPurgeInv ==
  ASSUME IInv, NEW p \in Proc, BeginPurge(p)
  PROVE  IInv'
<1> DEFINE j == [Idle EXCEPT !.pc = "objects", !.op = "purge", !.todo = Expired, !.old = Old]
<1>1. /\ j \in Job /\ j.pc = "objects" /\ j.op = "purge"
      /\ j.todo = Expired /\ j.old = Old /\ j.done = {}
  BY DEF Idle, Job, Op, Expired, Old
<1>2. Goto(p, j) /\ UNCHANGED <<rows, cv, ops, kept, faults>> /\ phase # "restored"
  BY DEF BeginPurge
<1> HIDE DEF j
<1>3. job'[p] = j /\ faults' \in 0 .. MaxFaults /\ UNCHANGED <<app, cv, phase>>
  BY <1>2 DEF IInv, TypeOK, Goto, rows, ops
<1>4. Sound(p)' /\ Exclusive(p, j)
  BY <1>1, <1>2, <1>3 DEF Sound, Expired, Old, Live, Exclusive
<1> QED
  BY <1>1, <1>2, <1>3, <1>4, JobMoves

LEMMA BeginReplayInv ==
  ASSUME IInv, NEW p \in Proc, BeginReplay(p)
  PROVE  IInv'
<1> DEFINE found == {a \in App \cap tomb : Live(a)}
           j == [Idle EXCEPT !.pc = "objects", !.op = "replay", !.todo = found]
<1>1. /\ j \in Job /\ j.pc = "objects" /\ j.op = "replay"
      /\ j.todo = found /\ j.done = {}
  BY DEF Idle, Job, Op
<1>2. /\ Goto(p, j) /\ UNCHANGED <<rows, cv, ops, kept, faults>> /\ phase = "merged"
      /\ \A q \in Proc : job[q].op # "replay"
  BY DEF BeginReplay
<1> HIDE DEF j
<1>3. job'[p] = j /\ faults' \in 0 .. MaxFaults /\ UNCHANGED <<app, tomb, phase>>
  BY <1>2 DEF IInv, TypeOK, Goto, rows, ops
<1>4. Sound(p)' /\ Exclusive(p, j)
  BY <1>1, <1>2, <1>3 DEF Sound, Live, Exclusive
<1> QED
  BY <1>1, <1>2, <1>3, <1>4, JobMoves

LEMMA FindOrphansInv ==
  ASSUME IInv, NEW p \in Proc, FindOrphans(p)
  PROVE  IInv'
<1> DEFINE orphans == {c \in LiveCands : Apps(c) \subseteq job[p].done}
           chosen == IF job[p].op = "purge" THEN orphans ELSE orphans \cap tomb
           j == [job[p] EXCEPT !.pc = "delete", !.cands = chosen]
<1> USE Parts, Fields
<1>1. job[p] \in Job /\ chosen \in SUBSET Cand
  BY DEF LiveCands
<1>2. /\ j \in Job /\ j.pc = "delete" /\ j.op = job[p].op /\ j.todo = job[p].todo
      /\ j.done = job[p].done /\ j.old = job[p].old /\ j.skipped = job[p].skipped
  BY <1>1 DEF Job
<1>3. /\ Goto(p, j) /\ UNCHANGED <<rows, cv, ops, kept, faults>>
      /\ job[p].pc = "objects" /\ job[p].todo = {}
  BY DEF FindOrphans, At
<1> HIDE DEF j
<1>4. job'[p] = j /\ faults' \in 0 .. MaxFaults /\ UNCHANGED <<app, tomb, cv, phase>>
  BY <1>3 DEF TypeOK, Goto, rows, ops
<1>5. Sound(p)' /\ Exclusive(p, j)
  BY <1>2, <1>3, <1>4 DEF Sound, Live, Exclusive, OneAtATime
<1> QED
  BY <1>2, <1>3, <1>4, <1>5, JobMoves

LEMMA ReadRefsInv ==
  ASSUME IInv, NEW p \in Proc, ReadRefs(p)
  PROVE  IInv'
<1> DEFINE refs == {a \in App : Live(a)}
           j == [job[p] EXCEPT !.pc = "sweep", !.done = refs]
<1> USE Parts, Fields
<1>1. job[p] \in Job
  OBVIOUS
<1>2. /\ j \in Job /\ j.pc = "sweep" /\ j.op = job[p].op
      /\ j.done = refs /\ j.old = job[p].old
  BY <1>1 DEF Job
<1>3. Goto(p, j) /\ UNCHANGED <<rows, cv, ops, kept, faults>> /\ job[p].pc = "refs"
  BY DEF ReadRefs, At
<1>4. (j.old \ j.done) \cap kept = {}
  BY <1>2 DEF KeptAreLive, TypeOK
<1> HIDE DEF j
<1>5. /\ job'[p] = j /\ faults' \in 0 .. MaxFaults
      /\ UNCHANGED <<app, cv, phase, kept>> /\ j.op = "purge"
  BY <1>2, <1>3 DEF TypeOK, Goto, rows, ops, Sound
<1>6. Sound(p)' /\ Exclusive(p, j)
  BY <1>2, <1>3, <1>4, <1>5 DEF Sound, Exclusive
<1> QED
  BY <1>2, <1>3, <1>5, <1>6, JobMoves

LEMMA RollBackInv ==
  ASSUME IInv, NEW p \in Proc, RollBack(p)
  PROVE  IInv'
<1> USE Parts, Fields
<1>1. faults' \in 0 .. MaxFaults /\ UNCHANGED <<rows, cv, ops, kept>>
  BY FaultCounts DEF RollBack
<1>2. CASE job[p].op = "purge"
  <2> DEFINE j == [job[p] EXCEPT !.pc = "refs"]
  <2>1. job[p] \in Job
    OBVIOUS
  <2>2. j \in Job /\ j.pc = "refs" /\ j.op = "purge" /\ j.old = job[p].old
    BY <2>1, <1>2 DEF Job
  <2>3. Goto(p, j)
    BY <1>2 DEF RollBack
  <2> HIDE DEF j
  <2>4. job'[p] = j /\ UNCHANGED <<cv, phase>>
    BY <2>3, <1>1 DEF TypeOK, Goto, ops
  <2>5. Sound(p)' /\ Exclusive(p, j)
    BY <1>2, <2>2, <2>4 DEF Sound, Exclusive
  <2> QED
    BY <1>1, <2>2, <2>3, <2>5, JobMoves
<1>3. CASE job[p].op # "purge"
  BY <1>1, <1>3, Ends, IdleIsJob, JobMoves DEF RollBack
<1> QED
  BY <1>2, <1>3

LEMMA KillInv ==
  ASSUME IInv, NEW p \in Proc, Kill(p)
  PROVE  IInv'
  BY Parts, FaultCounts, Ends, IdleIsJob, JobMoves DEF Kill
-----------------------------------------------------------------------------
(***************************************************************************)
(* The tables and the bucket change, no job does.                          *)
(***************************************************************************)
\* Time, uploads and decisions.
LEMMA NoJobMoves ==
  ASSUME IInv, UNCHANGED <<cand, tomb, job, ops, kept, faults>>,
         app' \in [App -> Row], cv' \in [App -> Object],
         \A a \in App : app'[a].st = app[a].st /\ app'[a].cand = app[a].cand,
         \A a \in App : cv[a] \in {"old", "gone"} => cv'[a] = cv[a],
         \A a \in App : Stored(a) => Stored(a)'
  PROVE  IInv'
<1> USE Parts, Fields
<1>1. UNCHANGED <<phase, backup, saved, erased, lost, missed, restores>>
  BY DEF ops
<1>2. TypeOK'
  BY <1>1 DEF TypeOK, Live, LiveCands
<1>3. (BackupIsConsistent /\ KeptAreLive /\ CvIsKept /\ TombstonesAreKept /\ NewIsUnmarked)'
  BY <1>1 DEF BackupIsConsistent, KeptAreLive, CvIsKept, TombstonesAreKept, NewIsUnmarked,
              Live, TypeOK
<1>4. ASSUME NEW p \in Proc PROVE Sound(p)'
  <2>1. Sound(p) /\ UNCHANGED <<job, phase, tomb, kept>>
    BY <1>1
  <2>2. /\ job[p].todo \in SUBSET App /\ job[p].done \in SUBSET App
        /\ job[p].old \in SUBSET App
    OBVIOUS
  <2> QED
    BY <2>1, <2>2 DEF Sound, Live
<1>5. OneAtATime' /\ ErasedStaysErased'
  BY <1>1 DEF OneAtATime, ErasedStaysErased, Live, TypeOK
<1> QED
  BY <1>2, <1>3, <1>4, <1>5 DEF IInv

LEMMA TimeInv ==
  ASSUME IInv, NEW a \in App,
         Upload(a) \/ StampDecision(a) \/ AgeClock(a) \/ AgeCv(a)
  PROVE  IInv'
<1> USE Parts, Fields
<1>1. CASE Upload(a) \/ AgeCv(a)
  <2>1. /\ UNCHANGED <<app, cand, tomb, job, ops, kept, faults>>
        /\ \E o \in {"fresh", "old"} : cv' = [cv EXCEPT ![a] = o]
        /\ cv[a] \in {"none", "fresh"}
    BY <1>1 DEF Upload, AgeCv, rows
  <2>2. cv' \in [App -> Object]
    BY <2>1 DEF TypeOK, Object
  <2> QED
    BY <2>1, <2>2, NoJobMoves DEF TypeOK, Stored
<1>2. CASE StampDecision(a) \/ AgeClock(a)
  <2>1. /\ UNCHANGED <<cand, tomb, cv, job, ops, kept, faults>>
        /\ \E c \in Clock : app' = [app EXCEPT ![a].clock = c]
    BY <1>2 DEF StampDecision, AgeClock, Clock
  <2>2. PICK c \in Clock : app' = [app EXCEPT ![a].clock = c]
    BY <2>1
  <2>3. app' \in [App -> Row]
    BY <2>2 DEF TypeOK, Row
  <2>4. \A b \in App : app'[b].st = app[b].st /\ app'[b].cand = app[b].cand
    BY <2>2 DEF TypeOK, Row
  <2> QED
    BY <2>1, <2>3, <2>4, NoJobMoves DEF TypeOK, Stored
<1> QED
  BY <1>1, <1>2

LEMMA TakeBackupInv ==
  ASSUME IInv, TakeBackup
  PROVE  IInv'
<1> USE Parts, Fields
<1>1. /\ UNCHANGED <<app, cand, tomb, cv, job, phase, saved, erased, lost, missed, restores,
                     kept, faults>>
      /\ backup' = [taken |-> TRUE, app |-> app, cand |-> cand, tomb |-> tomb, kept |-> kept,
                    cv |-> cv]
  BY DEF TakeBackup, rows
<1>2. backup' \in Backup
  BY <1>1 DEF TypeOK, Backup
<1>3. TypeOK'
  BY <1>1, <1>2 DEF TypeOK, Live, LiveCands
<1>4. BackupIsConsistent'
  BY <1>1 DEF BackupIsConsistent, TypeOK, KeptAreLive, Live, LiveCands
<1>5. NewIsUnmarked'
  BY <1>1 DEF NewIsUnmarked
<1>6. (KeptAreLive /\ CvIsKept /\ TombstonesAreKept)'
  BY <1>1 DEF KeptAreLive, CvIsKept, TombstonesAreKept, Live, Stored
<1>7. (\A p \in Proc : Sound(p)')
  BY <1>1 DEF Sound, Live
<1>8. OneAtATime' /\ ErasedStaysErased'
  BY <1>1 DEF OneAtATime, ErasedStaysErased, Live
<1> QED
  BY <1>3, <1>4, <1>5, <1>6, <1>7, <1>8 DEF IInv
-----------------------------------------------------------------------------
(***************************************************************************)
(* A job changes the tables or the bucket.                                 *)
(***************************************************************************)
LEMMA InsertInv ==
  ASSUME IInv, NEW p \in Proc, Insert(p)
  PROVE  IInv'
<1> USE Parts, Fields
<1>1. /\ job[p].pc = "insert" /\ Done(p)
      /\ UNCHANGED <<tomb, cv, phase, backup, saved, erased, lost, missed, restores, faults>>
  BY DEF Insert, At, ops
<1>2. Goto(p, Idle) /\ job'[p] = Idle /\ Sound(p)'
  BY <1>1, Ends
<1>3. PICK a \in job[p].todo :
        IF Refused(p, a) THEN UNCHANGED <<app, cand, kept>>
        ELSE \E c \in Cand :
           /\ IF job[p].cands = {} THEN cand[c] = "new" /\ EmailOf[c] = OwnerOf[a]
                                   ELSE c \in job[p].cands \cap LiveCands
           /\ app' = [app EXCEPT ![a] = [NoRow EXCEPT !.st = "live", !.cand = c]]
           /\ cand' = IF job[p].cands = {} THEN [cand EXCEPT ![c] = "live"] ELSE cand
           /\ kept' = IF cv[a] = "fresh" THEN kept \cup {a} ELSE kept
  BY DEF Insert
<1>4. a \in App /\ faults' \in 0 .. MaxFaults
  BY <1>1 DEF TypeOK
<1>5. CASE UNCHANGED <<app, cand, kept>>
  BY <1>1, <1>2, <1>4, <1>5, IdleIsJob, Ends, JobMoves DEF rows, ops
<1>6. CASE ~UNCHANGED <<app, cand, kept>>
  <2> DEFINE r(c) == [NoRow EXCEPT !.st = "live", !.cand = c]
  <2>1. PICK c \in Cand :
           /\ IF job[p].cands = {} THEN cand[c] = "new" /\ EmailOf[c] = OwnerOf[a]
                                   ELSE c \in job[p].cands \cap LiveCands
           /\ app' = [app EXCEPT ![a] = r(c)]
           /\ cand' = IF job[p].cands = {} THEN [cand EXCEPT ![c] = "live"] ELSE cand
           /\ kept' = IF cv[a] = "fresh" THEN kept \cup {a} ELSE kept
    BY <1>3, <1>6
  <2>2. r(c) \in Row /\ r(c).st = "live" /\ r(c).cand = c
    BY DEF NoRow, Row, Clock
  <2>3. app' \in [App -> Row] /\ app'[a] = r(c) /\ \A b \in App \ {a} : app'[b] = app[b]
    BY <1>4, <2>1, <2>2 DEF TypeOK
  <2>4. /\ cand' \in [Cand -> {"new", "live", "gone"}] /\ cand'[c] = "live"
        /\ \A d \in Cand : cand[d] = "live" => cand'[d] = "live"
    BY <2>1 DEF TypeOK, LiveCands
  <2> HIDE DEF r
  <2>5. TypeOK'
    <3>1. \A b \in App : Live(b)' => app'[b].cand \in LiveCands'
      BY <2>2, <2>3, <2>4 DEF TypeOK, Live, LiveCands
    <3>2. job' \in [Proc -> Job] /\ kept' \in SUBSET App
      BY <1>2, <1>4, <2>1, IdleIsJob DEF TypeOK, Goto
    <3> QED
      BY <1>1, <1>4, <2>3, <2>4, <3>1, <3>2 DEF TypeOK
  <2>6. KeptAreLive' /\ CvIsKept'
    BY <1>1, <1>4, <2>1, <2>2, <2>3 DEF KeptAreLive, CvIsKept, Live, Stored, TypeOK
  <2>7. NewIsUnmarked' /\ TombstonesAreKept' /\ BackupIsConsistent'
    BY <1>1, <2>2, <2>3 DEF NewIsUnmarked, TombstonesAreKept, BackupIsConsistent
  <2>8. \A q \in Proc \ {p} : Sound(q)'
    <3>1. app[a].st = "new" /\ a \notin tomb
      BY <1>1, <1>4 DEF Sound, NewIsUnmarked
    <3>2. \A q \in Proc \ {p}, b \in App :
             job[q].pc = "insert" /\ b \in job[q].todo => app'[b].st = app[b].st
      BY <1>1, <2>3 DEF OneAtATime
    <3> QED
      BY <1>1, <1>2, <2>1, <2>2, <2>3, <3>1, <3>2, IdleIsJob, OthersStaySound DEF Live
  <2>9. OneAtATime' /\ ErasedStaysErased'
    <3>1. a \notin erased
      BY <1>1, <1>4 DEF Sound, NewIsUnmarked
    <3> QED
      BY <1>1, <1>2, <2>3, <3>1, IdleIsJob, Ends, OneAtATimeStays
         DEF ErasedStaysErased, Live, TypeOK
  <2> QED
    BY <1>2, <2>5, <2>6, <2>7, <2>8, <2>9 DEF IInv
<1> QED
  BY <1>5, <1>6

\* A job takes objects away, and with them what has to be kept.
LEMMA ObjectsGo ==
  ASSUME IInv, NEW p \in Proc, NEW j \in Job, Goto(p, j), NEW s \in SUBSET App,
         UNCHANGED <<rows, ops>>, faults' \in 0 .. MaxFaults,
         cv' = [a \in App |-> IF a \in s THEN "gone" ELSE cv[a]],
         kept' \in SUBSET kept, kept' \cap s = {},
         Sound(p)', Exclusive(p, j)
  PROVE  IInv'
<1> USE Parts, Fields
<1>1. UNCHANGED <<app, cand, tomb, phase, backup, saved, erased, lost, missed, restores>>
  BY DEF rows, ops
<1>2. job' \in [Proc -> Job] /\ cv' \in [App -> Object] /\ kept' \in SUBSET App
  BY DEF Goto, TypeOK, Object
<1>3. TypeOK'
  BY <1>1, <1>2 DEF TypeOK, Live, LiveCands
<1>4. (BackupIsConsistent /\ TombstonesAreKept /\ NewIsUnmarked)'
  BY <1>1 DEF BackupIsConsistent, TombstonesAreKept, NewIsUnmarked
<1>5. KeptAreLive' /\ CvIsKept'
  BY <1>1, <1>2 DEF KeptAreLive, CvIsKept, Live, Stored, TypeOK
<1>6. \A q \in Proc \ {p} : Sound(q)'
  BY <1>1, OthersStaySound DEF Live
<1>7. OneAtATime' /\ ErasedStaysErased'
  BY <1>1, OneAtATimeStays DEF ErasedStaysErased, Live
<1> QED
  BY <1>3, <1>4, <1>5, <1>6, <1>7 DEF IInv

LEMMA DeleteObjectInv ==
  ASSUME IInv, NEW p \in Proc, NEW a \in App, DeleteObject(p, a)
  PROVE  IInv'
<1> DEFINE j == [job[p] EXCEPT !.todo = @ \ {a}, !.done = @ \cup {a}]
<1> USE Parts, Fields
<1>1. /\ job[p].pc = "objects" /\ a \in job[p].todo /\ Goto(p, j)
      /\ cv' = [cv EXCEPT ![a] = "gone"] /\ kept' = kept \ {a}
      /\ UNCHANGED <<rows, ops, faults>>
  BY DEF DeleteObject, At
<1>2. job[p] \in Job
  OBVIOUS
<1>3. /\ j \in Job /\ j.pc = "objects" /\ j.op = job[p].op /\ j.old = job[p].old
      /\ j.todo = job[p].todo \ {a} /\ j.done = job[p].done \cup {a} /\ j.skipped = job[p].skipped
  BY <1>1, <1>2 DEF Job
<1> HIDE DEF j
<1>4. /\ job'[p] = j /\ faults' \in 0 .. MaxFaults
      /\ UNCHANGED <<app, tomb, phase>>
  BY <1>1 DEF TypeOK, Goto, rows, ops
<1>5. cv' = [b \in App |-> IF b \in {a} THEN "gone" ELSE cv[b]]
  BY <1>1 DEF TypeOK
<1>6. Sound(p)' /\ Exclusive(p, j)
  BY <1>1, <1>3, <1>4, <1>5 DEF Sound, Live, Exclusive, OneAtATime
<1> QED
  <2>1. {a} \in SUBSET App /\ kept' \in SUBSET kept /\ kept' \cap {a} = {}
    BY <1>1
  <2> QED
    BY <1>1, <1>3, <1>4, <1>5, <1>6, <2>1, ObjectsGo

LEMMA DeleteFailsInv ==
  ASSUME IInv, NEW p \in Proc, NEW a \in App, DeleteFails(p, a)
  PROVE  IInv'
<1> USE Parts, Fields
<1>1. /\ job[p].pc = "objects" /\ a \in job[p].todo
      /\ faults' \in 0 .. MaxFaults /\ kept' = kept \ {a}
      /\ UNCHANGED <<rows, ops>>
  BY FaultCounts DEF DeleteFails, At
<1>2. PICK s \in {{}, {a}} : cv' = [b \in App |-> IF b \in s THEN "gone" ELSE cv[b]]
  <2>1. CASE cv' = cv
    BY <2>1 DEF TypeOK
  <2>2. CASE cv' = [cv EXCEPT ![a] = "gone"]
    <3>1. cv' = [b \in App |-> IF b \in {a} THEN "gone" ELSE cv[b]]
      BY <2>2 DEF TypeOK
    <3> QED
      BY <3>1
  <2> QED
    BY <2>1, <2>2 DEF DeleteFails
<1>3. s \in SUBSET App /\ kept' \in SUBSET kept /\ kept' \cap s = {}
  BY <1>1, <1>2
<1>4. CASE job[p].op = "erase"
  BY <1>1, <1>2, <1>3, <1>4, Ends, IdleIsJob, ObjectsGo DEF DeleteFails
<1>5. CASE job[p].op # "erase"
  <2> DEFINE j == [job[p] EXCEPT !.todo = @ \ {a}, !.skipped = @ \cup {a}]
  <2>1. job[p] \in Job
    OBVIOUS
  <2>2. /\ j \in Job /\ j.pc = "objects" /\ j.op = job[p].op /\ j.old = job[p].old
        /\ j.todo = job[p].todo \ {a} /\ j.done = job[p].done
        /\ j.skipped = job[p].skipped \cup {a}
    BY <1>1, <2>1 DEF Job
  <2>3. Goto(p, j)
    BY <1>5 DEF DeleteFails
  <2> HIDE DEF j
  <2>4. job'[p] = j /\ UNCHANGED <<app, tomb, phase>>
    BY <1>1, <2>3 DEF TypeOK, Goto, rows, ops
  <2>5. Sound(p)' /\ Exclusive(p, j)
    BY <1>1, <1>2, <2>2, <2>4 DEF Sound, Live, Exclusive, OneAtATime
  <2> QED
    BY <1>1, <1>2, <1>3, <2>2, <2>3, <2>5, ObjectsGo
<1> QED
  BY <1>4, <1>5

\* The sweep, whole or in part, takes nothing that has to be kept.
LEMMA SweepInv ==
  ASSUME IInv, NEW p \in Proc, SweepCvs(p) \/ SweepFails(p)
  PROVE  IInv'
<1> USE Parts, Fields
<1>1. /\ job[p].pc = "sweep" /\ Done(p) /\ UNCHANGED <<rows, ops, kept>>
      /\ faults' \in 0 .. MaxFaults
  BY FaultCounts DEF SweepCvs, SweepFails, At, TypeOK
<1>2. PICK s \in SUBSET Sweepable(p) : cv' = [a \in App |-> IF a \in s THEN "gone" ELSE cv[a]]
  BY DEF SweepCvs, SweepFails
<1>3. s \in SUBSET App /\ kept' \in SUBSET kept /\ kept' \cap s = {}
  BY <1>1, <1>2 DEF Sweepable, Sound
<1> QED
  BY <1>1, <1>2, <1>3, Ends, IdleIsJob, ObjectsGo

LEMMA CommitEraseInv ==
  ASSUME IInv, NEW p \in Proc, CommitErase(p)
  PROVE  IInv'
<1> USE Parts, Fields
<1>1. /\ app' = [a \in App |-> IF a \in Removed(p) THEN [app[a] EXCEPT !.st = "gone"] ELSE app[a]]
      /\ cand' = [c \in Cand |-> IF c \in job[p].cands \cap LiveCands THEN "gone" ELSE cand[c]]
      /\ tomb' = tomb \cup Marks(p)
      /\ kept' = kept \ Removed(p)
      /\ phase' = (IF job[p].op = "replay" THEN "up" ELSE phase)
      /\ missed' = (IF job[p].op = "replay" THEN job[p].skipped ELSE missed \ Removed(p))
      /\ erased' = erased \cup job[p].done \cup Removed(p)
      /\ lost' = (lost \cup Removed(p)) \ Marks(p)
      /\ UNCHANGED <<cv, backup, saved, restores, faults>>
  BY DEF CommitErase
<1>2. /\ job[p].pc \in {"objects", "delete"}
      /\ job[p].op = "replay" => job[p].pc = "delete" /\ phase = "merged"
  BY DEF CommitErase, Ready, At, Sound
<1>3. \A a \in job[p].done : a \in App /\ app[a].st # "new"
  BY <1>2 DEF Sound
<1>4. \A a \in App : a \in Marks(p) => a \in job[p].done
  BY IdsDiffer DEF Marks
<1>5. /\ job[p].done \subseteq Marks(p) /\ Marks(p) \subseteq App \cup Cand
  BY DEF Marks
<1>6. /\ \A a \in App : Live(a)' => Live(a) /\ a \notin Removed(p) /\ app'[a] = app[a]
      /\ \A a \in App : app'[a].st = "new" <=> app[a].st = "new"
      /\ \A a \in App : Live(a) /\ a \notin Removed(p) => Live(a)'
      /\ \A a \in App : a \in job[p].done => ~Live(a)'
      /\ \A a \in Removed(p) : a \in App /\ app[a].st # "new"
  BY <1>1 DEF Live, Removed, Row
<1>7. PICK j \in Job : Goto(p, j) /\ Sound(p)' /\ Exclusive(p, j)
  <2>1. CASE job[p].op = "purge"
    <3> DEFINE j == [job[p] EXCEPT !.pc = "refs"]
    <3>1. job[p] \in Job
      OBVIOUS
    <3>2. j \in Job /\ j.pc = "refs" /\ j.op = "purge" /\ j.old = job[p].old
      BY <2>1, <3>1 DEF Job
    <3>3. Goto(p, j)
      BY <2>1 DEF CommitErase
    <3> HIDE DEF j
    <3>4. job'[p] = j
      BY <3>3 DEF TypeOK, Goto
    <3>5. Sound(p)' /\ Exclusive(p, j)
      BY <1>1, <2>1, <3>2, <3>4 DEF Sound, Exclusive
    <3> QED
      BY <3>2, <3>3, <3>5
  <2>2. CASE job[p].op # "purge"
    BY <2>2, Ends, IdleIsJob DEF CommitErase
  <2> QED
    BY <2>1, <2>2
<1>8. TypeOK'
  <2>1. app' \in [App -> Row]
    BY <1>1 DEF Row
  <2>2. cand' \in [Cand -> {"new", "live", "gone"}]
    BY <1>1 DEF TypeOK
  <2>3. \A a \in App : Live(a)' => app'[a].cand \in LiveCands'
    <3> SUFFICES ASSUME NEW a \in App, Live(a)' PROVE app'[a].cand \in LiveCands'
      OBVIOUS
    <3>1. Live(a) /\ a \notin Removed(p) /\ app'[a].cand = app[a].cand
      BY <1>6
    <3>2. app[a].cand \in Cand /\ cand[app[a].cand] = "live"
      BY <3>1 DEF TypeOK, LiveCands
    <3>3. app[a].cand \notin job[p].cands
      BY <3>1 DEF Removed
    <3> QED
      BY <1>1, <3>1, <3>2, <3>3 DEF LiveCands
  <2>4. job' \in [Proc -> Job]
    BY <1>7 DEF TypeOK, Goto
  <2>5. phase' \in {"up", "restored", "merged"} /\ missed' \in SUBSET App /\ lost' \in SUBSET App
    BY <1>1, <1>6 DEF TypeOK
  <2>6. erased' \in SUBSET App /\ kept' \in SUBSET App /\ tomb' \in SUBSET (App \cup Cand)
    BY <1>1, <1>3, <1>5, <1>6 DEF TypeOK
  <2> QED
    BY <1>1, <2>1, <2>2, <2>3, <2>4, <2>5, <2>6 DEF TypeOK
<1>9. BackupIsConsistent' /\ CvIsKept' /\ KeptAreLive'
  BY <1>1, <1>6 DEF BackupIsConsistent, CvIsKept, KeptAreLive, Stored, TypeOK
<1>10. TombstonesAreKept' /\ NewIsUnmarked'
  BY <1>1, <1>2, <1>3, <1>4, <1>5, <1>6 DEF TombstonesAreKept, NewIsUnmarked
<1>11. \A q \in Proc \ {p} : Sound(q)'
  <2>1. \A a \in App : a \in tomb' /\ Live(a)' => a \in tomb /\ Live(a)
    BY <1>1, <1>4, <1>6
  <2>2. \A q \in Proc \ {p}, a \in App :
           job[q].pc = "insert" /\ a \in job[q].todo => app'[a].st = app[a].st
    BY <1>6 DEF Sound
  <2>3. phase' = "restored" => phase = "restored"
    BY <1>1
  <2>4. \A q \in Proc \ {p} : job[q].op = "replay" => phase' = phase
    BY <1>1 DEF OneAtATime
  <2> QED
    BY <1>1, <1>6, <1>7, <2>1, <2>2, <2>3, <2>4, OthersStaySound
<1>12. OneAtATime'
  BY <1>7, OneAtATimeStays
<1>13. ErasedStaysErased'
  <2> SUFFICES ASSUME phase' = "up", NEW a \in App, a \in erased', a \notin lost', a \notin missed',
                      Live(a)'
               PROVE  FALSE
    BY <1>1, <1>3, <1>6 DEF ErasedStaysErased, TypeOK
  <2>1. /\ Live(a) /\ a \notin Removed(p) /\ a \notin job[p].done
        /\ a \in erased /\ a \notin lost
    BY <1>1, <1>4, <1>6
  <2>2. CASE job[p].op = "replay"
    <3>1. a \in tomb /\ a \notin job[p].skipped
      BY <1>1, <1>2, <2>1, <2>2 DEF TombstonesAreKept
    <3> QED
      BY <1>2, <2>1, <2>2, <3>1 DEF Sound
  <2>3. CASE job[p].op # "replay"
    BY <1>1, <2>1, <2>3 DEF ErasedStaysErased
  <2> QED
    BY <2>2, <2>3
<1> QED
  BY <1>7, <1>8, <1>9, <1>10, <1>11, <1>12, <1>13 DEF IInv
-----------------------------------------------------------------------------
(***************************************************************************)
(* The restore.                                                            *)
(***************************************************************************)
LEMMA RestoreInv ==
  ASSUME IInv, Restore
  PROVE  IInv'
<1> USE Parts, Fields
<1>1. /\ restores < MaxRestores /\ restores' = restores + 1
      /\ job' = [q \in Proc |-> Idle]
      /\ app' = [a \in App |-> IF backup.app[a].st = "new" /\ app[a].st # "new"
                              THEN [app[a] EXCEPT !.st = "gone"] ELSE backup.app[a]]
      /\ cand' = [c \in Cand |-> IF backup.cand[c] = "new" /\ cand[c] # "new"
                                THEN "gone" ELSE backup.cand[c]]
      /\ tomb' = backup.tomb
      /\ kept' = {a \in backup.kept : Stored(a)}
      /\ phase' = "restored"
      /\ UNCHANGED <<cv, backup, erased, missed>>
  BY DEF Restore
<1>2. /\ saved' \in {tomb, {}}
      /\ lost' = lost \cup (((tomb \cup saved) \ (backup.tomb \cup saved')) \cap App)
      /\ faults' \in 0 .. MaxFaults
  BY FaultCounts DEF Restore, TypeOK
<1>3. /\ backup.app \in [App -> Row] /\ backup.cand \in [Cand -> {"new", "live", "gone"}]
      /\ backup.tomb \in SUBSET (App \cup Cand) /\ backup.kept \in SUBSET App
  BY DEF TypeOK, Backup
<1>4. \A a \in App :
        /\ backup.app[a] \in Row
        /\ app'[a] \in Row
        /\ Live(a)' <=> backup.app[a].st = "live"
        /\ Live(a)' => app'[a] = backup.app[a]
        /\ app'[a].st = "new" => backup.app[a].st = "new" /\ app[a].st = "new"
  BY <1>1, <1>3 DEF Live, Row
<1>5. TypeOK'
  <2>1. app' \in [App -> Row]
    BY <1>1, <1>4
  <2>2. /\ cand' \in [Cand -> {"new", "live", "gone"}]
        /\ \A c \in Cand : backup.cand[c] = "live" => cand'[c] = "live"
    BY <1>1, <1>3
  <2>3. \A a \in App : Live(a)' => app'[a].cand \in LiveCands'
    BY <1>4, <2>2 DEF BackupIsConsistent, LiveCands
  <2>4. restores' \in 0 .. MaxRestores
    BY <1>1, BoundsAreBounds DEF TypeOK
  <2>5. job' \in [Proc -> Job]
    BY <1>1, IdleIsJob
  <2>6. lost' \in SUBSET App /\ saved' \in SUBSET (App \cup Cand)
    BY <1>2 DEF TypeOK
  <2> QED
    BY <1>1, <1>2, <1>3, <2>1, <2>2, <2>3, <2>4, <2>5, <2>6 DEF TypeOK
<1>6. BackupIsConsistent'
  BY <1>1 DEF BackupIsConsistent
<1>7. KeptAreLive' /\ CvIsKept'
  BY <1>1, <1>3, <1>4 DEF KeptAreLive, CvIsKept, BackupIsConsistent, Stored
<1>8. TombstonesAreKept'
  BY <1>1, <1>2 DEF TombstonesAreKept, TypeOK
<1>9. NewIsUnmarked'
  BY <1>1, <1>2, <1>4 DEF NewIsUnmarked
<1>10. (\A q \in Proc : Sound(q)') /\ OneAtATime' /\ ErasedStaysErased'
  BY <1>1 DEF Sound, OneAtATime, ErasedStaysErased, Idle
<1> QED
  BY <1>5, <1>6, <1>7, <1>8, <1>9, <1>10 DEF IInv

LEMMA MergeInv ==
  ASSUME IInv, Merge
  PROVE  IInv'
<1> USE Parts, Fields
<1>1. /\ phase = "restored" /\ phase' = "merged"
      /\ tomb' = tomb \cup saved /\ saved' = {} /\ backup' = NoBackup
      /\ UNCHANGED <<app, cand, job, erased, lost, missed, restores, faults>>
  BY DEF Merge, Merged
<1>2. cv' \in [App -> Object] /\ kept' \subseteq kept /\ \A a \in kept' : Stored(a)'
  <2>1. CASE UNCHANGED <<cv, kept>>
    BY <2>1 DEF TypeOK, CvIsKept, Stored
  <2>2. CASE /\ cv' = [a \in App |-> IF backup.cv[a] = "none" /\ cv[a] # "none"
                                    THEN "gone" ELSE backup.cv[a]]
             /\ kept' = {a \in kept : backup.cv[a] \in {"fresh", "old"}}
    <3>1. backup.cv \in [App -> Object] /\ kept \in SUBSET App
      BY DEF TypeOK, Backup
    <3> QED
      BY <2>2, <3>1 DEF Object, Stored
  <2> QED
    BY <2>1, <2>2 DEF Merge
<1>3. NoBackup \in Backup
  BY DEF NoRow, Row, Clock, NoBackup, Backup, Object
<1>4. TypeOK'
  BY <1>1, <1>2, <1>3 DEF TypeOK, Live, LiveCands
<1>5. BackupIsConsistent' /\ NewIsUnmarked'
  BY <1>1 DEF BackupIsConsistent, NewIsUnmarked, NoBackup, NoRow
<1>6. KeptAreLive' /\ CvIsKept' /\ TombstonesAreKept'
  BY <1>1, <1>2 DEF KeptAreLive, CvIsKept, TombstonesAreKept, Live
<1>7. ASSUME NEW q \in Proc PROVE Sound(q)'
  BY <1>1 DEF Sound
<1>8. OneAtATime' /\ ErasedStaysErased'
  BY <1>1 DEF OneAtATime, ErasedStaysErased
<1> QED
  BY <1>4, <1>5, <1>6, <1>7, <1>8 DEF IInv
-----------------------------------------------------------------------------
(***************************************************************************)
(* The theorems.                                                           *)
(***************************************************************************)
LEMMA StutterInv == IInv /\ UNCHANGED vars => IInv'
<1> SUFFICES ASSUME IInv, UNCHANGED vars PROVE IInv'
  OBVIOUS
<1>1. UNCHANGED <<app, cand, tomb, cv, job, phase, backup, saved, kept, erased, lost, missed,
                  restores, faults>>
  BY DEF vars, rows, ops
<1> QED
  BY <1>1, Parts, NoJobMoves DEF TypeOK, ops, Stored

LEMMA NextInv == IInv /\ [Next]_vars => IInv'
<1> SUFFICES ASSUME IInv, Next PROVE IInv'
  BY StutterInv
<1>1. CASE (\E a \in App : Upload(a) \/ StampDecision(a)) \/ Time
  BY <1>1, TimeInv DEF Time
<1>2. ASSUME NEW p \in Proc, Apply(p) PROVE IInv'
  BY <1>2, LoadApplyInv, InsertInv DEF Apply
<1>3. ASSUME NEW p \in Proc, Work(p) PROVE IInv'
  BY <1>3, DeleteObjectInv, FindOrphansInv, CommitEraseInv, ReadRefsInv, SweepInv DEF Work
<1>4. ASSUME NEW p \in Proc, Fails(p) PROVE IInv'
  BY <1>4, DeleteFailsInv, RollBackInv, SweepInv, KillInv DEF Fails
<1>5. ASSUME NEW p \in Proc,
             BeginPurge(p) \/ BeginReplay(p) \/ \E c \in Cand : BeginErase(p, c)
      PROVE  IInv'
  BY <1>5, BeginPurgeInv, BeginReplayInv, BeginEraseInv
<1>6. CASE TakeBackup \/ Restore \/ Merge
  BY <1>6, TakeBackupInv, RestoreInv, MergeInv
<1> QED
  BY <1>1, <1>2, <1>3, <1>4, <1>5, <1>6 DEF Next

\* The invariant holds in every reachable state of Erasure.
THEOREM Invariance == Spec => []IInv
<1>1. IInv /\ [Next]_vars => IInv'
  BY NextInv
<1> QED
  BY <1>1, InitInv, PTL DEF Spec

\* The tables, the bucket and the jobs keep their shape.
THEOREM TypeCorrect == Spec => []TypeOK
<1>1. IInv => TypeOK
  BY DEF IInv
<1> QED
  BY <1>1, Invariance, PTL

\* Tombstones survive a restore and its replay: no application that any eraser
\* deleted is live once the restore is over, but those without a tombstone of
\* their own (they went with their candidate's row, or a restore lost it) and those
\* at which the replay met a storage error (scripts/restore.sh, tombstones.replay).
THEOREM ErasedForGood == Spec => []ErasedStaysErased
<1>1. IInv => ErasedStaysErased
  BY DEF IInv
<1> QED
  BY <1>1, Invariance, PTL

\* UPLOAD_GRACE and the order of the two reads keep the nightly sweep of the
\* bucket (run_purge) away from the CVs of the applications that are there.
THEOREM CvsAreKept == Spec => []CvIsKept
<1>1. IInv => CvIsKept
  BY DEF IInv
<1> QED
  BY <1>1, Invariance, PTL
=============================================================================
