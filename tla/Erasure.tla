------------------------------ MODULE Erasure ------------------------------
(***************************************************************************)
(* The life and the end of an application's data in one company:           *)
(*   services/applications.py   submit_application, stamp_decision         *)
(*   services/erasure.py        erase_application, erase_candidate         *)
(*   services/retention.py      purge_company, run_purge                   *)
(*   services/tombstones.py     record, replay                             *)
(*   services/storage.py        the bucket of CVs                          *)
(*   scripts/backup.sh, scripts/restore.sh                                 *)
(*                                                                         *)
(* The database is changed by transactions, the bucket by calls that may   *)
(* fail and that no rollback undoes: every eraser deletes the objects      *)
(* first, one call each, and the rows in one commit at the end.  What a    *)
(* statement selected is kept until that commit and is not locked.         *)
(***************************************************************************)
EXTENDS Integers, FiniteSets

CONSTANTS
    Proc,        \* requests, the worker, the operator's shell
    Duty,        \* what each of them may do
    App,         \* applications, each with the CV uploaded for it
    Cand,        \* ids of candidate rows
    Email,       \* persons
    OwnerOf,     \* the person behind each application
    EmailOf,     \* the email of each candidate row
    None,        \* no candidate
    Movers,      \* bound: applications the team decides on
    DumpEarly,   \* bound: whether a dump is taken before all have applied
    MaxRestores, \* bound: restores
    MaxFaults    \* bound: storage errors, rollbacks, killed processes

Op == {"apply", "erase", "purge", "replay"}

ASSUME DutiesAreOps == Duty \in [Proc -> SUBSET Op]
ASSUME PersonsHaveEmails == OwnerOf \in [App -> Email] /\ EmailOf \in [Cand -> Email]
ASSUME IdsDiffer == None \notin Cand /\ App \cap Cand = {}
ASSUME BoundsAreBounds ==
    /\ Movers \subseteq App /\ DumpEarly \in BOOLEAN
    /\ MaxRestores \in Nat /\ MaxFaults \in Nat

VARIABLES
    app,      \* applications: whether the row exists, its candidate, its retention clock
    cand,     \* candidate rows
    tomb,     \* erasure_tombstones
    cv,       \* objects in the bucket, younger or older than UPLOAD_GRACE
    job,      \* what each process has selected and where it is
    phase,    \* progress of scripts/restore.sh
    backup,   \* the dump and the tarball
    saved,    \* the tombstones a restore has put aside
    kept,     \* history: live applications that were submitted on a fresh upload
    erased,   \* history: applications an eraser deleted
    lost,     \* history: of those, the ones that got no tombstone, or whose a restore lost
    missed,   \* history: applications the last replay skipped
    restores, faults

rows == <<app, cand, tomb>>
ops == <<phase, backup, saved, erased, lost, missed, restores>>
vars == <<rows, cv, job, ops, kept, faults>>

\* decided_at against the company's window; a stage that is not rejected or
\* withdrawn has no clock the purge looks at.
Clock == {"open", "recent", "expired"}
Row == [st : {"new", "live", "gone"}, cand : Cand \cup {None}, clock : Clock]
NoRow == [st |-> "new", cand |-> None, clock |-> "open"]
Object == {"none", "fresh", "old", "gone"}

Idle == [pc |-> "idle", op |-> "apply", todo |-> {}, done |-> {}, cands |-> {},
         old |-> {}, skipped |-> {}]

NoBackup == [taken |-> FALSE, app |-> [a \in App |-> NoRow],
             cand |-> [c \in Cand |-> "new"], tomb |-> {}, kept |-> {},
             cv |-> [a \in App |-> "none"]]

Init ==
    /\ app = [a \in App |-> NoRow]
    /\ cand = [c \in Cand |-> "new"]
    /\ tomb = {}
    /\ cv = [a \in App |-> "none"]
    /\ job = [p \in Proc |-> Idle]
    /\ phase = "up"
    /\ backup = NoBackup
    /\ saved = {}
    /\ kept = {} /\ erased = {} /\ lost = {} /\ missed = {}
    /\ restores = 0 /\ faults = 0

Live(a) == app[a].st = "live"
Apps(c) == {a \in App : Live(a) /\ app[a].cand = c}
Stored(a) == cv[a] \in {"fresh", "old"}
LiveCands == {c \in Cand : cand[c] = "live"}

Goto(p, j) == job' = [job EXCEPT ![p] = j]
Done(p) == Goto(p, Idle)
Begins(p, op) == job[p].pc = "idle" /\ op \in Duty[p]
At(p, l) == job[p].pc = l
Fault == faults < MaxFaults /\ faults' = faults + 1
-----------------------------------------------------------------------------
(***************************************************************************)
(* Applying.  The CV is uploaded straight to the bucket, before the form   *)
(* is sent.                                                                *)
(***************************************************************************)
Upload(a) ==
    /\ app[a].st = "new" /\ cv[a] = "none"
    /\ cv' = [cv EXCEPT ![a] = "fresh"]
    /\ UNCHANGED <<rows, job, ops, kept, faults>>

\* _validated_cv, then the select of _get_or_create_candidate.
LoadApply(p, a) ==
    /\ Begins(p, "apply")
    /\ app[a].st = "new" /\ Stored(a)
    /\ \A q \in Proc : ~(At(q, "insert") /\ a \in job[q].todo)
    /\ Goto(p, [Idle EXCEPT !.pc = "insert", !.todo = {a},
                            !.cands = {c \in LiveCands : EmailOf[c] = OwnerOf[a]}])
    /\ UNCHANGED <<rows, cv, ops, kept, faults>>

\* A candidate row deleted since it was selected fails the foreign key, one of
\* the same email inserted since fails the unique constraint.
Refused(p, a) ==
    IF job[p].cands = {} THEN \E c \in LiveCands : EmailOf[c] = OwnerOf[a]
    ELSE job[p].cands \cap LiveCands = {}

\* The insert and its commit, with a new candidate row if none was found.
Insert(p) ==
    /\ At(p, "insert")
    /\ \E a \in job[p].todo :
         IF Refused(p, a) THEN UNCHANGED <<app, cand, kept>>
         ELSE \E c \in Cand :
           /\ IF job[p].cands = {} THEN cand[c] = "new" /\ EmailOf[c] = OwnerOf[a]
                                   ELSE c \in job[p].cands \cap LiveCands
           /\ app' = [app EXCEPT ![a] = [NoRow EXCEPT !.st = "live", !.cand = c]]
           /\ cand' = IF job[p].cands = {} THEN [cand EXCEPT ![c] = "live"] ELSE cand
           /\ kept' = IF cv[a] = "fresh" THEN kept \cup {a} ELSE kept
    /\ Done(p)
    /\ UNCHANGED <<tomb, cv, ops, faults>>

(***************************************************************************)
(* The retention clock.                                                    *)
(***************************************************************************)
\* Rejecting or withdrawing stamps decided_at, reopening clears it.
StampDecision(a) ==
    /\ a \in Movers
    /\ Live(a)
    /\ app' = [app EXCEPT ![a].clock = IF @ = "open" THEN "recent" ELSE "open"]
    /\ UNCHANGED <<cand, tomb, cv, job, ops, kept, faults>>

AgeClock(a) ==
    /\ Live(a) /\ app[a].clock = "recent"
    /\ app' = [app EXCEPT ![a].clock = "expired"]
    /\ UNCHANGED <<cand, tomb, cv, job, ops, kept, faults>>

AgeCv(a) ==
    /\ cv[a] = "fresh"
    /\ cv' = [cv EXCEPT ![a] = "old"]
    /\ UNCHANGED <<rows, job, ops, kept, faults>>

(***************************************************************************)
(* Erasing: a candidate on request, expired applications at night, what    *)
(* has a tombstone after a restore.                                        *)
(***************************************************************************)
BeginErase(p, c) ==
    /\ Begins(p, "erase")
    /\ cand[c] = "live"
    /\ Goto(p, [Idle EXCEPT !.pc = "objects", !.op = "erase", !.todo = Apps(c), !.cands = {c}])
    /\ UNCHANGED <<rows, cv, ops, kept, faults>>

Old == {a \in App : cv[a] = "old"}

\* Mutant of Expired: what has a tombstone is taken for erased.
ExpiredUnmarked == {a \in App \ tomb : Live(a) /\ app[a].clock = "expired"}

Expired == {a \in App : Live(a) /\ app[a].clock = "expired"}

\* The age of what is found later is measured from here.
BeginPurge(p) ==
    /\ Begins(p, "purge")
    /\ phase # "restored"
    /\ Goto(p, [Idle EXCEPT !.pc = "objects", !.op = "purge", !.todo = Expired, !.old = Old])
    /\ UNCHANGED <<rows, cv, ops, kept, faults>>

\* A row that gets its tombstone after this is deleted with it.
BeginReplay(p) ==
    /\ Begins(p, "replay")
    /\ phase = "merged"
    /\ \A q \in Proc : job[q].op # "replay"
    /\ Goto(p, [Idle EXCEPT !.pc = "objects", !.op = "replay",
                            !.todo = {a \in App \cap tomb : Live(a)}])
    /\ UNCHANGED <<rows, cv, ops, kept, faults>>

\* storage.delete_object
DeleteObject(p, a) ==
    /\ At(p, "objects") /\ a \in job[p].todo
    /\ cv' = [cv EXCEPT ![a] = "gone"]
    /\ kept' = kept \ {a}
    /\ Goto(p, [job[p] EXCEPT !.todo = @ \ {a}, !.done = @ \cup {a}])
    /\ UNCHANGED <<rows, ops, faults>>

\* A storage error, after the object is gone or before: the admin's request
\* fails, the purge and the replay skip the application.
DeleteFails(p, a) ==
    /\ At(p, "objects") /\ a \in job[p].todo
    /\ Fault
    /\ cv' \in {cv, [cv EXCEPT ![a] = "gone"]}
    /\ kept' = kept \ {a}
    /\ IF job[p].op = "erase" THEN Done(p)
       ELSE Goto(p, [job[p] EXCEPT !.todo = @ \ {a}, !.skipped = @ \cup {a}])
    /\ UNCHANGED <<rows, ops>>

\* Candidates without an application, as the statement's snapshot has them.
FindOrphans(p) ==
    /\ At(p, "objects") /\ job[p].todo = {}
    /\ job[p].op # "erase"
    /\ LET orphans == {c \in LiveCands : Apps(c) \subseteq job[p].done}
       IN  Goto(p, [job[p] EXCEPT !.pc = "delete",
                       !.cands = IF job[p].op = "purge" THEN orphans ELSE orphans \cap tomb])
    /\ UNCHANGED <<rows, cv, ops, kept, faults>>

Ready(p) ==
    \/ At(p, "delete")
    \/ At(p, "objects") /\ job[p].op = "erase" /\ job[p].todo = {}

\* tombstones.record: each application, and the candidate an admin erased.
Marks(p) == job[p].done \cup (IF job[p].op = "erase" THEN job[p].cands ELSE {})

\* Mutant of Removed: only the applications selected before are deleted.
RemovedSelected(p) == {a \in job[p].done : Live(a)}

\* Deleting a candidate takes along every application it has by now.
Removed(p) == {a \in App : Live(a) /\ (a \in job[p].done \/ app[a].cand \in job[p].cands)}

CommitErase(p) ==
    /\ Ready(p)
    /\ app' = [a \in App |-> IF a \in Removed(p) THEN [app[a] EXCEPT !.st = "gone"] ELSE app[a]]
    /\ cand' = [c \in Cand |-> IF c \in job[p].cands \cap LiveCands THEN "gone" ELSE cand[c]]
    /\ tomb' = tomb \cup Marks(p)
    /\ kept' = kept \ Removed(p)
    /\ IF job[p].op = "purge" THEN Goto(p, [job[p] EXCEPT !.pc = "refs"]) ELSE Done(p)
    /\ phase' = IF job[p].op = "replay" THEN "up" ELSE phase
    /\ missed' = IF job[p].op = "replay" THEN job[p].skipped ELSE missed \ Removed(p)
    /\ erased' = erased \cup job[p].done \cup Removed(p)
    /\ lost' = (lost \cup Removed(p)) \ Marks(p)
    /\ UNCHANGED <<cv, backup, saved, restores, faults>>

\* The transaction fails: the purge goes on to its sweeps, the others end.
RollBack(p) ==
    /\ At(p, "objects") \/ At(p, "delete")
    /\ Fault
    /\ IF job[p].op = "purge" THEN Goto(p, [job[p] EXCEPT !.pc = "refs"]) ELSE Done(p)
    /\ UNCHANGED <<rows, cv, ops, kept>>

\* The sweep of unreferenced CVs: the keys the table has, then the listing.
ReadRefs(p) ==
    /\ At(p, "refs")
    /\ Goto(p, [job[p] EXCEPT !.pc = "sweep", !.done = {a \in App : Live(a)}])
    /\ UNCHANGED <<rows, cv, ops, kept, faults>>

\* Mutants of Sweepable: no grace for uploads; only uploads nobody applied with.
SweepableAny(p) == {a \in App : Stored(a)} \ job[p].done
SweepableAbandoned(p) == {a \in job[p].old : Stored(a) /\ app[a].st = "new"}

Sweepable(p) == {a \in job[p].old : Stored(a)} \ job[p].done

SweepCvs(p) ==
    /\ At(p, "sweep")
    /\ cv' = [a \in App |-> IF a \in Sweepable(p) THEN "gone" ELSE cv[a]]
    /\ Done(p)
    /\ UNCHANGED <<rows, ops, kept, faults>>

\* The bulk delete fails for some keys or all.
SweepFails(p) ==
    /\ At(p, "sweep")
    /\ Fault
    /\ \E s \in SUBSET Sweepable(p) : cv' = [a \in App |-> IF a \in s THEN "gone" ELSE cv[a]]
    /\ Done(p)
    /\ UNCHANGED <<rows, ops, kept>>

Kill(p) ==
    /\ ~At(p, "idle")
    /\ Fault
    /\ Done(p)
    /\ UNCHANGED <<rows, cv, ops, kept>>

(***************************************************************************)
(* Backup and restore.  One backup is kept, and restored once.             *)
(***************************************************************************)
\* scripts/backup.sh: the dump, and the tarball of the bucket with it.
TakeBackup ==
    /\ ~backup.taken /\ restores < MaxRestores
    /\ DumpEarly \/ \A a \in App : app[a].st # "new"
    /\ backup' = [taken |-> TRUE, app |-> app, cand |-> cand, tomb |-> tomb, kept |-> kept, cv |-> cv]
    /\ UNCHANGED <<rows, cv, job, phase, saved, erased, lost, missed, restores, kept, faults>>

\* Steps 1 to 3: everything is stopped, the tombstones are put aside (a failed
\* pg_dump leaves an empty file), the dump is restored, the backend started.
\* What an earlier run has put aside and not merged is lost.  An id the dump does
\* not know is not given out again.
Restore ==
    /\ backup.taken
    /\ restores < MaxRestores
    /\ restores' = restores + 1
    /\ job' = [p \in Proc |-> Idle]
    /\ \/ saved' = tomb /\ UNCHANGED faults
       \/ saved' = {} /\ Fault
    /\ lost' = lost \cup (((tomb \cup saved) \ (backup.tomb \cup saved')) \cap App)
    /\ app' = [a \in App |-> IF backup.app[a].st = "new" /\ app[a].st # "new"
                             THEN [app[a] EXCEPT !.st = "gone"] ELSE backup.app[a]]
    /\ cand' = [c \in Cand |-> IF backup.cand[c] = "new" /\ cand[c] # "new"
                               THEN "gone" ELSE backup.cand[c]]
    /\ tomb' = backup.tomb
    /\ kept' = {a \in backup.kept : Stored(a)}
    /\ phase' = "restored"
    /\ UNCHANGED <<cv, backup, erased, missed>>

\* Mutant of Merged: the tombstones of the dump are left as they are.
MergedNot == tomb

Merged == tomb \cup saved

\* Steps 4 to 6: the merge, the bucket from the tarball if one is given, the
\* worker started.
Merge ==
    /\ phase = "restored"
    /\ tomb' = Merged
    /\ \/ UNCHANGED <<cv, kept>>
       \/ /\ cv' = [a \in App |-> IF backup.cv[a] = "none" /\ cv[a] # "none"
                                 THEN "gone" ELSE backup.cv[a]]
          /\ kept' = {a \in kept : backup.cv[a] \in {"fresh", "old"}}
    /\ phase' = "merged"
    /\ saved' = {} /\ backup' = NoBackup
    /\ UNCHANGED <<app, cand, job, erased, lost, missed, restores, faults>>
-----------------------------------------------------------------------------
Apply(p) == (\E a \in App : LoadApply(p, a)) \/ Insert(p)

Work(p) ==
    \/ \E a \in App : DeleteObject(p, a)
    \/ FindOrphans(p) \/ CommitErase(p) \/ ReadRefs(p) \/ SweepCvs(p)

Fails(p) == (\E a \in App : DeleteFails(p, a)) \/ RollBack(p) \/ SweepFails(p) \/ Kill(p)

Time == \E a \in App : AgeClock(a) \/ AgeCv(a)

Next ==
    \/ \E a \in App : Upload(a) \/ StampDecision(a)
    \/ Time
    \/ \E p \in Proc :
         \/ Apply(p) \/ BeginPurge(p) \/ BeginReplay(p) \/ Work(p) \/ Fails(p)
         \/ \E c \in Cand : BeginErase(p, c)
    \/ TakeBackup \/ Restore \/ Merge

\* A job or request that is under way goes on, the purge starts every night, an
\* interrupted restore is finished by the operator, and uploads grow old.
Proceed(p) == Insert(p) \/ Work(p) \/ BeginPurge(p) \/ BeginReplay(p)

Fairness ==
    /\ \A p \in Proc : WF_vars(Proceed(p))
    /\ \A a \in App : WF_vars(AgeCv(a))
    /\ WF_vars(Merge)

Spec == Init /\ [][Next]_vars
FairSpec == Spec /\ Fairness
-----------------------------------------------------------------------------
Job == [pc : {"idle", "insert", "objects", "delete", "refs", "sweep"}, op : Op,
        todo : SUBSET App, done : SUBSET App, cands : SUBSET Cand, old : SUBSET App,
        skipped : SUBSET App]

Backup == [taken : BOOLEAN, app : [App -> Row],
           cand : [Cand -> {"new", "live", "gone"}], tomb : SUBSET (App \cup Cand),
           kept : SUBSET App, cv : [App -> Object]]

\* The tables, the bucket and the jobs have their shape, and a live application
\* has a candidate that is there.
TypeOK ==
    /\ app \in [App -> Row]
    /\ cand \in [Cand -> {"new", "live", "gone"}]
    /\ tomb \in SUBSET (App \cup Cand) /\ saved \in SUBSET (App \cup Cand)
    /\ cv \in [App -> Object]
    /\ job \in [Proc -> Job]
    /\ phase \in {"up", "restored", "merged"}
    /\ backup \in Backup
    /\ kept \in SUBSET App /\ erased \in SUBSET App
    /\ lost \in SUBSET App /\ missed \in SUBSET App
    /\ restores \in 0 .. MaxRestores /\ faults \in 0 .. MaxFaults
    /\ \A a \in App : Live(a) => app[a].cand \in LiveCands

\* "so after scripts/restore.sh the erased people stay erased" (tombstones.py:8):
\* no application an eraser has deleted is live once the restore is over, however
\* old the dump is and whatever was erased between the dump and the restore.  It
\* does not hold of an application without a tombstone of its own, which is one
\* that went with its candidate's row or whose tombstone a restore lost, nor of one
\* at which the last replay met a storage error.
ErasedStaysErased == phase = "up" => \A a \in erased \ (lost \cup missed) : ~Live(a)

\* The sweep never takes the CV of an application that was submitted within a day
\* of its upload; only an eraser that goes for that application does.
CvIsKept == \A a \in kept : Stored(a)

\* The parts of the inductive invariant.  A dump is consistent, ...
BackupIsConsistent ==
    /\ backup.kept \subseteq {a \in App : backup.app[a].st = "live"}
    /\ \A a \in App : backup.app[a].st = "live" =>
           backup.app[a].cand \in Cand /\ backup.cand[backup.app[a].cand] = "live"

KeptAreLive == \A a \in kept : Live(a)

\* ... what was erased has its tombstone in the table or put aside, ...
TombstonesAreKept ==
    /\ erased \ lost \subseteq tomb \cup saved
    /\ phase # "restored" => saved = {}

\* ... an id that is not given out yet has none anywhere, ...
NewIsUnmarked ==
    \A a \in App : app[a].st = "new" => a \notin tomb \cup saved \cup backup.tomb \cup erased

\* ... and what a job knows is sound: a submission has an id of its own, erasers
\* know rows, not ids to come; a sweep goes for what was old when its run began, which no submission on a fresh
\* upload can refer to; a replay has found all that live in spite of a tombstone.
Sound(p) ==
    /\ job[p].pc = "insert" => \A a \in job[p].todo : app[a].st = "new"
    /\ job[p].pc \in {"objects", "delete"} =>
         \A a \in job[p].todo \cup job[p].done : app[a].st # "new"
    /\ job[p].pc \in {"refs", "sweep"} => job[p].op = "purge"
    /\ job[p].op = "purge" =>
         phase # "restored" /\ \A a \in job[p].old : cv[a] \in {"old", "gone"}
    /\ job[p].pc = "sweep" => (job[p].old \ job[p].done) \cap kept = {}
    /\ job[p].op = "replay" =>
         /\ job[p].pc \in {"objects", "delete"} /\ phase = "merged"
         /\ job[p].pc = "delete" => job[p].todo = {}
         /\ \A a \in App \cap tomb :
              Live(a) => a \in job[p].todo \cup job[p].done \cup job[p].skipped

OneAtATime ==
    \A p, q \in Proc : p # q =>
      /\ ~(job[p].op = "replay" /\ job[q].op = "replay")
      /\ job[p].pc = "insert" /\ job[q].pc = "insert" => job[p].todo \cap job[q].todo = {}

IInv ==
    /\ TypeOK /\ BackupIsConsistent /\ KeptAreLive /\ CvIsKept
    /\ TombstonesAreKept /\ NewIsUnmarked
    /\ (\A p \in Proc : Sound(p)) /\ OneAtATime
    /\ ErasedStaysErased

\* "a re-considered candidate must never be purged from a stale clock"
\* (services/applications.py:37): what the purge deletes has a clock that runs.
ReconsideredIsKept ==
    [][\A p \in Proc, a \in App :
         /\ job[p].op = "purge" /\ At(p, "delete") /\ ~At(p, "delete")'
         /\ a \in job[p].done /\ Live(a) /\ app[a].clock = "open"
         => Live(a)']_vars

\* The nightly purge keeps the notice's promise: no application stays for ever
\* with its window over, whatever fails on the way.
ExpiredIsPurged == \A a \in App : []<>~(Live(a) /\ app[a].clock = "expired")

\* Nothing outlives the row of an application: its CV does not stay for ever,
\* whichever way the row went, nor does a candidate without an application.
NothingIsLeft ==
    /\ \A a \in App : []<>~(app[a].st = "gone" /\ Stored(a))
    /\ \A c \in Cand : []<>~(cand[c] = "live" /\ Apps(c) = {})
=============================================================================
