--------------------------- MODULE WebhooksProofs ---------------------------
(***************************************************************************)
(* Proofs about Webhooks, for any number of sources, endpoints and jobs    *)
(* that run at a time.  Most actions leave the rows, the jobs under way,   *)
(* the endpoints and the histories alone (Quiet); the others have a lemma  *)
(* each.                                                                   *)
(***************************************************************************)
EXTENDS Webhooks, TLAPS

Quiet == UNCHANGED <<endpoint, row, wrk, erase, history>>

LEMMA KeyParts ==
  ASSUME NEW k \in Key PROVE k[1] \in Source /\ k[2] \in Endpoint /\ k = <<k[1], k[2]>>
  BY DEF Key

LEMMA SomeKey == NoJob \in Job /\ NoRow \in Row /\ AtRest("done") \in Request
<1>1. PICK s \in Source, e \in Endpoint : TRUE
  BY SomethingToDeliver
<1>2. <<s, e>> \in Key
  BY DEF Key
<1>3. (CHOOSE k \in Key : TRUE) \in Key
  BY <1>2
<1> QED
  BY <1>3, BoundsAreNumbers DEF NoJob, Job, NoRow, Row, AtRest, Request

\* What the type invariant says of one row, one job, one request.
LEMMA Fields ==
  ASSUME TypeOK
  PROVE  /\ \A k \in Key : /\ row[k] \in Row
                           /\ row[k].attempts \in 0 .. MAX_ATTEMPTS
                           /\ row[k].status \in {"none", "queued", "delivered", "failed"}
                           /\ jobs[k] \in Nat
                           /\ tries[k] \in 0 .. MAX_ATTEMPTS
         /\ \A w \in Worker : /\ wrk[w] \in Job
                              /\ wrk[w].key \in Key
                              /\ wrk[w].attempts \in 0 .. MAX_ATTEMPTS
         /\ \A s \in Source : req[s] \in Request /\ req[s].keys \in SUBSET Key
  BY DEF TypeOK, Row, Job, Request
-----------------------------------------------------------------------------
(***************************************************************************)
(* The initial states.                                                     *)
(***************************************************************************)
LEMMA InitInv == Init => IInv
<1> SUFFICES ASSUME Init PROVE IInv
  OBVIOUS
<1>1. TypeOK
  BY SomeKey, BoundsAreNumbers DEF Init, TypeOK, AtRest, Request, Erasure
<1>2. DeliveredWasAccepted /\ FailedWasTried /\ RowsAreRegistered
  BY DEF Init, DeliveredWasAccepted, FailedWasTried, RowsAreRegistered, Present, NoRow
<1>3. PostsWhatExists /\ CopyIsReal
  BY DEF Init, PostsWhatExists, CopyIsReal, Posting, NoJob
<1>4. CounterIsReal
  BY BoundsAreNumbers DEF Init, CounterIsReal, NoRow
<1>5. ErasedAreLocked
  BY DEF Init, ErasedAreLocked
<1>6. RowsComeOnce
  BY DEF Init, RowsComeOnce, Present, NoRow, AtRest, Key
<1> QED
  BY <1>1, <1>2, <1>3, <1>4, <1>5, <1>6 DEF IInv
-----------------------------------------------------------------------------
(***************************************************************************)
(* Requests and jobs that only move.                                       *)
(***************************************************************************)
\* A step that moves requests and jobs keeps the invariant, if requests keep
\* to their own rows.
LEMMA QuietKeeps ==
  ASSUME IInv, Quiet, TypeOK',
         \A s \in Source :
            /\ \A k \in req'[s].keys : k[1] = s
            /\ req'[s].pc \in {"idle", "caused", "chosen"} =>
                 req[s].pc \in {"idle", "caused", "chosen"}
  PROVE  IInv'
<1> USE DEF history
<1>1. DeliveredWasAccepted' /\ FailedWasTried'
  BY DEF IInv, Quiet, DeliveredWasAccepted, FailedWasTried
<1>2. PostsWhatExists' /\ RowsAreRegistered'
  BY DEF IInv, Quiet, PostsWhatExists, RowsAreRegistered, Present, Registered
<1>3. CounterIsReal' /\ CopyIsReal'
  BY DEF IInv, Quiet, CounterIsReal, CopyIsReal
<1>4. ErasedAreLocked'
  BY DEF IInv, Quiet, ErasedAreLocked, Held
<1>5. RowsComeOnce'
  BY DEF IInv, Quiet, RowsComeOnce, Present
<1> QED
  BY <1>1, <1>2, <1>3, <1>4, <1>5 DEF IInv

LEMMA RequestMoves ==
  ASSUME IInv, NEW s \in Source,
         \/ Cause(s) \/ ChooseEndpoints(s) \/ QueueFails(s) \/ RequestDies(s)
         \/ \E e \in Endpoint : ChooseSample(s, e)
         \/ \E k \in Key : Enqueue(s, k) \/ RefreshFails(s, k)
  PROVE  IInv'
<1> USE DEF history
<1> DEFINE Early == {"idle", "caused", "chosen"}
<1>1. TypeOK /\ RowsComeOnce
  BY DEF IInv
<1>2. SUFFICES ASSUME \E r \in Request :
                        /\ req' = [req EXCEPT ![s] = r]
                        /\ \A k \in r.keys : k[1] = s
                        /\ r.pc \in Early => req[s].pc \in Early,
                      UNCHANGED <<endpoint, row, wrk, erase, history>>,
                      jobs' \in [Key -> Nat],
                      crashes' \in 0 .. MaxCrashes
               PROVE  IInv'
  <2>1. CASE Cause(s)
    <3>1. [req[s] EXCEPT !.pc = "caused"] \in Request
      BY <1>1, Fields DEF Request
    <3>2. req' = [req EXCEPT ![s] = [req[s] EXCEPT !.pc = "caused"]]
      BY <2>1 DEF Cause
    <3>3. \A k \in [req[s] EXCEPT !.pc = "caused"].keys : k[1] = s
      BY <1>1, Fields DEF RowsComeOnce, Request
    <3> QED
      BY <1>1, <1>2, <2>1, <3>1, <3>2, <3>3 DEF Cause, TypeOK
  <2>2. CASE ChooseEndpoints(s)
    <3> DEFINE targets == IF erase.pc = "done" THEN {} ELSE Registered
               r == IF targets = {} THEN AtRest("done")
                    ELSE [pc |-> "chosen", keys |-> {s} \X targets, real |-> TRUE]
    <3>1. {s} \X targets \in SUBSET Key /\ \A k \in {s} \X targets : k[1] = s
      BY DEF Key, Registered
    <3>2. r \in Request /\ \A k \in r.keys : k[1] = s
      BY <3>1, SomeKey DEF Request, AtRest
    <3>3. req' = [req EXCEPT ![s] = r] /\ req[s].pc = "caused"
      BY <2>2 DEF ChooseEndpoints
    <3> HIDE DEF r
    <3> QED
      BY <1>1, <1>2, <2>2, <3>2, <3>3 DEF ChooseEndpoints, TypeOK
  <2>3. CASE \E e \in Endpoint : ChooseSample(s, e)
    <3>1. PICK e \in Endpoint : ChooseSample(s, e)
      BY <2>3
    <3> DEFINE r == [pc |-> "chosen", keys |-> {<<s, e>>}, real |-> FALSE]
    <3>2. r \in Request /\ \A k \in r.keys : k[1] = s
      BY DEF Request, Key
    <3>3. req' = [req EXCEPT ![s] = r] /\ req[s].pc = "idle"
      BY <3>1 DEF ChooseSample
    <3> HIDE DEF r
    <3> QED
      BY <1>1, <1>2, <3>1, <3>2, <3>3 DEF ChooseSample, TypeOK
  <2>4. CASE QueueFails(s) \/ RequestDies(s) \/ \E k \in Key : RefreshFails(s, k)
    <3>1. req' = [req EXCEPT ![s] = AtRest("done")]
      BY <2>4 DEF QueueFails, RequestDies, RefreshFails, Over
    <3>2. AtRest("done").keys = {} /\ AtRest("done").pc = "done"
      BY DEF AtRest
    <3>3. /\ UNCHANGED <<endpoint, row, wrk, erase, history, jobs>>
          /\ crashes' \in 0 .. MaxCrashes
      BY <1>1, <2>4, BoundsAreNumbers DEF QueueFails, RequestDies, RefreshFails, TypeOK
    <3> QED
      BY <1>1, <1>2, <3>1, <3>2, <3>3, SomeKey DEF TypeOK
  <2>5. CASE \E k \in Key : Enqueue(s, k)
    <3>1. PICK k \in Key : Enqueue(s, k)
      BY <2>5
    <3>2. jobs' \in [Key -> Nat]
      BY <1>1, <3>1, Fields DEF Enqueue, TypeOK
    <3>3. CASE req[s].keys = {k}
      <4>1. req' = [req EXCEPT ![s] = AtRest("done")]
        BY <3>1, <3>3 DEF Enqueue, Over
      <4>2. AtRest("done").keys = {} /\ AtRest("done").pc = "done"
        BY DEF AtRest
      <4> QED
        BY <1>1, <1>2, <3>1, <3>2, <4>1, <4>2, SomeKey DEF Enqueue, TypeOK
    <3>4. CASE req[s].keys # {k}
      <4> DEFINE r == [req[s] EXCEPT !.keys = @ \ {k}]
      <4>1. req' = [req EXCEPT ![s] = r] /\ req[s].pc = "queued"
        BY <3>1, <3>4 DEF Enqueue
      <4>2. r \in Request /\ r.keys \subseteq req[s].keys /\ r.pc = req[s].pc
        BY <1>1, Fields DEF Request
      <4>3. \A j \in r.keys : j[1] = s
        BY <1>1, <4>2 DEF RowsComeOnce
      <4> HIDE DEF r
      <4> QED
        BY <1>1, <1>2, <3>1, <3>2, <4>1, <4>2, <4>3 DEF Enqueue, TypeOK
    <3> QED
      BY <3>3, <3>4
  <2> QED
    BY <2>1, <2>2, <2>3, <2>4, <2>5
<1>3. PICK r \in Request : /\ req' = [req EXCEPT ![s] = r]
                           /\ \A k \in r.keys : k[1] = s
                           /\ r.pc \in Early => req[s].pc \in Early
  BY <1>2
<1>4. TypeOK'
  BY <1>1, <1>2, <1>3 DEF TypeOK, Row, Job, Erasure
<1>5. ASSUME NEW t \in Source
      PROVE  /\ \A k \in req'[t].keys : k[1] = t
             /\ req'[t].pc \in Early => req[t].pc \in Early
  BY <1>1, <1>3 DEF TypeOK, RowsComeOnce
<1> QED
  BY <1>2, <1>4, <1>5, QuietKeeps DEF Quiet

LEMMA JobsMove ==
  ASSUME IInv, NEW k \in Key, SweepWebhooks(k) \/ TakeStale(k)
  PROVE  IInv'
<1> USE DEF history
<1>1. TypeOK /\ RowsComeOnce
  BY DEF IInv
<1>2. jobs' \in [Key -> Nat]
  BY <1>1, Fields DEF SweepWebhooks, TakeStale, TypeOK
<1>3. TypeOK'
  BY <1>1, <1>2 DEF SweepWebhooks, TakeStale, TypeOK, Row, Job, Request, Erasure
<1>4. req' = req /\ Quiet
  BY DEF SweepWebhooks, TakeStale, Quiet
<1> QED
  BY <1>1, <1>3, <1>4, QuietKeeps DEF RowsComeOnce
-----------------------------------------------------------------------------
(***************************************************************************)
(* A delivery job that moves without a commit.                             *)
(***************************************************************************)
\* What a job must satisfy, given the rows, the erasure and the histories.
Sound(j) ==
    /\ j.pc # "idle" =>
         /\ j.attempts < MAX_ATTEMPTS
         /\ j.attempts <= tries[j.key]
         /\ j.pc \in {"accepted", "refused"} => j.attempts < tries[j.key]
         /\ j.pc = "accepted" => j.key \in accepted
    /\ j.pc \in Posting =>
         /\ Present(j.key)
         /\ ~(erase.pc = "deleting" /\ j.key \in erase.keys)

LEMMA SoundJobs ==
  ASSUME IInv PROVE \A w \in Worker : Sound(wrk[w])
<1> SUFFICES ASSUME NEW w \in Worker PROVE Sound(wrk[w])
  OBVIOUS
<1>1. wrk[w].pc # "idle" =>
        /\ wrk[w].attempts < MAX_ATTEMPTS
        /\ wrk[w].attempts <= tries[wrk[w].key]
        /\ wrk[w].pc \in {"accepted", "refused"} => wrk[w].attempts < tries[wrk[w].key]
        /\ wrk[w].pc = "accepted" => wrk[w].key \in accepted
  BY DEF IInv, CopyIsReal
<1>2. wrk[w].pc \in Posting =>
        /\ Present(wrk[w].key)
        /\ ~(erase.pc = "deleting" /\ wrk[w].key \in erase.keys)
  BY DEF IInv, PostsWhatExists, ErasedAreLocked, Held
<1> QED
  BY <1>1, <1>2 DEF Sound

\* The parts about jobs follow from each being sound, and rows from the foreign key.
LEMMA SoundSuffices ==
  ASSUME TypeOK', RowsAreRegistered', \A w \in Worker : Sound(wrk[w])'
  PROVE  PostsWhatExists' /\ CopyIsReal' /\ ErasedAreLocked'
<1>1. ASSUME NEW w \in Worker, wrk'[w].pc \in Posting
      PROVE  Present(wrk[w].key)' /\ (wrk[w].key[2] \in Registered)'
  <2>1. wrk'[w].key \in Key
    BY DEF TypeOK, Job
  <2>2. Present(wrk[w].key)'
    BY <1>1 DEF Sound
  <2> QED
    BY <2>1, <2>2 DEF RowsAreRegistered, Present
<1>2. PostsWhatExists'
  BY <1>1 DEF PostsWhatExists
<1>3. CopyIsReal'
  BY DEF Sound, CopyIsReal
<1>4. ErasedAreLocked'
  BY DEF Sound, ErasedAreLocked, Held
<1> QED
  BY <1>2, <1>3, <1>4

LEMMA JobMoves ==
  ASSUME IInv, NEW w \in Worker, NEW j \in Job, Sound(j),
         wrk' = [wrk EXCEPT ![w] = j], jobs' \in [Key -> Nat], crashes' \in 0 .. MaxCrashes,
         UNCHANGED <<endpoint, row, req, erase, tries, accepted>>,
         {answered', doubled', late'} \subseteq SUBSET Key
  PROVE  IInv'
<1>1. TypeOK
  BY DEF IInv
<1>2. TypeOK'
  BY <1>1 DEF TypeOK, Row, Request, Erasure
<1>3. ASSUME NEW v \in Worker PROVE Sound(wrk[v])'
  <2>1. Sound(wrk'[v])
    BY <1>1, SoundJobs DEF TypeOK
  <2> QED
    BY <2>1 DEF Sound, Present
<1>4. DeliveredWasAccepted' /\ FailedWasTried' /\ RowsAreRegistered' /\ CounterIsReal'
  BY DEF IInv, DeliveredWasAccepted, FailedWasTried, RowsAreRegistered, CounterIsReal,
         Present, Registered
<1>5. RowsComeOnce'
  BY DEF IInv, RowsComeOnce, Present
<1>6. PostsWhatExists' /\ CopyIsReal' /\ ErasedAreLocked'
  BY <1>2, <1>3, <1>4, SoundSuffices
<1> QED
  BY <1>2, <1>4, <1>5, <1>6 DEF IInv

LEMMA TakeKeeps ==
  ASSUME IInv, NEW w \in Worker, NEW k \in Key, Take(w, k)
  PROVE  IInv'
<1> USE DEF history
<1> DEFINE j == [pc |-> "loaded", key |-> k, attempts |-> row[k].attempts]
<1>1. TypeOK
  BY DEF IInv
<1>2. j \in Job
  BY <1>1, Fields DEF Job
<1>3. Sound(j)
  BY DEF Take, IInv, CounterIsReal, Sound, Posting
<1>4. jobs' \in [Key -> Nat]
  BY <1>1, Fields DEF Take, TypeOK
<1>5. wrk' = [wrk EXCEPT ![w] = j] /\ crashes' \in 0 .. MaxCrashes
  BY <1>1 DEF Take, TypeOK
<1>6. {answered', doubled', late'} \subseteq SUBSET Key
  BY <1>1 DEF Take, TypeOK
<1> HIDE DEF j
<1> QED
  BY <1>2, <1>3, <1>4, <1>5, <1>6, JobMoves DEF Take

LEMMA FlushKeeps ==
  ASSUME IInv, NEW w \in Worker, Flush(w)
  PROVE  IInv'
<1> USE DEF history
<1> DEFINE j == [wrk[w] EXCEPT !.pc = "flushed"]
<1>1. TypeOK /\ wrk[w] \in Job
  BY Fields DEF IInv
<1>2. j \in Job /\ j.pc = "flushed" /\ j.key = wrk[w].key /\ j.attempts = wrk[w].attempts
  BY <1>1 DEF Job
<1>3. Sound(j)
  <2>1. /\ wrk[w].pc = "loaded" /\ Present(wrk[w].key)
        /\ ~(erase.pc = "deleting" /\ wrk[w].key \in erase.keys)
    BY DEF Flush
  <2>2. j.attempts < MAX_ATTEMPTS /\ j.attempts <= tries[j.key]
    BY <1>2, <2>1, SoundJobs DEF Sound
  <2> HIDE DEF j
  <2> QED
    BY <1>2, <2>1, <2>2 DEF Sound
<1>4. wrk' = [wrk EXCEPT ![w] = j]
  BY DEF Flush, Step
<1> HIDE DEF j
<1> QED
  BY <1>1, <1>2, <1>3, <1>4, JobMoves DEF Flush, TypeOK

LEMMA EndKeeps ==
  ASSUME IInv, NEW w \in Worker, FlushFails(w) \/ WorkerDies(w)
  PROVE  IInv'
<1> USE DEF history
<1>1. TypeOK
  BY DEF IInv
<1>2. Sound(NoJob)
  BY DEF Sound, NoJob, Posting
<1>3. wrk' = [wrk EXCEPT ![w] = NoJob]
  BY DEF FlushFails, WorkerDies, End
<1>4. jobs' \in [Key -> Nat]
  BY <1>1, Fields DEF FlushFails, WorkerDies, TypeOK
<1>5. crashes' \in 0 .. MaxCrashes
  BY <1>1, BoundsAreNumbers DEF FlushFails, WorkerDies, TypeOK
<1>6. {answered', doubled', late'} \subseteq SUBSET Key
  BY <1>1, Fields DEF FlushFails, WorkerDies, TypeOK
<1> QED
  BY <1>2, <1>3, <1>4, <1>5, <1>6, SomeKey, JobMoves DEF FlushFails, WorkerDies

LEMMA DeliverKeeps ==
  ASSUME IInv, NEW w \in Worker, Deliver(w)
  PROVE  IInv'
<1> USE DEF history
<1> DEFINE k == wrk[w].key
<1>1. TypeOK /\ wrk[w] \in Job /\ k \in Key
  BY Fields DEF IInv
<1>2. PICK l \in {"accepted", "refused"} :
        /\ wrk' = [wrk EXCEPT ![w] = [wrk[w] EXCEPT !.pc = l]]
        /\ accepted' \in {accepted, accepted \cup {k}}
        /\ l = "accepted" => accepted' = accepted \cup {k}
  BY DEF Deliver, Step
<1> DEFINE j == [wrk[w] EXCEPT !.pc = l]
<1>3. j \in Job /\ j.pc = l /\ j.key = k /\ j.attempts = wrk[w].attempts
  BY <1>1 DEF Job
<1>4. /\ tries' \in [Key -> 0 .. MAX_ATTEMPTS]
      /\ \A i \in Key : tries[i] <= tries'[i]
      /\ \A i \in Key : tries[i] = MAX_ATTEMPTS => tries'[i] = MAX_ATTEMPTS
      /\ wrk[w].attempts < tries'[k]
  <2>1. tries' = [tries EXCEPT ![k] = IF @ < MAX_ATTEMPTS THEN @ + 1 ELSE @]
    BY DEF Deliver
  <2>2. wrk[w].attempts < MAX_ATTEMPTS /\ wrk[w].attempts <= tries[k]
    BY SoundJobs DEF Deliver, Sound
  <2>3. wrk[w].attempts \in Nat /\ MAX_ATTEMPTS \in Nat
    BY <1>1, Fields, BoundsAreNumbers
  <2> HIDE DEF k
  <2> QED
    BY <1>1, <2>1, <2>2, <2>3, Fields DEF TypeOK
<1>5. accepted \subseteq accepted' /\ accepted' \in SUBSET Key
  BY <1>1, <1>2 DEF TypeOK
<1>6. TypeOK'
  <2>1. wrk' \in [Worker -> Job]
    BY <1>1, <1>2, <1>3 DEF TypeOK
  <2> QED
    BY <1>1, <1>4, <1>5, <2>1 DEF Deliver, TypeOK, Row, Request, Erasure
<1>7. ASSUME NEW v \in Worker PROVE Sound(wrk[v])'
  <2>1. Sound(wrk[v]) /\ wrk[v].key \in Key /\ wrk[v].attempts \in Nat
    BY <1>1, SoundJobs, Fields, BoundsAreNumbers
  <2>2. CASE v = w
    <3>1. wrk'[v] = j
      BY <1>1, <1>2, <2>2 DEF TypeOK
    <3>2. wrk[w].pc = "flushed"
      BY DEF Deliver
    <3>3. /\ j.attempts < MAX_ATTEMPTS /\ Present(j.key)
          /\ ~(erase.pc = "deleting" /\ j.key \in erase.keys)
      BY <1>3, <2>1, <2>2, <3>2 DEF Sound, Posting
    <3>4. Present(j.key)' /\ (Present(j.key)' => row'[j.key].status # "none") /\ erase' = erase
      BY <1>2, <1>3, <3>3 DEF Deliver, Present
    <3>5. j.attempts < tries'[j.key] /\ j.attempts <= tries'[j.key]
      BY <1>1, <1>3, <1>4, Fields, BoundsAreNumbers
    <3>6. j.pc = "accepted" => j.key \in accepted'
      BY <1>2, <1>3
    <3>7. row' = row
      BY DEF Deliver
    <3> HIDE DEF j
    <3> QED
      BY <3>1, <3>3, <3>4, <3>5, <3>6, <3>7 DEF Sound, Present
  <2>3. CASE v # w
    <3>1. wrk'[v] = wrk[v] /\ row' = row /\ erase' = erase
      BY <1>1, <1>2, <2>3 DEF TypeOK, Deliver
    <3>2. tries[wrk[v].key] <= tries'[wrk[v].key] /\ tries[wrk[v].key] \in Nat
          /\ tries'[wrk[v].key] \in Nat
      BY <1>1, <1>4, <2>1, Fields, BoundsAreNumbers
    <3> QED
      BY <1>5, <2>1, <3>1, <3>2 DEF Sound, Present
  <2> QED
    BY <2>2, <2>3
<1>8. DeliveredWasAccepted' /\ FailedWasTried' /\ RowsAreRegistered' /\ RowsComeOnce'
  <2>1. row' = row /\ endpoint' = endpoint /\ req' = req
    BY DEF Deliver
  <2> QED
    BY <1>4, <1>5, <2>1 DEF IInv, DeliveredWasAccepted, FailedWasTried, RowsAreRegistered,
        RowsComeOnce, Present, Registered
<1>9. CounterIsReal'
  <2>1. ASSUME NEW i \in Key
        PROVE  /\ row'[i].attempts <= tries'[i]
               /\ row'[i].status = "queued" => row'[i].attempts < MAX_ATTEMPTS
    <3>1. row' = row
      BY DEF Deliver
    <3>2. row[i].attempts \in Nat /\ tries[i] \in Nat /\ tries'[i] \in Nat
      BY <1>1, <1>4, Fields, BoundsAreNumbers
    <3> QED
      BY <1>4, <3>1, <3>2 DEF IInv, CounterIsReal
  <2> QED
    BY <2>1 DEF CounterIsReal
<1>10. PostsWhatExists' /\ CopyIsReal' /\ ErasedAreLocked'
  BY <1>6, <1>7, <1>8, SoundSuffices
<1> QED
  BY <1>6, <1>8, <1>9, <1>10 DEF IInv
-----------------------------------------------------------------------------
(***************************************************************************)
(* Steps that change rows.                                                 *)
(***************************************************************************)
\* Removing the rows in K, none of which is being posted.
LEMMA RemovalKeeps ==
  ASSUME IInv, NEW K \in SUBSET Key, row' = Without(K), ~Held(K), TypeOK',
         UNCHANGED <<req, wrk, tries, accepted>>,
         \/ endpoint' = endpoint
         \/ \E e \in Endpoint : /\ endpoint' = [endpoint EXCEPT ![e] = "deleted"]
                              /\ K = Source \X {e},
         \/ erase' = erase
         \/ erase'.pc = "done"
  PROVE  IInv'
<1> USE DEF history
<1>1. TypeOK
  BY DEF IInv
<1>2. ASSUME NEW k \in Key PROVE row'[k] = IF k \in K THEN NoRow ELSE row[k]
  BY DEF Without
<1>3. DeliveredWasAccepted' /\ FailedWasTried'
  BY <1>2 DEF IInv, DeliveredWasAccepted, FailedWasTried, NoRow
<1>4. CounterIsReal'
  <2>1. ASSUME NEW k \in Key
        PROVE  /\ row'[k].attempts <= tries'[k]
               /\ row'[k].status = "queued" => row'[k].attempts < MAX_ATTEMPTS
    BY <1>1, <1>2, Fields DEF IInv, CounterIsReal, NoRow
  <2> QED
    BY <2>1 DEF CounterIsReal
<1>5. RowsAreRegistered'
  <2>1. SUFFICES ASSUME NEW k \in Key, row'[k].status # "none"
                 PROVE  endpoint'[k[2]] = "registered" /\ k[2] \in Endpoint
    BY DEF RowsAreRegistered, Present, Registered
  <2>2. k \notin K /\ Present(k)
    BY <1>2, <2>1 DEF NoRow, Present
  <2>3. endpoint[k[2]] = "registered" /\ k[2] \in Endpoint
    BY <2>2 DEF IInv, RowsAreRegistered, Registered
  <2>4. ASSUME NEW e \in Endpoint, K = Source \X {e} PROVE k[2] # e
    BY <2>2, <2>4, KeyParts
  <2> QED
    BY <1>1, <2>3, <2>4 DEF TypeOK
<1>6. RowsComeOnce'
  <2>1. ASSUME NEW k \in Key, ~Present(k) PROVE row'[k].status = "none"
    BY <1>2, <2>1 DEF Present, NoRow
  <2>2. ASSUME NEW s \in Source, NEW e \in Endpoint PROVE <<s, e>> \in Key
    BY DEF Key
  <2> QED
    BY <2>1, <2>2 DEF IInv, RowsComeOnce, Present
<1>7. ASSUME NEW w \in Worker PROVE Sound(wrk[w])'
  <2>1. Sound(wrk[w]) /\ wrk[w].key \in Key
    BY <1>1, SoundJobs, Fields
  <2>2. wrk[w].pc \in Posting => wrk[w].key \notin K
    BY DEF Held
  <2>3. wrk[w].pc \in Posting => row'[wrk[w].key] = row[wrk[w].key]
    BY <1>2, <2>1, <2>2
  <2> QED
    BY <2>1, <2>3 DEF Sound, Present
<1>8. PostsWhatExists' /\ CopyIsReal' /\ ErasedAreLocked'
  BY <1>5, <1>7, SoundSuffices
<1> QED
  BY <1>3, <1>4, <1>5, <1>6, <1>8 DEF IInv

LEMMA WithoutType ==
  ASSUME TypeOK, NEW K PROVE Without(K) \in [Key -> Row]
  BY SomeKey DEF Without, TypeOK

LEMMA DeleteKeeps ==
  ASSUME IInv, NEW e \in Endpoint, DeleteEndpoint(e)
  PROVE  IInv'
<1> USE DEF history
<1> DEFINE K == Source \X {e}
<1>1. K \in SUBSET Key /\ TypeOK
  BY DEF Key, IInv
<1>2. TypeOK'
  BY <1>1, WithoutType DEF DeleteEndpoint, TypeOK, Job, Request, Erasure
<1> QED
  BY <1>1, <1>2, RemovalKeeps DEF DeleteEndpoint

LEMMA EraseKeeps ==
  ASSUME IInv, EraseRows \/ EraseCommit \/ EraseDies
  PROVE  IInv'
<1> USE DEF history
<1>1. TypeOK
  BY DEF IInv
<1>2. CASE EraseRows \/ EraseDies
  <2>1. TypeOK'
    BY <1>1, <1>2, BoundsAreNumbers DEF EraseRows, EraseDies, TypeOK, Row, Job, Request, Erasure
  <2>2. UNCHANGED <<endpoint, row, req, wrk, tries, accepted>>
    BY <1>2 DEF EraseRows, EraseDies
  <2>3. ErasedAreLocked'
    <3>1. CASE EraseRows
      <4> DEFINE K == {k \in Key : row[k].real}
      <4>1. erase'.keys = K /\ ~Held(K) /\ wrk' = wrk
        BY <3>1 DEF EraseRows
      <4> QED
        BY <4>1 DEF ErasedAreLocked, Held
    <3>2. CASE EraseDies
      BY <3>2 DEF EraseDies, ErasedAreLocked
    <3> QED
      BY <1>2, <3>1, <3>2
  <2> QED
    BY <2>1, <2>2, <2>3 DEF IInv, DeliveredWasAccepted, FailedWasTried, PostsWhatExists,
        CounterIsReal, CopyIsReal, RowsAreRegistered, RowsComeOnce, Present, Registered
<1>3. CASE EraseCommit
  <2>1. erase.keys \in SUBSET Key /\ ~Held(erase.keys)
    BY <1>1, <1>3 DEF EraseCommit, TypeOK, Erasure, IInv, ErasedAreLocked
  <2>2. TypeOK'
    BY <1>1, <1>3, WithoutType DEF EraseCommit, TypeOK, Job, Request, Erasure
  <2>3. erase'.pc = "done"
    BY <1>3 DEF EraseCommit
  <2> QED
    BY <1>3, <2>1, <2>2, <2>3, RemovalKeeps DEF EraseCommit
<1> QED
  BY <1>2, <1>3

LEMMA CreateKeeps ==
  ASSUME IInv, NEW e \in Endpoint, CreateEndpoint(e)
  PROVE  IInv'
<1> USE DEF history
<1>1. TypeOK
  BY DEF IInv
<1>2. TypeOK'
  BY <1>1 DEF CreateEndpoint, TypeOK, Row, Job, Request, Erasure
<1>3. UNCHANGED <<row, req, wrk, erase, tries, accepted>> /\ Registered \subseteq Registered'
  BY <1>1 DEF CreateEndpoint, Registered, TypeOK
<1> QED
  BY <1>2, <1>3 DEF IInv, DeliveredWasAccepted, FailedWasTried, PostsWhatExists, CounterIsReal,
      CopyIsReal, RowsAreRegistered, ErasedAreLocked, Held, RowsComeOnce, Present

\* A commit that leaves present rows present.
LEMMA RowsChange ==
  ASSUME IInv, TypeOK', UNCHANGED <<endpoint, erase, tries, accepted>>,
         \A k \in Key :
            /\ Present(k) => row'[k].status # "none"
            /\ row'[k].status = "delivered" => k \in accepted
            /\ row'[k].status = "failed" => tries[k] = MAX_ATTEMPTS
            /\ row'[k].status = "queued" => row'[k].attempts < MAX_ATTEMPTS
            /\ row'[k].attempts <= tries[k]
            /\ row'[k].status # "none" => k[2] \in Registered,
         \A w \in Worker : wrk'[w] = wrk[w] \/ wrk'[w] = NoJob,
         RowsComeOnce'
  PROVE  IInv'
<1>1. DeliveredWasAccepted' /\ FailedWasTried' /\ CounterIsReal'
  BY DEF DeliveredWasAccepted, FailedWasTried, CounterIsReal
<1>2. RowsAreRegistered'
  BY DEF RowsAreRegistered, Present, Registered
<1>3. ASSUME NEW w \in Worker PROVE Sound(wrk[w])'
  <2>1. CASE wrk'[w] = NoJob
    BY <2>1 DEF Sound, NoJob, Posting
  <2>2. CASE wrk'[w] = wrk[w]
    <3>1. Sound(wrk[w]) /\ wrk[w].key \in Key
      BY SoundJobs, Fields DEF IInv
    <3> QED
      BY <2>2, <3>1 DEF Sound, Present
  <2> QED
    BY <2>1, <2>2
<1>4. PostsWhatExists' /\ CopyIsReal' /\ ErasedAreLocked'
  BY <1>2, <1>3, SoundSuffices
<1> QED
  BY <1>1, <1>2, <1>4 DEF IInv

LEMMA AgeKeeps ==
  ASSUME IInv, NEW k \in Key, Age(k)
  PROVE  IInv'
<1> USE DEF history
<1>1. TypeOK /\ row[k] \in Row
  BY Fields DEF IInv
<1> DEFINE r == [row[k] EXCEPT !.old = TRUE]
<1>2. r \in Row /\ r.status = row[k].status /\ r.attempts = row[k].attempts
  BY <1>1 DEF Row
<1>3. row' = [row EXCEPT ![k] = r]
  BY DEF Age
<1> HIDE DEF r
<1>4. TypeOK'
  <2>1. row' \in [Key -> Row]
    BY <1>1, <1>2, <1>3 DEF TypeOK
  <2> QED
    BY <1>1, <2>1 DEF Age, TypeOK, Job, Request, Erasure
<1>5. ASSUME NEW i \in Key
      PROVE row'[i].status = row[i].status /\ row'[i].attempts = row[i].attempts
  BY <1>1, <1>2, <1>3 DEF TypeOK
<1>6. RowsComeOnce'
  <2>1. req' = req
    BY DEF Age
  <2>2. ASSUME NEW s \in Source, NEW e \in Endpoint PROVE <<s, e>> \in Key
    BY DEF Key
  <2> QED
    BY <1>5, <2>1, <2>2 DEF IInv, RowsComeOnce, Present
<1>7. ASSUME NEW i \in Key
      PROVE  /\ Present(i) => row'[i].status # "none"
             /\ row'[i].status = "delivered" => i \in accepted
             /\ row'[i].status = "failed" => tries[i] = MAX_ATTEMPTS
             /\ row'[i].status = "queued" => row'[i].attempts < MAX_ATTEMPTS
             /\ row'[i].attempts <= tries[i]
             /\ row'[i].status # "none" => i[2] \in Registered
  BY <1>5 DEF IInv, DeliveredWasAccepted, FailedWasTried, CounterIsReal, RowsAreRegistered, Present
<1> QED
  BY <1>4, <1>6, <1>7, RowsChange DEF Age

LEMMA QueueKeeps ==
  ASSUME IInv, NEW s \in Source, QueueRows(s)
  PROVE  IInv'
<1> USE DEF history
<1>1. TypeOK /\ req[s] \in Request /\ req[s].keys \in SUBSET Key
  BY Fields DEF IInv
<1> DEFINE K == req[s].keys
           n == NewRow(req[s].real)
           q == [req[s] EXCEPT !.pc = "queued"]
<1>2. n \in Row /\ n.status = "queued" /\ n.attempts = 0
  BY <1>1, BoundsAreNumbers DEF NewRow, Row, Request
<1>3. q \in Request /\ q.pc = "queued" /\ q.keys = K
  BY <1>1 DEF Request
<1>4. row' = [k \in Key |-> IF k \in K THEN n ELSE row[k]] /\ req' = [req EXCEPT ![s] = q]
  BY DEF QueueRows
<1> HIDE DEF n, q
<1>5. TypeOK'
  BY <1>1, <1>2, <1>3, <1>4 DEF QueueRows, TypeOK, Job, Erasure
<1>6. ASSUME NEW k \in Key
      PROVE  /\ Present(k) => row'[k].status # "none"
             /\ row'[k].status = "delivered" => k \in accepted
             /\ row'[k].status = "failed" => tries[k] = MAX_ATTEMPTS
             /\ row'[k].status = "queued" => row'[k].attempts < MAX_ATTEMPTS
             /\ row'[k].attempts <= tries[k]
             /\ row'[k].status # "none" => k[2] \in Registered
  <2>1. CASE k \in K
    <3>1. row'[k] = n /\ k[2] \in Registered
      BY <1>4, <2>1 DEF QueueRows
    <3> QED
      BY <1>1, <1>2, <3>1, Fields, BoundsAreNumbers
  <2>2. CASE k \notin K
    <3>1. row'[k] = row[k]
      BY <1>4, <2>2
    <3> QED
      BY <3>1 DEF IInv, DeliveredWasAccepted, FailedWasTried, CounterIsReal, RowsAreRegistered,
          Present
  <2> QED
    BY <2>1, <2>2
<1>7. RowsComeOnce'
  <2>1. ASSUME NEW t \in Source
        PROVE  /\ \A k \in req'[t].keys : k[1] = t
               /\ req'[t].pc \in {"idle", "caused", "chosen"} =>
                    \A e \in Endpoint : row'[<<t, e>>].status = "none"
    <3>1. CASE t = s
      BY <1>1, <1>3, <1>4, <3>1 DEF IInv, RowsComeOnce, TypeOK
    <3>2. CASE t # s
      <4>1. req'[t] = req[t]
        BY <1>1, <1>4, <3>2 DEF TypeOK
      <4>2. ASSUME NEW e \in Endpoint PROVE <<t, e>> \in Key /\ <<t, e>> \notin K
        BY <3>2 DEF Key, IInv, RowsComeOnce
      <4> QED
        BY <1>4, <4>1, <4>2 DEF IInv, RowsComeOnce, Present
    <3> QED
      BY <3>1, <3>2
  <2> QED
    BY <2>1 DEF RowsComeOnce, Present
<1> QED
  BY <1>5, <1>6, <1>7, RowsChange DEF QueueRows

LEMMA CommitKeeps ==
  ASSUME IInv, NEW w \in Worker, Commit(w)
  PROVE  IInv'
<1> USE DEF history
<1> DEFINE k == wrk[w].key
           r == [status |-> Outcome(w), attempts |-> wrk[w].attempts + 1, old |-> FALSE,
                 real |-> row[k].real]
<1>1. TypeOK /\ k \in Key /\ row[k] \in Row /\ wrk[w].attempts \in 0 .. MAX_ATTEMPTS
  BY Fields DEF IInv
<1>2. /\ wrk[w].attempts < MAX_ATTEMPTS /\ wrk[w].attempts < tries[k]
      /\ wrk[w].pc = "accepted" => k \in accepted
      /\ Present(k)
      /\ wrk[w].pc \in {"accepted", "refused"}
  BY SoundJobs DEF Commit, Sound, Posting
<1>3. Outcome(w) \in {"queued", "delivered", "failed"}
  BY <1>1, <1>2, Fields DEF Outcome, Present
<1>4. r \in Row /\ r.status = Outcome(w) /\ r.attempts = wrk[w].attempts + 1
  <2>1. wrk[w].attempts + 1 \in 0 .. MAX_ATTEMPTS
    BY <1>1, <1>2, BoundsAreNumbers
  <2>2. row[k].real \in BOOLEAN
    BY <1>1 DEF Row
  <2> QED
    BY <1>3, <2>1, <2>2 DEF Row
<1>5. row' = [row EXCEPT ![k] = r] /\ wrk' = [wrk EXCEPT ![w] = NoJob]
  BY DEF Commit, End
<1> HIDE DEF r
<1>6. jobs' \in [Key -> Nat]
  BY <1>1, Fields DEF Commit, TypeOK
<1>7. TypeOK'
  <2>1. row' \in [Key -> Row]
    BY <1>1, <1>4, <1>5 DEF TypeOK
  <2>2. wrk' \in [Worker -> Job]
    BY <1>1, <1>5, SomeKey DEF TypeOK
  <2> QED
    BY <1>1, <1>6, <2>1, <2>2 DEF Commit, TypeOK, Request, Erasure
<1>8. ASSUME NEW i \in Key
      PROVE  /\ Present(i) => row'[i].status # "none"
             /\ row'[i].status = "delivered" => i \in accepted
             /\ row'[i].status = "failed" => tries[i] = MAX_ATTEMPTS
             /\ row'[i].status = "queued" => row'[i].attempts < MAX_ATTEMPTS
             /\ row'[i].attempts <= tries[i]
             /\ row'[i].status # "none" => i[2] \in Registered
  <2>0. /\ row[i].status = "delivered" => i \in accepted
        /\ row[i].status = "failed" => tries[i] = MAX_ATTEMPTS
        /\ row[i].status = "queued" => row[i].attempts < MAX_ATTEMPTS
        /\ row[i].attempts <= tries[i]
        /\ Present(i) => i[2] \in Registered
    BY DEF IInv, DeliveredWasAccepted, FailedWasTried, CounterIsReal, RowsAreRegistered
  <2>1. CASE i # k
    <3>1. row'[i] = row[i]
      BY <1>1, <1>5, <2>1 DEF TypeOK
    <3> QED
      BY <2>0, <3>1 DEF Present
  <2>2. CASE i = k
    <3>1. row'[i] = r
      BY <1>1, <1>5, <2>2 DEF TypeOK
    <3>2. tries[k] \in 0 .. MAX_ATTEMPTS /\ MAX_ATTEMPTS \in Nat
      BY <1>1, Fields, BoundsAreNumbers
    <3>3. r.attempts <= tries[k] /\ r.attempts <= MAX_ATTEMPTS
      BY <1>1, <1>2, <1>4, <3>2
    <3>4. i[2] \in Registered
      BY <1>2, <2>0, <2>2
    <3>5. Parked(w) => tries[k] = MAX_ATTEMPTS
      BY <1>1, <1>2, <3>2 DEF Parked
    <3>6. CASE wrk[w].pc = "accepted"
      <4>1. r.status = "delivered"
        BY <1>4, <3>6 DEF Outcome
      <4> QED
        BY <1>2, <2>2, <3>1, <3>3, <3>4, <3>6, <4>1
    <3>7. CASE wrk[w].pc = "refused" /\ Parked(w)
      BY <1>3, <1>4, <2>2, <3>1, <3>3, <3>4, <3>5, <3>7 DEF Outcome
    <3>8. CASE wrk[w].pc = "refused" /\ ~Parked(w)
      <4>1. r.attempts < MAX_ATTEMPTS
        BY <1>1, <1>4, <3>2, <3>8 DEF Parked
      <4>2. r.status = row[k].status
        BY <1>4, <3>8 DEF Outcome
      <4> QED
        BY <1>2, <2>0, <2>2, <3>1, <3>3, <3>4, <4>1, <4>2 DEF Present
    <3> QED
      BY <1>2, <3>6, <3>7, <3>8
  <2> QED
    BY <2>1, <2>2
<1>9. RowsComeOnce'
  <2>1. req' = req
    BY DEF Commit
  <2>2. ASSUME NEW s \in Source, NEW e \in Endpoint, ~Present(<<s, e>>)
        PROVE  row'[<<s, e>>].status = "none"
    BY <1>1, <1>2, <1>5, <2>2 DEF Present, TypeOK, Key
  <2> QED
    BY <2>1, <2>2 DEF IInv, RowsComeOnce, Present
<1>10. \A v \in Worker : wrk'[v] = wrk[v] \/ wrk'[v] = NoJob
  BY <1>1, <1>5 DEF TypeOK
<1> QED
  BY <1>7, <1>8, <1>9, <1>10, RowsChange DEF Commit
-----------------------------------------------------------------------------
(***************************************************************************)
(* The theorems.                                                           *)
(***************************************************************************)
LEMMA StepInv == IInv /\ [Next]_vars => IInv'
<1> SUFFICES ASSUME IInv, [Next]_vars PROVE IInv'
  OBVIOUS
<1>1. CASE Admin
  BY <1>1, CreateKeeps, DeleteKeeps DEF Admin
<1>2. CASE EraseRows \/ EraseCommit \/ EraseDies
  BY <1>2, EraseKeeps
<1>3. ASSUME NEW s \in Source, Emit(s) \/ RequestDies(s) PROVE IInv'
  BY <1>3, RequestMoves, QueueKeeps DEF Emit
<1>4. ASSUME NEW k \in Key, Age(k) \/ SweepWebhooks(k) \/ TakeStale(k) PROVE IInv'
  BY <1>4, AgeKeeps, JobsMove
<1>5. ASSUME NEW w \in Worker, Delivery(w) \/ WorkerDies(w) PROVE IInv'
  BY <1>5, TakeKeeps, FlushKeeps, EndKeeps, DeliverKeeps, CommitKeeps DEF Delivery
<1>6. CASE UNCHANGED vars
  BY <1>6 DEF vars, history, IInv, TypeOK, DeliveredWasAccepted, FailedWasTried, PostsWhatExists,
      CounterIsReal, CopyIsReal, RowsAreRegistered, ErasedAreLocked, Held, RowsComeOnce, Present,
      Registered, Row, Request, Job, Erasure
<1> QED
  BY <1>1, <1>2, <1>3, <1>4, <1>5, <1>6 DEF Next

\* Everything the proofs rest on holds in every reachable state.
THEOREM Invariance == Spec => []IInv
<1>1. Init => IInv
  BY InitInv
<1>2. IInv /\ [Next]_vars => IInv'
  BY StepInv
<1> QED
  BY <1>1, <1>2, PTL DEF Spec

\* The tables and local variables keep their types, and the attempt counter its
\* bound (worker.py deliver_webhook), for any number of concurrent jobs.
THEOREM TypeCorrect == Spec => []TypeOK
<1>1. IInv => TypeOK
  BY DEF IInv
<1> QED
  BY <1>1, Invariance, PTL

\* The delivery log never claims a delivery its receiver did not accept.
THEOREM DeliveredAccepted == Spec => []DeliveredWasAccepted
<1>1. IInv => DeliveredWasAccepted
  BY DEF IInv
<1> QED
  BY <1>1, Invariance, PTL

\* A delivery is parked as failed only after MAX_ATTEMPTS attempts, however many
\* jobs race over stale copies of its counter.
THEOREM FailedTried == Spec => []FailedWasTried
<1>1. IInv => FailedWasTried
  BY DEF IInv
<1> QED
  BY <1>1, Invariance, PTL

(***************************************************************************)
(* The answers the jobs have seen, and what an erasure leaves.             *)
(***************************************************************************)
\* A step of no job: rows keep their status, are removed, or are new.
LEMMA AnswersStay ==
  ASSUME TypeOK, AnswersAreKept, UNCHANGED <<wrk, answered, doubled>>,
         \A k \in Key : \/ row'[k].status \in {row[k].status, "none"}
                        \/ /\ row[k].status = "none" /\ row'[k].status = "queued"
                           /\ k \notin answered,
         \A s \in Source : req'[s].pc \in {"idle", "caused", "chosen"} =>
                            req[s].pc \in {"idle", "caused", "chosen"}
  PROVE  AnswersAreKept'
<1>1. ASSUME NEW k \in answered \ doubled
      PROVE  \/ row'[k].status \in {"delivered", "none"}
             \/ \E w \in Worker : wrk[w].pc = "accepted" /\ wrk[w].key = k
  BY DEF AnswersAreKept, TypeOK
<1>2. ASSUME NEW w \in Worker, wrk[w].pc # "idle", wrk[w].key \notin doubled
      PROVE  /\ row'[wrk[w].key].status \in {"queued", "none"}
             /\ \A v \in Worker \ {w} : wrk[v].pc = "idle" \/ wrk[v].key # wrk[w].key
  BY <1>2, Fields DEF AnswersAreKept
<1>3. ASSUME NEW s \in Source, req'[s].pc \in {"idle", "caused", "chosen"}
      PROVE  \A e \in Endpoint : <<s, e>> \notin answered
  BY <1>3 DEF AnswersAreKept
<1> QED
  BY <1>1, <1>2, <1>3 DEF AnswersAreKept

\* A step of another kind than the erasure's leaves of its application only what
\* is late.
LEMMA RestStays ==
  ASSUME TypeOK, HInv, erase' = erase, late \subseteq late',
         \A k \in Key : row'[k].real => \/ row[k].real \/ k \in late'
                                        \/ erase.pc = "none"
  PROVE  RestIsLate' /\ ErasedIsGone'
  BY DEF HInv, RestIsLate, ErasedIsGone

LEMMA EraseHistory ==
  ASSUME IInv, HInv, EraseRows \/ EraseCommit \/ EraseDies
  PROVE  HInv'
<1> USE DEF history
<1>1. TypeOK /\ AnswersAreKept
  BY DEF IInv, HInv
<1>2. \A k \in Key : row'[k].status \in {row[k].status, "none"}
  BY DEF EraseRows, EraseCommit, EraseDies, Without, NoRow
<1>3. UNCHANGED <<req, wrk, answered, doubled>>
  BY DEF EraseRows, EraseCommit, EraseDies
<1>4. AnswersAreKept'
  BY <1>1, <1>2, <1>3, AnswersStay
<1>5. RestIsLate' /\ ErasedIsGone'
  <2>1. CASE EraseRows
    BY <2>1 DEF EraseRows, RestIsLate, ErasedIsGone
  <2>2. CASE EraseCommit
    <3>1. ASSUME NEW k \in Key, row'[k].real PROVE k \in late
      BY <2>2, <3>1 DEF EraseCommit, Without, NoRow, HInv, RestIsLate
    <3> QED
      BY <2>2, <3>1 DEF EraseCommit, RestIsLate, ErasedIsGone
  <2>3. CASE EraseDies
    BY <2>3 DEF EraseDies, RestIsLate, ErasedIsGone
  <2> QED
    BY <2>1, <2>2, <2>3
<1> QED
  BY <1>4, <1>5 DEF HInv

LEMMA AdminHistory ==
  ASSUME IInv, HInv, Admin
  PROVE  HInv'
<1> USE DEF history
<1>1. TypeOK /\ AnswersAreKept
  BY DEF IInv, HInv
<1>2. UNCHANGED <<req, wrk, answered, doubled, erase, late>>
  BY DEF Admin, CreateEndpoint, DeleteEndpoint
<1>3. \A k \in Key : /\ row'[k].status \in {row[k].status, "none"}
                     /\ row'[k].real => row[k].real
  BY DEF Admin, CreateEndpoint, DeleteEndpoint, Without, NoRow
<1> QED
  BY <1>1, <1>2, <1>3, AnswersStay, RestStays DEF HInv

LEMMA RequestHistory ==
  ASSUME IInv, HInv, NEW s \in Source, Emit(s) \/ RequestDies(s)
  PROVE  HInv'
<1> USE DEF history
<1>1. TypeOK /\ AnswersAreKept /\ RowsComeOnce
  BY DEF IInv, HInv
<1>2. \A t \in Source : req'[t].pc \in {"idle", "caused", "chosen"} =>
                        req[t].pc \in {"idle", "caused", "chosen"}
  <2>1. req[s] \in Request /\ \A r : [req EXCEPT ![s] = r] = [t \in Source |-> IF t = s THEN r ELSE req[t]]
    BY <1>1, Fields DEF TypeOK
  <2>2. CASE Cause(s) \/ ChooseEndpoints(s) \/ \E e \in Endpoint : ChooseSample(s, e)
    BY <1>1, <2>2 DEF Cause, ChooseEndpoints, ChooseSample, TypeOK
  <2>3. CASE QueueRows(s)
    BY <1>1, <2>3 DEF QueueRows, TypeOK, Request
  <2>4. CASE QueueFails(s) \/ RequestDies(s) \/ \E k \in Key : Enqueue(s, k) \/ RefreshFails(s, k)
    <3>1. \/ req' = [req EXCEPT ![s] = AtRest("done")]
          \/ \E k \in Key : req' = [req EXCEPT ![s].keys = @ \ {k}]
      BY <2>4 DEF QueueFails, RequestDies, Enqueue, RefreshFails, Over
    <3>2. AtRest("done").pc = "done"
      BY DEF AtRest
    <3> QED
      BY <1>1, <2>1, <3>1, <3>2 DEF TypeOK, Request
  <2> QED
    BY <2>2, <2>3, <2>4 DEF Emit
<1>3. UNCHANGED <<wrk, answered, doubled, erase>>
  BY DEF Emit, Cause, ChooseEndpoints, ChooseSample, QueueRows, QueueFails, Enqueue,
      RefreshFails, RequestDies
<1>4. CASE QueueRows(s)
  <2>1. ASSUME NEW k \in req[s].keys
        PROVE  row[k].status = "none" /\ k \notin answered
    <3>1. k \in Key /\ k[1] = s /\ req[s].pc = "chosen"
      BY <1>1, <1>4, Fields DEF QueueRows, RowsComeOnce
    <3>2. k = <<s, k[2]>> /\ k[2] \in Endpoint
      BY <3>1, KeyParts
    <3> QED
      BY <1>1, <3>1, <3>2 DEF RowsComeOnce, Present, AnswersAreKept
  <2>2. ASSUME NEW k \in Key
        PROVE  row'[k] = IF k \in req[s].keys THEN NewRow(req[s].real) ELSE row[k]
    BY <1>4 DEF QueueRows
  <2>3. NewRow(req[s].real).status = "queued"
    BY DEF NewRow
  <2>4. AnswersAreKept'
    BY <1>1, <1>2, <1>3, <2>1, <2>2, <2>3, AnswersStay
  <2>5. late \subseteq late' /\ (erase.pc # "none" => req[s].keys \subseteq late')
    BY <1>4 DEF QueueRows
  <2>6. RestIsLate' /\ ErasedIsGone'
    BY <1>1, <1>3, <2>2, <2>5, RestStays
  <2> QED
    BY <2>4, <2>6 DEF HInv
<1>5. CASE ~QueueRows(s)
  <2>1. UNCHANGED <<row, late>>
    BY <1>5 DEF Emit, Cause, ChooseEndpoints, ChooseSample, QueueFails, Enqueue, RefreshFails,
        RequestDies
  <2> QED
    BY <1>1, <1>2, <1>3, <2>1, AnswersStay, RestStays DEF HInv
<1> QED
  BY <1>4, <1>5

LEMMA CronHistory ==
  ASSUME IInv, HInv, NEW k \in Key, Age(k) \/ SweepWebhooks(k) \/ TakeStale(k)
  PROVE  HInv'
<1> USE DEF history
<1>1. TypeOK /\ AnswersAreKept /\ row[k] \in Row
  BY Fields DEF IInv, HInv
<1>2. UNCHANGED <<req, wrk, answered, doubled, erase, late>>
  BY DEF Age, SweepWebhooks, TakeStale
<1>3. \A i \in Key : row'[i].status = row[i].status /\ row'[i].real = row[i].real
  <2>1. [row[k] EXCEPT !.old = TRUE].status = row[k].status
        /\ [row[k] EXCEPT !.old = TRUE].real = row[k].real
    BY <1>1 DEF Row
  <2>2. row' = row \/ row' = [row EXCEPT ![k] = [row[k] EXCEPT !.old = TRUE]]
    BY DEF Age, SweepWebhooks, TakeStale
  <2> QED
    BY <1>1, <2>1, <2>2 DEF TypeOK
<1> QED
  BY <1>1, <1>2, <1>3, AnswersStay, RestStays DEF HInv

\* A job that takes a delivery, moves, or ends without a commit.
LEMMA JobHistory ==
  ASSUME IInv, HInv, NEW w \in Worker,
         \/ \E k \in Key : Take(w, k)
         \/ Flush(w) \/ FlushFails(w) \/ WorkerDies(w)
  PROVE  HInv'
<1> USE DEF history
<1>1. TypeOK /\ AnswersAreKept /\ wrk[w] \in Job
  BY Fields DEF IInv, HInv
<1>2. UNCHANGED <<row, req, erase, answered, late>> /\ doubled \subseteq doubled'
  BY DEF Take, Flush, FlushFails, WorkerDies
<1>3. PICK j : wrk' = [wrk EXCEPT ![w] = j]
  BY DEF Take, Flush, FlushFails, WorkerDies, Step, End
<1>4. wrk'[w] = j /\ \A v \in Worker \ {w} : wrk'[v] = wrk[v]
  BY <1>1, <1>3 DEF TypeOK
<1>5. /\ wrk[w].pc = "accepted" => wrk[w].key \in doubled'
      /\ wrk'[w].pc # "idle" /\ wrk'[w].key \notin doubled' =>
            /\ row[wrk'[w].key].status \in {"queued", "none"}
            /\ \A v \in Worker \ {w} : wrk[v].pc = "idle" \/ wrk[v].key # wrk'[w].key
  <2>1. ASSUME NEW k \in Key, Take(w, k)
        PROVE  /\ wrk[w].pc = "idle" /\ wrk'[w].key = k /\ row[k].status = "queued"
               /\ k \notin doubled' => k \notin InHand
    BY <1>1, <2>1 DEF Take, TypeOK
  <2>2. CASE \E k \in Key : Take(w, k)
    BY <2>1, <2>2 DEF InHand
  <2>3. CASE Flush(w)
    <3>1. wrk'[w].key = wrk[w].key /\ wrk[w].pc = "loaded"
      BY <1>1, <2>3 DEF Flush, Step, TypeOK, Job
    <3> QED
      BY <1>1, <1>2, <3>1 DEF AnswersAreKept
  <2>4. CASE FlushFails(w)
    BY <1>1, <2>4 DEF FlushFails, End, NoJob, TypeOK
  <2>5. CASE WorkerDies(w)
    BY <1>1, <2>5 DEF WorkerDies, End, NoJob, TypeOK
  <2> QED
    BY <2>2, <2>3, <2>4, <2>5
<1>6. ASSUME NEW k \in answered \ doubled'
      PROVE  \/ row[k].status \in {"delivered", "none"}
             \/ \E v \in Worker : wrk'[v].pc = "accepted" /\ wrk'[v].key = k
  <2>1. CASE row[k].status \in {"delivered", "none"}
    BY <2>1
  <2>2. CASE \E v \in Worker : wrk[v].pc = "accepted" /\ wrk[v].key = k
    BY <1>4, <1>5, <2>2
  <2> QED
    BY <1>1, <1>2, <2>1, <2>2 DEF AnswersAreKept
<1>7. ASSUME NEW v \in Worker, wrk'[v].pc # "idle", wrk'[v].key \notin doubled'
      PROVE  /\ row[wrk'[v].key].status \in {"queued", "none"}
             /\ \A u \in Worker \ {v} : wrk'[u].pc = "idle" \/ wrk'[u].key # wrk'[v].key
  <2>1. CASE v = w
    BY <1>4, <1>5, <1>7, <2>1
  <2>2. CASE v # w
    <3>1. wrk'[v] = wrk[v] /\ wrk[v].key \notin doubled
      BY <1>2, <1>4, <1>7, <2>2
    <3>2. ASSUME wrk'[w].pc # "idle", wrk'[w].key = wrk[v].key PROVE FALSE
      BY <1>5, <1>7, <2>2, <3>1, <3>2
    <3> QED
      BY <1>1, <1>4, <1>7, <2>2, <3>1, <3>2 DEF AnswersAreKept
  <2> QED
    BY <2>1, <2>2
<1>8. AnswersAreKept'
  BY <1>1, <1>2, <1>6, <1>7 DEF AnswersAreKept
<1>9. RestIsLate' /\ ErasedIsGone'
  BY <1>1, <1>2, RestStays
<1> QED
  BY <1>8, <1>9 DEF HInv

LEMMA DeliverHistory ==
  ASSUME IInv, HInv, NEW w \in Worker, Deliver(w)
  PROVE  HInv'
<1> DEFINE k == wrk[w].key
<1>1. TypeOK /\ AnswersAreKept /\ wrk[w] \in Job /\ k \in Key
  BY Fields DEF IInv, HInv
<1>2. UNCHANGED <<row, req, erase, doubled, late>> /\ wrk[w].pc = "flushed"
  BY DEF Deliver
<1>3. PICK l \in {"accepted", "refused"} :
        /\ wrk' = [wrk EXCEPT ![w] = [wrk[w] EXCEPT !.pc = l]]
        /\ answered' = IF l = "accepted" THEN answered \cup {k} ELSE answered
  BY DEF Deliver, Step
<1>4. wrk'[w].pc = l /\ wrk'[w].key = k /\ \A v \in Worker \ {w} : wrk'[v] = wrk[v]
  BY <1>1, <1>3 DEF TypeOK, Job
<1>5. ASSUME NEW i \in answered' \ doubled
      PROVE  \/ row[i].status \in {"delivered", "none"}
             \/ \E v \in Worker : wrk'[v].pc = "accepted" /\ wrk'[v].key = i
  <2>1. CASE i \in answered
    <3>1. \/ row[i].status \in {"delivered", "none"}
          \/ \E v \in Worker \ {w} : wrk[v].pc = "accepted" /\ wrk[v].key = i
      BY <1>1, <1>2, <2>1 DEF AnswersAreKept
    <3> QED
      BY <1>4, <3>1
  <2>2. CASE i \notin answered
    BY <1>3, <1>4, <2>2
  <2> QED
    BY <2>1, <2>2
<1>6. ASSUME NEW v \in Worker, wrk'[v].pc # "idle", wrk'[v].key \notin doubled
      PROVE  /\ row[wrk'[v].key].status \in {"queued", "none"}
             /\ \A u \in Worker \ {v} : wrk'[u].pc = "idle" \/ wrk'[u].key # wrk'[v].key
  <2>1. ASSUME NEW u \in Worker
        PROVE  wrk'[u].key = wrk[u].key /\ (wrk'[u].pc = "idle" <=> wrk[u].pc = "idle")
    BY <1>2, <1>3, <1>4
  <2> QED
    BY <1>1, <1>6, <2>1 DEF AnswersAreKept
<1>7. ASSUME NEW s \in Source, req[s].pc \in {"idle", "caused", "chosen"}, NEW e \in Endpoint
      PROVE  <<s, e>> \notin answered'
  <2>1. Present(k)
    BY <1>2, SoundJobs DEF Sound, Posting
  <2>2. ~Present(<<s, e>>)
    BY <1>7 DEF IInv, RowsComeOnce
  <2>3. k # <<s, e>>
    BY <2>1, <2>2
  <2> QED
    BY <1>1, <1>3, <1>7, <2>3 DEF AnswersAreKept
<1>8. AnswersAreKept'
  BY <1>2, <1>5, <1>6, <1>7 DEF AnswersAreKept
<1>9. RestIsLate' /\ ErasedIsGone'
  BY <1>1, <1>2, RestStays
<1> QED
  BY <1>8, <1>9 DEF HInv

LEMMA CommitHistory ==
  ASSUME IInv, HInv, NEW w \in Worker, Commit(w)
  PROVE  HInv'
<1> USE DEF history
<1> DEFINE k == wrk[w].key
           r == [status |-> Outcome(w), attempts |-> wrk[w].attempts + 1, old |-> FALSE,
                 real |-> row[k].real]
<1>1. TypeOK /\ AnswersAreKept /\ k \in Key
  BY Fields DEF IInv, HInv
<1>2. /\ UNCHANGED <<req, erase, answered, doubled, late>>
      /\ wrk[w].pc \in {"accepted", "refused"}
      /\ row' = [row EXCEPT ![k] = r] /\ wrk' = [wrk EXCEPT ![w] = NoJob]
  BY DEF Commit, End
<1>3. r.status = Outcome(w) /\ r.real = row[k].real
  OBVIOUS
<1> HIDE DEF r
<1>4. /\ row'[k] = r /\ \A i \in Key \ {k} : row'[i] = row[i]
      /\ wrk'[w].pc = "idle" /\ \A v \in Worker \ {w} : wrk'[v] = wrk[v]
  BY <1>1, <1>2 DEF TypeOK, NoJob
<1>5. k \notin doubled => /\ row[k].status \in {"queued", "none"}
                          /\ \A v \in Worker \ {w} : wrk[v].pc = "idle" \/ wrk[v].key # k
  BY <1>1, <1>2 DEF AnswersAreKept
<1>6. Present(k)
  BY <1>2, SoundJobs DEF Sound, Posting
<1>7. ASSUME NEW i \in answered \ doubled
      PROVE  \/ row'[i].status \in {"delivered", "none"}
             \/ \E v \in Worker : wrk'[v].pc = "accepted" /\ wrk'[v].key = i
  <2>1. CASE i = k
    <3>1. wrk[w].pc = "accepted"
      BY <1>1, <1>2, <1>5, <1>6, <1>7, <2>1 DEF AnswersAreKept, Present
    <3> QED
      BY <1>3, <1>4, <2>1, <3>1 DEF Outcome
  <2>2. CASE i # k
    <3>1. \/ row[i].status \in {"delivered", "none"}
          \/ \E v \in Worker \ {w} : wrk[v].pc = "accepted" /\ wrk[v].key = i
      BY <1>1, <2>2 DEF AnswersAreKept
    <3>2. i \in Key
      BY <1>1 DEF TypeOK
    <3> QED
      BY <1>4, <2>2, <3>1, <3>2
  <2> QED
    BY <2>1, <2>2
<1>8. ASSUME NEW v \in Worker, wrk'[v].pc # "idle", wrk'[v].key \notin doubled
      PROVE  /\ row'[wrk'[v].key].status \in {"queued", "none"}
             /\ \A u \in Worker \ {v} : wrk'[u].pc = "idle" \/ wrk'[u].key # wrk'[v].key
  <2>1. v # w /\ wrk'[v] = wrk[v] /\ wrk[v].key \in Key
    BY <1>1, <1>4, <1>8, Fields
  <2>2. wrk[v].key # k
    BY <1>5, <1>8, <2>1
  <2> QED
    BY <1>1, <1>4, <1>8, <2>1, <2>2 DEF AnswersAreKept
<1>9. AnswersAreKept'
  BY <1>1, <1>2, <1>7, <1>8 DEF AnswersAreKept
<1>10. \A i \in Key : row'[i].real => row[i].real
  BY <1>3, <1>4
<1>11. RestIsLate' /\ ErasedIsGone'
  BY <1>1, <1>2, <1>10, RestStays
<1> QED
  BY <1>9, <1>11 DEF HInv

\* What jobs were answered is logged, and an erasure leaves only what is late, in
\* every reachable state.
LEMMA HistoryHolds == Spec => []HInv
<1>1. Init => HInv
  BY DEF Init, HInv, AnswersAreKept, RestIsLate, ErasedIsGone, NoJob
<1>2. IInv /\ HInv /\ [Next]_vars => HInv'
  <2> SUFFICES ASSUME IInv, HInv, [Next]_vars PROVE HInv'
    OBVIOUS
  <2>1. CASE UNCHANGED vars
    BY <2>1 DEF vars, history, HInv, AnswersAreKept, RestIsLate, ErasedIsGone
  <2>2. ASSUME NEW w \in Worker, Delivery(w) \/ WorkerDies(w) PROVE HInv'
    BY <2>2, JobHistory, DeliverHistory, CommitHistory DEF Delivery
  <2> QED
    BY <2>1, <2>2, AdminHistory, EraseHistory, RequestHistory, CronHistory DEF Next
<1> QED
  BY <1>1, <1>2, Invariance, PTL DEF Spec

\* A settled delivery was tried as its row says, and no 2xx that the only job of
\* a delivery has seen is logged as a failure.
THEOREM SettledTruly == Spec => []SettledAsTried
<1>1. IInv /\ HInv => AnswerIsLogged
  <2> SUFFICES ASSUME IInv, HInv, NEW k \in answered \ doubled, row[k].status = "failed"
               PROVE  FALSE
    BY DEF AnswerIsLogged
  <2>1. PICK w \in Worker : wrk[w].pc = "accepted" /\ wrk[w].key = k
    BY DEF HInv, AnswersAreKept
  <2> QED
    BY <2>1 DEF HInv, AnswersAreKept
<1>2. IInv /\ HInv => SettledAsTried
  BY <1>1 DEF IInv, SettledAsTried
<1> QED
  BY <1>2, Invariance, HistoryHolds, PTL

\* Nothing is posted to an endpoint after the commit of its deletion, nor of a
\* row after the commit that removed it.
THEOREM PostsExist == Spec => []PostsWhatExists
<1>1. IInv => PostsWhatExists
  BY DEF IInv
<1> QED
  BY <1>1, Invariance, PTL

\* A settled row is only rewritten by jobs that loaded it queued, and those
\* leave its status alone or settle it again.
LEMMA SettledStep ==
  ASSUME IInv, [Next]_vars, NEW k \in Key, row[k].status \in {"delivered", "failed"}
  PROVE  row'[k].status # "queued"
<1>1. TypeOK /\ RowsComeOnce
  BY DEF IInv
<1>2. CASE row' = row
  BY <1>2
<1>3. ASSUME NEW K, row' = Without(K) PROVE row'[k].status # "queued"
  BY <1>3 DEF Without, NoRow
<1>4. CASE Admin \/ EraseRows \/ EraseCommit \/ EraseDies
  BY <1>2, <1>3, <1>4 DEF Admin, CreateEndpoint, DeleteEndpoint, EraseRows, EraseCommit, EraseDies
<1>5. ASSUME NEW s \in Source, Emit(s) \/ RequestDies(s) PROVE row'[k].status # "queued"
  <2>1. CASE QueueRows(s)
    <3>1. k \notin req[s].keys
      <4>1. SUFFICES ASSUME k[1] = s PROVE FALSE
        BY <1>1 DEF RowsComeOnce
      <4>2. ~Present(<<s, k[2]>>) /\ k = <<s, k[2]>>
        BY <1>1, <2>1, <4>1, KeyParts DEF QueueRows, RowsComeOnce
      <4> QED
        BY <4>2 DEF Present
    <3> QED
      BY <2>1, <3>1 DEF QueueRows
  <2>2. CASE ~QueueRows(s)
    <3>1. row' = row
      BY <1>5, <2>2 DEF Emit, Cause, ChooseEndpoints, QueueFails, ChooseSample, Enqueue,
          RefreshFails, RequestDies
    <3> QED
      BY <3>1
  <2> QED
    BY <2>1, <2>2
<1>6. ASSUME NEW i \in Key, Age(i) \/ SweepWebhooks(i) \/ TakeStale(i)
      PROVE  row'[k].status # "queued"
  <2>1. CASE Age(i)
    <3>1. i # k
      BY <2>1 DEF Age
    <3> QED
      BY <1>1, <2>1, <3>1 DEF Age, TypeOK
  <2> QED
    BY <1>6, <2>1 DEF SweepWebhooks, TakeStale
<1>7. ASSUME NEW w \in Worker, Delivery(w) \/ WorkerDies(w) PROVE row'[k].status # "queued"
  <2>1. CASE Commit(w)
    <3>1. wrk[w].key \in Key
      BY <1>1, Fields
    <3>2. CASE wrk[w].key # k
      BY <1>1, <2>1, <3>1, <3>2 DEF Commit, TypeOK
    <3>3. CASE wrk[w].key = k
      <4>1. row'[k].status = Outcome(w)
        BY <1>1, <2>1, <3>3 DEF Commit, TypeOK
      <4>2. Outcome(w) # "queued"
        BY <3>3 DEF Outcome
      <4> QED
        BY <4>1, <4>2
    <3> QED
      BY <3>2, <3>3
  <2> QED
    BY <1>7, <2>1 DEF Delivery, Take, Flush, FlushFails, Deliver, WorkerDies
<1> QED
  BY <1>2, <1>4, <1>5, <1>6, <1>7 DEF Next, vars

\* A settled delivery is never queued again (worker.py deliver_webhook), so the
\* sweeper and later jobs leave it alone.
THEOREM SettledForGood == Spec => SettledStaysSettled
<1>1. IInv /\ [Next]_vars =>
        [\A k \in Key : row[k].status \in {"delivered", "failed"}
                         => row'[k].status # "queued"]_vars
  BY SettledStep
<1> QED
  BY <1>1, Invariance, PTL DEF Spec, SettledStaysSettled

\* The log of deliveries is true of what was tried and answered, nothing is
\* posted of what is gone, and an erasure leaves no delivery to be posted but
\* those queued after its DELETE.
THEOREM LogIsTrueAlways == Spec => []LogIsTrue
<1>1. SettledAsTried /\ PostsWhatExists /\ HInv => LogIsTrue
  BY DEF LogIsTrue, HInv
<1> QED
  BY <1>1, SettledTruly, PostsExist, HistoryHolds, PTL
=============================================================================
