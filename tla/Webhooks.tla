------------------------------ MODULE Webhooks ------------------------------
(***************************************************************************)
(* Outbound webhooks of one company:                                       *)
(*   services/webhooks.py  create_endpoint, delete_endpoint, queue_test,   *)
(*                         emit_application_event, _queue, deliver,        *)
(*                         stuck_deliveries                                *)
(*   worker.py             deliver_webhook, sweep_webhooks                 *)
(*   services/erasure.py   the part that removes an application's          *)
(*                         deliveries                                      *)
(*                                                                         *)
(* An event is emitted by the request that caused it, after its commit, in *)
(* further transactions.  A delivery job loads its row without a lock; the *)
(* attempts + 1 it has set is flushed by the query for the endpoint, so    *)
(* the row is locked from before the POST to the commit, but what is       *)
(* decided on is the copy loaded before.                                   *)
(***************************************************************************)
EXTENDS Integers, FiniteSets

CONSTANTS
    Source,        \* the requests that emit: each an event of one application, or a sample
    Endpoint,
    Worker,        \* delivery jobs that run at a time
    MAX_ATTEMPTS,
    MaxJobs,       \* bound: jobs of one delivery waiting in redis
    MaxCrashes     \* bound: processes killed

\* A delivery row: one source, one endpoint.
Key == Source \X Endpoint

ASSUME SomethingToDeliver == Source # {} /\ Endpoint # {}
ASSUME BoundsAreNumbers == MAX_ATTEMPTS \in Nat \ {0} /\ MaxJobs \in Nat /\ MaxCrashes \in Nat

VARIABLES
    endpoint,   \* webhook_endpoints
    row,        \* webhook_deliveries
    req,        \* the request that emits a source
    jobs,       \* jobs[k]: deliver_webhook jobs of k in redis
    wrk,        \* the delivery jobs under way
    erase,      \* the erasure of the application: where it is, the rows it has deleted
    tries,      \* history: calls of deliver for k, counted up to MAX_ATTEMPTS
    accepted,   \* history: deliveries the receiver answered with a 2xx
    answered,   \* history: those whose 2xx a job has seen
    doubled,    \* history: two jobs had it at a time, or one died with its 2xx
    late,       \* history: queued after the DELETE of the erasure
    crashes

history == <<tries, accepted, answered, doubled, late>>
vars == <<endpoint, row, req, jobs, wrk, erase, history, crashes>>

\* old: updated_at is more than five minutes ago.  real: the payload is the
\* application's, not a sample.
Row == [status : {"none", "queued", "delivered", "failed"}, attempts : 0 .. MAX_ATTEMPTS,
        old : BOOLEAN, real : BOOLEAN]
NoRow == [status |-> "none", attempts |-> 0, old |-> FALSE, real |-> FALSE]
NewRow(real) == [status |-> "queued", attempts |-> 0, old |-> FALSE, real |-> real]

Request == [pc : {"idle", "caused", "chosen", "queued", "done"}, keys : SUBSET Key, real : BOOLEAN]
AtRest(l) == [pc |-> l, keys |-> {}, real |-> FALSE]

\* attempts: the counter of the loaded row.
Job == [pc : {"idle", "loaded", "flushed", "accepted", "refused"}, key : Key,
        attempts : 0 .. MAX_ATTEMPTS]
NoJob == [pc |-> "idle", key |-> CHOOSE k \in Key : TRUE, attempts |-> 0]

Erasure == [pc : {"none", "deleting", "done"}, keys : SUBSET Key]

Init ==
    /\ endpoint = [e \in Endpoint |-> "new"]
    /\ row = [k \in Key |-> NoRow]
    /\ req = [s \in Source |-> AtRest("idle")]
    /\ jobs = [k \in Key |-> 0]
    /\ wrk = [w \in Worker |-> NoJob]
    /\ erase = [pc |-> "none", keys |-> {}]
    /\ tries = [k \in Key |-> 0]
    /\ accepted = {}
    /\ answered = {}
    /\ doubled = {}
    /\ late = {}
    /\ crashes = 0

Registered == {e \in Endpoint : endpoint[e] = "registered"}
Present(k) == row[k].status # "none"

\* Row locks: a delivery under way holds its row, an erasure those it has deleted.
Posting == {"flushed", "accepted", "refused"}
Held(K) == \E w \in Worker : wrk[w].pc \in Posting /\ wrk[w].key \in K
-----------------------------------------------------------------------------
(***************************************************************************)
(* The admin's endpoints.                                                  *)
(***************************************************************************)
CreateEndpoint(e) ==
    /\ endpoint[e] = "new"
    /\ endpoint' = [endpoint EXCEPT ![e] = "registered"]
    /\ UNCHANGED <<row, req, jobs, wrk, erase, history, crashes>>

\* The rows in K are removed.
Without(K) == [k \in Key |-> IF k \in K THEN NoRow ELSE row[k]]

\* Mutant of DeleteEndpoint: deliveries have no foreign key to wait for.
DeleteAlone(e) ==
    /\ endpoint[e] = "registered"
    /\ endpoint' = [endpoint EXCEPT ![e] = "deleted"]
    /\ UNCHANGED <<row, req, jobs, wrk, erase, history, crashes>>

\* ON DELETE CASCADE takes the endpoint's deliveries along, and waits for the
\* locks on them.
DeleteEndpoint(e) ==
    LET K == Source \X {e}
    IN  /\ endpoint[e] = "registered"
        /\ ~Held(K)
        /\ erase.pc = "deleting" => erase.keys \cap K = {}
        /\ endpoint' = [endpoint EXCEPT ![e] = "deleted"]
        /\ row' = Without(K)
        /\ UNCHANGED <<req, jobs, wrk, erase, history, crashes>>
-----------------------------------------------------------------------------
(***************************************************************************)
(* Emission.                                                               *)
(***************************************************************************)
\* The change is committed: an application, a stage, a finished quiz.
Cause(s) ==
    /\ req[s].pc = "idle"
    /\ erase.pc # "done"
    /\ req' = [req EXCEPT ![s].pc = "caused"]
    /\ UNCHANGED <<endpoint, row, jobs, wrk, erase, history, crashes>>

\* emit_application_event: the subscribed endpoints are read, unless the
\* application is gone.
ChooseEndpoints(s) ==
    LET targets == IF erase.pc = "done" THEN {} ELSE Registered
    IN  /\ req[s].pc = "caused"
        /\ req' = [req EXCEPT ![s] =
                     IF targets = {} THEN AtRest("done")
                     ELSE [pc |-> "chosen", keys |-> {s} \X targets, real |-> TRUE]]
        /\ UNCHANGED <<endpoint, row, jobs, wrk, erase, history, crashes>>

\* queue_test of one endpoint.
ChooseSample(s, e) ==
    /\ req[s].pc = "idle"
    /\ e \in Registered
    /\ req' = [req EXCEPT ![s] = [pc |-> "chosen", keys |-> {<<s, e>>}, real |-> FALSE]]
    /\ UNCHANGED <<endpoint, row, jobs, wrk, erase, history, crashes>>

\* _queue: one row for each endpoint, in one commit; an endpoint deleted since
\* it was read is a foreign key error, and no row is inserted.
QueueRows(s) ==
    /\ req[s].pc = "chosen"
    /\ \A k \in req[s].keys : k[2] \in Registered
    /\ row' = [k \in Key |-> IF k \in req[s].keys THEN NewRow(req[s].real) ELSE row[k]]
    /\ req' = [req EXCEPT ![s].pc = "queued"]
    /\ late' = IF erase.pc = "none" THEN late ELSE late \cup req[s].keys
    /\ UNCHANGED <<endpoint, jobs, wrk, erase, tries, accepted, answered, doubled, crashes>>

Over(s) == req' = [req EXCEPT ![s] = AtRest("done")]

QueueFails(s) ==
    /\ req[s].pc = "chosen"
    /\ \E k \in req[s].keys : k[2] \notin Registered
    /\ Over(s)
    /\ UNCHANGED <<endpoint, row, jobs, wrk, erase, history, crashes>>

\* Each row is refreshed and its job enqueued, unless redis is down.
Enqueue(s, k) ==
    /\ req[s].pc = "queued"
    /\ k \in req[s].keys
    /\ Present(k)
    /\ \/ jobs[k] < MaxJobs /\ jobs' = [jobs EXCEPT ![k] = @ + 1]
       \/ UNCHANGED jobs
    /\ IF req[s].keys = {k} THEN Over(s) ELSE req' = [req EXCEPT ![s].keys = @ \ {k}]
    /\ UNCHANGED <<endpoint, row, wrk, erase, history, crashes>>

\* The row is gone: refresh raises, and the jobs of the rest are not enqueued.
RefreshFails(s, k) ==
    /\ req[s].pc = "queued"
    /\ k \in req[s].keys
    /\ ~Present(k)
    /\ Over(s)
    /\ UNCHANGED <<endpoint, row, jobs, wrk, erase, history, crashes>>

RequestDies(s) ==
    /\ req[s].pc \in {"caused", "chosen", "queued"}
    /\ crashes < MaxCrashes
    /\ crashes' = crashes + 1
    /\ Over(s)
    /\ UNCHANGED <<endpoint, row, jobs, wrk, erase, history>>
-----------------------------------------------------------------------------
(***************************************************************************)
(* The erasure of the application.                                         *)
(***************************************************************************)
\* Mutant of EraseRows: only what still waits to be posted is deleted.
EraseQueued ==
    LET K == {k \in Key : row[k].real /\ row[k].status = "queued"}
    IN  /\ erase.pc = "none"
        /\ ~Held(K)
        /\ erase' = [pc |-> "deleting", keys |-> K]
        /\ UNCHANGED <<endpoint, row, req, jobs, wrk, history, crashes>>

\* erase_application: the DELETE finds the rows that are there, and locks them.
EraseRows ==
    LET K == {k \in Key : row[k].real}
    IN  /\ erase.pc = "none"
        /\ ~Held(K)
        /\ erase' = [pc |-> "deleting", keys |-> K]
        /\ UNCHANGED <<endpoint, row, req, jobs, wrk, history, crashes>>

EraseCommit ==
    /\ erase.pc = "deleting"
    /\ row' = Without(erase.keys)
    /\ erase' = [pc |-> "done", keys |-> {}]
    /\ UNCHANGED <<endpoint, req, jobs, wrk, history, crashes>>
EraseDies ==
    /\ erase.pc = "deleting"
    /\ crashes < MaxCrashes
    /\ crashes' = crashes + 1
    /\ erase' = [pc |-> "none", keys |-> {}]
    /\ late' = {}
    /\ UNCHANGED <<endpoint, row, req, jobs, wrk, tries, accepted, answered, doubled>>
-----------------------------------------------------------------------------
(***************************************************************************)
(* The worker.                                                             *)
(***************************************************************************)
Age(k) ==
    /\ row[k].status = "queued" /\ ~row[k].old
    /\ row' = [row EXCEPT ![k].old = TRUE]
    /\ UNCHANGED <<endpoint, req, jobs, wrk, erase, history, crashes>>

\* Mutant of Stuck: only rows whose first job was lost.
StuckUntried(k) == row[k].status = "queued" /\ row[k].old /\ row[k].attempts = 0

Stuck(k) == row[k].status = "queued" /\ row[k].old

SweepWebhooks(k) ==
    /\ Stuck(k)
    /\ jobs[k] < MaxJobs
    /\ jobs' = [jobs EXCEPT ![k] = @ + 1]
    /\ UNCHANGED <<endpoint, row, req, wrk, erase, history, crashes>>

\* Only queued rows are touched.
TakeStale(k) ==
    /\ jobs[k] > 0
    /\ row[k].status # "queued"
    /\ jobs' = [jobs EXCEPT ![k] = @ - 1]
    /\ UNCHANGED <<endpoint, row, req, wrk, erase, history, crashes>>

InHand == {wrk[w].key : w \in {v \in Worker : wrk[v].pc # "idle"}}

\* The row is read without a lock.
Take(w, k) ==
    /\ wrk[w].pc = "idle"
    /\ jobs[k] > 0
    /\ row[k].status = "queued"
    /\ jobs' = [jobs EXCEPT ![k] = @ - 1]
    /\ wrk' = [wrk EXCEPT ![w] = [pc |-> "loaded", key |-> k, attempts |-> row[k].attempts]]
    /\ doubled' = IF k \in InHand THEN doubled \cup {k} ELSE doubled
    /\ UNCHANGED <<endpoint, row, req, erase, tries, accepted, answered, late, crashes>>

Step(w, l) == wrk' = [wrk EXCEPT ![w].pc = l]
End(w) == wrk' = [wrk EXCEPT ![w] = NoJob]

\* The query for the endpoint flushes the counter and so waits for the row.
Flush(w) ==
    /\ wrk[w].pc = "loaded"
    /\ ~Held({wrk[w].key})
    /\ erase.pc = "deleting" => wrk[w].key \notin erase.keys
    /\ Present(wrk[w].key)
    /\ Step(w, "flushed")
    /\ UNCHANGED <<endpoint, row, req, jobs, erase, history, crashes>>

\* The UPDATE finds no row: StaleDataError, and the job ends.
FlushFails(w) ==
    /\ wrk[w].pc = "loaded"
    /\ ~Present(wrk[w].key)
    /\ End(w)
    /\ UNCHANGED <<endpoint, row, req, jobs, erase, history, crashes>>

\* One attempt.  The receiver's 2xx may be lost on the way back.
Deliver(w) ==
    LET k == wrk[w].key
    IN  /\ wrk[w].pc = "flushed"
        /\ tries' = [tries EXCEPT ![k] = IF @ < MAX_ATTEMPTS THEN @ + 1 ELSE @]
        /\ \/ /\ Step(w, "accepted")
              /\ accepted' = accepted \cup {k}
              /\ answered' = answered \cup {k}
           \/ /\ Step(w, "refused")
              /\ accepted' \in {accepted, accepted \cup {k}}
              /\ UNCHANGED answered
        /\ UNCHANGED <<endpoint, row, req, jobs, erase, doubled, late, crashes>>

\* Mutant of Parked: an attempt too few.
ParkedEarly(w) == wrk[w].attempts + 2 >= MAX_ATTEMPTS

Parked(w) == wrk[w].attempts + 1 >= MAX_ATTEMPTS

\* Mutants of Outcome: the attempts are looked at before the answer; every column
\* is written.
OutcomeParked(w) ==
    IF Parked(w) THEN "failed" ELSE IF wrk[w].pc = "accepted" THEN "delivered"
    ELSE row[wrk[w].key].status

OutcomeWhole(w) ==
    IF wrk[w].pc = "accepted" THEN "delivered" ELSE IF Parked(w) THEN "failed" ELSE "queued"

\* The status the commit writes; a failed attempt that is not the last one
\* leaves the column alone, whatever it has become since the load.
Outcome(w) ==
    CASE wrk[w].pc = "accepted" -> "delivered"
      [] wrk[w].pc = "refused" /\ Parked(w) -> "failed"
      [] OTHER -> row[wrk[w].key].status

\* An attempt to come raises Retry; arq drops the job after max_tries.
Commit(w) ==
    LET k == wrk[w].key
        again == wrk[w].pc = "refused" /\ ~Parked(w)
    IN  /\ wrk[w].pc \in {"accepted", "refused"}
        /\ row' = [row EXCEPT ![k] =
                     [status |-> Outcome(w), attempts |-> wrk[w].attempts + 1, old |-> FALSE,
                      real |-> @.real]]
        /\ \/ again /\ jobs[k] < MaxJobs /\ jobs' = [jobs EXCEPT ![k] = @ + 1]
           \/ UNCHANGED jobs
        /\ End(w)
        /\ UNCHANGED <<endpoint, req, erase, history, crashes>>

\* Rollback; arq runs the job again, unless it has been tried max_tries times.
WorkerDies(w) ==
    /\ wrk[w].pc # "idle"
    /\ crashes < MaxCrashes
    /\ crashes' = crashes + 1
    /\ LET k == wrk[w].key
       IN  \/ jobs[k] < MaxJobs /\ jobs' = [jobs EXCEPT ![k] = @ + 1]
           \/ UNCHANGED jobs
    /\ End(w)
    /\ doubled' = IF wrk[w].pc = "accepted" THEN doubled \cup {wrk[w].key} ELSE doubled
    /\ UNCHANGED <<endpoint, row, req, erase, tries, accepted, answered, late>>
-----------------------------------------------------------------------------
Admin == \E e \in Endpoint : CreateEndpoint(e) \/ DeleteEndpoint(e)

Emit(s) ==
    \/ Cause(s) \/ ChooseEndpoints(s) \/ QueueRows(s) \/ QueueFails(s)
    \/ \E e \in Endpoint : ChooseSample(s, e)
    \/ \E k \in Key : Enqueue(s, k) \/ RefreshFails(s, k)

Delivery(w) ==
    \/ \E k \in Key : Take(w, k)
    \/ Flush(w) \/ FlushFails(w) \/ Deliver(w) \/ Commit(w)

Next ==
    \/ Admin
    \/ EraseRows \/ EraseCommit \/ EraseDies
    \/ \E s \in Source : Emit(s) \/ RequestDies(s)
    \/ \E k \in Key : Age(k) \/ SweepWebhooks(k) \/ TakeStale(k)
    \/ \E w \in Worker : Delivery(w) \/ WorkerDies(w)

Spec == Init /\ [][Next]_vars

\* Time passes, the sweeper's cron fires every ten minutes, arq runs the jobs it
\* has, and a delivery or an erasure under way goes on until it ends or is killed.
Fairness ==
    /\ \A k \in Key : WF_vars(Age(k)) /\ WF_vars(SweepWebhooks(k)) /\ WF_vars(TakeStale(k))
    /\ \A w \in Worker : WF_vars(Delivery(w))
    /\ WF_vars(EraseCommit)

FairSpec == Spec /\ Fairness
-----------------------------------------------------------------------------
\* The tables, the jobs and the local variables have their shape; the attempt
\* counter stays within MAX_ATTEMPTS whatever stale value a job adds one to.
TypeOK ==
    /\ endpoint \in [Endpoint -> {"new", "registered", "deleted"}]
    /\ row \in [Key -> Row]
    /\ req \in [Source -> Request]
    /\ jobs \in [Key -> Nat]
    /\ wrk \in [Worker -> Job]
    /\ erase \in Erasure
    /\ tries \in [Key -> 0 .. MAX_ATTEMPTS]
    /\ {accepted, answered, doubled, late} \subseteq SUBSET Key
    /\ crashes \in 0 .. MaxCrashes

\* A delivery shown as delivered was answered with a 2xx by its receiver.
DeliveredWasAccepted == \A k \in Key : row[k].status = "delivered" => k \in accepted

\* A delivery is parked only after MAX_ATTEMPTS real attempts, although jobs
\* add to counters they loaded before others wrote them.
FailedWasTried == \A k \in Key : row[k].status = "failed" => tries[k] = MAX_ATTEMPTS

\* Nor is one parked whose 2xx a job has seen, while no other job had it: a late
\* refusal parks what was delivered only where jobs overlap, or one was killed.
AnswerIsLogged == \A k \in answered \ doubled : row[k].status # "failed"

\* What the log says of a settled delivery is what was tried, and what the jobs
\* were answered.
SettledAsTried == DeliveredWasAccepted /\ FailedWasTried /\ AnswerIsLogged

\* While a delivery is posted its row is there and its endpoint registered: no
\* POST follows the commit that deletes the endpoint, or the row.
PostsWhatExists ==
    \A w \in Worker : wrk[w].pc \in Posting =>
        Present(wrk[w].key) /\ wrk[w].key[2] \in Registered

\* Once an application is erased no delivery about it is left to be posted, but
\* those queued after the erasure's DELETE ran, for events caused before its
\* commit: they are, against erasure.py ("everything hanging off it").
ErasedIsGone == erase.pc = "done" => \A k \in Key : row[k].real => k \in late

\* The log and the posts agree: what is settled was tried and answered as it
\* says, and what is posted is still there.
LogIsTrue == SettledAsTried /\ PostsWhatExists /\ ErasedIsGone

\* A delivery that has been settled is never queued again, although jobs commit
\* on copies they loaded while it was: no further delivery can start.
SettledStaysSettled ==
    [][\A k \in Key : row[k].status \in {"delivered", "failed"} => row'[k].status # "queued"]_vars

(***************************************************************************)
(* The inductive invariant of the proofs.                                  *)
(***************************************************************************)
\* The counter of a row never runs ahead of the attempts made.
CounterIsReal ==
    \A k \in Key :
        /\ row[k].attempts <= tries[k]
        /\ row[k].status = "queued" => row[k].attempts < MAX_ATTEMPTS

\* Nor does the copy a job has loaded.
CopyIsReal ==
    \A w \in Worker : wrk[w].pc # "idle" =>
        /\ wrk[w].attempts < MAX_ATTEMPTS
        /\ wrk[w].attempts <= tries[wrk[w].key]
        /\ wrk[w].pc \in {"accepted", "refused"} => wrk[w].attempts < tries[wrk[w].key]
        /\ wrk[w].pc = "accepted" => wrk[w].key \in accepted

\* The foreign key of webhook_deliveries.
RowsAreRegistered == \A k \in Key : Present(k) => k[2] \in Registered

\* A row that is being erased is not being posted.
ErasedAreLocked == erase.pc = "deleting" => ~Held(erase.keys)

\* A source's rows are its own, and are inserted once.
RowsComeOnce ==
    \A s \in Source :
        /\ \A k \in req[s].keys : k[1] = s
        /\ req[s].pc \in {"idle", "caused", "chosen"} => \A e \in Endpoint : ~Present(<<s, e>>)

IInv ==
    /\ TypeOK
    /\ DeliveredWasAccepted
    /\ FailedWasTried
    /\ PostsWhatExists
    /\ CounterIsReal
    /\ CopyIsReal
    /\ RowsAreRegistered
    /\ ErasedAreLocked
    /\ RowsComeOnce

\* A 2xx that the only job of a delivery has seen is on the row or in its hand;
\* the only job has a row not settled yet; and what is answered was queued.
AnswersAreKept ==
    /\ \A k \in answered \ doubled :
         \/ row[k].status \in {"delivered", "none"}
         \/ \E w \in Worker : wrk[w].pc = "accepted" /\ wrk[w].key = k
    /\ \A w \in Worker : wrk[w].pc # "idle" /\ wrk[w].key \notin doubled =>
         /\ row[wrk[w].key].status \in {"queued", "none"}
         /\ \A v \in Worker \ {w} : wrk[v].pc = "idle" \/ wrk[v].key # wrk[w].key
    /\ \A s \in Source : req[s].pc \in {"idle", "caused", "chosen"} =>
         \A e \in Endpoint : <<s, e>> \notin answered

\* What the DELETE has not found came after it.
RestIsLate == erase.pc = "deleting" => \A k \in Key : row[k].real => k \in erase.keys \cup late

HInv == AnswersAreKept /\ RestIsLate /\ ErasedIsGone

\* Every delivery is delivered, parked, or removed: a lost job or an unanswered
\* POST does not leave it queued for ever.
EveryDeliverySettles == \A k \in Key : row[k].status = "queued" ~> row[k].status # "queued"
=============================================================================
