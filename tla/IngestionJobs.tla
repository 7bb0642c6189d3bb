---------------------------- MODULE IngestionJobs ----------------------------
(***************************************************************************)
(* The job lifecycle of the ingestion pipeline                             *)
(* (services/ingestion-pipeline-service): background pipeline tasks, the   *)
(* Redis job store they report to, the HTTP handlers that cancel a job or  *)
(* expire a stale one, the store call to knowledge-api with its retries,   *)
(* pod crashes and the recovery scan of a starting pod.                    *)
(*                                                                         *)
(* Every job has two lives: the task that runs it (pc, documentId: the job *)
(* object in the memory of one pod) and the record in Redis (rec).  A save *)
(* writes the whole object over the record; a handler reads a record,      *)
(* modifies its copy and saves that.  Steps are what happens between two   *)
(* awaits.                                                                 *)
(***************************************************************************)
EXTENDS Naturals, FiniteSets

CONSTANTS
  Jobs,            \* job ids (uuid4, one per accepted request)
  Pods,            \* replicas of the service sharing one Redis
  Requests,        \* concurrent GET /jobs and POST /jobs/{id}/cancel handlers
  MaxConcurrent,   \* settings.MAX_CONCURRENT_JOBS, the semaphore of one pod
  MaxAttempts,     \* settings.RETRY_MAX_ATTEMPTS on the store call
  LlmEnabled,      \* settings.LLM_ENABLED: the optional chunking stage
  EvalGate,        \* settings.EVAL_ON_INGEST_ENABLED
  DurableQueue,    \* work comes from Pub/Sub (PUBSUB_ENABLED with a project)
  Operations,      \* which handlers run: a subset of {"cancel", "expire"}
  MaxCrashes,      \* bound: pod crashes
  MaxStoreErrors   \* bound: saves that Redis refuses

ASSUME JobsAssumption ==
  /\ IsFiniteSet(Jobs)
  /\ MaxConcurrent \in Nat \ {0}
  /\ MaxAttempts \in Nat \ {0}
  /\ LlmEnabled \in BOOLEAN
  /\ EvalGate \in BOOLEAN
  /\ DurableQueue \in BOOLEAN
  /\ Operations \subseteq {"cancel", "expire"}
  /\ MaxCrashes \in Nat
  /\ MaxStoreErrors \in Nat

VARIABLES
  pod,         \* job -> the pod whose event loop runs its task
  podState,    \* pod -> "up", "down" or "recovering" (inside lifespan)
  pc,          \* job -> where its task is; the stages are JobStatus values
  documentId,  \* job -> document_id of the job object, 0 for None
  attempt,     \* job -> attempt number of the store call
  lost,        \* job -> store calls whose outcome the task never learned
  late,        \* job -> such calls knowledge-api is still executing
  docs,        \* job -> number of documents knowledge-api holds for it
  published,   \* job -> its documents with status published
  reviewed,    \* job -> its documents that have a review record
  rec,         \* job -> the Redis hash kp:job:{id}
  aged,        \* job -> created more than JOB_STALE_TIMEOUT_MINUTES ago
  req,         \* request -> the modified copy it is about to save, or NoCopy
  todo,        \* pod -> job ids its recovery scan has still to look at
  found,       \* pod -> jobs whose status it has just read as non-terminal
  crashes, storeErrors

taskVars == <<pc, documentId, attempt, lost>>
knowledgeVars == <<late, docs, published, reviewed>>
podVars == <<pod, podState, todo, found, crashes>>
vars == <<taskVars, knowledgeVars, podVars, rec, aged, req, storeErrors>>

Terminal == {"cancelled", "completed", "failed"}
Stages == {"extracting", "cleaning", "enriching", "chunking", "indexing"}

\* Positions of a task after the store call: the job object still says
\* "indexing" until the completed status is set.
AfterStore == {"stored", "gated", "reviewed", "completing"}

Active == Stages \cup AfterStore
Ended == {"completed", "failed", "lost"}

Missing == [status |-> "missing", doc |-> 0]
Statuses == {"missing", "queued"} \cup Stages \cup Terminal
NoCopy == [at |-> "none", job |-> "none", status |-> "missing", doc |-> 0]

Init ==
  /\ pod \in [Jobs -> Pods]
  /\ podState = [p \in Pods |-> "up"]
  /\ pc = [j \in Jobs |-> "none"]
  /\ documentId = [j \in Jobs |-> 0]
  /\ attempt = [j \in Jobs |-> 0]
  /\ lost = [j \in Jobs |-> 0]
  /\ late = [j \in Jobs |-> 0]
  /\ docs = [j \in Jobs |-> 0]
  /\ published = [j \in Jobs |-> {}]
  /\ reviewed = [j \in Jobs |-> {}]
  /\ rec = [j \in Jobs |-> Missing]
  /\ aged = [j \in Jobs |-> FALSE]
  /\ req = [r \in Requests |-> NoCopy]
  /\ todo = [p \in Pods |-> {}]
  /\ found = [p \in Pods |-> {}]
  /\ crashes = 0
  /\ storeErrors = 0

-----------------------------------------------------------------------------
(* Persistence *)

\* RedisJobStore.save: one MULTI that overwrites every field of the hash.
Save(j, status, doc) == rec' = [rec EXCEPT ![j] = [status |-> status, doc |-> doc]]

\* _persist_job swallows whatever the store raises and the caller goes on.
PersistJob(j, status, doc) ==
  \/ Save(j, status, doc) /\ UNCHANGED storeErrors
  \/ /\ storeErrors < MaxStoreErrors
     /\ storeErrors' = storeErrors + 1
     /\ UNCHANGED rec

goto(j, l) == pc' = [pc EXCEPT ![j] = l]

-----------------------------------------------------------------------------
(* The pipeline task *)

\* ingest_text / ingest_url / ingest_file: create the job, dispatch the task,
\* answer at once.
Submit(j) ==
  /\ pc[j] = "none"
  /\ podState[pod[j]] = "up"
  /\ goto(j, "waiting")
  /\ PersistJob(j, "queued", 0)
  /\ UNCHANGED <<documentId, attempt, lost, knowledgeVars, podVars, aged, req>>

\* Faulty variant: a task that failed keeps its slot.
RunningOrFailed(p) == {j \in Jobs : pod[j] = p /\ pc[j] \in Active \cup {"failed"}}

Running(p) == {j \in Jobs : pod[j] = p /\ pc[j] \in Active}

\* Enter a stage: set the status on the job object and save it.
Enter(j, from, to) ==
  /\ pc[j] \in from
  /\ goto(j, to)
  /\ PersistJob(j, to, documentId[j])
  /\ UNCHANGED <<documentId, lost, knowledgeVars, podVars, aged, req>>

\* The task gets the semaphore of its pod and starts extracting.
Start(j) ==
  /\ Cardinality(Running(pod[j])) < MaxConcurrent
  /\ Enter(j, {"waiting"}, "extracting")
  /\ UNCHANGED attempt

Clean(j) == Enter(j, {"extracting"}, "cleaning") /\ UNCHANGED attempt

Enrich(j) == Enter(j, {"cleaning"}, "enriching") /\ UNCHANGED attempt

Contextualize(j) ==
  /\ LlmEnabled
  /\ Enter(j, {"enriching"}, "chunking")
  /\ UNCHANGED attempt

\* Stage 5; the first store call goes out.
Index(j) ==
  /\ Enter(j, IF LlmEnabled THEN {"chunking"} ELSE {"enriching"}, "indexing")
  /\ attempt' = [attempt EXCEPT ![j] = 1]

\* Faulty variant: the call is sent twice.
StoreAnsweredTwice(j) ==
  /\ pc[j] = "indexing"
  /\ docs' = [docs EXCEPT ![j] = @ + 2]
  /\ documentId' = [documentId EXCEPT ![j] = docs'[j]]
  /\ goto(j, "stored")
  /\ UNCHANGED <<attempt, lost, late, published, reviewed, podVars, rec, aged,
                 req, storeErrors>>

\* knowledge-api stores the document under a fresh id and the answer arrives.
StoreAnswered(j) ==
  /\ pc[j] = "indexing"
  /\ docs' = [docs EXCEPT ![j] = @ + 1]
  /\ documentId' = [documentId EXCEPT ![j] = docs'[j]]
  /\ goto(j, "stored")
  /\ UNCHANGED <<attempt, lost, late, published, reviewed, podVars, rec, aged,
                 req, storeErrors>>

\* After an unsuccessful attempt that is not the last one: back off, try again.
Retry(j) ==
  /\ attempt[j] < MaxAttempts
  /\ attempt' = [attempt EXCEPT ![j] = @ + 1]
  /\ UNCHANGED <<pc, rec, storeErrors>>

\* The except clause of the three runners: one save, no await before it.
HandleFailure(j) ==
  /\ goto(j, "failed")
  /\ PersistJob(j, "failed", documentId[j])
  /\ UNCHANGED attempt

RetryOrFail(j) ==
  \/ Retry(j)
  \/ attempt[j] = MaxAttempts /\ HandleFailure(j)

\* No answer arrives (timeout, reset), or a 5xx that leaves the outcome of the
\* transaction open: the call was never executed, was executed, or is still
\* being executed by knowledge-api.
StoreLost(j) ==
  /\ pc[j] = "indexing"
  /\ lost' = [lost EXCEPT ![j] = @ + 1]
  /\ \/ UNCHANGED <<docs, late>>
     \/ docs' = [docs EXCEPT ![j] = @ + 1] /\ UNCHANGED late
     \/ late' = [late EXCEPT ![j] = @ + 1] /\ UNCHANGED docs
  /\ RetryOrFail(j)
  /\ UNCHANGED <<documentId, published, reviewed, podVars, aged, req>>

\* knowledge-api finishes a call whose client is gone.
LateStore(j) ==
  /\ late[j] > 0
  /\ late' = [late EXCEPT ![j] = @ - 1]
  /\ docs' = [docs EXCEPT ![j] = @ + 1]
  /\ UNCHANGED <<taskVars, published, reviewed, podVars, rec, aged, req, storeErrors>>

\* An error status and nothing stored.  5xx and 429 are retried by the loop;
\* raise_for_status of the other ones raises an httpx.HTTPError, which the same
\* loop catches, although a comment there says they fail immediately.
StoreRefused(j) ==
  /\ pc[j] = "indexing"
  /\ RetryOrFail(j)
  /\ UNCHANGED <<documentId, lost, knowledgeVars, podVars, aged, req>>

\* Faulty variant: the status in the answer is not looked at.
StoreFailedUnnoticed(j) ==
  /\ pc[j] = "indexing"
  /\ goto(j, "stored")
  /\ UNCHANGED <<documentId, attempt, lost, knowledgeVars, podVars, rec, aged,
                 req, storeErrors>>

\* 200 with status "failed" (no chunks, embedding error): nothing is stored,
\* a RuntimeError leaves the retry loop.
StoreFailed(j) ==
  /\ pc[j] = "indexing"
  /\ HandleFailure(j)
  /\ UNCHANGED <<documentId, lost, knowledgeVars, podVars, aged, req>>

\* A stage before the store call raises (extraction, cleaning, LLM, ...).
StageRaises(j) ==
  /\ pc[j] \in Stages \ {"indexing"}
  /\ HandleFailure(j)
  /\ UNCHANGED <<documentId, lost, knowledgeVars, podVars, aged, req>>

\* Evaluation gating: a score over the threshold publishes the document;
\* every error on the way is swallowed.
Gate(j) ==
  /\ pc[j] = "stored"
  /\ goto(j, "gated")
  /\ \/ UNCHANGED published
     \/ /\ EvalGate
        /\ published' = [published EXCEPT ![j] = @ \cup {documentId[j]}]
  /\ UNCHANGED <<documentId, attempt, lost, late, docs, reviewed, podVars, rec,
                 aged, req, storeErrors>>

\* _submit_review_record: ReviewWorkflow.submit saves a review record.
SubmitReview(j) ==
  /\ pc[j] = "gated"
  /\ goto(j, "reviewed")
  /\ reviewed' = [reviewed EXCEPT ![j] = @ \cup {documentId[j]}]
  /\ UNCHANGED <<documentId, attempt, lost, late, docs, published, podVars, rec,
                 aged, req, storeErrors>>

\* The review store raises, before or after the record is written.
ReviewRaises(j) ==
  /\ pc[j] = "gated"
  /\ \/ UNCHANGED reviewed
     \/ reviewed' = [reviewed EXCEPT ![j] = @ \cup {documentId[j]}]
  /\ HandleFailure(j)
  /\ UNCHANGED <<documentId, lost, late, docs, published, podVars, aged, req>>

\* Faulty variant: completion is reported before the review is submitted.
CompleteEarly(j) ==
  /\ pc[j] = "gated"
  /\ goto(j, "completing")
  /\ PersistJob(j, "completed", documentId[j])
  /\ UNCHANGED <<documentId, attempt, lost, knowledgeVars, podVars, aged, req>>

\* The completed status, saved by the shared stages ...
Complete(j) ==
  /\ pc[j] = "reviewed"
  /\ goto(j, "completing")
  /\ PersistJob(j, "completed", documentId[j])
  /\ UNCHANGED <<documentId, attempt, lost, knowledgeVars, podVars, aged, req>>

\* ... and once more by the runner, with the processing time.
Finish(j) ==
  /\ pc[j] = "completing"
  /\ goto(j, "completed")
  /\ PersistJob(j, "completed", documentId[j])
  /\ UNCHANGED <<documentId, attempt, lost, knowledgeVars, podVars, aged, req>>

-----------------------------------------------------------------------------
(* Handlers over the stored record *)

\* Wall-clock time passes; the stages never refresh updated_at.
Age(j) ==
  /\ pc[j] # "none"
  /\ ~aged[j]
  /\ aged' = [aged EXCEPT ![j] = TRUE]
  /\ UNCHANGED <<taskVars, knowledgeVars, podVars, rec, req, storeErrors>>

\* Faulty variants: a terminal record is not left alone; the copy keeps the
\* status it was read with.
ReadForAny(r, j, status) ==
  /\ req[r] = NoCopy
  /\ rec[j] # Missing
  /\ \E p \in Pods :
       /\ podState[p] = "up"
       /\ req' = [req EXCEPT ![r] = [at |-> p, job |-> j, status |-> status,
                                    doc |-> rec[j].doc]]
  /\ UNCHANGED <<taskVars, knowledgeVars, podVars, rec, aged, storeErrors>>

ReadForOther(r, j, status) ==
  /\ req[r] = NoCopy
  /\ rec[j].status \notin Terminal \cup {"missing"}
  /\ \E p \in Pods :
       /\ podState[p] = "up"
       /\ req' = [req EXCEPT ![r] = [at |-> p, job |-> j, status |-> rec[j].status,
                                    doc |-> rec[j].doc]]
  /\ UNCHANGED <<taskVars, knowledgeVars, podVars, rec, aged, storeErrors>>

\* A pod that serves requests reads a record and prepares the modified copy; a
\* terminal record is left alone.
ReadFor(r, j, status) ==
  /\ req[r] = NoCopy
  /\ rec[j].status \notin Terminal \cup {"missing"}
  /\ \E p \in Pods :
       /\ podState[p] = "up"
       /\ req' = [req EXCEPT ![r] = [at |-> p, job |-> j, status |-> status,
                                    doc |-> rec[j].doc]]
  /\ UNCHANGED <<taskVars, knowledgeVars, podVars, rec, aged, storeErrors>>

\* cancel_job: best-effort, it never looks for the task.
CancelRead(r, j) == "cancel" \in Operations /\ ReadFor(r, j, "cancelled")

\* Faulty variant: only jobs that never started are expired.
ExpireQueuedRead(r, j) ==
  /\ "expire" \in Operations
  /\ aged[j]
  /\ rec[j].status = "queued"
  /\ ReadFor(r, j, "failed")

\* get_job / list_jobs: _expire_stale_job_if_needed.
ExpireRead(r, j) == "expire" \in Operations /\ aged[j] /\ ReadFor(r, j, "failed")

\* The handler saves its copy over whatever the record is by now.
HandlerSave(r) ==
  /\ req[r] # NoCopy
  /\ PersistJob(req[r].job, req[r].status, req[r].doc)
  /\ req' = [req EXCEPT ![r] = NoCopy]
  /\ UNCHANGED <<taskVars, knowledgeVars, podVars, aged>>

-----------------------------------------------------------------------------
(* Pods *)

\* A pod dies, or IngestionPipeline.close cancels its tasks: CancelledError
\* is not an Exception, so no runner saves anything.
Crash(p) ==
  /\ crashes < MaxCrashes
  /\ podState[p] # "down"
  /\ crashes' = crashes + 1
  /\ podState' = [podState EXCEPT ![p] = "down"]
  /\ pc' = [j \in Jobs |-> IF pod[j] = p /\ pc[j] \in Active \cup {"waiting"}
                           THEN "lost" ELSE pc[j]]
  /\ todo' = [todo EXCEPT ![p] = {}]
  /\ found' = [found EXCEPT ![p] = {}]
  /\ req' = [r \in Requests |-> IF req[r].at = p THEN NoCopy ELSE req[r]]
  /\ UNCHANGED <<documentId, attempt, lost, knowledgeVars, pod, rec, aged,
                 storeErrors>>

\* lifespan: without a durable queue, recover_stale_jobs lists the index.
Restart(p) ==
  /\ podState[p] = "down"
  /\ podState' = [podState EXCEPT ![p] = "recovering"]
  /\ todo' = [todo EXCEPT ![p] = {j \in Jobs : ~DurableQueue /\ rec[j] # Missing}]
  /\ UNCHANGED <<taskVars, knowledgeVars, pod, found, crashes, rec, aged, req, storeErrors>>

\* HGET status of the next job.
RecoverRead(p) ==
  /\ podState[p] = "recovering"
  /\ found[p] = {}
  /\ \E j \in todo[p] :
       /\ todo' = [todo EXCEPT ![p] = @ \ {j}]
       /\ found' = [found EXCEPT ![p] = IF rec[j].status \in Terminal THEN {} ELSE {j}]
  /\ UNCHANGED <<taskVars, knowledgeVars, pod, podState, crashes, rec, aged, req, storeErrors>>

\* HSET of the failure fields alone; document_id keeps its value.
RecoverWrite(p) ==
  /\ \E j \in found[p] : rec' = [rec EXCEPT ![j].status = "failed"]
  /\ found' = [found EXCEPT ![p] = {}]
  /\ UNCHANGED <<taskVars, knowledgeVars, pod, podState, todo, crashes, aged, req, storeErrors>>

\* The scan is over, the pod serves requests.
Serve(p) ==
  /\ podState[p] = "recovering"
  /\ todo[p] = {} /\ found[p] = {}
  /\ podState' = [podState EXCEPT ![p] = "up"]
  /\ UNCHANGED <<taskVars, knowledgeVars, pod, todo, found, crashes, rec, aged, req,
                 storeErrors>>

-----------------------------------------------------------------------------
TaskStep(j) ==
  \/ Start(j) \/ Clean(j) \/ Enrich(j) \/ Contextualize(j) \/ Index(j)
  \/ StoreAnswered(j) \/ StoreLost(j) \/ StoreRefused(j) \/ StoreFailed(j)
  \/ StageRaises(j) \/ Gate(j) \/ SubmitReview(j) \/ ReviewRaises(j)
  \/ Complete(j) \/ Finish(j)

HandlerStep(r) ==
  \/ \E j \in Jobs : CancelRead(r, j) \/ ExpireRead(r, j)
  \/ HandlerSave(r)

PodStep(p) ==
  Crash(p) \/ Restart(p) \/ RecoverRead(p) \/ RecoverWrite(p) \/ Serve(p)

Next ==
  \/ \E j \in Jobs : Submit(j) \/ TaskStep(j) \/ LateStore(j) \/ Age(j)
  \/ \E r \in Requests : HandlerStep(r)
  \/ \E p \in Pods : PodStep(p)

\* The event loop runs every task that is not waiting for the semaphore or a
\* reply, clients keep polling GET /jobs, time passes, and the orchestrator
\* restarts a pod that died.  Nobody is obliged to submit or cancel.
Fairness ==
  /\ \A j \in Jobs : WF_vars(TaskStep(j)) /\ WF_vars(Age(j))
  /\ \A r \in Requests : WF_vars(HandlerSave(r))
  /\ \A j \in Jobs : WF_vars(\E r \in Requests : ExpireRead(r, j))
  /\ \A p \in Pods : WF_vars(Restart(p) \/ RecoverRead(p) \/ RecoverWrite(p) \/ Serve(p))

Spec == Init /\ [][Next]_vars /\ Fairness
-----------------------------------------------------------------------------
(* Properties *)

Copies == [at : Pods, job : Jobs, status : {"cancelled", "failed"}, doc : 0 .. 0]

\* Every variable stays in its type.
TypeOK ==
  /\ pod \in [Jobs -> Pods]
  /\ podState \in [Pods -> {"up", "down", "recovering"}]
  /\ pc \in [Jobs -> {"none", "waiting"} \cup Active \cup Ended]
  /\ documentId \in [Jobs -> Nat]
  /\ attempt \in [Jobs -> 0 .. MaxAttempts]
  /\ lost \in [Jobs -> Nat]
  /\ late \in [Jobs -> Nat]
  /\ docs \in [Jobs -> Nat]
  /\ published \in [Jobs -> SUBSET Nat]
  /\ reviewed \in [Jobs -> SUBSET Nat]
  /\ rec \in [Jobs -> [status : Statuses, doc : Nat]]
  /\ aged \in [Jobs -> BOOLEAN]
  /\ req \in [Requests -> Copies \cup {NoCopy}]
  /\ todo \in [Pods -> SUBSET Jobs]
  /\ found \in [Pods -> SUBSET Jobs]
  /\ crashes \in Nat
  /\ storeErrors \in Nat

\* A job that a client can see as completed is backed by a stored document
\* with a review record, whatever handlers, crashes and recoveries have
\* written over its record in between (_submit_review_record: "Create
\* governance review record for every successful ingestion").
CompletedIsBacked ==
  \A j \in Jobs :
    rec[j].status = "completed" =>
      rec[j].doc \in 1 .. docs[j] /\ rec[j].doc \in reviewed[j]

\* knowledge-api mints a new id per call, so a retry after a lost answer can
\* leave duplicates; there are never more than the lost calls account for.
DuplicatesOnlyFromLostCalls ==
  \A j \in Jobs : docs[j] + late[j] <= lost[j] + (IF documentId[j] = 0 THEN 0 ELSE 1)

\* A review record is opened for one document of a job only, the one whose id
\* the pipeline knows: duplicates never reach the review queue.
OneReviewPerJob ==
  \A j \in Jobs : reviewed[j] \subseteq {documentId[j]} \ {0}

\* Who may still save over the record of j: its own task, a handler holding a
\* copy, or a recovery scan that has just read it.
InFlight(j) ==
  \/ pc[j] \in {"waiting"} \cup Active
  \/ \E r \in Requests : req[r] # NoCopy /\ req[r].job = j
  \/ \E p \in Pods : j \in found[p]

Settled(j) == rec[j].status \in Terminal /\ ~InFlight(j)

\* A terminal record is final once its task has ended and no handler or scan
\* that read it earlier is still about to write: later polls, cancellations and
\* recovery scans neither change it nor take it up again.
SettledIsFinal ==
  [][\A j \in Jobs : Settled(j) => Settled(j)' /\ rec'[j] = rec[j]]_vars

\* Only the job's own running task takes a record out of a terminal status
\* again, and only towards the status its own stage has.
RevivedByOwnTaskOnly ==
  [][\A j \in Jobs :
       rec[j].status \in Terminal /\ rec'[j].status \notin Terminal
         => pc'[j] = rec'[j].status /\ pc'[j] # pc[j]]_vars

\* Every accepted job ends up reported in a terminal status for good, even
\* when its pod dies or Redis refuses saves: the stale timeout applied by
\* polling clients settles what no task will settle.  A job whose every save
\* was refused has no record to report.
EveryJobSettles ==
  \A j \in Jobs : <>[](rec[j].status \in Terminal \cup {"missing"})

\* Every dispatched task ends, and with it the slot it holds.
EveryTaskEnds == \A j \in Jobs : pc[j] = "waiting" ~> pc[j] \in Ended

\* The pipeline implements the contract of KnowledgeIntake: store, then
\* review, then report, each at most once per job, in every interleaving.
PhaseOf(j) ==
  IF pc[j] = "none" THEN "absent" ELSE IF pc[j] \in Ended THEN "closed" ELSE "open"
Intake == INSTANCE KnowledgeIntake
  WITH phase <- [j \in Jobs |-> PhaseOf(j)],
       held <- docs,
       inReview <- reviewed,
       reported <- [j \in Jobs |-> rec[j].status = "completed"]
ImplementsIntake == Intake!Spec
=============================================================================
