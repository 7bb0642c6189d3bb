# TLA+ verification of HKI

This directory holds the formal models kept beside the HKI repository
("Hermetic Knowledge Isolation"): TLA+ modules, TLC configurations, and
theorems checked by TLAPS.  Paths are relative to the repository root.
Line numbers and the exact correspondence between definitions and code are in
`PROJECT.json` (`map`).

## 1. The system

HKI is a multi-tenant knowledge platform.  A React application with a tRPC
back end (`apps/agentic`) talks to Python services: the *ingestion pipeline*
turns text, URLs and files into documents, the *knowledge API* stores and
searches them, the *orchestrator* answers questions with agents over them,
the *analytics service* records events.  The `packages/` are the isolation
envelope ("HKI runtime"), its conformance tests and adapters for agent
frameworks.

Concurrency and failure matter in two places.  The ingestion service accepts work
over HTTP and a queue, runs it as background asyncio tasks, keeps job state,
tenant counters and review records in Redis shared by several replicas, calls
the knowledge API with retries, and promises a governance workflow (review
before publication).  The web server (`apps/agentic/server`) runs in several
pods too: each schedules the synchronisation of the knowledge connectors, streams
the answers of the agents to web sockets through Redis, and changes access,
invitations and releases in SQL, one statement after the other and almost always
without a transaction.  These two are the subject of this project; the other
parts are listed with the reason they are left aside.

### 1.1 Components of the ingestion service

| component | state | operations | talks to | what is hard | what makes it correct |
|---|---|---|---|---|---|
| job lifecycle (`domain/pipeline.py`) | job objects in memory, per-pod semaphore | ingest text/url/file, the stages, failure handling, cancel, stale expiry, close | job store, knowledge API, review workflow | the task and the handlers write whole copies of one record; lost answers; cancellation of asyncio tasks | a completed job is backed by a stored, reviewed document; a settled job stays settled; every job settles |
| job store (`adapters/job_store.py`) | Redis hash per job, index set | save, get, list, recover stale jobs | Redis | blind overwrite; recovery scan beside live replicas, whose jobs it fails too | a job that the scan failed wrongly is revived by its own task only; a completed record stays backed |
| per-tenant limiter (`adapters/concurrency.py`) | one Redis counter per organisation with an expiry | acquire, release | Redis, worker | INCR, EXPIRE, DECR, SET are separate commands; worker death; fail-open | at most the limit; no lock-out after a crash; what leaks is accounted for |
| queue and worker (`adapters/pubsub.py`, `worker.py`, `api/routes.py`) | Pub/Sub subscription or in-memory queue, the message in hand | publish, deliver, process, ack/nack, dead letters | pipeline, limiter, job store | redelivery, a publish without an answer, a full queue, process death | a message is at one place, starts one job at most; no request waits for ever |
| review workflow (`domain/review.py`, `adapters/review_store.py`, `api/review_routes.py`) | review records, document status at the knowledge API | submit, decide, claim, assign, remind, publish, archive, resubmit, reconcile | review store, knowledge API | get, check and save are separate Redis calls; two services hold the status | legal transitions only; a published document was approved; both services agree in the end |
| versioning (`domain/versioning.py`) | latest version and history per source | detect, record | pipeline | the detect/record pair spans the whole pipeline | version numbers increase |
| chunk feedback, RAPTOR trees, pre-ingest, quality gates, scheduler | files, trees, reports, schedules | pure or single-process | pipeline | little | functional |

### 1.2 Components of the web server

| component | state | operations | talks to | what is hard | what makes it correct |
|---|---|---|---|---|---|
| sync scheduler (`connectors/sync-scheduler.ts`) | a Redis key per connector, an in-process fallback, one tick per pod | select due connectors, lock, renew, dispatch, release | sync worker, SQL, Redis | a snapshot taken before the lock, expiry, a lock without owner, death between two steps | one scheduled sync at a time; the lock never stays |
| Drive sync worker (`connectors/google-drive-sync.ts`) | sync record, `lastSyncToken` | list, upload, record, catch | Google, ingestion pipeline, SQL | syncs from stale tokens, some files failing, failure while recording the outcome | no change is skipped without being known; the token does not go back |
| connectors router (`connectors.ts`), OAuth (`connectors/google-drive-auth.ts`) | connector rows | trigger, pause, resume, reconnect, delete | sync worker, SQL | runs beside the scheduler without its lock | a record says "running" only while somebody works |
| access and membership (`admin.ts`) | assignments (as rows and as a column), roles, invitations, requests, streams, activation | invite, accept, revoke, decide, assign, change role, provision, delete, toggle | SQL | two copies written in separate statements from old reads; roles read from the session | the copies agree; invitations say what happened; a deactivated manager leaves none behind |
| releases (`knowledge.ts`) | releases, evaluation runs | evaluate, gate, create, promote, roll back | SQL, knowledge API, ingestion pipeline | the gate's evidence is read in parallel with failures replaced by empty answers; three statements per change | exactly one promoted release; nothing promoted that was not gated |
| chat turns (`chat.ts`) | messages, placeholder, trace and tool rows | send, stream, store, fail, delete | orchestrator, SQL, trace channel | the turn outlives its request; failure while a failure is stored; deletion meanwhile, statement by statement | what is told is stored; no placeholder stays unexplained; evidence fits the reply |
| trace channel (`websocket.ts`) | sockets per conversation and pod, Redis subscription | open, close, heartbeat, publish, fall back | Redis, browser | two places remove a socket; Redis comes later; a publication reported failed, an unsubscription swallowed | subscribed while somebody listens, and only then but for a known leftover; a listener hears all, once, in order |

### 1.3 How they interact

`POST /v1/ingest/*` (`api/routes.py`) creates a job and either dispatches a
background task (inline mode) or publishes a message (`PUBSUB_ENABLED`).
`worker.process_message` takes a tenant slot, calls the pipeline, which
creates a job and dispatches its task, and gives the slot back.  The task saves
its job object at each stage, posts the text to
`knowledge-api /v1/internal/store`, optionally evaluates and publishes the
document, submits a review record and completes.  Reviewers act through
`/v1/review/*`; publication, archiving and resubmission are pushed to the
knowledge API as a document status, and a reconciliation (at start-up and as an
endpoint) repairs the difference.  Clients poll `GET /v1/jobs/{id}`, which also
expires jobs that have not ended `JOB_STALE_TIMEOUT_MINUTES` after their
creation.  A pod that starts without a durable queue fails every job it finds
unfinished.

In the web server, `startSyncScheduler` runs a tick in each pod; a due connector is
locked, a sync record inserted and the worker started in the background, which
uploads files to the ingestion pipeline.  `connectors.triggerSync` starts the same
worker without the lock.  `chat.sendMessage` stores the question and a placeholder,
answers the browser and goes on in the background: events of the orchestrator's
stream are published on the conversation's Redis channel, each pod with a listener
is subscribed to it and passes them to its web sockets, and the reply replaces the
placeholder.  `knowledge.promoteRelease` asks the knowledge API, the pipeline's
review queue and its own tables whether a stream is ready.  What a member may read
is decided by the column that the procedures of `admin.ts` maintain.

### 1.4 The rest of the repository

`PROJECT.json` (`components`) lists every part with the reason it is, or is not,
modelled.  Parts with a protocol worth a model later are in section 6; most of
the others are request handlers over SQL rows, pure functions of text and
scores, user interface, or configuration.  The deployment settings fix the
shape of the instances: two replicas share one Redis, Pub/Sub is on in the
Kubernetes configuration and off by default, `RETRY_MAX_ATTEMPTS` is 3,
`EVAL_ON_INGEST_ENABLED` is off by default.

## 2. The modules and the code

| module | models | composed with |
|---|---|---|
| `TenantSemaphore` | what the limiter promises: at most `MaxPerOrg` slots until its store has failed | abstract of `ConcurrencyLimiter` |
| `ConcurrencyLimiter` | the Redis counter of one organisation, command by command | `Slots == INSTANCE TenantSemaphore` |
| `KnowledgeIntake` | what the service promises of a job: store, then review, then report | abstract of `IngestionJobs` |
| `IngestionJobs` | tasks, job records, handlers, store call with retries, pods | `Intake == INSTANCE KnowledgeIntake` |
| `ReviewWorkflow` | the review records of one document, its status at the knowledge API, requests and reconciliations | |
| `MessageDelivery` | what queue mode promises of a message: handed over once, begun once, or known to be lost or dead | abstract of `IngestQueue` |
| `IngestQueue` | queue mode: requests, both kinds of publisher and subscriber, worker, process death | `Delivery == INSTANCE MessageDelivery`; what its pipeline jobs do is `IngestionJobs`, its slot is `ConcurrencyLimiter` |
| `ConnectorContract` | what a connector promises of its drive: the token never passes what is not accounted for, or is emptied by a reconnection | abstract of `ConnectorSync` |
| `ConnectorSync` | one connector: schedulers of all pods, lock, workers, manual requests, the drive | `Contract == INSTANCE ConnectorContract`; what it uploads becomes the jobs of `IngestionJobs` |
| `KnowledgeMembership` | one member: assignments, role, invitations, requests, streams, the manager who invites | |
| `KnowledgeReleases` | the releases of one stream, evaluation runs, gate, promotions and rollbacks | one of its checks is the review queue (`ReviewWorkflow`) |
| `TraceChannel` | sockets, subscriptions and publications of one conversation | extended by `Conversation` |
| `TurnContract` | what a conversation promises of an answer: one text, its evidence, and viewers are told it | abstract of `Conversation` |
| `Conversation` | the turns of one conversation, with its channel | `EXTENDS TraceChannel`; `Contract == INSTANCE TurnContract` |
| `MC*` | TLC instances: the symmetries and views | |
| `*Proofs` | theorems | extend the module they are about |

Definitions whose comment begins with "Faulty" are variants of the action that
follows them (a dropped guard, a swapped order, a missing reset).  No
specification uses them.  `PROJECT.json` (`mutants`) pairs each with the property
that it breaks, which shows that the property depends on the code.

### 2.1 ConcurrencyLimiter

`acquire_slot` is `INCR`, `EXPIRE` when the result is 1, then either `DECR` and
False, or `EXPIRE` and True; `release_slot` is `DECR` and, below zero, `SET 0`.
Each command is an action; `pc[h]` is the next command of the `process_message`
invocation `h`, `current[h]` its local variable.  `key` tells whether the Redis
key exists and has an expiry: `INCR` and `DECR` create it without one.  Every
command may raise, applied or not (`RedisError`): acquire then answers True,
release gives up.  A worker may die at the points in `CrashAt`.  `Expire` drops a
key whose last refresh is `CONCURRENCY_SLOT_TTL` (one hour) ago.  A slot is held
only while the job is submitted, so nobody who refreshed the key is still
running at that time; a handler that has only incremented may be
(`ExpiryRaces`).  `LeakHasExpiry` is why leaked slots come back: while no command
fails and nobody dies between `INCR` and the first `EXPIRE`, a key that counts
something expires, or a handler is about to see to it.  Keys of different organisations
share nothing, so there is one.

### 2.2 IngestionJobs

A job has two lives.  The task's is the job object in one pod: `pc` (the stages
are `JobStatus` values; after the store call the object still says "indexing"),
`documentId`, `attempt`.  The record's is `rec`, the Redis hash.  `_persist_job`
writes the whole object over the record and swallows a failure of the store;
`cancel_job` and `_expire_stale_job_if_needed` read a record, change their copy
(`req`) and save that later.  So an action is what happens between two awaits:
every stage is "enter, save", a handler is a read and a save.

The store call has the outcomes the code tells apart: answered; no answer or a
5xx with the outcome unknown (`StoreLost`: not executed, executed, or still
executing, `LateStore`); an error status (`StoreRefused`); an answer with status
"failed".  The first two failures are retried up to `MaxAttempts`.  Then come
gating (`Gate`), the review submission, which may raise with the record written
or not, and the two saves of the completed status.  Every exception ends in the
runner's except clause (`HandleFailure`).  A pod that dies, or whose `close`
cancels its tasks, saves nothing: `CancelledError` is no `Exception`.  A pod
that starts lists the index and fails unfinished jobs one by one, with other
pods running.

`ingest_text`, `ingest_url` and `ingest_file` differ in how they get the text;
they are one task here, and what a stage does to the text is its success or its
exception.

### 2.3 ReviewWorkflow

A request reads a record, checks the transition table, modifies its copy
(`Take`) and saves it with the document index in one `MULTI` (`SaveRecord`);
then the route pushes the status to the knowledge API with retries (`Sync`,
`SyncFails`).  With Redis other requests come in between the read and the save;
with the in-memory store the coroutine never suspends between them, which is
the conjunct `store = "memory" => ...` of `Take`.  Both stores are in every run.
The audit trail is the set of requests that left a comment.  A reconciliation
reads three status lists one after the other and then gets, compares and patches
the document for each row; with the in-memory store a row is the live object.
A list holds at most 200 records of the organisation and in Redis only what is among
the 500 newest ids of all organisations, so the record may be left out of it (the second
disjunct of `List`).  `missed` is a history variable: the reconciliation began beside
something else, one of its calls failed, or a list ended before the record.  Decisions
and claims push nothing, as in the code. The documents of a reconciliation share only
its order, so one is modelled.

### 2.4 IngestQueue

A POST saves a job record, the *ticket*, and publishes.  Which publisher the
process got is decided at start-up (`create_publisher` falls back to an
`asyncio.Queue` when there is no project or set-up fails); a process whose
publisher is in memory starts a subscriber, chosen by `create_subscriber`
independently.  `InMemoryPublisher.publish` waits for room; the pull loop takes a
message, then `process_message` takes a slot or raises, starts a pipeline job and
gives the slot back.  `PubSubPublisher.publish` may report an error for a message
that is published.  The subscriber of Pub/Sub calls `asyncio.get_event_loop()`
in a thread of the streaming pull, where there is none: every delivery is nacked
before anything is done with it, until the message is among the dead letters.
Death of the API process loses its queue, the message in hand and its pipeline
tasks; requests that wait get an error.  Topic, subscription and acknowledgement
are modelled from how `pubsub.py` uses them.

Under `Delivery`, what is in the queue or in hand of the process is `queued`, the
topic with its subscription is `held`, and the slot, the ticket, the deliveries and
who waits are not seen.  A message that `process_message` fails to start for want of
a slot is logged and dropped, which is `Lose`; so is the death of the process.

### 2.5 ConnectorSync

`tick[p]` is where `tick()` of pod `p` is for the connector: selected (with the
snapshot of `lastSyncToken` and `consecutiveErrors` that the dispatch uses later),
locked, about to release.  `lock` is the key with the pod that set it; the code
stores no owner, and `Unlock` deletes whatever is there.  The in-process set stands
in when a Redis command raises.  `at[s]` and `work[s]` are the place and the
locals of a worker: listing, start token, uploads in any order, the record, the
connector, the catch clause, `.finally`.  A connector that is not of type
"google_drive" gets a record that nobody works on, as in the code.  The drive is the
number of its latest change; a token is such a number, or none.  `age` abstracts
`lastSyncAt`: cooling down, cooled, due.  `RunningRowsAreLive` is about Drive
connectors only; for other types `DispatchOther` inserts the record and starts
nothing.  `Reconnect` is the OAuth call that gives an existing connector new
credentials: at any time, also while a tick holds a snapshot or a sync runs, it makes
the connector active and due, and empties the token and the count of errors.

Under `Contract` there are the syncs that run (`Open`) and those that ended or died
with their pod (`Over`), what was accepted or given up, and the token.  A snapshot
that is old, a lock without owner and a catch clause are steps of one sync or
nothing; what they may not do is begin a second one while nothing is `Disturbed`, or
store a token beyond what is accounted for.  `Reset` is the reconnection.

The folder is the one the connector had.  A reconnection may name another folder or
account, and `update` may give an unassigned connector its stream; neither is modelled.
Of the first this is known from the code: a sync of the old folder that is still running
stores its token over the emptied one, and files of the new folder that are older than
this token are never listed.

### 2.6 KnowledgeMembership

Each procedure is a sequence of statements; `call[c]` holds its place and what it
has read.  `rows` are the rows of `userValueStreams`, `column` is
`users.valueStreams`.  `acceptInvite` takes the role of the member from the session
(`read`).  `Begin` marks calls that are open together (`solo` becomes false), and
`broken`, `granted` and `raced` are history variables that let the properties say
exactly which calls are excused: those that overlapped and those that failed.  A
row of an invitation keeps whether its insertion was undisturbed.  Streams may be
deleted and made anew; a foreign key removes invitations with their stream, and
refuses the insertion of one without.

### 2.7 KnowledgeReleases

A promotion collects evidence (`ReadCheck`, in any order, for the `Promise.all` of
the readiness query), passes the gate or ends, reads the promoted releases, retires
each and promotes its own; a rollback skips the gate.  Checks other than the agent
evaluation are a set that the outside world changes; a source that fails is
replaced by an empty answer, which some checks pass (`Lenient`).  An answer may also
end too early to show what the check is about (`Limited`): the pending reviews are the
first 100 of the whole organisation, whichever stream was asked for, and are filtered
by stream only afterwards, so that the check may find none with reviews pending; the
evaluation runs are the latest 20.  `evidence` is the
history of what held while a call was open, `gated` of what passed the gate.

### 2.8 TraceChannel and Conversation

`conns[p]` is the set of sockets a pod keeps for the conversation, `sub[p]` its
subscription, `ready[p]` whether its Redis subscriber is ready.  Events are numbered
per turn; `got` is what an open socket has received.  `late[p]` are publications
whose failure is about to be reported, carried out or not, after which the local
sockets are served (`FallBack`).  `deaf` is history: pods whose first listener came
before Redis was ready, or whose subscription was refused.  A failing `unsubscribe` is
swallowed: the subscription is "stuck" without a listener until the next one, whose
`subscribe` takes it over.

A turn goes through the statements of `sendMessage`, the stream, the storing of the
reply (`Settle`, `Bump`, `InsertTraces`, `InsertTools`, `Tell`) and, from wherever
the code throws, through the failure path.  A statement on a row that is gone
changes nothing, an insertion without its parent is refused.

The conversation may be deleted at any point.  `deleteTask` uses a transaction when it
finds a pool with a `promise` method behind `db._.session?.client` (`Delete`), and
separate statements otherwise (`Erase`): the ids of the messages, tool rows, trace rows,
messages, conversation.  Which of the two a deployment takes depends on the version of
the database library, so both are always possible.  Turns go on between these
statements, any of them may raise, and what is deleted then stays deleted; `cut` is
history: turns that lost trace rows or their answer to a deletion of a conversation
that is still there.  A turn between its two insertions can so end with tool rows and no
trace rows, or tell an answer that is no longer there.

`Contract` forgets the pods, the channel and the statements: a turn is what the user
finds in its place, its traces, and what viewers were told.  Its failure path is a
`Retract` when the reply had been stored and the statement after it failed, and
`unstored` holds the turns whose failure text could not be stored either.  A deletion of
the contract takes everything at once, or evidence (`Strip`), texts (`Wipe`) and the
conversation one after the other.

## 3. The runs

| run | instance | distinct states | time |
|---|---|---|---|
| `limiter_safety` | 3 handlers, limit 2, 2 failing commands, 1 death anywhere | 190 000 | 4 s |
| `limiter_liveness` | 3 handlers, limit 2, 2 deaths while holding, expiry races | 155 000 | 9 s |
| `limiter_leak` | 2 handlers, limit 1, 1 death anywhere | counterexample | |
| `jobs_safety` | 1 job, 2 pods, 2 handlers, 3 attempts, all options, 1 crash, 1 refused save | 157 000 | 7 s |
| `jobs_liveness` | 2 jobs on 1 pod with 1 slot, durable queue, polling, 1 crash, 1 refused save | 40 000 | 11 s |
| `review_workflow` | 3 requests, 2 record ids, both stores, 1 reconciliation, 2 failures | 163 000 | 12 s |
| `queue_delivery` | 3 messages, room for 1, 2 deliveries, 1 death, all kinds | 587 000 | 75 s |
| `connector_sync` | 2 pods, 1 request, 2 syncs, 3 kinds of connector, reconnections, 1 change, 1 mishap | 1 110 000 | 90 s |
| `connector_liveness` | 2 pods, 1 request, 1 sync, 2 kinds, reconnections, 1 change, 1 mishap | 262 000 | 158 s |
| `membership` | 2 streams, 2 invitations, 1 request, 3 calls (2 at once), 1 failure | 1 190 000 | 96 s |
| `releases` | 3 releases, 1 run, 3 checks, 2 calls at once, 1 failure, 2 changes | 2 900 000 | 153 s |
| `conversation` | 2 pods, 2 sockets, 3 upgrades, 1 turn, any failed statements, 2 mishaps, any deletions | 165 000 | 35 s |

The type invariants (`TypeOK` of each module), `OneRecordInMemory`,
`DeadAfterAllDeliveries` and `ApprovedHasInvite` are not in the configurations: they
were checked with these instances first and are theorems now (section 5), for every
instance.  The same holds of `OneReviewPerJob`, `StartedOnce` and `ReplyStands`, of
`ImplementsContract` of `ConnectorSync` and of the variants of section 5.

`connector_sync` and `conversation` have a `VIEW`: states that differ only in what no
later step reads and no property looks at are one for TLC.  `MCConnectorSync` and
`MCConversation` say for each part why.  In the first it is what a worker has gathered
and does not read again, what a deleted connector had, who paused it, and whether a
change is delivered or given up (the properties take the two together).  In the second
it is what the stream of a settled turn had brought, and the sockets and subscriptions
once no turn that is heard runs: they do not depend on the turns, so that
`SubscribedWhileListening` has met every state of them while the turns were idle, and
`AudienceHearsAll` is about the audience of a running turn before the first mishap.

What they show:

* **`limiter_safety`**: until a command fails, at most the limit of handlers is let
  through (`TenantLimit`), and the counter covers every live handler, so the
  clamp is never reached (`CounterCoversHolders`).  Failures and deaths leave the
  counter above the live handlers by at most one each (`LeakBounded`), whatever the
  clamp and the expiry do; this bounds how long a leak can lock an organisation
  out.  The counter implements `TenantSemaphore`.
* **`limiter_liveness`**: when workers die while they hold slots, the expiry brings
  a full counter down again (`LimitReleased`), because no leak is left without an
  expiry (`LeakHasExpiry`).
* **`jobs_safety`**: a job reported completed names a stored document under review
  (`CompletedIsBacked`), whoever wrote over the record; duplicates are
  accounted for by lost calls and never reach review; a settled record is final
  (`SettledIsFinal`); only the own task leaves a terminal status
  (`RevivedByOwnTaskOnly`); together it implements `KnowledgeIntake`.
* **`jobs_liveness`**: every job settles and every dispatched task ends, the one
  that waits for the slot of the other included.
* **`review_workflow`**: racing saves may undo each other but never leave a
  published record without an approval of its cycle (`RecordsConsistent`); the
  in-memory store serialises (`LegalInMemory`, `TrailKeptInMemory`); a
  reconciliation that nobody disturbs, and whose lists reach the record, repairs the
  document (`ReconcileRepairs`).
* **`queue_delivery`**: a message is at one place (`OnePlace`); the queue implements
  `MessageDelivery`, so that a message starts one job at most and leaves in no way
  but a beginning, a loss or a dead letter (`ImplementsDelivery`); a request that
  waits for room gets it while an in-memory subscriber runs (`PostAnswered`).
* **`connector_sync`**: while Redis answers, one pod at a time works on a connector by
  schedule and the key is its own, although nothing in the key says so
  (`ScheduledExclusion`); `lastSyncToken` never passes a change the pipeline did not
  accept, unless a completed sync gave the file up or it was added between the first
  listing and the start token (`NothingSkippedSilently`); records that say "running"
  have a worker (`RunningRowsAreLive`); a scheduled sync from an old snapshot does not
  move the token back (`TokenMonotone`); only a reconnection empties it, with the rest of
  the row.
* **`connector_liveness`**: the lock of a pod that died, or of a sync that ended, does
  not stay, and a sync comes to an end.
* **`membership`**: the copies of the assignments agree whenever nobody is at work,
  and one undisturbed call that rewrites the column mends what an overlap or a
  failure left (`ColumnAgrees`); a decision that is taken again after a failure
  reuses the invitation (`OnePendingInvite`); invitations say
  what happened (`InvitationHonest`, `NoneOutlivesManager`); accepting never demotes
  except through a stale session (`AcceptNeverDemotes`).
* **`releases`**: a change that runs alone to its end leaves exactly one release
  promoted, whatever was left before (`OnePromoted`); a rollback restores only what
  has passed the gate (`PromotedWasGated`), and the gate counts only what held during
  the call, or what an answer that is empty or cut short passes (`GateHasEvidence`).
* **`conversation`**: what viewers are told is what is stored (`ToldIsStored`); a
  placeholder stays only in the ways the property names (`NoOrphanPlaceholder`);
  traces and tools agree with the reply, but for the trace rows that a deletion took
  before it stopped (`EvidenceFits`); a turn keeps the contract of
  an answer (`ImplementsTurns`): a stored reply gives way to a failure only while
  nobody was told, and goes only by a deletion; a listener hears every event once and in
  order while Redis does not fail (`AudienceHearsAll`), because subscriptions follow
  listeners (`SubscribedWhileListening`); a subscription that a failed unsubscription
  leaves behind is taken over by the next listener.

### 3.1 Why the bounds are enough

Each bound is the smallest with which the cases of interest meet.  A limit of two
with three handlers gives a refusal between two grants, and rollbacks beside
releases.  Jobs share only the semaphore of their pod, therefore one job in
the safety run, where two handlers hold stale copies of its record while the other
pod scans and its own task saves, and two jobs where the slot matters.  Three
attempts allow a lost call, a late one and an answered one.  Three requests allow
a submission, a decision and one that read before either; two record ids
allow the two records of a racing first submission.  Three messages allow one in
hand, one in line and one that waits.

Two pods and two sync records let a pod select, wait and lock after the sync of the
other; a manual request overlaps either; `PauseAt` 2 separates counting from
pausing.  Three membership calls, two of them open together, allow an overlap
followed by a call that mends it, or a failure followed by its repetition.  Three
releases allow one to be promoted, one to be restored and one to be retired beside
them; one strict and one lenient check beside the evaluation, one with a list that may be
cut and one without, are all the gate distinguishes.  Two sockets on two pods allow a
listener beside one that leaves, joins or is given up; failed statements are not
counted, so a failure while a failure is stored is there.

`MaxErrors`, `MaxCrashes`, `MaxStoreErrors`, `MaxFailures`, `MaxDeliveries`,
`MaxChanges`, `MaxMishaps`, `MaxCalls`, `MaxFails`, `MaxFlips`, `MaxOpens` and
`MaxLive` are the only caps; none of them but `MaxDeliveries` and the retries exist
in the code.  The theorems hold for every value of all of them, and the sets of
pods, calls, messages and rows have any size there.

Deadlock is not reported where the system may come to rest: all jobs ended, all
requests answered, all messages gone, all bounds used up.  Symmetry is used in
`jobs_safety` (pods, requests), `review_workflow` (requests), `connector_sync`
(pods), `membership` (calls, streams), `releases` (releases, calls, runs) and
`conversation` (sockets, pods), where no property is a liveness property.

### 3.2 Fairness

* Coroutines that have started are run: weak fairness of the steps of a task, a
  handler or a request after its first one.  The event loop runs every ready
  task, and an action here is what lies between two awaits.  A task that waits
  for the semaphore is woken when it is free and queues first-in first-out;
  weak fairness is enough because tasks are submitted once.
* Redis expires keys; wall-clock time passes (`Age`).
* A dead pod is restarted (by Kubernetes) and its scan goes on.
* In `IngestionJobs`, polling clients reach every job that has timed out: without a
  poll nothing expires a job, and `EveryJobSettles` says so.
* In `ConnectorSync`, weak fairness of a tick that has selected, of a worker that
  has started, and of the expiry of the key: `setInterval` and the event loop of
  Node run what is ready, and calls to Google and SQL answer or raise.  Ticks
  themselves, requests and the drive owe nothing.
* Nothing is assumed of arriving work, cancellations, reviewers or
  reconciliations, nor, in `IngestQueue`, of Pub/Sub, polls or restarts.  Membership,
  releases and conversations are checked for safety only.

## 4. Where the code and its own words differ

One run ends in a counterexample, and `PROJECT.json` (`findings`) quotes the words it
refutes.  `limiter_leak`: `INCR` and the first `EXPIRE` are two commands.  A worker
that dies between them leaves a counter without expiry; when it is full, every later
acquire rolls back without setting one, and the organisation stays locked out.

Observations met while modelling, without a run of their own:

* `services/ingestion-pipeline-service`: cancelling writes the record only, and the
  task goes on and may complete; a document that gating published has no review
  record when the submission fails afterwards, and stays published after a
  rejection; with Redis the slower of two requests overwrites the other, so that a
  record moves against the transition table; two racing first submissions create two
  review records, where `review.py:64` says "One record per document"; the worker
  starts a job of its own, so the ticket the client was given stays queued until it
  is reported failed.
* The clamp of `release_slot` ("never below 0") is a `DECR` and a `SET 0`; increments
  in between are forgotten, and their rollbacks and releases may then take the
  counter below zero.  Five handlers, a limit of one and one failed command leave
  an idle counter at -2, which lets extra handlers in until the key expires.
* The retry loop of the store call also repeats a 4xx, although its comment says
  "Non-retryable errors — fail immediately" (`StoreRefused`); the Pub/Sub callback
  has no event loop, so that with a Pub/Sub subscriber every message ends among the
  dead letters (`Nack`); a process with an in-memory publisher and a Pub/Sub
  subscriber has nobody to empty its queue, and `PostAnswered` excludes that
  combination.
* `apps/agentic/server`: for connectors other than Google Drive the scheduler inserts
  a record that says "running" and starts nothing; a file added between the first
  listing and the start token is in neither; a sync that runs while its connector is
  connected to another folder stores a token behind which files of that folder are not
  looked for; sockets that open before Redis is ready leave their pod without a
  subscription until the last of them has gone; the route of pending reviews ignores the
  stream and ends at 100, so a stream may pass `review_queue` with reviews pending;
  `admin.ts:3277` speaks of removing the assignments of a deactivated member, and the
  code below it revokes invitations only.

## 5. What is proved

TLAPS checks the theorems below for every value of the constants that the named
assumptions admit (`LimiterAssumption`, `JobsAssumption`, `ReviewAssumption`,
`QueueAssumption`, `ConnectorAssumption`, `MembershipAssumption`,
`ReleasesAssumption`, `ChannelAssumption` and `ConversationAssumption`): any number
of handlers, jobs, pods, requests, records, messages, calls, retries, crashes and
failures.  `SYMMETRY`, the caps and the model values of the runs play no part.

**Limiter** (`ConcurrencyLimiterProofs`).  `TypeCorrect`, `TenantLimitHolds`,
`CounterCovers`, `SemaphoreRefinement`, `LeaksAreFailures`, `LeaksExpire`.  The limit
alone is not inductive: a handler is let through on the value its own `INCR` returned.
`IInv` adds that, as long as no command has failed, nobody fails open or clamps, the
counter is at least the number of live increments (`Counted`), and at most `MaxPerOrg`
of these were answered with a slot (`Slotted`).  An `INCR` that returns at most the
limit then proves that fewer than `MaxPerOrg` slots were given out before it.
`TenantLimitHolds`, `CounterCovers` and the refinement need `~ExpiryRaces`: a key that
expires in the middle of an acquire forgets increments. `LeaksAreFailures` does not:
forgetting only lowers the counter.  `LeaksExpire` does not either; its invariant
`Expiring` adds that a missing key reads as zero, so that the increment that creates one
returns 1 and goes on to the `EXPIRE`.

**Jobs** (`IngestionJobsProofs`).  `IInv` is the type invariant and six named
parts.  `Untouched`: nothing refers to a job that was not submitted.
`IdsKnown`: the job object has a document id exactly from the answer of the
store call on, and it is one of the stored documents.  `ReviewedFirst`: a task
that goes on to report success has its review record.  `RecordsBacked`: only a
terminal record names a document, and a completed one names the document under
review.  It is what makes a stale copy harmless: a handler reads non-terminal
records only, so its copy names no document and says "failed" or "cancelled".
`OneReviewPerJob` and `DuplicatesOnlyFromLostCalls` complete it.  From it follow
`CompletedBacked`, `DuplicatesBounded`, `OneReview`, the action properties
`SettledForGood` and `RevivedByOwnTask`, and `IntakeRefinement`: each step is a
step of `KnowledgeIntake` for every job at once (several move when a pod dies).
`TasksAdvance` is the variant of a task: `StepsLeft`, a number made of its stage and the
attempts it has left, falls with each of its steps and rises with no step of anybody.

**Review** (`ReviewWorkflowProofs`).  `IInv` is the type invariant,
`IndexBacked` (the document index names a record that exists), `CopiesConsistent`
(what a request is about to save is consistent in itself, whatever the store
holds by then: this is why racing saves cannot break `RecordsConsistent`),
`PushesNamed`, `RowsLeft` and `RecordsConsistent`.  `DecisionsFit` follows.  For
the in-memory store `Serial` is added: one writer at a time (`OneWriter`), only
the indexed record exists (`OnlyIndexed`), and a pending copy is a legal
successor of the record it was read from (`CopiesFollow`).  `OneRecord`,
`MemoryIsLegal` and `MemoryKeepsTrail` follow.  `Repairs` is for any number of
reconciliations, where the run has one: once one has started with everything else
over (`Undisturbed`) and its lists reach the record, no record changes any more
(`Over`), the rows all of them have collected stay true (`RowsTrue`), and the only
record agrees with the document, is in a list still to be read, or is among the rows
(`Covered`).

**Queue** (`IngestQueueProofs`).  `TypeCorrect`, `OnePlaceHolds`,
`StartedAtMostOnce`, `DeadOnlyAfterAll`.  The invariant adds `HandKnown` (a loop at
work is at work on a message) and `Placed`: the places have no message in common
(`Apart`), a line holds none twice, what a callback holds is in the subscription, and
a message is nowhere until its publication and somewhere once it was answered
(`Published`).  `DeliveryRefinement` maps every step to one of `MessageDelivery` or to
none; `Apart` makes "in hand or in line" lose exactly the message that begins.
`QueueDrains` is the variant of the in-memory queue for a finite set of messages:
`QueueLeft`, from the requests that are still to publish (`Unposted`) and the steps of
what is in line and in hand (`StepsInHand`), falls with each step of a loop.

**Connectors** (`ConnectorSyncProofs`).  `TypeCorrect`, `ExclusionHolds`,
`NothingSkipped`, `RowsAreLive`, `TokenNeverBack`.  The invariant is the type
invariant, `Owned` (a scheduled worker belongs to a pod, and only such a worker releases the
lock), `ScheduledExclusion`, `Accounted` (every change up to a token that is stored,
or that a snapshot, a request or a worker carries, is delivered or given up; of a
worker that uploads, up to what it has listed), `RowsFollow` (where a worker may be
while its record says "running") and `Ahead` (as long as Redis answers and nobody
asks, what a worker is about to store is not older than what is stored).  `NothingSkipped`
holds through expiry, lost renewals, reconnections and overlapping manual syncs: it rests
on what a sync listed, never on the lock.  `ContractRefinement` puts these together:
each step is a step of `ConnectorContract`, for any number of pods, syncs and requests.
It adds that nothing is accounted for which the drive has not shown (`Seen`), and that a
sync record exists before its worker does (`RowFirst`), without which a sync could begin
twice.  `SyncsAdvance` and `TicksAdvance` are variants: the steps a worker has left,
with the files it has still to upload, and the steps left of a tick (`TickLeft`) fall
with each step of theirs, whatever the other pods, the router and the drive do.

**Membership** (`KnowledgeMembershipProofs`).  `TypeCorrect`, `CopiesAgree`,
`AcceptingKeepsRank`, `NoSecondInvite`, `ApprovalHasInvite`, `InvitationsTellTruth`,
`NoInviteOutlivesManager`.  The common part is `Types` (with `Referring`: what the
fields of a call, an invitation and a request refer to) and `Copies`: `Alone`, a
call that overlapped no other is the only open one, so it finds what it left
(`Undisturbed`), and the copies differ only behind a call in between (`Together`).
`Invited` adds that a call about to insert looked and found nothing (`Searched`) and
that a call about to approve has an invitation (`Decided`); `Honest` that a status
is untrue only while its acceptance is under way; `Sending` and `Out` that a
deactivation has revoked the invitations or is about to.

**Releases** (`KnowledgeReleasesProofs`).  `TypeCorrect`, `GateNotBypassed`,
`GateBacked`, `OneReleasePromoted`.  For the gate, `IInv` adds that a call at work has
a target (`TargetsKnown`), that an idle one carries nothing (`IdleIsEmpty`), that
evidence is what held during the call, or a lenient check whose source failed or was cut
short (`EvidenceCurrent`) and that the target of a
change past the gate has passed it (`TargetsGated`).  `OneInv` is for `OnePromoted`: a
call nobody disturbs is the only one (`AloneIsAlone`), what it read is still so
(`AloneReadsTrue`), what it will retire is what else was promoted (`OthersKnown`), and
without an overlap or a change underway the releases are settled.

**Conversations** (`ConversationProofs`).  `TypeCorrect`, `ToldStored`,
`PlaceholdersReplaced`, `EvidenceAlwaysFits`, `StoredReplyStands`, `TurnRefinement`,
`SubscriptionFollows`, `AudienceAlwaysHears`.  The four after the first rest on what the
rows of a turn may be at each place of its path, `SubscriptionFollows` on which sockets
a pod may still keep, and `AudienceAlwaysHears` on the audience being connected to
subscribed pods. `TurnRefinement` needs one more fact, `Kept`: the rows of an answer are
there from the insertion of the placeholder on, as long as the conversation is, unless a
deletion has taken them (`cut`); so a failure path that overwrites a reply overwrites
one that is still there.  The statements of a deletion disturb nothing else: each takes
rows only, and the rows of an answer go no later than the answer.

**The contracts themselves.**  A refinement is worth what the abstract specification
promises, so that is proved too, from the contract alone and none of the invariants of the
component: `ContractReports` (`KnowledgeIntake`), `ContractDelivers` (`MessageDelivery`),
`ContractAccountsForAll` (`ConnectorContract`) and `ContractTellsTruth` (`TurnContract`).
With the refinements they give the main safety properties of the components a second
time, by an argument a reader can follow in a page each.

**Only model-checked**: liveness (`LimitReleased`, `EveryJobSettles`,
`EveryTaskEnds`, `PostAnswered`, `LockReleased`, `SyncEnds`), which needs fairness
and `ENABLED` and is out of the prover's reach.  Half of each argument is a theorem: what
makes a counter come down (`LeaksExpire`), and that the steps which fairness grants
lead somewhere (`TasksAdvance` for `EveryTaskEnds`, `SyncsAdvance` for `SyncEnds`,
`TicksAdvance` for `LockReleased`, `QueueDrains` for `PostAnswered`).  That one of these
steps is always possible and is taken stays with the runs.

**Not modelled**.  In the modelled components: the expiry of job records (72 h) and
review records (30 days); the index set of the job store beside its hash;
statistics, listings and SLA queries; the text, its chunks and its scores;
authentication and scope checks of routes; the in-memory job store and limiter of a
single process, whose operations do not suspend; SQL statements that are carried out and
reported failed all the same (commands of Redis, calls over HTTP and publications do have
that outcome); folder filters and formats of the drive; a reconnection to another folder,
account or stream, and a stream given to a connector without one; the creation of
connectors and their quota; collections, feature flags and
overview pages of `admin.ts`; evaluation suites, attestations and the calls that
`knowledge.ts` passes on; the contents of the chat history, tool pairing and the
mode without a database; the handshake of web sockets and the job sockets.

The repository has about 186 000 lines of TypeScript in 666 files and the models
stand for some 4 000 of them (and for 2 200 lines of Python).  Most of the rest has no
behaviour a model could be about: about 110 000 lines are React components, pages and
styles of the client, the showcase and the packages; the large routers consist of
listings, aggregations, input schemas and prompts around the few procedures that are
modelled; service and model clients are I/O wrappers whose failures are the failures of
the calls in the models; the schema, its migrations and the fixtures are data.

## 6. Plan

The order was: the limiter (smallest, with the one abstract specification
everything else rests its slots on), the job lifecycle (the core), the review
workflow, the queue; then the web server: connectors, membership, releases,
conversations with their channel, each with its theorems.  What is left, in this
order:

1. Proofs: contracts for the review workflow (legal transitions of one record with
   the in-memory store), for membership and for releases, in the manner of
   `ConnectorContract`; a variant of a reconciliation.
2. `DocumentVersions`: `detect` and `record_version` are two steps of concurrent
   tasks of one source (`domain/versioning.py`), with "Monotonically increasing"
   version numbers to hold against both.
3. `ConversationMemory`: read-modify-write of sessions in Redis and invalidation of
   the semantic cache (orchestrator).
4. Attestations and evaluation suites of `knowledge.ts` as sources of the gate; the
   creation of connectors under their quota.
5. `HkiEnvelope` (`packages/hki-runtime`): validation, cache keys and gateway
   decisions as operators, checked against a reference definition over bounded
   inputs, with isolation of cache keys between tenants as the theorem.
6. The migration runner (`apps/agentic/server/_core/migration-runner.ts`), the
   client's upload pipeline (`useIngestPipeline.ts`), and the scheduler's dispatcher,
   which resembles the queue.

Each comes with one passing run, properties aimed at the hazards of its component,
and the invariant as a theorem once TLC agrees with it.
