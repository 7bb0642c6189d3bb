----------------------------- MODULE ConnectorSync -----------------------------
(***************************************************************************)
(* The synchronisation of one knowledge connector                          *)
(* (apps/agentic/server/connectors/sync-scheduler.ts,                      *)
(* connectors/google-drive-sync.ts and the router connectors.ts).  Every   *)
(* pod of the web server runs a scheduler; a Redis key with an expiry is   *)
(* meant to keep two pods from syncing the connector at once.  A user may  *)
(* also ask for a sync, pause, resume, reconnect or delete the connector,  *)
(* and the files of the drive change meanwhile.  Every database statement, *)
(* Redis command and call to Google or to the pipeline is a step of its    *)
(* own.                                                                    *)
(***************************************************************************)
EXTENDS Integers, FiniteSets

CONSTANTS Pods,        \* processes of the web server
          NoPod,       \* the lock key does not exist
          Requests,    \* manual requests (triggerSync)
          Syncs,       \* sync records that may be inserted
          Kinds,       \* which connectors to start from
          PauseAt,     \* consecutive failures that pause a connector (5)
          MaxChanges,  \* bound: changes made in the drive
          MaxMishaps   \* bound: Redis commands that fail (renewals included),
                       \* pods that die, database statements and dispatches
                       \* that raise

ASSUME ConnectorAssumption ==
  /\ NoPod \notin Pods
  /\ Syncs \subseteq Nat
  /\ Kinds \subseteq {"google_drive", "generic", "unassigned"}
  /\ PauseAt \in Nat \ {0}
  /\ MaxChanges \in Nat
  /\ MaxMishaps \in Nat

VARIABLES
  kind,       \* connector.type; "unassigned" has no value stream either
  status,     \* connector.status, "deleted" once the row is gone
  errors,     \* connector.consecutiveErrors, counted up to PauseAt
  token,      \* connector.lastSyncToken: the changes up to it are accounted for
  age,        \* age of connector.lastSyncAt: 0 cooling down, 1 cooled, 2 due
  head,       \* the drive: number of the latest change, each of a new file
  delivered,  \* changes whose file the pipeline accepted
  missed,     \* history: files a completed sync could not upload, and files
              \* added between the first listing and the token that follows it
  lock,       \* the pod that set sync:lock:{connector}, or NoPod
  local,      \* per pod: _inProcessLocks has the connector
  tick,       \* per pod: where the scheduler's tick is
  snapshot,   \* per pod: token and errors the tick selected
  asked,      \* per request: where triggerSync is
  askedToken, \* per request: lastSyncToken it read
  row,        \* per sync: knowledgeConnectorSyncs.status
  at,         \* per sync: where its execution is
  work,       \* per sync: pod, what started it, options.lastSyncToken,
              \* newSyncToken, files listed, done and failed, errors read, and
              \* whether the catch clause has been entered
  faults, crashes, dbErrors

connector == <<kind, status, errors, token, age>>
drive == <<head, delivered, missed>>
locks == <<lock, local>>
scheduler == <<tick, snapshot>>
manual == <<asked, askedToken>>
records == <<row, at, work>>
budgets == <<faults, crashes, dbErrors>>
vars == <<connector, drive, locks, scheduler, manual, records, budgets>>

\* lastSyncToken is null: the next sync lists the whole folder.
NoToken == -1
Tokens == 0..MaxChanges \cup {NoToken}
NoSnapshot == [token |-> NoToken, errors |-> 0]
NoWork == [pod |-> NoPod, how |-> "none", from |-> NoToken, new |-> NoToken,
           listed |-> {}, done |-> {}, failed |-> {}, errors |-> 0,
           caught |-> FALSE]

\* Where executeGoogleDriveSync (from "list" on) or the part of triggerSync
\* after the insertion ("parse", "post") may be.
Live == {"parse", "post", "list", "token", "upload", "record", "fail",
         "count", "failWrite", "release"}
Running(s) == at[s] \in Live
Scheduled(s) == Running(s) /\ work[s].how = "schedule"

\* The pods whose lock heartbeat is running.
Heartbeating ==
  \/ \E p \in Pods : tick[p] \in {"locked", "release"}
  \/ \E s \in Syncs : Scheduled(s)

Init ==
  /\ kind \in Kinds
  /\ status = "active" /\ errors = 0 /\ token = NoToken /\ age = 2
  /\ head = 0 /\ delivered = {} /\ missed = {}
  /\ lock = NoPod /\ local = [p \in Pods |-> FALSE]
  /\ tick = [p \in Pods |-> "idle"]
  /\ snapshot = [p \in Pods |-> NoSnapshot]
  /\ asked = [r \in Requests |-> "idle"]
  /\ askedToken = [r \in Requests |-> NoToken]
  /\ row = [s \in Syncs |-> "none"]
  /\ at = [s \in Syncs |-> "none"]
  /\ work = [s \in Syncs |-> NoWork]
  /\ faults = 0 /\ crashes = 0 /\ dbErrors = 0

\* The next sync record to insert: ids are serial.
Fresh(s) == row[s] = "none" /\ \A t \in Syncs : t < s => row[t] # "none"

goto(s, l) == at' = [at EXCEPT ![s] = l]

\* A tick that dispatched a sync or released the lock has nothing to remember.
rest(p) == tick' = [tick EXCEPT ![p] = "idle"]
           /\ snapshot' = [snapshot EXCEPT ![p] = NoSnapshot]
tickTo(p, l) == tick' = [tick EXCEPT ![p] = l] /\ UNCHANGED snapshot

\* What follows the worker: .finally releases the lock of a scheduled sync.
leave(s) ==
  IF work[s].how = "schedule"
  THEN goto(s, "release")
       /\ work' = [work EXCEPT ![s] =
                     [NoWork EXCEPT !.pod = work[s].pod, !.how = "schedule"]]
  ELSE goto(s, "done") /\ work' = [work EXCEPT ![s] = NoWork]

Budget == faults + crashes + dbErrors < MaxMishaps
OneFault == Budget /\ faults' = faults + 1 /\ UNCHANGED <<crashes, dbErrors>>
OneDbError == Budget /\ dbErrors' = dbErrors + 1 /\ UNCHANGED <<faults, crashes>>

OneMore(n) == IF n < PauseAt THEN n + 1 ELSE PauseAt

\* UPDATE ... WHERE id = ...: without effect once the row is gone; the sync
\* records go with their connector (ON DELETE CASCADE).
SetRow(s, v) == row' = IF row[s] = "gone" THEN row ELSE [row EXCEPT ![s] = v]
SetConnector(st, e, t, a) ==
  IF status = "deleted" THEN UNCHANGED connector
  ELSE status' = st /\ errors' = e /\ token' = t /\ age' = a /\ UNCHANGED kind

-----------------------------------------------------------------------------
(* The scheduler: tick *)

\* SELECT of the active connectors, and the due test on what it returned.
Select(p) ==
  /\ tick[p] = "idle"
  /\ status = "active" /\ age = 2
  /\ tick' = [tick EXCEPT ![p] = "selected"]
  /\ snapshot' = [snapshot EXCEPT ![p] = [token |-> token, errors |-> errors]]
  /\ UNCHANGED <<connector, drive, locks, manual, records, budgets>>

\* Faulty variant: SET without NX.
AcquireAlways(p) ==
  /\ tick[p] = "selected"
  /\ lock' = p /\ tickTo(p, "locked")
  /\ UNCHANGED <<connector, drive, local, manual, records, budgets>>

\* acquireLock: SET NX EX.
AcquireLock(p) ==
  /\ tick[p] = "selected"
  /\ IF lock = NoPod THEN lock' = p /\ tickTo(p, "locked")
                     ELSE UNCHANGED lock /\ rest(p)
  /\ UNCHANGED <<connector, drive, local, manual, records, budgets>>

\* acquireLock when the command raises: the set of this process decides.
AcquireLocally(p) ==
  /\ tick[p] = "selected"
  /\ OneFault
  /\ IF local[p] THEN UNCHANGED local /\ rest(p)
                 ELSE local' = [local EXCEPT ![p] = TRUE] /\ tickTo(p, "locked")
  /\ UNCHANGED <<connector, drive, lock, manual, records>>

\* A connector without a value stream is paused.
PauseUnassigned(p) ==
  /\ tick[p] = "locked"
  /\ kind = "unassigned"
  /\ SetConnector("paused", OneMore(snapshot[p].errors), token, age)
  /\ tickTo(p, "release")
  /\ UNCHANGED <<drive, locks, manual, records, budgets>>

\* Faulty variant: the lock is released when the tick is over, not the sync.
DispatchUnlocks(p, s) ==
  /\ tick[p] = "locked"
  /\ kind = "google_drive" /\ status # "deleted"
  /\ Fresh(s)
  /\ row' = [row EXCEPT ![s] = "running"]
  /\ goto(s, "list")
  /\ work' = [work EXCEPT ![s] = [NoWork EXCEPT !.pod = p, !.how = "schedule",
                                                !.from = snapshot[p].token]]
  /\ tickTo(p, "release")
  /\ UNCHANGED <<connector, drive, locks, manual, budgets>>

\* INSERT of the sync record, then executeGoogleDriveSync in the background.
Dispatch(p, s) ==
  /\ tick[p] = "locked"
  /\ kind = "google_drive" /\ status # "deleted"
  /\ Fresh(s)
  /\ row' = [row EXCEPT ![s] = "running"]
  /\ goto(s, "list")
  /\ work' = [work EXCEPT ![s] = [NoWork EXCEPT !.pod = p, !.how = "schedule",
                                                !.from = snapshot[p].token]]
  /\ rest(p)
  /\ UNCHANGED <<connector, drive, locks, manual, budgets>>

\* Every other type: the record is inserted and nothing runs.
DispatchOther(p, s) ==
  /\ tick[p] = "locked"
  /\ kind = "generic" /\ status # "deleted"
  /\ Fresh(s)
  /\ row' = [row EXCEPT ![s] = "running"]
  /\ tickTo(p, "release")
  /\ UNCHANGED <<connector, drive, locks, manual, at, work, budgets>>

\* The pause, the insertion, the credentials or the signing of the token raise:
\* the lock is released, and a record that was inserted stays.  (Bound: when
\* Syncs is used up the insertion raises.)
DispatchRaises(p) ==
  /\ tick[p] = "locked"
  /\ tickTo(p, "release")
  /\ \/ /\ kind # "unassigned"
        /\ status = "deleted" \/ \A s \in Syncs : row[s] # "none"
        /\ UNCHANGED <<row, budgets>>
     \/ OneDbError /\ UNCHANGED row
     \/ /\ kind # "unassigned" /\ status # "deleted"
        /\ OneDbError
        /\ \E s \in Syncs : Fresh(s) /\ row' = [row EXCEPT ![s] = "running"]
  /\ UNCHANGED <<connector, drive, locks, manual, at, work>>

\* releaseLock deletes the key, whoever set it; the set of the process is
\* touched only when the command raises.
Unlock(p) ==
  \/ lock' = NoPod /\ UNCHANGED <<local, budgets>>
  \/ OneFault /\ local' = [local EXCEPT ![p] = FALSE] /\ UNCHANGED lock

ReleaseTick(p) ==
  /\ tick[p] = "release"
  /\ Unlock(p)
  /\ rest(p)
  /\ UNCHANGED <<connector, drive, manual, records>>

\* Faulty variant: SET NX without EX.
NeverExpires ==
  /\ FALSE
  /\ UNCHANGED vars

\* The key expires LOCK_TTL_SECONDS after its last renewal.
Expire ==
  /\ lock # NoPod /\ ~Heartbeating
  /\ lock' = NoPod
  /\ UNCHANGED <<connector, drive, local, scheduler, manual, records, budgets>>

\* The renewals fail: the heartbeat logs it and the sync goes on.
RenewalsFail ==
  /\ lock # NoPod /\ Heartbeating
  /\ OneFault
  /\ lock' = NoPod
  /\ UNCHANGED <<connector, drive, local, scheduler, manual, records>>

\* The timeout of an in-process lock.
LocalTimeout(p) ==
  /\ local[p]
  /\ local' = [local EXCEPT ![p] = FALSE]
  /\ UNCHANGED <<connector, drive, lock, scheduler, manual, records, budgets>>

-----------------------------------------------------------------------------
(* executeGoogleDriveSync *)

\* Without a token listDriveFiles answers with all files, and no token yet.
ListAll(s) ==
  /\ at[s] = "list" /\ work[s].from = NoToken
  /\ work' = [work EXCEPT ![s].listed = 1..head]
  /\ goto(s, "token")
  /\ UNCHANGED <<connector, drive, locks, scheduler, manual, row, budgets>>

\* listChangedFiles answers with the changes after the token and a new token.
ListChanged(s) ==
  /\ at[s] = "list" /\ work[s].from # NoToken
  /\ work' = [work EXCEPT ![s].listed = {c \in 1..head : c > work[s].from},
                          ![s].new = head]
  /\ goto(s, "upload")
  /\ UNCHANGED <<connector, drive, locks, scheduler, manual, row, budgets>>

\* getStartPageToken, after the listing: what was added between is in neither.
ReadStartToken(s) ==
  /\ at[s] = "token"
  /\ work' = [work EXCEPT ![s].new = head]
  /\ missed' = missed \cup ((1..head) \ work[s].listed)
  /\ goto(s, "upload")
  /\ UNCHANGED <<connector, head, delivered, locks, scheduler, manual, row,
                 budgets>>

Todo(s) == work[s].listed \ (work[s].done \cup work[s].failed)

\* Download and upload of one file; a batch is over when all its files are.
UploadAccepted(s) ==
  /\ at[s] = "upload"
  /\ \E c \in Todo(s) :
       /\ work' = [work EXCEPT ![s].done = @ \cup {c}]
       /\ delivered' = delivered \cup {c}
  /\ UNCHANGED <<connector, head, missed, locks, scheduler, manual, row, at,
                 budgets>>

\* The download or the upload fails, or the pipeline accepted it and the answer
\* was lost.
UploadFailed(s) ==
  /\ at[s] = "upload"
  /\ \E c \in Todo(s) :
       /\ work' = [work EXCEPT ![s].failed = @ \cup {c}]
       /\ delivered' \in {delivered, delivered \cup {c}}
  /\ UNCHANGED <<connector, head, missed, locks, scheduler, manual, row, at,
                 budgets>>

AllFailed(s) == work[s].failed = work[s].listed /\ work[s].listed # {}

\* Faulty variant: a sync with a failed file is not settled.
SettleOnlyClean(s) ==
  /\ at[s] = "upload" /\ work[s].done = work[s].listed
  /\ SetRow(s, "completed")
  /\ goto(s, "record")
  /\ UNCHANGED <<connector, drive, locks, scheduler, manual, work, budgets>>

\* updateSyncRecord(finalStatus): failed only if every file failed.
Settle(s) ==
  /\ at[s] = "upload" /\ Todo(s) = {}
  /\ SetRow(s, IF AllFailed(s) THEN "failed" ELSE "completed")
  /\ goto(s, IF AllFailed(s) THEN "count" ELSE "record")
  /\ missed' = IF AllFailed(s) THEN missed ELSE missed \cup work[s].failed
  /\ UNCHANGED <<connector, head, delivered, locks, scheduler, manual, work,
                 budgets>>

\* updateConnectorRecord(success = true)
RecordSuccess(s) ==
  /\ at[s] = "record"
  /\ SetConnector(status, 0, work[s].new, 0)
  /\ leave(s)
  /\ UNCHANGED <<drive, locks, scheduler, manual, row, budgets>>

\* A call to Google or a statement raises; the catch clause takes over.
WorkRaises(s) ==
  /\ ~work[s].caught
  /\ \/ at[s] \in {"list", "token"} /\ UNCHANGED budgets
     \/ at[s] \in {"upload", "record", "count", "failWrite"} /\ OneDbError
  /\ goto(s, "fail")
  /\ work' = [work EXCEPT ![s].caught = TRUE]
  /\ UNCHANGED <<connector, drive, locks, scheduler, manual, row>>

RecordFailure(s) ==
  /\ at[s] = "fail"
  /\ SetRow(s, "failed")
  /\ goto(s, "count")
  /\ UNCHANGED <<connector, drive, locks, scheduler, manual, work, budgets>>

\* updateConnectorRecord(success = false) reads the counter ...
CountErrors(s) ==
  /\ at[s] = "count"
  /\ work' = [work EXCEPT ![s].errors = errors]
  /\ goto(s, "failWrite")
  /\ UNCHANGED <<connector, drive, locks, scheduler, manual, row, budgets>>

\* Faulty variant: the new token is stored after a failure too.
FailureAdvances(s) ==
  /\ at[s] = "failWrite"
  /\ SetConnector(status, OneMore(work[s].errors), work[s].new, 0)
  /\ leave(s)
  /\ UNCHANGED <<drive, locks, scheduler, manual, row, budgets>>

\* ... and writes it back: revoked on a credential error, paused at the limit.
WriteFailure(s) ==
  /\ at[s] = "failWrite"
  /\ LET count == OneMore(work[s].errors) IN
       \/ SetConnector(IF count >= PauseAt THEN "paused" ELSE status, count, token, 0)
       \/ SetConnector("revoked", count, token, 0)
  /\ leave(s)
  /\ UNCHANGED <<drive, locks, scheduler, manual, row, budgets>>

\* A statement of the catch clause itself raises.
FailureLost(s) ==
  /\ at[s] \in {"fail", "count", "failWrite"} /\ work[s].caught
  /\ OneDbError
  /\ leave(s)
  /\ UNCHANGED <<connector, drive, locks, scheduler, manual, row>>

ReleaseSync(s) ==
  /\ at[s] = "release"
  /\ Unlock(work[s].pod)
  /\ goto(s, "done")
  /\ work' = [work EXCEPT ![s] = NoWork]
  /\ UNCHANGED <<connector, drive, scheduler, manual, row>>

-----------------------------------------------------------------------------
(* triggerSync, update, delete *)

\* The row is read and enforceManualSyncGuardrails passes.
Ask(r) ==
  /\ asked[r] = "idle"
  /\ status = "active" /\ age >= 1
  /\ asked' = [asked EXCEPT ![r] = "read"]
  /\ askedToken' = [askedToken EXCEPT ![r] = token]
  /\ UNCHANGED <<connector, drive, locks, scheduler, records, budgets>>

answer(r) == asked' = [asked EXCEPT ![r] = "done"]
             /\ askedToken' = [askedToken EXCEPT ![r] = NoToken]

\* Refused if a sync record of the connector is "running", or it has no stream.
CheckRunning(r) ==
  /\ asked[r] = "read"
  /\ IF kind = "unassigned" \/ \E s \in Syncs : row[s] = "running"
     THEN answer(r)
     ELSE asked' = [asked EXCEPT ![r] = "clear"] /\ UNCHANGED askedToken
  /\ UNCHANGED <<connector, drive, locks, scheduler, records, budgets>>

\* INSERT of the sync record; no lock is taken.
InsertSync(r, p, s) ==
  /\ asked[r] = "clear"
  /\ status # "deleted" /\ Fresh(s)
  /\ row' = [row EXCEPT ![s] = "running"]
  /\ goto(s, IF kind = "google_drive" THEN "parse" ELSE "post")
  /\ work' = [work EXCEPT ![s] = [NoWork EXCEPT !.pod = p, !.how = "manual",
                                                !.from = askedToken[r]]]
  /\ answer(r)
  /\ UNCHANGED <<connector, drive, locks, scheduler, budgets>>

InsertRefused(r) ==
  /\ asked[r] = "clear"
  /\ status = "deleted"
  /\ answer(r)
  /\ UNCHANGED <<connector, drive, locks, scheduler, records, budgets>>

\* Reset of the error counter and of the status, then the worker starts.
StartManual(s) ==
  /\ at[s] = "parse"
  /\ SetConnector("active", 0, token, age)
  /\ goto(s, "list")
  /\ UNCHANGED <<drive, locks, scheduler, manual, row, work, budgets>>

\* Faulty variant: the record is left as it was inserted.
StartFailsSilently(s) ==
  /\ at[s] = "parse"
  /\ leave(s)
  /\ UNCHANGED <<connector, drive, locks, scheduler, manual, row, budgets>>

\* The credentials cannot be parsed. Neither the signing of the token before
\* nor the update of the record is guarded against raising.
StartFails(s) ==
  /\ at[s] = "parse"
  /\ \/ SetRow(s, "failed") /\ UNCHANGED budgets
     \/ OneDbError /\ UNCHANGED row
  /\ leave(s)
  /\ UNCHANGED <<connector, drive, locks, scheduler, manual>>

\* The other types post one URL: a refusal fails the record, an answer or an
\* exception leaves it as it is.
Post(s) ==
  /\ at[s] = "post"
  /\ SetRow(s, "failed") \/ UNCHANGED row
  /\ leave(s)
  /\ UNCHANGED <<connector, drive, locks, scheduler, manual, budgets>>

\* update with a status
Update(st) ==
  /\ status \notin {"deleted", st}
  /\ SetConnector(st, errors, token, age)
  /\ UNCHANGED <<drive, locks, scheduler, manual, records, budgets>>

\* The user authorises the drive again: /callback/complete of an existing
\* connector, for the folder it had.
Reconnect ==
  /\ kind = "google_drive" /\ status # "deleted"
  /\ status' = "active" /\ errors' = 0 /\ token' = NoToken /\ age' = 2
  /\ UNCHANGED <<kind, drive, locks, scheduler, manual, records, budgets>>

Delete ==
  /\ status # "deleted"
  /\ status' = "deleted" /\ errors' = 0 /\ token' = NoToken /\ age' = 0
  /\ row' = [s \in Syncs |-> IF row[s] = "none" THEN "none" ELSE "gone"]
  /\ UNCHANGED <<kind, drive, locks, scheduler, manual, at, work, budgets>>

-----------------------------------------------------------------------------
(* Time, the drive, and the death of a pod *)

Wait ==
  /\ age < 2 /\ status # "deleted"
  /\ age' = age + 1
  /\ UNCHANGED <<kind, status, errors, token, drive, locks, scheduler, manual,
                 records, budgets>>

Change ==
  /\ head < MaxChanges
  /\ head' = head + 1
  /\ UNCHANGED <<connector, delivered, missed, locks, scheduler, manual, records,
                 budgets>>

Crash(p) ==
  /\ Budget
  /\ crashes' = crashes + 1
  /\ rest(p)
  /\ local' = [local EXCEPT ![p] = FALSE]
  /\ LET mine == {s \in Syncs : Running(s) /\ work[s].pod = p} IN
       /\ at' = [s \in Syncs |-> IF s \in mine THEN "dead" ELSE at[s]]
       /\ work' = [s \in Syncs |-> IF s \in mine THEN NoWork ELSE work[s]]
  /\ UNCHANGED <<connector, drive, lock, manual, row, faults, dbErrors>>

TickStep(p) ==
  \/ AcquireLock(p) \/ AcquireLocally(p) \/ PauseUnassigned(p)
  \/ \E s \in Syncs : Dispatch(p, s) \/ DispatchOther(p, s)
  \/ DispatchRaises(p) \/ ReleaseTick(p)

SyncStep(s) ==
  \/ ListAll(s) \/ ListChanged(s) \/ ReadStartToken(s)
  \/ UploadAccepted(s) \/ UploadFailed(s) \/ Settle(s)
  \/ RecordSuccess(s) \/ WorkRaises(s) \/ RecordFailure(s)
  \/ CountErrors(s) \/ WriteFailure(s) \/ FailureLost(s) \/ ReleaseSync(s)
  \/ StartManual(s) \/ StartFails(s) \/ Post(s)

RequestStep(r) ==
  \/ Ask(r) \/ CheckRunning(r) \/ InsertRefused(r)
  \/ \E p \in Pods, s \in Syncs : InsertSync(r, p, s)

Next ==
  \/ \E p \in Pods : Select(p) \/ TickStep(p) \/ LocalTimeout(p) \/ Crash(p)
  \/ \E s \in Syncs : SyncStep(s)
  \/ \E r \in Requests : RequestStep(r)
  \/ Expire \/ RenewalsFail
  \/ Update("active") \/ Update("paused") \/ Reconnect \/ Delete
  \/ Wait \/ Change

\* A tick and a worker that has started take their next step: every call they
\* wait for is answered or times out, and Redis expires what is not renewed.
Fairness ==
  /\ \A p \in Pods : WF_vars(TickStep(p))
  /\ \A s \in Syncs : WF_vars(SyncStep(s))
  /\ WF_vars(Expire)

Spec == Init /\ [][Next]_vars
LiveSpec == Spec /\ Fairness

-----------------------------------------------------------------------------
(* Properties *)

WorkType ==
  [pod : Pods \cup {NoPod}, how : {"none", "schedule", "manual"}, from : Tokens,
   new : Tokens, listed : SUBSET (1..MaxChanges), done : SUBSET (1..MaxChanges),
   failed : SUBSET (1..MaxChanges), errors : 0..PauseAt, caught : BOOLEAN]

TypeOK ==
  /\ kind \in {"google_drive", "generic", "unassigned"}
  /\ status \in {"active", "paused", "revoked", "deleted"}
  /\ errors \in 0..PauseAt /\ token \in Tokens /\ age \in 0..2
  /\ head \in 0..MaxChanges
  /\ delivered \subseteq 1..MaxChanges /\ missed \subseteq 1..MaxChanges
  /\ lock \in Pods \cup {NoPod} /\ local \in [Pods -> BOOLEAN]
  /\ tick \in [Pods -> {"idle", "selected", "locked", "release"}]
  /\ snapshot \in [Pods -> [token : Tokens, errors : 0..PauseAt]]
  /\ asked \in [Requests -> {"idle", "read", "clear", "done"}]
  /\ askedToken \in [Requests -> Tokens]
  /\ row \in [Syncs -> {"none", "running", "completed", "failed", "gone"}]
  /\ at \in [Syncs -> Live \cup {"none", "done", "dead"}]
  /\ work \in [Syncs -> WorkType]
  /\ faults \in Nat /\ crashes \in Nat /\ dbErrors \in Nat

Holding(p) == tick[p] \in {"locked", "release"}

\* While every Redis command succeeds, one pod at a time works on the connector
\* by schedule, from taking the lock until its sync has released it, and the
\* key names that pod: the DEL of releaseLock never removes another pod's key.
\* A pod that dies leaves the key, and nobody, behind.
ScheduledExclusion ==
  faults = 0 =>
    /\ \A p \in Pods : Holding(p) => lock = p
    /\ \A s \in Syncs : Scheduled(s) => lock = work[s].pod
    /\ \A p \in Pods, s \in Syncs : ~(Holding(p) /\ Scheduled(s))
    /\ \A s, t \in Syncs : Scheduled(s) /\ Scheduled(t) => s = t

\* lastSyncToken never runs ahead of the pipeline: every change up to it was
\* accepted, or is one of those a completed sync gave up or a first listing
\* could not see.  It must hold through stale snapshots, overlapping manual and
\* scheduled syncs, failures and restarts, since the next sync starts there.
NothingSkippedSilently ==
  \A c \in 1..head : c <= token => c \in delivered \cup missed

\* Without a crash, a failed statement or a failed dispatch a record of a drive
\* sync that says "running" has a worker: otherwise triggerSync refuses for ever.
RunningRowsAreLive ==
  kind = "google_drive" /\ crashes = 0 /\ dbErrors = 0 =>
    \A s \in Syncs : row[s] = "running" => Running(s)

\* The row is as good as new: the next sync is due and lists the whole folder.
AsNew == status = "active" /\ errors = 0 /\ token = NoToken /\ age = 2

\* Scheduled syncs never move lastSyncToken backwards while the lock works,
\* even when a tick selected the connector before another pod's sync ended, or
\* before it was connected again: only that empties the token, and then the
\* whole row starts afresh.
TokenMonotone ==
  [][ (faults = 0 /\ \A r \in Requests : asked[r] = "idle") /\ status' # "deleted"
      => token' >= token \/ AsNew' ]_vars

\* A sync is open from its insertion until its last word to the connector.
Open == {s \in Syncs : Running(s) /\ at[s] # "release"}
Over == {s \in Syncs : at[s] \in {"release", "done", "dead"}}

\* Syncs may overlap once a Redis command has failed or somebody has asked.
Disturbed == faults > 0 \/ \E r \in Requests : asked[r] # "idle"

Contract == INSTANCE ConnectorContract WITH
  accounted <- delivered \cup missed, open <- Open, over <- Over,
  disturbed <- Disturbed, deleted <- status = "deleted"

\* The schedulers, the worker, the router and the lock together implement the
\* contract of a connector, through stale snapshots, overlapping syncs, failing
\* statements and pods that die: a sync begins once and on a connector that
\* exists, one runs at a time while nothing disturbs them, and the token moves
\* only to where everything is accounted for, or is emptied to start over.
ImplementsContract == Contract!Spec

\* The lock of a pod that died, or of a sync that ended, does not stay.
LockReleased == \A p \in Pods : lock = p ~> lock # p

\* A sync that starts comes to an end, whatever fails on its way.
SyncEnds == \A s \in Syncs : Running(s) ~> ~Running(s)

=============================================================================
