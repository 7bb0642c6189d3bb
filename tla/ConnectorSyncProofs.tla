------------------------- MODULE ConnectorSyncProofs -------------------------
(* Theorems about the synchronisation of a connector, for any number of pods, *)
(* manual requests, sync records, changes of the drive and mishaps.           *)
EXTENDS ConnectorSync, FiniteSetTheorems, TLAPS

USE DEF connector, drive, locks, scheduler, manual, records, budgets

-----------------------------------------------------------------------------
(* Types *)

LEMMA InitTypes == Init => TypeOK
<1> SUFFICES ASSUME Init PROVE TypeOK
  OBVIOUS
<1>1. NoSnapshot \in [token : Tokens, errors : 0..PauseAt] /\ NoWork \in WorkType
  BY ConnectorAssumption DEF NoSnapshot, NoWork, WorkType, Tokens, NoToken
<1> QED BY <1>1, ConnectorAssumption DEF Init, TypeOK, Tokens, NoToken

\* What the helpers of the module write has the type of its variable.
LEMMA HelperTypes ==
  ASSUME TypeOK
  PROVE  /\ NoSnapshot \in [token : Tokens, errors : 0..PauseAt]
         /\ NoWork \in WorkType
         /\ NoToken \in Tokens
         /\ \A n \in 0..PauseAt : OneMore(n) \in 0..PauseAt
         /\ head \in Tokens
         /\ 0..PauseAt \subseteq Nat
  BY ConnectorAssumption
  DEF TypeOK, NoSnapshot, NoWork, WorkType, Tokens, NoToken, OneMore

\* A mishap is counted.
LEMMA MishapTypes ==
  ASSUME TypeOK, OneFault \/ OneDbError \/ UNCHANGED budgets
  PROVE  faults' \in Nat /\ crashes' \in Nat /\ dbErrors' \in Nat
<1>1. CASE OneFault
  BY <1>1 DEF TypeOK, OneFault
<1>2. CASE OneDbError
  BY <1>2 DEF TypeOK, OneDbError
<1>3. CASE UNCHANGED budgets
  BY <1>3 DEF TypeOK
<1> QED BY <1>1, <1>2, <1>3

\* releaseLock touches the lock and the set of the process.
LEMMA UnlockTypes ==
  ASSUME TypeOK, NEW p, Unlock(p)
  PROVE  /\ lock' \in Pods \cup {NoPod} /\ local' \in [Pods -> BOOLEAN]
         /\ faults' \in Nat /\ crashes' \in Nat /\ dbErrors' \in Nat
<1>1. OneFault \/ UNCHANGED budgets
  BY DEF Unlock
<1>2. lock' \in Pods \cup {NoPod} /\ local' \in [Pods -> BOOLEAN]
  BY DEF TypeOK, Unlock
<1> QED BY <1>1, <1>2, MishapTypes

\* The fields of a worker that change on its way.
LEMMA WorkFields ==
  ASSUME NEW w \in WorkType, NEW n \in Tokens, NEW e \in 0..PauseAt,
         NEW l \in SUBSET (1..MaxChanges)
  PROVE  /\ [w EXCEPT !.listed = l] \in WorkType
         /\ [w EXCEPT !.listed = l, !.new = n] \in WorkType
         /\ [w EXCEPT !.new = n] \in WorkType
         /\ [w EXCEPT !.done = l] \in WorkType
         /\ [w EXCEPT !.failed = l] \in WorkType
         /\ [w EXCEPT !.errors = e] \in WorkType
         /\ [w EXCEPT !.caught = TRUE] \in WorkType
  BY DEF WorkType

\* A function that is changed at one place.
LEMMA WorkAt ==
  ASSUME work \in [Syncs -> WorkType], NEW s \in Syncs, NEW w \in WorkType
  PROVE  [work EXCEPT ![s] = w] \in [Syncs -> WorkType]
  OBVIOUS

LEMMA TickTypes ==
  ASSUME TypeOK, NEW p \in Pods, Select(p) \/ TickStep(p) \/ LocalTimeout(p) \/ Crash(p)
  PROVE  TypeOK'
<1> USE HelperTypes DEF TypeOK, rest, tickTo
<1>1. CASE Select(p)
  BY <1>1 DEF Select
<1>2. CASE AcquireLock(p)
  BY <1>2 DEF AcquireLock
<1>3. CASE AcquireLocally(p)
  <2>1. local' \in [Pods -> BOOLEAN] /\ tick' \in [Pods -> {"idle", "selected", "locked", "release"}]
        /\ snapshot' \in [Pods -> [token : Tokens, errors : 0..PauseAt]]
    BY <1>3, ZenonT(90) DEF AcquireLocally
  <2> QED BY <1>3, <2>1, MishapTypes DEF AcquireLocally
<1>4. CASE PauseUnassigned(p)
  BY <1>4 DEF PauseUnassigned, SetConnector
<1>5. ASSUME NEW s \in Syncs, Dispatch(p, s) PROVE TypeOK'
  <2>1. work' \in [Syncs -> WorkType]
    BY <1>5 DEF Dispatch, WorkType
  <2>2. at' \in [Syncs -> Live \cup {"none", "done", "dead"}]
    BY <1>5 DEF Dispatch, goto, Live
  <2> QED BY <1>5, <2>1, <2>2 DEF Dispatch
<1>6. ASSUME NEW s \in Syncs, DispatchOther(p, s) PROVE TypeOK'
  BY <1>6 DEF DispatchOther
<1>7. CASE DispatchRaises(p)
  <2>1. row' \in [Syncs -> {"none", "running", "completed", "failed", "gone"}]
    BY <1>7 DEF DispatchRaises
  <2>2. OneDbError \/ UNCHANGED budgets
    BY <1>7 DEF DispatchRaises
  <2> QED BY <1>7, <2>1, <2>2, MishapTypes DEF DispatchRaises
<1>8. CASE ReleaseTick(p)
  BY <1>8, UnlockTypes DEF ReleaseTick
<1>9. CASE LocalTimeout(p)
  BY <1>9 DEF LocalTimeout
<1>10. CASE Crash(p)
  <2>1. at' \in [Syncs -> Live \cup {"none", "done", "dead"}] /\ work' \in [Syncs -> WorkType]
    BY <1>10 DEF Crash
  <2> QED BY <1>10, <2>1 DEF Crash
<1> QED BY <1>1, <1>2, <1>3, <1>4, <1>5, <1>6, <1>7, <1>8, <1>9, <1>10 DEF TickStep

LEMMA LeaveTypes ==
  ASSUME TypeOK, NEW s \in Syncs, leave(s)
  PROVE  /\ at' \in [Syncs -> Live \cup {"none", "done", "dead"}]
         /\ work' \in [Syncs -> WorkType]
<1>1. [NoWork EXCEPT !.pod = work[s].pod, !.how = "schedule"] \in WorkType
  BY HelperTypes DEF TypeOK, WorkType
<1> QED BY <1>1, HelperTypes DEF TypeOK, leave, goto, Live

LEMMA SyncTypes ==
  ASSUME TypeOK, NEW s \in Syncs, SyncStep(s)
  PROVE  TypeOK'
<1> USE HelperTypes DEF TypeOK, goto, Live
<1>1. CASE ListAll(s)
  <2>1. work' = [work EXCEPT ![s] = [work[s] EXCEPT !.listed = 1..head]]
        /\ 1..head \in SUBSET (1..MaxChanges)
    BY <1>1, ConnectorAssumption DEF ListAll
  <2>2. work' \in [Syncs -> WorkType]
    BY <2>1, WorkFields, WorkAt
  <2> QED BY <1>1, <2>2 DEF ListAll
<1>2. CASE ListChanged(s)
  <2> DEFINE changes == {c \in 1..head : c > work[s].from}
  <2>1. work' = [work EXCEPT ![s].listed = changes, ![s].new = head]
    BY <1>2 DEF ListChanged
  <2>3. changes \in SUBSET (1..MaxChanges)
    BY ConnectorAssumption
  <2> HIDE DEF changes
  <2>4. work' = [work EXCEPT ![s] = [work[s] EXCEPT !.listed = changes, !.new = head]]
    BY <2>1
  <2>2. work' \in [Syncs -> WorkType]
    BY <2>3, <2>4, WorkFields, WorkAt
  <2> QED BY <1>2, <2>2 DEF ListChanged
<1>3. CASE ReadStartToken(s)
  <2>1. work' = [work EXCEPT ![s] = [work[s] EXCEPT !.new = head]]
    BY <1>3 DEF ReadStartToken
  <2>2. work' \in [Syncs -> WorkType]
    BY <2>1, WorkFields, WorkAt
  <2>3. missed' \subseteq 1..MaxChanges
    BY <1>3, ConnectorAssumption DEF ReadStartToken
  <2> QED BY <1>3, <2>2, <2>3 DEF ReadStartToken
<1>4. CASE UploadAccepted(s)
  <2>1. PICK c \in Todo(s) : /\ work' = [work EXCEPT ![s].done = @ \cup {c}]
                             /\ delivered' = delivered \cup {c}
    BY <1>4 DEF UploadAccepted
  <2>2. c \in 1..MaxChanges
    BY <2>1 DEF Todo, WorkType
  <2>3. work' = [work EXCEPT ![s] = [work[s] EXCEPT !.done = work[s].done \cup {c}]]
        /\ work[s].done \cup {c} \in SUBSET (1..MaxChanges)
    BY <2>1, <2>2 DEF WorkType
  <2>4. work' \in [Syncs -> WorkType]
    BY <2>3, WorkFields, WorkAt
  <2> QED BY <1>4, <2>1, <2>2, <2>4 DEF UploadAccepted
<1>5. CASE UploadFailed(s)
  <2>1. PICK c \in Todo(s) : /\ work' = [work EXCEPT ![s].failed = @ \cup {c}]
                             /\ delivered' \in {delivered, delivered \cup {c}}
    BY <1>5 DEF UploadFailed
  <2>2. c \in 1..MaxChanges
    BY <2>1 DEF Todo, WorkType
  <2>3. work' = [work EXCEPT ![s] = [work[s] EXCEPT !.failed = work[s].failed \cup {c}]]
        /\ work[s].failed \cup {c} \in SUBSET (1..MaxChanges)
    BY <2>1, <2>2 DEF WorkType
  <2>4. work' \in [Syncs -> WorkType]
    BY <2>3, WorkFields, WorkAt
  <2> QED BY <1>5, <2>1, <2>2, <2>4 DEF UploadFailed
<1>6. CASE Settle(s)
  <2>1. missed' \subseteq 1..MaxChanges
    BY <1>6 DEF Settle, WorkType
  <2> QED BY <1>6, <2>1 DEF Settle, SetRow
<1>7. CASE RecordSuccess(s)
  <2>1. token' \in Tokens /\ errors' \in 0..PauseAt /\ age' \in 0..2
        /\ status' \in {"active", "paused", "revoked", "deleted"} /\ UNCHANGED kind
    BY <1>7, ConnectorAssumption DEF RecordSuccess, SetConnector, WorkType
  <2> QED BY <1>7, <2>1, LeaveTypes DEF RecordSuccess
<1>8. CASE WorkRaises(s)
  <2>1. work' = [work EXCEPT ![s] = [work[s] EXCEPT !.caught = TRUE]]
        /\ (OneDbError \/ UNCHANGED budgets)
    BY <1>8 DEF WorkRaises
  <2>2. work' \in [Syncs -> WorkType]
    BY <2>1, WorkFields, WorkAt
  <2> QED BY <1>8, <2>1, <2>2, MishapTypes DEF WorkRaises
<1>9. CASE RecordFailure(s)
  BY <1>9 DEF RecordFailure, SetRow
<1>10. CASE CountErrors(s)
  <2>1. work' = [work EXCEPT ![s] = [work[s] EXCEPT !.errors = errors]]
    BY <1>10 DEF CountErrors
  <2>2. work' \in [Syncs -> WorkType]
    BY <2>1, WorkFields, WorkAt
  <2> QED BY <1>10, <2>2 DEF CountErrors
<1>11. CASE WriteFailure(s)
  <2>1. work[s].errors \in 0..PauseAt
    BY DEF WorkType
  <2>2. token' \in Tokens /\ errors' \in 0..PauseAt /\ age' \in 0..2
        /\ status' \in {"active", "paused", "revoked", "deleted"} /\ UNCHANGED kind
    BY <1>11, <2>1 DEF WriteFailure, SetConnector
  <2> QED BY <1>11, <2>2, LeaveTypes DEF WriteFailure
<1>12. CASE FailureLost(s)
  BY <1>12, LeaveTypes DEF FailureLost, OneDbError
<1>13. CASE ReleaseSync(s)
  BY <1>13, UnlockTypes DEF ReleaseSync
<1>14. CASE StartManual(s)
  BY <1>14, ConnectorAssumption DEF StartManual, SetConnector
<1>15. CASE StartFails(s)
  BY <1>15, LeaveTypes DEF StartFails, SetRow, OneDbError
<1>16. CASE Post(s)
  BY <1>16, LeaveTypes DEF Post, SetRow
<1> QED
  BY <1>1, <1>2, <1>3, <1>4, <1>5, <1>6, <1>7, <1>8, <1>9, <1>10, <1>11, <1>12,
     <1>13, <1>14, <1>15, <1>16 DEF SyncStep

LEMMA RequestTypes ==
  ASSUME TypeOK, NEW r \in Requests, RequestStep(r)
  PROVE  TypeOK'
<1> USE HelperTypes DEF TypeOK, answer
<1>1. CASE Ask(r)
  BY <1>1 DEF Ask
<1>2. CASE CheckRunning(r)
  BY <1>2 DEF CheckRunning
<1>3. CASE InsertRefused(r)
  BY <1>3 DEF InsertRefused
<1>4. ASSUME NEW p \in Pods, NEW s \in Syncs, InsertSync(r, p, s) PROVE TypeOK'
  <2>1. work' \in [Syncs -> WorkType]
    BY <1>4 DEF InsertSync, WorkType
  <2>2. at' \in [Syncs -> Live \cup {"none", "done", "dead"}]
    BY <1>4 DEF InsertSync, goto, Live
  <2> QED BY <1>4, <2>1, <2>2 DEF InsertSync
<1> QED BY <1>1, <1>2, <1>3, <1>4 DEF RequestStep

\* What neither a pod, a worker nor a request does.
WorldStep ==
  \/ Expire \/ RenewalsFail \/ Update("active") \/ Update("paused") \/ Reconnect
  \/ Delete \/ Wait \/ Change

LEMMA WorldTypes ==
  ASSUME TypeOK, WorldStep
  PROVE  TypeOK'
<1> USE HelperTypes DEF TypeOK
<1>1. CASE Expire
  BY <1>1 DEF Expire
<1>2. CASE RenewalsFail
  BY <1>2 DEF RenewalsFail, OneFault
<1>3. CASE Update("active") \/ Update("paused")
  BY <1>3 DEF Update, SetConnector
<1>4. CASE Delete
  BY <1>4, ConnectorAssumption DEF Delete
<1>7. CASE Reconnect
  BY <1>7, ConnectorAssumption DEF Reconnect
<1>5. CASE Wait
  BY <1>5 DEF Wait
<1>6. CASE Change
  BY <1>6, ConnectorAssumption DEF Change
<1> QED BY <1>1, <1>2, <1>3, <1>4, <1>5, <1>6, <1>7 DEF WorldStep

\* A step is one of a pod, a worker, a request or the world.
LEMMA Steps ==
  ASSUME Next
  PROVE  \/ \E p \in Pods : Select(p) \/ TickStep(p) \/ LocalTimeout(p) \/ Crash(p)
         \/ \E s \in Syncs : SyncStep(s)
         \/ \E r \in Requests : RequestStep(r)
         \/ WorldStep
  BY DEF Next, WorldStep

LEMMA TypeStep == TypeOK /\ [Next]_vars => TypeOK'
<1> SUFFICES ASSUME TypeOK, [Next]_vars PROVE TypeOK'
  OBVIOUS
<1>1. CASE Next
  BY <1>1, Steps, TickTypes, SyncTypes, RequestTypes, WorldTypes
<1>2. CASE UNCHANGED vars
  BY <1>2 DEF vars, TypeOK
<1> QED BY <1>1, <1>2
-----------------------------------------------------------------------------
(* One pod at a time *)

\* A scheduled worker belongs to a pod, and only scheduled ones release the lock.
Owned ==
  \A s \in Syncs :
    /\ Scheduled(s) => work[s].pod \in Pods
    /\ at[s] = "release" => work[s].how = "schedule"

\* Faults are counted and never forgotten.
LEMMA FaultsGrow ==
  ASSUME TypeOK, Next
  PROVE  faults' = 0 => faults = 0
<1>1. faults' = faults \/ faults' = faults + 1
  <2>1. ASSUME NEW p \in Pods, Select(p) \/ TickStep(p) \/ LocalTimeout(p) \/ Crash(p)
        PROVE  faults' = faults \/ faults' = faults + 1
    BY <2>1 DEF Select, TickStep, LocalTimeout, Crash, AcquireLock, AcquireLocally,
       PauseUnassigned, Dispatch, DispatchOther, DispatchRaises, ReleaseTick, Unlock,
       OneFault, OneDbError
  <2>2. ASSUME NEW s \in Syncs, SyncStep(s)
        PROVE  faults' = faults \/ faults' = faults + 1
    BY <2>2 DEF SyncStep, ListAll, ListChanged, ReadStartToken, UploadAccepted,
       UploadFailed, Settle, RecordSuccess, WorkRaises, RecordFailure, CountErrors,
       WriteFailure, FailureLost, ReleaseSync, StartManual, StartFails, Post, Unlock,
       OneFault, OneDbError
  <2>3. ASSUME NEW r \in Requests, RequestStep(r) PROVE faults' = faults
    BY <2>3 DEF RequestStep, Ask, CheckRunning, InsertRefused, InsertSync
  <2>4. CASE WorldStep
    BY <2>4 DEF WorldStep, Expire, RenewalsFail, OneFault, Update, Reconnect, Delete, Wait, Change
  <2> QED BY <2>1, <2>2, <2>3, <2>4, Steps
<1> QED BY <1>1 DEF TypeOK

\* A worker that takes a step was running, stays what it is while it runs, and
\* touches no other worker; only its last step touches the lock.
LEMMA WorkerStep ==
  ASSUME TypeOK, NEW s \in Syncs, SyncStep(s), ~ReleaseSync(s)
  PROVE  /\ lock' = lock /\ tick' = tick
         /\ Running(s)
         /\ \A t \in Syncs \ {s} : at'[t] = at[t] /\ work'[t] = work[t]
         /\ Running(s)' => work'[s].how = work[s].how /\ work'[s].pod = work[s].pod
         /\ at'[s] = "release" => work'[s].how = "schedule"
<1> USE DEF TypeOK, goto, Live, Running
<1>w. work[s] \in WorkType
  OBVIOUS
<1>l. ASSUME leave(s)
      PROVE  /\ \A t \in Syncs \ {s} : at'[t] = at[t] /\ work'[t] = work[t]
             /\ Running(s)' => work'[s].how = work[s].how /\ work'[s].pod = work[s].pod
             /\ at'[s] = "release" => work'[s].how = "schedule"
  <2>1. CASE work[s].how = "schedule"
    <3>1. /\ at' = [at EXCEPT ![s] = "release"]
          /\ work' = [work EXCEPT ![s] = [NoWork EXCEPT !.pod = work[s].pod, !.how = "schedule"]]
      BY <1>l, <2>1 DEF leave
    <3>2. work'[s].pod = work[s].pod /\ work'[s].how = "schedule"
      BY <3>1 DEF NoWork
    <3> QED BY <2>1, <3>1, <3>2
  <2>2. CASE work[s].how # "schedule"
    BY <1>l, <2>2 DEF leave
  <2> QED BY <2>1, <2>2
<1>1. CASE ListAll(s) \/ ListChanged(s) \/ ReadStartToken(s)
  BY <1>1, <1>w DEF ListAll, ListChanged, ReadStartToken, WorkType
<1>2. CASE UploadAccepted(s) \/ UploadFailed(s)
  BY <1>2, <1>w DEF UploadAccepted, UploadFailed, WorkType
<1>3. CASE Settle(s) \/ RecordFailure(s)
  BY <1>3 DEF Settle, RecordFailure
<1>4. CASE RecordSuccess(s) \/ WriteFailure(s) \/ FailureLost(s) \/ StartFails(s) \/ Post(s)
  BY <1>4, <1>l DEF RecordSuccess, WriteFailure, FailureLost, StartFails, Post
<1>5. CASE WorkRaises(s)
  BY <1>5, <1>w DEF WorkRaises, WorkType
<1>6. CASE CountErrors(s)
  BY <1>6, <1>w DEF CountErrors, WorkType
<1>7. CASE StartManual(s)
  BY <1>7 DEF StartManual
<1> QED BY <1>1, <1>2, <1>3, <1>4, <1>5, <1>6, <1>7 DEF SyncStep

LEMMA OwnedStep ==
  ASSUME TypeOK, Owned, Next
  PROVE  Owned'
<1> USE DEF Owned, Scheduled, Running, Live
<1>1. ASSUME NEW p \in Pods, Select(p) \/ TickStep(p) \/ LocalTimeout(p) \/ Crash(p)
      PROVE  Owned'
  <2>1. CASE UNCHANGED <<at, work>>
    BY <2>1
  <2>2. ASSUME NEW s \in Syncs, Dispatch(p, s) PROVE Owned'
    BY <2>2 DEF Dispatch, goto, NoWork, TypeOK
  <2>3. CASE Crash(p)
    BY <2>3 DEF Crash, TypeOK
  <2> QED
    BY <1>1, <2>1, <2>2, <2>3 DEF Select, TickStep, LocalTimeout, AcquireLock,
       AcquireLocally, PauseUnassigned, DispatchOther, DispatchRaises, ReleaseTick
<1>2. ASSUME NEW s \in Syncs, SyncStep(s) PROVE Owned'
  <2>1. CASE ReleaseSync(s)
    BY <2>1 DEF ReleaseSync, goto, NoWork, TypeOK
  <2>2. CASE ~ReleaseSync(s)
    BY <1>2, <2>2, WorkerStep
  <2> QED BY <2>1, <2>2
<1>3. ASSUME NEW r \in Requests, RequestStep(r) PROVE Owned'
  <2>1. CASE UNCHANGED <<at, work>>
    BY <2>1
  <2>2. ASSUME NEW p \in Pods, NEW s \in Syncs, InsertSync(r, p, s) PROVE Owned'
    BY <2>2 DEF InsertSync, goto, NoWork, TypeOK
  <2> QED BY <1>3, <2>1, <2>2 DEF RequestStep, Ask, CheckRunning, InsertRefused
<1>4. CASE WorldStep
  BY <1>4 DEF WorldStep, Expire, RenewalsFail, Update, Reconnect, Delete, Wait, Change
<1> QED BY <1>1, <1>2, <1>3, <1>4, Steps

LEMMA ExclusionStep ==
  ASSUME TypeOK, Owned, ScheduledExclusion, Next, faults' = 0
  PROVE  ScheduledExclusion'
<1>f. /\ \A p \in Pods : Holding(p) => lock = p
      /\ \A s \in Syncs : Scheduled(s) => lock = work[s].pod
      /\ \A p \in Pods, s \in Syncs : ~(Holding(p) /\ Scheduled(s))
      /\ \A s, t \in Syncs : Scheduled(s) /\ Scheduled(t) => s = t
      /\ faults = 0
  BY FaultsGrow DEF ScheduledExclusion
<1>o. \A s \in Syncs : Scheduled(s) => work[s].pod \in Pods
  BY DEF Owned
<1>u. ~OneFault
  BY <1>f DEF OneFault
<1> USE <1>f, <1>o, <1>u
<1> USE DEF ScheduledExclusion, Holding, Scheduled, Running, Live
<1>1. ASSUME NEW p \in Pods, Select(p) \/ TickStep(p) \/ LocalTimeout(p) \/ Crash(p)
      PROVE  ScheduledExclusion'
  <2> USE DEF TypeOK, rest, tickTo
  <2>1. CASE Select(p)
    BY <2>1 DEF Select
  <2>2. CASE AcquireLock(p)
    BY <2>2, ConnectorAssumption DEF AcquireLock
  <2>3. CASE AcquireLocally(p)
    BY <2>3 DEF AcquireLocally
  <2>4. CASE PauseUnassigned(p)
    BY <2>4 DEF PauseUnassigned
  <2>5. ASSUME NEW s \in Syncs, Dispatch(p, s) PROVE ScheduledExclusion'
    BY <2>5 DEF Dispatch, goto, NoWork
  <2>6. ASSUME NEW s \in Syncs, DispatchOther(p, s) PROVE ScheduledExclusion'
    BY <2>6 DEF DispatchOther
  <2>7. CASE DispatchRaises(p)
    BY <2>7 DEF DispatchRaises
  <2>8. CASE ReleaseTick(p)
    BY <2>8 DEF ReleaseTick, Unlock
  <2>9. CASE LocalTimeout(p)
    BY <2>9 DEF LocalTimeout
  <2>10. CASE Crash(p)
    BY <2>10 DEF Crash
  <2> QED BY <1>1, <2>1, <2>2, <2>3, <2>4, <2>5, <2>6, <2>7, <2>8, <2>9, <2>10 DEF TickStep
<1>2. ASSUME NEW s \in Syncs, SyncStep(s) PROVE ScheduledExclusion'
  <2>1. CASE ReleaseSync(s)
    <3>1. Scheduled(s)
      BY <2>1 DEF ReleaseSync, Owned
    <3>2. lock' = NoPod /\ tick' = tick
      BY <2>1 DEF ReleaseSync, Unlock
    <3>3. \A t \in Syncs \ {s} : ~Scheduled(t)
      BY <3>1
    <3>4. \A t \in Syncs : ~Scheduled(t)'
      BY <2>1, <3>3 DEF ReleaseSync, goto, TypeOK
    <3> QED BY <3>1, <3>2, <3>4
  <2>2. CASE ~ReleaseSync(s)
    <3>1. /\ lock' = lock /\ tick' = tick
          /\ \A t \in Syncs : Scheduled(t)' => Scheduled(t) /\ work'[t].pod = work[t].pod
      BY <1>2, <2>2, WorkerStep
    <3> QED BY <3>1
  <2> QED BY <2>1, <2>2
<1>3. ASSUME NEW r \in Requests, RequestStep(r) PROVE ScheduledExclusion'
  <2>1. CASE UNCHANGED <<at, work>>
    BY <1>3, <2>1 DEF RequestStep, Ask, CheckRunning, InsertRefused, InsertSync
  <2>2. ASSUME NEW p \in Pods, NEW s \in Syncs, InsertSync(r, p, s) PROVE ScheduledExclusion'
    <3>1. \A t \in Syncs : Scheduled(t)' => Scheduled(t) /\ work'[t].pod = work[t].pod
      BY <2>2 DEF InsertSync, goto, NoWork, TypeOK
    <3> QED BY <2>2, <3>1 DEF InsertSync
  <2> QED BY <1>3, <2>1, <2>2 DEF RequestStep, Ask, CheckRunning, InsertRefused
<1>4. CASE WorldStep
  BY <1>4 DEF WorldStep, Expire, RenewalsFail, Heartbeating, Update, Reconnect, Delete, Wait, Change
<1> QED BY <1>1, <1>2, <1>3, <1>4, Steps
-----------------------------------------------------------------------------
(* The token never runs ahead *)

\* Up to change n of the first h, every file is in d or m.
Cov(n, h, d, m) == n <= h /\ \A c \in 1..h : c <= n => c \in d \cup m
Covered(n) == Cov(n, head, delivered, missed)

\* Every token that is stored, or that somebody still carries, is covered; of a
\* worker that uploads, the new one by what it has listed, and of one that is
\* about to store it, all of it.
Accounted ==
  /\ Covered(token)
  /\ \A p \in Pods : Covered(snapshot[p].token)
  /\ \A r \in Requests : Covered(askedToken[r])
  /\ \A s \in Syncs :
       /\ Covered(work[s].from)
       /\ work[s].done \subseteq delivered
       /\ at[s] = "upload" =>
            Cov(work[s].new, head, work[s].listed \cup delivered, missed)
       /\ at[s] = "record" => Covered(work[s].new)

\* What a new change of the drive, a delivery or a file given up leaves covered.
LEMMA CoverGrows ==
  ASSUME NEW h \in Nat, NEW h2 \in Nat, NEW d, NEW d2, NEW m, NEW m2,
         h <= h2, d \subseteq d2, m \subseteq m2,
         NEW n \in Int, Cov(n, h, d, m)
  PROVE  Cov(n, h2, d2, m2)
  BY DEF Cov

LEMMA NothingCovered ==
  ASSUME TypeOK
  PROVE  Covered(NoToken)
  BY ConnectorAssumption DEF Covered, Cov, NoToken, TypeOK

\* No step takes a change, a delivery or a file given up back.
LEMMA DriveGrows ==
  ASSUME TypeOK, Next
  PROVE  head <= head' /\ delivered \subseteq delivered' /\ missed \subseteq missed'
<1>h. head \in Nat
  BY ConnectorAssumption DEF TypeOK
<1>1. ASSUME NEW p \in Pods, Select(p) \/ TickStep(p) \/ LocalTimeout(p) \/ Crash(p)
      PROVE  UNCHANGED drive
  BY <1>1 DEF Select, TickStep, LocalTimeout, Crash, AcquireLock, AcquireLocally,
     PauseUnassigned, Dispatch, DispatchOther, DispatchRaises, ReleaseTick
<1>2. ASSUME NEW s \in Syncs, SyncStep(s)
      PROVE  head' = head /\ delivered \subseteq delivered' /\ missed \subseteq missed'
  BY <1>2 DEF SyncStep, ListAll, ListChanged, ReadStartToken, UploadAccepted,
     UploadFailed, Settle, RecordSuccess, WorkRaises, RecordFailure, CountErrors,
     WriteFailure, FailureLost, ReleaseSync, StartManual, StartFails, Post
<1>3. ASSUME NEW r \in Requests, RequestStep(r) PROVE UNCHANGED drive
  BY <1>3 DEF RequestStep, Ask, CheckRunning, InsertRefused, InsertSync
<1>4. CASE WorldStep
  BY <1>4, <1>h DEF WorldStep, Expire, RenewalsFail, Update, Reconnect, Delete, Wait, Change
<1> QED BY <1>1, <1>2, <1>3, <1>4, <1>h, Steps

LEMMA AccountedStep ==
  ASSUME TypeOK, TypeOK', Accounted, Next
  PROVE  Accounted'
<1>g. \A n \in Int : \A x : Cov(n, head, x \cup delivered, missed)
                             => Cov(n, head', x \cup delivered', missed')
  <2> SUFFICES ASSUME NEW n \in Int, NEW x, Cov(n, head, x \cup delivered, missed)
               PROVE  Cov(n, head', x \cup delivered', missed')
    OBVIOUS
  <2>1. head \in Nat /\ head' \in Nat
    BY ConnectorAssumption DEF TypeOK
  <2>2. x \cup delivered \subseteq x \cup delivered'
    BY DriveGrows
  <2> QED BY <2>1, <2>2, DriveGrows, CoverGrows
<1>c. \A n \in Int : Cov(n, head, delivered, missed) => Cov(n, head', delivered', missed')
  <2> SUFFICES ASSUME NEW n \in Int, Cov(n, head, delivered, missed)
               PROVE  Cov(n, head', delivered', missed')
    OBVIOUS
  <2>1. head \in Nat /\ head' \in Nat
    BY ConnectorAssumption DEF TypeOK
  <2> QED BY <2>1, DriveGrows, CoverGrows
<1>i. /\ token \in Int /\ \A p \in Pods : snapshot[p].token \in Int
      /\ \A r \in Requests : askedToken[r] \in Int
      /\ \A s \in Syncs : work[s].from \in Int /\ work[s].new \in Int
  BY ConnectorAssumption DEF TypeOK, WorkType, Tokens, NoToken
<1>n. Cov(NoToken, head', delivered', missed') /\ NoToken \in Int
  BY NothingCovered, <1>c DEF Covered, NoToken
<1>d. delivered \subseteq delivered'
  BY DriveGrows
<1> DEFINE Fine(s) == /\ Covered(work[s].from)
                      /\ work[s].done \subseteq delivered
                      /\ at[s] = "upload" =>
                           Cov(work[s].new, head, work[s].listed \cup delivered, missed)
                      /\ at[s] = "record" => Covered(work[s].new)
<1>s. ASSUME NEW t \in Syncs, work'[t] = work[t], at'[t] = at[t] PROVE Fine(t)'
  <2>1. Fine(t)
    BY DEF Accounted
  <2> QED BY <1>s, <1>g, <1>c, <1>i, <1>d, <2>1 DEF Covered
<1>o. ASSUME NEW t \in Syncs, work'[t] = work[t], at'[t] \notin {"upload", "record"}
      PROVE  Fine(t)'
  <2>1. Fine(t)
    BY DEF Accounted
  <2> QED BY <1>o, <1>c, <1>i, <1>d, <2>1 DEF Covered
<1>t. ASSUME UNCHANGED token \/ token' = NoToken PROVE Covered(token)'
  BY <1>t, <1>c, <1>i, <1>n DEF Accounted, Covered
<1>p. ASSUME NEW p \in Pods, UNCHANGED snapshot PROVE Covered(snapshot[p].token)'
  BY <1>p, <1>c, <1>i DEF Accounted, Covered
<1>r. ASSUME NEW r \in Requests, UNCHANGED askedToken PROVE Covered(askedToken[r])'
  BY <1>r, <1>c, <1>i DEF Accounted, Covered
<1>e. ASSUME UNCHANGED <<token, snapshot, askedToken>>, \A s \in Syncs : Fine(s)'
      PROVE  Accounted'
  BY <1>e, <1>t, <1>p, <1>r DEF Accounted
<1>w. ASSUME NEW s \in Syncs, work'[s].from = NoToken, work'[s].done = {},
             at'[s] \notin {"upload", "record"}
      PROVE  Fine(s)'
  BY <1>w, <1>n DEF Covered
<1>l. ASSUME NEW s \in Syncs, leave(s) PROVE \A t \in Syncs : Fine(t)'
  <2>1. Fine(s)'
    <3>1. CASE work[s].how = "schedule"
      <4>1. /\ at' = [at EXCEPT ![s] = "release"]
            /\ work' = [work EXCEPT ![s] = [NoWork EXCEPT !.pod = work[s].pod,
                                                          !.how = "schedule"]]
        BY <1>l, <3>1 DEF leave, goto
      <4>2. work'[s].from = NoToken /\ work'[s].done = {} /\ at'[s] = "release"
        BY <4>1 DEF NoWork, TypeOK
      <4> QED BY <4>2, <1>w
    <3>2. CASE work[s].how # "schedule"
      <4>1. at' = [at EXCEPT ![s] = "done"] /\ work' = [work EXCEPT ![s] = NoWork]
        BY <1>l, <3>2 DEF leave, goto
      <4>2. work'[s].from = NoToken /\ work'[s].done = {} /\ at'[s] = "done"
        BY <4>1 DEF NoWork, TypeOK
      <4> QED BY <4>2, <1>w
    <3> QED BY <3>1, <3>2
  <2>2. \A t \in Syncs \ {s} : work'[t] = work[t] /\ at'[t] = at[t]
    BY <1>l DEF leave, goto, TypeOK
  <2> QED BY <2>1, <2>2, <1>s
<1> HIDE DEF Fine
<1>same. ASSUME UNCHANGED <<at, work>> PROVE \A s \in Syncs : Fine(s)'
  BY <1>same, <1>s
<1>1. ASSUME NEW p \in Pods, Select(p) \/ TickStep(p) \/ LocalTimeout(p) \/ Crash(p)
      PROVE  Accounted'
  <2>1. UNCHANGED <<token, askedToken>>
    BY <1>1 DEF Select, TickStep, LocalTimeout, Crash, AcquireLock, AcquireLocally,
       PauseUnassigned, SetConnector, Dispatch, DispatchOther, DispatchRaises, ReleaseTick
  <2>2. \/ UNCHANGED snapshot
        \/ snapshot' = [snapshot EXCEPT ![p] = NoSnapshot]
        \/ snapshot' = [snapshot EXCEPT ![p] = [token |-> token, errors |-> errors]]
    BY <1>1 DEF Select, TickStep, LocalTimeout, Crash, AcquireLock, AcquireLocally,
       PauseUnassigned, Dispatch, DispatchOther, DispatchRaises, ReleaseTick, rest, tickTo
  <2>3. \A q \in Pods : Covered(snapshot[q].token)'
    BY <2>2, <1>p, <1>c, <1>i, <1>n DEF Accounted, Covered, NoSnapshot, TypeOK
  <2>4. \A s \in Syncs : Fine(s)'
    <3>1. CASE UNCHANGED <<at, work>>
      BY <3>1, <1>same
    <3>2. ASSUME NEW s \in Syncs, Dispatch(p, s) PROVE \A t \in Syncs : Fine(t)'
      <4>1. \A t \in Syncs \ {s} : work'[t] = work[t] /\ at'[t] = at[t]
        BY <3>2 DEF Dispatch, goto, TypeOK
      <4>2. work'[s].from = snapshot[p].token /\ work'[s].done = {} /\ at'[s] = "list"
        BY <3>2 DEF Dispatch, goto, TypeOK, NoWork
      <4>3. Fine(s)'
        BY <4>2, <1>c, <1>i DEF Fine, Accounted, Covered
      <4> QED BY <4>1, <4>3, <1>s
    <3>3. CASE Crash(p)
      <4>1. ASSUME NEW s \in Syncs PROVE Fine(s)'
        <5>1. CASE work'[s] = work[s] /\ at'[s] = at[s]
          BY <5>1, <1>s
        <5>2. CASE work'[s] = NoWork /\ at'[s] = "dead"
          BY <5>2, <1>n DEF Fine, NoWork, Covered
        <5> QED BY <3>3, <5>1, <5>2 DEF Crash
      <4> QED BY <4>1
    <3> QED
      BY <1>1, <3>1, <3>2, <3>3 DEF Select, TickStep, LocalTimeout, AcquireLock,
         AcquireLocally, PauseUnassigned, DispatchOther, DispatchRaises, ReleaseTick
  <2> QED BY <2>1, <2>3, <2>4, <1>t, <1>r DEF Accounted, Fine
<1>2. ASSUME NEW s \in Syncs, SyncStep(s) PROVE Accounted'
  <2>0. UNCHANGED <<snapshot, askedToken>>
    BY <1>2 DEF SyncStep, ListAll, ListChanged, ReadStartToken, UploadAccepted,
       UploadFailed, Settle, RecordSuccess, WorkRaises, RecordFailure, CountErrors,
       WriteFailure, FailureLost, ReleaseSync, StartManual, StartFails, Post
  <2>q. ASSUME Covered(token)', \A t \in Syncs : Fine(t)' PROVE Accounted'
    BY <2>0, <2>q, <1>p, <1>r DEF Accounted, Fine
  <2>x. ASSUME \A t \in Syncs \ {s} : work'[t] = work[t] /\ at'[t] = at[t],
               Covered(token)', Fine(s)'
        PROVE  Accounted'
    BY <2>x, <2>q, <1>s
  <2>f. /\ Covered(work[s].from) /\ work[s].done \subseteq delivered
        /\ at[s] = "upload" => Cov(work[s].new, head, work[s].listed \cup delivered, missed)
        /\ at[s] = "record" => Covered(work[s].new)
    BY DEF Accounted
  <2>h. head \in Nat /\ head' = head
    BY <1>2, ConnectorAssumption DEF TypeOK, SyncStep, ListAll, ListChanged, ReadStartToken,
       UploadAccepted, UploadFailed, Settle, RecordSuccess, WorkRaises, RecordFailure,
       CountErrors, WriteFailure, FailureLost, ReleaseSync, StartManual, StartFails, Post
  <2>k. Cov(work[s].from, head', delivered', missed') /\ work[s].done \subseteq delivered'
    BY <2>f, <1>c, <1>i, <1>d DEF Covered
  <2>1. CASE ListAll(s)
    <3>1. /\ work' = [work EXCEPT ![s].listed = 1..head] /\ at' = [at EXCEPT ![s] = "token"]
          /\ UNCHANGED token
      BY <2>1 DEF ListAll, goto
    <3>2. /\ work'[s].from = work[s].from /\ work'[s].done = work[s].done
          /\ at'[s] = "token"
          /\ \A t \in Syncs \ {s} : work'[t] = work[t] /\ at'[t] = at[t]
      BY <3>1 DEF TypeOK, WorkType
    <3>3. Fine(s)'
      BY <3>2, <2>k DEF Fine, Covered
    <3> QED BY <3>1, <3>2, <3>3, <1>t, <2>x
  <2>2. CASE ListChanged(s)
    <3> DEFINE changes == {c \in 1..head : c > work[s].from}
    <3>1. /\ work' = [work EXCEPT ![s].listed = changes, ![s].new = head]
          /\ at' = [at EXCEPT ![s] = "upload"] /\ UNCHANGED <<token, delivered, missed>>
      BY <2>2 DEF ListChanged, goto
    <3> HIDE DEF changes
    <3>2. /\ work'[s].from = work[s].from /\ work'[s].done = work[s].done
          /\ work'[s].new = head /\ work'[s].listed = changes
          /\ at'[s] = "upload"
          /\ \A t \in Syncs \ {s} : work'[t] = work[t] /\ at'[t] = at[t]
      BY <3>1 DEF TypeOK, WorkType
    <3>3. Cov(head, head, changes \cup delivered, missed)
      BY <2>f, <2>h, <1>i DEF Cov, Covered, changes
    <3>4. Fine(s)'
      BY <3>1, <3>2, <3>3, <2>k, <2>h DEF Fine, Covered
    <3> QED BY <3>1, <3>2, <3>4, <1>t, <2>x
  <2>3. CASE ReadStartToken(s)
    <3>1. /\ work' = [work EXCEPT ![s].new = head]
          /\ at' = [at EXCEPT ![s] = "upload"] /\ UNCHANGED <<token, delivered>>
          /\ missed' = missed \cup ((1..head) \ work[s].listed)
      BY <2>3 DEF ReadStartToken, goto
    <3>2. /\ work'[s].from = work[s].from /\ work'[s].done = work[s].done
          /\ work'[s].new = head /\ work'[s].listed = work[s].listed
          /\ at'[s] = "upload"
          /\ \A t \in Syncs \ {s} : work'[t] = work[t] /\ at'[t] = at[t]
      BY <3>1 DEF TypeOK, WorkType
    <3>3. Cov(head, head, work[s].listed \cup delivered, missed')
      BY <3>1, <2>h DEF Cov
    <3>4. Fine(s)'
      BY <3>1, <3>2, <3>3, <2>k, <2>h DEF Fine, Covered
    <3> QED BY <3>1, <3>2, <3>4, <1>t, <2>x
  <2>4. CASE UploadAccepted(s) \/ UploadFailed(s)
    <3>1. PICK c \in Todo(s) :
            \/ work' = [work EXCEPT ![s].done = @ \cup {c}] /\ delivered' = delivered \cup {c}
            \/ work' = [work EXCEPT ![s].failed = @ \cup {c}]
      BY <2>4 DEF UploadAccepted, UploadFailed
    <3>2. at' = at /\ at[s] = "upload" /\ UNCHANGED token
      BY <2>4 DEF UploadAccepted, UploadFailed
    <3>3. /\ work'[s].from = work[s].from /\ work'[s].new = work[s].new
          /\ work'[s].listed = work[s].listed
          /\ \/ work'[s].done = work[s].done
             \/ /\ work'[s].done = work[s].done \cup {c}
                /\ delivered' = delivered \cup {c}
          /\ \A t \in Syncs \ {s} : work'[t] = work[t]
      <4>1. CASE work' = [work EXCEPT ![s].done = @ \cup {c}] /\ delivered' = delivered \cup {c}
        BY <4>1 DEF TypeOK, WorkType
      <4>2. CASE work' = [work EXCEPT ![s].failed = @ \cup {c}]
        <5>1. work'[s] = [work[s] EXCEPT !.failed = work[s].failed \cup {c}]
          BY <4>2 DEF TypeOK
        <5>3. \A t \in Syncs \ {s} : work'[t] = work[t]
          BY <4>2 DEF TypeOK
        <5>2. /\ work'[s].from = work[s].from /\ work'[s].new = work[s].new
              /\ work'[s].listed = work[s].listed /\ work'[s].done = work[s].done
          <6>1. work[s] \in WorkType
            BY DEF TypeOK
          <6> QED BY ONLY <5>1, <6>1 DEF WorkType
        <5> QED BY <5>2, <5>3
      <4> QED BY <3>1, <4>1, <4>2
    <3>4. Cov(work[s].new, head', work[s].listed \cup delivered', missed')
      BY <2>f, <3>2, <1>g, <1>i
    <3>5. work'[s].done \subseteq delivered'
      BY <3>3, <2>k
    <3>6. Fine(s)'
      BY <3>2, <3>3, <3>4, <3>5, <2>k DEF Fine, Covered
    <3> QED BY <3>2, <3>3, <3>6, <1>t, <2>x
  <2>5. CASE Settle(s)
    <3>1. /\ UNCHANGED <<work, token, delivered>>
          /\ at[s] = "upload" /\ Todo(s) = {}
          /\ \/ at' = [at EXCEPT ![s] = "count"]
             \/ at' = [at EXCEPT ![s] = "record"] /\ missed' = missed \cup work[s].failed
      BY <2>5 DEF Settle, goto
    <3>2. at'[s] = "record" => Cov(work[s].new, head, delivered, missed')
      <4>1. work[s].listed \subseteq delivered \cup work[s].failed
        BY <2>f, <3>1 DEF Todo
      <4>2. at'[s] = "record" => missed' = missed \cup work[s].failed
        BY <3>1 DEF TypeOK
      <4> QED BY <2>f, <3>1, <4>1, <4>2 DEF Cov
    <3>3. Fine(s)'
      BY <3>1, <3>2, <2>k, <2>h DEF Fine, Covered, TypeOK
    <3>4. \A t \in Syncs \ {s} : at'[t] = at[t]
      BY <3>1 DEF TypeOK
    <3> QED BY <3>1, <3>3, <3>4, <1>t, <2>x
  <2>6. CASE RecordSuccess(s)
    <3>1. token' \in {token, work[s].new} /\ leave(s) /\ at[s] = "record"
      BY <2>6 DEF RecordSuccess, SetConnector
    <3>2. Covered(token)'
      BY <3>1, <2>f, <1>c, <1>i DEF Accounted, Covered
    <3> QED BY <3>1, <3>2, <1>l, <2>q
  <2>7. CASE WorkRaises(s) \/ CountErrors(s)
    <3>1. /\ work'[s].from = work[s].from /\ work'[s].done = work[s].done
          /\ at'[s] \notin {"upload", "record"}
          /\ \A t \in Syncs \ {s} : work'[t] = work[t] /\ at'[t] = at[t]
          /\ UNCHANGED token
      BY <2>7 DEF WorkRaises, CountErrors, goto, TypeOK, WorkType
    <3>2. Fine(s)'
      BY <3>1, <2>k DEF Fine, Covered
    <3> QED BY <3>1, <3>2, <1>t, <2>x
  <2>8. CASE RecordFailure(s) \/ StartManual(s)
    <3>1. /\ work' = work /\ at'[s] \notin {"upload", "record"}
          /\ \A t \in Syncs \ {s} : at'[t] = at[t]
          /\ UNCHANGED token
      BY <2>8 DEF RecordFailure, StartManual, SetConnector, goto, TypeOK
    <3> QED BY <3>1, <1>o, <1>t, <2>x
  <2>9. CASE WriteFailure(s) \/ FailureLost(s) \/ StartFails(s) \/ Post(s)
    <3>1. leave(s) /\ UNCHANGED token
      BY <2>9 DEF WriteFailure, FailureLost, StartFails, Post, SetConnector
    <3> QED BY <3>1, <1>l, <1>t, <2>q
  <2>10. CASE ReleaseSync(s)
    <3>1. /\ at' = [at EXCEPT ![s] = "done"] /\ work' = [work EXCEPT ![s] = NoWork]
          /\ UNCHANGED token
      BY <2>10 DEF ReleaseSync, goto
    <3>2. Fine(s)'
      BY <3>1, <1>n DEF Fine, NoWork, Covered, TypeOK
    <3>3. \A t \in Syncs \ {s} : work'[t] = work[t] /\ at'[t] = at[t]
      BY <3>1 DEF TypeOK
    <3> QED BY <3>1, <3>2, <3>3, <1>t, <2>x
  <2> QED
    BY <1>2, <2>1, <2>2, <2>3, <2>4, <2>5, <2>6, <2>7, <2>8, <2>9, <2>10 DEF SyncStep
<1>3. ASSUME NEW r \in Requests, RequestStep(r) PROVE Accounted'
  <2>1. UNCHANGED <<token, snapshot>>
    BY <1>3 DEF RequestStep, Ask, CheckRunning, InsertRefused, InsertSync
  <2>2. askedToken' \in {askedToken, [askedToken EXCEPT ![r] = token],
                         [askedToken EXCEPT ![r] = NoToken]}
    BY <1>3 DEF RequestStep, Ask, CheckRunning, InsertRefused, InsertSync, answer
  <2>3. \A q \in Requests : Covered(askedToken[q])'
    <3>1. ASSUME NEW q \in Requests PROVE askedToken'[q] \in {askedToken[q], token, NoToken}
      BY <2>2 DEF TypeOK
    <3> QED BY <3>1, <1>c, <1>i, <1>n DEF Accounted, Covered
  <2>4. \A s \in Syncs : Fine(s)'
    <3>1. ASSUME NEW p \in Pods, NEW s \in Syncs, InsertSync(r, p, s)
          PROVE  \A t \in Syncs : Fine(t)'
      <4>1. \A t \in Syncs \ {s} : work'[t] = work[t] /\ at'[t] = at[t]
        BY <3>1 DEF InsertSync, goto, TypeOK
      <4>2. /\ work'[s].from = askedToken[r] /\ work'[s].done = {}
            /\ at'[s] \notin {"upload", "record"}
        BY <3>1 DEF InsertSync, goto, TypeOK, NoWork
      <4>3. Fine(s)'
        BY <4>2, <1>c, <1>i DEF Fine, Accounted, Covered
      <4> QED BY <4>1, <4>3, <1>s
    <3> QED
      BY <1>3, <3>1, <1>same DEF RequestStep, Ask, CheckRunning, InsertRefused
  <2> QED BY <2>1, <2>3, <2>4, <1>t, <1>p DEF Accounted, Fine
<1>4. CASE WorldStep
  <2>1. /\ UNCHANGED <<snapshot, askedToken, at, work>>
        /\ UNCHANGED token \/ token' = NoToken
    BY <1>4 DEF WorldStep, Expire, RenewalsFail, Update, SetConnector, Reconnect, Delete, Wait, Change
  <2> QED BY <2>1, <1>t, <1>p, <1>r, <1>same DEF Accounted, Fine
<1> QED BY <1>1, <1>2, <1>3, <1>4, Steps
-----------------------------------------------------------------------------
(* Records and their workers *)

\* Where a worker may be while the record of its sync says "running".
RowsFollow ==
  kind = "google_drive" /\ crashes = 0 /\ dbErrors = 0 =>
    \A s \in Syncs :
      row[s] = "running" => at[s] \in {"parse", "list", "token", "upload", "fail"}

\* The type of a connector stays, and its mishaps are not forgotten.
LEMMA MishapsGrow ==
  ASSUME TypeOK, Next, kind' = "google_drive", crashes' = 0, dbErrors' = 0
  PROVE  /\ kind = "google_drive" /\ crashes = 0 /\ dbErrors = 0
         /\ ~OneDbError /\ \A p \in Pods : ~Crash(p)
<1>1. ~OneDbError /\ \A p \in Pods : ~Crash(p)
  BY DEF OneDbError, Crash, TypeOK
<1>2. ASSUME NEW p \in Pods, Select(p) \/ TickStep(p) \/ LocalTimeout(p)
      PROVE  kind' = kind /\ crashes' = crashes /\ dbErrors' = dbErrors
  BY <1>1, <1>2 DEF Select, TickStep, LocalTimeout, AcquireLock, AcquireLocally,
     PauseUnassigned, SetConnector, Dispatch, DispatchOther, DispatchRaises, ReleaseTick,
     Unlock, OneFault
<1>3. ASSUME NEW s \in Syncs, SyncStep(s)
      PROVE  kind' = kind /\ crashes' = crashes /\ dbErrors' = dbErrors
  BY <1>1, <1>3 DEF SyncStep, ListAll, ListChanged, ReadStartToken, UploadAccepted,
     UploadFailed, Settle, RecordSuccess, WorkRaises, RecordFailure, CountErrors,
     WriteFailure, FailureLost, ReleaseSync, StartManual, StartFails, Post, Unlock,
     OneFault, SetConnector
<1>4. ASSUME NEW r \in Requests, RequestStep(r)
      PROVE  kind' = kind /\ crashes' = crashes /\ dbErrors' = dbErrors
  BY <1>4 DEF RequestStep, Ask, CheckRunning, InsertRefused, InsertSync
<1>5. CASE WorldStep
  <2>1. CASE Expire \/ RenewalsFail
    BY <1>1, <2>1 DEF Expire, RenewalsFail, OneFault
  <2>2. CASE Update("active") \/ Update("paused")
    BY <1>1, <2>2 DEF Update, SetConnector
  <2>3. CASE Reconnect \/ Delete \/ Wait \/ Change
    BY <1>1, <2>3 DEF Reconnect, Delete, Wait, Change
  <2> QED BY <1>5, <2>1, <2>2, <2>3 DEF WorldStep
<1> QED BY <1>1, <1>2, <1>3, <1>4, <1>5, Steps

LEMMA RowsStep ==
  ASSUME TypeOK, RowsFollow, Next
  PROVE  RowsFollow'
<1> SUFFICES ASSUME kind' = "google_drive", crashes' = 0, dbErrors' = 0,
                    NEW t \in Syncs, row'[t] = "running"
             PROVE  at'[t] \in {"parse", "list", "token", "upload", "fail"}
  BY DEF RowsFollow
<1>k. /\ kind = "google_drive" /\ crashes = 0 /\ dbErrors = 0
      /\ ~OneDbError /\ \A p \in Pods : ~Crash(p)
  BY MishapsGrow
<1>f. row[t] = "running" => at[t] \in {"parse", "list", "token", "upload", "fail"}
  BY <1>k DEF RowsFollow
<1>0. CASE row'[t] = row[t] /\ at'[t] = at[t]
  BY <1>0, <1>f
<1>1. ASSUME NEW p \in Pods, Select(p) \/ TickStep(p) \/ LocalTimeout(p) \/ Crash(p)
      PROVE  at'[t] \in {"parse", "list", "token", "upload", "fail"}
  <2>1. ASSUME NEW s \in Syncs, Dispatch(p, s)
        PROVE  (row'[t] = row[t] /\ at'[t] = at[t]) \/ at'[t] = "list"
    BY <2>1 DEF Dispatch, goto, TypeOK
  <2>2. CASE DispatchRaises(p)
    BY <1>k, <1>f, <2>2 DEF DispatchRaises
  <2>3. CASE UNCHANGED <<row, at>>
    BY <2>3, <1>0
  <2> QED
    BY <1>1, <1>0, <1>k, <2>1, <2>2, <2>3 DEF Select, TickStep, LocalTimeout, AcquireLock,
       AcquireLocally, PauseUnassigned, DispatchOther, ReleaseTick
<1>2. ASSUME NEW s \in Syncs, SyncStep(s)
      PROVE  at'[t] \in {"parse", "list", "token", "upload", "fail"}
  <2> USE <1>f, <1>k DEF TypeOK, goto, SetRow
  <2>1. CASE t # s
    <3>1. ASSUME leave(s) PROVE at'[t] = at[t]
      BY <2>1, <3>1 DEF leave
    <3>2. row'[t] = row[t] /\ at'[t] = at[t]
      BY <1>2, <2>1, <3>1 DEF SyncStep, ListAll, ListChanged, ReadStartToken,
         UploadAccepted, UploadFailed, Settle, RecordSuccess, WorkRaises, RecordFailure,
         CountErrors, WriteFailure, FailureLost, ReleaseSync, StartManual, StartFails, Post
    <3> QED BY <3>2, <1>0
  <2>2. CASE t = s
    <3>1. CASE ListAll(s) \/ ListChanged(s) \/ ReadStartToken(s)
      BY <2>2, <3>1 DEF ListAll, ListChanged, ReadStartToken
    <3>2. CASE UploadAccepted(s) \/ UploadFailed(s)
      BY <2>2, <3>2 DEF UploadAccepted, UploadFailed
    <3>3. CASE Settle(s)
      <4>1. row'[s] # "running"
        BY <3>3 DEF Settle
      <4> QED BY <2>2, <4>1
    <3>4. CASE RecordSuccess(s) \/ WriteFailure(s) \/ CountErrors(s) \/ ReleaseSync(s) \/ FailureLost(s)
      BY <2>2, <3>4 DEF RecordSuccess, WriteFailure, CountErrors, ReleaseSync, FailureLost
    <3>5. CASE WorkRaises(s) \/ StartManual(s)
      BY <2>2, <3>5 DEF WorkRaises, StartManual
    <3>6. CASE RecordFailure(s)
      <4>1. row'[s] # "running"
        BY <3>6 DEF RecordFailure
      <4> QED BY <2>2, <4>1
    <3>7. CASE StartFails(s)
      <4>1. row'[s] # "running"
        BY <3>7 DEF StartFails
      <4> QED BY <2>2, <4>1
    <3>8. CASE Post(s)
      <4>1. row'[s] # "running"
        BY <2>2, <3>8 DEF Post
      <4> QED BY <2>2, <4>1
    <3> QED
      BY <1>2, <3>1, <3>2, <3>3, <3>4, <3>5, <3>6, <3>7, <3>8 DEF SyncStep
  <2> QED BY <2>1, <2>2
<1>3. ASSUME NEW r \in Requests, RequestStep(r)
      PROVE  at'[t] \in {"parse", "list", "token", "upload", "fail"}
  <2>1. ASSUME NEW p \in Pods, NEW s \in Syncs, InsertSync(r, p, s)
        PROVE  (row'[t] = row[t] /\ at'[t] = at[t]) \/ at'[t] = "parse"
    BY <2>1, <1>k DEF InsertSync, goto, TypeOK
  <2> QED BY <1>3, <1>0, <2>1 DEF RequestStep, Ask, CheckRunning, InsertRefused
<1>4. CASE WorldStep
  <2>1. CASE Delete
    BY <2>1 DEF Delete
  <2>2. CASE UNCHANGED <<row, at>>
    BY <2>2, <1>0
  <2> QED
    BY <1>4, <2>1, <2>2 DEF WorldStep, Expire, RenewalsFail, Update, Reconnect, Wait, Change
<1> QED BY <1>1, <1>2, <1>3, <1>4, Steps

-----------------------------------------------------------------------------
(* The token does not go back *)

Unasked == \A r \in Requests : asked[r] = "idle"

\* As long as Redis has always answered and nobody asked, only the schedule syncs,
\* and what a worker is about to store is not older than what is stored.
Ahead ==
  faults = 0 /\ Unasked =>
    \A s \in Syncs :
      /\ Running(s) => Scheduled(s)
      /\ at[s] \in {"upload", "record"} => work[s].new >= token

\* Nobody asked yet, and nobody asked before.
LEMMA AskedStays ==
  ASSUME TypeOK, Next, Unasked'
  PROVE  Unasked /\ UNCHANGED asked
<1>1. ASSUME NEW r \in Requests, RequestStep(r) PROVE FALSE
  <2>1. asked'[r] # "idle"
    BY <1>1 DEF RequestStep, Ask, CheckRunning, InsertRefused, InsertSync, answer, TypeOK
  <2> QED BY <2>1 DEF Unasked
<1>2. UNCHANGED asked
  <2>1. ASSUME NEW p \in Pods, Select(p) \/ TickStep(p) \/ LocalTimeout(p) \/ Crash(p)
        PROVE  UNCHANGED asked
    BY <2>1 DEF Select, TickStep, LocalTimeout, Crash, AcquireLock, AcquireLocally,
       PauseUnassigned, Dispatch, DispatchOther, DispatchRaises, ReleaseTick
  <2>2. ASSUME NEW s \in Syncs, SyncStep(s) PROVE UNCHANGED asked
    BY <2>2 DEF SyncStep, ListAll, ListChanged, ReadStartToken, UploadAccepted,
       UploadFailed, Settle, RecordSuccess, WorkRaises, RecordFailure, CountErrors,
       WriteFailure, FailureLost, ReleaseSync, StartManual, StartFails, Post
  <2>3. CASE WorldStep
    BY <2>3 DEF WorldStep, Expire, RenewalsFail, Update, Reconnect, Delete, Wait, Change
  <2> QED BY <1>1, <2>1, <2>2, <2>3, Steps
<1> QED BY <1>2 DEF Unasked
LEMMA AheadStep ==
  ASSUME TypeOK, Owned, ScheduledExclusion, Accounted, Ahead, Next,
         faults' = 0, Unasked'
  PROVE  Ahead'
<1>a. faults = 0 /\ Unasked /\ UNCHANGED asked
  BY FaultsGrow, AskedStays
<1>f. \A s \in Syncs :
        /\ Running(s) => Scheduled(s)
        /\ at[s] \in {"upload", "record"} => work[s].new >= token
  BY <1>a DEF Ahead
<1>x. /\ \A s, t \in Syncs : Scheduled(s) /\ Scheduled(t) => s = t
      /\ \A p \in Pods, s \in Syncs : ~(Holding(p) /\ Scheduled(s))
  BY <1>a DEF ScheduledExclusion
<1>h. token <= head /\ token \in Int /\ head \in Int /\ token >= NoToken
  BY ConnectorAssumption DEF Accounted, Covered, Cov, TypeOK, Tokens, NoToken
<1>i. \A s \in Syncs : work[s].new \in Int /\ work[s].new >= NoToken
  BY ConnectorAssumption DEF TypeOK, WorkType, Tokens, NoToken
<1>g. ASSUME \A s \in Syncs :
                /\ Running(s)' => Scheduled(s)'
                /\ at'[s] \in {"upload", "record"} => work'[s].new >= token'
      PROVE  Ahead'
  BY <1>g DEF Ahead
<1>same. ASSUME UNCHANGED <<at, work, token>>
         PROVE  Ahead'
  BY <1>same, <1>f, <1>g, <1>h DEF Running, Scheduled
<1>1. ASSUME NEW p \in Pods, Select(p) \/ TickStep(p) \/ LocalTimeout(p) \/ Crash(p)
      PROVE  Ahead'
  <2>1. UNCHANGED token
    BY <1>1 DEF Select, TickStep, LocalTimeout, Crash, AcquireLock, AcquireLocally,
       PauseUnassigned, SetConnector, Dispatch, DispatchOther, DispatchRaises, ReleaseTick
  <2>2. ASSUME NEW s \in Syncs, Dispatch(p, s) PROVE Ahead'
    <3>1. \A t \in Syncs \ {s} : work'[t] = work[t] /\ at'[t] = at[t]
      BY <2>2 DEF Dispatch, goto, TypeOK
    <3>2. work'[s].how = "schedule" /\ at'[s] = "list"
      BY <2>2 DEF Dispatch, goto, TypeOK, NoWork
    <3> QED BY <2>1, <3>1, <3>2, <1>f, <1>g DEF Running, Scheduled, Live
  <2>3. CASE Crash(p)
    <3>1. ASSUME NEW s \in Syncs
          PROVE  (work'[s] = work[s] /\ at'[s] = at[s]) \/ at'[s] = "dead"
      BY <2>3 DEF Crash
    <3>2. ASSUME NEW s \in Syncs
          PROVE  /\ Running(s)' => Scheduled(s)'
                 /\ at'[s] \in {"upload", "record"} => work'[s].new >= token'
      <4>1. CASE at'[s] = "dead"
        BY <4>1 DEF Running, Live
      <4>2. CASE work'[s] = work[s] /\ at'[s] = at[s]
        BY <2>1, <4>2, <1>f DEF Running, Scheduled
      <4> QED BY <3>1, <4>1, <4>2
    <3> QED BY <3>2, <1>g
  <2> QED
    BY <1>1, <2>1, <2>2, <2>3, <1>h, <1>same DEF Select, TickStep, LocalTimeout, AcquireLock,
       AcquireLocally, PauseUnassigned, DispatchOther, DispatchRaises, ReleaseTick
<1>2. ASSUME NEW s \in Syncs, SyncStep(s)
      PROVE  Ahead'
  <2>0. ASSUME at[s] # "record", UNCHANGED token, ~ReleaseSync(s),
               at'[s] \in {"upload", "record"} => work'[s].new >= token
        PROVE  Ahead'
    <3>1. /\ Running(s)
          /\ \A t \in Syncs \ {s} : at'[t] = at[t] /\ work'[t] = work[t]
          /\ Running(s)' => work'[s].how = work[s].how
      BY <1>2, <2>0, WorkerStep
    <3> QED BY <2>0, <3>1, <1>f, <1>g, <1>h DEF Running, Scheduled
  <2> USE DEF TypeOK, goto
  <2>1. CASE ListAll(s)
    BY <2>1, <2>0 DEF ListAll, ReleaseSync
  <2>2. CASE ListChanged(s)
    <3> DEFINE changes == {c \in 1..head : c > work[s].from}
    <3>1. work' = [work EXCEPT ![s].listed = changes, ![s].new = head]
      BY <2>2 DEF ListChanged
    <3> HIDE DEF changes
    <3>2. work'[s].new = head
      BY <3>1 DEF WorkType
    <3>3. at[s] = "list" /\ UNCHANGED token
      BY <2>2 DEF ListChanged
    <3> QED BY <3>2, <3>3, <2>0, <1>h DEF ReleaseSync
  <2>3. CASE ReadStartToken(s)
    <3>1. work'[s].new = head
      BY <2>3 DEF ReadStartToken, WorkType
    <3>2. at[s] = "token" /\ UNCHANGED token
      BY <2>3 DEF ReadStartToken
    <3> QED BY <3>1, <3>2, <2>0, <1>h DEF ReleaseSync
  <2>4. CASE UploadAccepted(s) \/ UploadFailed(s)
    <3>1. work'[s].new = work[s].new
      BY <2>4 DEF UploadAccepted, UploadFailed, WorkType
    <3>2. at[s] = "upload" /\ UNCHANGED token
      BY <2>4 DEF UploadAccepted, UploadFailed
    <3> QED BY <3>1, <3>2, <2>0, <1>f DEF ReleaseSync
  <2>5. CASE Settle(s)
    BY <2>5, <2>0, <1>f DEF Settle, ReleaseSync
  <2>6. CASE RecordSuccess(s)
    <3>1. /\ at[s] = "record" /\ leave(s) /\ token' \in {token, work[s].new}
      BY <2>6 DEF RecordSuccess, SetConnector
    <3>3. Running(s) /\ ~ReleaseSync(s)
      BY <3>1 DEF Running, Live, ReleaseSync
    <3>4. \A t \in Syncs \ {s} : ~Running(t)
      BY <3>3, <1>f, <1>x
    <3>5. at'[s] \notin {"upload", "record"}
      BY <3>1 DEF leave
    <3>6. /\ \A t \in Syncs \ {s} : at'[t] = at[t]
          /\ Running(s)' => work'[s].how = work[s].how
      BY <1>2, <3>3, WorkerStep
    <3>7. \A t \in Syncs : /\ Running(t)' => Scheduled(t)'
                           /\ at'[t] \notin {"upload", "record"}
      BY <3>3, <3>4, <3>5, <3>6, <1>f DEF Running, Scheduled, Live
    <3> QED BY <3>7, <1>g
  <2>7. CASE WorkRaises(s)
    <3>1. work'[s].new = work[s].new /\ at'[s] = "fail" /\ UNCHANGED token
      BY <2>7 DEF WorkRaises, WorkType
    <3>2. CASE at[s] # "record"
      BY <3>1, <3>2, <2>7, <2>0 DEF WorkRaises, ReleaseSync
    <3>3. CASE at[s] = "record"
      <4>1. /\ Running(s)
            /\ \A t \in Syncs \ {s} : at'[t] = at[t] /\ work'[t] = work[t]
            /\ Running(s)' => work'[s].how = work[s].how
        BY <1>2, <3>3, WorkerStep DEF ReleaseSync
      <4> QED BY <3>1, <4>1, <1>f, <1>g, <1>h DEF Running, Scheduled
    <3> QED BY <3>2, <3>3
  <2>8. CASE RecordFailure(s) \/ CountErrors(s) \/ StartManual(s)
    BY <2>8, <2>0 DEF RecordFailure, CountErrors, StartManual, SetConnector, ReleaseSync
  <2>9. CASE WriteFailure(s) \/ FailureLost(s) \/ StartFails(s) \/ Post(s)
    BY <2>9, <2>0 DEF WriteFailure, FailureLost, StartFails, Post, SetConnector, leave,
       ReleaseSync
  <2>10. CASE ReleaseSync(s)
    <3>1. /\ at' = [at EXCEPT ![s] = "done"] /\ UNCHANGED token
          /\ \A t \in Syncs \ {s} : work'[t] = work[t]
      BY <2>10 DEF ReleaseSync
    <3> QED BY <3>1, <1>f, <1>g, <1>h DEF Running, Scheduled, Live
  <2> QED
    BY <1>2, <2>1, <2>2, <2>3, <2>4, <2>5, <2>6, <2>7, <2>8, <2>9, <2>10 DEF SyncStep
<1>3. ASSUME NEW r \in Requests, RequestStep(r) PROVE FALSE
  <2>1. asked'[r] # asked[r]
    BY <1>3 DEF RequestStep, Ask, CheckRunning, InsertRefused, InsertSync, answer, TypeOK
  <2> QED BY <2>1, <1>a
<1>4. CASE WorldStep
  <2>1. CASE Reconnect \/ Delete
    <3>1. token' = NoToken /\ at' = at /\ work' = work
      BY <2>1 DEF Reconnect, Delete
    <3> QED BY <3>1, <1>f, <1>g, <1>i DEF Running, Scheduled
  <2>2. CASE ~(Reconnect \/ Delete)
    <3>1. UNCHANGED <<at, work, token>>
      BY <1>4, <2>2 DEF WorldStep, Expire, RenewalsFail, Update, SetConnector, Wait, Change
    <3> QED BY <3>1, <1>same
  <2> QED BY <2>1, <2>2
<1> QED BY <1>1, <1>2, <1>3, <1>4, Steps

-----------------------------------------------------------------------------
(* Theorems *)

\* The inductive invariant.
IInv ==
  /\ TypeOK
  /\ Owned
  /\ ScheduledExclusion
  /\ Accounted
  /\ RowsFollow
  /\ Ahead

LEMMA InitIInv == Init => IInv
<1> SUFFICES ASSUME Init PROVE IInv
  OBVIOUS
<1>1. TypeOK
  BY InitTypes
<1>2. Owned /\ RowsFollow /\ Ahead
  BY DEF Init, Owned, RowsFollow, Ahead, Scheduled, Running, Live, NoWork
<1>3. ScheduledExclusion
  BY DEF Init, ScheduledExclusion, Holding, Scheduled, Running, Live
<1>4. Accounted
  BY <1>1, NothingCovered DEF Init, Accounted, Covered, NoSnapshot, NoWork
<1> QED BY <1>1, <1>2, <1>3, <1>4 DEF IInv

LEMMA StepIInv == IInv /\ [Next]_vars => IInv'
<1> SUFFICES ASSUME IInv, [Next]_vars PROVE IInv'
  OBVIOUS
<1>1. TypeOK'
  BY TypeStep DEF IInv
<1>2. CASE UNCHANGED vars
  BY <1>1, <1>2 DEF IInv, vars, Owned, ScheduledExclusion, Accounted, RowsFollow, Ahead,
     Unasked, Covered, Cov, Holding, Scheduled, Running
<1>3. CASE Next
  <2>1. Owned'
    BY <1>3, OwnedStep DEF IInv
  <2>2. ScheduledExclusion'
    <3>1. CASE faults' = 0
      BY <1>3, <3>1, ExclusionStep DEF IInv
    <3>2. CASE faults' # 0
      BY <3>2 DEF ScheduledExclusion
    <3> QED BY <3>1, <3>2
  <2>3. Accounted'
    BY <1>1, <1>3, AccountedStep DEF IInv
  <2>4. RowsFollow'
    BY <1>3, RowsStep DEF IInv
  <2>5. Ahead'
    <3>1. CASE faults' = 0 /\ Unasked'
      BY <1>3, <3>1, AheadStep DEF IInv
    <3>2. CASE ~(faults' = 0 /\ Unasked')
      BY <3>2 DEF Ahead
    <3> QED BY <3>1, <3>2
  <2> QED BY <1>1, <2>1, <2>2, <2>3, <2>4, <2>5 DEF IInv
<1> QED BY <1>2, <1>3

LEMMA Invariant == Spec => []IInv
  BY InitIInv, StepIInv, PTL DEF Spec

\* Every row, key and place has the values the code gives it.
THEOREM TypeCorrect == Spec => []TypeOK
  BY Invariant, PTL DEF IInv

\* While Redis answers, at most one pod works on the connector by schedule, and the
\* key is its own until it has deleted it (acquireLock, releaseLock).
THEOREM ExclusionHolds == Spec => []ScheduledExclusion
  BY Invariant, PTL DEF IInv

\* Whatever fails, dies or overlaps, lastSyncToken never runs ahead of what the
\* pipeline accepted or a completed sync gave up (updateConnectorRecord).
THEOREM NothingSkipped == Spec => []NothingSkippedSilently
<1>1. IInv => NothingSkippedSilently
  BY DEF IInv, Accounted, Covered, Cov, NothingSkippedSilently
<1> QED BY <1>1, Invariant, PTL

\* A sync record of the drive says "running" only while its worker lives, unless
\* a pod died or a statement failed.
THEOREM RowsAreLive == Spec => []RunningRowsAreLive
<1>1. IInv => RunningRowsAreLive
  BY DEF IInv, RowsFollow, RunningRowsAreLive, Running, Live
<1> QED BY <1>1, Invariant, PTL

\* Scheduled syncs never move lastSyncToken backwards while Redis answers: a
\* reconnection that empties it starts the whole row afresh.
THEOREM TokenNeverBack == Spec => TokenMonotone
<1>1. ASSUME IInv, [Next]_vars
      PROVE  [ (faults = 0 /\ \A r \in Requests : asked[r] = "idle") /\ status' # "deleted"
               => token' >= token \/ AsNew' ]_vars
  <2> SUFFICES ASSUME Next, faults = 0, Unasked, status' # "deleted"
               PROVE  token' >= token \/ AsNew'
    BY <1>1 DEF Unasked
  <2>t. token \in Int
    BY <1>1, ConnectorAssumption DEF IInv, TypeOK, Tokens, NoToken
  <2>1. ASSUME NEW p \in Pods, Select(p) \/ TickStep(p) \/ LocalTimeout(p) \/ Crash(p)
        PROVE  UNCHANGED token
    BY <2>1 DEF Select, TickStep, LocalTimeout, Crash, AcquireLock, AcquireLocally,
       PauseUnassigned, SetConnector, Dispatch, DispatchOther, DispatchRaises, ReleaseTick
  <2>2. ASSUME NEW s \in Syncs, SyncStep(s) PROVE token' >= token
    <3>1. CASE RecordSuccess(s)
      <4>1. token' \in {token, work[s].new} /\ at[s] = "record"
        BY <3>1 DEF RecordSuccess, SetConnector
      <4>2. work[s].new >= token
        BY <1>1, <4>1 DEF IInv, Ahead
      <4> QED BY <2>t, <4>1, <4>2
    <3>2. CASE ~RecordSuccess(s)
      <4>1. UNCHANGED token
        BY <2>2, <3>2 DEF SyncStep, ListAll, ListChanged, ReadStartToken, UploadAccepted,
           UploadFailed, Settle, WorkRaises, RecordFailure, CountErrors, WriteFailure,
           FailureLost, ReleaseSync, StartManual, StartFails, Post, SetConnector
      <4> QED BY <2>t, <4>1
    <3> QED BY <3>1, <3>2
  <2>3. ASSUME NEW r \in Requests, RequestStep(r) PROVE UNCHANGED token
    BY <2>3 DEF RequestStep, Ask, CheckRunning, InsertRefused, InsertSync
  <2>4. CASE WorldStep
    <3>1. CASE Reconnect
      BY <3>1 DEF Reconnect, AsNew
    <3>2. CASE ~Reconnect
      <4>1. UNCHANGED token
        BY <2>4, <3>2
        DEF WorldStep, Expire, RenewalsFail, Update, SetConnector, Delete, Wait, Change
      <4> QED BY <2>t, <4>1
    <3> QED BY <3>1, <3>2
  <2> QED BY <2>t, <2>1, <2>2, <2>3, <2>4, Steps
<1> QED BY <1>1, Invariant, PTL DEF Spec, TokenMonotone

-----------------------------------------------------------------------------
(* Why a sync ends *)

\* A bound on the steps the worker of s still has before it: one per file it has
\* listed and not dealt with, and one per call around them.  The catch clause is
\* entered once, so what is left then is counted from the start.
SyncLeft(s) ==
  CASE at[s] = "release" -> 1
    [] at[s] = "post" -> 2
    [] at[s] = "failWrite" -> IF work[s].caught THEN 2 ELSE 5
    [] at[s] = "count" -> IF work[s].caught THEN 3 ELSE 6
    [] at[s] = "fail" -> IF work[s].caught THEN 4 ELSE 7
    [] at[s] = "record" -> 5
    [] at[s] = "upload" -> 7 + Cardinality(Todo(s))
    [] at[s] = "token" -> 8 + Cardinality(Todo(s))
    [] at[s] = "list" -> 9 + MaxChanges
    [] at[s] = "parse" -> 10 + MaxChanges
    [] OTHER -> 0

\* Every step of a worker brings its end nearer, and once it has started nothing
\* that other pods, requests, the drive, crashes or expiries do puts it off or
\* starts it again: a sync makes MaxChanges + 10 steps at most.  With the
\* fairness of the event loop this is why SyncEnds.
EverySyncAdvances ==
  [][\A s \in Syncs :
       /\ SyncStep(s) => SyncLeft(s)' < SyncLeft(s)
       /\ at[s] # "none" => at'[s] # "none" /\ SyncLeft(s)' <= SyncLeft(s)]_vars

LEMMA TodoFinite ==
  ASSUME TypeOK, NEW s \in Syncs
  PROVE  /\ IsFiniteSet(Todo(s)) /\ Cardinality(Todo(s)) \in Nat
         /\ Cardinality(Todo(s)) <= MaxChanges
<1>1. Todo(s) \in SUBSET (1..MaxChanges)
  BY DEF TypeOK, WorkType, Todo
<1>2. IsFiniteSet(1..MaxChanges) /\ Cardinality(1..MaxChanges) = MaxChanges
  BY ConnectorAssumption, FS_Interval
<1>3. IsFiniteSet(Todo(s)) /\ Cardinality(Todo(s)) <= MaxChanges
  BY <1>1, <1>2, FS_Subset
<1> QED BY <1>3, FS_CardinalityType

\* The same of the state after the step.
LEMMA TodoFiniteNext ==
  ASSUME TypeOK', NEW s \in Syncs
  PROVE  Cardinality(Todo(s)') \in Nat /\ Cardinality(Todo(s)') <= MaxChanges
<1>1. Todo(s)' \in SUBSET (1..MaxChanges)
  BY DEF TypeOK, WorkType, Todo
<1>2. IsFiniteSet(1..MaxChanges) /\ Cardinality(1..MaxChanges) = MaxChanges
  BY ConnectorAssumption, FS_Interval
<1>3. IsFiniteSet(Todo(s)') /\ Cardinality(Todo(s)') <= MaxChanges
  BY <1>1, <1>2, FS_Subset
<1> QED BY <1>3, FS_CardinalityType

LEMMA LeftIs ==
  ASSUME TypeOK, NEW s \in Syncs
  PROVE  SyncLeft(s) \in Nat
<1>1. Cardinality(Todo(s)) \in Nat /\ MaxChanges \in Nat
  BY TodoFinite, ConnectorAssumption
<1> QED BY <1>1 DEF SyncLeft

LEMMA LeftIsNext ==
  ASSUME TypeOK', NEW s \in Syncs
  PROVE  SyncLeft(s)' \in Nat
<1>1. Cardinality(Todo(s)') \in Nat /\ MaxChanges \in Nat
  BY TodoFiniteNext, ConnectorAssumption
<1> QED BY <1>1 DEF SyncLeft

LEMMA LeftStays ==
  ASSUME NEW s \in Syncs, at'[s] = at[s], work'[s] = work[s]
  PROVE  SyncLeft(s)' = SyncLeft(s)
<1>1. Todo(s)' = Todo(s)
  BY DEF Todo
<1> QED BY <1>1 DEF SyncLeft

LEMMA DeadIsOver ==
  ASSUME NEW s \in Syncs, at'[s] = "dead"
  PROVE  SyncLeft(s)' = 0
  BY DEF SyncLeft

\* What follows the worker is one step at most.
LEMMA LeaveIsNear ==
  ASSUME TypeOK, NEW s \in Syncs, leave(s)
  PROVE  SyncLeft(s)' <= 1 /\ at'[s] \in {"release", "done"}
<1>1. at'[s] \in {"release", "done"}
  BY DEF leave, goto, TypeOK
<1> QED BY <1>1 DEF SyncLeft

LEMMA SyncIsNearer ==
  ASSUME TypeOK, TypeOK', NEW s \in Syncs, SyncStep(s)
  PROVE  SyncLeft(s)' < SyncLeft(s) /\ at'[s] # "none"
<1>m. MaxChanges \in Nat
  BY ConnectorAssumption
<1>n. /\ Cardinality(Todo(s)) \in Nat /\ Cardinality(Todo(s)') \in Nat
      /\ Cardinality(Todo(s)') <= MaxChanges
  BY TodoFinite, TodoFiniteNext
<1>g. \A l : at' = [at EXCEPT ![s] = l] => at'[s] = l
  BY DEF TypeOK
<1> USE DEF goto
<1>1. CASE ListAll(s)
  <2>1. at[s] = "list" /\ at'[s] = "token"
    BY <1>1, <1>g DEF ListAll
  <2> QED BY <2>1, <1>m, <1>n DEF SyncLeft
<1>2. CASE ListChanged(s)
  <2>1. at[s] = "list" /\ at'[s] = "upload"
    BY <1>2, <1>g DEF ListChanged
  <2> QED BY <2>1, <1>m, <1>n DEF SyncLeft
<1>3. CASE ReadStartToken(s)
  <2>1. at[s] = "token" /\ at'[s] = "upload"
    BY <1>3, <1>g DEF ReadStartToken
  <2>2. work'[s] = [work[s] EXCEPT !.new = head]
    BY <1>3 DEF ReadStartToken, TypeOK
  <2>3. Todo(s)' = Todo(s)
    BY <2>2 DEF Todo, TypeOK, WorkType
  <2> QED BY <2>1, <2>3, <1>n DEF SyncLeft
<1>4. CASE UploadAccepted(s) \/ UploadFailed(s)
  <2>1. at[s] = "upload" /\ at'[s] = "upload"
    BY <1>4 DEF UploadAccepted, UploadFailed
  <2>2. PICK c \in Todo(s) : \/ work'[s] = [work[s] EXCEPT !.done = @ \cup {c}]
                             \/ work'[s] = [work[s] EXCEPT !.failed = @ \cup {c}]
    BY <1>4 DEF UploadAccepted, UploadFailed, TypeOK
  <2>3. /\ work'[s].listed = work[s].listed
        /\ work'[s].done \cup work'[s].failed = work[s].done \cup work[s].failed \cup {c}
    <3>1. CASE work'[s] = [work[s] EXCEPT !.done = @ \cup {c}]
      BY <3>1 DEF TypeOK, WorkType
    <3>2. CASE work'[s] = [work[s] EXCEPT !.failed = @ \cup {c}]
      BY <3>2 DEF TypeOK, WorkType
    <3> QED BY <2>2, <3>1, <3>2
  <2>5. Todo(s)' = Todo(s) \ {c}
    BY <2>3 DEF Todo
  <2>4. Cardinality(Todo(s) \ {c}) = Cardinality(Todo(s)) - 1
    BY <2>2, TodoFinite, FS_RemoveElement
  <2> QED BY <2>1, <2>4, <2>5, <1>n DEF SyncLeft
<1>5. CASE Settle(s)
  <2>1. /\ at[s] = "upload" /\ at'[s] \in {"count", "record"}
        /\ work' = work
    BY <1>5, <1>g DEF Settle
  <2> QED BY <2>1, <1>n DEF SyncLeft
<1>6. CASE RecordSuccess(s) \/ WriteFailure(s) \/ FailureLost(s) \/ StartFails(s) \/ Post(s)
  <2>1. leave(s) /\ at[s] \in {"record", "failWrite", "fail", "count", "parse", "post"}
    BY <1>6 DEF RecordSuccess, WriteFailure, FailureLost, StartFails, Post
  <2>2. SyncLeft(s) > 1
    BY <2>1, <1>m DEF SyncLeft
  <2>3. SyncLeft(s)' \in Nat /\ SyncLeft(s) \in Nat
    BY LeftIs, LeftIsNext
  <2> QED BY <2>1, <2>2, <2>3, LeaveIsNear
<1>7. CASE WorkRaises(s)
  <2>1. /\ ~work[s].caught /\ at'[s] = "fail"
        /\ at[s] \in {"list", "token", "upload", "record", "count", "failWrite"}
    BY <1>7, <1>g DEF WorkRaises
  <2>2. work'[s].caught
    BY <1>7 DEF WorkRaises, TypeOK, WorkType
  <2>3. SyncLeft(s)' = 4
    BY <2>1, <2>2 DEF SyncLeft
  <2>4. SyncLeft(s) > 4
    BY <2>1, <1>m, <1>n DEF SyncLeft
  <2> QED BY <2>1, <2>3, <2>4
<1>8. CASE RecordFailure(s)
  <2>1. at[s] = "fail" /\ at'[s] = "count" /\ work' = work
    BY <1>8, <1>g DEF RecordFailure
  <2> QED BY <2>1 DEF SyncLeft
<1>9. CASE CountErrors(s)
  <2>1. /\ at[s] = "count" /\ at'[s] = "failWrite"
        /\ work'[s] = [work[s] EXCEPT !.errors = errors]
    BY <1>9, <1>g DEF CountErrors, TypeOK
  <2>2. work'[s].caught = work[s].caught
    BY <2>1 DEF TypeOK, WorkType
  <2> QED BY <2>1, <2>2 DEF SyncLeft
<1>10. CASE ReleaseSync(s)
  <2>1. at[s] = "release" /\ at'[s] = "done"
    BY <1>10, <1>g DEF ReleaseSync
  <2> QED BY <2>1 DEF SyncLeft
<1>11. CASE StartManual(s)
  <2>1. at[s] = "parse" /\ at'[s] = "list"
    BY <1>11, <1>g DEF StartManual
  <2> QED BY <2>1, <1>m DEF SyncLeft
<1> QED
  BY <1>1, <1>2, <1>3, <1>4, <1>5, <1>6, <1>7, <1>8, <1>9, <1>10, <1>11 DEF SyncStep

\* A record that was never inserted has no worker, so that inserting it starts
\* one anew.
RowFirst == \A s \in Syncs : row[s] = "none" => at[s] = "none"

\* Steps that are not the worker's leave it where it is, start it when its record
\* is inserted, or end it.
LEMMA OthersStep ==
  ASSUME TypeOK, Next, NEW s \in Syncs, ~SyncStep(s)
  PROVE  \/ at'[s] = at[s] /\ work'[s] = work[s] /\ (row[s] # "none" => row'[s] # "none")
         \/ row[s] = "none" /\ row'[s] # "none"
         \/ at'[s] = "dead" /\ row' = row /\ Running(s)
<1>1. ASSUME NEW p \in Pods, Select(p) \/ TickStep(p) \/ LocalTimeout(p)
      PROVE  \/ at'[s] = at[s] /\ work'[s] = work[s] /\ (row[s] # "none" => row'[s] # "none")
             \/ row[s] = "none" /\ row'[s] # "none"
  <2>1. ASSUME NEW t \in Syncs, Dispatch(p, t)
        PROVE  \/ at'[s] = at[s] /\ work'[s] = work[s] /\ row'[s] = row[s]
               \/ row[s] = "none" /\ row'[s] # "none"
    BY <2>1 DEF Dispatch, Fresh, goto, TypeOK
  <2>2. ASSUME NEW t \in Syncs, DispatchOther(p, t)
        PROVE  at' = at /\ work' = work /\ (row[s] # "none" => row'[s] # "none")
    BY <2>2 DEF DispatchOther, TypeOK
  <2>3. CASE DispatchRaises(p)
    BY <2>3 DEF DispatchRaises, TypeOK
  <2> QED
    BY <1>1, <2>1, <2>2, <2>3 DEF Select, TickStep, LocalTimeout, AcquireLock,
       AcquireLocally, PauseUnassigned, ReleaseTick
<1>2. ASSUME NEW p \in Pods, Crash(p)
      PROVE  \/ at'[s] = at[s] /\ work'[s] = work[s] /\ row' = row
             \/ at'[s] = "dead" /\ row' = row /\ Running(s)
  BY <1>2 DEF Crash
<1>3. ASSUME NEW t \in Syncs \ {s}, SyncStep(t)
      PROVE  at'[s] = at[s] /\ work'[s] = work[s] /\ (row[s] # "none" => row'[s] # "none")
  <2>1. at'[s] = at[s] /\ work'[s] = work[s]
    <3>1. CASE ReleaseSync(t)
      BY <3>1 DEF ReleaseSync, goto, TypeOK
    <3>2. CASE ~ReleaseSync(t)
      BY <1>3, <3>2, WorkerStep
    <3> QED BY <3>1, <3>2
  <2>2. row[s] # "none" => row'[s] # "none"
    BY <1>3 DEF SyncStep, ListAll, ListChanged, ReadStartToken, UploadAccepted,
       UploadFailed, Settle, RecordSuccess, WorkRaises, RecordFailure, CountErrors,
       WriteFailure, FailureLost, ReleaseSync, StartManual, StartFails, Post, SetRow, TypeOK
  <2> QED BY <2>1, <2>2
<1>4. ASSUME NEW r \in Requests, RequestStep(r)
      PROVE  \/ at'[s] = at[s] /\ work'[s] = work[s] /\ row'[s] = row[s]
             \/ row[s] = "none" /\ row'[s] # "none"
  <2>1. ASSUME NEW p \in Pods, NEW t \in Syncs, InsertSync(r, p, t)
        PROVE  \/ at'[s] = at[s] /\ work'[s] = work[s] /\ row'[s] = row[s]
               \/ row[s] = "none" /\ row'[s] # "none"
    BY <2>1 DEF InsertSync, Fresh, goto, TypeOK
  <2> QED BY <1>4, <2>1 DEF RequestStep, Ask, CheckRunning, InsertRefused
<1>5. CASE WorldStep
  BY <1>5 DEF WorldStep, Expire, RenewalsFail, Update, Reconnect, Delete, Wait, Change
<1> QED BY <1>1, <1>2, <1>3, <1>4, <1>5, Steps

\* A worker that takes a step has its record, and it is never taken away.
LEMMA RowFirstStep ==
  ASSUME TypeOK, TypeOK', RowFirst, [Next]_vars
  PROVE  RowFirst'
<1> SUFFICES ASSUME NEW s \in Syncs, row'[s] = "none" PROVE at'[s] = "none"
  BY DEF RowFirst
<1>1. CASE SyncStep(s)
  <2>1. at[s] # "none"
    BY <1>1 DEF SyncStep, ListAll, ListChanged, ReadStartToken, UploadAccepted,
       UploadFailed, Settle, RecordSuccess, WorkRaises, RecordFailure, CountErrors,
       WriteFailure, FailureLost, ReleaseSync, StartManual, StartFails, Post
  <2>2. row'[s] # "none"
    BY <1>1, <2>1 DEF RowFirst, SyncStep, ListAll, ListChanged, ReadStartToken, UploadAccepted,
       UploadFailed, Settle, RecordSuccess, WorkRaises, RecordFailure, CountErrors,
       WriteFailure, FailureLost, ReleaseSync, StartManual, StartFails, Post, SetRow, TypeOK
  <2> QED BY <2>2
<1>2. CASE Next /\ ~SyncStep(s)
  BY <1>2, OthersStep DEF RowFirst, Running, Live
<1>3. CASE UNCHANGED vars
  BY <1>3 DEF vars, RowFirst
<1> QED BY <1>1, <1>2, <1>3

\* Every step of executeGoogleDriveSync and of the part of triggerSync after the
\* insertion brings the end of that sync nearer, nothing else puts it off, and a
\* sync that ended is not taken up again.
THEOREM SyncsAdvance == Spec => EverySyncAdvances
<1>1. Init => RowFirst
  BY DEF Init, RowFirst
<1>2. TypeOK /\ TypeOK' /\ RowFirst /\ [Next]_vars => RowFirst'
  BY RowFirstStep
<1>3. ASSUME TypeOK, TypeOK', RowFirst, [Next]_vars, NEW s \in Syncs
      PROVE  /\ SyncStep(s) => SyncLeft(s)' < SyncLeft(s)
             /\ at[s] # "none" => at'[s] # "none" /\ SyncLeft(s)' <= SyncLeft(s)
  <2>1. SyncLeft(s) \in Nat /\ SyncLeft(s)' \in Nat
    BY <1>3, LeftIs, LeftIsNext
  <2>2. CASE SyncStep(s)
    BY <1>3, <2>1, <2>2, SyncIsNearer
  <2>3. CASE Next /\ ~SyncStep(s) /\ at[s] # "none"
    <3>1. row[s] # "none"
      BY <1>3, <2>3 DEF RowFirst
    <3>2. CASE at'[s] = at[s] /\ work'[s] = work[s]
      BY <2>1, <2>3, <3>2, LeftStays
    <3>3. CASE at'[s] = "dead"
      <4>1. SyncLeft(s)' = 0
        BY <3>3, DeadIsOver
      <4> QED BY <2>1, <2>3, <3>3, <4>1
    <3> QED BY <1>3, <2>3, <3>1, <3>2, <3>3, OthersStep
  <2>4. CASE UNCHANGED vars
    <3>1. at'[s] = at[s] /\ work'[s] = work[s]
      BY <2>4 DEF vars
    <3>2. SyncLeft(s)' = SyncLeft(s)
      BY <3>1, LeftStays
    <3> QED BY <2>1, <2>2, <3>1, <3>2
  <2> QED BY <1>3, <2>2, <2>3, <2>4
<1>4. TypeOK /\ TypeOK' /\ RowFirst /\ [Next]_vars
        => \A s \in Syncs :
             /\ SyncStep(s) => SyncLeft(s)' < SyncLeft(s)
             /\ at[s] # "none" => at'[s] # "none" /\ SyncLeft(s)' <= SyncLeft(s)
  BY <1>3
<1> QED
  BY <1>1, <1>2, <1>4, TypeCorrect, PTL DEF Spec, EverySyncAdvances

\* The calls a scheduler's tick still has before it.
TickLeft(p) ==
  IF tick[p] = "selected" THEN 3
  ELSE IF tick[p] = "locked" THEN 2
  ELSE IF tick[p] = "release" THEN 1 ELSE 0

\* A tick takes three steps at most: each one brings its end nearer, and nothing
\* puts it off but the tick that the pod's next timer starts.
EveryTickAdvances ==
  [][\A p \in Pods :
       /\ TickStep(p) => TickLeft(p)' < TickLeft(p)
       /\ Select(p) \/ TickLeft(p)' <= TickLeft(p)]_vars

LEMMA TickNearer ==
  ASSUME TypeOK, NEW p \in Pods, TickStep(p)
  PROVE  TickLeft(p)' < TickLeft(p)
<1> USE DEF TickLeft, rest, tickTo, TypeOK
<1>1. CASE AcquireLock(p)
  BY <1>1 DEF AcquireLock
<1>2. CASE AcquireLocally(p)
  BY <1>2 DEF AcquireLocally
<1>3. CASE PauseUnassigned(p) \/ DispatchRaises(p) \/ ReleaseTick(p)
  BY <1>3 DEF PauseUnassigned, DispatchRaises, ReleaseTick
<1>4. ASSUME NEW s \in Syncs, Dispatch(p, s) \/ DispatchOther(p, s)
      PROVE  TickLeft(p)' < TickLeft(p)
  BY <1>4 DEF Dispatch, DispatchOther
<1> QED BY <1>1, <1>2, <1>3, <1>4 DEF TickStep

\* What others do leaves a tick where it is.
LEMMA TickAlone ==
  ASSUME TypeOK, NEW p \in Pods, [Next]_vars,
         ~Select(p), ~TickStep(p), ~Crash(p)
  PROVE  tick'[p] = tick[p]
<1>1. ASSUME NEW q \in Pods \ {p}, Select(q) \/ TickStep(q) \/ LocalTimeout(q) \/ Crash(q)
      PROVE  tick'[p] = tick[p]
  BY <1>1 DEF Select, TickStep, LocalTimeout, Crash, AcquireLock, AcquireLocally,
     PauseUnassigned, Dispatch, DispatchOther, DispatchRaises, ReleaseTick, rest, tickTo, TypeOK
<1>2. CASE LocalTimeout(p)
  BY <1>2 DEF LocalTimeout
<1>3. ASSUME NEW s \in Syncs, SyncStep(s) PROVE tick' = tick
  <2>1. CASE ReleaseSync(s)
    BY <2>1 DEF ReleaseSync
  <2> QED BY <1>3, <2>1, WorkerStep
<1>4. ASSUME NEW r \in Requests, RequestStep(r) PROVE tick' = tick
  BY <1>4 DEF RequestStep, Ask, CheckRunning, InsertRefused, InsertSync
<1>5. CASE WorldStep
  BY <1>5 DEF WorldStep, Expire, RenewalsFail, Update, Reconnect, Delete, Wait, Change
<1>6. CASE UNCHANGED vars
  BY <1>6 DEF vars
<1> QED BY <1>1, <1>2, <1>3, <1>4, <1>5, <1>6, Steps

\* No tick of a scheduler goes on for ever; with SyncsAdvance this bounds how long
\* a live pod renews the key of a connector (tick, acquireLock, releaseLock).
THEOREM TicksAdvance == Spec => EveryTickAdvances
<1>1. ASSUME TypeOK, [Next]_vars, NEW p \in Pods
      PROVE  /\ TickStep(p) => TickLeft(p)' < TickLeft(p)
             /\ Select(p) \/ TickLeft(p)' <= TickLeft(p)
  <2>0. TickLeft(p) \in Nat /\ TickLeft(p)' \in Nat
    BY DEF TickLeft
  <2>1. CASE TickStep(p)
    BY <1>1, <2>0, <2>1, TickNearer
  <2>2. CASE Crash(p)
    <3>1. tick'[p] = "idle"
      BY <1>1, <2>2 DEF Crash, rest, TypeOK
    <3>2. TickLeft(p)' = 0
      BY <3>1 DEF TickLeft
    <3>3. TickStep(p) => TickLeft(p)' < TickLeft(p)
      BY <1>1, TickNearer
    <3> QED BY <2>0, <3>2, <3>3
  <2>3. CASE ~Select(p) /\ ~TickStep(p) /\ ~Crash(p)
    <3>1. TickLeft(p)' = TickLeft(p)
      BY <1>1, <2>3, TickAlone DEF TickLeft
    <3> QED BY <2>0, <2>3, <3>1
  <2>4. CASE Select(p)
    BY <1>1, <2>4, TickNearer
  <2> QED BY <2>1, <2>2, <2>3, <2>4
<1>2. TypeOK /\ [Next]_vars
        => \A p \in Pods : /\ TickStep(p) => TickLeft(p)' < TickLeft(p)
                           /\ Select(p) \/ TickLeft(p)' <= TickLeft(p)
  BY <1>1
<1> QED BY <1>2, TypeCorrect, PTL DEF Spec, EveryTickAdvances
-----------------------------------------------------------------------------
(* The contract of a connector *)

\* A worker has listed, and given up, only changes there are, and once it has
\* listed them it carries the number of one.
Seen ==
  \A s \in Syncs :
    /\ work[s].listed \subseteq 1..head /\ work[s].failed \subseteq 1..head
    /\ at[s] \in {"upload", "record"} => work[s].new \in Nat

LEMMA InitSeen == Init => Seen
  BY DEF Init, Seen, NoWork

LEMMA SeenStep ==
  ASSUME TypeOK, TypeOK', Seen, Next
  PROVE  Seen'
<1> DEFINE Fine(s) == /\ work[s].listed \subseteq 1..head /\ work[s].failed \subseteq 1..head
                      /\ at[s] \in {"upload", "record"} => work[s].new \in Nat
<1>h. head \in Nat /\ head' \in Nat /\ head <= head' /\ 1..head \subseteq 1..head'
  <2>1. head \in Nat /\ head' \in Nat /\ head <= head'
    BY DriveGrows, ConnectorAssumption DEF TypeOK
  <2> QED BY <2>1
<1>f. \A s \in Syncs : Fine(s)
  BY DEF Seen
<1>g. ASSUME \A s \in Syncs : Fine(s)' PROVE Seen'
  BY <1>g DEF Seen
<1>same. ASSUME NEW s \in Syncs, work'[s] = work[s], at'[s] \in {"upload", "record"} => at'[s] = at[s]
         PROVE  Fine(s)'
  BY <1>same, <1>f, <1>h
<1>new. ASSUME NEW s \in Syncs, work'[s].listed = {} /\ work'[s].failed = {}, at'[s] \notin {"upload", "record"}
        PROVE  Fine(s)'
  BY <1>new
<1>1. ASSUME NEW p \in Pods, Select(p) \/ TickStep(p) \/ LocalTimeout(p) \/ Crash(p)
      PROVE  Seen'
  <2>1. ASSUME NEW s \in Syncs, Dispatch(p, s) PROVE Seen'
    <3>1. \A t \in Syncs \ {s} : work'[t] = work[t] /\ at'[t] = at[t]
      BY <2>1 DEF Dispatch, goto, TypeOK
    <3>2. work'[s].listed = {} /\ work'[s].failed = {} /\ at'[s] = "list"
      BY <2>1 DEF Dispatch, goto, TypeOK, NoWork
    <3> QED BY <3>1, <3>2, <1>same, <1>new, <1>g
  <2>2. CASE Crash(p)
    <3>1. ASSUME NEW s \in Syncs
          PROVE  \/ work'[s] = work[s] /\ at'[s] = at[s]
                 \/ work'[s].listed = {} /\ work'[s].failed = {} /\ at'[s] = "dead"
      BY <2>2 DEF Crash, NoWork
    <3> QED BY <3>1, <1>same, <1>new, <1>g
  <2>3. CASE UNCHANGED <<at, work>>
    BY <2>3, <1>same, <1>g
  <2> QED BY <1>1, <2>1, <2>2, <2>3 DEF Select, TickStep, LocalTimeout, AcquireLock,
     AcquireLocally, PauseUnassigned, DispatchOther, DispatchRaises, ReleaseTick
<1>2. ASSUME NEW s \in Syncs, SyncStep(s) PROVE Seen'
  <2>o. \A t \in Syncs \ {s} : work'[t] = work[t] /\ at'[t] = at[t]
    <3>1. CASE ReleaseSync(s)
      BY <3>1 DEF ReleaseSync, goto, TypeOK
    <3> QED BY <1>2, <3>1, WorkerStep
  <2>g. ASSUME Fine(s)' PROVE Seen'
    BY <2>g, <2>o, <1>same, <1>g
  <2> USE DEF TypeOK, goto
  <2>w. work[s] \in WorkType /\ Fine(s)
    BY <1>f
  <2>l. ASSUME leave(s) PROVE Fine(s)'
    <3>1. CASE work[s].how = "schedule"
      <4>1. /\ at'[s] = "release"
            /\ work'[s] = [NoWork EXCEPT !.pod = work[s].pod, !.how = "schedule"]
        BY <2>l, <3>1 DEF leave
      <4>2. work'[s].listed = {} /\ work'[s].failed = {}
        BY <4>1 DEF NoWork
      <4> QED BY <4>1, <4>2, <1>new
    <3>2. CASE work[s].how # "schedule"
      <4>1. at'[s] = "done" /\ work'[s] = NoWork
        BY <2>l, <3>2 DEF leave
      <4>2. work'[s].listed = {} /\ work'[s].failed = {}
        BY <4>1 DEF NoWork
      <4> QED BY <4>1, <4>2, <1>new
    <3> QED BY <3>1, <3>2
  <2>1. CASE ListAll(s)
    <3>1. work'[s].listed = 1..head /\ work'[s].failed = work[s].failed /\ at'[s] = "token"
      BY <2>1, <2>w DEF ListAll, WorkType
    <3> QED BY <3>1, <1>h, <2>w, <2>g
  <2>2. CASE ListChanged(s)
    <3> DEFINE changes == {c \in 1..head : c > work[s].from}
    <3>1. work' = [work EXCEPT ![s].listed = changes, ![s].new = head]
      BY <2>2 DEF ListChanged
    <3>2. changes \subseteq 1..head
      OBVIOUS
    <3> HIDE DEF changes
    <3>3. /\ work'[s].listed = changes /\ work'[s].new = head
          /\ work'[s].failed = work[s].failed
      BY <3>1, <2>w DEF WorkType
    <3> QED BY <3>2, <3>3, <1>h, <2>w, <2>g
  <2>3. CASE ReadStartToken(s)
    <3>1. work'[s].listed = work[s].listed /\ work'[s].failed = work[s].failed /\ work'[s].new = head
      BY <2>3, <2>w DEF ReadStartToken, WorkType
    <3> QED BY <3>1, <1>h, <2>w, <2>g
  <2>4. CASE UploadAccepted(s) \/ UploadFailed(s)
    <3>1. PICK c \in Todo(s) : work'[s].failed \in {work[s].failed, work[s].failed \cup {c}}
      BY <2>4, <2>w DEF UploadAccepted, UploadFailed, WorkType
    <3>2. /\ work'[s].listed = work[s].listed /\ work'[s].new = work[s].new
          /\ at[s] = "upload"
      BY <2>4, <2>w DEF UploadAccepted, UploadFailed, WorkType
    <3>3. c \in 1..head
      BY <2>w DEF Todo
    <3> QED BY <3>1, <3>2, <3>3, <1>h, <2>w, <2>g
  <2>5. CASE Settle(s)
    <3>1. work'[s] = work[s] /\ at[s] = "upload"
      BY <2>5 DEF Settle
    <3> QED BY <3>1, <1>h, <2>w, <2>g
  <2>6. CASE RecordSuccess(s) \/ WriteFailure(s) \/ FailureLost(s) \/ StartFails(s) \/ Post(s)
    BY <2>6, <2>l, <2>g DEF RecordSuccess, WriteFailure, FailureLost, StartFails, Post
  <2>7. CASE WorkRaises(s) \/ CountErrors(s) \/ RecordFailure(s) \/ StartManual(s)
    <3>1. work'[s].listed = work[s].listed /\ work'[s].failed = work[s].failed /\ at'[s] \notin {"upload", "record"}
      BY <2>7, <2>w DEF WorkRaises, CountErrors, RecordFailure, StartManual, WorkType
    <3> QED BY <3>1, <1>h, <2>w, <2>g
  <2>8. CASE ReleaseSync(s)
    <3>1. work'[s].listed = {} /\ work'[s].failed = {} /\ at'[s] = "done"
      BY <2>8 DEF ReleaseSync, NoWork
    <3> QED BY <3>1, <1>new, <2>g
  <2> QED BY <1>2, <2>1, <2>2, <2>3, <2>4, <2>5, <2>6, <2>7, <2>8 DEF SyncStep
<1>3. ASSUME NEW r \in Requests, RequestStep(r) PROVE Seen'
  <2>1. ASSUME NEW p \in Pods, NEW s \in Syncs, InsertSync(r, p, s) PROVE Seen'
    <3>1. \A t \in Syncs \ {s} : work'[t] = work[t] /\ at'[t] = at[t]
      BY <2>1 DEF InsertSync, goto, TypeOK
    <3>2. work'[s].listed = {} /\ work'[s].failed = {} /\ at'[s] \notin {"upload", "record"}
      BY <2>1 DEF InsertSync, goto, TypeOK, NoWork
    <3> QED BY <3>1, <3>2, <1>same, <1>new, <1>g
  <2>2. CASE UNCHANGED <<at, work>>
    BY <2>2, <1>same, <1>g
  <2> QED BY <1>3, <2>1, <2>2 DEF RequestStep, Ask, CheckRunning, InsertRefused
<1>4. CASE WorldStep
  <2>1. UNCHANGED <<at, work>>
    BY <1>4 DEF WorldStep, Expire, RenewalsFail, Update, Reconnect, Delete, Wait, Change
  <2> QED BY <2>1, <1>same, <1>g
<1> QED BY <1>1, <1>2, <1>3, <1>4, Steps

LEMMA SeenInvariant == Spec => [](IInv /\ Seen)
<1>1. IInv /\ Seen /\ [Next]_vars => Seen'
  <2> SUFFICES ASSUME IInv, Seen, [Next]_vars PROVE Seen'
    OBVIOUS
  <2>1. CASE Next
    BY <2>1, SeenStep, StepIInv DEF IInv
  <2>2. CASE UNCHANGED vars
    BY <2>2 DEF vars, Seen
  <2> QED BY <2>1, <2>2
<1> QED BY <1>1, InitSeen, Invariant, PTL DEF Spec
\* Who disturbed the schedule has disturbed it for good.
LEMMA DisturbedGrows ==
  ASSUME TypeOK, TypeOK', Next, Disturbed
  PROVE  Disturbed'
<1> SUFFICES ASSUME ~Disturbed' PROVE FALSE
  OBVIOUS
<1>1. faults' = 0 /\ Unasked'
  BY DEF Disturbed, Unasked, TypeOK
<1>2. faults = 0 /\ Unasked
  BY <1>1, FaultsGrow, AskedStays
<1> QED BY <1>2 DEF Disturbed, Unasked

\* A step that leaves the drive, the token and every sync where they are is none
\* of the contract, or disturbs it.
LEMMA ContractStill ==
  ASSUME UNCHANGED <<head, delivered \cup missed, token, Open, Over, status = "deleted">>,
         Disturbed => Disturbed'
  PROVE  [Contract!Next]_Contract!vars
<1>1. CASE Disturbed <=> Disturbed'
  <2>1. Disturbed' = Disturbed
    BY <1>1 DEF Disturbed
  <2> QED BY <2>1 DEF Contract!vars
<1>2. CASE ~(Disturbed <=> Disturbed')
  <2>1. Disturbed' = TRUE
    BY <1>2 DEF Disturbed
  <2>2. Contract!Disturb
    BY <2>1 DEF Contract!Disturb
  <2> QED BY <2>2 DEF Contract!Next
<1> QED BY <1>1, <1>2

\* What is open and over after a worker has moved on ...
LEMMA OpenStays ==
  ASSUME NEW s \in Syncs, at[s] \in Live \ {"release"}, at'[s] \in Live \ {"release"},
         \A t \in Syncs \ {s} : at'[t] = at[t]
  PROVE  UNCHANGED <<Open, Over>>
  BY DEF Open, Over, Running, Live

\* ... and after it has had its last word.
LEMMA OpenEnds ==
  ASSUME TypeOK, NEW s \in Syncs, at[s] \in Live \ {"release"}, leave(s)
  PROVE  s \in Open /\ Open' = Open \ {s} /\ Over' = Over \cup {s}
<1>1. /\ at'[s] \in {"release", "done"}
      /\ \A t \in Syncs \ {s} : at'[t] = at[t]
  BY DEF TypeOK, leave, goto
<1>2. \A t \in Syncs \ {s} : (t \in Open' <=> t \in Open) /\ (t \in Over' <=> t \in Over)
  BY <1>1 DEF Open, Over, Running
<1>3. s \in Open /\ s \notin Open' /\ s \in Over'
  BY <1>1 DEF Open, Over, Running, Live
<1>4. Open \subseteq Syncs /\ Over \subseteq Syncs /\ Open' \subseteq Syncs /\ Over' \subseteq Syncs
  BY DEF Open, Over
<1> QED BY <1>2, <1>3, <1>4

\* While nobody disturbs it the schedule alone starts syncs, and a pod that holds
\* the lock finds none open.
LEMMA NobodyElse ==
  ASSUME TypeOK, ScheduledExclusion, Ahead, ~Disturbed
  PROVE  /\ \A p \in Pods : Holding(p) => Open = {}
         /\ \A s \in Syncs : at[s] \in {"upload", "record"} => work[s].new >= token
<1>1. faults = 0 /\ Unasked
  BY DEF Disturbed, Unasked, TypeOK
<1>2. /\ \A s \in Syncs : Running(s) => Scheduled(s)
      /\ \A s \in Syncs : at[s] \in {"upload", "record"} => work[s].new >= token
  BY <1>1 DEF Ahead
<1>3. \A p \in Pods, s \in Syncs : ~(Holding(p) /\ Scheduled(s))
  BY <1>1 DEF ScheduledExclusion
<1> QED BY <1>2, <1>3 DEF Open

\* Inserting a sync record begins its sync.
LEMMA ContractBegins ==
  ASSUME TypeOK, RowFirst, NEW s \in Syncs, Fresh(s), status # "deleted", NEW l,
         l \in {"list", "parse", "post"}, goto(s, l), Disturbed \/ Open = {},
         UNCHANGED <<head, delivered, missed, token, status>>,
         Disturbed' = Disturbed
  PROVE  [Contract!Next]_Contract!vars
<1>1. at[s] = "none"
  BY DEF RowFirst, Fresh
<1>2. at'[s] = l /\ \A t \in Syncs \ {s} : at'[t] = at[t]
  BY DEF TypeOK, goto
<1>3. \A t \in Syncs \ {s} : (t \in Open' <=> t \in Open) /\ (t \in Over' <=> t \in Over)
  BY <1>2 DEF Open, Over, Running
<1>4. s \notin Open \cup Over /\ s \in Open' /\ s \notin Over'
  BY <1>1, <1>2 DEF Open, Over, Running, Live
<1>5. Open \subseteq Syncs /\ Over \subseteq Syncs /\ Open' \subseteq Syncs /\ Over' \subseteq Syncs
  BY DEF Open, Over
<1>6. Open' = Open \cup {s} /\ Over' = Over
  BY <1>3, <1>4, <1>5
<1>7. Contract!Begin(s)
  BY <1>4, <1>6 DEF Contract!Begin
<1> QED BY <1>7 DEF Contract!Next

LEMMA ContractOfPod ==
  ASSUME IInv, RowFirst, Disturbed => Disturbed', NEW p \in Pods,
         Select(p) \/ TickStep(p) \/ LocalTimeout(p) \/ Crash(p)
  PROVE  [Contract!Next]_Contract!vars
<1>i. TypeOK /\ ScheduledExclusion /\ Ahead
  BY DEF IInv
<1>1. ASSUME NEW s \in Syncs, Dispatch(p, s) PROVE [Contract!Next]_Contract!vars
  <2>1. /\ Fresh(s) /\ status # "deleted" /\ goto(s, "list")
        /\ UNCHANGED <<head, delivered, missed, token, status, faults, asked>>
    BY <1>1 DEF Dispatch
  <2>2. Disturbed' = Disturbed
    BY <2>1 DEF Disturbed
  <2>3. Disturbed \/ Open = {}
    <3>1. Holding(p)
      BY <1>1 DEF Dispatch, Holding
    <3> QED BY <1>i, <3>1, NobodyElse
  <2> QED BY <1>i, <2>1, <2>2, <2>3, ContractBegins
<1>2. CASE Crash(p)
  <2> DEFINE mine == {s \in Syncs : Running(s) /\ work[s].pod = p}
  <2>1. /\ at' = [s \in Syncs |-> IF s \in mine THEN "dead" ELSE at[s]]
        /\ UNCHANGED <<head, delivered, missed, token, status, faults, asked>>
    BY <1>2 DEF Crash
  <2>2. \A s \in Syncs : s \notin mine => at'[s] = at[s]
    BY <2>1
  <2>3. \A s \in mine : at'[s] = "dead" /\ Running(s)
    BY <2>1
  <2> HIDE DEF mine
  <2>4. \A s \in Syncs : /\ s \in Open' <=> s \in Open \ mine
                         /\ s \in Over' <=> s \in Over \cup (mine \cap Open)
    BY <2>2, <2>3 DEF Open, Over, Running, Live
  <2>5. Open \subseteq Syncs /\ Over \subseteq Syncs /\ Open' \subseteq Syncs /\ Over' \subseteq Syncs
    BY DEF Open, Over
  <2>6. Open' = Open \ (mine \cap Open) /\ Over' = Over \cup (mine \cap Open)
    BY <2>4, <2>5
  <2>7. Disturbed' = Disturbed
    BY <2>1 DEF Disturbed
  <2>8. Contract!End
    BY <2>1, <2>6, <2>7 DEF Contract!End
  <2> QED BY <2>8 DEF Contract!Next
<1>3. CASE UNCHANGED at
  <2>1. UNCHANGED <<head, delivered, missed, token, status = "deleted">>
    BY <1>3, <1>i DEF Select, TickStep, LocalTimeout, Crash, AcquireLock, AcquireLocally,
       PauseUnassigned, SetConnector, Dispatch, DispatchOther, DispatchRaises, ReleaseTick
  <2>2. UNCHANGED <<Open, Over>>
    BY <1>3 DEF Open, Over, Running
  <2> QED BY <2>1, <2>2, ContractStill
<1> QED
  BY <1>1, <1>2, <1>3 DEF Select, TickStep, LocalTimeout, AcquireLock,
     AcquireLocally, PauseUnassigned, DispatchOther, DispatchRaises, ReleaseTick
\* A worker delivers and gives up while its sync is open.
LEMMA ContractAccounts ==
  ASSUME NEW s \in Syncs, at[s] \in Live \ {"release"}, at'[s] \in Live \ {"release"},
         \A t \in Syncs \ {s} : at'[t] = at[t],
         NEW some \in SUBSET (1..head),
         delivered' \cup missed' = (delivered \cup missed) \cup some,
         UNCHANGED <<head, token, status>>, Disturbed' = Disturbed
  PROVE  [Contract!Next]_Contract!vars
<1>1. UNCHANGED <<Open, Over>> /\ Open # {}
  BY OpenStays DEF Open, Running
<1>2. Contract!Account
  BY <1>1 DEF Contract!Account
<1> QED BY <1>2 DEF Contract!Next

\* The last word of a worker that leaves the token where it is.
LEMMA ContractEnds ==
  ASSUME TypeOK, NEW s \in Syncs, at[s] \in Live \ {"release"}, leave(s),
         UNCHANGED <<head, delivered, missed, token, status = "deleted">>,
         Disturbed' = Disturbed
  PROVE  [Contract!Next]_Contract!vars
<1>1. s \in Open /\ Open' = Open \ {s} /\ Over' = Over \cup {s}
  BY OpenEnds
<1>2. Contract!End
  BY <1>1 DEF Contract!End
<1> QED BY <1>2 DEF Contract!Next

LEMMA ContractOfWorker ==
  ASSUME IInv, Seen, Disturbed => Disturbed', NEW s \in Syncs, SyncStep(s)
  PROVE  [Contract!Next]_Contract!vars
<1>i. TypeOK /\ ScheduledExclusion /\ Ahead /\ Accounted
  BY DEF IInv
<1>w. /\ work[s] \in WorkType
      /\ work[s].listed \subseteq 1..head /\ work[s].failed \subseteq 1..head
      /\ at[s] \in {"upload", "record"} => work[s].new \in Nat
  BY <1>i DEF TypeOK, Seen
<1>m. ASSUME ~ReleaseSync(s) PROVE \A t \in Syncs \ {s} : at'[t] = at[t]
  BY <1>i, <1>m, WorkerStep
<1>d. ASSUME UNCHANGED <<faults, asked>> PROVE Disturbed' = Disturbed
  BY <1>d DEF Disturbed
<1>k. ASSUME at[s] \in Live \ {"release"}, at'[s] \in Live \ {"release"}, ~ReleaseSync(s),
             UNCHANGED <<head, delivered, missed, token, status = "deleted">>
      PROVE  [Contract!Next]_Contract!vars
  BY <1>k, <1>m, OpenStays, ContractStill
<1> USE <1>i
<1>1. CASE ListAll(s) \/ ListChanged(s)
  BY <1>1, <1>k DEF ListAll, ListChanged, ReleaseSync, goto, TypeOK, Live
<1>2. CASE ReadStartToken(s)
  <2>1. /\ at[s] = "token" /\ at'[s] = "upload" /\ ~ReleaseSync(s)
        /\ delivered' = delivered /\ missed' = missed \cup ((1..head) \ work[s].listed)
        /\ UNCHANGED <<head, token, status, faults, asked>>
    BY <1>2 DEF ReadStartToken, ReleaseSync, goto, TypeOK
  <2>2. delivered' \cup missed' = (delivered \cup missed) \cup ((1..head) \ work[s].listed)
    BY <2>1
  <2>3. at[s] \in Live \ {"release"} /\ at'[s] \in Live \ {"release"}
    BY <2>1 DEF Live
  <2> QED BY <2>1, <2>2, <2>3, <1>m, <1>d, ContractAccounts
<1>3. CASE UploadAccepted(s) \/ UploadFailed(s)
  <2>1. /\ at[s] = "upload" /\ at'[s] = "upload" /\ ~ReleaseSync(s)
        /\ missed' = missed
        /\ UNCHANGED <<head, token, status, faults, asked>>
    BY <1>3 DEF UploadAccepted, UploadFailed, ReleaseSync, TypeOK
  <2>2. PICK some \in SUBSET (1..head) : delivered' = delivered \cup some
    <3>1. PICK c \in Todo(s) : delivered' \in {delivered, delivered \cup {c}}
      BY <1>3 DEF UploadAccepted, UploadFailed
    <3>2. {} \in SUBSET (1..head) /\ {c} \in SUBSET (1..head)
      BY <1>w DEF Todo
    <3> QED BY <3>1, <3>2
  <2>3. delivered' \cup missed' = (delivered \cup missed) \cup some
    BY <2>1, <2>2
  <2>4. at[s] \in Live \ {"release"} /\ at'[s] \in Live \ {"release"}
    BY <2>1 DEF Live
  <2> QED BY <2>1, <2>3, <2>4, <1>m, <1>d, ContractAccounts
<1>4. CASE Settle(s)
  <2>1. /\ at[s] = "upload" /\ at'[s] \in {"count", "record"} /\ ~ReleaseSync(s)
        /\ delivered' = delivered /\ missed' \in {missed, missed \cup work[s].failed}
        /\ UNCHANGED <<head, token, status, faults, asked>>
    BY <1>4 DEF Settle, ReleaseSync, goto, TypeOK
  <2>2. PICK some \in SUBSET (1..head) : missed' = missed \cup some
    <3>1. work[s].failed \subseteq 1..head
      BY <1>w
    <3>2. {} \in SUBSET (1..head)
      OBVIOUS
    <3> QED BY <2>1, <3>1, <3>2
  <2>3. delivered' \cup missed' = (delivered \cup missed) \cup some
    BY <2>1, <2>2
  <2>4. at[s] \in Live \ {"release"} /\ at'[s] \in Live \ {"release"}
    BY <2>1 DEF Live
  <2> QED BY <2>1, <2>3, <2>4, <1>m, <1>d, ContractAccounts
<1>5. CASE RecordSuccess(s)
  <2> DEFINE t == work[s].new
  <2>1. /\ at[s] = "record" /\ leave(s)
        /\ UNCHANGED <<head, delivered, missed, faults, asked>>
        /\ \/ status = "deleted" /\ UNCHANGED <<token, status>>
           \/ status # "deleted" /\ status' = status /\ token' = t
    BY <1>5 DEF RecordSuccess, SetConnector
  <2>2. at[s] \in Live \ {"release"} /\ Disturbed' = Disturbed
    BY <2>1, <1>d DEF Live
  <2>3. CASE status = "deleted"
    BY <2>1, <2>2, <2>3, ContractEnds
  <2>4. CASE status # "deleted"
    <3>1. t \in Nat /\ t <= head /\ \A c \in 1..head : c <= t => c \in delivered \cup missed
      BY <1>w, <2>1 DEF Accounted, Covered, Cov
    <3>2. head \in Nat
      BY ConnectorAssumption DEF TypeOK
    <3>3. t \in 0..head /\ 1..t \subseteq delivered \cup missed
      BY <3>1, <3>2
    <3>4. Disturbed \/ t >= token
      BY <2>1, NobodyElse
    <3>5. Contract!Passable(t)
      BY <3>3, <3>4 DEF Contract!Passable
    <3>6. s \in Open /\ Open' = Open \ {s} /\ Over' = Over \cup {s}
      BY <2>1, <2>2, OpenEnds
    <3>7. Contract!Advance(s)
      BY <2>1, <2>2, <2>4, <3>3, <3>5, <3>6 DEF Contract!Advance
    <3> QED BY <3>7 DEF Contract!Next
  <2> QED BY <2>3, <2>4
<1>6. CASE WriteFailure(s) \/ FailureLost(s) \/ StartFails(s) \/ Post(s)
  <2>1. /\ at[s] \in {"fail", "count", "failWrite", "parse", "post"} /\ leave(s)
        /\ UNCHANGED <<head, delivered, missed, token, status = "deleted", asked>>
    BY <1>6 DEF WriteFailure, FailureLost, StartFails, Post, SetConnector
  <2>2. UNCHANGED faults
    BY <1>6 DEF WriteFailure, FailureLost, StartFails, Post, OneDbError
  <2>3. at[s] \in Live \ {"release"}
    BY <2>1 DEF Live
  <2> QED BY <2>1, <2>2, <2>3, <1>d, ContractEnds
<1>7. CASE WorkRaises(s) \/ RecordFailure(s) \/ CountErrors(s) \/ StartManual(s)
  <2>1. /\ at[s] \in {"list", "token", "upload", "record", "count", "failWrite", "fail", "parse"}
        /\ at'[s] \in {"fail", "count", "failWrite", "list"}
        /\ UNCHANGED <<head, delivered, missed, token>>
    BY <1>7 DEF WorkRaises, RecordFailure, CountErrors, StartManual, SetConnector, goto, TypeOK
  <2>2. (status' = "deleted") = (status = "deleted")
    BY <1>7 DEF WorkRaises, RecordFailure, CountErrors, StartManual, SetConnector
  <2>3. ~ReleaseSync(s) /\ at[s] \in Live \ {"release"} /\ at'[s] \in Live \ {"release"}
    BY <2>1 DEF ReleaseSync, Live
  <2> QED BY <2>1, <2>2, <2>3, <1>k
<1>8. CASE ReleaseSync(s)
  <2>1. /\ at[s] = "release" /\ at'[s] = "done" /\ \A t \in Syncs \ {s} : at'[t] = at[t]
        /\ UNCHANGED <<head, delivered, missed, token, status>>
    BY <1>8 DEF ReleaseSync, goto, TypeOK
  <2>2. UNCHANGED <<Open, Over>>
    BY <2>1 DEF Open, Over, Running, Live
  <2> QED BY <2>1, <2>2, ContractStill
<1> QED BY <1>1, <1>2, <1>3, <1>4, <1>5, <1>6, <1>7, <1>8 DEF SyncStep
LEMMA ContractOfRequest ==
  ASSUME IInv, RowFirst, Disturbed => Disturbed', NEW r \in Requests, RequestStep(r)
  PROVE  [Contract!Next]_Contract!vars
<1>i. TypeOK
  BY DEF IInv
<1>1. ASSUME NEW p \in Pods, NEW s \in Syncs, InsertSync(r, p, s)
      PROVE  [Contract!Next]_Contract!vars
  <2> DEFINE l == IF kind = "google_drive" THEN "parse" ELSE "post"
  <2>1. /\ Fresh(s) /\ status # "deleted" /\ goto(s, l) /\ l \in {"list", "parse", "post"}
        /\ UNCHANGED <<head, delivered, missed, token, status>>
        /\ asked[r] = "clear"
    BY <1>1 DEF InsertSync
  <2> HIDE DEF l
  <2>2. Disturbed
    BY <2>1 DEF Disturbed
  <2>3. Disturbed' = Disturbed
    BY <2>2 DEF Disturbed
  <2> QED BY <1>i, <2>1, <2>2, <2>3, ContractBegins
<1>2. CASE Ask(r) \/ CheckRunning(r) \/ InsertRefused(r)
  <2>1. UNCHANGED <<at, head, delivered, missed, token, status>>
    BY <1>2 DEF Ask, CheckRunning, InsertRefused
  <2>2. UNCHANGED <<Open, Over>>
    BY <2>1 DEF Open, Over, Running
  <2> QED BY <2>1, <2>2, ContractStill
<1> QED BY <1>1, <1>2 DEF RequestStep

LEMMA ContractOfWorld ==
  ASSUME IInv, Disturbed => Disturbed', WorldStep
  PROVE  [Contract!Next]_Contract!vars
<1>1. UNCHANGED at
  BY DEF WorldStep, Expire, RenewalsFail, Update, Reconnect, Delete, Wait, Change
<1>2. UNCHANGED <<Open, Over>>
  BY <1>1 DEF Open, Over, Running
<1>3. CASE Delete
  <2>1. /\ status # "deleted" /\ status' = "deleted" /\ token' = NoToken
        /\ UNCHANGED <<head, delivered, missed, faults, asked>>
    BY <1>3 DEF Delete
  <2>2. Disturbed' = Disturbed
    BY <2>1 DEF Disturbed
  <2>3. Contract!Delete
    BY <1>2, <2>1, <2>2 DEF Contract!Delete, Contract!None, NoToken
  <2> QED BY <2>3 DEF Contract!Next
<1>4. CASE Change
  <2>1. head' = head + 1 /\ UNCHANGED <<delivered, missed, token, status, faults, asked>>
    BY <1>4 DEF Change
  <2>2. Disturbed' = Disturbed
    BY <2>1 DEF Disturbed
  <2>3. Contract!Change
    BY <1>2, <2>1, <2>2 DEF Contract!Change
  <2> QED BY <2>3 DEF Contract!Next
<1>5. CASE Expire \/ RenewalsFail \/ Update("active") \/ Update("paused") \/ Wait
  <2>1. UNCHANGED <<head, delivered, missed, token, status = "deleted">>
    BY <1>5 DEF Expire, RenewalsFail, Update, SetConnector, Wait
  <2> QED BY <1>2, <2>1, ContractStill
<1>6. CASE Reconnect
  <2>1. /\ status # "deleted" /\ status' # "deleted" /\ token' = NoToken
        /\ UNCHANGED <<head, delivered, missed, faults, asked>>
    BY <1>6 DEF Reconnect
  <2>2. Disturbed' = Disturbed
    BY <2>1 DEF Disturbed
  <2>3. Contract!Reset
    BY <1>2, <2>1, <2>2 DEF Contract!Reset, Contract!None, NoToken
  <2> QED BY <2>3 DEF Contract!Next
<1> QED BY <1>3, <1>4, <1>5, <1>6 DEF WorldStep

LEMMA ContractStep ==
  ASSUME IInv, RowFirst, Seen, [Next]_vars
  PROVE  [Contract!Next]_Contract!vars
<1>1. CASE Next
  <2>1. TypeOK /\ TypeOK'
    BY TypeStep DEF IInv
  <2>2. Disturbed => Disturbed'
    BY <1>1, <2>1, DisturbedGrows
  <2> QED
    BY <1>1, <2>2, Steps, ContractOfPod, ContractOfWorker, ContractOfRequest, ContractOfWorld
<1>2. CASE UNCHANGED vars
  BY <1>2 DEF vars, Contract!vars, Open, Over, Running, Disturbed
<1> QED BY <1>1, <1>2

\* Schedulers, workers, router and lock implement the contract of a connector: for
\* any number of pods, requests, syncs, changes and mishaps a sync begins once and
\* never on a deleted connector, one runs at a time while Redis answers and nobody
\* asks, only running syncs deliver, and lastSyncToken moves only when a sync ends,
\* to a change up to which everything is accounted for, or is emptied.
THEOREM ContractRefinement == Spec => ImplementsContract
<1>1. Init => Contract!Init
  <2> SUFFICES ASSUME Init PROVE Contract!Init
    OBVIOUS
  <2>1. Open = {} /\ Over = {}
    BY DEF Init, Open, Over, Running, Live
  <2>2. Disturbed = FALSE
    BY DEF Init, Disturbed
  <2> QED BY <2>1, <2>2 DEF Init, Contract!Init, Contract!None, NoToken
<1>2. IInv /\ RowFirst /\ Seen /\ [Next]_vars => [Contract!Next]_Contract!vars
  BY ContractStep
<1>3. Spec => []RowFirst
  <2>1. Init => RowFirst
    BY DEF Init, RowFirst
  <2>2. TypeOK /\ TypeOK' /\ RowFirst /\ [Next]_vars => RowFirst'
    BY RowFirstStep
  <2> QED BY <2>1, <2>2, TypeCorrect, PTL DEF Spec
<1> QED
  BY <1>1, <1>2, <1>3, SeenInvariant, PTL DEF Spec, ImplementsContract, Contract!Spec
-----------------------------------------------------------------------------
(* What the contract is worth *)

\* The contract, without any of the connector's own invariants, accounts for
\* every change up to its token, knows none the drive does not have, runs no sync
\* a second time and no two at once while nothing disturbs it.
AllAccounted ==
  /\ head \in Nat /\ token \in Nat \cup {Contract!None}
  /\ delivered \cup missed \subseteq 1..head
  /\ token \in Nat => 1..token \subseteq delivered \cup missed
  /\ status = "deleted" => token = Contract!None
  /\ Open \cap Over = {}
  /\ ~Disturbed => \A s, u \in Open : s = u

LEMMA ContractKeepsAccount ==
  ASSUME AllAccounted, [Contract!Next]_Contract!vars
  PROVE  /\ AllAccounted'
         /\ ~Disturbed /\ status' # "deleted" => token' >= token \/ token' = Contract!None
<1> DEFINE Goal == /\ AllAccounted'
                   /\ ~Disturbed /\ status' # "deleted" => token' >= token \/ token' = Contract!None
<1>1. ASSUME Contract!Change PROVE Goal
  BY <1>1 DEF AllAccounted, Contract!None, Contract!Change
<1>2. ASSUME Contract!Disturb PROVE Goal
  BY <1>2 DEF AllAccounted, Contract!None, Contract!Disturb
<1>3. ASSUME Contract!Account PROVE Goal
  <2> DEFINE accounted == delivered \cup missed
  <2>1. PICK some \in SUBSET (1..head) : accounted' = accounted \cup some
    BY <1>3 DEF Contract!Account
  <2>2. UNCHANGED <<head, token, Open, Over, Disturbed, status = "deleted">>
    BY <1>3 DEF Contract!Account
  <2>3. accounted \subseteq 1..head /\ (token \in Nat => 1..token \subseteq accounted)
    BY DEF AllAccounted
  <2> HIDE DEF accounted
  <2>4. accounted' \subseteq 1..head /\ (token \in Nat => 1..token \subseteq accounted')
    BY <2>1, <2>3
  <2> QED BY <2>2, <2>4 DEF AllAccounted, Contract!None, accounted
<1>4. ASSUME Contract!End PROVE Goal
  BY <1>4 DEF AllAccounted, Contract!None, Contract!End
<1>5. ASSUME Contract!Delete \/ Contract!Reset PROVE Goal
  BY <1>5 DEF AllAccounted, Contract!None, Contract!Delete, Contract!Reset
<1>6. ASSUME NEW s \in Syncs, Contract!Begin(s)
      PROVE  Goal
  BY <1>6 DEF AllAccounted, Contract!None, Contract!Begin
<1>7. ASSUME NEW s \in Syncs, Contract!Advance(s)
      PROVE  Goal
  BY <1>7 DEF AllAccounted, Contract!None, Contract!Advance, Contract!Passable
<1>8. ASSUME UNCHANGED Contract!vars PROVE Goal
  BY <1>8 DEF AllAccounted, Contract!None, Contract!vars
<1> HIDE DEF Goal
<1>9. Goal
  BY <1>1, <1>2, <1>3, <1>4, <1>5, <1>6, <1>7, <1>8 DEF Contract!Next
<1> QED BY <1>9 DEF Goal

\* Whatever implements the contract skips no change silently and moves its token
\* only forward until a Redis command fails or somebody asks, unless it is emptied
\* so that the folder is listed again: ContractRefinement
\* carries both over to the schedulers and workers (executeGoogleDriveSync).
THEOREM ContractAccountsForAll ==
  Contract!Spec => /\ []AllAccounted
                   /\ [][~Disturbed /\ status' # "deleted"
                         => token' >= token \/ token' = Contract!None]_Contract!vars
<1>1. Contract!Init => AllAccounted
  BY DEF Contract!Init, AllAccounted, Contract!None
<1>2. ASSUME AllAccounted, [Contract!Next]_Contract!vars
      PROVE  /\ AllAccounted'
             /\ [~Disturbed /\ status' # "deleted"
                 => token' >= token \/ token' = Contract!None]_Contract!vars
  BY <1>2, ContractKeepsAccount
<1> QED
  BY <1>1, <1>2, PTL DEF Contract!Spec
=============================================================================
