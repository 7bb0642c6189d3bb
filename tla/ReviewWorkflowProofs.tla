------------------------- MODULE ReviewWorkflowProofs -------------------------
(***************************************************************************)
(* Theorems about the review workflow, for any number of requests,         *)
(* records, reconcilers, retries and failures.                             *)
(***************************************************************************)
EXTENDS ReviewWorkflow, FiniteSetTheorems, SequenceTheorems, TLAPS

\* The document index points to a record that is there.
IndexBacked == byDoc # None => Exists(byDoc)

\* What a request is about to save is a consistent record with an id.
CopiesConsistent ==
  \A q \in Requests :
    pc[q] = "save" =>
      copy[q].id \in Records /\ Consistent(copy[q].rec) /\ op[q] \in Operations

\* What a request still has to push is the outcome of a route that pushes one.
PushesNamed == \A q \in Requests : pc[q] = "sync" => op[q] \in DOMAIN SyncStatus

\* A reconciliation that repairs has the row it repairs.
RowsLeft == \A c \in Reconcilers : stage[c] = "patch" => rows[c] # <<>>

\* The inductive invariant for either store.
IInv ==
  /\ TypeOK
  /\ IndexBacked
  /\ CopiesConsistent
  /\ PushesNamed
  /\ RowsLeft
  /\ RecordsConsistent

\* The table, spelled out.
LEMMA Table ==
  ASSUME NEW f, NEW t
  PROVE  CanTransition(f, t) <=>
           \/ f = "draft" /\ t = "pending_review"
           \/ f = "approved" /\ t = "published"
           \/ f \in {"rejected", "revision_requested"} /\ t = "draft"
           \/ f = "published" /\ t = "archived"
           \/ f = "pending_review" /\ t \in Decisions
  BY DEF CanTransition, Transitions

\* A record that is there has all the fields of one.
LEMMA ExistingTyped == TypeOK => \A r \in Existing : recs[r] \in RecordType
  BY DEF TypeOK, Existing, Exists

\* A record operation o may make of another one: no comment is dropped, and
\* the table allows the change unless it is a new submission.
Follows(o, old, new) ==
  /\ old.trail \subseteq new.trail
  /\ \/ o \in {"submit", "ingest"}
     \/ old.status = new.status
     \/ CanTransition(old.status, new.status)
     \/ CanTransition(old.status, "draft") /\ new.status = "pending_review"

\* A request takes a well-formed and consistent copy: a record for a document
\* that has none, or what its operation makes of the record it read.
Taken(q) ==
  \E o \in Operations, r \in Records, new \in RecordType :
    /\ Consistent(new)
    /\ Take(q, o, r, new)
    /\ \/ r \in Existing /\ Follows(o, recs[r], new)
       \/ byDoc = None /\ ~Exists(r)

\* What Filed makes of a draft is a consistent record.
LEMMA FiledConsistent ==
  ASSUME NEW draft \in RecordType, ~draft.reviewed, NEW q \in Requests, NEW auto \in BOOLEAN
  PROVE  /\ Filed(draft, q, auto) \in RecordType
         /\ Consistent(Filed(draft, q, auto))
         /\ draft.trail \subseteq Filed(draft, q, auto).trail
  BY DEF Filed, RecordType, Consistent, ReviewStatuses, Decisions

\* Every operation checks the table before it takes its copy, so what it is
\* about to save is consistent with the state it was read in.
LEMMA OperateTakes ==
  ASSUME TypeOK, IndexBacked, RecordsConsistent, NEW q \in Requests, Operate(q)
  PROVE  Taken(q)
<1> USE DEF Operations
<1>1. \A r \in Existing : recs[r] \in RecordType /\ Consistent(recs[r]) /\ r \in Records
  BY ExistingTyped DEF RecordsConsistent, Existing
<1>2. CASE Submit(q)
  <2>1. Draft \in RecordType /\ ~Draft.reviewed
    BY DEF Draft, RecordType, ReviewStatuses
  <2>2. PICK o \in {"submit", "ingest"}, auto \in BOOLEAN :
          \/ /\ byDoc = None
             /\ Fresh # {}
             /\ Take(q, o, CHOOSE r \in Fresh : TRUE, Filed(Draft, q, auto))
          \/ /\ byDoc # None
             /\ Take(q, o, byDoc,
                     Filed([Draft EXCEPT !.trail = recs[byDoc].trail \cup {q}], q, auto))
    BY <1>2 DEF Submit
  <2>3. CASE byDoc = None
    <3>1. (CHOOSE r \in Fresh : TRUE) \in Records /\ ~Exists(CHOOSE r \in Fresh : TRUE)
      BY <2>2, <2>3 DEF Fresh
    <3>2. QED
      BY <2>1, <2>2, <2>3, <3>1, FiledConsistent DEF Taken
  <2>4. CASE byDoc # None
    <3>1. byDoc \in Existing
      BY <2>4 DEF IndexBacked, TypeOK, Existing
    <3>2. recs[byDoc].trail \subseteq Requests
      BY <1>1, <3>1 DEF RecordType
    <3> DEFINE again == [Draft EXCEPT !.trail = recs[byDoc].trail \cup {q}]
    <3>3. again \in RecordType /\ ~again.reviewed /\ recs[byDoc].trail \subseteq again.trail
      BY <3>2 DEF Draft, RecordType, ReviewStatuses
    <3>4. /\ Filed(again, q, auto) \in RecordType
          /\ Consistent(Filed(again, q, auto))
          /\ Follows(o, recs[byDoc], Filed(again, q, auto))
      BY <3>3, FiledConsistent DEF Follows
    <3>5. QED
      BY <1>1, <2>2, <2>4, <3>1, <3>4 DEF Taken
  <2>5. QED
    BY <2>3, <2>4
<1>3. CASE Decide(q)
  <2>1. PICK r \in Existing, target \in Decisions :
          /\ CanTransition(recs[r].status, target)
          /\ Take(q, "decide", r, [recs[r] EXCEPT !.status = target, !.reviewed = TRUE,
                                                  !.trail = @ \cup {q}])
    BY <1>3 DEF Decide
  <2>2. recs[r].status = "pending_review"
    BY <2>1, Table DEF Decisions
  <2> DEFINE new == [recs[r] EXCEPT !.status = target, !.reviewed = TRUE, !.trail = @ \cup {q}]
  <2>3. new \in RecordType /\ Consistent(new) /\ Follows("decide", recs[r], new)
    BY <1>1, <2>2, <2>1 DEF RecordType, Consistent, ReviewStatuses, Decisions, Follows
  <2>4. Take(q, "decide", r, new)
    BY <2>1
  <2> HIDE DEF new
  <2>5. QED
    BY <1>1, <2>3, <2>4 DEF Taken
<1>4. CASE Assign(q)
  <2>1. PICK r \in Existing :
          Take(q, "assign", r, [recs[r] EXCEPT !.assigned = TRUE, !.trail = @ \cup {q}])
    BY <1>4 DEF Assign
  <2> DEFINE new == [recs[r] EXCEPT !.assigned = TRUE, !.trail = @ \cup {q}]
  <2>2. new \in RecordType /\ Consistent(new) /\ Follows("assign", recs[r], new)
    BY <1>1 DEF RecordType, Consistent, Follows
  <2>3. Take(q, "assign", r, new)
    BY <2>1
  <2> HIDE DEF new
  <2>4. QED
    BY <1>1, <2>2, <2>3 DEF Taken
<1>5. CASE Remind(q)
  <2>1. PICK r \in Existing : Take(q, "remind", r, [recs[r] EXCEPT !.trail = @ \cup {q}])
    BY <1>5 DEF Remind
  <2> DEFINE new == [recs[r] EXCEPT !.trail = @ \cup {q}]
  <2>2. new \in RecordType /\ Consistent(new) /\ Follows("remind", recs[r], new)
    BY <1>1 DEF RecordType, Consistent, Follows
  <2>3. Take(q, "remind", r, new)
    BY <2>1
  <2> HIDE DEF new
  <2>4. QED
    BY <1>1, <2>2, <2>3 DEF Taken
<1>6. CASE Publish(q)
  <2>1. PICK r \in Existing :
          /\ CanTransition(recs[r].status, "published")
          /\ Take(q, "publish", r, [recs[r] EXCEPT !.status = "published"])
    BY <1>6 DEF Publish
  <2>2. recs[r].status = "approved"
    BY <2>1, Table DEF Decisions
  <2> DEFINE new == [recs[r] EXCEPT !.status = "published"]
  <2>3. new \in RecordType /\ Consistent(new) /\ Follows("publish", recs[r], new)
    BY <1>1, <2>2, <2>1 DEF RecordType, Consistent, ReviewStatuses, Follows
  <2>4. Take(q, "publish", r, new)
    BY <2>1
  <2> HIDE DEF new
  <2>5. QED
    BY <1>1, <2>3, <2>4 DEF Taken
<1>7. CASE Resubmit(q)
  <2>1. PICK r \in Existing :
          /\ CanTransition(recs[r].status, "draft")
          /\ Take(q, "resubmit", r, [recs[r] EXCEPT !.status = "pending_review",
                                                    !.reviewed = FALSE, !.assigned = FALSE,
                                                    !.trail = @ \cup {q}])
    BY <1>7 DEF Resubmit
  <2>2. recs[r].status \in {"rejected", "revision_requested"}
    BY <2>1, Table DEF Decisions
  <2> DEFINE new == [recs[r] EXCEPT !.status = "pending_review", !.reviewed = FALSE,
                                    !.assigned = FALSE, !.trail = @ \cup {q}]
  <2>3. new \in RecordType /\ Consistent(new) /\ Follows("resubmit", recs[r], new)
    BY <1>1, <2>2, <2>1 DEF RecordType, Consistent, ReviewStatuses, Follows
  <2>4. Take(q, "resubmit", r, new)
    BY <2>1
  <2> HIDE DEF new
  <2>5. QED
    BY <1>1, <2>3, <2>4 DEF Taken
<1>8. CASE Archive(q)
  <2>1. PICK r \in Existing :
          /\ CanTransition(recs[r].status, "archived")
          /\ Take(q, "archive", r, [recs[r] EXCEPT !.status = "archived"])
    BY <1>8 DEF Archive
  <2>2. recs[r].status = "published"
    BY <2>1, Table DEF Decisions
  <2> DEFINE new == [recs[r] EXCEPT !.status = "archived"]
  <2>3. new \in RecordType /\ Consistent(new) /\ Follows("archive", recs[r], new)
    BY <1>1, <2>2, <2>1 DEF RecordType, Consistent, ReviewStatuses, Follows
  <2>4. Take(q, "archive", r, new)
    BY <2>1
  <2> HIDE DEF new
  <2>5. QED
    BY <1>1, <2>3, <2>4 DEF Taken
<1>9. QED
  BY <1>2, <1>3, <1>4, <1>5, <1>6, <1>7, <1>8 DEF Operate

\* A request that takes a copy keeps the invariant.
LEMMA TakeStep ==
  ASSUME IInv, NEW q \in Requests, Taken(q)
  PROVE  IInv'
<1> USE DEF IInv, TypeOK, requestVars, reconcileVars
<1>1. PICK o \in Operations, r \in Records, new \in RecordType :
        Consistent(new) /\ Take(q, o, r, new)
  BY DEF Taken
<1>2. /\ pc' = [pc EXCEPT ![q] = "save"]
      /\ op' = [op EXCEPT ![q] = o]
      /\ copy' = [copy EXCEPT ![q] = [id |-> r, rec |-> new]]
      /\ UNCHANGED <<store, recs, byDoc, tries, doc, stage, rows, want, missed, failures>>
  BY <1>1 DEF Take
<1>3. TypeOK'
  <2>1. copy' \in [Requests -> [id : Records \cup {None}, rec : RecordType]]
    BY <1>2
  <2>2. QED
    BY <1>2, <2>1
<1>4. IndexBacked' /\ RecordsConsistent' /\ RowsLeft'
  BY <1>2 DEF IndexBacked, RecordsConsistent, RowsLeft, Existing, Exists
<1>5. CopiesConsistent'
  BY <1>1, <1>2 DEF CopiesConsistent
<1>6. PushesNamed'
  BY <1>2 DEF PushesNamed
<1>7. QED
  BY <1>3, <1>4, <1>5, <1>6

\* A request that ends keeps what concerns requests.
LEMMA EndStep ==
  ASSUME TypeOK, NEW q \in Requests, End(q)
  PROVE  /\ pc' \in [Requests -> {"idle", "save", "sync", "done"}]
         /\ op' \in [Requests -> Operations \cup {"none"}]
         /\ copy' \in [Requests -> [id : Records \cup {None}, rec : RecordType]]
         /\ tries' \in [Requests -> 0 .. MaxRetries - 1]
         /\ pc'[q] = "done"
         /\ \A p \in Requests \ {q} : pc'[p] = pc[p] /\ op'[p] = op[p] /\ copy'[p] = copy[p]
<1>1. NoCopy \in [id : Records \cup {None}, rec : RecordType]
  BY DEF NoCopy, Draft, RecordType, ReviewStatuses
<1>2. QED
  BY <1>1, ReviewAssumption DEF End, TypeOK

\* The names of the routes that push a status, and what they push.
LEMMA SyncTable ==
  /\ DOMAIN SyncStatus = {"submit", "resubmit", "publish", "archive"}
  /\ \A o \in DOMAIN SyncStatus : SyncStatus[o] \in DocStatuses
  BY DEF SyncStatus, DocStatuses

\* A save puts a consistent record into the store and under the index.
LEMMA SaveStep ==
  ASSUME IInv, NEW q \in Requests, SaveRecord(q)
  PROVE  IInv'
<1> USE DEF IInv, TypeOK, reconcileVars
<1>1. /\ pc[q] = "save" /\ copy[q].id \in Records /\ copy[q].rec \in RecordType
      /\ Consistent(copy[q].rec) /\ op[q] \in Operations
  BY DEF SaveRecord, CopiesConsistent
<1>2. /\ recs' = [recs EXCEPT ![copy[q].id] = copy[q].rec]
      /\ byDoc' = copy[q].id
      /\ UNCHANGED <<store, doc, stage, rows, want, missed, failures>>
  BY DEF SaveRecord
<1>3. /\ pc' \in [Requests -> {"idle", "save", "sync", "done"}]
      /\ op' \in [Requests -> Operations \cup {"none"}]
      /\ copy' \in [Requests -> [id : Records \cup {None}, rec : RecordType]]
      /\ tries' \in [Requests -> 0 .. MaxRetries - 1]
      /\ pc'[q] = "done" \/ (pc'[q] = "sync" /\ op'[q] \in DOMAIN SyncStatus)
      /\ \A p \in Requests \ {q} : pc'[p] = pc[p] /\ op'[p] = op[p] /\ copy'[p] = copy[p]
  <2>1. CASE /\ op[q] \in DOMAIN SyncStatus
             /\ pc' = [pc EXCEPT ![q] = "sync"]
             /\ copy' = [copy EXCEPT ![q] = NoCopy]
             /\ UNCHANGED <<op, tries>>
    <3>1. NoCopy \in [id : Records \cup {None}, rec : RecordType]
      BY DEF NoCopy, Draft, RecordType, ReviewStatuses
    <3>2. QED
      BY <2>1, <3>1
  <2>2. CASE End(q)
    BY <2>2, EndStep
  <2>3. QED
    BY <2>1, <2>2 DEF SaveRecord
<1>4. copy[q].rec # NoRecord
  BY <1>1 DEF RecordType, NoRecord, ReviewStatuses, Decisions
<1>5. TypeOK'
  BY <1>1, <1>2, <1>3
<1>6. IndexBacked'
  BY <1>1, <1>2, <1>4 DEF IndexBacked, Exists
<1>7. RecordsConsistent'
  BY <1>1, <1>2 DEF RecordsConsistent, Existing, Exists
<1>8. CopiesConsistent'
  BY <1>3 DEF CopiesConsistent
<1>9. PushesNamed'
  BY <1>3 DEF PushesNamed
<1>10. RowsLeft'
  BY <1>2 DEF RowsLeft
<1>11. QED
  BY <1>5, <1>6, <1>7, <1>8, <1>9, <1>10

\* A push, a failed attempt or a lost request keeps the invariant.
LEMMA PushStep ==
  ASSUME IInv, NEW q \in Requests, Abandon(q) \/ Sync(q) \/ SyncFails(q)
  PROVE  IInv'
<1> USE DEF IInv, TypeOK, reconcileVars
<1>1. /\ pc' \in [Requests -> {"idle", "save", "sync", "done"}]
      /\ op' \in [Requests -> Operations \cup {"none"}]
      /\ copy' \in [Requests -> [id : Records \cup {None}, rec : RecordType]]
      /\ tries' \in [Requests -> 0 .. MaxRetries - 1]
      /\ pc'[q] = "done" \/ UNCHANGED <<pc, op, copy>>
      /\ \A p \in Requests \ {q} : pc'[p] = pc[p] /\ op'[p] = op[p] /\ copy'[p] = copy[p]
  <2>1. CASE End(q)
    BY <2>1, EndStep
  <2>2. CASE /\ tries[q] + 1 < MaxRetries
             /\ tries' = [tries EXCEPT ![q] = @ + 1]
             /\ UNCHANGED <<pc, op, copy>>
    BY <2>2, ReviewAssumption
  <2>3. QED
    BY <2>1, <2>2 DEF Abandon, Sync, SyncFails
<1>2. UNCHANGED <<store, recs, byDoc, stage, rows, want, missed>>
  BY DEF Abandon, Sync, SyncFails
<1>3. doc' \in DocStatuses
  BY SyncTable DEF Abandon, Sync, SyncFails, PushesNamed
<1>4. failures' \in Nat
  BY DEF Abandon, Sync, SyncFails
<1>5. TypeOK'
  BY <1>1, <1>2, <1>3, <1>4
<1>6. IndexBacked' /\ RecordsConsistent' /\ RowsLeft'
  BY <1>2 DEF IndexBacked, RecordsConsistent, RowsLeft, Existing, Exists
<1>7. CopiesConsistent'
  BY <1>1 DEF CopiesConsistent
<1>8. PushesNamed'
  BY <1>1 DEF PushesNamed
<1>9. QED
  BY <1>5, <1>6, <1>7, <1>8

\* The scan order stays within the stages.
LEMMA ScanOrder ==
  /\ DOMAIN NextStage = DocStatuses \cup {"idle"}
  /\ \A s \in DOMAIN NextStage : NextStage[s] \in DocStatuses \cup {"check"}
  BY DEF NextStage, DocStatuses

\* A step of a reconciliation touches no record and no request.
LEMMA ReconcileStep ==
  ASSUME IInv, NEW c \in Reconcilers, Start(c) \/ Reconcile(c) \/ CallFails(c)
  PROVE  IInv'
<1> USE DEF IInv, TypeOK, requestVars
<1> DEFINE Rows == [id : Records, status : DocStatuses]
<1>1. UNCHANGED <<store, recs, byDoc, requestVars>>
  BY DEF Start, Reconcile, List, Check, Patch, Finish, CallFails
<1>2. /\ IndexBacked' /\ RecordsConsistent' /\ CopiesConsistent' /\ PushesNamed'
      /\ store' \in {"redis", "memory"}
      /\ recs' \in [Records -> RecordType \cup {NoRecord}]
      /\ byDoc' \in Records \cup {None}
      /\ pc' \in [Requests -> {"idle", "save", "sync", "done"}]
      /\ op' \in [Requests -> Operations \cup {"none"}]
      /\ copy' \in [Requests -> [id : Records \cup {None}, rec : RecordType]]
      /\ tries' \in [Requests -> 0 .. MaxRetries - 1]
  BY <1>1 DEF IndexBacked, RecordsConsistent, CopiesConsistent, PushesNamed, Existing, Exists
<1> DEFINE Scan ==
      /\ doc' \in DocStatuses
      /\ stage' \in [Reconcilers -> DocStatuses \cup {"idle", "check", "patch", "done"}]
      /\ rows' \in [Reconcilers -> Seq(Rows)]
      /\ want' \in [Reconcilers -> DocStatuses]
      /\ missed' \in [Reconcilers -> BOOLEAN]
      /\ failures' \in Nat
      /\ RowsLeft'
<1>12. ASSUME rows[c] # <<>>
       PROVE  [rows EXCEPT ![c] = Tail(@)] \in [Reconcilers -> Seq(Rows)]
  <2>1. rows[c] \in Seq(Rows)
    OBVIOUS
  <2>2. Tail(rows[c]) \in Seq(Rows)
    <3> HIDE DEF Rows
    <3>1. QED
      BY <1>12, <2>1, HeadTailProperties
  <2>3. QED
    BY <2>2
<1>3. CASE Start(c)
  <2>1. Scan
    BY <1>3, ScanOrder DEF Start, RowsLeft, DocStatuses
  <2>2. QED
    BY <1>2, <2>1
<1>4. CASE List(c)
  <2>1. stage' \in [Reconcilers -> DocStatuses \cup {"idle", "check", "patch", "done"}]
    BY <1>4, ScanOrder DEF List
  <2>2. rows' \in [Reconcilers -> Seq(Rows)]
    <3>1. CASE UNCHANGED rows
      BY <3>1
    <3>2. CASE \E r \in Existing :
                 rows' = [rows EXCEPT ![c] = Append(@, [id |-> r, status |-> stage[c]])]
      <4>1. PICK r \in Existing :
              rows' = [rows EXCEPT ![c] = Append(rows[c], [id |-> r, status |-> stage[c]])]
        BY <3>2
      <4>2. [id |-> r, status |-> stage[c]] \in Rows
        BY <1>4, <4>1 DEF List, Existing
      <4>3. rows[c] \in Seq(Rows)
        OBVIOUS
      <4>4. Append(rows[c], [id |-> r, status |-> stage[c]]) \in Seq(Rows)
        <5> HIDE DEF Rows
        <5>1. QED
          BY <4>2, <4>3, AppendProperties
      <4>5. QED
        BY <4>1, <4>4
    <3>3. QED
      BY <1>4, <3>1, <3>2 DEF List
  <2>3. RowsLeft'
    <3>1. stage'[c] # "patch"
      BY <1>4, ScanOrder DEF List, DocStatuses
    <3>2. \A d \in Reconcilers \ {c} : stage'[d] = stage[d] /\ rows'[d] = rows[d]
      BY <1>4 DEF List
    <3>3. QED
      BY <3>1, <3>2 DEF RowsLeft
  <2>4. QED
    BY <1>2, <1>4, <2>1, <2>2, <2>3 DEF List
<1>5. CASE Check(c)
  <2>1. rows' \in [Reconcilers -> Seq(Rows)]
    <3>1. rows' = rows \/ rows' = [rows EXCEPT ![c] = Tail(rows[c])]
      BY <1>5 DEF Check
    <3>2. rows[c] # <<>>
      BY <1>5 DEF Check
    <3>3. QED
      BY <3>1, <3>2, <1>12
  <2>2. want' \in [Reconcilers -> DocStatuses]
    BY <1>5 DEF Check, Mapped, ExpectedOf, DocStatuses
  <2>3. stage' = stage \/ (stage' = [stage EXCEPT ![c] = "patch"] /\ UNCHANGED rows)
    BY <1>5 DEF Check
  <2>4. RowsLeft'
    <3>1. CASE stage' = stage
      <4>1. \A d \in Reconcilers \ {c} : rows'[d] = rows[d]
        BY <1>5 DEF Check
      <4>2. stage'[c] # "patch"
        BY <1>5, <3>1 DEF Check
      <4>3. QED
        BY <3>1, <4>1, <4>2 DEF RowsLeft
    <3>2. CASE stage' = [stage EXCEPT ![c] = "patch"] /\ UNCHANGED rows
      BY <1>5, <3>2 DEF Check, RowsLeft
    <3>3. QED
      BY <2>3, <3>1, <3>2
  <2>5. QED
    BY <1>2, <1>5, <2>1, <2>2, <2>3, <2>4 DEF Check
<1>6. ASSUME rows' = [rows EXCEPT ![c] = Tail(@)], rows[c] # <<>>,
             stage' = [stage EXCEPT ![c] = "check"],
             want' = [want EXCEPT ![c] = "pending_review"]
      PROVE  /\ rows' \in [Reconcilers -> Seq(Rows)]
             /\ want' \in [Reconcilers -> DocStatuses]
             /\ stage' \in [Reconcilers -> DocStatuses \cup {"idle", "check", "patch", "done"}]
             /\ RowsLeft'
  <2>1. rows' \in [Reconcilers -> Seq(Rows)]
    BY <1>12, <1>6
  <2>2. want' \in [Reconcilers -> DocStatuses]
    BY <1>6 DEF DocStatuses
  <2>3. stage' \in [Reconcilers -> DocStatuses \cup {"idle", "check", "patch", "done"}]
    BY <1>6
  <2>4. RowsLeft'
    BY <1>6, <2>1, <2>3 DEF RowsLeft
  <2>5. QED
    BY <2>1, <2>2, <2>3, <2>4
<1>7. CASE Patch(c)
  BY <1>2, <1>6, <1>7 DEF Patch, RowsLeft
<1>8. CASE CallFails(c)
  <2>1. rows[c] # <<>>
    BY <1>8 DEF CallFails, RowsLeft
  <2>2. doc' \in DocStatuses /\ failures' \in Nat
    BY <1>8 DEF CallFails
  <2>3. missed' \in [Reconcilers -> BOOLEAN]
    BY <1>8 DEF CallFails
  <2>4. QED
    BY <1>2, <1>6, <1>8, <2>1, <2>2, <2>3 DEF CallFails
<1>9. CASE Finish(c)
  <2>1. stage' \in [Reconcilers -> DocStatuses \cup {"idle", "check", "patch", "done"}]
    BY <1>9 DEF Finish
  <2>2. RowsLeft'
    BY <1>9 DEF Finish, RowsLeft
  <2>3. QED
    BY <1>2, <1>9, <2>1, <2>2 DEF Finish
<1>10. QED
  BY <1>3, <1>4, <1>5, <1>7, <1>8, <1>9 DEF Reconcile

\* It holds initially.
LEMMA InitIInv == Init => IInv
<1> SUFFICES ASSUME Init PROVE IInv
  OBVIOUS
<1>1. NoCopy \in [id : Records \cup {None}, rec : RecordType]
  BY DEF NoCopy, Draft, RecordType, ReviewStatuses
<1>2. TypeOK
  BY <1>1, ReviewAssumption DEF Init, TypeOK, DocStatuses
<1>3. IndexBacked /\ RecordsConsistent
  BY DEF Init, IndexBacked, RecordsConsistent, Existing, Exists
<1>4. CopiesConsistent /\ PushesNamed /\ RowsLeft
  BY DEF Init, CopiesConsistent, PushesNamed, RowsLeft
<1>5. QED
  BY <1>2, <1>3, <1>4 DEF IInv

\* Every step keeps it.
LEMMA StepIInv == IInv /\ [Next]_vars => IInv'
<1> SUFFICES ASSUME IInv, [Next]_vars PROVE IInv'
  OBVIOUS
<1>1. ASSUME NEW q \in Requests, Operate(q) PROVE IInv'
  BY <1>1, OperateTakes, TakeStep DEF IInv
<1>2. CASE UNCHANGED vars
  BY <1>2
  DEF vars, requestVars, reconcileVars, IInv, TypeOK, IndexBacked, CopiesConsistent,
      PushesNamed, RowsLeft, RecordsConsistent, Existing, Exists
<1>3. QED
  BY <1>1, <1>2, SaveStep, PushStep, ReconcileStep DEF Next, Proceed

\* The invariant holds in every reachable state.
THEOREM Invariance == Spec => []IInv
  BY InitIInv, StepIInv, PTL DEF Spec

\* The workflow never leaves its types.
THEOREM TypeCorrect == Spec => []TypeOK
<1>1. IInv => TypeOK
  BY DEF IInv
<1>2. QED
  BY Invariance, <1>1, PTL

\* However requests race over one record, a record that is stored carries the
\* decision its status needs: nothing is published without an approval.
THEOREM DecisionsFit == Spec => []RecordsConsistent
<1>1. IInv => RecordsConsistent
  BY DEF IInv
<1>2. QED
  BY Invariance, <1>1, PTL

-----------------------------------------------------------------------------
(* The in-memory store *)

\* At most one request is between its read and its save, the document has at
\* most the record the index names, and the copy follows from that record.
OneWriter == \A p, q \in Requests : pc[p] = "save" /\ pc[q] = "save" => p = q
OnlyIndexed == \A r \in Existing : r = byDoc
CopiesFollow ==
  \A q \in Requests :
    pc[q] = "save" =>
      /\ byDoc # None => copy[q].id = byDoc
      /\ copy[q].id \in Existing => Follows(op[q], recs[copy[q].id], copy[q].rec)
Serial == OneWriter /\ OnlyIndexed /\ CopiesFollow

SerialInMemory == store = "memory" => Serial

\* The requests of the in-memory store work one after the other.
LEMMA SerialStep == IInv /\ SerialInMemory /\ [Next]_vars => SerialInMemory'
<1> SUFFICES ASSUME IInv, store = "memory", Serial, [Next]_vars
             PROVE  Serial'
  <2>1. [Next]_vars => store' = store
    BY DEF Next, vars, Operate, Submit, Decide, Assign, Remind, Publish, Resubmit, Archive,
           Take, Proceed, SaveRecord, Sync, Abandon, SyncFails, Start, Reconcile, List, Check,
           Patch, Finish, CallFails
  <2>2. QED
    BY <2>1 DEF SerialInMemory
<1> USE DEF IInv, TypeOK
<1>1. ASSUME NEW q \in Requests, Operate(q)
      PROVE  Serial'
  <2>1. PICK o \in Operations, r \in Records, new \in RecordType :
          /\ Take(q, o, r, new)
          /\ \/ r \in Existing /\ Follows(o, recs[r], new)
             \/ byDoc = None /\ ~Exists(r)
    BY <1>1, OperateTakes DEF Taken
  <2>2. /\ \A p \in Requests : pc[p] # "save"
        /\ pc' = [pc EXCEPT ![q] = "save"]
        /\ op' = [op EXCEPT ![q] = o]
        /\ copy' = [copy EXCEPT ![q] = [id |-> r, rec |-> new]]
        /\ UNCHANGED <<recs, byDoc>>
    BY <2>1 DEF Take
  <2>3. OneWriter'
    BY <2>2 DEF OneWriter
  <2>4. OnlyIndexed' /\ Existing' = Existing
    BY <2>2 DEF Serial, OnlyIndexed, Existing, Exists
  <2>5. r \in Existing => r = byDoc
    BY DEF Serial, OnlyIndexed
  <2>6. r \in Existing <=> Exists(r)
    BY DEF Existing
  <2>7. CopiesFollow'
    BY <2>1, <2>2, <2>4, <2>5, <2>6 DEF CopiesFollow
  <2>8. QED
    BY <2>3, <2>4, <2>7 DEF Serial
<1>2. ASSUME NEW q \in Requests, SaveRecord(q)
      PROVE  Serial'
  <2>1. /\ pc[q] = "save" /\ copy[q].id \in Records
        /\ recs' = [recs EXCEPT ![copy[q].id] = copy[q].rec]
        /\ byDoc' = copy[q].id
    BY <1>2 DEF SaveRecord, CopiesConsistent
  <2>2. pc'[q] # "save" /\ \A p \in Requests \ {q} : pc'[p] = pc[p]
    BY <1>2 DEF SaveRecord, End
  <2>3. \A p \in Requests : pc'[p] # "save"
    BY <2>1, <2>2 DEF Serial, OneWriter
  <2>4. \A r \in Existing : r = copy[q].id
    <3>1. CASE byDoc = None
      BY <3>1, ReviewAssumption DEF Serial, OnlyIndexed, Existing
    <3>2. CASE byDoc # None
      BY <2>1, <3>2 DEF Serial, OnlyIndexed, CopiesFollow
    <3>3. QED
      BY <3>1, <3>2
  <2>5. OnlyIndexed'
    BY <2>1, <2>4 DEF OnlyIndexed, Existing, Exists
  <2>6. QED
    BY <2>3, <2>5 DEF Serial, OneWriter, CopiesFollow
<1>3. ASSUME NEW q \in Requests, Sync(q) \/ SyncFails(q)
      PROVE  Serial'
  <2>1. UNCHANGED <<recs, byDoc>>
    BY <1>3 DEF Sync, SyncFails
  <2>2. \A p \in Requests :
          pc'[p] = "save" => pc[p] = "save" /\ copy'[p] = copy[p] /\ op'[p] = op[p]
    BY <1>3 DEF Sync, SyncFails, End
  <2>3. QED
    BY <2>1, <2>2 DEF Serial, OneWriter, OnlyIndexed, CopiesFollow, Existing, Exists
<1>4. ASSUME NEW q \in Requests, Abandon(q)
      PROVE  FALSE
  BY <1>4 DEF Abandon
<1>5. ASSUME NEW c \in Reconcilers, Start(c) \/ Reconcile(c) \/ CallFails(c)
      PROVE  Serial'
  BY <1>5
  DEF Start, Reconcile, List, Check, Patch, Finish, CallFails, requestVars, Serial, OneWriter,
      OnlyIndexed, CopiesFollow, Existing, Exists
<1>6. CASE UNCHANGED vars
  BY <1>6 DEF vars, requestVars, Serial, OneWriter, OnlyIndexed, CopiesFollow, Existing, Exists
<1>7. QED
  BY <1>1, <1>2, <1>3, <1>4, <1>5, <1>6 DEF Next, Proceed

\* So the requests of the in-memory store are serial in every reachable state.
THEOREM MemoryIsSerial == Spec => []SerialInMemory
<1>1. Init => SerialInMemory
  BY DEF Init, SerialInMemory, Serial, OneWriter, OnlyIndexed, CopiesFollow, Existing, Exists
<1>2. QED
  BY Invariance, SerialStep, <1>1, PTL DEF Spec

\* With the in-memory store a document never has two review records.
THEOREM OneRecord == Spec => []OneRecordInMemory
<1>1. IInv /\ SerialInMemory => OneRecordInMemory
  <2> SUFFICES ASSUME SerialInMemory, store = "memory"
               PROVE  Cardinality(Existing) <= 1
    BY DEF OneRecordInMemory
  <2>1. Existing \subseteq {byDoc}
    BY DEF SerialInMemory, Serial, OnlyIndexed
  <2>2. IsFiniteSet({byDoc}) /\ Cardinality({byDoc}) = 1
    BY FS_Singleton
  <2>3. QED
    BY <2>1, <2>2, FS_Subset, FS_CardinalityType
<1>2. QED
  BY Invariance, MemoryIsSerial, <1>1, PTL

\* What one step does to a stored record when the store is the in-memory one.
LEMMA MemoryStep ==
  ASSUME IInv, SerialInMemory, store = "memory", [Next]_vars, NEW r \in Existing
  PROVE  LegalStep(r) /\ recs[r].trail \subseteq recs'[r].trail
<1> USE DEF IInv, TypeOK
<1>1. CASE UNCHANGED recs
  BY <1>1 DEF LegalStep
<1>2. ASSUME NEW q \in Requests, SaveRecord(q)
      PROVE  LegalStep(r) /\ recs[r].trail \subseteq recs'[r].trail
  <2>1. /\ pc[q] = "save" /\ pc'[q] # "save" /\ copy[q].id \in Records
        /\ recs' = [recs EXCEPT ![copy[q].id] = copy[q].rec]
    BY <1>2 DEF SaveRecord, End, CopiesConsistent
  <2>2. CASE copy[q].id # r
    BY <2>1, <2>2 DEF LegalStep, Existing
  <2>3. CASE copy[q].id = r
    <3>1. Follows(op[q], recs[r], copy[q].rec)
      BY <2>1, <2>3 DEF SerialInMemory, Serial, CopiesFollow
    <3>2. recs'[r] = copy[q].rec
      BY <2>1, <2>3 DEF Existing
    <3>3. QED
      BY <2>1, <2>3, <3>1, <3>2 DEF Follows, LegalStep
  <2>4. QED
    BY <2>2, <2>3
<1>3. UNCHANGED recs \/ \E q \in Requests : SaveRecord(q)
  BY DEF Next, vars, Operate, Submit, Decide, Assign, Remind, Publish, Resubmit, Archive,
         Take, Proceed, Sync, Abandon, SyncFails, Start, Reconcile, List, Check, Patch, Finish,
         CallFails
<1>4. QED
  BY <1>1, <1>2, <1>3

\* With the in-memory store every change of a stored record is one the table
\* allows.
THEOREM MemoryIsLegal == Spec => LegalInMemory
<1>1. IInv /\ SerialInMemory /\ [Next]_vars
        => [store = "memory" => \A r \in Existing : LegalStep(r)]_vars
  BY MemoryStep
<1>2. QED
  BY Invariance, MemoryIsSerial, <1>1, PTL DEF Spec, LegalInMemory

\* With the in-memory store no comment of the audit trail is ever lost.
THEOREM MemoryKeepsTrail == Spec => TrailKeptInMemory
<1>1. IInv /\ SerialInMemory /\ [Next]_vars
        => [store = "memory" => \A r \in Existing : recs[r].trail \subseteq recs'[r].trail]_vars
  BY MemoryStep
<1>2. QED
  BY Invariance, MemoryIsSerial, <1>1, PTL DEF Spec, TrailKeptInMemory

-----------------------------------------------------------------------------
(* The reconciliation *)

\* Reconciler c is at work or has ended, and nothing has gone on beside it when
\* it started nor failed since.
Undisturbed(c) == stage[c] # "idle" /\ ~missed[c]

\* No request is open, nor will one ever be.
Over == \A q \in Requests : pc[q] = "done"

\* A reconciliation that has not started or has ended has no rows.
RestsEmpty ==
  \A c \in Reconcilers : stage[c] \in {"idle", "done"} => rows[c] = <<>>

\* The rows that are still to be looked at are true, and what is about to be
\* patched gets the status of its record.
RowsTrue ==
  \A c \in Reconcilers :
    /\ \A i \in 1 .. Len(rows[c]) :
         /\ rows[c][i].id \in Existing
         /\ recs[rows[c][i].id].status = rows[c][i].status
    /\ stage[c] = "patch" => want[c] = rows[c][1].status

\* The lists that reconciler c has still to read.
ToCome(c) ==
  {s \in DocStatuses :
     \/ stage[c] = "published"
     \/ stage[c] = "archived" /\ s # "published"
     \/ stage[c] = "pending_review" /\ s = "pending_review"}

\* The only record agrees with the document, or c has it in a list.
Covered(c) ==
  \A r \in Records :
    Existing = {r} /\ recs[r].status \in DocStatuses =>
      \/ doc = recs[r].status
      \/ recs[r].status \in ToCome(c)
      \/ rows[c] # <<>>

RepairInv ==
  /\ RestsEmpty
  /\ \A c \in Reconcilers : Undisturbed(c) => Over /\ RowsTrue /\ Covered(c)

\* The front of a list that is not empty, and a list that has grown.
LEMMA FrontRow ==
  ASSUME NEW S, NEW s \in Seq(S), s # <<>>
  PROVE  1 \in 1 .. Len(s) /\ s[1] \in S /\ Head(s) = s[1]
  BY EmptySeq, HeadTailProperties

LEMMA GrownRow ==
  ASSUME NEW S, NEW s \in Seq(S), NEW x \in S
  PROVE  Append(s, x) # <<>>
  BY AppendProperties

\* A step of a request: then nobody is undisturbed.
LEMMA RepairRequest ==
  ASSUME IInv, RepairInv, NEW q \in Requests,
         Operate(q) \/ Proceed(q) \/ Abandon(q) \/ SyncFails(q)
  PROVE  RepairInv'
<1>1. pc[q] # "done" /\ UNCHANGED reconcileVars
  <2>1. CASE Operate(q)
    BY <2>1, OperateTakes DEF IInv, Taken, Take
  <2>2. CASE Proceed(q) \/ Abandon(q) \/ SyncFails(q)
    BY <2>2 DEF Proceed, SaveRecord, Sync, Abandon, SyncFails
  <2>3. QED
    BY <2>1, <2>2
<1>2. QED
  BY <1>1 DEF RepairInv, RestsEmpty, Undisturbed, Over, reconcileVars

\* A step of reconciler c that puts no row in front keeps the rows true.
LEMMA RowsStayTrue ==
  ASSUME TypeOK, RowsTrue, UNCHANGED recs, NEW c \in Reconcilers,
         \A d \in Reconcilers \ {c} :
           rows'[d] = rows[d] /\ stage'[d] = stage[d] /\ want'[d] = want[d],
         \/ rows'[c] = rows[c]
         \/ rows[c] # <<>> /\ rows'[c] = Tail(rows[c])
         \/ \E r \in Existing :
              rows'[c] = Append(rows[c], [id |-> r, status |-> recs[r].status]),
         stage'[c] = "patch" => want'[c] = rows'[c][1].status
  PROVE  RowsTrue'
<1>1. rows[c] \in Seq([id : Records, status : DocStatuses])
  BY DEF TypeOK
<1>2. Existing' = Existing
  BY DEF Existing, Exists
<1>3. ASSUME NEW i \in 1 .. Len(rows'[c])
      PROVE  rows'[c][i].id \in Existing /\ recs[rows'[c][i].id].status = rows'[c][i].status
  <2>1. CASE rows'[c] = rows[c]
    BY <2>1, <1>3 DEF RowsTrue
  <2>2. CASE rows[c] # <<>> /\ rows'[c] = Tail(rows[c])
    <3>1. i + 1 \in 1 .. Len(rows[c]) /\ rows'[c][i] = rows[c][i + 1]
      BY <1>1, <1>3, <2>2
    <3>2. QED
      BY <3>1 DEF RowsTrue
  <2>3. ASSUME NEW r \in Existing,
               rows'[c] = Append(rows[c], [id |-> r, status |-> recs[r].status])
        PROVE  rows'[c][i].id \in Existing /\ recs[rows'[c][i].id].status = rows'[c][i].status
    <3> DEFINE added == [id |-> r, status |-> recs[r].status]
    <3>1. added.id = r /\ added.status = recs[r].status
      OBVIOUS
    <3>2. \/ i \in 1 .. Len(rows[c]) /\ rows'[c][i] = rows[c][i]
          \/ rows'[c][i] = added
      <4> HIDE DEF added
      <4>1. rows'[c] = Append(rows[c], added)
        BY <2>3 DEF added
      <4>2. QED
        BY <1>1, <1>3, <4>1
    <3>3. QED
      BY <3>1, <3>2 DEF RowsTrue
  <2>4. QED
    BY <2>1, <2>2, <2>3
<1>4. QED
  BY <1>2, <1>3 DEF RowsTrue

\* A reconciliation begins: with everything else over, its lists are to come.
LEMMA RepairStart ==
  ASSUME IInv, RepairInv, NEW c \in Reconcilers, Start(c)
  PROVE  RepairInv'
<1> USE DEF IInv
<1>1. /\ stage' = [stage EXCEPT ![c] = "published"]
      /\ missed' = [missed EXCEPT ![c] = ~QuietBut(c)]
      /\ stage[c] = "idle"
      /\ UNCHANGED <<recs, pc, doc, rows, want>>
  BY DEF Start, NextStage, requestVars
<1>2. Existing' = Existing
  BY <1>1 DEF Existing, Exists
<1>3. RestsEmpty'
  BY <1>1 DEF RepairInv, RestsEmpty, TypeOK
<1>4. ASSUME NEW e \in Reconcilers, Undisturbed(e)' PROVE (Over /\ RowsTrue /\ Covered(e))'
  <2>1. CASE e = c
    <3>1. QuietBut(c)
      BY <1>1, <1>4, <2>1 DEF Undisturbed, TypeOK
    <3>2. Over' /\ \A d \in Reconcilers : rows'[d] = <<>> /\ stage'[d] # "patch"
      BY <1>1, <3>1 DEF QuietBut, Over, RepairInv, RestsEmpty, TypeOK
    <3>3. RowsTrue'
      BY <3>2 DEF RowsTrue
    <3>4. Covered(e)'
      BY <1>1, <2>1 DEF Covered, ToCome, TypeOK
    <3>5. QED
      BY <3>2, <3>3, <3>4
  <2>2. CASE e # c
    <3>1. Over /\ RowsTrue /\ Covered(e)
      BY <1>1, <1>4, <2>2 DEF Undisturbed, RepairInv, TypeOK
    <3>2. RowsTrue'
      BY <1>1, <1>2, <3>1 DEF RowsTrue, TypeOK
    <3>3. stage'[e] = stage[e]
      BY <1>1, <2>2 DEF TypeOK
    <3>4. Covered(e)'
      BY <1>1, <1>2, <3>1, <3>3 DEF Covered, ToCome
    <3>5. QED
      BY <1>1, <3>1, <3>2, <3>4 DEF Over
  <2>3. QED
    BY <2>1, <2>2
<1>5. QED
  BY <1>3, <1>4 DEF RepairInv

\* What a step of reconciler c does to the document, the rows and the stages
\* when the rows are true.
LEMMA RepairMoves ==
  ASSUME IInv, RepairInv, RowsTrue, NEW c \in Reconcilers, Reconcile(c) \/ CallFails(c)
  PROVE  /\ UNCHANGED <<recs, pc>>
         /\ stage[c] # "idle" /\ stage'[c] # "idle"
         /\ \A d \in Reconcilers \ {c} :
              /\ rows'[d] = rows[d] /\ stage'[d] = stage[d]
              /\ want'[d] = want[d] /\ missed'[d] = missed[d]
         /\ stage'[c] = "done" => rows'[c] = <<>>
         /\ RowsTrue'
         /\ doc' = doc \/ \E r \in Existing : doc' = recs[r].status
         /\ ~missed'[c] => ~missed[c] /\ (Covered(c) => Covered(c)')
<1> USE DEF IInv
<1>1. UNCHANGED <<store, recs, pc>> /\ Existing' = Existing
  BY DEF Reconcile, List, Check, Patch, Finish, CallFails, requestVars, Existing, Exists
<1>2. /\ rows[c] \in Seq([id : Records, status : DocStatuses])
      /\ rows \in [Reconcilers -> Seq([id : Records, status : DocStatuses])]
      /\ stage \in [Reconcilers -> DocStatuses \cup {"idle", "check", "patch", "done"}]
      /\ want \in [Reconcilers -> DocStatuses]
      /\ missed \in [Reconcilers -> BOOLEAN]
  BY DEF TypeOK
<1>3. ASSUME rows[c] # <<>>
      PROVE  /\ Head(rows[c]) = rows[c][1]
             /\ rows[c][1].id \in Existing
             /\ recs[rows[c][1].id].status = rows[c][1].status
             /\ rows[c][1].status \in DocStatuses
  <2>1. /\ 1 \in 1 .. Len(rows[c]) /\ Head(rows[c]) = rows[c][1]
        /\ rows[c][1] \in [id : Records, status : DocStatuses]
    BY <1>2, <1>3, FrontRow
  <2>2. QED
    BY <2>1 DEF RowsTrue
<1>4. CASE List(c)
  <2>1. /\ stage[c] \in DocStatuses
        /\ stage' = [stage EXCEPT ![c] = NextStage[@]]
        /\ UNCHANGED <<doc, want>>
    BY <1>4 DEF List
  <2>2. stage'[c] \in DocStatuses \cup {"check"}
    BY <1>2, <2>1, ScanOrder
  <2> DEFINE listed == {r \in Existing : recs[r].status = stage[c]}
  <2>3. \/ listed = {} /\ rows' = rows /\ missed' = missed
        \/ rows' = rows /\ missed' = [missed EXCEPT ![c] = TRUE]
        \/ \E r \in Existing :
             /\ recs[r].status = stage[c]
             /\ rows' = [rows EXCEPT ![c] = Append(@, [id |-> r, status |-> recs[r].status])]
             /\ missed' = missed
    BY <1>4 DEF List
  <2>4. \A d \in Reconcilers \ {c} : rows'[d] = rows[d] /\ missed'[d] = missed[d]
    BY <1>2, <2>3
  <2>5. \/ listed = {} /\ rows'[c] = rows[c] /\ missed'[c] = missed[c]
        \/ rows'[c] = rows[c] /\ missed'[c]
        \/ \E r \in Existing :
             /\ recs[r].status \in DocStatuses
             /\ rows'[c] = Append(rows[c], [id |-> r, status |-> recs[r].status])
             /\ missed'[c] = missed[c]
    BY <1>2, <2>1, <2>3
  <2>6. stage'[c] # "patch" /\ stage'[c] # "idle" /\ stage'[c] # "done"
    BY <2>2 DEF DocStatuses
  <2>7. RowsTrue'
    BY <1>1, <1>2, <2>1, <2>4, <2>5, <2>6, RowsStayTrue
  <2>8. ASSUME Covered(c), ~missed'[c] PROVE Covered(c)'
    <3>1. CASE listed = {} /\ rows'[c] = rows[c]
      <4>1. \A s \in ToCome(c) : s # stage[c] => s \in ToCome(c)'
        BY <1>2, <2>1 DEF ToCome, NextStage, DocStatuses
      <4>2. QED
        BY <1>1, <2>1, <2>8, <3>1, <4>1 DEF Covered
    <3>2. ASSUME NEW r \in Existing, recs[r].status \in DocStatuses,
                 rows'[c] = Append(rows[c], [id |-> r, status |-> recs[r].status])
          PROVE  rows'[c] # <<>>
      <4>1. [id |-> r, status |-> recs[r].status] \in [id : Records, status : DocStatuses]
        BY <3>2 DEF Existing
      <4>2. QED
        BY <1>2, <3>2, <4>1, GrownRow
    <3>3. QED
      BY <2>5, <2>8, <3>1, <3>2 DEF Covered
  <2>9. ~missed'[c] => ~missed[c]
    BY <1>2, <2>3
  <2>10. \A d \in Reconcilers \ {c} : stage'[d] = stage[d] /\ want'[d] = want[d]
    BY <1>2, <2>1
  <2>11. stage[c] # "idle" /\ doc' = doc
    BY <2>1 DEF DocStatuses
  <2>12. QED
    BY <1>1, <2>4, <2>6, <2>7, <2>8, <2>9, <2>10, <2>11
<1>5. CASE Check(c)
  <2> DEFINE status == StatusOf(Head(rows[c]))
  <2>1. stage[c] = "check" /\ rows[c] # <<>> /\ UNCHANGED <<doc, missed>>
    BY <1>5 DEF Check
  <2>2. /\ status = recs[rows[c][1].id].status /\ status = rows[c][1].status
        /\ status \in Mapped /\ ExpectedOf(status) = status
    BY <1>3, <2>1 DEF StatusOf, Mapped, ExpectedOf, DocStatuses
  <2>3. CASE doc # status
    <3>1. /\ want' = [want EXCEPT ![c] = status]
          /\ stage' = [stage EXCEPT ![c] = "patch"]
          /\ rows' = rows
      BY <1>5, <2>2, <2>3 DEF Check
    <3>2. RowsTrue'
      BY <1>1, <1>2, <2>2, <3>1, RowsStayTrue
    <3>3. Covered(c)'
      BY <2>1, <3>1 DEF Covered
    <3>4. QED
      BY <1>1, <1>2, <2>1, <3>1, <3>2, <3>3
  <2>4. CASE doc = status
    <3>1. rows' = [rows EXCEPT ![c] = Tail(@)] /\ UNCHANGED <<want, stage>>
      BY <1>5, <2>2, <2>4 DEF Check
    <3>2. RowsTrue'
      BY <1>1, <1>2, <2>1, <3>1, RowsStayTrue
    <3>3. Covered(c)'
      BY <1>1, <1>3, <2>1, <2>2, <2>4 DEF Covered
    <3>4. QED
      BY <1>1, <1>2, <2>1, <3>1, <3>2, <3>3
  <2>5. QED
    BY <2>3, <2>4
<1>6. CASE Patch(c) \/ CallFails(c)
  <2>1. /\ rows[c] # <<>>
        /\ stage[c] = "check" \/ stage[c] = "patch"
        /\ rows' = [rows EXCEPT ![c] = Tail(@)]
        /\ stage' = [stage EXCEPT ![c] = "check"]
        /\ want' = [want EXCEPT ![c] = "pending_review"]
    BY <1>6 DEF Patch, CallFails, RowsLeft
  <2>2. RowsTrue'
    BY <1>1, <1>2, <2>1, RowsStayTrue
  <2>3. doc' = doc \/ (stage[c] = "patch" /\ doc' = want[c])
    BY <1>6 DEF Patch, CallFails
  <2>4. stage[c] = "patch" => want[c] = recs[rows[c][1].id].status
    BY <1>3, <2>1 DEF RowsTrue
  <2>5. CASE Patch(c)
    <3>1. stage[c] = "patch" /\ doc' = want[c] /\ missed' = missed
      BY <2>5 DEF Patch
    <3>2. Covered(c)'
      BY <1>1, <1>3, <2>1, <2>4, <3>1 DEF Covered
    <3>3. QED
      BY <1>1, <1>2, <1>3, <2>1, <2>2, <2>4, <3>1, <3>2
  <2>6. CASE CallFails(c)
    <3>1. missed' = [missed EXCEPT ![c] = TRUE]
      BY <2>6 DEF CallFails
    <3>2. QED
      BY <1>1, <1>2, <1>3, <2>1, <2>2, <2>3, <2>4, <3>1
  <2>7. QED
    BY <1>6, <2>5, <2>6
<1>7. CASE Finish(c)
  <2>1. /\ stage[c] = "check" /\ rows[c] = <<>>
        /\ stage' = [stage EXCEPT ![c] = "done"]
        /\ UNCHANGED <<doc, rows, want, missed>>
    BY <1>7 DEF Finish
  <2>2. RowsTrue'
    BY <1>1, <1>2, <2>1, RowsStayTrue
  <2>3. Covered(c) => Covered(c)'
    BY <1>1, <2>1 DEF Covered, ToCome
  <2>4. QED
    BY <1>1, <1>2, <2>1, <2>2, <2>3
<1>8. QED
  BY <1>4, <1>5, <1>6, <1>7 DEF Reconcile

\* A step of a reconciliation that has begun.
LEMMA RepairStep ==
  ASSUME IInv, RepairInv, NEW c \in Reconcilers, Reconcile(c) \/ CallFails(c)
  PROVE  RepairInv'
<1>1. RestsEmpty'
  <2>1. /\ stage[c] # "idle" /\ stage'[c] # "idle"
        /\ stage'[c] = "done" => rows'[c] = <<>>
    BY ScanOrder
    DEF IInv, TypeOK, Reconcile, List, Check, Patch, Finish, CallFails, DocStatuses
  <2>2. \A d \in Reconcilers \ {c} : rows'[d] = rows[d] /\ stage'[d] = stage[d]
    BY DEF IInv, TypeOK, Reconcile, List, Check, Patch, Finish, CallFails
  <2>3. QED
    BY <2>1, <2>2 DEF RepairInv, RestsEmpty
<1>2. ASSUME NEW e \in Reconcilers, Undisturbed(e)' PROVE (Over /\ RowsTrue /\ Covered(e))'
  <2>1. Undisturbed(e)
    <3>1. stage[c] # "idle" /\ \A d \in Reconcilers \ {c} : stage'[d] = stage[d]
      BY DEF IInv, TypeOK, Reconcile, List, Check, Patch, Finish, CallFails, DocStatuses, RowsLeft
    <3>2. missed' = missed \/ missed' = [missed EXCEPT ![c] = TRUE]
      BY DEF Reconcile, List, Check, Patch, Finish, CallFails
    <3>3. missed \in [Reconcilers -> BOOLEAN]
      BY DEF IInv, TypeOK
    <3>4. ~missed[e]
      BY <1>2, <3>2, <3>3 DEF Undisturbed
    <3>5. QED
      BY <1>2, <3>1, <3>4 DEF Undisturbed
  <2>2. Over /\ RowsTrue /\ Covered(e)
    BY <2>1 DEF RepairInv
  <2>3. /\ UNCHANGED <<recs, pc>> /\ RowsTrue'
        /\ doc' = doc \/ \E r \in Existing : doc' = recs[r].status
    BY <2>2, RepairMoves
  <2>4. Covered(e)'
    <3>1. CASE e = c
      BY <1>2, <2>2, <3>1, RepairMoves DEF Undisturbed
    <3>2. CASE e # c
      <4>1. rows'[e] = rows[e] /\ stage'[e] = stage[e]
        BY <2>2, <3>2, RepairMoves
      <4>2. QED
        BY <2>2, <2>3, <4>1 DEF Covered, ToCome, Existing, Exists
    <3>3. QED
      BY <3>1, <3>2
  <2>5. QED
    BY <2>2, <2>3, <2>4 DEF Over
<1>3. QED
  BY <1>1, <1>2 DEF RepairInv

\* However many reconciliations run, what one has collected stays true.
LEMMA RepairHolds == Spec => []RepairInv
<1>1. Init => RepairInv
  BY DEF Init, RepairInv, RestsEmpty, Undisturbed
<1>2. IInv /\ RepairInv /\ [Next]_vars => RepairInv'
  <2> SUFFICES ASSUME IInv, RepairInv, [Next]_vars PROVE RepairInv'
    OBVIOUS
  <2>1. CASE UNCHANGED vars
    <3>1. UNCHANGED <<recs, pc, doc, stage, rows, want, missed>>
      BY <2>1 DEF vars, requestVars, reconcileVars
    <3>2. Existing' = Existing
      BY <3>1 DEF Existing, Exists
    <3>3. QED
      BY <3>1, <3>2
      DEF RepairInv, RestsEmpty, Undisturbed, Over, RowsTrue, Covered, ToCome
  <2>2. QED
    BY <2>1, RepairRequest, RepairStart, RepairStep DEF Next
<1>3. QED
  BY <1>1, <1>2, Invariance, PTL DEF Spec

\* A save adds one record at most.
LEMMA FinitelyMany == Spec => []IsFiniteSet(Existing)
<1>1. Init => IsFiniteSet(Existing)
  <2>1. Init => Existing = {}
    BY DEF Init, Existing, Exists
  <2>2. QED
    BY <2>1, FS_EmptySet
<1>2. IInv /\ IsFiniteSet(Existing) /\ [Next]_vars => IsFiniteSet(Existing)'
  <2> SUFFICES ASSUME IInv, IsFiniteSet(Existing), [Next]_vars PROVE IsFiniteSet(Existing')
    OBVIOUS
  <2>1. recs' = recs \/ \E q \in Requests : recs' = [recs EXCEPT ![copy[q].id] = copy[q].rec]
    <3>1. ASSUME NEW q \in Requests, Operate(q) PROVE recs' = recs
      BY <3>1, OperateTakes DEF IInv, Taken, Take
    <3>2. QED
      BY <3>1
      DEF Next, Proceed, SaveRecord, Sync, Abandon, SyncFails, Start, Reconcile, List, Check,
          Patch, Finish, CallFails, vars
  <2>2. \E x : Existing' \subseteq Existing \cup {x}
    BY <2>1 DEF IInv, TypeOK, Existing, Exists
  <2>3. QED
    BY <2>2, FS_AddElement, FS_Subset
<1>3. QED
  BY <1>1, <1>2, Invariance, PTL DEF Spec

\* A reconciliation that starts when everything else is over, none of whose
\* calls fails and whose lists reach the record leaves the document with the status of its only record, other
\* reconciliations that start meanwhile notwithstanding.
THEOREM Repairs == Spec => []ReconcileRepairs
<1>1. RepairInv /\ IsFiniteSet(Existing) => ReconcileRepairs
  <2> SUFFICES ASSUME RepairInv, IsFiniteSet(Existing), NEW c \in Reconcilers,
                      stage[c] = "done", ~missed[c],
                      Cardinality(Existing) = 1, NEW r \in Existing,
                      recs[r].status \in DocStatuses
               PROVE  doc = recs[r].status
    BY DEF ReconcileRepairs, DocAgrees
  <2>1. PICK x : Existing = {x}
    BY FS_Singleton, Zenon
  <2>2. Covered(c) /\ rows[c] = <<>>
    BY DEF RepairInv, Undisturbed, RestsEmpty
  <2>3. ToCome(c) = {}
    BY DEF ToCome
  <2>4. Existing = {r} /\ r \in Records
    BY <2>1 DEF Existing
  <2>5. QED
    BY <2>2, <2>3, <2>4 DEF Covered
<1>2. QED
  BY FinitelyMany, RepairHolds, <1>1, PTL

=============================================================================
