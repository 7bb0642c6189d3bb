---------------------------- MODULE ReviewWorkflow ----------------------------
(***************************************************************************)
(* The review workflow of one document (services/ingestion-pipeline-       *)
(* service: domain/review.py, adapters/review_store.py,                    *)
(* api/review_routes.py): requests that read a review record, check the    *)
(* transition, save the modified copy and push the outcome to the document *)
(* at knowledge-api, and the reconciliation that repairs the difference.   *)
(*                                                                         *)
(* The store is Redis, where the read and the save of a request are two    *)
(* commands and other requests come in between, or the in-memory fallback, *)
(* whose coroutines never suspend, so that a request reads and saves in    *)
(* one go.  Different documents share nothing but the scan order of a      *)
(* reconciliation.                                                         *)
(***************************************************************************)
EXTENDS Naturals, Sequences, FiniteSets

CONSTANTS
  Requests,     \* requests to /v1/review and submissions by the pipeline
  Records,      \* review record ids (uuid4) the document may be given
  Reconcilers,  \* reconcile_review_statuses runs (startup or endpoint)
  MaxRetries,   \* max_retries of _sync_document_status
  MaxFailures,  \* bound: HTTP calls that fail and requests that are lost
  None          \* no record

ASSUME ReviewAssumption ==
  /\ MaxRetries \in Nat \ {0}
  /\ MaxFailures \in Nat
  /\ None \notin Records

VARIABLES
  store,     \* "redis" or "memory" (create_review_store)
  recs,      \* record id -> the stored record, or NoRecord
  byDoc,     \* the record id the document index points to
  pc,        \* request -> "idle", "save", "sync" or "done"
  op,        \* request -> the operation it performs
  copy,      \* request -> the record it is about to save, with its id
  tries,     \* request -> PATCH attempts made
  doc,       \* the status of the document at knowledge-api
  stage,     \* reconciler -> the list it reads next, or what it does
  rows,      \* reconciler -> the records it still has to look at
  want,      \* reconciler -> expected_status of the row it is repairing
  missed,    \* history: reconciler -> it started while something else was going
             \* on, one of its calls has failed, or one of its lists has ended
             \* before the document's record
  failures

requestVars == <<pc, op, copy, tries>>
reconcileVars == <<stage, rows, want, missed>>
vars == <<store, recs, byDoc, requestVars, doc, reconcileVars, failures>>

Decisions == {"approved", "rejected", "revision_requested"}
ReviewStatuses == Decisions \cup {"draft", "pending_review", "published", "archived"}

\* _TRANSITIONS
Transitions ==
  {<<"draft", "pending_review">>, <<"approved", "published">>,
   <<"rejected", "draft">>, <<"revision_requested", "draft">>,
   <<"published", "archived">>} \cup ({"pending_review"} \X Decisions)

CanTransition(from, to) == <<from, to>> \in Transitions

Assignable == Decisions \cup {"pending_review"}

DocStatuses == {"pending_review", "published", "archived"}

\* _REVIEW_TO_DOC_STATUS
ExpectedOf(status) == IF status = "approved" THEN "pending_review" ELSE status
Mapped == DocStatuses \cup {"approved"}

NoRecord == [status |-> "none"]
Exists(r) == recs[r] # NoRecord
Existing == {r \in Records : Exists(r)}

\* A fresh ReviewRecord before the policy is asked.
Draft == [status |-> "draft", assigned |-> FALSE, reviewed |-> FALSE, auto |-> FALSE,
          trail |-> {}]

NoCopy == [id |-> None, rec |-> Draft]

\* Evaluation gating may have published the document before any review.
Init ==
  /\ store \in {"redis", "memory"}
  /\ recs = [r \in Records |-> NoRecord]
  /\ byDoc = None
  /\ pc = [q \in Requests |-> "idle"]
  /\ op = [q \in Requests |-> "none"]
  /\ copy = [q \in Requests |-> NoCopy]
  /\ tries = [q \in Requests |-> 0]
  /\ doc \in {"pending_review", "published"}
  /\ stage = [c \in Reconcilers |-> "idle"]
  /\ rows = [c \in Reconcilers |-> <<>>]
  /\ want = [c \in Reconcilers |-> "pending_review"]
  /\ missed = [c \in Reconcilers |-> FALSE]
  /\ failures = 0

-----------------------------------------------------------------------------
(* The operations of ReviewWorkflow: read, check, modify the copy *)

\* Request q now holds a modified copy of what it read (HGETALL); in memory
\* nobody else does.  The index is read with the record.
Take(q, o, r, new) ==
  /\ pc[q] = "idle"
  /\ store = "memory" => \A p \in Requests : pc[p] # "save"
  /\ pc' = [pc EXCEPT ![q] = "save"]
  /\ op' = [op EXCEPT ![q] = o]
  /\ copy' = [copy EXCEPT ![q] = [id |-> r, rec |-> new]]
  /\ UNCHANGED <<store, recs, byDoc, tries, doc, reconcileVars, failures>>

\* The draft goes to pending_review, or straight to approved when a policy
\* rule matches; the rule leaves a comment.
Filed(draft, q, auto) ==
  [draft EXCEPT !.status = IF auto THEN "approved" ELSE "pending_review",
                !.auto = auto,
                !.trail = IF auto THEN @ \cup {q} ELSE @]

\* A uuid4 nobody uses: which one makes no difference.
Fresh == {r \in Records : ~Exists(r) /\ \A p \in Requests : copy[p].id # r}

\* submit, from the route ("submit") or from the pipeline ("ingest"): a new
\* record, or the existing one reset from whatever status it is in.
Submit(q) ==
  \E o \in {"submit", "ingest"}, auto \in BOOLEAN :
    \/ /\ byDoc = None
       /\ Fresh # {}
       /\ Take(q, o, CHOOSE r \in Fresh : TRUE, Filed(Draft, q, auto))
    \/ /\ byDoc # None
       /\ Take(q, o, byDoc,
               Filed([Draft EXCEPT !.trail = recs[byDoc].trail \cup {q}], q, auto))

\* review
Decide(q) ==
  \E r \in Existing, target \in Decisions :
    /\ CanTransition(recs[r].status, target)
    /\ Take(q, "decide", r, [recs[r] EXCEPT !.status = target, !.reviewed = TRUE,
                                            !.trail = @ \cup {q}])

\* assign and claim
Assign(q) ==
  \E r \in Existing :
    /\ recs[r].status \in Assignable
    /\ Take(q, "assign", r, [recs[r] EXCEPT !.assigned = TRUE, !.trail = @ \cup {q}])

Remind(q) ==
  \E r \in Existing :
    /\ recs[r].status \in Assignable
    /\ recs[r].assigned
    /\ Take(q, "remind", r, [recs[r] EXCEPT !.trail = @ \cup {q}])

\* Faulty: publish does not look at the table.
PublishUnchecked(q) ==
  \E r \in Existing : Take(q, "publish", r, [recs[r] EXCEPT !.status = "published"])

Publish(q) ==
  \E r \in Existing :
    /\ CanTransition(recs[r].status, "published")
    /\ Take(q, "publish", r, [recs[r] EXCEPT !.status = "published"])

\* Faulty: the decision of the last cycle stays on the record.
ResubmitUncleared(q) ==
  \E r \in Existing :
    /\ CanTransition(recs[r].status, "draft")
    /\ Take(q, "resubmit", r, [recs[r] EXCEPT !.status = "pending_review",
                                              !.assigned = FALSE, !.trail = @ \cup {q}])

\* Faulty: the comments of the last cycle are dropped.
ResubmitForgetful(q) ==
  \E r \in Existing :
    /\ CanTransition(recs[r].status, "draft")
    /\ Take(q, "resubmit", r, [recs[r] EXCEPT !.status = "pending_review",
                                              !.reviewed = FALSE, !.assigned = FALSE,
                                              !.trail = {q}])

Resubmit(q) ==
  \E r \in Existing :
    /\ CanTransition(recs[r].status, "draft")
    /\ Take(q, "resubmit", r, [recs[r] EXCEPT !.status = "pending_review",
                                              !.reviewed = FALSE, !.assigned = FALSE,
                                              !.trail = @ \cup {q}])

Archive(q) ==
  \E r \in Existing :
    /\ CanTransition(recs[r].status, "archived")
    /\ Take(q, "archive", r, [recs[r] EXCEPT !.status = "archived"])

-----------------------------------------------------------------------------
(* Saving and pushing the outcome to knowledge-api *)

\* Request q has answered, or nobody waits for it any more.
End(q) ==
  /\ pc' = [pc EXCEPT ![q] = "done"]
  /\ op' = [op EXCEPT ![q] = "none"]
  /\ copy' = [copy EXCEPT ![q] = NoCopy]
  /\ tries' = [tries EXCEPT ![q] = 0]

\* What the route tells knowledge-api after the save.
SyncStatus ==
  [submit |-> "pending_review", resubmit |-> "pending_review",
   publish |-> "published", archive |-> "archived"]

\* One MULTI: the whole hash and the document index.
SaveRecord(q) ==
  /\ pc[q] = "save"
  /\ recs' = [recs EXCEPT ![copy[q].id] = copy[q].rec]
  /\ byDoc' = copy[q].id
  /\ \/ /\ op[q] \in DOMAIN SyncStatus
        /\ pc' = [pc EXCEPT ![q] = "sync"]
        /\ copy' = [copy EXCEPT ![q] = NoCopy]
        /\ UNCHANGED <<op, tries>>
     \/ op[q] \notin DOMAIN SyncStatus /\ End(q)
  /\ UNCHANGED <<store, doc, reconcileVars, failures>>

\* The request is lost with its pod, before or after the save.
Abandon(q) ==
  /\ store = "redis"
  /\ failures < MaxFailures
  /\ failures' = failures + 1
  /\ pc[q] \in {"save", "sync"}
  /\ End(q)
  /\ UNCHANGED <<store, recs, byDoc, doc, reconcileVars>>

\* _sync_document_status: PATCH the document; knowledge-api sets the status
\* whatever it was.
Sync(q) ==
  /\ pc[q] = "sync"
  /\ doc' = SyncStatus[op[q]]
  /\ End(q)
  /\ UNCHANGED <<store, recs, byDoc, reconcileVars, failures>>

\* An attempt fails, applied or not; the last failure is only logged.
SyncFails(q) ==
  /\ pc[q] = "sync"
  /\ failures < MaxFailures
  /\ failures' = failures + 1
  /\ doc' \in {doc, SyncStatus[op[q]]}
  /\ \/ tries[q] + 1 = MaxRetries /\ End(q)
     \/ /\ tries[q] + 1 < MaxRetries
        /\ tries' = [tries EXCEPT ![q] = @ + 1]
        /\ UNCHANGED <<pc, op, copy>>
  /\ UNCHANGED <<store, recs, byDoc, reconcileVars>>

-----------------------------------------------------------------------------
(* reconcile_review_statuses *)

\* Faulty: archived records are not scanned.
NextStageNoArchive ==
  [idle |-> "published", published |-> "pending_review", archived |-> "pending_review",
   pending_review |-> "check"]

\* The lists are read one after the other: published, archived, pending.
NextStage ==
  [idle |-> "published", published |-> "archived", archived |-> "pending_review",
   pending_review |-> "check"]

\* Nothing is in progress any more, except reconciler c.
QuietBut(c) ==
  /\ \A q \in Requests : pc[q] = "done"
  /\ \A d \in Reconcilers \ {c} : stage[d] \in {"idle", "done"}

Start(c) ==
  /\ stage[c] = "idle"
  /\ missed' = [missed EXCEPT ![c] = ~QuietBut(c)]
  /\ stage' = [stage EXCEPT ![c] = NextStage[@]]
  /\ UNCHANGED <<store, recs, byDoc, requestVars, doc, rows, want, failures>>

\* list_by_status, which returns one record per document.  It looks at the 200
\* records of the organisation saved last, with Redis only at those among the
\* 500 saved last by anyone: where others have been busier, a record is left out.
List(c) ==
  /\ stage[c] \in DocStatuses
  /\ LET listed == {r \in Existing : recs[r].status = stage[c]}
     IN \/ listed = {} /\ UNCHANGED <<rows, missed>>
        \/ /\ listed # {}
           /\ missed' = [missed EXCEPT ![c] = TRUE]
           /\ UNCHANGED rows
        \/ \E r \in listed :
             /\ rows' = [rows EXCEPT ![c] = Append(@, [id |-> r, status |-> stage[c]])]
             /\ UNCHANGED missed
  /\ stage' = [stage EXCEPT ![c] = NextStage[@]]
  /\ UNCHANGED <<store, recs, byDoc, requestVars, doc, want, failures>>

\* The in-memory store lists its live objects, Redis a copy of them.
StatusOf(row) == IF store = "memory" THEN recs[row.id].status ELSE row.status

\* GET the document and compare it with the expected status.
Check(c) ==
  /\ stage[c] = "check"
  /\ rows[c] # <<>>
  /\ LET status == StatusOf(Head(rows[c]))
     IN IF status \in Mapped /\ doc # ExpectedOf(status)
        THEN /\ want' = [want EXCEPT ![c] = ExpectedOf(status)]
             /\ stage' = [stage EXCEPT ![c] = "patch"]
             /\ UNCHANGED rows
        ELSE /\ rows' = [rows EXCEPT ![c] = Tail(@)]
             /\ UNCHANGED <<want, stage>>
  /\ UNCHANGED <<store, recs, byDoc, requestVars, doc, missed, failures>>

\* PATCH the document to the expected status.
Patch(c) ==
  /\ stage[c] = "patch"
  /\ doc' = want[c]
  /\ rows' = [rows EXCEPT ![c] = Tail(@)]
  /\ stage' = [stage EXCEPT ![c] = "check"]
  /\ want' = [want EXCEPT ![c] = "pending_review"]
  /\ UNCHANGED <<store, recs, byDoc, requestVars, missed, failures>>

\* The GET or the PATCH fails: go on with the next record.
CallFails(c) ==
  /\ failures < MaxFailures
  /\ failures' = failures + 1
  /\ \/ stage[c] = "check" /\ rows[c] # <<>> /\ UNCHANGED doc
     \/ stage[c] = "patch" /\ doc' \in {doc, want[c]}
  /\ rows' = [rows EXCEPT ![c] = Tail(@)]
  /\ stage' = [stage EXCEPT ![c] = "check"]
  /\ want' = [want EXCEPT ![c] = "pending_review"]
  /\ missed' = [missed EXCEPT ![c] = TRUE]
  /\ UNCHANGED <<store, recs, byDoc, requestVars>>

Finish(c) ==
  /\ stage[c] = "check"
  /\ rows[c] = <<>>
  /\ stage' = [stage EXCEPT ![c] = "done"]
  /\ UNCHANGED <<store, recs, byDoc, requestVars, doc, rows, want, missed, failures>>

-----------------------------------------------------------------------------
Operate(q) ==
  Submit(q) \/ Decide(q) \/ Assign(q) \/ Remind(q) \/ Publish(q) \/ Resubmit(q) \/ Archive(q)

Proceed(q) == SaveRecord(q) \/ Sync(q)

Reconcile(c) == List(c) \/ Check(c) \/ Patch(c) \/ Finish(c)

Next ==
  \/ \E q \in Requests : Operate(q) \/ Proceed(q) \/ Abandon(q) \/ SyncFails(q)
  \/ \E c \in Reconcilers : Start(c) \/ Reconcile(c) \/ CallFails(c)

\* Coroutines that have started are run to their end; nobody is obliged to
\* make a request or to start a reconciliation.
Fairness ==
  /\ \A q \in Requests : WF_vars(Proceed(q))
  /\ \A c \in Reconcilers : WF_vars(Reconcile(c))

Spec == Init /\ [][Next]_vars /\ Fairness
-----------------------------------------------------------------------------
(* Properties *)

RecordType ==
  [status : ReviewStatuses, assigned : BOOLEAN, reviewed : BOOLEAN, auto : BOOLEAN,
   trail : SUBSET Requests]

Operations == {"submit", "ingest", "decide", "assign", "remind", "publish", "resubmit",
               "archive"}

\* Every variable stays in its type.
TypeOK ==
  /\ store \in {"redis", "memory"}
  /\ recs \in [Records -> RecordType \cup {NoRecord}]
  /\ byDoc \in Records \cup {None}
  /\ pc \in [Requests -> {"idle", "save", "sync", "done"}]
  /\ op \in [Requests -> Operations \cup {"none"}]
  /\ copy \in [Requests -> [id : Records \cup {None}, rec : RecordType]]
  /\ tries \in [Requests -> 0 .. MaxRetries - 1]
  /\ doc \in DocStatuses
  /\ stage \in [Reconcilers -> DocStatuses \cup {"idle", "check", "patch", "done"}]
  /\ rows \in [Reconcilers -> Seq([id : Records, status : DocStatuses])]
  /\ want \in [Reconcilers -> DocStatuses]
  /\ missed \in [Reconcilers -> BOOLEAN]
  /\ failures \in Nat

\* The decision a record carries fits its status: what is approved, published
\* or archived was approved by exactly one of a reviewer and a rule, what is
\* pending carries no decision of an earlier cycle, and only a rejection or a
\* revision request is left without approval.
Consistent(rec) ==
  /\ rec.status # "draft"
  /\ rec.status = "pending_review" => ~rec.reviewed /\ ~rec.auto
  /\ rec.status \in {"rejected", "revision_requested"} => rec.reviewed /\ ~rec.auto
  /\ rec.status \in {"approved", "published", "archived"} => (rec.reviewed # rec.auto)

\* Saves overwrite whole records, so racing requests may undo each other but
\* never leave a published record without an approval of its own cycle.
RecordsConsistent == \A r \in Existing : Consistent(recs[r])

\* A status change of a stored record the workflow allows: a transition of the
\* table, rejected or revision_requested back to pending by way of draft, or
\* the reset by a new submission.
LegalStep(r) ==
  LET from == recs[r].status
      to == recs'[r].status
  IN \/ from = to
     \/ CanTransition(from, to)
     \/ CanTransition(from, "draft") /\ to = "pending_review"
     \/ \E q \in Requests :
          /\ op[q] \in {"submit", "ingest"} /\ copy[q].id = r
          /\ pc[q] = "save" /\ pc'[q] # "save"

\* With the in-memory store no interleaving of requests takes a record through
\* a transition the table does not have.
LegalInMemory == [][store = "memory" => \A r \in Existing : LegalStep(r)]_vars

\* With the in-memory store the audit trail of a record never loses a comment.
TrailKeptInMemory ==
  [][store = "memory" => \A r \in Existing : recs[r].trail \subseteq recs'[r].trail]_vars

\* With the in-memory store a document never has two review records.
OneRecordInMemory == store = "memory" => Cardinality(Existing) <= 1

\* The document has the status its record in one of the scanned statuses
\* stands for; two racing submissions may have left two records.
DocAgrees ==
  Cardinality(Existing) = 1 =>
    \A r \in Existing : recs[r].status \in DocStatuses => doc = recs[r].status

\* Lost and reordered PATCH calls can leave the document in any status, but a
\* reconciliation that starts when everything else is over repairs it, unless
\* one of its own calls fails or the record lies beyond the end of its list.
ReconcileRepairs == \A c \in Reconcilers : stage[c] = "done" /\ ~missed[c] => DocAgrees
=============================================================================
