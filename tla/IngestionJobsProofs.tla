------------------------- MODULE IngestionJobsProofs -------------------------
(***************************************************************************)
(* Theorems about the job lifecycle, for any number of jobs, pods,         *)
(* handlers, retries, crashes and refused saves.                           *)
(***************************************************************************)
EXTENDS IngestionJobs, TLAPS

\* A job nobody has submitted has no record, nobody is about to write one, and
\* no store call of it is under way.
NoTrace(j) ==
  rec[j] = Missing /\ ~InFlight(j) /\ late[j] = 0 /\ \A p \in Pods : j \notin todo[p]

Untouched == \A j \in Jobs : pc[j] = "none" => NoTrace(j)

\* The job object has a document id exactly from the answer of the store call
\* on, and it is one of the documents knowledge-api holds.
IdsKnown ==
  \A j \in Jobs :
    /\ documentId[j] <= docs[j]
    /\ pc[j] \in {"none", "waiting"} \cup Stages => documentId[j] = 0
    /\ pc[j] \in AfterStore => documentId[j] # 0

\* Whoever goes on to report success has its review record.
ReviewedFirst ==
  \A j \in Jobs : pc[j] \in {"reviewed", "completing"} => documentId[j] \in reviewed[j]

\* Only a terminal record names a document, and a completed one names the
\* document under review.
RecordsBacked ==
  \A j \in Jobs :
    /\ rec[j].status \notin Terminal => rec[j].doc = 0
    /\ rec[j].status = "completed" =>
         documentId[j] # 0 /\ rec[j].doc = documentId[j] /\ documentId[j] \in reviewed[j]

\* The inductive invariant.
IInv ==
  /\ TypeOK
  /\ Untouched
  /\ IdsKnown
  /\ ReviewedFirst
  /\ RecordsBacked
  /\ OneReviewPerJob
  /\ DuplicatesOnlyFromLostCalls

\* It holds initially.
LEMMA InitIInv == Init => IInv
  BY JobsAssumption
  DEF Init, IInv, TypeOK, Untouched, IdsKnown, ReviewedFirst, RecordsBacked, OneReviewPerJob,
      DuplicatesOnlyFromLostCalls, Active, Ended, Stages, AfterStore, Missing, Statuses, NoCopy,
      Terminal, Copies, InFlight, NoTrace

\* What a save does, whether Redis takes it or refuses it.
LEMMA Persisted ==
  ASSUME TypeOK, NEW j \in Jobs, NEW status \in Statuses, NEW doc \in Nat,
         PersistJob(j, status, doc)
  PROVE  /\ rec' \in [Jobs -> [status : Statuses, doc : Nat]]
         /\ storeErrors' \in Nat
         /\ \A k \in Jobs \ {j} : rec'[k] = rec[k]
         /\ rec'[j] = rec[j] \/ (rec'[j].status = status /\ rec'[j].doc = doc)
<1> DEFINE new == [status |-> status, doc |-> doc]
<1>1. new \in [status : Statuses, doc : Nat] /\ new.status = status /\ new.doc = doc
  OBVIOUS
<1>2. CASE Save(j, status, doc) /\ UNCHANGED storeErrors
  <2>1. rec' = [rec EXCEPT ![j] = new]
    BY <1>2 DEF Save
  <2> HIDE DEF new
  <2>2. QED
    BY <1>1, <1>2, <2>1 DEF TypeOK
<1>3. CASE storeErrors' = storeErrors + 1 /\ UNCHANGED rec
  BY <1>3 DEF TypeOK
<1>4. QED
  BY <1>2, <1>3 DEF PersistJob

\* Types are kept by every step.
LEMMA TypeStep == TypeOK /\ RecordsBacked /\ [Next]_vars => TypeOK'
<1> SUFFICES ASSUME TypeOK, RecordsBacked, [Next]_vars PROVE TypeOK'
  OBVIOUS
<1> USE JobsAssumption
    DEF TypeOK, Active, Ended, Stages, AfterStore, Statuses, Terminal, goto, taskVars,
        knowledgeVars, podVars
<1>30. ASSUME NEW j \in Jobs, NEW status \in Statuses, PersistJob(j, status, documentId[j])
       PROVE  rec' \in [Jobs -> [status : Statuses, doc : Nat]] /\ storeErrors' \in Nat
  BY <1>30, Persisted
<1>31. ASSUME NEW j \in Jobs, HandleFailure(j)
       PROVE  /\ pc' \in [Jobs -> {"none", "waiting"} \cup Active \cup Ended]
              /\ rec' \in [Jobs -> [status : Statuses, doc : Nat]] /\ storeErrors' \in Nat
              /\ UNCHANGED attempt
  BY <1>30, <1>31 DEF HandleFailure
<1>32. ASSUME NEW j \in Jobs, NEW from, NEW to \in Stages, Enter(j, from, to)
       PROVE  /\ pc' \in [Jobs -> {"none", "waiting"} \cup Active \cup Ended]
              /\ rec' \in [Jobs -> [status : Statuses, doc : Nat]] /\ storeErrors' \in Nat
              /\ UNCHANGED <<documentId, lost, knowledgeVars, podVars, aged, req>>
  BY <1>30, <1>32 DEF Enter
<1>1. ASSUME NEW j \in Jobs, Submit(j) PROVE TypeOK'
  BY <1>1, Persisted DEF Submit
<1>2. ASSUME NEW j \in Jobs, Start(j) PROVE TypeOK'
  BY <1>2, <1>32 DEF Start
<1>3. ASSUME NEW j \in Jobs, Clean(j) \/ Enrich(j) \/ Contextualize(j) PROVE TypeOK'
  BY <1>3, <1>32 DEF Clean, Enrich, Contextualize
<1>4. ASSUME NEW j \in Jobs, Index(j) PROVE TypeOK'
  BY <1>4, <1>32 DEF Index
<1>5. ASSUME NEW j \in Jobs, StoreAnswered(j) PROVE TypeOK'
  BY <1>5 DEF StoreAnswered
<1>6. ASSUME NEW j \in Jobs, RetryOrFail(j)
      PROVE  /\ attempt' \in [Jobs -> 0 .. MaxAttempts]
             /\ pc' \in [Jobs -> {"none", "waiting"} \cup Active \cup Ended]
             /\ rec' \in [Jobs -> [status : Statuses, doc : Nat]]
             /\ storeErrors' \in Nat
  <2>1. CASE Retry(j)
    BY <2>1 DEF Retry
  <2>2. CASE HandleFailure(j)
    BY <1>31, <2>2
  <2>3. QED
    BY <1>6, <2>1, <2>2 DEF RetryOrFail
<1>7. ASSUME NEW j \in Jobs, StoreLost(j) PROVE TypeOK'
  <2>1. lost' \in [Jobs -> Nat] /\ docs' \in [Jobs -> Nat] /\ late' \in [Jobs -> Nat]
    <3>1. lost' \in [Jobs -> Nat]
      BY <1>7 DEF StoreLost
    <3>2. docs' = docs \/ docs' = [docs EXCEPT ![j] = @ + 1]
      BY <1>7 DEF StoreLost
    <3>3. late' = late \/ late' = [late EXCEPT ![j] = @ + 1]
      BY <1>7 DEF StoreLost
    <3>4. docs' \in [Jobs -> Nat]
      BY <3>2
    <3>5. late' \in [Jobs -> Nat]
      BY <3>3
    <3>6. QED
      BY <3>1, <3>4, <3>5
  <2>2. RetryOrFail(j) /\ UNCHANGED <<documentId, published, reviewed, podVars, aged, req>>
    BY <1>7 DEF StoreLost
  <2>3. QED
    BY <1>6, <2>1, <2>2
<1>8. ASSUME NEW j \in Jobs, StoreRefused(j) PROVE TypeOK'
  BY <1>6, <1>8 DEF StoreRefused
<1>9. ASSUME NEW j \in Jobs, StoreFailed(j) \/ StageRaises(j) PROVE TypeOK'
  BY <1>9, <1>31 DEF StoreFailed, StageRaises
<1>10. ASSUME NEW j \in Jobs, Gate(j) PROVE TypeOK'
  <2>1. published' \in [Jobs -> SUBSET Nat]
    <3>1. CASE UNCHANGED published
      BY <3>1
    <3>2. CASE published' = [published EXCEPT ![j] = @ \cup {documentId[j]}]
      BY <3>2
    <3>3. QED
      BY <1>10, <3>1, <3>2 DEF Gate
  <2>2. QED
    BY <1>10, <2>1 DEF Gate
<1>11. ASSUME NEW j \in Jobs, SubmitReview(j) PROVE TypeOK'
  BY <1>11 DEF SubmitReview
<1>12. ASSUME NEW j \in Jobs, ReviewRaises(j) PROVE TypeOK'
  <2>1. reviewed' \in [Jobs -> SUBSET Nat]
    <3>1. CASE UNCHANGED reviewed
      BY <3>1
    <3>2. CASE reviewed' = [reviewed EXCEPT ![j] = @ \cup {documentId[j]}]
      BY <3>2
    <3>3. QED
      BY <1>12, <3>1, <3>2 DEF ReviewRaises
  <2>2. QED
    BY <1>12, <1>31, <2>1 DEF ReviewRaises
<1>13. ASSUME NEW j \in Jobs, Complete(j) \/ Finish(j) PROVE TypeOK'
  BY <1>13, <1>30 DEF Complete, Finish
<1>14. ASSUME NEW j \in Jobs, LateStore(j) PROVE TypeOK'
  BY <1>14 DEF LateStore
<1>15. ASSUME NEW j \in Jobs, Age(j) PROVE TypeOK'
  BY <1>15 DEF Age
<1>16. ASSUME NEW r \in Requests, NEW j \in Jobs, CancelRead(r, j) \/ ExpireRead(r, j)
       PROVE TypeOK'
  <2>1. PICK p \in Pods, status \in {"cancelled", "failed"} :
          req' = [req EXCEPT ![r] = [at |-> p, job |-> j, status |-> status,
                                     doc |-> rec[j].doc]]
    BY <1>16 DEF CancelRead, ExpireRead, ReadFor
  <2>2. rec[j].doc = 0
    BY <1>16 DEF CancelRead, ExpireRead, ReadFor, RecordsBacked
  <2>3. [at |-> p, job |-> j, status |-> status, doc |-> rec[j].doc] \in Copies
    BY <2>2 DEF Copies
  <2>4. req' \in [Requests -> Copies \cup {NoCopy}]
    BY <2>1, <2>3
  <2>5. QED
    BY <1>16, <2>4 DEF CancelRead, ExpireRead, ReadFor
<1>17. ASSUME NEW r \in Requests, HandlerSave(r) PROVE TypeOK'
  <2>1. req[r] \in Copies
    BY <1>17 DEF HandlerSave
  <2>2. req[r].job \in Jobs /\ req[r].status \in Statuses /\ req[r].doc \in Nat
    BY <2>1 DEF Copies
  <2>3. QED
    BY <1>17, <2>2, Persisted DEF HandlerSave
<1>18. ASSUME NEW p \in Pods, Crash(p) PROVE TypeOK'
  BY <1>18 DEF Crash
<1>19. ASSUME NEW p \in Pods, Restart(p) PROVE TypeOK'
  BY <1>19 DEF Restart
<1>20. ASSUME NEW p \in Pods, RecoverRead(p) PROVE TypeOK'
  BY <1>20 DEF RecoverRead
<1>21. ASSUME NEW p \in Pods, RecoverWrite(p) PROVE TypeOK'
  <2>1. PICK j \in found[p] : rec' = [rec EXCEPT ![j].status = "failed"]
    BY <1>21 DEF RecoverWrite
  <2>2. j \in Jobs
    OBVIOUS
  <2>3. [rec[j] EXCEPT !.status = "failed"] \in [status : Statuses, doc : Nat]
    BY <2>2
  <2>4. rec' = [rec EXCEPT ![j] = [rec[j] EXCEPT !.status = "failed"]]
    BY <2>1, <2>2
  <2>5. rec' \in [Jobs -> [status : Statuses, doc : Nat]]
    BY <2>2, <2>3, <2>4
  <2>6. QED
    BY <1>21, <2>5 DEF RecoverWrite
<1>22. ASSUME NEW p \in Pods, Serve(p) PROVE TypeOK'
  BY <1>22 DEF Serve
<1>23. CASE UNCHANGED vars
  BY <1>23 DEF vars
<1>24. QED
  BY <1>1, <1>2, <1>3, <1>4, <1>5, <1>7, <1>8, <1>9, <1>10, <1>11, <1>12, <1>13, <1>14, <1>15,
     <1>16, <1>17, <1>18, <1>19, <1>20, <1>21, <1>22, <1>23
  DEF Next, TaskStep, HandlerStep, PodStep

\* A step of the task of j touches no other job, no handler and no scan, and
\* takes a task that runs, or starts one.
LEMMA TaskStepIsLocal ==
  ASSUME TypeOK, NEW j \in Jobs, Submit(j) \/ TaskStep(j)
  PROVE  /\ pc'[j] # "none"
         /\ pc[j] \in {"none", "waiting"} \cup Active
         /\ UNCHANGED <<req, found, todo>>
         /\ \A k \in Jobs \ {j} : pc'[k] = pc[k] /\ rec'[k] = rec[k] /\ late'[k] = late[k]
<1> USE DEF TypeOK, Stages, AfterStore, Active, Ended, Statuses, Terminal, goto, taskVars,
            knowledgeVars, podVars
<1>1. CASE Submit(j)
  BY <1>1, Persisted DEF Submit
<1>2. CASE Start(j) \/ Clean(j) \/ Enrich(j) \/ Contextualize(j) \/ Index(j)
  BY <1>2, Persisted DEF Start, Clean, Enrich, Contextualize, Index, Enter
<1>3. ASSUME RetryOrFail(j), pc[j] = "indexing"
      PROVE  /\ pc'[j] # "none"
             /\ \A k \in Jobs \ {j} : pc'[k] = pc[k] /\ rec'[k] = rec[k]
  <2>1. CASE Retry(j)
    BY <1>3, <2>1 DEF Retry
  <2>2. CASE HandleFailure(j)
    BY <2>2, Persisted DEF HandleFailure
  <2>3. QED
    BY <1>3, <2>1, <2>2 DEF RetryOrFail
<1>4. CASE StoreLost(j) \/ StoreRefused(j)
  BY <1>3, <1>4 DEF StoreLost, StoreRefused
<1>5. CASE StoreFailed(j) \/ StageRaises(j) \/ ReviewRaises(j)
  BY <1>5, Persisted DEF StoreFailed, StageRaises, ReviewRaises, HandleFailure
<1>6. CASE StoreAnswered(j) \/ Gate(j) \/ SubmitReview(j)
  BY <1>6 DEF StoreAnswered, Gate, SubmitReview
<1>7. CASE Complete(j) \/ Finish(j)
  BY <1>7, Persisted DEF Complete, Finish
<1>8. QED
  BY <1>1, <1>2, <1>4, <1>5, <1>6, <1>7 DEF TaskStep

\* Nothing is written about a job before it is submitted.
LEMMA UntouchedStep == TypeOK /\ Untouched /\ [Next]_vars => Untouched'
<1> SUFFICES ASSUME TypeOK, Untouched, [Next]_vars, NEW i \in Jobs, pc'[i] = "none"
             PROVE  NoTrace(i)'
  BY DEF Untouched
<1> USE DEF TypeOK, Stages, AfterStore, Active, Ended, Statuses, Terminal, goto, taskVars,
            knowledgeVars, podVars
<1>1. ASSUME NEW j \in Jobs, Submit(j) \/ TaskStep(j)
      PROVE  NoTrace(i)'
  BY TaskStepIsLocal, <1>1 DEF Untouched, NoTrace, InFlight
<1>2. ASSUME NEW j \in Jobs, LateStore(j) \/ Age(j)
      PROVE  NoTrace(i)'
  BY <1>2 DEF LateStore, Age, Untouched, NoTrace, InFlight
<1>3. ASSUME NEW r \in Requests, NEW j \in Jobs, CancelRead(r, j) \/ ExpireRead(r, j)
      PROVE  NoTrace(i)'
  <2>1. PICK p \in Pods, status \in {"cancelled", "failed"} :
          req' = [req EXCEPT ![r] = [at |-> p, job |-> j, status |-> status,
                                     doc |-> rec[j].doc]]
    BY <1>3 DEF CancelRead, ExpireRead, ReadFor
  <2>2. rec[j].status # "missing" /\ UNCHANGED <<taskVars, knowledgeVars, podVars, rec>>
    BY <1>3 DEF CancelRead, ExpireRead, ReadFor
  <2>3. j # i
    BY <2>2 DEF Untouched, NoTrace, Missing
  <2>4. QED
    BY <2>1, <2>2, <2>3 DEF Untouched, NoTrace, InFlight
<1>4. ASSUME NEW r \in Requests, HandlerSave(r)
      PROVE  NoTrace(i)'
  <2>1. req[r] \in Copies
    BY <1>4 DEF HandlerSave
  <2>2. req[r].job \in Jobs /\ req[r].status \in Statuses /\ req[r].doc \in Nat
    BY <2>1 DEF Copies
  <2>3. req[r].job # i /\ UNCHANGED <<taskVars, knowledgeVars, podVars>>
    BY <1>4 DEF HandlerSave, Untouched, NoTrace, InFlight
  <2>4. req' = [req EXCEPT ![r] = NoCopy]
    BY <1>4 DEF HandlerSave
  <2>5. rec'[i] = rec[i]
    BY <1>4, <2>2, <2>3, Persisted DEF HandlerSave
  <2>6. QED
    BY <2>3, <2>4, <2>5 DEF Untouched, NoTrace, InFlight
<1>5. ASSUME NEW p \in Pods, PodStep(p)
      PROVE  NoTrace(i)'
  <2>1. pc[i] = "none" /\ NoTrace(i)
    BY <1>5 DEF PodStep, Crash, Restart, RecoverRead, RecoverWrite, Serve, Untouched
  <2>2. CASE Crash(p)
    BY <2>1, <2>2 DEF Crash, NoTrace, InFlight
  <2>3. CASE Restart(p) \/ Serve(p)
    BY <2>1, <2>3 DEF Restart, Serve, NoTrace, InFlight
  <2>4. CASE RecoverRead(p)
    BY <2>1, <2>4 DEF RecoverRead, NoTrace, InFlight
  <2>5. CASE RecoverWrite(p)
    BY <2>1, <2>5 DEF RecoverWrite, NoTrace, InFlight
  <2>6. QED
    BY <1>5, <2>2, <2>3, <2>4, <2>5 DEF PodStep
<1>6. CASE UNCHANGED vars
  BY <1>6 DEF vars, Untouched, NoTrace, InFlight
<1>7. QED
  BY <1>1, <1>2, <1>3, <1>4, <1>5, <1>6 DEF Next, HandlerStep

\* The parts of the invariant that speak of one job at a time.
Rest == IdsKnown /\ ReviewedFirst /\ RecordsBacked /\ OneReviewPerJob
        /\ DuplicatesOnlyFromLostCalls

\* Every step keeps the link between documents, reviews and records.
LEMMA RestStep == TypeOK /\ Rest /\ [Next]_vars => Rest'
<1> SUFFICES ASSUME TypeOK, Rest, [Next]_vars PROVE Rest'
  OBVIOUS
<1> USE JobsAssumption
    DEF Rest, IdsKnown, ReviewedFirst, RecordsBacked, OneReviewPerJob,
        DuplicatesOnlyFromLostCalls, TypeOK, Active, Ended, Stages, AfterStore, Statuses,
        Terminal, Missing, goto, taskVars, knowledgeVars, podVars
<1>1. ASSUME NEW j \in Jobs, Submit(j) PROVE Rest'
  BY <1>1, Persisted DEF Submit
<1>2. ASSUME NEW j \in Jobs, Start(j) \/ Clean(j) \/ Enrich(j) \/ Contextualize(j) \/ Index(j)
      PROVE  Rest'
  <2>1. IdsKnown'
    BY <1>2, Persisted DEF Start, Clean, Enrich, Contextualize, Index, Enter
  <2>2. ReviewedFirst'
    BY <1>2, Persisted DEF Start, Clean, Enrich, Contextualize, Index, Enter
  <2>3. RecordsBacked'
    BY <1>2, Persisted DEF Start, Clean, Enrich, Contextualize, Index, Enter
  <2>4. OneReviewPerJob'
    BY <1>2, Persisted DEF Start, Clean, Enrich, Contextualize, Index, Enter
  <2>5. DuplicatesOnlyFromLostCalls'
    BY <1>2, Persisted DEF Start, Clean, Enrich, Contextualize, Index, Enter
  <2>6. QED
    BY <2>1, <2>2, <2>3, <2>4, <2>5
<1>3. ASSUME NEW j \in Jobs, StoreAnswered(j) PROVE Rest'
  BY <1>3 DEF StoreAnswered
<1>4. ASSUME NEW j \in Jobs, pc[j] = "indexing", RetryOrFail(j)
      PROVE  /\ pc'[j] \in {"indexing", "failed"}
             /\ \A k \in Jobs \ {j} : pc'[k] = pc[k] /\ rec'[k] = rec[k]
             /\ rec'[j] = rec[j] \/ rec'[j].status = "failed"
  <2>1. CASE Retry(j)
    BY <1>4, <2>1 DEF Retry
  <2>2. CASE HandleFailure(j)
    BY <2>2, Persisted DEF HandleFailure
  <2>3. QED
    BY <1>4, <2>1, <2>2 DEF RetryOrFail
<1>5. ASSUME NEW j \in Jobs, pc[j] = "indexing", RetryOrFail(j),
              UNCHANGED <<documentId, reviewed>>
       PROVE  RecordsBacked'
  <2>1. ASSUME NEW k \in Jobs
        PROVE  /\ rec'[k].status \notin Terminal => rec'[k].doc = 0
               /\ rec'[k].status = "completed" =>
                    documentId[k] # 0 /\ rec'[k].doc = documentId[k] /\ documentId[k] \in reviewed[k]
    <3>1. rec'[k] = rec[k] \/ rec'[k].status = "failed"
      BY <1>4, <1>5
    <3>2. QED
      BY <3>1
  <2>2. QED
    BY <1>5, <2>1
<1>6. ASSUME NEW j \in Jobs, StoreLost(j) PROVE Rest'
  <2>1. IdsKnown'
    BY <1>4, <1>6 DEF StoreLost
  <2>2. ReviewedFirst'
    BY <1>4, <1>6 DEF StoreLost
  <2>3. RecordsBacked'
    BY <1>5, <1>6 DEF StoreLost
  <2>4. OneReviewPerJob'
    BY <1>4, <1>6 DEF StoreLost
  <2>5. DuplicatesOnlyFromLostCalls'
    BY <1>4, <1>6 DEF StoreLost
  <2>6. QED
    BY <2>1, <2>2, <2>3, <2>4, <2>5
<1>7. ASSUME NEW j \in Jobs, StoreRefused(j) PROVE Rest'
  <2>1. IdsKnown'
    BY <1>4, <1>7 DEF StoreRefused
  <2>2. ReviewedFirst'
    BY <1>4, <1>7 DEF StoreRefused
  <2>3. RecordsBacked'
    BY <1>5, <1>7 DEF StoreRefused
  <2>4. OneReviewPerJob'
    BY <1>4, <1>7 DEF StoreRefused
  <2>5. DuplicatesOnlyFromLostCalls'
    BY <1>4, <1>7 DEF StoreRefused
  <2>6. QED
    BY <2>1, <2>2, <2>3, <2>4, <2>5
<1>8. ASSUME NEW j \in Jobs, StoreFailed(j) \/ StageRaises(j) PROVE Rest'
  BY <1>8, Persisted DEF StoreFailed, StageRaises, HandleFailure
<1>9. ASSUME NEW j \in Jobs, Gate(j) PROVE Rest'
  BY <1>9 DEF Gate
<1>10. ASSUME NEW j \in Jobs, SubmitReview(j) PROVE Rest'
  BY <1>10 DEF SubmitReview
<1>11. ASSUME NEW j \in Jobs, ReviewRaises(j) PROVE Rest'
  <2>1. IdsKnown'
    BY <1>11, Persisted DEF ReviewRaises, HandleFailure
  <2>2. ReviewedFirst'
    BY <1>11, Persisted DEF ReviewRaises, HandleFailure
  <2>3. RecordsBacked'
    BY <1>11, Persisted DEF ReviewRaises, HandleFailure
  <2>4. OneReviewPerJob'
    <3>1. documentId' = documentId /\ documentId[j] # 0
      BY <1>11 DEF ReviewRaises
    <3>2. reviewed' = reviewed \/ reviewed' = [reviewed EXCEPT ![j] = @ \cup {documentId[j]}]
      BY <1>11 DEF ReviewRaises
    <3>3. CASE reviewed' = reviewed
      BY <3>1, <3>3
    <3>4. CASE reviewed' = [reviewed EXCEPT ![j] = @ \cup {documentId[j]}]
      <4>1. reviewed'[j] = reviewed[j] \cup {documentId[j]}
        BY <3>4
      <4>2. \A k \in Jobs \ {j} : reviewed'[k] = reviewed[k]
        BY <3>4
      <4>3. QED
        BY <3>1, <4>1, <4>2
    <3>5. QED
      BY <3>2, <3>3, <3>4
  <2>5. DuplicatesOnlyFromLostCalls'
    BY <1>11, Persisted DEF ReviewRaises, HandleFailure
  <2>6. QED
    BY <2>1, <2>2, <2>3, <2>4, <2>5
<1>12. ASSUME NEW j \in Jobs, Complete(j) \/ Finish(j) PROVE Rest'
  <2>1. IdsKnown'
    BY <1>12, Persisted DEF Complete, Finish
  <2>2. ReviewedFirst'
    BY <1>12, Persisted DEF Complete, Finish
  <2>3. RecordsBacked'
    BY <1>12, Persisted DEF Complete, Finish
  <2>4. OneReviewPerJob'
    BY <1>12, Persisted DEF Complete, Finish
  <2>5. DuplicatesOnlyFromLostCalls'
    BY <1>12, Persisted DEF Complete, Finish
  <2>6. QED
    BY <2>1, <2>2, <2>3, <2>4, <2>5
<1>13. ASSUME NEW j \in Jobs, LateStore(j) PROVE Rest'
  <2>1. IdsKnown'
    BY <1>13 DEF LateStore
  <2>2. ReviewedFirst'
    BY <1>13 DEF LateStore
  <2>3. RecordsBacked'
    BY <1>13 DEF LateStore
  <2>4. OneReviewPerJob'
    BY <1>13 DEF LateStore
  <2>5. DuplicatesOnlyFromLostCalls'
    BY <1>13 DEF LateStore
  <2>6. QED
    BY <2>1, <2>2, <2>3, <2>4, <2>5
<1>14. ASSUME NEW j \in Jobs, Age(j) PROVE Rest'
  BY <1>14 DEF Age
<1>15. ASSUME NEW r \in Requests, NEW j \in Jobs, CancelRead(r, j) \/ ExpireRead(r, j)
       PROVE Rest'
  BY <1>15 DEF CancelRead, ExpireRead, ReadFor
<1>16. ASSUME NEW r \in Requests, HandlerSave(r) PROVE Rest'
  <2>1. req[r] \in Copies
    BY <1>16 DEF HandlerSave
  <2>2. /\ req[r].job \in Jobs /\ req[r].status \in {"cancelled", "failed"}
        /\ req[r].doc \in Nat
    BY <2>1 DEF Copies
  <2>3. QED
    BY <1>16, <2>2, Persisted DEF HandlerSave
<1>17. ASSUME NEW p \in Pods, Crash(p) PROVE Rest'
  BY <1>17 DEF Crash
<1>18. ASSUME NEW p \in Pods, Restart(p) \/ RecoverRead(p) \/ Serve(p) PROVE Rest'
  BY <1>18 DEF Restart, RecoverRead, Serve
<1>19. ASSUME NEW p \in Pods, RecoverWrite(p) PROVE Rest'
  BY <1>19 DEF RecoverWrite
<1>20. CASE UNCHANGED vars
  BY <1>20 DEF vars
<1>21. QED
  BY <1>1, <1>2, <1>3, <1>6, <1>7, <1>8, <1>9, <1>10, <1>11, <1>12, <1>13, <1>14,
     <1>15, <1>16, <1>17, <1>18, <1>19, <1>20
  DEF Next, TaskStep, HandlerStep, PodStep

\* The invariant holds in every reachable state.
THEOREM Invariance == Spec => []IInv
<1>1. IInv /\ [Next]_vars => IInv'
  BY TypeStep, UntouchedStep, RestStep DEF IInv, Rest
<1>2. QED
  BY InitIInv, <1>1, PTL DEF Spec

\* The lifecycle never leaves its types.
THEOREM TypeCorrect == Spec => []TypeOK
<1>1. IInv => TypeOK
  BY DEF IInv
<1>2. QED
  BY Invariance, <1>1, PTL

\* A job a client sees as completed has a stored document under review,
\* whatever the interleaving of tasks, handlers, crashes and recovery scans.
THEOREM CompletedBacked == Spec => []CompletedIsBacked
<1>1. IInv => CompletedIsBacked
  BY DEF IInv, TypeOK, IdsKnown, RecordsBacked, CompletedIsBacked
<1>2. QED
  BY Invariance, <1>1, PTL

\* Duplicates of a document come from store calls without an answer only.
THEOREM DuplicatesBounded == Spec => []DuplicatesOnlyFromLostCalls
<1>1. IInv => DuplicatesOnlyFromLostCalls
  BY DEF IInv
<1>2. QED
  BY Invariance, <1>1, PTL

\* At most one document of a job enters review, the one the pipeline knows.
THEOREM OneReview == Spec => []OneReviewPerJob
<1>1. IInv => OneReviewPerJob
  BY DEF IInv
<1>2. QED
  BY Invariance, <1>1, PTL

\* A terminal record stays as it is once its task has ended and nobody who
\* read it earlier is about to write.
THEOREM SettledForGood == Spec => SettledIsFinal
<1>1. ASSUME IInv, [Next]_vars, NEW i \in Jobs, Settled(i)
      PROVE  Settled(i)' /\ rec'[i] = rec[i]
  <2>1. TypeOK /\ Untouched /\ rec[i].status \in Terminal /\ ~InFlight(i)
    BY <1>1 DEF IInv, Settled
  <2>2. pc[i] \notin {"none", "waiting"} \cup Active
    BY <2>1 DEF Untouched, NoTrace, InFlight, Missing, Terminal
  <2>3. ASSUME NEW j \in Jobs, Submit(j) \/ TaskStep(j)
        PROVE  Settled(i)' /\ rec'[i] = rec[i]
    <3>1. j # i /\ UNCHANGED <<req, found>> /\ pc'[i] = pc[i] /\ rec'[i] = rec[i]
      BY <2>1, <2>2, <2>3, TaskStepIsLocal
    <3>2. QED
      BY <1>1, <3>1 DEF Settled, InFlight
  <2>4. ASSUME NEW j \in Jobs, LateStore(j) \/ Age(j)
        PROVE  Settled(i)' /\ rec'[i] = rec[i]
    BY <1>1, <2>4 DEF LateStore, Age, taskVars, podVars, Settled, InFlight
  <2>5. ASSUME NEW r \in Requests, NEW j \in Jobs, CancelRead(r, j) \/ ExpireRead(r, j)
        PROVE  Settled(i)' /\ rec'[i] = rec[i]
    <3>1. PICK p \in Pods, status \in {"cancelled", "failed"} :
            req' = [req EXCEPT ![r] = [at |-> p, job |-> j, status |-> status,
                                       doc |-> rec[j].doc]]
      BY <2>5 DEF CancelRead, ExpireRead, ReadFor
    <3>2. rec[j].status \notin Terminal /\ UNCHANGED <<pc, found, rec>>
      BY <2>5 DEF CancelRead, ExpireRead, ReadFor, taskVars, podVars
    <3>3. j # i
      BY <2>1, <3>2
    <3>4. QED
      BY <1>1, <2>1, <3>1, <3>2, <3>3 DEF Settled, InFlight, TypeOK
  <2>6. ASSUME NEW r \in Requests, HandlerSave(r)
        PROVE  Settled(i)' /\ rec'[i] = rec[i]
    <3>1. req[r] \in Copies
      BY <2>1, <2>6 DEF HandlerSave, TypeOK
    <3>2. req[r].job \in Jobs \ {i} /\ req[r].status \in Statuses /\ req[r].doc \in Nat
      BY <2>1, <2>6, <3>1 DEF Copies, HandlerSave, InFlight, Statuses, Terminal
    <3>3. rec'[i] = rec[i]
      BY <2>1, <2>6, <3>2, Persisted DEF HandlerSave
    <3>4. req' = [req EXCEPT ![r] = NoCopy] /\ UNCHANGED <<pc, found>>
      BY <2>6 DEF HandlerSave, taskVars, podVars
    <3>5. QED
      BY <1>1, <2>1, <3>3, <3>4 DEF Settled, InFlight, TypeOK
  <2>7. ASSUME NEW p \in Pods, PodStep(p)
        PROVE  Settled(i)' /\ rec'[i] = rec[i]
    <3>1. CASE Crash(p)
      BY <1>1, <2>1, <3>1
      DEF Crash, Settled, InFlight, TypeOK, Active, Stages, AfterStore
    <3>2. CASE Restart(p) \/ Serve(p)
      BY <1>1, <3>2 DEF Restart, Serve, taskVars, Settled, InFlight
    <3>3. CASE RecoverRead(p)
      BY <1>1, <2>1, <3>3 DEF RecoverRead, taskVars, Settled, InFlight, TypeOK
    <3>4. CASE RecoverWrite(p)
      BY <1>1, <2>1, <3>4 DEF RecoverWrite, taskVars, Settled, InFlight, TypeOK
    <3>5. QED
      BY <2>7, <3>1, <3>2, <3>3, <3>4 DEF PodStep
  <2>8. CASE UNCHANGED vars
    BY <1>1, <2>8 DEF vars, taskVars, podVars, Settled, InFlight
  <2>9. QED
    BY <1>1, <2>3, <2>4, <2>5, <2>6, <2>7, <2>8 DEF Next, HandlerStep
<1>2. IInv /\ [Next]_vars => [\A j \in Jobs : Settled(j) => Settled(j)' /\ rec'[j] = rec[j]]_vars
  BY <1>1
<1>3. QED
  BY Invariance, <1>2, PTL DEF Spec, SettledIsFinal

\* A record leaves a terminal status by the hand of its own task alone.
THEOREM RevivedByOwnTask == Spec => RevivedByOwnTaskOnly
<1>1. ASSUME IInv, [Next]_vars, NEW i \in Jobs, rec[i].status \in Terminal,
             rec'[i].status \notin Terminal
      PROVE  pc'[i] = rec'[i].status /\ pc'[i] # pc[i]
  <2>1. TypeOK /\ pc[i] # "none"
    BY <1>1 DEF IInv, Untouched, NoTrace, Missing, Terminal
  <2>2. ASSUME NEW j \in Jobs, Submit(j) \/ TaskStep(j)
        PROVE  pc'[i] = rec'[i].status /\ pc'[i] # pc[i]
    <3>1. j = i /\ TaskStep(i)
      BY <1>1, <2>1, <2>2, TaskStepIsLocal DEF Submit
    <3>2. CASE Start(i) \/ Clean(i) \/ Enrich(i) \/ Contextualize(i) \/ Index(i)
      BY <1>1, <2>1, <3>2, Persisted
      DEF Start, Clean, Enrich, Contextualize, Index, Enter, goto, TypeOK, Active, Stages,
          AfterStore, Ended, Statuses
    <3>3. ASSUME HandleFailure(i)
          PROVE  FALSE
      BY <1>1, <2>1, <3>3, Persisted DEF HandleFailure, TypeOK, Statuses, Terminal
    <3>4. CASE StoreLost(i) \/ StoreRefused(i)
      BY <1>1, <3>3, <3>4 DEF StoreLost, StoreRefused, RetryOrFail, Retry
    <3>5. CASE StoreFailed(i) \/ StageRaises(i) \/ ReviewRaises(i)
      BY <3>3, <3>5 DEF StoreFailed, StageRaises, ReviewRaises
    <3>6. CASE StoreAnswered(i) \/ Gate(i) \/ SubmitReview(i)
      BY <1>1, <3>6 DEF StoreAnswered, Gate, SubmitReview
    <3>7. CASE Complete(i) \/ Finish(i)
      BY <1>1, <2>1, <3>7, Persisted DEF Complete, Finish, TypeOK, Statuses, Terminal
    <3>8. QED
      BY <3>1, <3>2, <3>4, <3>5, <3>6, <3>7 DEF TaskStep
  <2>3. ASSUME NEW r \in Requests, HandlerSave(r)
        PROVE  FALSE
    <3>1. req[r] \in Copies
      BY <2>1, <2>3 DEF HandlerSave, TypeOK
    <3>2. /\ req[r].job \in Jobs /\ req[r].status \in {"cancelled", "failed"}
          /\ req[r].doc \in Nat
      BY <3>1 DEF Copies
    <3>3. QED
      BY <1>1, <2>1, <2>3, <3>2, Persisted DEF HandlerSave, Statuses, Terminal
  <2>4. ASSUME NEW p \in Pods, RecoverWrite(p)
        PROVE  FALSE
    BY <1>1, <2>1, <2>4 DEF RecoverWrite, TypeOK, Terminal
  <2>5. rec' # rec
    BY <1>1
  <2>6. QED
    BY <1>1, <2>2, <2>3, <2>4, <2>5
    DEF Next, HandlerStep, PodStep, LateStore, Age, CancelRead, ExpireRead, ReadFor, Crash,
        Restart, RecoverRead, Serve, vars
<1>2. IInv /\ [Next]_vars
        => [\A j \in Jobs :
              rec[j].status \in Terminal /\ rec'[j].status \notin Terminal
                => pc'[j] = rec'[j].status /\ pc'[j] # pc[j]]_vars
  BY <1>1
<1>3. QED
  BY Invariance, <1>2, PTL DEF Spec, RevivedByOwnTaskOnly
\* What one step may do to one job, in the terms of KnowledgeIntake.
PhaseStep(i) ==
  \/ PhaseOf(i)' = PhaseOf(i)
  \/ PhaseOf(i) = "absent" /\ PhaseOf(i)' = "open"
  \/ PhaseOf(i) = "open" /\ PhaseOf(i)' = "closed"
HeldStep(i) == docs'[i] = docs[i] \/ (pc[i] # "none" /\ docs'[i] = docs[i] + 1)
ReviewStep(i) ==
  \/ reviewed'[i] = reviewed[i]
  \/ /\ PhaseOf(i) = "open" /\ reviewed[i] = {}
     /\ \E d \in 1 .. docs[i] : reviewed'[i] = {d}
ReportStep(i) ==
  rec[i].status # "completed" /\ rec'[i].status = "completed"
    => PhaseOf(i) = "open" /\ reviewed[i] # {}
IntakeStep(i) == PhaseStep(i) /\ HeldStep(i) /\ ReviewStep(i) /\ ReportStep(i)

\* A step of the task of i is a step of the abstract job.
LEMMA TaskIsIntake ==
  ASSUME IInv, NEW i \in Jobs, Submit(i) \/ TaskStep(i)
  PROVE  IntakeStep(i)
<1> USE DEF IInv, TypeOK, IntakeStep, PhaseStep, HeldStep, ReviewStep, ReportStep, PhaseOf,
            Stages, AfterStore, Active, Ended, Statuses, Terminal, goto, taskVars,
            knowledgeVars, podVars
<1>1. CASE Submit(i)
  BY <1>1, Persisted DEF Submit
<1>2. CASE Start(i) \/ Clean(i) \/ Enrich(i) \/ Contextualize(i) \/ Index(i)
  BY <1>2, Persisted DEF Start, Clean, Enrich, Contextualize, Index, Enter
<1>3. ASSUME RetryOrFail(i), pc[i] = "indexing"
      PROVE  /\ pc'[i] \in {"indexing", "failed"}
             /\ rec'[i] = rec[i] \/ rec'[i].status = "failed"
  <2>1. CASE Retry(i)
    BY <1>3, <2>1 DEF Retry
  <2>2. CASE HandleFailure(i)
    BY <2>2, Persisted DEF HandleFailure
  <2>3. QED
    BY <1>3, <2>1, <2>2 DEF RetryOrFail
<1>4. CASE StoreLost(i) \/ StoreRefused(i)
  BY <1>3, <1>4 DEF StoreLost, StoreRefused
<1>5. CASE StoreFailed(i) \/ StageRaises(i)
  BY <1>5, Persisted DEF StoreFailed, StageRaises, HandleFailure
<1>6. CASE StoreAnswered(i) \/ Gate(i)
  BY <1>6 DEF StoreAnswered, Gate
<1>7. ASSUME pc[i] = "gated", reviewed' = [reviewed EXCEPT ![i] = @ \cup {documentId[i]}]
      PROVE  ReviewStep(i)
  <2>1. documentId[i] \in 1 .. docs[i]
    BY <1>7 DEF IdsKnown
  <2>2. reviewed[i] = {} \/ reviewed[i] = {documentId[i]}
    BY DEF OneReviewPerJob
  <2>3. reviewed'[i] = {documentId[i]}
    BY <1>7, <2>2
  <2>4. QED
    BY <1>7, <2>1, <2>2, <2>3
<1>8. CASE SubmitReview(i)
  BY <1>7, <1>8 DEF SubmitReview
<1>9. CASE ReviewRaises(i)
  <2>1. ReviewStep(i)
    BY <1>7, <1>9 DEF ReviewRaises
  <2>2. QED
    BY <1>9, <2>1, Persisted DEF ReviewRaises, HandleFailure
<1>10. CASE Complete(i) \/ Finish(i)
  BY <1>10, Persisted DEF Complete, Finish, ReviewedFirst
<1>11. QED
  BY <1>1, <1>2, <1>4, <1>5, <1>6, <1>8, <1>9, <1>10 DEF TaskStep

\* Every step of the lifecycle is a step of every abstract job.
LEMMA StepIsIntake == ASSUME IInv, [Next]_vars, NEW i \in Jobs PROVE IntakeStep(i)
<1> USE DEF IntakeStep, PhaseStep, HeldStep, ReviewStep, ReportStep, PhaseOf
<1>1. TypeOK
  BY DEF IInv
<1>2. ASSUME NEW j \in Jobs, Submit(j) \/ TaskStep(j)
      PROVE  IntakeStep(i)
  <2>1. CASE j = i
    BY <1>2, <2>1, TaskIsIntake
  <2>2. CASE j # i
    <3>1. pc'[i] = pc[i] /\ rec'[i] = rec[i]
      BY <1>1, <1>2, <2>2, TaskStepIsLocal
    <3>2. docs'[i] = docs[i] /\ reviewed'[i] = reviewed[i]
      BY <1>1, <1>2, <2>2
      DEF TypeOK, Submit, TaskStep, Start, Clean, Enrich, Contextualize, Index, Enter,
          StoreAnswered, StoreLost, StoreRefused, StoreFailed, StageRaises, Gate,
          SubmitReview, ReviewRaises, Complete, Finish, knowledgeVars
    <3>3. QED
      BY <3>1, <3>2
  <2>3. QED
    BY <2>1, <2>2
<1>3. ASSUME NEW j \in Jobs, LateStore(j) \/ Age(j)
      PROVE  IntakeStep(i)
  BY <1>1, <1>3 DEF IInv, TypeOK, Untouched, NoTrace, LateStore, Age, taskVars, knowledgeVars
<1>4. ASSUME NEW r \in Requests, HandlerStep(r)
      PROVE  IntakeStep(i)
  <2>1. UNCHANGED <<taskVars, knowledgeVars>>
    BY <1>4 DEF HandlerStep, CancelRead, ExpireRead, ReadFor, HandlerSave
  <2>2. rec'[i] = rec[i] \/ rec'[i].status # "completed"
    <3>1. CASE HandlerSave(r)
      <4>1. req[r] \in Copies
        BY <1>1, <3>1 DEF HandlerSave, TypeOK
      <4>2. /\ req[r].job \in Jobs /\ req[r].status \in {"cancelled", "failed"}
            /\ req[r].doc \in Nat
        BY <4>1 DEF Copies
      <4>3. QED
        BY <1>1, <3>1, <4>2, Persisted DEF HandlerSave, Statuses, Terminal
    <3>2. CASE ~HandlerSave(r)
      BY <1>4, <3>2 DEF HandlerStep, CancelRead, ExpireRead, ReadFor
    <3>3. QED
      BY <3>1, <3>2
  <2>3. QED
    BY <2>1, <2>2 DEF taskVars, knowledgeVars
<1>5. ASSUME NEW p \in Pods, PodStep(p)
      PROVE  IntakeStep(i)
  <2>1. CASE Crash(p)
    BY <1>1, <2>1
    DEF Crash, TypeOK, knowledgeVars, Active, Stages, AfterStore, Ended
  <2>2. CASE RecoverWrite(p)
    BY <1>1, <2>2 DEF RecoverWrite, TypeOK, taskVars, knowledgeVars
  <2>3. CASE Restart(p) \/ RecoverRead(p) \/ Serve(p)
    BY <2>3 DEF Restart, RecoverRead, Serve, taskVars, knowledgeVars
  <2>4. QED
    BY <1>5, <2>1, <2>2, <2>3 DEF PodStep
<1>6. CASE UNCHANGED vars
  BY <1>6 DEF vars, taskVars, knowledgeVars
<1>7. QED
  BY <1>2, <1>3, <1>4, <1>5, <1>6 DEF Next

\* The pipeline keeps the contract of KnowledgeIntake: a document appears only
\* for an accepted job, one enters review while the job is open, and success is
\* reported of an open job after that.
THEOREM IntakeRefinement == Spec => ImplementsIntake
<1>1. Init => Intake!Init
  <2> SUFFICES ASSUME Init PROVE Intake!Init
    OBVIOUS
  <2>1. [j \in Jobs |-> PhaseOf(j)] = [j \in Jobs |-> "absent"]
    BY DEF Init, PhaseOf
  <2>2. [j \in Jobs |-> rec[j].status = "completed"] = [j \in Jobs |-> FALSE]
    BY DEF Init, Missing
  <2>3. QED
    BY <2>1, <2>2 DEF Init, Intake!Init
<1>2. IInv /\ [Next]_vars => [Intake!Next]_Intake!vars
  <2> SUFFICES ASSUME IInv, [Next]_vars, NEW i \in Jobs
               PROVE  Intake!Progress(i) /\ Intake!Store(i) /\ Intake!Review(i) /\ Intake!Report(i)
    BY DEF Intake!Next
  <2>1. IntakeStep(i)
    BY StepIsIntake
  <2>2. Intake!Progress(i)
    BY <2>1 DEF Intake!Progress, IntakeStep, PhaseStep
  <2>3. Intake!Store(i)
    BY <2>1 DEF Intake!Store, IntakeStep, HeldStep, PhaseOf, Ended
  <2>4. Intake!Review(i)
    BY <2>1 DEF Intake!Review, IntakeStep, ReviewStep
  <2>5. Intake!Report(i)
    BY <2>1 DEF Intake!Report, IntakeStep, ReportStep
  <2>6. QED
    BY <2>2, <2>3, <2>4, <2>5
<1>3. QED
  BY Invariance, <1>1, <1>2, PTL DEF Spec, ImplementsIntake, Intake!Spec

-----------------------------------------------------------------------------
(* Why a task ends *)

\* A bound on the steps the task of j still has before it: one per stage, one
\* per attempt at the store call and one per save after it.
StepsLeft(j) ==
  CASE pc[j] \in Ended -> 0
    [] pc[j] = "completing" -> 1
    [] pc[j] = "reviewed" -> 2
    [] pc[j] = "gated" -> 3
    [] pc[j] = "stored" -> 4
    [] pc[j] = "indexing" -> 5 + (MaxAttempts - attempt[j])
    [] pc[j] = "chunking" -> MaxAttempts + 5
    [] pc[j] = "enriching" -> MaxAttempts + 6
    [] pc[j] = "cleaning" -> MaxAttempts + 7
    [] pc[j] = "extracting" -> MaxAttempts + 8
    [] pc[j] = "waiting" -> MaxAttempts + 9
    [] pc[j] = "none" -> MaxAttempts + 10

\* Every step of a task brings its end nearer, and nothing that handlers, other
\* tasks, late store calls, crashes or recovery scans do puts it off: the
\* runners make at most MaxAttempts + 9 steps.  With the fairness of the event
\* loop this is why EveryTaskEnds.
EveryStepAdvances ==
  [][\A j \in Jobs : /\ StepsLeft(j)' <= StepsLeft(j)
                     /\ TaskStep(j) => StepsLeft(j)' < StepsLeft(j)]_vars

Positions == {"none", "waiting"} \cup Active \cup Ended

\* The bound is a number, and as long as the position and the attempt stay, it
\* stays.
LEMMA StepsLeftIs ==
  ASSUME TypeOK, NEW j \in Jobs
  PROVE  /\ StepsLeft(j) \in Nat
         /\ StepsLeft(j) <= MaxAttempts + 10
  BY JobsAssumption
  DEF StepsLeft, TypeOK, Positions, Active, Stages, AfterStore, Ended

LEMMA StepsLeftStays ==
  ASSUME TypeOK, NEW j \in Jobs, pc'[j] = pc[j], attempt'[j] = attempt[j]
  PROVE  StepsLeft(j)' = StepsLeft(j)
  BY DEF StepsLeft

\* A failure ends a task that runs.
LEMMA EndedIsNearer ==
  ASSUME TypeOK, NEW j \in Jobs, pc[j] \in {"waiting"} \cup Active, pc'[j] \in Ended
  PROVE  StepsLeft(j)' < StepsLeft(j)
<1>1. StepsLeft(j)' = 0
  BY DEF StepsLeft, Ended
<1>2. StepsLeft(j) > 0
  BY JobsAssumption DEF StepsLeft, TypeOK, Active, Stages, AfterStore, Ended
<1> QED BY <1>1, <1>2

\* The steps of a task, each to a nearer position.
LEMMA TaskIsNearer ==
  ASSUME TypeOK, NEW j \in Jobs, TaskStep(j)
  PROVE  StepsLeft(j)' < StepsLeft(j)
<1> USE DEF goto
<1>0. /\ pc[j] \in Positions /\ attempt[j] \in 0 .. MaxAttempts /\ MaxAttempts \in Nat \ {0}
      /\ \A l : pc' = [pc EXCEPT ![j] = l] => pc'[j] = l
  BY JobsAssumption DEF TypeOK, Positions
<1>1. CASE Start(j)
  <2>1. pc[j] = "waiting" /\ pc'[j] = "extracting"
    BY <1>0, <1>1 DEF Start, Enter
  <2> QED BY <1>0, <2>1 DEF StepsLeft, Ended
<1>2. CASE Clean(j)
  <2>1. pc[j] = "extracting" /\ pc'[j] = "cleaning"
    BY <1>0, <1>2 DEF Clean, Enter
  <2> QED BY <1>0, <2>1 DEF StepsLeft, Ended
<1>3. CASE Enrich(j)
  <2>1. pc[j] = "cleaning" /\ pc'[j] = "enriching"
    BY <1>0, <1>3 DEF Enrich, Enter
  <2> QED BY <1>0, <2>1 DEF StepsLeft, Ended
<1>4. CASE Contextualize(j)
  <2>1. pc[j] = "enriching" /\ pc'[j] = "chunking"
    BY <1>0, <1>4 DEF Contextualize, Enter
  <2> QED BY <1>0, <2>1 DEF StepsLeft, Ended
<1>5. CASE Index(j)
  <2>1. pc[j] \in {"chunking", "enriching"} /\ pc'[j] = "indexing"
    BY <1>0, <1>5 DEF Index, Enter
  <2>2. attempt'[j] = 1
    BY <1>5 DEF Index, TypeOK
  <2>3. StepsLeft(j)' = 5 + (MaxAttempts - 1)
    BY <2>1, <2>2 DEF StepsLeft, Ended
  <2>4. StepsLeft(j) \in {MaxAttempts + 5, MaxAttempts + 6}
    BY <2>1 DEF StepsLeft, Ended
  <2> QED BY <1>0, <2>3, <2>4
<1>6. CASE StoreAnswered(j)
  <2>1. pc[j] = "indexing" /\ pc'[j] = "stored"
    BY <1>0, <1>6 DEF StoreAnswered
  <2> QED BY <1>0, <2>1 DEF StepsLeft, Ended
<1>7. CASE StoreLost(j) \/ StoreRefused(j)
  <2>1. pc[j] = "indexing" /\ RetryOrFail(j)
    BY <1>7 DEF StoreLost, StoreRefused
  <2>2. CASE Retry(j)
    <3>1. pc'[j] = pc[j] /\ attempt'[j] = attempt[j] + 1
      BY <2>2 DEF Retry, TypeOK
    <3> QED BY <1>0, <2>1, <3>1 DEF StepsLeft, Ended
  <2>3. CASE HandleFailure(j)
    <3>1. pc'[j] = "failed"
      BY <1>0, <2>3 DEF HandleFailure
    <3> QED BY <2>1, <3>1, EndedIsNearer DEF Active, Stages, Ended
  <2> QED BY <2>1, <2>2, <2>3 DEF RetryOrFail
<1>8. CASE StoreFailed(j) \/ StageRaises(j) \/ ReviewRaises(j)
  <2>1. pc[j] \in Active /\ pc'[j] = "failed"
    BY <1>0, <1>8
    DEF StoreFailed, StageRaises, ReviewRaises, HandleFailure, Active, Stages, AfterStore
  <2> QED BY <2>1, EndedIsNearer DEF Ended
<1>9. CASE Gate(j)
  <2>1. pc[j] = "stored" /\ pc'[j] = "gated"
    BY <1>0, <1>9 DEF Gate
  <2> QED BY <1>0, <2>1 DEF StepsLeft, Ended
<1>10. CASE SubmitReview(j)
  <2>1. pc[j] = "gated" /\ pc'[j] = "reviewed"
    BY <1>0, <1>10 DEF SubmitReview
  <2> QED BY <1>0, <2>1 DEF StepsLeft, Ended
<1>11. CASE Complete(j)
  <2>1. pc[j] = "reviewed" /\ pc'[j] = "completing"
    BY <1>0, <1>11 DEF Complete
  <2> QED BY <1>0, <2>1 DEF StepsLeft, Ended
<1>12. CASE Finish(j)
  <2>1. pc[j] = "completing" /\ pc'[j] = "completed"
    BY <1>0, <1>12 DEF Finish
  <2> QED BY <1>0, <2>1 DEF StepsLeft, Ended
<1> QED
  BY <1>1, <1>2, <1>3, <1>4, <1>5, <1>6, <1>7, <1>8, <1>9, <1>10, <1>11, <1>12 DEF TaskStep

\* A step of another task, or of no task, does not put the end of j off.
LEMMA NobodyPutsOff ==
  ASSUME TypeOK, TypeOK', [Next]_vars, NEW j \in Jobs
  PROVE  StepsLeft(j)' <= StepsLeft(j)
<1>0. StepsLeft(j) \in Nat
  BY StepsLeftIs
<1>1. CASE TaskStep(j)
  <2>1. StepsLeft(j)' < StepsLeft(j)
    BY <1>1, TaskIsNearer
  <2>2. StepsLeft(j)' \in Nat
    BY JobsAssumption DEF StepsLeft, TypeOK, Active, Stages, AfterStore, Ended
  <2> QED BY <1>0, <2>1, <2>2
<1>2. CASE Submit(j)
  <2>1. pc[j] = "none" /\ pc'[j] = "waiting"
    BY <1>2 DEF Submit, goto, TypeOK
  <2> QED BY <2>1, JobsAssumption DEF StepsLeft, Ended
<1>3. ASSUME NEW k \in Jobs \ {j}, Submit(k) \/ TaskStep(k)
      PROVE  StepsLeft(j)' <= StepsLeft(j)
  <2>1. pc'[j] = pc[j]
    BY <1>3, TaskStepIsLocal
  <2>2. attempt'[j] = attempt[j]
    BY <1>3
    DEF TypeOK, Submit, TaskStep, Start, Clean, Enrich, Contextualize, Index, StoreAnswered,
        StoreLost, StoreRefused, StoreFailed, StageRaises, Gate, SubmitReview, ReviewRaises,
        Complete, Finish, RetryOrFail, Retry, HandleFailure
  <2> QED BY <1>0, <2>1, <2>2, StepsLeftStays
<1>4. ASSUME UNCHANGED <<pc, attempt>>
      PROVE  StepsLeft(j)' <= StepsLeft(j)
  BY <1>0, <1>4, StepsLeftStays
<1>5. ASSUME NEW p \in Pods, Crash(p)
      PROVE  StepsLeft(j)' <= StepsLeft(j)
  <2>1. CASE pc'[j] = pc[j]
    <3>1. attempt'[j] = attempt[j]
      BY <1>5 DEF Crash
    <3> QED BY <1>0, <2>1, <3>1, StepsLeftStays
  <2>2. CASE pc'[j] # pc[j]
    <3>1. pc[j] \in {"waiting"} \cup Active /\ pc'[j] = "lost"
      BY <1>5, <2>2 DEF Crash, TypeOK
    <3>2. StepsLeft(j)' = 0
      BY <3>1 DEF StepsLeft, Ended
    <3> QED BY <1>0, <3>2
  <2> QED BY <2>1, <2>2
<1>6. ASSUME NEW k \in Jobs, LateStore(k) \/ Age(k)
      PROVE  UNCHANGED <<pc, attempt>>
  BY <1>6 DEF LateStore, Age, taskVars
<1>7. ASSUME NEW r \in Requests, HandlerStep(r)
      PROVE  UNCHANGED <<pc, attempt>>
  BY <1>7 DEF HandlerStep, CancelRead, ExpireRead, ReadFor, HandlerSave, taskVars
<1>8. ASSUME NEW p \in Pods, Restart(p) \/ RecoverRead(p) \/ RecoverWrite(p) \/ Serve(p)
      PROVE  UNCHANGED <<pc, attempt>>
  BY <1>8 DEF Restart, RecoverRead, RecoverWrite, Serve, taskVars
<1>9. CASE UNCHANGED vars
  BY <1>4, <1>9 DEF vars, taskVars
<1> QED
  BY <1>1, <1>2, <1>3, <1>4, <1>5, <1>6, <1>7, <1>8, <1>9 DEF Next, PodStep

\* Every step of a task of the three runners brings its end nearer, and nobody
\* else puts it off.
THEOREM TasksAdvance == Spec => EveryStepAdvances
<1>1. IInv /\ IInv' /\ [Next]_vars
        => \A j \in Jobs : /\ StepsLeft(j)' <= StepsLeft(j)
                           /\ TaskStep(j) => StepsLeft(j)' < StepsLeft(j)
  BY TaskIsNearer, NobodyPutsOff DEF IInv
<1>2. QED
  BY Invariance, <1>1, PTL DEF Spec, EveryStepAdvances
-----------------------------------------------------------------------------
(* What the contract is worth *)

Reported(j) == rec[j].status = "completed"

\* The contract, without any of the service's own invariants, reports success of
\* an accepted job only, and of one whose single document in review is stored.
ReportsBacked ==
  \A j \in Jobs :
    /\ docs[j] \in Nat
    /\ reviewed[j] = {} \/ \E d \in 1 .. docs[j] : reviewed[j] = {d}
    /\ Reported(j) => reviewed[j] # {}
    /\ docs[j] > 0 => PhaseOf(j) # "absent"

LEMMA IntakeReports ==
  ASSUME ReportsBacked, [Intake!Next]_Intake!vars
  PROVE  /\ ReportsBacked'
         /\ \A j \in Jobs :
              /\ reviewed[j] # {} => reviewed'[j] = reviewed[j]
              /\ PhaseOf(j) = "closed" => /\ PhaseOf(j)' = "closed"
                                          /\ Reported(j)' => Reported(j)
<1> SUFFICES ASSUME NEW j \in Jobs
             PROVE  /\ /\ docs'[j] \in Nat
                       /\ reviewed'[j] = {} \/ \E d \in 1 .. docs'[j] : reviewed'[j] = {d}
                       /\ Reported(j)' => reviewed'[j] # {}
                       /\ docs'[j] > 0 => PhaseOf(j)' # "absent"
                    /\ reviewed[j] # {} => reviewed'[j] = reviewed[j]
                    /\ PhaseOf(j) = "closed" => /\ PhaseOf(j)' = "closed"
                                                /\ Reported(j)' => Reported(j)
  BY DEF ReportsBacked
<1>1. /\ docs[j] \in Nat
      /\ reviewed[j] = {} \/ \E d \in 1 .. docs[j] : reviewed[j] = {d}
      /\ Reported(j) => reviewed[j] # {}
      /\ docs[j] > 0 => PhaseOf(j) # "absent"
  BY DEF ReportsBacked
<1>2. CASE Intake!Next
  <2>1. \/ PhaseOf(j)' = PhaseOf(j)
        \/ PhaseOf(j) = "absent" /\ PhaseOf(j)' = "open"
        \/ PhaseOf(j) = "open" /\ PhaseOf(j)' = "closed"
    BY <1>2 DEF Intake!Next, Intake!Progress
  <2>2. \/ docs'[j] = docs[j]
        \/ PhaseOf(j) # "absent" /\ docs'[j] = docs[j] + 1
    BY <1>2 DEF Intake!Next, Intake!Store
  <2>3. \/ reviewed'[j] = reviewed[j]
        \/ reviewed[j] = {} /\ \E d \in 1 .. docs[j] : reviewed'[j] = {d}
    BY <1>2 DEF Intake!Next, Intake!Review
  <2>4. \/ Reported(j)' = Reported(j)
        \/ Reported(j) /\ ~Reported(j)'
        \/ PhaseOf(j) = "open" /\ reviewed[j] # {} /\ Reported(j)'
    BY <1>2 DEF Intake!Next, Intake!Report, Reported
  <2>5. 1 .. docs[j] \subseteq 1 .. docs'[j] /\ docs'[j] \in Nat
    BY <1>1, <2>2
  <2>6. reviewed'[j] = {} \/ \E d \in 1 .. docs'[j] : reviewed'[j] = {d}
    BY <1>1, <2>3, <2>5
  <2> QED BY <1>1, <2>1, <2>2, <2>3, <2>4, <2>5, <2>6
<1>3. CASE UNCHANGED Intake!vars
  <2>1. /\ PhaseOf(j)' = PhaseOf(j) /\ docs' = docs /\ reviewed' = reviewed
        /\ Reported(j)' = Reported(j)
    BY <1>3 DEF Intake!vars, Reported
  <2> QED BY <1>1, <2>1
<1> QED BY <1>2, <1>3

\* Whatever implements the contract reports only what is stored and under review,
\* keeps a job in review with one document, and reports nothing new of a closed
\* job: IntakeRefinement carries this over to tasks, handlers and recoveries.
THEOREM ContractReports ==
  Intake!Spec =>
    /\ []ReportsBacked
    /\ [][\A j \in Jobs :
            /\ reviewed[j] # {} => reviewed'[j] = reviewed[j]
            /\ PhaseOf(j) = "closed" => /\ PhaseOf(j)' = "closed"
                                        /\ Reported(j)' => Reported(j)]_Intake!vars
<1>1. Intake!Init => ReportsBacked
  <2> SUFFICES ASSUME Intake!Init, NEW j \in Jobs
               PROVE  docs[j] = 0 /\ reviewed[j] = {} /\ ~Reported(j)
    BY DEF ReportsBacked
  <2> QED BY DEF Intake!Init, Reported
<1>2. ASSUME ReportsBacked, [Intake!Next]_Intake!vars
      PROVE  /\ ReportsBacked'
             /\ [\A j \in Jobs :
                   /\ reviewed[j] # {} => reviewed'[j] = reviewed[j]
                   /\ PhaseOf(j) = "closed" => /\ PhaseOf(j)' = "closed"
                                               /\ Reported(j)' => Reported(j)]_Intake!vars
  BY <1>2, IntakeReports
<1> QED
  BY <1>1, <1>2, PTL DEF Intake!Spec
=============================================================================
