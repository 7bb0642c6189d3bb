--------------------------- MODULE KnowledgeIntake ---------------------------
(***************************************************************************)
(* What the ingestion service promises about each job, without tasks,      *)
(* pods, retries or records: documents appear only for accepted jobs and   *)
(* stay, one of them enters review, exactly once and while the job is      *)
(* open, and the job is reported successful only after that.  A report may *)
(* be lost again, it never appears for a closed job.                       *)
(***************************************************************************)
EXTENDS Naturals

CONSTANT Jobs

VARIABLES phase,     \* "absent", "open" (accepted, being processed) or "closed"
          held,      \* number of documents the knowledge base holds for the job
          inReview,  \* the documents of the job that have a review record
          reported   \* the job is reported completed

vars == <<phase, held, inReview, reported>>

Init ==
  /\ phase = [j \in Jobs |-> "absent"]
  /\ held = [j \in Jobs |-> 0]
  /\ inReview = [j \in Jobs |-> {}]
  /\ reported = [j \in Jobs |-> FALSE]

\* One job may be accepted, and closed once open, never reopened.
Progress(j) ==
  \/ phase'[j] = phase[j]
  \/ phase[j] = "absent" /\ phase'[j] = "open"
  \/ phase[j] = "open" /\ phase'[j] = "closed"

\* A store call adds one document to an accepted job.
Store(j) ==
  \/ held'[j] = held[j]
  \/ phase[j] # "absent" /\ held'[j] = held[j] + 1

\* One of the stored documents of an open job enters review.
Review(j) ==
  \/ inReview'[j] = inReview[j]
  \/ /\ phase[j] = "open" /\ inReview[j] = {}
     /\ \E d \in 1 .. held[j] : inReview'[j] = {d}

\* Success is reported of an open job whose document is in review.
Report(j) ==
  \/ reported'[j] = reported[j]
  \/ reported[j] /\ ~reported'[j]
  \/ phase[j] = "open" /\ inReview[j] # {} /\ reported'[j]

\* Several jobs move in one step when a pod dies with all its tasks.
Next == \A j \in Jobs : Progress(j) /\ Store(j) /\ Review(j) /\ Report(j)

Spec == Init /\ [][Next]_vars
=============================================================================
