--------------------------- MODULE MCConnectorSync ---------------------------
(* TLC instances of the connector synchronisation. *)
EXTENDS ConnectorSync, TLC

PodSymmetry == Permutations(Pods)

(* States that differ only in what no later step and no property looks at are one *)
(* for TLC.                                                                       *)

\* A sync may still begin from a token that somebody has read.
Begins == status # "deleted" /\ \E s \in Syncs : row[s] = "none"

\* A pause and a revocation differ only in that a revoked connector may be paused.
\* Nothing is written to a deleted connector, and nothing is missing behind a token
\* it no longer has.
Connector ==
  <<kind, head,
    IF status = "deleted" THEN <<status>>
    ELSE <<IF status = "revoked" THEN "paused" ELSE status, errors, token, age,
           delivered \cup missed>> >>

\* What the dispatch will use of a snapshot; kind "unassigned" writes the errors back.
Selected(p) ==
  IF tick[p] \notin {"selected", "locked"} THEN <<tick[p]>>
  ELSE <<tick[p], IF Begins THEN snapshot[p].token ELSE NoToken,
         IF kind = "unassigned" THEN snapshot[p].errors ELSE 0>>

Request(r) == <<asked[r], IF Begins THEN askedToken[r] ELSE NoToken>>

\* What a worker has gathered and still reads from where it is.
Remaining(w, place) ==
  IF place \in {"parse", "list"} THEN <<w.pod, w.how, w.from>>
  ELSE IF place = "token" THEN <<w.pod, w.how, w.listed>>
  ELSE IF place = "upload"
  THEN <<w.pod, w.how, IF status = "deleted" THEN NoToken ELSE w.new,
         w.listed, w.done, w.failed>>
  ELSE IF place = "record" THEN <<w.pod, w.how, IF status = "deleted" THEN NoToken ELSE w.new>>
  ELSE <<w.pod, w.how, w.caught, IF status = "deleted" THEN 0 ELSE w.errors>>

\* A sync record and its worker: which of two ends a sync took is read nowhere.
Standing(s) ==
  <<IF row[s] = "completed" THEN "failed" ELSE row[s],
    IF at[s] = "dead" THEN "done" ELSE at[s], Remaining(work[s], at[s])>>

\* Of the budgets only the failed commands of Redis are told apart.
WhatMatters ==
  <<Connector, locks, [p \in Pods |-> Selected(p)], [r \in Requests |-> Request(r)],
    [s \in Syncs |-> Standing(s)], faults, crashes + dbErrors>>

=============================================================================
