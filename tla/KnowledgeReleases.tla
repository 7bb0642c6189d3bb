--------------------------- MODULE KnowledgeReleases ---------------------------
(***************************************************************************)
(* Releases of one knowledge base (apps/agentic/server/knowledge.ts):      *)
(* agent evaluations, the launch-readiness gate, promotion and rollback.   *)
(* At most one release of a stream is meant to be promoted; a promotion    *)
(* reads the promoted ones, supersedes them and then promotes its own, in  *)
(* three statements.  The gate collects its evidence in parallel from two  *)
(* services and the database; each source that fails is replaced by an     *)
(* empty answer, and some sources give no more than the head of a list.    *)
(***************************************************************************)
EXTENDS Integers, FiniteSets

CONSTANTS Releases,
          Runs,     \* evaluation runs
          Checks,   \* keys of the launch checks, "agent_eval" among them
          Lenient,  \* the checks that an empty answer passes
          Limited,  \* the checks whose source ends its list at a limit
          Calls,    \* promotions and rollbacks that may be open at once
          NoRelease,
          MaxFails, \* bound: statements that raise and processes that die
          MaxFlips  \* bound: how often the outside world changes

ASSUME ReleasesAssumption ==
  /\ NoRelease \notin Releases
  /\ "agent_eval" \in Checks /\ Lenient \subseteq Checks \ {"agent_eval"}
  /\ Limited \subseteq Checks
  /\ MaxFails \in Nat /\ MaxFlips \in Nat

VARIABLES
  release,  \* status of each knowledgeReleases row
  run,      \* status of each knowledgeAgentEvalRuns row
  running,  \* the runs whose handler is at work
  holds,    \* the checks other than agent_eval that hold at present
  call,     \* the open calls
  fails, flips,
  gated,    \* history: releases that passed the gate
  evidence, \* history, per call: the checks that held at some time since its
            \* beginning, or that pass when nothing is found and whose source
            \* failed or ended its list too early
  mixed     \* history: a change overlapped another or failed half-way, and no
            \* change has run alone to its end since

evals == <<run, running>>
vars == <<release, evals, holds, call, fails, flips, gated, evidence, mixed>>

Idle == [op |-> "none", step |-> "idle", target |-> NoRelease, passed |-> {},
         read |-> {}, others |-> {}, solo |-> TRUE]

\* The checks that hold: agent_eval needs a passing run of the last 14 days.
Holding == holds \cup (IF \E e \in Runs : run[e] = "passed"
                       THEN {"agent_eval"} ELSE {})

\* A new stream holds nothing: what passes when nothing is found holds.
Init ==
  /\ release = [r \in Releases |-> "none"]
  /\ run = [e \in Runs |-> "none"] /\ running = {}
  /\ holds = Lenient
  /\ call = [c \in Calls |-> Idle]
  /\ fails = 0 /\ flips = 0
  /\ gated = {} /\ evidence = [c \in Calls |-> {}] /\ mixed = FALSE

Promoted == {r \in Releases : release[r] = "promoted"}
Quiet == \A c \in Calls : call[c].step = "idle"
At(c, op, step) == call[c].op = op /\ call[c].step = step
goto(c, step) == call' = [call EXCEPT ![c].step = step]

\* What every open call could have seen by now.
Witness(new) ==
  evidence' = [c \in Calls |-> IF call[c].step = "idle" THEN {}
                               ELSE evidence[c] \cup new]

OneFail == fails < MaxFails /\ fails' = fails + 1

-----------------------------------------------------------------------------
(* runAgentE2EEval *)

\* The row is inserted as "running".
StartEval(e) ==
  /\ run[e] = "none"
  /\ run' = [run EXCEPT ![e] = "running"] /\ running' = running \cup {e}
  /\ UNCHANGED <<release, holds, call, fails, flips, gated, evidence, mixed>>

\* A case that raises is a failed case; 80 % of them pass or not.
FinishEval(e, verdict) ==
  /\ e \in running
  /\ run' = [run EXCEPT ![e] = verdict] /\ running' = running \ {e}
  /\ Witness(IF verdict = "passed" THEN {"agent_eval"} ELSE {})
  /\ UNCHANGED <<release, holds, call, fails, flips, gated, mixed>>

\* The statement that completes the run raises, the one of the catch clause not.
EvalRaises(e) ==
  /\ e \in running /\ OneFail
  /\ run' = [run EXCEPT ![e] = "failed"] /\ running' = running \ {e}
  /\ UNCHANGED <<release, holds, call, flips, gated, evidence, mixed>>

\* The process dies, or both statements raise: the row stays "running".
EvalDies(e) ==
  /\ e \in running /\ OneFail
  /\ running' = running \ {e}
  /\ UNCHANGED <<release, run, holds, call, flips, gated, evidence, mixed>>

\* A passing run is 14 days old.
Lapse(e) ==
  /\ run[e] = "passed"
  /\ run' = [run EXCEPT ![e] = "stale"]
  /\ UNCHANGED <<release, running, holds, call, fails, flips, gated, evidence, mixed>>

\* Documents, attestations, reviews, connectors and services change.
Flip(k) ==
  /\ k \in Checks \ {"agent_eval"} /\ flips < MaxFlips
  /\ flips' = flips + 1
  /\ holds' = IF k \in holds THEN holds \ {k} ELSE holds \cup {k}
  /\ Witness(holds' \ holds)
  /\ UNCHANGED <<release, evals, call, fails, gated, mixed>>

-----------------------------------------------------------------------------
(* createRelease, promoteRelease, rollbackRelease *)

\* A candidate needs no readiness; the state found is its snapshot.
CreateRelease(r) ==
  /\ release[r] = "none"
  /\ release' = [release EXCEPT ![r] = "candidate"]
  /\ UNCHANGED <<evals, holds, call, fails, flips, gated, evidence, mixed>>

Begin(c, new) ==
  /\ call[c].step = "idle"
  /\ call' = [d \in Calls |->
                IF d = c THEN [new EXCEPT !.solo = Quiet]
                ELSE IF call[d].step = "idle" THEN Idle
                ELSE [call[d] EXCEPT !.solo = FALSE]]
  /\ evidence' = [evidence EXCEPT ![c] = IF new.op = "promote" THEN Holding ELSE {}]

\* The release exists; its status is not looked at.
BeginPromote(c, r) ==
  /\ release[r] # "none"
  /\ Begin(c, [Idle EXCEPT !.op = "promote", !.target = r, !.step = "gate"])
  /\ UNCHANGED <<release, evals, holds, fails, flips, gated, mixed>>

\* Faulty variant: a source that fails passes its check, whatever it is.
ReadCheckLeniently(c, k) ==
  /\ At(c, "promote", "gate") /\ k \notin call[c].read
  /\ \/ /\ call' = [call EXCEPT ![c].read = @ \cup {k},
                                ![c].passed = IF k \in Holding THEN @ \cup {k} ELSE @]
        /\ UNCHANGED <<fails, evidence>>
     \/ /\ OneFail \/ (k \in Limited /\ UNCHANGED fails)
        /\ call' = [call EXCEPT ![c].read = @ \cup {k}, ![c].passed = @ \cup {k}]
        /\ evidence' = [evidence EXCEPT ![c] = @ \cup ({k} \cap Lenient)]
  /\ UNCHANGED <<release, evals, holds, flips, gated, mixed>>

\* buildLaunchReadinessState: one of the parallel reads answers or fails.  The
\* pending reviews are the 100 first ones of the organisation, of which those of
\* the stream are kept afterwards, and the evaluations the 20 last ones: what
\* the check looks for may lie beyond the limit.
ReadCheck(c, k) ==
  /\ At(c, "promote", "gate") /\ k \notin call[c].read
  /\ \/ /\ call' = [call EXCEPT ![c].read = @ \cup {k},
                                ![c].passed = IF k \in Holding THEN @ \cup {k} ELSE @]
        /\ UNCHANGED <<fails, evidence>>
     \/ /\ OneFail \/ (k \in Limited /\ UNCHANGED fails)
        /\ call' = [call EXCEPT ![c].read = @ \cup {k},
                                ![c].passed = IF k \in Lenient THEN @ \cup {k} ELSE @]
        /\ evidence' = [evidence EXCEPT ![c] = @ \cup ({k} \cap Lenient)]
  /\ UNCHANGED <<release, evals, holds, flips, gated, mixed>>

\* Ready if all checks passed; otherwise the promotion is refused.
Gate(c) ==
  /\ At(c, "promote", "gate") /\ call[c].read = Checks
  /\ IF call[c].passed = Checks
     THEN goto(c, "select") /\ gated' = gated \cup {call[c].target}
     ELSE call' = [call EXCEPT ![c] = Idle] /\ UNCHANGED gated
  /\ UNCHANGED <<release, evals, holds, fails, flips, evidence, mixed>>

\* Faulty variant: a rollback to any release.
BeginRollbackAny(c, r) ==
  /\ release[r] # "none"
  /\ Begin(c, [Idle EXCEPT !.op = "rollback", !.target = r, !.step = "select"])
  /\ UNCHANGED <<release, evals, holds, fails, flips, gated, mixed>>

\* Only a release that is no candidate can be restored; no gate.
BeginRollback(c, r) ==
  /\ release[r] \notin {"none", "candidate"}
  /\ Begin(c, [Idle EXCEPT !.op = "rollback", !.target = r, !.step = "select"])
  /\ UNCHANGED <<release, evals, holds, fails, flips, gated, mixed>>

\* The promoted releases, without the one at hand.
SelectPromoted(c) ==
  /\ call[c].step = "select"
  /\ LET others == Promoted \ {call[c].target} IN
       call' = [call EXCEPT ![c].others = others,
                            ![c].step = IF others = {} THEN "promote" ELSE "retire"]
  /\ UNCHANGED <<release, evals, holds, fails, flips, gated, evidence, mixed>>

\* Faulty variant: only a promotion retires the others.
RetirePromoting(c) ==
  /\ call[c].step = "retire"
  /\ release' = [r \in Releases |->
                   IF r \in call[c].others /\ call[c].op = "promote"
                   THEN "superseded" ELSE release[r]]
  /\ goto(c, "promote")
  /\ UNCHANGED <<evals, holds, fails, flips, gated, evidence, mixed>>

\* UPDATE ... WHERE id IN: whatever their status is by now.
Retire(c) ==
  /\ call[c].step = "retire"
  /\ release' = [r \in Releases |->
                   IF r \notin call[c].others THEN release[r]
                   ELSE IF call[c].op = "promote" THEN "superseded" ELSE "rolled_back"]
  /\ goto(c, "promote")
  /\ UNCHANGED <<evals, holds, fails, flips, gated, evidence, mixed>>

Promote(c) ==
  /\ call[c].step = "promote"
  /\ release' = [release EXCEPT ![call[c].target] = "promoted"]
  /\ call' = [call EXCEPT ![c] = Idle]
  /\ mixed' = ~call[c].solo
  /\ UNCHANGED <<evals, holds, fails, flips, gated, evidence>>

\* A statement raises or the process dies; nothing is rolled back.
Abort(c) ==
  /\ call[c].step # "idle" /\ OneFail
  /\ call' = [call EXCEPT ![c] = Idle]
  /\ mixed' = (mixed \/ (call[c].step = "promote" /\ call[c].others # {}))
  /\ UNCHANGED <<release, evals, holds, flips, gated, evidence>>

Next ==
  \/ \E e \in Runs :
       \/ StartEval(e) \/ EvalRaises(e) \/ EvalDies(e) \/ Lapse(e)
       \/ \E verdict \in {"passed", "below"} : FinishEval(e, verdict)
  \/ \E k \in Checks : Flip(k)
  \/ \E r \in Releases : CreateRelease(r)
  \/ \E c \in Calls :
       \/ \E r \in Releases : BeginPromote(c, r) \/ BeginRollback(c, r)
       \/ \E k \in Checks : ReadCheck(c, k)
       \/ Gate(c) \/ SelectPromoted(c) \/ Retire(c) \/ Promote(c) \/ Abort(c)

Spec == Init /\ [][Next]_vars

-----------------------------------------------------------------------------
(* Properties *)

TypeOK ==
  /\ release \in [Releases -> {"none", "candidate", "promoted", "superseded",
                               "rolled_back"}]
  /\ run \in [Runs -> {"none", "running", "passed", "below", "failed", "stale"}]
  /\ running \subseteq Runs
  /\ holds \subseteq Checks \ {"agent_eval"}
  /\ call \in [Calls -> [op : {"none", "promote", "rollback"},
                         step : {"idle", "gate", "select", "retire", "promote"},
                         target : Releases \cup {NoRelease},
                         passed : SUBSET Checks, read : SUBSET Checks,
                         others : SUBSET Releases, solo : BOOLEAN]]
  /\ fails \in 0..MaxFails /\ flips \in 0..MaxFlips
  /\ gated \subseteq Releases /\ evidence \in [Calls -> SUBSET Checks]
  /\ mixed \in BOOLEAN

\* Promotions and rollbacks that run alone to their end leave exactly one release
\* promoted, whatever overlapping or failing ones left before them.
OnePromoted ==
  Quiet /\ ~mixed /\ (\E r \in Releases : release[r] \notin {"none", "candidate"})
  => \E r \in Releases : Promoted = {r}

\* A release that is, or once was, promoted has passed the gate, however rollbacks
\* and promotions interleave: a rollback restores no release that never did.
PromotedWasGated ==
  \A r \in Releases : release[r] \in {"promoted", "superseded", "rolled_back"}
                      => r \in gated

\* What the gate found is backed by the state of the stream during the call: each
\* check it counts as passed held at some time since the call began, or it is one
\* of those that pass when nothing is found and its source failed or did not reach
\* far enough.
GateHasEvidence == \A c \in Calls : call[c].passed \subseteq evidence[c]

=============================================================================
