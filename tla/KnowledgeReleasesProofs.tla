----------------------- MODULE KnowledgeReleasesProofs -----------------------
(***************************************************************************)
(* Theorems about the releases of a knowledge base, for any number of      *)
(* releases, evaluation runs, checks, overlapping calls and failures.      *)
(***************************************************************************)
EXTENDS KnowledgeReleases, TLAPS

\* A call that is not open carries nothing over to the next one.
IdleIsEmpty == \A c \in Calls : call[c].step = "idle" => call[c].passed = {}

\* While a promotion collects its checks, whatever holds is among its evidence.
EvidenceCurrent ==
  \A c \in Calls : call[c].step = "gate" => Holding \subseteq evidence[c]

\* What a call is about to promote or to retire has passed the gate.
TargetsGated ==
  \A c \in Calls :
    /\ call[c].step \in {"select", "retire", "promote"} => call[c].target \in gated
    /\ call[c].step # "idle" => call[c].others \subseteq gated

\* An open call is about a release.
TargetsKnown == \A c \in Calls : call[c].step # "idle" => call[c].target # NoRelease

\* The inductive invariant.
IInv ==
  /\ TypeOK
  /\ TargetsKnown
  /\ IdleIsEmpty
  /\ EvidenceCurrent
  /\ TargetsGated
  /\ PromotedWasGated
  /\ GateHasEvidence

LEMMA HoldingTyped == ASSUME TypeOK PROVE Holding \subseteq Checks
  BY ReleasesAssumption DEF TypeOK, Holding

\* What a call looks like.
CallType == [op : {"none", "promote", "rollback"},
             step : {"idle", "gate", "select", "retire", "promote"},
             target : Releases \cup {NoRelease},
             passed : SUBSET Checks, read : SUBSET Checks,
             others : SUBSET Releases, solo : BOOLEAN]

LEMMA IdleTyped == Idle \in CallType
  BY DEF Idle, CallType

\* Types are kept: the gate adds releases only, for an open call has one.
LEMMA TypeStep == ASSUME TypeOK, TargetsKnown, [Next]_vars PROVE TypeOK'
<1> USE ReleasesAssumption DEF TypeOK
<1>t. call \in [Calls -> CallType]
  BY DEF CallType
<1>0. CASE UNCHANGED vars
  BY <1>0 DEF vars, evals
<1>1. ASSUME NEW e \in Runs, StartEval(e) \/ EvalRaises(e) \/ EvalDies(e) \/ Lapse(e)
      PROVE  TypeOK'
  BY <1>1 DEF StartEval, EvalRaises, EvalDies, Lapse, OneFail
<1>2. ASSUME NEW e \in Runs, NEW verdict \in {"passed", "below"}, FinishEval(e, verdict)
      PROVE  TypeOK'
  BY <1>2 DEF FinishEval, Witness
<1>3. ASSUME NEW k \in Checks, Flip(k) PROVE TypeOK'
  BY <1>3 DEF Flip, Witness, evals
<1>4. ASSUME NEW r \in Releases, CreateRelease(r) PROVE TypeOK'
  BY <1>4 DEF CreateRelease, evals
<1>5. ASSUME NEW c \in Calls, NEW r \in Releases, BeginPromote(c, r) \/ BeginRollback(c, r)
      PROVE  TypeOK'
  <2>1. Quiet \in BOOLEAN
    BY DEF Quiet
  <2>2. PICK new \in CallType : Begin(c, new)
    BY <1>5, IdleTyped DEF BeginPromote, BeginRollback, Idle, CallType
  <2>3. UNCHANGED <<release, evals, holds, fails, flips, gated, mixed>>
    BY <1>5 DEF BeginPromote, BeginRollback
  <2>a. [new EXCEPT !.solo = Quiet] \in CallType
    BY <2>1, <2>2 DEF CallType
  <2>b. \A d \in Calls : [call[d] EXCEPT !.solo = FALSE] \in CallType
    BY <1>t DEF CallType
  <2>4. call' \in [Calls -> CallType]
    BY <2>2, <2>a, <2>b, IdleTyped DEF Begin
  <2>5. evidence' \in [Calls -> SUBSET Checks]
    BY <2>2, HoldingTyped DEF Begin
  <2> QED BY <2>3, <2>4, <2>5 DEF evals, CallType
<1>6. ASSUME NEW c \in Calls, NEW k \in Checks, ReadCheck(c, k) PROVE TypeOK'
  BY <1>6 DEF ReadCheck, OneFail, evals, At
<1>7. ASSUME NEW c \in Calls, Gate(c) PROVE TypeOK'
  <2>1. call' \in [Calls -> CallType]
    <3>1. [call[c] EXCEPT !.step = "select"] \in CallType
      BY <1>t DEF CallType
    <3> QED BY <1>7, <1>t, <3>1, IdleTyped DEF Gate, goto
  <2>2. gated' \subseteq Releases
    <3>1. \/ gated' = gated
          \/ gated' = gated \cup {call[c].target}
      BY <1>7 DEF Gate
    <3>2. call[c].target # NoRelease
      BY <1>7 DEF Gate, At, TargetsKnown
    <3> QED BY <3>1, <3>2, <1>t DEF CallType
  <2> QED BY <1>7, <2>1, <2>2 DEF Gate, evals, CallType
<1>8. ASSUME NEW c \in Calls, SelectPromoted(c) PROVE TypeOK'
  <2>1. \A o \in SUBSET Releases, st \in {"retire", "promote"} :
          [call[c] EXCEPT !.others = o, !.step = st] \in CallType
    BY <1>t, ZenonT(90) DEF CallType
  <2>2. call' \in [Calls -> CallType]
    BY <1>8, <1>t, <2>1 DEF SelectPromoted, Promoted
  <2> QED BY <1>8, <2>2 DEF SelectPromoted, evals, CallType
<1>9. ASSUME NEW c \in Calls, Retire(c) PROVE TypeOK'
  BY <1>9 DEF Retire, goto, evals
<1>10. ASSUME NEW c \in Calls, Promote(c) PROVE TypeOK'
  <2>1. call' \in [Calls -> CallType]
    BY <1>10, <1>t, IdleTyped DEF Promote
  <2>2. call[c].solo \in BOOLEAN
    BY <1>t DEF CallType
  <2> QED BY <1>10, <2>1, <2>2 DEF Promote, evals, CallType
<1>11. ASSUME NEW c \in Calls, Abort(c) PROVE TypeOK'
  <2>1. call' \in [Calls -> CallType]
    BY <1>11, <1>t, IdleTyped DEF Abort
  <2>2. fails' \in 0..MaxFails /\ mixed' \in BOOLEAN
    BY <1>11 DEF Abort, OneFail
  <2> QED BY <1>11, <2>1, <2>2 DEF Abort, evals, CallType
<1> QED
  BY <1>0, <1>1, <1>2, <1>3, <1>4, <1>5, <1>6, <1>7, <1>8, <1>9, <1>10, <1>11 DEF Next

\* Steps of evaluations and of the world outside do not touch calls or releases;
\* what begins to hold becomes evidence of every open call.
LEMMA WorldStep ==
  ASSUME IInv, NEW new \in SUBSET Checks, Witness(new) \/ UNCHANGED evidence,
         UNCHANGED <<release, call, gated>>,
         Holding' \subseteq Holding \cup new,
         Holding' \subseteq Holding \/ Witness(new)
  PROVE  /\ TargetsKnown' /\ IdleIsEmpty' /\ EvidenceCurrent' /\ TargetsGated'
         /\ PromotedWasGated' /\ GateHasEvidence'
<1> USE DEF IInv, TypeOK
<1>1. TargetsKnown' /\ IdleIsEmpty' /\ TargetsGated' /\ PromotedWasGated'
  BY DEF TargetsKnown, IdleIsEmpty, TargetsGated, PromotedWasGated
<1>2. \A c \in Calls : call[c].step # "idle" => evidence[c] \subseteq evidence'[c]
  BY DEF Witness
<1>3. EvidenceCurrent'
  BY <1>2 DEF EvidenceCurrent, Witness
<1>4. GateHasEvidence'
  BY <1>2 DEF GateHasEvidence, IdleIsEmpty
<1> QED BY <1>1, <1>3, <1>4

THEOREM InvInit == Init => IInv
<1> USE ReleasesAssumption DEF Init, IInv
<1>1. ASSUME Init PROVE TypeOK
  <2>1. call \in [Calls -> CallType]
    BY <1>1, IdleTyped
  <2>2. /\ release \in [Releases -> {"none", "candidate", "promoted", "superseded",
                                     "rolled_back"}]
        /\ run \in [Runs -> {"none", "running", "passed", "below", "failed", "stale"}]
        /\ evidence \in [Calls -> SUBSET Checks]
    BY <1>1
  <2>3. /\ running \subseteq Runs /\ holds \subseteq Checks \ {"agent_eval"}
        /\ gated \subseteq Releases /\ mixed \in BOOLEAN
    BY <1>1
  <2>4. fails \in 0..MaxFails /\ flips \in 0..MaxFlips
    BY <1>1
  <2> QED BY <2>1, <2>2, <2>3, <2>4 DEF TypeOK, CallType
<1>2. ASSUME Init PROVE TargetsKnown /\ IdleIsEmpty /\ EvidenceCurrent /\ TargetsGated
  BY <1>2 DEF TargetsKnown, IdleIsEmpty, EvidenceCurrent, TargetsGated, Idle
<1>3. ASSUME Init PROVE PromotedWasGated /\ GateHasEvidence
  BY <1>3 DEF PromotedWasGated, GateHasEvidence, Idle
<1> QED BY <1>1, <1>2, <1>3

THEOREM InvStep == ASSUME IInv, [Next]_vars PROVE IInv'
<1>0. TypeOK'
  BY TypeStep DEF IInv
<1> DEFINE Rest == /\ TargetsKnown /\ IdleIsEmpty /\ EvidenceCurrent /\ TargetsGated
                   /\ PromotedWasGated /\ GateHasEvidence
<1> SUFFICES Rest'
  BY <1>0 DEF IInv
<1> USE ReleasesAssumption DEF IInv, TypeOK
<1>a. CASE UNCHANGED vars
  BY <1>a DEF vars, evals, TargetsKnown, IdleIsEmpty, EvidenceCurrent, TargetsGated, PromotedWasGated,
              GateHasEvidence, Holding
<1>b. ASSUME NEW e \in Runs, StartEval(e) \/ EvalRaises(e) \/ EvalDies(e) \/ Lapse(e)
      PROVE  Rest'
  <2>1. UNCHANGED <<release, call, gated, evidence>>
    BY <1>b DEF StartEval, EvalRaises, EvalDies, Lapse
  <2>2. Holding' \subseteq Holding
    BY <1>b DEF StartEval, EvalRaises, EvalDies, Lapse, Holding
  <2> QED BY <2>1, <2>2, WorldStep
<1>c. ASSUME NEW e \in Runs, NEW verdict \in {"passed", "below"}, FinishEval(e, verdict)
      PROVE  Rest'
  <2> DEFINE new == IF verdict = "passed" THEN {"agent_eval"} ELSE {}
  <2>1. Witness(new) /\ UNCHANGED <<release, call, gated>> /\ new \subseteq Checks
    BY <1>c DEF FinishEval
  <2>2. Holding' \subseteq Holding \cup new
    BY <1>c DEF FinishEval, Holding
  <2> QED BY <2>1, <2>2, WorldStep
<1>d. ASSUME NEW k \in Checks, Flip(k) PROVE Rest'
  <2>1. Witness(holds' \ holds) /\ UNCHANGED <<release, call, gated>>
    BY <1>d DEF Flip
  <2>2. holds' \ holds \subseteq Checks /\ Holding' \subseteq Holding \cup (holds' \ holds)
    BY <1>d, <1>0 DEF Flip, Holding, evals
  <2> QED BY <2>1, <2>2, WorldStep
<1>e. ASSUME NEW r \in Releases, CreateRelease(r) PROVE Rest'
  BY <1>e DEF CreateRelease, evals, TargetsKnown, IdleIsEmpty, EvidenceCurrent, TargetsGated,
              PromotedWasGated, GateHasEvidence, Holding
<1>f. ASSUME NEW c \in Calls, NEW r \in Releases, BeginPromote(c, r) PROVE Rest'
  <2> USE <1>f DEF BeginPromote, Begin, Idle
  <2>1. Holding' = Holding
    BY DEF Holding, evals
  <2>2. TargetsKnown' /\ IdleIsEmpty' /\ TargetsGated'
    BY DEF TargetsKnown, IdleIsEmpty, TargetsGated
  <2>3. EvidenceCurrent'
    BY <2>1 DEF EvidenceCurrent
  <2>4. PromotedWasGated' /\ GateHasEvidence'
    BY DEF PromotedWasGated, GateHasEvidence
  <2> QED BY <2>2, <2>3, <2>4
<1>g. ASSUME NEW c \in Calls, NEW r \in Releases, BeginRollback(c, r) PROVE Rest'
  <2> USE <1>g DEF BeginRollback, Begin, Idle
  <2>1. Holding' = Holding
    BY DEF Holding, evals
  <2>2. r \in gated
    BY DEF PromotedWasGated
  <2>3. TargetsKnown' /\ IdleIsEmpty' /\ TargetsGated'
    BY <2>2 DEF TargetsKnown, IdleIsEmpty, TargetsGated
  <2>4. EvidenceCurrent'
    BY <2>1 DEF EvidenceCurrent
  <2>5. PromotedWasGated' /\ GateHasEvidence'
    BY DEF PromotedWasGated, GateHasEvidence
  <2> QED BY <2>3, <2>4, <2>5
<1>h. ASSUME NEW c \in Calls, NEW k \in Checks, ReadCheck(c, k) PROVE Rest'
  <2> USE <1>h DEF ReadCheck, At
  <2>1. Holding' = Holding /\ UNCHANGED <<release, gated>>
    BY DEF Holding, evals
  <2>2. \A d \in Calls : /\ call'[d].step = call[d].step /\ call'[d].target = call[d].target
                         /\ call'[d].others = call[d].others
                         /\ d # c => call'[d] = call[d]
                         /\ evidence[d] \subseteq evidence'[d]
    OBVIOUS
  <2>3. TargetsKnown' /\ IdleIsEmpty' /\ TargetsGated' /\ PromotedWasGated'
    BY <2>1, <2>2 DEF TargetsKnown, IdleIsEmpty, TargetsGated, PromotedWasGated
  <2>4. EvidenceCurrent'
    BY <2>1, <2>2 DEF EvidenceCurrent
  <2>5. call'[c].passed \subseteq evidence'[c]
    BY DEF EvidenceCurrent, GateHasEvidence
  <2>6. GateHasEvidence'
    BY <2>2, <2>5 DEF GateHasEvidence
  <2> QED BY <2>3, <2>4, <2>6
<1>i. ASSUME NEW c \in Calls, Gate(c) PROVE Rest'
  <2> USE <1>i DEF Gate, goto, At, Idle
  <2>1. Holding' = Holding /\ UNCHANGED <<release, evidence>> /\ gated \subseteq gated'
    BY DEF Holding, evals
  <2>2. call[c].others \subseteq gated'
    BY DEF TargetsGated
  <2> QED
    BY <2>1 DEF TargetsKnown, IdleIsEmpty, EvidenceCurrent, TargetsGated, PromotedWasGated, GateHasEvidence
<1>j. ASSUME NEW c \in Calls, SelectPromoted(c) PROVE Rest'
  <2> USE <1>j DEF SelectPromoted
  <2>1. Holding' = Holding
    BY DEF Holding, evals
  <2>2. Promoted \subseteq gated
    BY DEF Promoted, PromotedWasGated
  <2> QED
    BY <2>1, <2>2 DEF TargetsKnown, IdleIsEmpty, EvidenceCurrent, TargetsGated, PromotedWasGated, GateHasEvidence
<1>k. ASSUME NEW c \in Calls, Retire(c) PROVE Rest'
  <2> USE <1>k DEF Retire, goto
  <2>1. Holding' = Holding
    BY DEF Holding, evals
  <2>2. PromotedWasGated'
    BY DEF PromotedWasGated, TargetsGated
  <2> QED
    BY <2>1, <2>2 DEF TargetsKnown, IdleIsEmpty, EvidenceCurrent, TargetsGated, GateHasEvidence
<1>l. ASSUME NEW c \in Calls, Promote(c) PROVE Rest'
  <2> USE <1>l DEF Promote, Idle
  <2>1. Holding' = Holding
    BY DEF Holding, evals
  <2>2. PromotedWasGated'
    BY DEF PromotedWasGated, TargetsGated
  <2> QED
    BY <2>1, <2>2 DEF TargetsKnown, IdleIsEmpty, EvidenceCurrent, TargetsGated, GateHasEvidence
<1>m. ASSUME NEW c \in Calls, Abort(c) PROVE Rest'
  <2> USE <1>m DEF Abort, Idle
  <2>1. Holding' = Holding
    BY DEF Holding, evals
  <2> QED
    BY <2>1 DEF TargetsKnown, IdleIsEmpty, EvidenceCurrent, TargetsGated, PromotedWasGated, GateHasEvidence
<1> QED
  BY <1>a, <1>b, <1>c, <1>d, <1>e, <1>f, <1>g, <1>h, <1>i, <1>j, <1>k, <1>l, <1>m DEF Next

THEOREM Invariance == Spec => []IInv
  BY InvInit, InvStep, PTL DEF Spec

\* The rows, runs and calls never leave their types.
THEOREM TypeCorrect == Spec => []TypeOK
  BY Invariance, PTL DEF IInv

\* Nothing is or was promoted that has not passed the gate.
THEOREM GateNotBypassed == Spec => []PromotedWasGated
  BY Invariance, PTL DEF IInv

\* What the gate counts as passed, it has evidence for.
THEOREM GateBacked == Spec => []GateHasEvidence
  BY Invariance, PTL DEF IInv

-----------------------------------------------------------------------------
(* One promoted release *)

\* A call that has been alone since it began is alone.
AloneIsAlone ==
  \A c, d \in Calls :
    call[c].step # "idle" /\ call[c].solo /\ d # c => call[d].step = "idle"

\* What such a call has read of the promoted releases is still so.
AloneReadsTrue ==
  \A c \in Calls :
    call[c].solo =>
      /\ call[c].step = "retire" => call[c].others = Promoted \ {call[c].target}
      /\ call[c].step = "promote" => Promoted \subseteq {call[c].target}

OthersKnown == \A c \in Calls : call[c].step = "retire" => call[c].others # {}

\* No release was ever promoted, or exactly one is.
Settled ==
  \/ \A r \in Releases : release[r] \in {"none", "candidate"}
  \/ \E r \in Releases : Promoted = {r}

\* Somebody has retired releases and not promoted one yet.
Underway == \E c \in Calls : call[c].step = "promote" /\ call[c].others # {}

\* The inductive invariant of OnePromoted: unless changes overlapped or failed
\* half-way, only a change underway leaves the releases unsettled.
OneInv ==
  /\ TypeOK /\ TargetsKnown
  /\ AloneIsAlone
  /\ AloneReadsTrue
  /\ OthersKnown
  /\ ~mixed /\ ~Underway => Settled

\* Steps that leave the calls alone and promote or retire nothing.
LEMMA OneOutside ==
  ASSUME OneInv, UNCHANGED <<call, mixed>>, Promoted' = Promoted,
         Settled => Settled'
  PROVE  /\ AloneIsAlone' /\ AloneReadsTrue' /\ OthersKnown'
         /\ ~mixed' /\ ~Underway' => Settled'
  BY DEF OneInv, AloneIsAlone, AloneReadsTrue, OthersKnown, Underway

THEOREM OneInit == Init => OneInv
<1>1. Init => TypeOK /\ TargetsKnown
  BY InvInit DEF IInv
<1>2. Init => AloneIsAlone /\ AloneReadsTrue /\ OthersKnown /\ Settled
  BY DEF Init, AloneIsAlone, AloneReadsTrue, OthersKnown, Settled, Idle
<1> QED BY <1>1, <1>2 DEF OneInv

THEOREM OneStep == ASSUME OneInv, [Next]_vars PROVE OneInv'
<1>0. TypeOK'
  BY TypeStep DEF OneInv
<1> DEFINE Rest == /\ TargetsKnown /\ AloneIsAlone /\ AloneReadsTrue /\ OthersKnown
                   /\ ~mixed /\ ~Underway => Settled
<1> SUFFICES Rest'
  BY <1>0 DEF OneInv
<1> USE ReleasesAssumption DEF OneInv, TypeOK
<1>a. CASE UNCHANGED vars
  <2>1. Promoted' = Promoted /\ (Settled => Settled') /\ UNCHANGED <<call, mixed>>
    BY <1>a DEF vars, Promoted, Settled
  <2> QED BY <2>1, OneOutside DEF TargetsKnown
<1>b. ASSUME NEW e \in Runs,
             \/ StartEval(e) \/ EvalRaises(e) \/ EvalDies(e) \/ Lapse(e)
             \/ \E verdict \in {"passed", "below"} : FinishEval(e, verdict)
      PROVE  Rest'
  <2>1. UNCHANGED <<release, call, mixed>>
    BY <1>b DEF StartEval, EvalRaises, EvalDies, Lapse, FinishEval
  <2>2. Promoted' = Promoted /\ (Settled => Settled')
    BY <2>1 DEF Promoted, Settled
  <2> QED BY <2>1, <2>2, OneOutside DEF TargetsKnown
<1>c. ASSUME NEW k \in Checks, Flip(k) PROVE Rest'
  <2>1. UNCHANGED <<release, call, mixed>>
    BY <1>c DEF Flip
  <2>2. Promoted' = Promoted /\ (Settled => Settled')
    BY <2>1 DEF Promoted, Settled
  <2> QED BY <2>1, <2>2, OneOutside DEF TargetsKnown
<1>d. ASSUME NEW r \in Releases, CreateRelease(r) PROVE Rest'
  <2>1. UNCHANGED <<call, mixed>> /\ Promoted' = Promoted
    BY <1>d DEF CreateRelease, Promoted
  <2>2. Settled => Settled'
    BY <1>d, <2>1 DEF CreateRelease, Settled
  <2> QED BY <2>1, <2>2, OneOutside DEF TargetsKnown
<1>e. ASSUME NEW c \in Calls, NEW r \in Releases, BeginPromote(c, r) \/ BeginRollback(c, r)
      PROVE  Rest'
  <2>1. /\ call[c].step = "idle"
        /\ UNCHANGED <<release, mixed>>
        /\ call'[c].step \in {"gate", "select"} /\ call'[c].target = r
        /\ call'[c].solo = Quiet
    <3>1. CASE BeginPromote(c, r)
      BY <3>1 DEF BeginPromote, Begin, Idle
    <3>2. CASE BeginRollback(c, r)
      BY <3>2 DEF BeginRollback, Begin, Idle
    <3> QED BY <1>e, <3>1, <3>2
  <2>2. \A d \in Calls : d # c =>
          /\ call'[d].step = call[d].step
          /\ call[d].step # "idle" => /\ call'[d].target = call[d].target
                                      /\ call'[d].others = call[d].others
                                      /\ ~call'[d].solo
    BY <1>e DEF BeginPromote, BeginRollback, Begin, Idle
  <2>3. Promoted' = Promoted /\ (Settled => Settled') /\ r # NoRelease
    BY <2>1 DEF Promoted, Settled
  <2>4. TargetsKnown' /\ OthersKnown' /\ AloneReadsTrue'
    BY <2>1, <2>2, <2>3 DEF TargetsKnown, OthersKnown, AloneReadsTrue
  <2>5. AloneIsAlone'
    <3> SUFFICES ASSUME NEW d1 \in Calls, NEW d2 \in Calls, d2 # d1,
                        call'[d1].step # "idle", call'[d1].solo
                 PROVE  call'[d2].step = "idle"
      BY DEF AloneIsAlone
    <3>1. CASE d1 = c
      BY <2>1, <2>2, <3>1 DEF Quiet
    <3>2. CASE d1 # c
      BY <2>1, <2>2, <3>2
    <3> QED BY <3>1, <3>2
  <2>6. Underway => Underway'
    BY <2>1, <2>2 DEF Underway
  <2> QED BY <2>1, <2>3, <2>4, <2>5, <2>6
<1>f. ASSUME NEW c \in Calls, NEW k \in Checks, ReadCheck(c, k) PROVE Rest'
  <2>1. /\ UNCHANGED <<release, mixed>>
        /\ \A d \in Calls : /\ call'[d].step = call[d].step /\ call'[d].solo = call[d].solo
                             /\ call'[d].target = call[d].target
                             /\ call'[d].others = call[d].others
    BY <1>f DEF ReadCheck, At
  <2>2. Promoted' = Promoted /\ (Settled => Settled') /\ (Underway => Underway')
    BY <2>1 DEF Promoted, Settled, Underway
  <2> QED
    BY <2>1, <2>2 DEF TargetsKnown, AloneIsAlone, AloneReadsTrue, OthersKnown
<1>g. ASSUME NEW c \in Calls, Gate(c) PROVE Rest'
  <2>1. /\ UNCHANGED <<release, mixed>>
        /\ call[c].step = "gate"
        /\ \A d \in Calls : d # c => call'[d] = call[d]
        /\ \/ call'[c].step = "select" /\ call'[c].solo = call[c].solo
                                        /\ call'[c].target = call[c].target
           \/ call'[c].step = "idle"
    BY <1>g DEF Gate, At, goto, Idle
  <2>2. Promoted' = Promoted /\ (Settled => Settled') /\ (Underway => Underway')
    BY <2>1 DEF Promoted, Settled, Underway
  <2> QED
    BY <2>1, <2>2 DEF TargetsKnown, AloneIsAlone, AloneReadsTrue, OthersKnown
<1>h. ASSUME NEW c \in Calls, SelectPromoted(c) PROVE Rest'
  <2>1. /\ UNCHANGED <<release, mixed>>
        /\ call[c].step = "select"
        /\ \A d \in Calls : d # c => call'[d] = call[d]
        /\ call'[c].target = call[c].target /\ call'[c].solo = call[c].solo
        /\ call'[c].others = Promoted \ {call[c].target}
        /\ call'[c].step = IF call'[c].others = {} THEN "promote" ELSE "retire"
    BY <1>h DEF SelectPromoted
  <2>2. Promoted' = Promoted /\ (Settled => Settled') /\ (Underway => Underway')
    BY <2>1 DEF Promoted, Settled, Underway
  <2> QED
    BY <2>1, <2>2 DEF TargetsKnown, AloneIsAlone, AloneReadsTrue, OthersKnown
<1>i. ASSUME NEW c \in Calls, Retire(c) PROVE Rest'
  <2>1. /\ UNCHANGED mixed
        /\ call[c].step = "retire"
        /\ \A d \in Calls : d # c => call'[d] = call[d]
        /\ call'[c].step = "promote" /\ call'[c].target = call[c].target
        /\ call'[c].others = call[c].others /\ call'[c].solo = call[c].solo
    BY <1>i DEF Retire, goto
  <2>2. Promoted' = Promoted \ call[c].others
    BY <1>i DEF Retire, Promoted
  <2>3. Underway'
    BY <2>1 DEF Underway, OthersKnown
  <2>4. AloneReadsTrue'
    BY <2>1, <2>2 DEF AloneReadsTrue, AloneIsAlone
  <2> QED BY <2>1, <2>3, <2>4 DEF TargetsKnown, AloneIsAlone, OthersKnown
<1>j. ASSUME NEW c \in Calls, Promote(c) PROVE Rest'
  <2>1. /\ call[c].step = "promote"
        /\ \A d \in Calls : d # c => call'[d] = call[d]
        /\ call'[c].step = "idle"
        /\ mixed' = ~call[c].solo
    BY <1>j DEF Promote, Idle
  <2>2. call[c].target \in Releases
    BY <2>1 DEF TargetsKnown
  <2>3. Promoted' = Promoted \cup {call[c].target}
    BY <1>j, <2>2 DEF Promote, Promoted
  <2>4. call[c].solo => Settled'
    BY <2>1, <2>2, <2>3 DEF AloneReadsTrue, Settled
  <2>5. AloneReadsTrue'
    BY <2>1 DEF AloneReadsTrue, AloneIsAlone
  <2>6. AloneIsAlone'
    BY <2>1 DEF AloneIsAlone
  <2>7. TargetsKnown' /\ OthersKnown'
    BY <2>1 DEF TargetsKnown, OthersKnown
  <2>8. call[c].solo \in BOOLEAN
    OBVIOUS
  <2> QED BY <2>1, <2>4, <2>5, <2>6, <2>7, <2>8
<1>k. ASSUME NEW c \in Calls, Abort(c) PROVE Rest'
  <2>1. /\ UNCHANGED release
        /\ \A d \in Calls : d # c => call'[d] = call[d]
        /\ call'[c].step = "idle"
        /\ mixed' = (mixed \/ (call[c].step = "promote" /\ call[c].others # {}))
    BY <1>k DEF Abort, Idle
  <2>2. Promoted' = Promoted /\ (Settled => Settled')
    BY <2>1 DEF Promoted, Settled
  <2>3. Underway => Underway' \/ mixed'
    BY <2>1 DEF Underway
  <2>4. ~mixed' => ~mixed
    BY <2>1
  <2> QED
    BY <2>1, <2>2, <2>3, <2>4 DEF TargetsKnown, AloneIsAlone, AloneReadsTrue, OthersKnown
<1> QED
  BY <1>a, <1>b, <1>c, <1>d, <1>e, <1>f, <1>g, <1>h, <1>i, <1>j, <1>k DEF Next

\* Changes that run alone leave exactly one release promoted.
THEOREM OneReleasePromoted == Spec => []OnePromoted
<1>1. OneInv => OnePromoted
  BY DEF OneInv, OnePromoted, Settled, Underway, Quiet
<1> QED BY <1>1, OneInit, OneStep, PTL DEF Spec

=============================================================================
