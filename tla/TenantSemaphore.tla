--------------------------- MODULE TenantSemaphore ---------------------------
(***************************************************************************)
(* What the per-tenant limiter promises its callers: at most MaxPerOrg     *)
(* message handlers hold a slot of one organisation at any time.  The      *)
(* limiter fails open: once its store has failed it promises nothing.  The *)
(* Redis counter of ConcurrencyLimiter is shown to implement this.         *)
(***************************************************************************)
EXTENDS Naturals, FiniteSets

CONSTANTS Handlers,    \* message-handler invocations competing for slots
          MaxPerOrg    \* settings.CONCURRENCY_MAX_PER_ORG

VARIABLES granted,     \* the handlers whose acquire_slot has been decided True
          failed       \* a command of the store has failed

vars == <<granted, failed>>

Init ==
  /\ granted = {}
  /\ failed = FALSE

Grant(h) ==
  /\ h \notin granted
  /\ Cardinality(granted) < MaxPerOrg
  /\ granted' = granted \cup {h}
  /\ UNCHANGED failed

Return(h) ==
  /\ h \in granted
  /\ granted' = granted \ {h}
  /\ UNCHANGED failed

FailOpen ==
  /\ granted' \in SUBSET Handlers
  /\ failed' = TRUE

Next == FailOpen \/ \E h \in Handlers : Grant(h) \/ Return(h)

Spec == Init /\ [][Next]_vars
=============================================================================
