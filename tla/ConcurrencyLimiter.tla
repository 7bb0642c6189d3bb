-------------------------- MODULE ConcurrencyLimiter --------------------------
(***************************************************************************)
(* The Redis counter behind the per-tenant job limit                       *)
(* (services/ingestion-pipeline-service/src/adapters/concurrency.py, used  *)
(* by src/worker.py process_message).  Keys of different organisations are *)
(* independent, so one organisation is modelled.  Every Redis command is a *)
(* step of its own: handlers of one worker interleave at the awaits, and   *)
(* workers in different pods share the counter.                            *)
(***************************************************************************)
EXTENDS Integers, FiniteSets

CONSTANTS Handlers,    \* concurrent process_message invocations, all pods
          MaxPerOrg,   \* settings.CONCURRENCY_MAX_PER_ORG
          MaxErrors,   \* bound: Redis commands that raise
          MaxCrashes,  \* bound: handlers lost with their worker
          CrashAt,     \* the points of process_message where a worker may die
          ExpiryRaces  \* whether the key may expire during an acquire_slot

ASSUME LimiterAssumption ==
  /\ IsFiniteSet(Handlers)
  /\ MaxPerOrg \in Nat \ {0}
  /\ MaxErrors \in Nat
  /\ MaxCrashes \in Nat
  /\ CrashAt \subseteq {"arm", "decide", "held", "open", "clamp"}
  /\ ExpiryRaces \in BOOLEAN

VARIABLES count,    \* value of kp:concurrency:{org}; a missing key reads as 0
          key,      \* "missing", "persistent" (no expiry time) or "expiring"
          pc,       \* per handler: the next Redis command, or what it is doing
          current,  \* per handler: the local variable `current`
          errors,   \* number of Redis commands that have raised
          crashes   \* number of handlers lost with their process

vars == <<count, key, pc, current, errors, crashes>>

\* "held": acquire_slot returned True with the increment made; "open": it
\* returned True because a command raised.
Pcs == {"idle", "arm", "decide", "held", "open", "clamp"}

Init ==
  /\ count = 0
  /\ key = "missing"
  /\ pc = [h \in Handlers |-> "idle"]
  /\ current = [h \in Handlers |-> 0]
  /\ errors = 0
  /\ crashes = 0

goto(h, l) == pc' = [pc EXCEPT ![h] = l]

\* INCR and DECR create a missing key, and without an expiry time.
Touched == IF key = "missing" THEN "persistent" ELSE key

\* Faulty variant: the expiry is never set.
NotRefreshed == key

\* EXPIRE on a missing key does nothing.
Refreshed == IF key = "missing" THEN "missing" ELSE "expiring"

-----------------------------------------------------------------------------
(* acquire_slot *)

\* Faulty variant: the value is read before the increment instead of from it.
IncrAfterGet(h) ==
  /\ pc[h] = "idle"
  /\ count' = count + 1
  /\ current' = [current EXCEPT ![h] = count]
  /\ key' = Touched
  /\ goto(h, IF count' = 1 THEN "arm" ELSE "decide")
  /\ UNCHANGED <<errors, crashes>>

\* current = await redis.incr(key)
Incr(h) ==
  /\ pc[h] = "idle"
  /\ count' = count + 1
  /\ current' = [current EXCEPT ![h] = count']
  /\ key' = Touched
  /\ goto(h, IF count' = 1 THEN "arm" ELSE "decide")
  /\ UNCHANGED <<errors, crashes>>

\* Faulty variant: the first increment is decided without an expiry.
ArmNothing(h) ==
  /\ pc[h] = "arm"
  /\ goto(h, "decide")
  /\ UNCHANGED <<count, key, current, errors, crashes>>

\* The first increment sets the expiry before anything else is decided.
ArmFirst(h) ==
  /\ pc[h] = "arm"
  /\ key' = Refreshed
  /\ goto(h, "decide")
  /\ UNCHANGED <<count, current, errors, crashes>>

\* Faulty variants: a handler that was refused runs the release of a slot it
\* never got, or sends no DECR.
RollBackAndRelease(h) ==
  /\ pc[h] = "decide"
  /\ current[h] > MaxPerOrg
  /\ count' = count - 1
  /\ key' = Touched
  /\ goto(h, "held")
  /\ UNCHANGED <<current, errors, crashes>>

RollBackNothing(h) ==
  /\ pc[h] = "decide"
  /\ current[h] > MaxPerOrg
  /\ goto(h, "idle")
  /\ UNCHANGED <<count, key, current, errors, crashes>>

\* current > max_per_org: roll the increment back and report False, which
\* makes process_message raise and the message go back to the queue.
RollBack(h) ==
  /\ pc[h] = "decide"
  /\ current[h] > MaxPerOrg
  /\ count' = count - 1
  /\ key' = Touched
  /\ goto(h, "idle")
  /\ UNCHANGED <<current, errors, crashes>>

\* Faulty variant: one slot too many.
GrantedOneTooMany(h) ==
  /\ pc[h] = "decide"
  /\ current[h] <= MaxPerOrg + 1
  /\ key' = Refreshed
  /\ goto(h, "held")
  /\ UNCHANGED <<count, current, errors, crashes>>

\* Under the limit: refresh the expiry and report True.
Granted(h) ==
  /\ pc[h] = "decide"
  /\ current[h] <= MaxPerOrg
  /\ key' = Refreshed
  /\ goto(h, "held")
  /\ UNCHANGED <<count, current, errors, crashes>>

-----------------------------------------------------------------------------
(* release_slot, the finally clause of process_message *)

Decr(h) ==
  /\ pc[h] \in {"held", "open"}
  /\ count' = count - 1
  /\ key' = Touched
  /\ goto(h, IF count' < 0 THEN "clamp" ELSE "idle")
  /\ UNCHANGED <<current, errors, crashes>>

\* await redis.set(key, 0, ex=slot_ttl): a second command, not atomic with
\* the decrement that went below zero.
Clamp(h) ==
  /\ pc[h] = "clamp"
  /\ count' = 0
  /\ key' = "expiring"
  /\ goto(h, "idle")
  /\ UNCHANGED <<current, errors, crashes>>

-----------------------------------------------------------------------------
(* Redis errors, crashes, expiry *)

\* A command that raises may or may not have reached Redis.  In acquire_slot
\* the handler swallows the exception and reports True (fail-open); in
\* release_slot it swallows it and is done.
RedisError(h) ==
  /\ errors < MaxErrors
  /\ errors' = errors + 1
  /\ \/ /\ pc[h] = "idle"
        /\ \/ count' = count + 1 /\ key' = Touched
           \/ UNCHANGED <<count, key>>
        /\ goto(h, "open")
     \/ /\ \/ pc[h] = "arm"
           \/ pc[h] = "decide" /\ current[h] <= MaxPerOrg
        /\ key' \in {key, Refreshed}
        /\ goto(h, "open")
        /\ UNCHANGED count
     \/ /\ pc[h] = "decide"
        /\ current[h] > MaxPerOrg
        /\ \/ count' = count - 1 /\ key' = Touched
           \/ UNCHANGED <<count, key>>
        /\ goto(h, "open")
     \/ /\ pc[h] \in {"held", "open"}
        /\ \/ count' = count - 1 /\ key' = Touched
           \/ UNCHANGED <<count, key>>
        /\ goto(h, "idle")
     \/ /\ pc[h] = "clamp"
        /\ \/ count' = 0 /\ key' = "expiring"
           \/ UNCHANGED <<count, key>>
        /\ goto(h, "idle")
  /\ UNCHANGED <<current, crashes>>

\* The worker dies; its handlers never run their finally clause.
Crash(h) ==
  /\ crashes < MaxCrashes
  /\ pc[h] \in CrashAt
  /\ crashes' = crashes + 1
  /\ goto(h, "idle")
  /\ UNCHANGED <<count, key, current, errors>>

\* The handlers that refreshed the expiry a moment ago and are still running.
JustRefreshed ==
  {h \in Handlers : \/ pc[h] \in {"held", "clamp"}
                    \/ pc[h] = "decide" /\ current[h] = 1}

\* CONCURRENCY_SLOT_TTL (an hour) after the last refresh Redis drops the key.
\* A slot is held only while the job is submitted, far shorter than that, so
\* no handler that refreshed the expiry is still running.  One that has only
\* incremented may be: ExpiryRaces says whether the runs consider it.
Expire ==
  /\ key = "expiring"
  /\ JustRefreshed = {}
  /\ ExpiryRaces \/ \A h \in Handlers : pc[h] = "idle"
  /\ count' = 0
  /\ key' = "missing"
  /\ UNCHANGED <<pc, current, errors, crashes>>

-----------------------------------------------------------------------------
Acquire(h) == Incr(h) \/ ArmFirst(h) \/ RollBack(h) \/ Granted(h)

Release(h) == Decr(h) \/ Clamp(h)

Next ==
  \/ \E h \in Handlers : Acquire(h) \/ Release(h) \/ RedisError(h) \/ Crash(h)
  \/ Expire

\* Handlers that have started finish their coroutine, and Redis expires keys;
\* nothing obliges a new message to arrive.
Fairness ==
  /\ \A h \in Handlers :
       WF_vars(ArmFirst(h) \/ RollBack(h) \/ Granted(h) \/ Release(h))
  /\ WF_vars(Expire)

Spec == Init /\ [][Next]_vars /\ Fairness
-----------------------------------------------------------------------------
(* Properties *)

\* Handlers that acquire_slot let through and that have not released.
Holders == {h \in Handlers : pc[h] \in {"held", "open"}}

\* The increments of live handlers that the counter should contain.
Counted == {h \in Handlers : pc[h] \in {"arm", "decide", "held"}}

\* Handlers whose slot is decided: the increment returned at most the limit.
Slotted == {h \in Counted : pc[h] = "held" \/ current[h] <= MaxPerOrg}

\* Every variable stays in its type; the counter never leaves Int (it can go
\* below zero between a release and its clamp).
TypeOK ==
  /\ count \in Int
  /\ key \in {"missing", "persistent", "expiring"}
  /\ pc \in [Handlers -> Pcs]
  /\ current \in [Handlers -> Int]
  /\ errors \in Nat
  /\ crashes \in Nat

\* While no Redis command has failed, at most MaxPerOrg handlers of an
\* organisation hold a slot, whatever increments and rollbacks interleave
\* and however many slots crashed workers have leaked (acquire_slot's
\* "atomic INCR + conditional DECR to avoid race conditions").
TenantLimit == errors = 0 => Cardinality(Holders) <= MaxPerOrg

\* While no Redis command has failed, the counter never under-reports: every
\* live handler that incremented it is still counted, so a release never
\* drives it below zero and the non-atomic clamp is never needed.
CounterCoversHolders ==
  errors = 0 => /\ Cardinality(Counted) <= count
                /\ \A h \in Handlers : pc[h] # "clamp"

\* No slot is lost without a failure, and each failure costs one at most: what
\* the counter shows beyond the increments of live handlers is bounded by the
\* commands that raised and the handlers that died, however increments,
\* rollbacks, clamps and the expiry of the key interleave.
LeakBounded == count <= Cardinality(Counted) + errors + crashes

\* While no Redis command has failed and no worker dies before its EXPIRE, a
\* counter above zero has an expiry time or is about to get one: what crashed
\* workers leave in it is never kept for ever.  (The rollbacks of late handlers
\* may create the key again below zero and without an expiry time.)
LeakHasExpiry ==
  errors = 0 /\ "arm" \notin CrashAt =>
    (key = "persistent" /\ count > 0 => \E h \in Handlers : pc[h] = "arm")

\* Leaked slots do not lock the organisation out for good: a counter at the
\* limit comes down again (the safety TTL of the class docstring).
LimitReleased == (count >= MaxPerOrg) ~> (count < MaxPerOrg)

\* The counter implements the abstract semaphore: every step grants a slot
\* below the limit, returns one, or changes nothing a caller can see, until a
\* command fails and the limiter fails open.
Slots == INSTANCE TenantSemaphore WITH granted <- Slotted, failed <- (errors > 0)
ImplementsSemaphore == Slots!Spec
=============================================================================
