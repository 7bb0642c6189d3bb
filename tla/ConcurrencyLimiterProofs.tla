----------------------- MODULE ConcurrencyLimiterProofs -----------------------
(***************************************************************************)
(* Proofs about the per-tenant limiter, for every set of handlers, every   *)
(* limit and any number of crashes.  The limit is not inductive by itself: *)
(* a handler is let through on the value its own INCR returned, so the     *)
(* invariant must say that the counter covers every live increment, which  *)
(* makes the returned value an upper bound on the slots already given out. *)
(***************************************************************************)
EXTENDS ConcurrencyLimiter, FiniteSetTheorems, TLAPS

\* As long as no command has raised and the key does not expire in the middle
\* of an acquire, nobody fails open, the counter covers the live increments,
\* and at most MaxPerOrg increments were answered with a slot.
Healthy == errors = 0 /\ ~ExpiryRaces

IInv ==
  /\ TypeOK
  /\ Healthy =>
       /\ \A h \in Handlers : pc[h] \notin {"open", "clamp"}
       /\ Cardinality(Counted) <= count
       /\ Cardinality(Slotted) <= MaxPerOrg

-----------------------------------------------------------------------------
\* Every variable of the limiter keeps its type.
THEOREM TypeCorrect == Spec => []TypeOK
<1>1. Init => TypeOK
  BY DEF Init, TypeOK, Pcs
<1>2. TypeOK /\ [Next]_vars => TypeOK'
  <2> SUFFICES ASSUME TypeOK, [Next]_vars
               PROVE  TypeOK'
    OBVIOUS
  <2> USE DEF TypeOK, Pcs, goto, Touched, Refreshed
  <2>1. ASSUME NEW h \in Handlers, Incr(h)
        PROVE  TypeOK'
    BY <2>1 DEF Incr
  <2>2. ASSUME NEW h \in Handlers, ArmFirst(h)
        PROVE  TypeOK'
    BY <2>2 DEF ArmFirst
  <2>3. ASSUME NEW h \in Handlers, RollBack(h)
        PROVE  TypeOK'
    BY <2>3 DEF RollBack
  <2>4. ASSUME NEW h \in Handlers, Granted(h)
        PROVE  TypeOK'
    BY <2>4 DEF Granted
  <2>5. ASSUME NEW h \in Handlers, Decr(h)
        PROVE  TypeOK'
    BY <2>5 DEF Decr
  <2>6. ASSUME NEW h \in Handlers, Clamp(h)
        PROVE  TypeOK'
    BY <2>6 DEF Clamp
  <2>7. ASSUME NEW h \in Handlers, RedisError(h)
        PROVE  TypeOK'
    BY <2>7 DEF RedisError
  <2>8. ASSUME NEW h \in Handlers, Crash(h)
        PROVE  TypeOK'
    BY <2>8 DEF Crash
  <2>9. CASE Expire
    BY <2>9 DEF Expire
  <2>10. CASE UNCHANGED vars
    BY <2>10 DEF vars
  <2> QED
    BY <2>1, <2>2, <2>3, <2>4, <2>5, <2>6, <2>7, <2>8, <2>9, <2>10
    DEF Next, Acquire, Release
<1> QED
  BY <1>1, <1>2, PTL DEF Spec

-----------------------------------------------------------------------------
\* The two sets the invariant counts are finite.
LEMMA FiniteCounts ==
  /\ IsFiniteSet(Counted) /\ IsFiniteSet(Slotted)
  /\ Slotted \subseteq Counted
  /\ Cardinality(Counted) \in Nat /\ Cardinality(Slotted) \in Nat
<1>1. Counted \subseteq Handlers /\ Slotted \subseteq Counted
  BY DEF Counted, Slotted
<1>2. IsFiniteSet(Counted)
  BY <1>1, LimiterAssumption, FS_Subset
<1>3. IsFiniteSet(Slotted)
  BY <1>1, <1>2, FS_Subset
<1> QED
  BY <1>1, <1>2, <1>3, FS_CardinalityType

\* A step that leaves every handler's membership alone, or takes the handler
\* out, cannot break the counting part of the invariant as long as the counter
\* loses at most what the sets lose.
LEMMA Shrink ==
  ASSUME IInv, Healthy, TypeOK', Healthy', NEW h \in Handlers,
         \A g \in Handlers : pc'[g] \notin {"open", "clamp"},
         \/ Counted' = Counted /\ count' = count
         \/ h \in Counted /\ Counted' = Counted \ {h} /\ count' = count - 1
         \/ Counted' = Counted \ {h} /\ count' = count,
         Slotted' \subseteq Slotted
  PROVE  IInv'
<1>1. Cardinality(Slotted') <= Cardinality(Slotted) /\ Cardinality(Slotted') \in Nat
  BY FiniteCounts, FS_Subset, FS_CardinalityType
<1>2. Cardinality(Slotted') <= MaxPerOrg
  BY <1>1, FiniteCounts, LimiterAssumption DEF IInv
<1>3. Cardinality(Counted \ {h}) =
        IF h \in Counted THEN Cardinality(Counted) - 1 ELSE Cardinality(Counted)
  BY FiniteCounts, FS_RemoveElement
<1>4. Cardinality(Counted) <= count /\ count \in Int
  BY DEF IInv, TypeOK
<1>5. Cardinality(Counted') <= count'
  BY <1>3, <1>4, FiniteCounts
<1> QED
  BY <1>2, <1>5 DEF IInv

\* An increment adds one live handler; the value it returns bounds the slots.
LEMMA IncrPreserves ==
  ASSUME IInv, Healthy, TypeOK', Healthy', NEW h \in Handlers, Incr(h)
  PROVE  IInv'
<1> USE DEF Incr, goto
<1>1. h \notin Counted /\ Counted' = Counted \cup {h}
  BY DEF Counted, IInv, TypeOK
<1>2. Cardinality(Counted') <= count'
  <2>1. Cardinality(Counted \cup {h}) = Cardinality(Counted) + 1
    BY <1>1, FiniteCounts, FS_AddElement
  <2>2. Cardinality(Counted) <= count /\ count \in Int
    BY DEF IInv, TypeOK
  <2> QED
    BY <1>1, <2>1, <2>2, FiniteCounts
<1>3. \A g \in Handlers : pc'[g] \notin {"open", "clamp"}
  BY DEF IInv, TypeOK
<1>4. CASE count' <= MaxPerOrg
  <2>1. Slotted' \subseteq Counted'
    BY DEF Slotted
  <2>2. IsFiniteSet(Counted') /\ Cardinality(Counted') \in Nat
    BY <1>1, FiniteCounts, FS_AddElement, FS_CardinalityType
  <2>3. Cardinality(Slotted') <= Cardinality(Counted') /\ Cardinality(Slotted') \in Nat
    BY <2>1, <2>2, FS_Subset, FS_CardinalityType
  <2> QED
    BY <1>2, <1>3, <1>4, <2>2, <2>3, LimiterAssumption DEF IInv, TypeOK
<1>5. CASE ~(count' <= MaxPerOrg)
  <2>1. Slotted' = Slotted
    BY <1>5 DEF Slotted, Counted, IInv, TypeOK
  <2> QED
    BY <1>2, <1>3, <2>1 DEF IInv
<1> QED
  BY <1>4, <1>5

\* The strengthened invariant is preserved by every step.
LEMMA InductiveStep == IInv /\ TypeOK' /\ [Next]_vars => IInv'
<1> SUFFICES ASSUME IInv, TypeOK', [Next]_vars, Healthy'
             PROVE  IInv'
  BY DEF IInv
<1> USE DEF goto
<1>0. Healthy
  <2>1. errors' >= errors
    BY DEF IInv, TypeOK, Next, Acquire, Release, Incr, ArmFirst, RollBack, Granted,
           Decr, Clamp, RedisError, Crash, Expire, vars
  <2> QED
    BY <2>1 DEF Healthy, IInv, TypeOK
<1>1. ASSUME NEW h \in Handlers, Incr(h)
      PROVE  IInv'
  BY <1>0, <1>1, IncrPreserves
<1>2. ASSUME NEW h \in Handlers, ArmFirst(h)
      PROVE  IInv'
  <2>1. Counted' = Counted /\ Slotted' = Slotted /\ count' = count
    BY <1>2 DEF ArmFirst, Counted, Slotted, IInv, TypeOK
  <2>2. \A g \in Handlers : pc'[g] \notin {"open", "clamp"}
    BY <1>0, <1>2 DEF ArmFirst, IInv, TypeOK
  <2> QED
    BY <1>0, <2>1, <2>2, Shrink
<1>3. ASSUME NEW h \in Handlers, RollBack(h)
      PROVE  IInv'
  <2>1. /\ h \in Counted /\ Counted' = Counted \ {h} /\ count' = count - 1
        /\ Slotted' \subseteq Slotted
    BY <1>3 DEF RollBack, Counted, Slotted, IInv, TypeOK
  <2>2. \A g \in Handlers : pc'[g] \notin {"open", "clamp"}
    BY <1>0, <1>3 DEF RollBack, IInv, TypeOK
  <2> QED
    BY <1>0, <2>1, <2>2, Shrink
<1>4. ASSUME NEW h \in Handlers, Granted(h)
      PROVE  IInv'
  <2>1. Counted' = Counted /\ Slotted' = Slotted /\ count' = count
    BY <1>4 DEF Granted, Counted, Slotted, IInv, TypeOK
  <2>2. \A g \in Handlers : pc'[g] \notin {"open", "clamp"}
    BY <1>0, <1>4 DEF Granted, IInv, TypeOK
  <2> QED
    BY <1>0, <2>1, <2>2, Shrink
<1>5. ASSUME NEW h \in Handlers, Decr(h)
      PROVE  IInv'
  <2>1. /\ h \in Counted /\ Counted' = Counted \ {h} /\ count' = count - 1
        /\ Slotted' \subseteq Slotted
    BY <1>0, <1>5 DEF Decr, Counted, Slotted, IInv, TypeOK
  <2>2. Cardinality(Counted) >= 1
    BY <2>1, FiniteCounts, FS_EmptySet
  <2>3. ~(count' < 0)
    BY <1>0, <2>1, <2>2, FiniteCounts DEF IInv, TypeOK
  <2>4. \A g \in Handlers : pc'[g] \notin {"open", "clamp"}
    BY <1>0, <1>5, <2>3 DEF Decr, IInv, TypeOK
  <2> QED
    BY <1>0, <2>1, <2>4, Shrink
<1>6. ASSUME NEW h \in Handlers, Clamp(h)
      PROVE  IInv'
  BY <1>0, <1>6 DEF Clamp, IInv
<1>7. ASSUME NEW h \in Handlers, RedisError(h)
      PROVE  IInv'
  BY <1>0, <1>7 DEF RedisError, Healthy
<1>8. ASSUME NEW h \in Handlers, Crash(h)
      PROVE  IInv'
  <2>1. Counted' = Counted \ {h} /\ count' = count /\ Slotted' \subseteq Slotted
    BY <1>8 DEF Crash, Counted, Slotted, IInv, TypeOK
  <2>2. \A g \in Handlers : pc'[g] \notin {"open", "clamp"}
    BY <1>0, <1>8 DEF Crash, IInv, TypeOK
  <2> QED
    BY <1>0, <2>1, <2>2, Shrink
<1>9. CASE Expire
  <2>1. Counted' = {} /\ Slotted' = {} /\ count' = 0
    BY <1>0, <1>9 DEF Expire, Counted, Slotted, Healthy
  <2>2. \A g \in Handlers : pc'[g] \notin {"open", "clamp"}
    BY <1>0, <1>9 DEF Expire, IInv
  <2> QED
    BY <2>1, <2>2, FS_EmptySet, LimiterAssumption DEF IInv
<1>10. CASE UNCHANGED vars
  BY <1>10 DEF vars, IInv, TypeOK, Healthy, Counted, Slotted
<1> QED
  BY <1>1, <1>2, <1>3, <1>4, <1>5, <1>6, <1>7, <1>8, <1>9, <1>10
  DEF Next, Acquire, Release

\* The strengthened invariant holds in every reachable state.
LEMMA Invariance == Spec => []IInv
<1>1. Init => IInv
  <2> SUFFICES ASSUME Init PROVE IInv
    OBVIOUS
  <2>1. TypeOK
    BY DEF Init, TypeOK, Pcs
  <2>2. Counted = {} /\ Slotted = {} /\ \A h \in Handlers : pc[h] = "idle"
    BY DEF Init, Counted, Slotted
  <2> QED
    BY <2>1, <2>2, FS_EmptySet, LimiterAssumption DEF IInv, Init
<1> QED
  BY <1>1, InductiveStep, TypeCorrect, PTL DEF Spec

\* At most MaxPerOrg handlers hold a slot as long as no Redis command has
\* failed and the key does not expire inside an acquire_slot.
THEOREM TenantLimitHolds ==
  ASSUME ~ExpiryRaces
  PROVE  Spec => []TenantLimit
<1>1. IInv => TenantLimit
  <2> SUFFICES ASSUME IInv, errors = 0
               PROVE  Cardinality(Holders) <= MaxPerOrg
    BY DEF TenantLimit
  <2>1. Holders \subseteq Slotted
    BY DEF IInv, Healthy, Holders, Slotted, Counted
  <2>2. Cardinality(Holders) <= Cardinality(Slotted) /\ Cardinality(Holders) \in Nat
    BY <2>1, FiniteCounts, FS_Subset, FS_CardinalityType
  <2> QED
    BY <2>2, FiniteCounts, LimiterAssumption DEF IInv, Healthy
<1> QED
  BY <1>1, Invariance, PTL

\* Under the same conditions the counter covers every live increment, so that
\* no release finds it below zero.
THEOREM CounterCovers ==
  ASSUME ~ExpiryRaces
  PROVE  Spec => []CounterCoversHolders
<1>1. IInv => CounterCoversHolders
  BY DEF IInv, Healthy, CounterCoversHolders
<1> QED
  BY <1>1, Invariance, PTL

\* LeakBounded: with any number of failures, and with the key expiring at any
\* time, the counter exceeds the live increments by one per failure at most.
THEOREM LeaksAreFailures == Spec => []LeakBounded
<1>1. Init => LeakBounded
  BY FS_EmptySet, FiniteCounts DEF Init, LeakBounded
<1>2. ASSUME TypeOK, LeakBounded, [Next]_vars
      PROVE  LeakBounded'
  <2> USE DEF goto
  <2>0. /\ \A h \in Handlers : Cardinality(Counted \ {h}) =
             IF h \in Counted THEN Cardinality(Counted) - 1 ELSE Cardinality(Counted)
        /\ \A h \in Handlers : /\ Cardinality(Counted \ {h}) >= Cardinality(Counted) - 1
                               /\ Cardinality(Counted \ {h}) \in Int
        /\ \A h \in Handlers : h \notin Counted =>
             Cardinality(Counted \cup {h}) = Cardinality(Counted) + 1
        /\ Cardinality(Counted) \in Nat /\ count \in Int /\ errors \in Nat /\ crashes \in Nat
        /\ count <= Cardinality(Counted) + errors + crashes
    <3>1. \A h \in Handlers : Cardinality(Counted \ {h}) =
             IF h \in Counted THEN Cardinality(Counted) - 1 ELSE Cardinality(Counted)
      BY FiniteCounts, FS_RemoveElement
    <3>2. \A h \in Handlers : /\ Cardinality(Counted \ {h}) >= Cardinality(Counted) - 1
                              /\ Cardinality(Counted \ {h}) \in Int
      BY <3>1, FiniteCounts
    <3> QED BY <1>2, <3>1, <3>2, FiniteCounts, FS_AddElement DEF TypeOK, LeakBounded
  <2>1. ASSUME NEW h \in Handlers, Incr(h)
        PROVE  LeakBounded'
    <3>1. /\ h \notin Counted /\ Counted' = Counted \cup {h}
          /\ count' = count + 1 /\ errors' = errors /\ crashes' = crashes
      BY <1>2, <2>1 DEF Incr, Counted, TypeOK
    <3> QED BY <2>0, <3>1 DEF LeakBounded
  <2>2. ASSUME NEW h \in Handlers, ArmFirst(h) \/ Granted(h)
        PROVE  LeakBounded'
    <3>1. Counted' = Counted /\ UNCHANGED <<count, errors, crashes>>
      BY <1>2, <2>2 DEF ArmFirst, Granted, Counted, TypeOK
    <3> QED BY <2>0, <3>1 DEF LeakBounded
  <2>3. ASSUME NEW h \in Handlers, RollBack(h)
        PROVE  LeakBounded'
    <3>1. /\ h \in Counted /\ Counted' = Counted \ {h}
          /\ count' = count - 1 /\ errors' = errors /\ crashes' = crashes
      BY <1>2, <2>3 DEF RollBack, Counted, TypeOK
    <3> QED BY <2>0, <3>1 DEF LeakBounded
  <2>4. ASSUME NEW h \in Handlers, Decr(h)
        PROVE  LeakBounded'
    <3>1. /\ Counted' = Counted \ {h}
          /\ count' = count - 1 /\ errors' = errors /\ crashes' = crashes
      BY <1>2, <2>4 DEF Decr, Counted, TypeOK
    <3>2. Cardinality(Counted') >= Cardinality(Counted) - 1 /\ Cardinality(Counted') \in Int
      BY <2>0, <3>1
    <3> QED BY <2>0, <3>1, <3>2 DEF LeakBounded
  <2>5. ASSUME NEW h \in Handlers, Clamp(h)
        PROVE  LeakBounded'
    <3>1. Counted' = Counted /\ count' = 0 /\ errors' = errors /\ crashes' = crashes
      BY <1>2, <2>5 DEF Clamp, Counted, TypeOK
    <3> QED BY <2>0, <3>1 DEF LeakBounded
  <2>6. ASSUME NEW h \in Handlers, RedisError(h)
        PROVE  LeakBounded'
    <3>1. errors' = errors + 1 /\ crashes' = crashes
      BY <2>6 DEF RedisError
    <3>2. CASE pc[h] \in {"idle", "clamp"}
      <4>1. Counted' = Counted /\ (count' \in {count, count + 1} \/ count' = 0)
        BY <1>2, <2>6, <3>2 DEF RedisError, Counted, TypeOK
      <4> QED BY <2>0, <3>1, <4>1 DEF LeakBounded
    <3>3. CASE pc[h] \notin {"idle", "clamp"}
      <4>1. Counted' = Counted \ {h} /\ count' \in {count, count - 1}
        BY <1>2, <2>6, <3>3 DEF RedisError, Counted, TypeOK
      <4>2. Cardinality(Counted') >= Cardinality(Counted) - 1 /\ Cardinality(Counted') \in Int
        BY <2>0, <4>1
      <4> QED BY <2>0, <3>1, <4>1, <4>2 DEF LeakBounded
    <3> QED BY <3>2, <3>3
  <2>7. ASSUME NEW h \in Handlers, Crash(h)
        PROVE  LeakBounded'
    <3>1. /\ Counted' = Counted \ {h} /\ count' = count
          /\ errors' = errors /\ crashes' = crashes + 1
      BY <1>2, <2>7 DEF Crash, Counted, TypeOK
    <3>2. Cardinality(Counted') >= Cardinality(Counted) - 1 /\ Cardinality(Counted') \in Int
      BY <2>0, <3>1
    <3> QED BY <2>0, <3>1, <3>2 DEF LeakBounded
  <2>8. CASE Expire
    <3>1. Counted' = Counted /\ count' = 0 /\ errors' = errors /\ crashes' = crashes
      BY <2>8 DEF Expire, Counted
    <3> QED BY <2>0, <3>1 DEF LeakBounded
  <2>9. CASE UNCHANGED vars
    BY <1>2, <2>9 DEF vars, Counted, LeakBounded
  <2> QED
    BY <1>2, <2>1, <2>2, <2>3, <2>4, <2>5, <2>6, <2>7, <2>8, <2>9
    DEF Next, Acquire, Release
<1>3. TypeOK /\ LeakBounded /\ [Next]_vars => LeakBounded'
  BY <1>2
<1> QED
  BY <1>1, <1>3, TypeCorrect, PTL DEF Spec
-----------------------------------------------------------------------------
\* A key that is not there reads as zero; with LeakHasExpiry this is inductive.
Expiring == (key = "missing" => count = 0) /\ LeakHasExpiry

\* LeakHasExpiry: in every state reached without a failed command, and if no
\* worker dies between its INCR and its EXPIRE, a counter above zero has an
\* expiry time or a handler on its way to set it (acquire_slot's safety TTL).
\* The counter leaves zero upwards by an increment that returns one, and the
\* handler that gets the one goes on to the EXPIRE.
THEOREM LeaksExpire == Spec => []LeakHasExpiry
<1>1. Init => Expiring
  BY DEF Init, Expiring, LeakHasExpiry
<1>2. ASSUME TypeOK, Expiring, [Next]_vars
      PROVE  Expiring'
  <2> USE DEF TypeOK, Expiring, LeakHasExpiry, goto, Touched, Refreshed
  <2>1. ASSUME NEW h \in Handlers, Incr(h)
        PROVE  Expiring'
    <3>1. CASE count' = 1
      BY <1>2, <2>1, <3>1 DEF Incr
    <3>2. CASE count' # 1
      <4>1. \A g \in Handlers : pc[g] = "arm" => pc'[g] = "arm"
        BY <1>2, <2>1 DEF Incr
      <4> QED BY <1>2, <2>1, <3>2, <4>1 DEF Incr
    <3> QED BY <3>1, <3>2
  <2>2. ASSUME NEW h \in Handlers, ArmFirst(h) \/ Granted(h) \/ Clamp(h)
        PROVE  Expiring'
    BY <1>2, <2>2 DEF ArmFirst, Granted, Clamp
  <2>3. ASSUME NEW h \in Handlers, RollBack(h) \/ Decr(h)
        PROVE  Expiring'
    <3>1. \A g \in Handlers : pc[g] = "arm" => pc'[g] = "arm"
      BY <1>2, <2>3 DEF RollBack, Decr
    <3> QED BY <1>2, <2>3, <3>1 DEF RollBack, Decr
  <2>4. ASSUME NEW h \in Handlers, RedisError(h)
        PROVE  Expiring'
    <3>1. errors' # 0
      BY <1>2, <2>4 DEF RedisError
    <3>2. key' = "missing" => count' = 0
      BY <1>2, <2>4 DEF RedisError
    <3> QED BY <3>1, <3>2
  <2>5. ASSUME NEW h \in Handlers, Crash(h)
        PROVE  Expiring'
    <3>1. "arm" \notin CrashAt =>
            \A g \in Handlers : pc[g] = "arm" => pc'[g] = "arm"
      BY <1>2, <2>5 DEF Crash
    <3> QED BY <1>2, <2>5, <3>1 DEF Crash
  <2>6. CASE Expire \/ UNCHANGED vars
    BY <1>2, <2>6 DEF Expire, vars
  <2> QED
    BY <1>2, <2>1, <2>2, <2>3, <2>4, <2>5, <2>6 DEF Next, Acquire, Release
<1>3. TypeOK /\ Expiring /\ [Next]_vars => Expiring'
  BY <1>2
<1>4. Expiring => LeakHasExpiry
  BY DEF Expiring
<1> QED
  BY <1>1, <1>3, <1>4, TypeCorrect, PTL DEF Spec

-----------------------------------------------------------------------------
\* The counter implements the abstract, fail-open semaphore of TenantSemaphore:
\* every step grants a slot below the limit, returns one, or changes nothing
\* the caller can see, provided the key does not expire in an acquire.
THEOREM SemaphoreRefinement ==
  ASSUME ~ExpiryRaces
  PROVE  Spec => ImplementsSemaphore
<1> USE DEF goto, Slots!Next, Slots!Grant, Slots!Return, Slots!vars
<1>1. Init => Slots!Init
  BY DEF Init, Slots!Init, Slotted, Counted
<1>2. ASSUME IInv, TypeOK', errors' = 0, [Next]_vars
      PROVE  [Slots!Next]_Slots!vars
  <2>e. errors = 0
    BY <1>2 DEF IInv, TypeOK, Next, Acquire, Release, Incr, ArmFirst, RollBack, Granted,
           Decr, Clamp, RedisError, Crash, Expire, vars
  <2>0. Healthy
    BY <2>e DEF Healthy
  <2>f. (errors > 0)' = (errors > 0)
    BY <1>2, <2>e
  <2>1. ASSUME NEW h \in Handlers, Incr(h)
        PROVE  [Slots!Next]_Slots!vars
    <3>1. h \notin Counted /\ h \notin Slotted
      BY <2>1 DEF Incr, Counted, Slotted
    <3>2. CASE count' <= MaxPerOrg
      <4>1. Slotted' = Slotted \cup {h}
        BY <1>2, <2>1, <3>2 DEF Incr, Counted, Slotted, IInv, TypeOK
      <4>2. Cardinality(Slotted) <= Cardinality(Counted)
        <5>1. Slotted \in SUBSET Counted /\ IsFiniteSet(Counted)
          BY FiniteCounts
        <5> QED
          BY <5>1, FS_Subset
      <4>3. Cardinality(Counted) <= count /\ count \in Int /\ count' = count + 1
        BY <1>2, <2>0, <2>1 DEF IInv, TypeOK, Incr
      <4>4. Cardinality(Slotted) < MaxPerOrg
        BY <3>2, <4>2, <4>3, FiniteCounts, LimiterAssumption
      <4>5. Slots!Cardinality(Slotted) = Cardinality(Slotted)
        BY DEF Cardinality, Slots!Cardinality
      <4>6. Slots!Grant(h)
        BY <2>f, <3>1, <4>1, <4>4, <4>5
      <4> QED
        BY <4>6
    <3>3. CASE ~(count' <= MaxPerOrg)
      <4>1. Slotted' = Slotted
        BY <1>2, <2>1, <3>3 DEF Incr, Counted, Slotted, IInv, TypeOK
      <4> QED
        BY <2>f, <4>1
    <3> QED
      BY <3>2, <3>3
  <2>2. ASSUME NEW h \in Handlers, ArmFirst(h)
        PROVE  Slotted' = Slotted
    BY <1>2, <2>2 DEF ArmFirst, Counted, Slotted, IInv, TypeOK
  <2>3. ASSUME NEW h \in Handlers, RollBack(h)
        PROVE  Slotted' = Slotted
    BY <1>2, <2>3, LimiterAssumption DEF RollBack, Counted, Slotted, IInv, TypeOK
  <2>4. ASSUME NEW h \in Handlers, Granted(h)
        PROVE  Slotted' = Slotted
    BY <1>2, <2>4 DEF Granted, Counted, Slotted, IInv, TypeOK
  <2>5. ASSUME NEW h \in Handlers, Decr(h)
        PROVE  [Slots!Next]_Slots!vars
    <3>1. h \in Slotted /\ Slotted' = Slotted \ {h}
      BY <1>2, <2>0, <2>5 DEF Decr, Counted, Slotted, IInv, TypeOK
    <3> QED
      BY <2>f, <3>1
  <2>6. ASSUME NEW h \in Handlers, Clamp(h)
        PROVE  FALSE
    BY <1>2, <2>0, <2>6 DEF Clamp, IInv
  <2>7. ASSUME NEW h \in Handlers, RedisError(h)
        PROVE  FALSE
    BY <1>2, <2>e, <2>7 DEF RedisError
  <2>8. ASSUME NEW h \in Handlers, Crash(h)
        PROVE  [Slots!Next]_Slots!vars
    <3>1. Slotted' = Slotted \ {h}
      BY <1>2, <2>8 DEF Crash, Counted, Slotted, IInv, TypeOK
    <3> QED
      BY <2>f, <3>1
  <2>9. CASE Expire
    BY <2>f, <2>9 DEF Expire, Counted, Slotted
  <2>10. CASE UNCHANGED vars
    BY <2>10 DEF vars, Counted, Slotted
  <2> QED
    BY <1>2, <2>f, <2>1, <2>2, <2>3, <2>4, <2>5, <2>6, <2>7, <2>8, <2>9, <2>10
    DEF Next, Acquire, Release
<1>3. ASSUME TypeOK', errors' # 0
      PROVE  Slots!FailOpen
  <2>1. Slotted' \in SUBSET Handlers
    BY DEF Slotted, Counted
  <2>2. (errors > 0)' = TRUE
    BY <1>3 DEF TypeOK
  <2> QED
    BY <2>1, <2>2 DEF Slots!FailOpen
<1>4. IInv /\ TypeOK' /\ [Next]_vars => [Slots!Next]_Slots!vars
  BY <1>2, <1>3
<1> QED
  BY <1>1, <1>4, Invariance, TypeCorrect, PTL
  DEF Spec, ImplementsSemaphore, Slots!Spec
=============================================================================
