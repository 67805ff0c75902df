---------------------- MODULE ConcurrencyControlProofs ----------------------
(***************************************************************************)
(* Concurrency control, the ids of the runners and the deadline are right  *)
(* for every capacity, every configuration of steps, delays, windows and   *)
(* thresholds, and any number of failures.  What the sampler holds plays   *)
(* no part: the bounds hold whatever it makes the strategy decide.         *)
(***************************************************************************)
EXTENDS ConcurrencyControl, FiniteSetTheorems, TLAPS

\* The ids in use are ids, marked and counted as such, and the hint has only such
\* ids before it.
IdsCounted ==
  /\ bits \in [Ids -> BOOLEAN] /\ next_free_hint \in Ids
  /\ running = {id \in Ids : bits[id]}
  /\ allocated_count = Cardinality(running)
  /\ 0 .. next_free_hint - 1 \subseteq running

\* The strategy's state is one of its three, with a target within the bounds.
StateBounded ==
  /\ state = [mode |-> state.mode, target |-> state.target, age |-> state.age,
              failures |-> state.failures]
  /\ state.mode \in {"normal", "degraded", "recovering"}
  /\ state.target \in Most(1, MinConcurrency) .. Capacity

\* The timer never runs for longer than what is left of the period.
Timed ==
  /\ progress \in 0 .. NoProgress /\ timer \in Nat
  /\ DeadlineIsExact

\* The policy's counter is the number of failures since the last write that can be
\* tried again.
Budgeted ==
  /\ unwritten \in [FailureKinds -> Nat]
  /\ consecutive = unwritten["retryable"] + unwritten["short"]
  /\ RetryBudgetIsExact

ControlInv == IdsCounted /\ StateBounded /\ StateIsInForce /\ Timed /\ Budgeted

-----------------------------------------------------------------------------
\* The runners are finitely many, at most as many as there are ids, and as many
\* only when there is no other id.
LEMMA RunnersAreFinite ==
  ASSUME NEW S \in SUBSET Ids
  PROVE  /\ IsFiniteSet(S) /\ Cardinality(S) \in 0 .. Capacity
         /\ Cardinality(S) = Capacity <=> S = Ids
<1>1. IsFiniteSet(Ids) /\ Cardinality(Ids) = Capacity
  BY CapacityAssumption, FS_Interval DEF Ids
<1>2. IsFiniteSet(S) /\ Cardinality(S) <= Capacity /\ (Cardinality(S) = Capacity => S = Ids)
  BY <1>1, FS_Subset
<1>3. Cardinality(S) \in Nat
  BY <1>2, FS_CardinalityType
<1> QED BY <1>1, <1>2, <1>3, CapacityAssumption

\* The index arithmetic of next, for indices that have not come round.
LEMMA IndexInRange ==
  /\ \A k \in Ids : k % Capacity = k
  /\ Capacity % Capacity = 0
BY CapacityAssumption, SMTT(30) DEF Ids

\* With no free id before the hint, every free id is met in a round of its own, in
\* ascending order, and a search without a hit means that all ids are in use.
LEMMA SearchMeetsFreeIds ==
  ASSUME IdsCounted
  PROVE  /\ \A k \in Ids \ running : k - next_free_hint \in Hits /\ Probe(k - next_free_hint) = k
         /\ \A i \in Hits : Probe(i) \in Ids \ running
         /\ Hits = {} <=> running = Ids
<1> USE CapacityAssumption DEF IdsCounted
<1>1. ASSUME NEW k \in Ids, k \notin running
      PROVE  k - next_free_hint \in Hits /\ Probe(k - next_free_hint) = k
  <2>1. k - next_free_hint \in 0 .. Capacity - 1 /\ next_free_hint + (k - next_free_hint) = k
    BY <1>1 DEF Ids
  <2>2. Probe(k - next_free_hint) = k
    BY <2>1, IndexInRange DEF Probe
  <2> QED BY <1>1, <2>1, <2>2 DEF Hits
<1>2. ASSUME NEW i \in Hits
      PROVE  Probe(i) \in Ids \ running
  <2>1. Probe(i) \in Ids
    BY DEF Hits, Probe, Ids
  <2> QED BY <2>1 DEF Hits
<1> QED BY <1>1, <1>2

\* A task starts with no runner and its whole concurrency.
LEMMA ControlInitInv == ControlInit => ControlInv
<1> SUFFICES ASSUME ControlInit PROVE ControlInv
  OBVIOUS
<1> USE CapacityAssumption, ControlAssumption DEF ControlInit
<1>1. IdsCounted
  <2>1. /\ bits \in [Ids -> BOOLEAN] /\ next_free_hint = 0
        /\ {id \in Ids : bits[id]} = {} /\ allocated_count = 0
    BY DEF GeneratorInit
  <2>2. 0 \in Ids /\ 0 .. 0 - 1 = {}
    BY DEF Ids
  <2>3. Cardinality({}) = 0
    BY FS_EmptySet
  <2> QED BY <2>1, <2>2, <2>3 DEF IdsCounted
<1>2. StateBounded /\ StateIsInForce
  BY DEF StateBounded, StateIsInForce, Normal, Most
<1>3. Timed
  BY DEF Timed, DeadlineIsExact
<1>4. Budgeted
  BY DEF Budgeted, RetryBudgetIsExact, NoFailures, FailureKinds
<1> QED BY <1>1, <1>2, <1>3, <1>4 DEF ControlInv

\* next hands out an id that nobody has, the lowest of them, and counts it.
LEMMA CreateKeepsIds ==
  ASSUME IdsCounted, CreateRunner
  PROVE  IdsCounted'
<1> USE CapacityAssumption
<1>1. PICK id \in Ids : Next(id) /\ running' = running \union {id}
  BY DEF CreateRunner
<1>2. id \notin running /\ running \in SUBSET Ids /\ 0 .. id - 1 \subseteq running
  <2>1. PICK i \in Hits : id = Probe(i) /\ \A j \in Hits : i <= j
    BY <1>1 DEF Next
  <2>2. id \notin running /\ running \in SUBSET Ids
    BY <2>1, SearchMeetsFreeIds DEF IdsCounted
  <2>3. ASSUME NEW k \in 0 .. id - 1, k \notin running
        PROVE  FALSE
    <3>1. k \in Ids /\ k < id /\ next_free_hint \in Ids
      BY <2>3, <1>1 DEF Ids, IdsCounted
    <3>2. k - next_free_hint \in Hits
      BY <2>3, <3>1, SearchMeetsFreeIds
    <3>3. i <= k - next_free_hint /\ i \in Nat
      BY <2>1, <3>2 DEF Hits
    <3>4. next_free_hint + i \in Ids /\ next_free_hint + i <= k
      BY <3>1, <3>3 DEF Ids
    <3>5. id = next_free_hint + i
      BY <2>1, <3>4, IndexInRange DEF Probe
    <3> QED BY <3>1, <3>4, <3>5 DEF Ids
  <2> QED BY <2>2, <2>3
<1>3. Cardinality(running') = Cardinality(running) + 1
  BY <1>1, <1>2, RunnersAreFinite, FS_AddElement
<1>4. bits' \in [Ids -> BOOLEAN] /\ running' = {k \in Ids : bits'[k]}
  BY <1>1 DEF Next, IdsCounted
<1>5. next_free_hint' \in Ids /\ 0 .. next_free_hint' - 1 \subseteq running'
  <2>1. next_free_hint' = (id + 1) % Capacity
    BY <1>1 DEF Next
  <2>2. CASE id + 1 = Capacity
    BY <2>1, <2>2, IndexInRange DEF Ids
  <2>3. CASE id + 1 # Capacity
    <3>1. id + 1 \in Ids
      BY <2>3 DEF Ids
    <3>2. next_free_hint' = id + 1
      BY <2>1, <3>1, IndexInRange
    <3>3. 0 .. id \subseteq running'
      BY <1>1, <1>2 DEF Ids
    <3> QED BY <3>1, <3>2, <3>3 DEF Ids
  <2> QED BY <2>2, <2>3
<1>6. allocated_count' = Cardinality(running')
  BY <1>1, <1>3 DEF Next, IdsCounted
<1> QED BY <1>4, <1>5, <1>6 DEF IdsCounted

\* release gives back an id that was in use.
LEMMA StopKeepsIds ==
  ASSUME IdsCounted, NEW id \in Ids, Stops(id)
  PROVE  IdsCounted'
<1> USE CapacityAssumption
<1>1. id \in running /\ running \in SUBSET Ids /\ bits[id]
  BY DEF Stops, IdsCounted
<1>2. /\ bits' = [bits EXCEPT ![id] = FALSE]
      /\ allocated_count' = allocated_count - 1
      /\ next_free_hint' = IF id < next_free_hint THEN id ELSE next_free_hint
      /\ running' = running \ {id}
  BY <1>1 DEF Stops, ReleaseId
<1>3. Cardinality(running') = Cardinality(running) - 1
  BY <1>1, <1>2, RunnersAreFinite, FS_RemoveElement
<1>4. bits' \in [Ids -> BOOLEAN] /\ running' = {k \in Ids : bits'[k]}
  BY <1>2 DEF IdsCounted
<1>5. next_free_hint' \in Ids /\ allocated_count' = Cardinality(running')
  BY <1>2, <1>3 DEF IdsCounted
<1>6. 0 .. next_free_hint' - 1 \subseteq running'
  BY <1>2 DEF IdsCounted, Ids
<1> QED BY <1>4, <1>5, <1>6 DEF IdsCounted

\* Whatever the sampler holds, the strategy decides for a state with a target within
\* the bounds, and goes back to normal only from the whole concurrency.
LEMMA DecisionIsBounded ==
  ASSUME StateBounded, StateIsInForce
  PROVE  \/ Decision = state
         \/ Decision = Normal /\ state.target = Capacity
         \/ \E n \in Most(1, MinConcurrency) .. Capacity :
              Decision = Degraded(n) \/ Decision = Recovering(n, TotalFailures)
<1> DEFINE Bounds == Most(1, MinConcurrency) .. Capacity
<1> USE CapacityAssumption, ControlAssumption DEF StateBounded, StateIsInForce
<1>1. state.target \in Nat /\ state.target \in Bounds
  BY DEF Most
<1>2. CASE state.mode = "normal"
  <2>1. Decision = FromNormal
    BY <1>2 DEF Decision
  <2>2. Most(Minus(max_concurrency, DegradationStep), MinConcurrency) \in Bounds
    BY <1>1 DEF Most, Minus
  <2> QED BY <2>1, <2>2 DEF FromNormal
<1>3. CASE state.mode = "degraded"
  <2>1. Decision = FromDegraded
    BY <1>3 DEF Decision
  <2>2. Least(state.target + RecoveryStep, Capacity) \in Bounds
    BY <1>1 DEF Most, Least
  <2>3. ~(Least(state.target + RecoveryStep, Capacity) > state.target) => state.target = Capacity
    BY <1>1 DEF Most, Least
  <2> QED BY <2>1, <2>2, <2>3 DEF FromDegraded
<1>4. CASE state.mode = "recovering"
  <2>1. Decision = FromRecovering
    BY <1>4 DEF Decision
  <2>2. /\ Most(Minus(state.target, DegradationStep), MinConcurrency) \in Bounds
        /\ Most(Minus(state.target, RecoveryStep), MinConcurrency) \in Bounds
        /\ Least(state.target + RecoveryStep, Capacity) \in Bounds
    BY <1>1 DEF Most, Minus, Least
  <2>3. ~(state.target < Capacity) => state.target = Capacity
    BY <1>1
  <2> QED BY <2>1, <2>2, <2>3 DEF FromRecovering
<1> QED BY <1>2, <1>3, <1>4

\* A state that was decided for keeps to the bounds.
LEMMA DecidedIsBounded ==
  ASSUME StateBounded, StateIsInForce, state' = Decision,
         \/ max_concurrency' = Decision.target
         \/ ~ChangesMaxConcurrency /\ max_concurrency' = max_concurrency
  PROVE  StateBounded' /\ StateIsInForce'
<1> USE CapacityAssumption, ControlAssumption DEF StateBounded, StateIsInForce
<1>1. CASE Decision = state
  BY <1>1
<1>2. CASE Decision = Normal /\ state.target = Capacity
  BY <1>2 DEF Normal, Most
<1>3. CASE \E n \in Most(1, MinConcurrency) .. Capacity :
             Decision = Degraded(n) \/ Decision = Recovering(n, TotalFailures)
  <2>1. PICK n \in Most(1, MinConcurrency) .. Capacity :
          Decision = Degraded(n) \/ Decision = Recovering(n, TotalFailures)
    BY <1>3
  <2>2. Decision.mode # "normal" /\ Decision.target = n
    BY <2>1 DEF Degraded, Recovering
  <2>3. max_concurrency' = Decision.target
    BY <2>2 DEF ChangesMaxConcurrency, Normal
  <2> QED BY <2>1, <2>2, <2>3 DEF Degraded, Recovering
<1> QED BY <1>1, <1>2, <1>3, DecisionIsBounded

-----------------------------------------------------------------------------
\* The ticks of the strategy keep the invariant: an immediate degradation has a
\* target within the bounds because there are no more runners than ids.
LEMMA TickKeepsInv ==
  ASSUME ControlInv, Tick
  PROVE  ControlInv'
<1> USE CapacityAssumption, ControlAssumption DEF ControlInv, policyVars, samplerVars
<1>1. Timed' /\ Budgeted'
  BY DEF Tick, FirstTick, DegradeAtOnce, ChangeTick, CreateTick, Timed, DeadlineIsExact,
    Budgeted, RetryBudgetIsExact
<1>2. CASE FirstTick
  <2>1. IdsCounted'
    BY <1>2, CreateKeepsIds DEF FirstTick
  <2>2. StateBounded' /\ StateIsInForce'
    BY <1>2 DEF FirstTick, StateBounded, StateIsInForce
  <2> QED BY <1>1, <2>1, <2>2
<1>3. CASE DegradeAtOnce
  <2>1. IdsCounted'
    BY <1>3 DEF DegradeAtOnce, generatorVars, IdsCounted
  <2>2. Cardinality(running) \in 0 .. Capacity
    BY RunnersAreFinite DEF IdsCounted
  <2>3. Most(Most(Cardinality(running), MinConcurrency), 1) \in Most(1, MinConcurrency) .. Capacity
    BY <2>2 DEF Most
  <2>4. StateBounded' /\ StateIsInForce'
    BY <1>3, <2>3 DEF DegradeAtOnce, Immediate, Degraded, StateBounded, StateIsInForce
  <2> QED BY <1>1, <2>1, <2>4
<1>4. CASE ChangeTick
  <2>1. IdsCounted'
    BY <1>4 DEF ChangeTick, generatorVars, IdsCounted
  <2>2. StateBounded' /\ StateIsInForce'
    <3>1. state' = Decision /\ max_concurrency' = Decision.target
      BY <1>4 DEF ChangeTick
    <3> QED BY <3>1, DecidedIsBounded
  <2> QED BY <1>1, <2>1, <2>2
<1>5. CASE CreateTick
  <2>1. IdsCounted'
    BY <1>5, CreateKeepsIds DEF CreateTick, generatorVars, IdsCounted
  <2>2. StateBounded' /\ StateIsInForce'
    <3>1. state' = Decision /\ ~ChangesMaxConcurrency /\ max_concurrency' = max_concurrency
      BY <1>5 DEF CreateTick
    <3> QED BY <3>1, DecidedIsBounded
  <2> QED BY <1>1, <2>1, <2>2
<1> QED BY <1>2, <1>3, <1>4, <1>5 DEF Tick

\* The end of a runner gives its id back and leaves the concurrency to the next tick.
LEMMA OutcomeKeepsInv ==
  ASSUME ControlInv, NEW id \in Ids, Completes(id) \/ Stopped(id) \/ Fails(id)
  PROVE  ControlInv'
<1> USE ControlAssumption DEF ControlInv, strategyVars, policyVars
<1>1. Stops(id)
  BY DEF Completes, Stopped, Fails
<1>2. IdsCounted'
  BY <1>1, StopKeepsIds
<1>3. StateBounded' /\ StateIsInForce'
  BY DEF Completes, Stopped, Fails, StateBounded, StateIsInForce
<1>4. CASE Completes(id) \/ Stopped(id)
  <2>1. Timed' /\ Budgeted'
    BY <1>4 DEF Completes, Stopped, Timed, DeadlineIsExact, Budgeted, RetryBudgetIsExact
  <2> QED BY <1>2, <1>3, <2>1
<1>5. CASE Fails(id)
  <2>1. UNCHANGED <<progress, timer>> /\ ended = "no" /\ ended' # "NoProgress"
    BY <1>5 DEF Fails, Stops, FailureKinds, IsAttemptRetryable
  <2>2. Timed'
    BY <2>1 DEF Timed, DeadlineIsExact
  <2>3. Budgeted'
    <3>1. PICK kind \in FailureKinds :
            /\ unwritten' = [unwritten EXCEPT ![kind] = @ + 1]
            /\ consecutive' = IF IsAttemptRetryable(kind) THEN consecutive + 1 ELSE consecutive
            /\ IsAttemptRetryable(kind) =>
                 ended' = IF consecutive + 1 >= MaxConsecutive THEN "RetryLimitExceeded" ELSE "no"
            /\ ~IsAttemptRetryable(kind) => ended' \in {"no", "Unretryable"}
            /\ kind = "fatal" => ended' = "Unretryable"
      BY <1>5 DEF Fails, FailureKinds, IsAttemptRetryable
    <3>2. unwritten' \in [FailureKinds -> Nat]
      BY <3>1 DEF Budgeted
    <3>3. consecutive' = unwritten'["retryable"] + unwritten'["short"]
      BY <3>1 DEF Budgeted, FailureKinds, IsAttemptRetryable
    <3>4. RetryBudgetIsExact'
      <4>1. unwritten["fatal"] = 0 /\ consecutive \in Nat /\ consecutive < MaxConsecutive
        BY <2>1 DEF Budgeted, RetryBudgetIsExact, FailureKinds
      <4>2. kind # "fatal" => unwritten'["fatal"] = 0
        BY <3>1, <4>1 DEF Budgeted, FailureKinds
      <4>3. ended' = "no" => consecutive' < MaxConsecutive /\ unwritten'["fatal"] = 0
        BY <3>1, <4>1, <4>2
      <4>4. ended' = "RetryLimitExceeded" => consecutive' = MaxConsecutive
        BY <3>1, <4>1
      <4> QED BY <3>3, <4>3, <4>4 DEF RetryBudgetIsExact
    <3> QED BY <3>2, <3>3, <3>4 DEF Budgeted
  <2> QED BY <1>2, <1>3, <2>2, <2>3
<1> QED BY <1>4, <1>5

\* Progress only moves the deadline away, and the clock takes from the timer what
\* it adds to the time without progress.
LEMMA TimeKeepsInv ==
  ASSUME ControlInv, Accepts \/ Written \/ OnDeadline \/ Elapse
  PROVE  ControlInv'
<1> USE ControlAssumption DEF ControlInv
<1>1. IdsCounted'
  BY DEF Accepts, Written, OnDeadline, Elapse, generatorVars, IdsCounted
<1>2. StateBounded' /\ StateIsInForce'
  BY DEF Accepts, Written, OnDeadline, Elapse, strategyVars, StateBounded, StateIsInForce
<1>3. Timed'
  BY DEF Accepts, Written, OnDeadline, Elapse, Timed, DeadlineIsExact, Least
<1>4. Budgeted'
  <2>1. CASE Written
    BY <2>1 DEF Written, NoFailures, FailureKinds, Budgeted, RetryBudgetIsExact
  <2>2. CASE Accepts \/ OnDeadline \/ Elapse
    <3>1. UNCHANGED <<consecutive, unwritten>> /\ (ended' = ended \/ ended' = "NoProgress")
      BY <2>2 DEF Accepts, OnDeadline, Elapse
    <3> QED BY <3>1 DEF Budgeted, RetryBudgetIsExact
  <2> QED BY <2>1, <2>2
<1> QED BY <1>1, <1>2, <1>3, <1>4

\* The inductive invariant of the strategies.
THEOREM ControlInvariant == ControlSpec => []ControlInv
<1>1. ControlInv /\ [ControlNext]_vars => ControlInv'
  <2> SUFFICES ASSUME ControlInv, [ControlNext]_vars
               PROVE  ControlInv'
    OBVIOUS
  <2>1. CASE ControlNext
    BY <2>1, TickKeepsInv, OutcomeKeepsInv, TimeKeepsInv DEF ControlNext
  <2>2. CASE UNCHANGED vars
    BY <2>2 DEF vars, generatorVars, strategyVars, samplerVars, policyVars, ControlInv, IdsCounted,
      StateBounded, StateIsInForce, Timed, DeadlineIsExact, Budgeted, RetryBudgetIsExact
  <2> QED BY <2>1, <2>2
<1> QED BY ControlInitInv, <1>1, PTL DEF ControlSpec

\* The concurrency in force is the strategy's target, whatever sequence of
\* degradations, trials and rollbacks led to it, and stays between one and what the
\* task began with, an immediate degradation with no runner active included.
THEOREM ControlIsBounded == ControlSpec => []ConcurrencyIsBounded
<1>1. ControlInv => ConcurrencyIsBounded
  BY DEF ControlInv, StateBounded, StateIsInForce, ConcurrencyIsBounded
<1> QED BY <1>1, ControlInvariant, PTL

\* The bits and the count of the id generator are the runners there are, next finds
\* an id exactly when one is free, and no free id lies before the hint.
THEOREM ControlIdsAreRunners == ControlSpec => []IdsAreRunners
<1>1. ControlInv => IdsAreRunners
  <2> SUFFICES ASSUME ControlInv PROVE IdsAreRunners
    OBVIOUS
  <2> USE CapacityAssumption DEF ControlInv, IdsCounted
  <2>1. Cardinality(running) \in 0 .. Capacity /\ (Cardinality(running) = Capacity <=> running = Ids)
    BY RunnersAreFinite
  <2>2. Hits = {} <=> running = Ids
    BY SearchMeetsFreeIds
  <2> QED BY <2>1, <2>2 DEF IdsAreRunners, Exhausted
<1> QED BY <1>1, ControlInvariant, PTL

\* The lazily re-armed timer ends an attempt neither early nor late.
THEOREM ControlDeadlineIsExact == ControlSpec => []DeadlineIsExact
<1>1. ControlInv => DeadlineIsExact
  BY DEF ControlInv, Timed
<1> QED BY <1>1, ControlInvariant, PTL

\* An attempt ends with the MaxConsecutive-th retryable failure since the last write,
\* whatever was accepted, congested or cancelled in between.
THEOREM ControlRetryBudgetIsExact == ControlSpec => []RetryBudgetIsExact
<1>1. ControlInv => RetryBudgetIsExact
  BY DEF ControlInv, Budgeted
<1> QED BY <1>1, ControlInvariant, PTL
=============================================================================
