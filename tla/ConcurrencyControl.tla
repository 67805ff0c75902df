------------------------- MODULE ConcurrencyControl -------------------------
(***************************************************************************)
(* How a concurrent download adapts to failing runners, in time: the       *)
(* outcome sampler (strategy/runner_outcome_sampler.rs), the concurrency   *)
(* control (strategy/concurrency_control_strategy.rs), the failure policy  *)
(* with its deadline (strategy/failure_policy.rs, download_loop/           *)
(* deadline.rs) and the ids of the runners (id.rs).  DownloadLoop has the  *)
(* bytes and leaves these decisions open; here they are made, and of the   *)
(* runners only the outcomes are left.                                     *)
(*                                                                         *)
(* An Instant is kept as the time that has passed since, up to Horizon,    *)
(* beyond which no comparison tells times apart.                           *)
(***************************************************************************)
EXTENDS IdGenerator, Sequences, FiniteSets

CONSTANTS
  MinConcurrency, DegradationStep, RecoveryStep,   \* ConcurrencyControlConfig
  MinSamples, RecoveryDelay, ObservationPeriod, DetectionWindow,
  Rate, Per,         \* failure_rate_threshold, as Rate out of Per
  TimeWindow,        \* RunnerOutcomeSampler::time_window
  MaxRecords,        \* RunnerOutcomeSampler::max_records
  NoProgress,        \* TaskOptions::no_progress_timeout
  MaxConsecutive,    \* TaskOptions::max_consecutive_failures
  MaxFailures        \* bound of the number of failed runners

ASSUME ControlAssumption ==
  /\ {MinConcurrency, DegradationStep, RecoveryStep, MaxRecords, NoProgress, MaxConsecutive, Per}
       \subseteq Nat \ {0}
  /\ {MinSamples, RecoveryDelay, ObservationPeriod, DetectionWindow, Rate, TimeWindow, MaxFailures}
       \subseteq Nat
  /\ MinConcurrency <= Capacity /\ Rate <= Per

VARIABLES
  running,           \* the ids of the runners
  max_concurrency,   \* DownloadLoop::max_concurrency
  state,             \* ConcurrencyControlStrategy::state, with the age of its Instant
  first_execute,     \* ConcurrencyControlStrategy::first_execute
  records,           \* RunnerOutcomeSampler::records
  unretryable,       \* the age of last_unretryable_at, {} for None
  consecutive,       \* FailurePolicy::consecutive
  progress,          \* the age of last_progress_at
  timer,             \* how long until the deadline's timer fires
  failures,          \* the number of failed runners
  unwritten,         \* history: the failures of each kind since the last write
  ended              \* "no", or how the attempt ended

samplerVars == <<records, unretryable>>
strategyVars == <<max_concurrency, state, first_execute>>
policyVars == <<consecutive, progress, timer>>
vars == <<generatorVars, running, strategyVars, samplerVars, policyVars, failures, unwritten, ended>>

Horizon == TimeWindow + RecoveryDelay + ObservationPeriod + DetectionWindow + 1

Least(a, b) == IF a <= b THEN a ELSE b
Most(a, b) == IF a >= b THEN a ELSE b
Minus(a, b) == IF a >= b THEN a - b ELSE 0

\* How a runner may fail.  A stream that ends early counts as unretryable for the
\* sampler (is_retryable), and is tried again all the same (is_attempt_retryable).
FailureKinds == {"retryable", "short", "congestion", "fatal"}
SampledUnretryable(kind) == kind # "retryable"
IsAttemptRetryable(kind) == kind \in {"retryable", "short"}

NoFailures == [kind \in FailureKinds |-> 0]

Normal == [mode |-> "normal", target |-> Capacity, age |-> 0, failures |-> 0]
Degraded(target) == [mode |-> "degraded", target |-> target, age |-> 0, failures |-> 0]
Recovering(trial, f) == [mode |-> "recovering", target |-> trial, age |-> 0, failures |-> f]

ControlInit ==
  /\ GeneratorInit
  /\ running = {}
  /\ max_concurrency = Capacity /\ state = Normal /\ first_execute = TRUE
  /\ records = <<>> /\ unretryable = {}
  /\ consecutive = 0 /\ progress = 0 /\ timer = NoProgress
  /\ failures = 0 /\ unwritten = NoFailures /\ ended = "no"

-----------------------------------------------------------------------------
(* The sampler.                                                            *)

\* cleanup_expired: records are in order of their time.
Recent == SelectSeq(records, LAMBDA r : r.age <= TimeWindow)

\* record
Record(ok) ==
  LET all == Append(Recent, [ok |-> ok, age |-> 0])
  IN  records' = SubSeq(all, Minus(Len(all), MaxRecords) + 1, Len(all))

\* OutcomeStats
Total == Len(Recent)
TotalFailures == Len(SelectSeq(Recent, LAMBDA r : ~r.ok))

\* failure_rate against the threshold, and against half of it.
RateIsHigh == Total > 0 /\ TotalFailures * Per >= Rate * Total
RateIsLow == Total = 0 \/ TotalFailures * Per * 2 < Rate * Total

\* has_recent_unretryable
RecentUnretryable == \E age \in unretryable : age <= DetectionWindow

-----------------------------------------------------------------------------
(* What concurrency control makes of it: its next state.                   *)

\* Defect: with no runner active nothing may run.
DefectImmediate == Degraded(Cardinality(running))

\* handle_immediate_degradation: no more than what is active, but one.
Immediate == Degraded(Most(Most(Cardinality(running), MinConcurrency), 1))

\* handle_normal_state
FromNormal ==
  IF Total >= MinSamples /\ RateIsHigh /\ max_concurrency > MinConcurrency
  THEN Degraded(Most(Minus(max_concurrency, DegradationStep), MinConcurrency))
  ELSE state

\* Defect: after the delay the strategy is content with what it has.
DefectFromDegraded == IF state.age >= RecoveryDelay /\ RateIsLow THEN Normal ELSE state

\* handle_degraded_state
FromDegraded ==
  LET trial == Least(state.target + RecoveryStep, Capacity)
  IN  IF state.age < RecoveryDelay \/ ~RateIsLow THEN state
      ELSE IF trial > state.target THEN Recovering(trial, TotalFailures) ELSE Normal

\* recovery_failure_rate, of the samples that are taken as new.
RecoveryRateIsLow ==
  LET samples == Minus(Total, state.failures)
  IN  samples = 0 \/ Minus(TotalFailures, state.failures) * Per < Rate * samples

\* Defect: a trial that went well is not followed by the next one.
DefectFromRecovering ==
  IF RateIsHigh THEN Degraded(Most(Minus(state.target, DegradationStep), MinConcurrency)) ELSE state

\* handle_recovering_state
FromRecovering ==
  IF RateIsHigh
  THEN Degraded(Most(Minus(state.target, DegradationStep), MinConcurrency))
  ELSE IF state.age < ObservationPeriod THEN state
  ELSE IF ~RecoveryRateIsLow
  THEN Degraded(Most(Minus(state.target, RecoveryStep), MinConcurrency))
  ELSE IF state.target < Capacity
  THEN Recovering(Least(state.target + RecoveryStep, Capacity), TotalFailures)
  ELSE Normal

Decision ==
  CASE state.mode = "normal" -> FromNormal
    [] state.mode = "degraded" -> FromDegraded
    [] state.mode = "recovering" -> FromRecovering

\* A decision that is an action: the concurrency changes.
ChangesMaxConcurrency == Decision # state /\ Decision # Normal

-----------------------------------------------------------------------------
(* The strategy tick.                                                      *)

Ticks == ended = "no"

\* A runner is created for a free range.  The ranges, and with them how many
\* runners a tick creates, are DownloadLoop's; here the next tick goes on.  So are
\* the runners that keep their id after their chunk is finished.
CreateRunner ==
  \E id \in Ids : Next(id) /\ running' = running \union {id}

\* The first tick creates runners whatever the sampler has.
FirstTick ==
  /\ Ticks /\ first_execute
  /\ first_execute' = FALSE /\ CreateRunner
  /\ UNCHANGED <<max_concurrency, state, samplerVars, policyVars, failures, unwritten, ended>>

\* An unretryable failure is answered at once, and answered only once.
DegradeAtOnce ==
  /\ Ticks /\ ~first_execute /\ RecentUnretryable
  /\ unretryable' = {}
  /\ state' = Immediate /\ max_concurrency' = Immediate.target
  /\ UNCHANGED <<generatorVars, running, first_execute, records, policyVars, failures,
                 unwritten, ended>>

\* The failure rate changes the concurrency.
ChangeTick ==
  /\ Ticks /\ ~first_execute /\ ~RecentUnretryable /\ ChangesMaxConcurrency
  /\ records' = Recent
  /\ state' = Decision /\ max_concurrency' = Decision.target
  /\ UNCHANGED <<generatorVars, running, first_execute, unretryable, policyVars,
                 failures, unwritten, ended>>

\* It does not: the strategy may be back to normal, and a runner is created for a
\* free range or for the half of a chunk, if there is one.
CreateTick ==
  /\ Ticks /\ ~first_execute /\ ~RecentUnretryable /\ ~ChangesMaxConcurrency
  /\ records' = Recent
  /\ state' = Decision
  /\ \/ Cardinality(running) < max_concurrency /\ CreateRunner
     \/ UNCHANGED <<generatorVars, running>>
  /\ UNCHANGED <<max_concurrency, first_execute, unretryable, policyVars, failures,
                 unwritten, ended>>

-----------------------------------------------------------------------------
(* The outcomes of runners, the failure policy and the deadline.           *)

Stops(id) == ended = "no" /\ id \in running /\ ReleaseId(id) /\ running' = running \ {id}

\* A runner has completed its chunk (mark_runner_completed).
Completes(id) ==
  /\ Stops(id) /\ Record(TRUE)
  /\ UNCHANGED <<strategyVars, unretryable, policyVars, failures, unwritten, ended>>

\* A runner was cancelled: nothing is recorded.
Stopped(id) ==
  /\ Stops(id)
  /\ UNCHANGED <<strategyVars, samplerVars, policyVars, failures, unwritten, ended>>

\* A runner fails: the sampler records it, and FailurePolicy::on_failure decides
\* whether the attempt is over.
Fails(id) == \E kind \in FailureKinds :
  /\ failures < MaxFailures /\ failures' = failures + 1
  /\ Stops(id) /\ Record(FALSE)
  /\ unwritten' = [unwritten EXCEPT ![kind] = @ + 1]
  /\ unretryable' = IF SampledUnretryable(kind) THEN {0} ELSE unretryable
  /\ consecutive' = IF IsAttemptRetryable(kind) THEN consecutive + 1 ELSE consecutive
  /\ ended' = CASE IsAttemptRetryable(kind) ->
                     IF consecutive + 1 >= MaxConsecutive THEN "RetryLimitExceeded" ELSE "no"
                [] kind = "congestion" -> IF running \ {id} = {} THEN "Unretryable" ELSE "no"
                [] kind = "fatal" -> "Unretryable"
  /\ UNCHANGED <<strategyVars, progress, timer>>

\* Defect: bytes that were accepted count as written.
DefectAccepts ==
  /\ ended = "no" /\ running # {}
  /\ progress' = 0 /\ consecutive' = 0
  /\ UNCHANGED <<generatorVars, running, strategyVars, samplerVars, timer, failures,
                 unwritten, ended>>

\* Bytes are accepted: on_progress.
Accepts ==
  /\ ended = "no" /\ running # {}
  /\ progress' = 0
  /\ UNCHANGED <<generatorVars, running, strategyVars, samplerVars, consecutive, timer,
                 failures, unwritten, ended>>

\* A write has succeeded: on_write_ok.
Written ==
  /\ ended = "no" /\ consecutive' = 0 /\ unwritten' = NoFailures
  /\ UNCHANGED <<generatorVars, running, strategyVars, samplerVars, progress, timer,
                 failures, ended>>

\* Defect: the timer starts again from now.
DefectOnDeadline ==
  /\ ended = "no" /\ timer = 0
  /\ IF progress >= NoProgress
     THEN ended' = "NoProgress" /\ UNCHANGED timer
     ELSE timer' = NoProgress /\ UNCHANGED ended
  /\ UNCHANGED <<generatorVars, running, strategyVars, samplerVars, consecutive,
                 progress, failures, unwritten>>

\* The deadline's timer fires: the attempt ends, or progress has moved the
\* deadline meanwhile and the timer is set to it.
OnDeadline ==
  /\ ended = "no" /\ timer = 0
  /\ IF progress >= NoProgress
     THEN ended' = "NoProgress" /\ UNCHANGED timer
     ELSE timer' = NoProgress - progress /\ UNCHANGED ended
  /\ UNCHANGED <<generatorVars, running, strategyVars, samplerVars, consecutive,
                 progress, failures, unwritten>>

\* Time passes.  A timer that has fired is handled before.
Elapse ==
  /\ ended = "no" /\ timer > 0
  /\ state' = [state EXCEPT !.age = IF state.mode = "normal" THEN 0 ELSE Least(@ + 1, Horizon)]
  /\ records' = [i \in DOMAIN records |-> [records[i] EXCEPT !.age = Least(@ + 1, TimeWindow + 1)]]
  /\ unretryable' = {Least(age + 1, DetectionWindow + 1) : age \in unretryable}
  /\ progress' = Least(progress + 1, NoProgress)
  /\ timer' = timer - 1
  /\ UNCHANGED <<generatorVars, running, max_concurrency, first_execute, consecutive,
                 failures, unwritten, ended>>

-----------------------------------------------------------------------------
Tick == FirstTick \/ DegradeAtOnce \/ ChangeTick \/ CreateTick

ControlNext ==
  \/ Tick
  \/ \E id \in Ids : Completes(id) \/ Stopped(id) \/ Fails(id)
  \/ Accepts \/ Written
  \/ OnDeadline \/ Elapse

\* The strategy's timer comes round and time goes on.  Runners need not fail, but
\* a bounded number of them does.
ControlFairness == WF_vars(Tick) /\ WF_vars(OnDeadline) /\ WF_vars(Elapse)

ControlSpec == ControlInit /\ [][ControlNext]_vars /\ ControlFairness

-----------------------------------------------------------------------------
(* Properties.                                                             *)

\* The strategy and the loop agree on the concurrency, and the strategy is back
\* to normal only when everything was given back (handle_degraded_state and
\* handle_recovering_state leave with the initial concurrency restored).
StateIsInForce == max_concurrency = state.target

\* The concurrency in force is the strategy's and stays between one and what the
\* task began with, whatever degradations, trials and rollbacks follow each other:
\* the target of an immediate degradation comes from the active runners and may be
\* above the last (handle_immediate_degradation).
ConcurrencyIsBounded ==
  /\ StateIsInForce
  /\ max_concurrency \in Most(1, MinConcurrency) .. Capacity

\* The id generator's bits and its count are the runners there are; its search
\* finds an id whenever one is free, the count never says otherwise (next, release;
\* spawn_runner panics when it gets no id); and no free id lies before the hint,
\* however next and release follow each other, so that next hands out the lowest
\* free id and its search never has to come round.
IdsAreRunners ==
  /\ running = {id \in Ids : bits[id]}
  /\ allocated_count = Cardinality(running)
  /\ Cardinality(running) < Capacity <=> ~Exhausted
  /\ 0 .. next_free_hint - 1 \subseteq running

\* The deadline ends an attempt only after a whole period without progress, and
\* never later than that, though its timer is set again only when it fires.
DeadlineIsExact ==
  /\ ended = "NoProgress" => progress >= NoProgress
  /\ ended = "no" => timer <= NoProgress - progress

\* The retry budget (on_failure, on_write_ok): an attempt is over with the
\* MaxConsecutive-th failure that can be tried again and not before, counted since
\* the last write that stored something, not since bytes were last accepted.  A
\* congestion that was tolerated is not counted, and nothing else is survived.
RetryBudgetIsExact ==
  LET retried == unwritten["retryable"] + unwritten["short"]
  IN  /\ ended = "no" => retried < MaxConsecutive /\ unwritten["fatal"] = 0
      /\ ended = "RetryLimitExceeded" => retried = MaxConsecutive

\* Once runners have stopped failing, an attempt that goes on comes back to its
\* initial concurrency and stays there.
RecoversFully == <>[](max_concurrency = Capacity \/ ended # "no")
=============================================================================
