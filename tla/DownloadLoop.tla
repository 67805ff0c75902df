---------------------------- MODULE DownloadLoop ----------------------------
(***************************************************************************)
(* One attempt of a concurrent download (concurrent_task/download_loop.rs, *)
(* runner_manager.rs): the event loop that plans the file's chunks, spawns *)
(* and splits range runners, takes their events and frames, and hands the  *)
(* accepted bytes to the file writer.  It composes ChunkPlanner and        *)
(* TaskRunner.                                                             *)
(*                                                                         *)
(* The loop handles one event at a time; runners and writes run on other   *)
(* threads, so their steps come between any two steps of the loop, also    *)
(* between the actions of one strategy tick.  As in TaskRunner, the order  *)
(* in which the loop polls its sources does not disable the later ones,    *)
(* except within poll_lifecycle, where a rejected spawn is already there.  *)
(***************************************************************************)
EXTENDS ChunkPlanner, TaskRunner, SequencesExt

CONSTANTS
  WriterCapacity,  \* PendingWriter::capacity
  MaxConsecutive,  \* TaskOptions::max_consecutive_failures
  MaxFaults        \* the bound of the model: how many faults a behaviour has

\* User cancellation, the no-progress deadline, a rejected spawn, a failing
\* write, and the concurrency control's degradation and recovery.
LoopFaults == {"cancel", "deadline", "spawn", "write", "degrade"}

\* With at least two bytes in a chunk, split never produces an empty half.  Runner
\* ids are machine integers.
ASSUME LoopAssumption ==
  /\ IsFiniteSet(Runners)
  /\ MinChunkSize >= 2
  /\ WriterCapacity \in Nat \ {0}
  /\ MaxConsecutive \in Nat \ {0}
  /\ MaxFaults \in Nat
  /\ Faults \subseteq LoopFaults \cup RunnerFaults

VARIABLES
  loop,             \* where the loop is: see LoopPhases
  outcome,          \* the transfer result: "None" until the loop has ended
  todo,             \* the strategy actions still to apply in this tick
  ids,              \* the runner ids handed out by the id generator
  spawn_failures,   \* the runners whose spawn was rejected, oldest first
  streams,          \* the runners registered with the data aggregator
  first_execute,    \* ConcurrencyControlStrategy::first_execute
  stage,            \* DynamicStrategy::current_stage
  max_concurrency,  \* DownloadLoop::max_concurrency
  consecutive,      \* FailurePolicy::consecutive
  in_flight,        \* the writes the writer has dispatched
  pending_write,    \* PendingWriter::pending_write, as <<>> or <<write>>
  saw_error,        \* PendingWriter::saw_error
  file,             \* the offset of the byte stored at each place, or Hole
  faults            \* how many faults there were

managerVars == <<ids, spawn_failures, streams>>
strategyVars == <<todo, first_execute, stage, max_concurrency>>
writerVars == <<in_flight, pending_write, saw_error, file>>
vars == <<chunks, runner_to_chunk, accepted_bytes,
          run, data, lifecycle, mailbox, receiving, cancelled,
          loop, outcome, consecutive, ids, spawn_failures, streams,
          todo, first_execute, stage, max_concurrency,
          in_flight, pending_write, saw_error, file, faults>>

LoopPhases == {"select", "applying", "returned", "unwinding", "finishing", "done", "panicked"}

Hole == -1

LoopInit ==
  /\ PlannerInit
  /\ RunnerInit
  /\ loop = "select"
  /\ outcome = "None"
  /\ todo = <<>>
  /\ ids = {}
  /\ spawn_failures = <<>>
  /\ streams = {}
  /\ first_execute = TRUE
  /\ stage = "QuickStart"
  /\ max_concurrency = Cardinality(Runners)
  /\ consecutive = 0
  /\ in_flight = <<>>
  /\ pending_write = <<>>
  /\ saw_error = FALSE
  /\ file = [b \in 0..(Total - 1) |-> Hole]
  /\ faults = 0

-----------------------------------------------------------------------------
(* The outcome of an event. *)

Continue == UNCHANGED <<loop, outcome>>

\* run returns the transfer's result.
EndWith(result) == loop' = "returned" /\ outcome' = result

\* An expect fails: the task unwinds.
PanicWith(reason) == loop' = "unwinding" /\ outcome' = reason

-----------------------------------------------------------------------------
(* The strategy tick: which actions are applied. *)

CreateTask(g) == [kind |-> "CreateTask", start |-> g.start, end |-> g.end]

Split(s) == [kind |-> "Split", runner |-> chunks[s].runner,
             start |-> chunks[s].done, end |-> chunks[s].end]

\* The lists of all free ranges and of the chunks in S, by position in the file;
\* there is one of each.
RangesInOrder ==
  {q \in [1 .. Cardinality(AvailableRanges) -> AvailableRanges] :
      \A i, j \in DOMAIN q : i < j => q[i].start < q[j].start}

ChunksInOrder(S) ==
  {q \in [1 .. Cardinality(S) -> S] : \A i, j \in DOMAIN q : i < j => q[i] < q[j]}

FirstN(seq, n) == SubSeq(seq, 1, Smaller(n, Len(seq)))

CreateTasks(ranges) == [i \in DOMAIN ranges |-> CreateTask(ranges[i])]

Splits(starts) == [i \in DOMAIN starts |-> Split(starts[i])]

Active == Cardinality(ActiveChunks)

\* The loop goes on to apply the actions, or waits again when there are none.
Apply(actions) ==
  /\ actions # <<>>
  /\ todo' = actions
  /\ loop' = "applying"
  /\ UNCHANGED <<plannerVars, runnerVars, managerVars, writerVars, outcome, consecutive>>

Ticks == loop = "select"

\* The first tick creates the first runner, of the whole file.
FirstTick == \E ranges \in RangesInOrder :
  /\ Ticks /\ first_execute
  /\ first_execute' = FALSE
  /\ Apply(CreateTasks(FirstN(ranges, max_concurrency)))
  /\ UNCHANGED <<stage, max_concurrency>>

\* Concurrency control degrades or recovers, as its sampler and clock tell it.
DegradeTick == \E n \in 1..Cardinality(Runners) :
  /\ Ticks /\ ~first_execute /\ "degrade" \in Faults
  /\ n # max_concurrency
  /\ max_concurrency' = n
  /\ UNCHANGED <<plannerVars, runnerVars, managerVars, writerVars, outcome, consecutive,
                 todo, loop, first_execute, stage>>

\* Concurrency control creates runners for the free ranges.
CreateTick == \E ranges \in RangesInOrder :
  /\ Ticks /\ ~first_execute
  /\ Active < max_concurrency
  /\ Apply(CreateTasks(FirstN(ranges, max_concurrency - Active)))
  /\ UNCHANGED <<first_execute, stage, max_concurrency>>

\* With no free range the dynamic strategy may split, as the speeds tell it.
MaySplit ==
  /\ Ticks /\ ~first_execute
  /\ Active < max_concurrency
  /\ AvailableRanges = {}
  /\ ChunksToSplit # {}

SplitAllTick == \E planned_chunk_size \in 0..Total :
  /\ MaySplit /\ stage = "QuickStart"
  /\ Active * 2 < max_concurrency
  /\ \E starts \in ChunksInOrder(IncompleteStates(planned_chunk_size)) : Apply(Splits(starts))
  /\ UNCHANGED <<first_execute, stage, max_concurrency>>

SplitGivenTick ==
  /\ MaySplit
  /\ Active + 1 < max_concurrency
  /\ \E starts \in ChunksInOrder(ChunksToSplit) : Apply(Splits(starts))
  /\ stage' = "Normal"
  /\ UNCHANGED <<first_execute, max_concurrency>>

\* Neither condition holds and the strategy leaves its first stage.
LeaveQuickStart ==
  /\ MaySplit /\ stage = "QuickStart"
  /\ stage' = "Normal"
  /\ UNCHANGED <<plannerVars, runnerVars, managerVars, writerVars, outcome, consecutive,
                 todo, loop, first_execute, max_concurrency>>

-----------------------------------------------------------------------------
(* Applying the actions of a tick, one step each. *)

NextAction == Head(todo)

\* The loop waits for events again after the last action.
Then(rest) ==
  /\ todo' = rest
  /\ loop' = IF rest = <<>> THEN "select" ELSE "applying"
  /\ UNCHANGED outcome

\* Defect: the runner is told the length of the half, not its limit.
ResizedToHalf(r, half) ==
  /\ ShrinksTo(r, half)
  /\ ResizeRunnerState(r, half)
  /\ SendLimit(r, half)

\* resize_runner
Resized(r, half) ==
  /\ ShrinksTo(r, half)
  /\ ResizeRunnerState(r, half)
  /\ SendLimit(r, LimitAfter(r, half))

\* resize_runner fails, with the planner rolled back, when the runner no longer
\* receives limits; a runner that is about to exit may or may not.  Half of a
\* range is never all of it, so the resize is never `Unchanged`.
Refused(r, half) ==
  /\ Exited(r) \/ ~ShrinksTo(r, half)
  /\ UNCHANGED <<plannerVars, runnerVars>>

\* The first half of split: the runner's chunk shrinks and its limit is sent.
ApplySplit ==
  /\ loop = "applying" /\ NextAction.kind = "Split"
  /\ LET half == (NextAction.end - NextAction.start) \div 2
         rest == [kind |-> "CreateTask", start |-> NextAction.start + half, end |-> NextAction.end]
         r == NextAction.runner
     IN  \/ Resized(r, half) /\ Then(<<rest>> \o Tail(todo))
         \/ Refused(r, half) /\ Then(Tail(todo))
  /\ UNCHANGED <<managerVars, writerVars, consecutive, first_execute, stage, max_concurrency>>

\* allocate_runner and allocate_pending_chunk, for the action's range.
Allocated(r) ==
  /\ AllocatePending(NextAction.start, NextAction.end, r)
  /\ ids' = ids \cup {r}
  /\ UNCHANGED <<streams, writerVars, consecutive, first_execute, stage, max_concurrency>>

Creates == loop = "applying" /\ NextAction.kind = "CreateTask"

CanSpawn == Runners \ ids # {} /\ CanAllocate(NextAction.start, NextAction.end)

\* IdGenerator::next.  Ids are interchangeable: which free one it is does not
\* matter (IdGenerator has the search itself).
FreeId == CHOOSE r \in Runners \ ids : TRUE

\* spawn_runner, for a free range or for the second half of a split.
ApplyCreate ==
  /\ Creates /\ CanSpawn
  /\ Allocated(FreeId)
  /\ Spawn(FreeId, NextAction.start, NextAction.end)
  /\ Then(Tail(todo))
  /\ UNCHANGED spawn_failures

\* The runtime rejects the spawn.
ApplyCreateRejected ==
  /\ Creates /\ CanSpawn /\ "spawn" \in Faults
  /\ Allocated(FreeId)
  /\ spawn_failures' = Append(spawn_failures, FreeId)
  /\ Then(Tail(todo))
  /\ UNCHANGED runnerVars

\* spawn_runner_with_chunk returns None and spawn_runner's expect fails.
ApplyCreatePanics ==
  /\ Creates /\ ~CanSpawn
  /\ PanicWith(IF Runners \ ids = {} THEN "NoRunnerId" ELSE "NoChunk")
  /\ todo' = <<>>
  /\ UNCHANGED <<plannerVars, runnerVars, managerVars, writerVars, consecutive,
                 first_execute, stage, max_concurrency>>

-----------------------------------------------------------------------------
(* The writer. *)

IsFull == Len(in_flight) >= WriterCapacity

CanWrite == ~IsFull \/ pending_write = <<>>

\* write_range
WriteRange(w) ==
  /\ IF IsFull THEN pending_write' = <<w>> /\ UNCHANGED in_flight
               ELSE in_flight' = Append(in_flight, w) /\ UNCHANGED pending_write
  /\ UNCHANGED <<saw_error, file>>

\* settle, after the i-th write: its slot is free for the pending write, unless
\* a write has failed.
Settle(i, failed) ==
  LET left == RemoveAt(in_flight, i)
  IN  /\ saw_error' = (saw_error \/ failed)
      /\ IF saw_error' THEN in_flight' = left /\ UNCHANGED pending_write
                       ELSE in_flight' = left \o pending_write /\ pending_write' = <<>>

WriterPolled == loop \in {"select", "finishing"}

\* A write lands in the file and the loop, or flush, takes its completion.
WriteCompletes == \E i \in 1..Len(in_flight) :
  LET w == in_flight[i]
  IN  /\ WriterPolled
      /\ file' = [b \in 0..(Total - 1) |->
                    IF w.start <= b /\ b < w.start + Len(w.bytes)
                    THEN w.bytes[b - w.start + 1] ELSE file[b]]
      /\ Settle(i, FALSE)
      /\ consecutive' = IF loop = "select" /\ w.bytes # <<>> THEN 0 ELSE consecutive
      /\ Continue
      /\ UNCHANGED <<plannerVars, runnerVars, managerVars, strategyVars>>

\* Defect: an error during the flush is forgotten.
FlushErrorForgotten == \E i \in 1..Len(in_flight) :
  /\ WriterPolled /\ "write" \in Faults
  /\ Settle(i, TRUE)
  /\ IF loop = "select" THEN EndWith("WriteFailed") ELSE UNCHANGED <<loop, outcome>>
  /\ UNCHANGED <<plannerVars, runnerVars, managerVars, strategyVars, consecutive, file>>

\* The first error of the transfer takes precedence over one of the flush.
WriteFails == \E i \in 1..Len(in_flight) :
  /\ WriterPolled /\ "write" \in Faults
  /\ Settle(i, TRUE)
  /\ IF loop = "select" THEN EndWith("WriteFailed")
     ELSE /\ outcome' = IF outcome = "Finished" THEN "WriteFailed" ELSE outcome
          /\ UNCHANGED loop
  /\ UNCHANGED <<plannerVars, runnerVars, managerVars, strategyVars, consecutive, file>>

-----------------------------------------------------------------------------
(* The runners' events. *)

\* A rejected spawn is reported before any other event of a runner.
PollsRunners == loop = "select" /\ spawn_failures = <<>>

HasEvent(r) == receiving[r] /\ lifecycle[r] # <<>>

IsConnecting(r) == RunnerChunk(r).status = "Pending"

IsAttemptRetryable(e) == e \in {"Retryable", "Timeout", "SmallerThanTotalSize", "ChannelClosed"}

\* Defect: the id is never given back.
ReleaseKeepsId(r) == Release(r) /\ streams' = streams \ {r} /\ UNCHANGED ids

\* release_runner
ReleaseRunner(r) ==
  /\ Release(r)
  /\ ids' = ids \ {r}
  /\ streams' = streams \ {r}

\* range_unsupported and FailurePolicy::on_failure, with r released.
OnFailure(r, e) ==
  CASE e = "RangeUnsupported" -> EndWith(e) /\ UNCHANGED consecutive
    [] e = "Congestion" /\ ids \ {r} # {} -> Continue /\ UNCHANGED consecutive
    [] IsAttemptRetryable(e) ->
         /\ consecutive' = consecutive + 1
         /\ IF consecutive + 1 >= MaxConsecutive THEN EndWith("RetryLimitExceeded") ELSE Continue
    [] OTHER -> EndWith(e) /\ UNCHANGED consecutive

HandleStarted(r) ==
  /\ PollsRunners /\ HasEvent(r) /\ Head(lifecycle[r]) = "Started"
  /\ TakeEvent(r)
  /\ MarkRunning(r)
  /\ streams' = streams \cup {r}
  /\ Continue
  /\ UNCHANGED <<ids, spawn_failures, strategyVars, writerVars, consecutive>>

\* Defect: a stream that ended early counts as success.
ShortIsFinished(r) ==
  /\ PollsRunners /\ HasEvent(r) /\ ~IsConnecting(r)
  /\ Head(lifecycle[r]) \in {"Finished", "ExceededTotalSize", "SmallerThanTotalSize"}
  /\ ReleaseRunner(r)
  /\ MarkFinished(r)
  /\ IF IsComplete' THEN EndWith("Finished") ELSE Continue
  /\ UNCHANGED <<spawn_failures, strategyVars, writerVars, consecutive>>

\* A runner that stopped before it connected never counts as finished.
HandleFinished(r) ==
  /\ PollsRunners /\ HasEvent(r) /\ ~IsConnecting(r)
  /\ Head(lifecycle[r]) \in {"Finished", "ExceededTotalSize"}
  /\ ReleaseRunner(r)
  /\ MarkFinished(r)
  /\ IF IsComplete' THEN EndWith("Finished") ELSE Continue
  /\ UNCHANGED <<spawn_failures, strategyVars, writerVars, consecutive>>

\* Success before `Started` counts as a closed channel.
HandleFailed(r) ==
  LET e == Head(lifecycle[r])
      error == IF e = "Finished" THEN "ChannelClosed" ELSE e
  IN  /\ PollsRunners /\ HasEvent(r) /\ e # "Started"
      /\ IsConnecting(r) \/ e \notin {"Finished", "ExceededTotalSize"}
      /\ ReleaseRunner(r)
      /\ MarkFailed(r)
      /\ IF e = "Cancelled" THEN Continue /\ UNCHANGED consecutive ELSE OnFailure(r, error)
      /\ UNCHANGED <<spawn_failures, strategyVars, writerVars>>

\* handle_runner_lost: the events end without `Stopped`.
HandleLost(r) ==
  /\ PollsRunners /\ receiving[r] /\ run[r].phase = "lost" /\ lifecycle[r] = <<>>
  /\ ReleaseRunner(r)
  /\ MarkFailed(r)
  /\ IF IsComplete' THEN EndWith("Finished") /\ UNCHANGED consecutive
                    ELSE OnFailure(r, "ChannelClosed")
  /\ UNCHANGED <<spawn_failures, strategyVars, writerVars>>

HandleSpawnFailed ==
  /\ loop = "select" /\ spawn_failures # <<>>
  /\ LET r == Head(spawn_failures)
     IN  ReleaseRunner(r) /\ MarkFailed(r) /\ OnFailure(r, "Other")
  /\ spawn_failures' = Tail(spawn_failures)
  /\ UNCHANGED <<strategyVars, writerVars>>

\* handle_data_frame and accept_chunk: the planner clips the frame, the rest is
\* handed to the writer.
HandleData(r) ==
  /\ PollsRunners /\ r \in streams /\ data[r] # <<>> /\ CanWrite
  /\ TakeFrame(r)
  /\ LET frame == Head(data[r])
     IN  /\ UpdateProgress(r, Len(frame))
         /\ WriteRange([start |-> RunnerChunk(r).done,
                        bytes |-> SubSeq(frame, 1, AcceptedLength(r, Len(frame)))])
  /\ Continue
  /\ UNCHANGED <<managerVars, strategyVars, consecutive>>

\* A runner that exited has closed its data channel.
DataClosed(r) ==
  /\ PollsRunners /\ r \in streams /\ data[r] = <<>> /\ Exited(r)
  /\ streams' = streams \ {r}
  /\ Continue
  /\ UNCHANGED <<plannerVars, runnerVars, ids, spawn_failures, strategyVars, writerVars, consecutive>>

-----------------------------------------------------------------------------
(* Cancellation, the deadline and the end of the attempt. *)

NothingElse == UNCHANGED <<plannerVars, managerVars, strategyVars, writerVars, consecutive>>

\* The user cancels the task; the runners' token is a child of the task's.
UserCancels ==
  /\ "cancel" \in Faults /\ ~cancelled /\ loop \in {"select", "applying"}
  /\ cancelled' = TRUE
  /\ UNCHANGED <<run, data, lifecycle, mailbox, receiving>>
  /\ Continue /\ NothingElse

Cancelled ==
  /\ loop = "select" /\ cancelled
  /\ EndWith("Cancelled")
  /\ UNCHANGED runnerVars /\ NothingElse

\* on_deadline, when no byte was accepted for the whole timeout.
Deadline ==
  /\ loop = "select" /\ "deadline" \in Faults
  /\ EndWith("NoProgress")
  /\ UNCHANGED runnerVars /\ NothingElse

\* finish cancels the runners and drops the manager; so does unwinding.
Finish ==
  /\ loop \in {"returned", "unwinding"}
  /\ DropReceivers
  /\ loop' = IF loop = "returned" THEN "finishing" ELSE "panicked"
  /\ UNCHANGED outcome /\ NothingElse

\* The wait group is empty and flush has taken every completion.
Joined ==
  /\ loop = "finishing"
  /\ \A r \in Runners : Exited(r)
  /\ in_flight = <<>>
  /\ loop' = "done"
  /\ UNCHANGED <<runnerVars, outcome>> /\ NothingElse

Ended ==
  /\ loop \in {"done", "panicked"}
  /\ UNCHANGED vars

\* What the loop takes from a runner.
Handles(r) == HandleStarted(r) \/ HandleFinished(r) \/ HandleFailed(r)
              \/ HandleLost(r) \/ HandleData(r) \/ DataClosed(r)

LoopStep ==
  \/ FirstTick \/ CreateTick \/ SplitAllTick \/ SplitGivenTick \/ LeaveQuickStart
  \/ ApplySplit \/ ApplyCreate \/ ApplyCreatePanics
  \/ WriteCompletes
  \/ \E r \in Runners : Handles(r)
  \/ HandleSpawnFailed
  \/ Cancelled \/ Deadline \/ Finish \/ Joined

LoopFault == DegradeTick \/ ApplyCreateRejected \/ WriteFails \/ UserCancels

RunnerWorks(r) == RunnerWork(r) /\ UNCHANGED <<loop, outcome>> /\ NothingElse

RunnerFails(r) == RunnerFault(r) /\ UNCHANGED <<loop, outcome>> /\ NothingElse

LoopNext ==
  \/ LoopStep /\ UNCHANGED faults
  \/ \E r \in Runners : RunnerWorks(r) /\ UNCHANGED faults
  \/ /\ faults < MaxFaults /\ faults' = faults + 1
     /\ LoopFault \/ \E r \in Runners : RunnerFails(r)
  \/ Ended

LoopSpec == LoopInit /\ [][LoopNext]_vars

\* The runtime polls every task that is ready.  The strategy timer comes round
\* and the actions of a tick are applied without waiting; cancellation is polled
\* first, and between two ticks every other source is polled, hence the strong
\* fairness of what a tick interrupts.  Nothing makes the strategy split.
LoopFairness ==
  /\ WF_vars((FirstTick \/ CreateTick \/ ApplySplit \/ ApplyCreate \/ ApplyCreatePanics
              \/ HandleSpawnFailed \/ Finish \/ Joined) /\ UNCHANGED faults)
  /\ SF_vars(Cancelled /\ UNCHANGED faults)
  /\ SF_vars(WriteCompletes /\ UNCHANGED faults)
  /\ \A r \in Runners : SF_vars(Handles(r) /\ UNCHANGED faults)
  /\ \A r \in Runners : WF_vars(RunnerWorks(r) /\ UNCHANGED faults)

FairLoopSpec == LoopSpec /\ LoopFairness

-----------------------------------------------------------------------------
(* Properties. *)

\* Type invariant of the loop, the manager and the writer.
LoopTypeOK ==
  /\ loop \in LoopPhases
  /\ ids \subseteq Runners /\ streams \subseteq ids
  /\ max_concurrency \in 1..Cardinality(Runners)
  /\ consecutive \in 0..MaxConsecutive
  /\ Len(in_flight) <= WriterCapacity
  /\ Len(pending_write) <= 1
  /\ file \in [0..(Total - 1) -> {Hole} \cup 0..(Total - 1)]

\* The manager is alive.
Managing == loop \in {"select", "applying", "returned", "unwinding"}

\* The manager's tables agree: a runner id is taken exactly while the planner
\* has a chunk for it and either its receivers are registered or its rejected
\* spawn is queued.  Every `expect` of handle_lifecycle, handle_data_frame and
\* mark_runner_completed relies on it, and so does the reuse of ids.
TablesAgree == Managing =>
  \A r \in Runners :
    /\ r \in ids <=> HasRunner(r)
    /\ r \in ids <=> (receiving[r] \/ \E i \in DOMAIN spawn_failures : spawn_failures[i] = r)
    /\ ~(r \in ids) => run[r] = NoRun

\* The limit a runner works to, or has yet to read, is the length of its chunk in
\* the planner, however many splits came since it last read one: otherwise a
\* split would leave bytes to nobody, or to two runners (resize_runner, the slot
\* that keeps the latest limit, apply_control).
LimitIsChunk == Managing =>
  \A r \in Runners : receiving[r] /\ run[r].phase \in {"connecting", "streaming"} =>
    LET latest == IF mailbox[r] = {} THEN {run[r].total} ELSE mailbox[r]
    IN  latest = {RunnerChunk(r).end - runner_to_chunk[r]}

\* The writes that have landed in the file or are on their way to it.
Outstanding == in_flight \o pending_write

WriteRangeOf(w) == w.start .. w.start + Len(w.bytes) - 1

\* Every byte is written at the place it was read from, and no byte is written
\* twice, although ranges are split while frames beyond the split are on their
\* way and failed ranges are requested again.
BytesInPlace ==
  /\ \A b \in 0..(Total - 1) : file[b] \in {Hole, b}
  /\ \A i \in DOMAIN Outstanding : LET w == Outstanding[i] IN
       /\ \A b \in WriteRangeOf(w) : w.bytes[b - w.start + 1] = b /\ file[b] = Hole
       /\ \A j \in DOMAIN Outstanding : i # j =>
            WriteRangeOf(w) \cap WriteRangeOf(Outstanding[j]) = {}

\* The loop reports success only for a whole file: a task that reports
\* completion never leaves a file with a hole or a misplaced byte.
SuccessIsWholeFile ==
  loop = "done" /\ outcome = "Finished" => \A b \in 0..(Total - 1) : file[b] = b

\* n bytes of the file from a position on.
Bytes(start, n) == [i \in 1 .. n |-> start + i - 1]

\* The position that the i-th frame on its way from a runner goes on from: where
\* the chunk stands, or where the frame before it ends.
Position(r, i) ==
  IF i = 1 THEN RunnerChunk(r).done ELSE data[r][i - 1][Len(data[r][i - 1])] + 1

\* The bytes on their way from a runner go on where its chunk stands, none lost,
\* repeated or reordered by buffering, pushing and the limits that fall meanwhile
\* (buffer_item, flush, poll_push, update_progress).  Once a chunk that was shrunk
\* is full, what is still on its way is beyond it.
FramesInOrder == Managing =>
  \A r \in Runners : receiving[r] /\ RunnerChunk(r).done < RunnerChunk(r).end =>
    LET pushed == Position(r, Len(data[r]) + 1)
        staged == run[r].staged
        buffer == run[r].buffer
    IN  /\ \A i \in DOMAIN data[r] : data[r][i] = Bytes(Position(r, i), Len(data[r][i]))
        /\ staged = Bytes(pushed, Len(staged))
        /\ buffer = Bytes(pushed + Len(staged), Len(buffer))

\* A runner that reports success has delivered its chunk up to the limit in
\* force, and the manager has already taken it: mark_finished trusts this without
\* a check, whatever limit crossed the report on its way, and counts
\* ExceededTotalSize as success as well.
SuccessIsDelivered == Managing =>
  \A r \in Runners : receiving[r] =>
    \A i \in DOMAIN lifecycle[r] : lifecycle[r][i] \in {"Finished", "ExceededTotalSize"} =>
      RunnerChunk(r).done = RunnerChunk(r).end

\* A download ends, whatever fails, is cancelled or is written late: no order of
\* limits, frames, writes and events leaves the loop, a runner or a write waiting
\* for ever.  The one exception is that of CompletionIsNoticed, which only the
\* no-progress deadline ends.
DownloadEnds == <>(loop = "done" \/ (loop = "select" /\ IsComplete /\ ids = {}))

\* The loop never waits for runners when the file is complete and none is left:
\* nothing would end the attempt but the no-progress deadline.
CompletionIsNoticed == ~(loop = "select" /\ IsComplete /\ ids = {})

\* spawn_runner_with_chunk finds a free runner id whenever the strategy asks for
\* a runner, so that spawn_runner's expect never fails.
NeverOutOfIds == outcome # "NoRunnerId"
=============================================================================
