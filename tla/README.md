# bolt-load: a TLA+ verification project

bolt-load is a download library in Rust. It fetches a file over several
connections at once: the file is cut into byte ranges, each range is read by a
*runner*, ranges are split while they are being downloaded, failed ranges are
requested again, and the bytes are written to their places in the file by a
pool of writers. Around that transfer a task is initialized, falls back to one
connection when ranges are unusable, commits or removes its file and reports
its status. This project models the concurrent download from the HTTP answer to
the synced file, the single-connection download, the channels between threads
and the lifecycle of a task, checks them with TLC on small instances and proves what holds for
every size with TLAPS. Paths below are under `src/crates/`; `CT` stands for
`bolt-load/src/task/instance/concurrent_task`.

## 1. The system

| Component | Source | State | Operations | What makes it correct |
|---|---|---|---|---|
| Chunk planner | `CT/chunk_planner.rs` | chunks by start offset, runner → chunk, accepted bytes | allocate, update progress, mark running / finished / failed, split, resize; queries for gaps, chunks to split, completion | ranges never overlap, no accepted byte is dropped or counted twice, complete means every byte |
| Range runner | `bolt-load/src/runner/` | phase, buffer, item, frame in emission, bytes delivered, limit | connect, read, buffer, emit, apply limit, drain, publish `Started` / `Stopped`, time out | bytes arrive in order, success only after delivery, it always exits |
| Runner manager | `CT/runner_manager.rs`, `runner_manager/` | ids, limit mailboxes, lifecycle and data streams, rejected spawns | spawn, resize, poll events and data, release | its tables agree; an id that is used again brings nothing of its last holder |
| Download loop | `CT/download_loop.rs`, `download_loop/` | transfer result, timers, the parts above | one handler per event, `finish` | success means the whole file is on disk; every attempt ends |
| Strategies | `CT/strategy/`, `task/instance/id.rs` | stage, concurrency and its mode, failure counter, windows of outcomes, ids | tick, on_failure, on_progress, on_deadline | concurrency within its bounds and back after failures; an exact deadline and an exact retry budget |
| Pending writer | `CT/file_writer/pending_writer.rs` | writes in flight, one pending write, error flag | write_range, poll, settle, flush | each accepted write is dispatched once and accounted for |
| File writers | `CT/file_writer.rs`, `file_writer/` | command queue, workers, completion guards, the file | open, write, answer, finalize, join, sync | every write is reported once, success means the bytes are on disk, no worker stays behind |
| Limit slot | `bolt-load-sync/src/slot.rs`, `atomic_waker.rs` | value, closed, waker and its owner | send, drop, poll_recv | no lost wake-up, the last value before the close |
| Status channel | `bolt-load-sync/src/watch.rs` | version and closed bit, value behind a lock, listeners | send_replace, changed, wait_for, the stream, subscribe, clone, drop | no lost update, the last value before `Closed` |
| Task lifecycle | `task/instance/drive.rs`, `output_file.rs`, `task/status.rs`, `task/handle.rs` | status, cancellation token, temporary file | initialize, choose a mode, fall back, commit, discard, cancel, detach | one terminal status, published last; `Cancelled` only if nothing was committed |
| Single-connection mode | `task/instance/singleton_task.rs` | one runner driven in place, perhaps of unknown size; the file | create the file, write frames, finish | complete only after data and `Finished`; the file is the body |
| HTTP adapters and helpers | `bolt-load-adapter/src/`, `bolt-load-http/src/`, `bolt-load-core/src/adapter*` | cached metadata, the body of a range | probe, HEAD, range and full requests; checks of status, `Content-Range`, `Content-Encoding`, length | what is written is one version of the resource |

The other parts (metadata and destination, runtimes, the throughput sampler, the
id generator, utilities) are listed with the components in `PROJECT.json`.

**How they interact.** The download loop owns the planner, the manager and the
writer and handles one event at a time. Runners run on other threads and speak
to the loop over three channels each: lifecycle events, data frames (bounded),
and the limit slot in the other direction, which keeps only the latest limit.
Writes complete in any order. A cancellation token is shared by all. Events and
frames of one runner travel separately and events are polled first, so the
protocol between runner and manager has to keep success behind the data: a
runner *drains*, i.e. waits until its frames were taken, before it reports
success.

**What is hard.** A chunk is shrunk while its runner has bytes beyond the new
end in its buffer, in emission or in the channel, and the other half goes to a
new runner at the same moment. A limit may cross the runner's report of
success. Runners fail, time out, are dropped by the runtime or are never
spawned, at any point; ids are reused at once. The loop may end while runners
push and writes are in flight. A task may be cancelled, dropped or panic at any
moment, the rename of the finished file and a fallback included, and its one
terminal status must tell what became of the files. Whoever reads that status
checks, listens and checks again while it is replaced. A write may be short,
fail, panic or lose its task and must be reported all the same; the queue to
the workers may be full when the file is finalized. A server may answer a range
with anything. The hazards are listed, each at its line, in `PROJECT.json`.

## 2. The modules

| Module | Models | Uses |
|---|---|---|
| `RunnerIds` | the set of runner ids | |
| `ChunkPlanner` | `chunk_planner.rs` | `RunnerIds` |
| `TaskRunner` | the run loop of the runners, their channels | `RunnerIds` |
| `DownloadLoop` | the loop, the manager, what the strategies may decide, the writer as the loop sees it | `ChunkPlanner`, `TaskRunner` |
| `SingletonTask` | `singleton_task.rs`, driving the runner of `TaskRunner` | `TaskRunner` |
| `IdGenerator` | `id.rs` | |
| `ConcurrencyControl` | the strategies, the outcome sampler, the failure policy and the deadline, against a clock | `IdGenerator` |
| `FileWriters` | the pending writer, the command queue and the four backends | |
| `Mailbox` | what a limit mailbox promises, as an abstract specification | |
| `LimitSlot` | `slot.rs` and `atomic_waker.rs`, one atomic operation per step | `Mailbox` (refinement) |
| `StatusRegister` | what the status channel promises, as an abstract specification | |
| `Watch` | `watch.rs`, one operation on the state word, the lock or the event per step | `StatusRegister` (refinement) |
| `TaskLifecycle` | `drive.rs`, `output_file.rs`, `status.rs`, `handle.rs` | |
| `HttpResponse` | the decisions of `bolt-load-http` about an answer, as operators | |
| `HttpAdapter` | both adapters between a server and a task | `HttpResponse` |
| `ChunkPlannerProofs`, `DownloadLoopProofs`, `SingletonTaskProofs`, `FileWritersProofs`, `HttpAdapterProofs`, `LimitSlotProofs`, `ConcurrencyControlProofs` | theorems about the modules they are named after | `DownloadLoopProofs` uses the theorems about the planner |
| `TaskStatusProofs` | theorems about `Watch` and `TaskLifecycle`: the status, from the attempt that publishes it to the caller | |
| `MC*` | instances for TLC | |

Definitions carry the names of the methods they model; `PROJECT.json` maps each
to its lines. Definitions marked *Defect* are plausible mistakes in the
definition that follows; no specification uses them, and each shows that some
property would notice.

**ChunkPlanner.** `chunks` is the `BTreeMap`, keyed by the start of the range;
a chunk keeps the end of the allocated range (`end`) and of the downloaded one
(`done`), both of which start at the key. An operator such as `MarkFailed` is
what the method does whoever calls it. `PlannerNext` adds what the callers
promise: an id is handed out again only after it was released, `Started` comes
once and first, a runner finishes only when its chunk was accepted.
`MaxChunkCount` is the optional `max_chunk_count`; the library leaves it unset,
which a bound above the number of bytes stands for.

**TaskRunner.** `run[r]` is the state of the runner's loop. Bytes are their
offsets in the file, so an item is a sequence of consecutive offsets and a
misplaced byte is visible. The code polls its sources in a fixed priority; as
a source becomes ready at any time, a lower one may always be served first,
and the model lets every enabled source go next. `Faults` names what the
environment may do.

**DownloadLoop.** Every handler is an action. The actions of a strategy tick
are applied one step at a time, because runners move between them. What the
strategies decide from speeds, clocks and windows is a choice among the
decisions their guards allow. `file` holds, for every place, the offset of the
byte stored there. `MaxFaults` bounds the faults of a behaviour, and `vars`
includes the count.

**LimitSlot.** Sender and receiver each have a program counter, a step is one
atomic operation or one access to the waker's cell. The steps are sequentially
consistent; the code's weaker orderings are left to the loom tests of the
crate. `scheduled` is the executor's note that the task is going to be polled.

**Watch.** `version` is the state word in steps of one, `value` the number of the
publication it holds; a publisher takes the lock, advances the version,
replaces the value and notifies, as four steps, and a receiver reads version and
value under the lock. `changed`, `changed_blocking`, `wait_for` and the stream
share the steps *look, listen, look again, wait*. The event of `event_listener`
is external: it notifies those who listen when it is called. A receiver that
was told `Closed` is not used again.

**FileWriters.** One owner opens the file, starts the workers of the backend,
asks for `Count` writes, flushes and finalizes. A write is dispatched straight to
the queue or through a task of its own (`direct`), and its completion guard
travels with the task or the command. A write has `Parts` parts, so a short
write differs from a whole one, and what is in the file (`written`) differs from
what was synced (`synced`). Each backend keeps its own way to answer and to
finalize: the pool's workers share one queue and the owner syncs, the mapping
is flushed by its thread, the compio thread awaits its spawned writes, the null
writer keeps nothing.

**SingletonTask.** The runner of `TaskRunner` with one member and no limits, driven
by the loop itself: while the loop creates or writes the file the runner is not
polled. Bodies are shorter than, as long as, or longer than the total, and the
total may be unknown.

**ConcurrencyControl.** An `Instant` is kept as the time since, up to a horizon
beyond which no comparison tells times apart; `Elapse` advances all of them. A
runner is its id and an outcome. Ticks make the decisions that `DownloadLoop`
leaves open. The failure rate is compared as integers. The history variable
`unwritten` has the failures of each kind since the last write, against which
`RetryBudgetIsExact` holds the counter of the failure policy. `IdGenerator` has the
search of `next` round by round; `IdsAreRunners` shows that it never comes round,
because no free id ever lies before the hint.

**HttpAdapter.** The server's habits are chosen at the start (ranges or none, a
total or `*`, codings, what HEAD answers), the resource may be replaced once at
any time, and any request may fail or be cut. A byte is the version of the
resource and an offset, so that mixed or misplaced bytes are visible; a decoded
body yields *junk*. `HttpResponse` has the checks as operators of an answer.

**TaskLifecycle.** `pc` is where the attempt's thread is: one phase per point of
`run`, `drive` and `commit` between which another actor can act. `status` is the
newest value of the watch channel and is written only through `Publish` and
`Finish`, which model `Shared::publish` and `finish` with their `terminal` flag.
`tmp` and `dest` are the two files; a `stale` temporary file is one that an
earlier process left. The owner of the handle may cancel, stop, detach, drop or
join at any moment; a cancelled parent token is a cancelled token. The transfer
is reduced to the moments at which its file is opened, bytes arrive and it ends;
that it succeeds only with every byte is what `DownloadLoop` shows of the
concurrent mode. The adapter may panic wherever the attempt calls it, the
runtime when it is built or shut down; destructors do not panic (one that does
between the rename and the terminal status would fail a task whose file is in
place). One task per destination: two of them share a temporary file, which
`bolt-load/docs/task-api-spec.md`, section 11, leaves open.

## 3. The runs

| Run | Bounds | What it shows |
|---|---|---|
| `download` | 4 bytes, 3 runners, items of 2, one runner that fails, ends short or is lost | splits with frames on their way, retry and reuse of ids together, down to the bytes on disk; the loop implements `PlannerSpec`: it keeps the promises on which the planner's proofs rest |
| `download_ends` | 2 bytes, one fault of any of eleven kinds | no success with a hole, whatever fails up to the last step of the flush; liveness: every download ends |
| `slot` | 3 values, any number of sends and polls | the atomic operations of the slot, its refinement of `Mailbox` and its liveness |
| `watch` | 2 publishers, 2 receivers, 2 publications | the channel under every interleaving, its refinement of `StatusRegister` and its liveness |
| `writer` | 3 writes of 2 parts, capacity 2, a queue of 1, 2 workers, one fault | every backend and way of dispatch; `FinishEnds` is liveness |
| `singleton` | bodies of 0, 3, 5, 6 and 8 bytes, buffer 2, items of 0 to 3 bytes, totals from `MCSingletonTask` | success means the file is the body, and the task ends |
| `strategy` | 3 ids, windows and delays of one tick, 2 failures | bounds, agreement of strategy and loop, ids and their hint, the deadline, the retry budget; `RecoversFully` is liveness |
| `http` | a resource of 3 bytes and a replacement of 4, one retry, two failing requests | both adapters against every server of the model; `TransferEnds` is liveness |
| `task` | a resource of 2 bytes; every mode, failure, panic and fallback | the whole lifecycle; `CancelEnds` is liveness. Two bytes tell no progress, some and all apart |
| `completion_unnoticed` | 4 bytes, one failing stream or the deadline | finding A |
| `out_of_runner_ids` | 5 bytes, 3 runners, no fault | finding B |
| `decoded_written` | a resource of 2 bytes | finding C |

**Why the bounds are enough.** Two bytes per chunk are the least that can be
split, so `MinChunkSize = 2` everywhere in the loop; with four bytes and three
runners a chunk is split, its half fails and its range is requested by a runner
with a reused id while the other half still runs. `WriterCapacity = 1` makes the
pending write happen as soon as two frames are accepted. Three writes with a
capacity of two and a queue of one fill the slots, the pending write and the
queue at once. The bodies of `singleton` fall on, below and above multiples of
the buffer and the totals. Two publications let a receiver miss one and be
overtaken by another while it holds the lock; with two receivers a
notification must reach both. In `strategy` three steps of concurrency are the
least for which a recovery stops between degraded and normal, and two failures
with a budget of two are spent, restored by a write in between, or mixed with a
tolerated congestion. In `http` a range
of two bytes is cut once and asked for again.

Deadlock is checked except where the system may stop: callers of the slot, the
channel and the writer need not call again; a download, a task or a single
connection that is over stays over; the clock of an ended attempt stands still;
in `download` finding A is such a stop, since the deadline that ends it is not
among its faults. The liveness properties exclude every other stop.

**Fairness.** `LoopFairness`: the runtime polls every task that is ready, so
runners go on (weak fairness of each runner's work, faults excluded) and the
loop applies the actions of a tick without waiting. The strategy timer is
re-armed after every tick, so a tick that has something to create comes round.
Between two ticks the other sources are polled; a tick disables them for a
while, hence strong fairness for completions and for each runner's events and
frames. Nothing obliges a strategy to split, a server to fail or a user to
cancel. In `LimitSlot` and `Watch` each end completes what it began and a task
that was woken is polled, and only then. In `FileWriters` the runtimes poll the
owner and the tasks, the threads of the workers run and a write ends; nothing
obliges the loop to write. In `SingletonTask` the task is polled and its timers
fire; the server need not answer. In `ConcurrencyControl` ticks come round and
time goes on. In `HttpAdapter` a request is answered, fails or is cut, the
timeouts of the runner and of the metadata being among the failures. In `TaskLifecycle` the
attempt's thread runs, file operations end, and what watches the token is
polled once it is cancelled; that a transfer ends then is shown by
`download_ends` and `singleton`. Nothing obliges an adapter to answer.

## 4. The proofs

**ChunkPlanner** (`ChunkPlannerProofs`), for every file size, minimum chunk
size, chunk limit and set of runners. Assumptions: `PlannerAssumption` (the
sizes are positive, `NoRunner` is no runner) and the promises of the callers in
`PlannerNext`. The inductive invariant is

    PlannerInv == PlannerTypeOK /\ NoOverlap /\ MappingAgrees /\ FinishedIsDownloaded

None of its parts is inductive alone: `allocate_chunk_inner` compares a new
range only with the last chunk that starts before its end, which is enough just
because the chunks it knows do not overlap; `mark_finished` and the split need
the two maps to agree; and that a frame is clipped at the chunk's end needs the
types. From it follow

- `PlannerTypeCorrect`, `PlannerNoOverlap`, `PlannerMapping`, `PlannerFinished`;
- `PlannerDropsNothing`: the action property that no step loses an accepted byte;
- `PlannerCountsBytes`: `accepted_bytes` is the number of distinct bytes
  accepted, what `get_downloaded_ranges` asserts, by the cardinality of the
  bytes each step adds;
- `PlannerFreeRanges`: the scan for gaps finds exactly the bytes no chunk holds.
  The maximum of the chunks before a position exists because there are finitely
  many, the rest is arithmetic on neighbouring chunks;
- `PlannerCompleteness`: complete means every byte was accepted.

**DownloadLoop** (`DownloadLoopProofs`), for every file size, finite set of
runners, size of buffers, channels and writer, and every set and number of
faults (`PlannerAssumption`, `RunnerAssumption`, `LoopAssumption`). This is the
composition of loop, manager, planner, runners and writer, with runners and
writes moving between any two steps of the loop. The inductive invariant is

    LoopInv == PlannerInv /\ Domains /\ Tended /\ Planned /\ Written

- `Tended` has the tables of the manager (`Tables`) and says of each runner with
  open channels that it is `Healthy`: the frames in its channel, the frame in
  emission, the buffer and the item it just read lie end to end from where its
  chunk stands to where it reads (`FramesOK`, `Fits`); its limit, or the one in
  its mailbox, which is then smaller, is the length of the chunk (`LimitOK`);
  `Started` comes first and data only after the loop has taken it (`EventsOK`);
  and while bytes of the chunk are missing no success is in its lifecycle
  channel, nor on the way there with too little delivered. `Healthy` speaks of
  values, not of variables, so a step of one runner is seen to leave the others
  alone, and once a chunk is full it claims nothing of what a runner that has
  not read its last limit still pushes.
- `Planned`: the splits that a tick has yet to apply are of runners that the
  manager still has, although runners fail and finish in between.
- `Written`: the writes on their way are of accepted bytes, at their places,
  disjoint and on holes; without an error every accepted byte is in the file or
  on its way; success was decided with everything accepted.

None of the checked properties is inductive alone. `FramesInOrder` needs the
position the runner reads at and the item it holds, which it does not mention.
`SuccessIsDelivered` needs `LimitOK` (a runner drains against the limit it
knows) and `Fits` while it drains. `BytesInPlace` needs the planner to clip
what is beyond a split, and `FramesInOrder` for what is left of it.
`SuccessIsWholeFile` needs that a writer with an error has ended the transfer.
From `LoopInv` follow `LoopTablesAgree`, `LoopLimitIsChunk`,
`LoopFramesInOrder`, `LoopSuccessIsDelivered`, `LoopBytesInPlace`,
`LoopSuccessIsWholeFile`, and `LoopImplementsPlanner`: every step of the loop is
a step of `PlannerSpec` or leaves the planner alone. So the promises of the
callers, which the planner's theorems assume, are kept, and those theorems hold
of the planner inside the loop (`LoopDropsNothing`).

**SingletonTask** (`SingletonTaskProofs`), for every length of the body, known or
unknown size, size of the buffer, of the channel and of the items, and every set
of faults (`RunnerAssumption`, `SingletonAssumption`). `SingletonInv` says that the
file is a beginning of the body at all times, and while the task runs that its
runner is `Healthy`: the frames, the frame in emission, the buffer and the item
go on from the end of the file to where the stream has come (`FramesOK`, `Fits`);
each event is taken before the runner goes on or is its last (`EventsOK`); and
once `Finished` was published or noted, as much was pushed as the task was told,
or all that came (`LoopOK`, `Delivered`). `SuccessIsBody` alone is not inductive:
`Finished` and the end of the data come in either order, so it needs what each of
them means while the other is awaited; and without a size a runner must not
validate what it has pushed before the last of what came is pushed (`LastFrame`).
From it follow `SingletonSuccessIsBody` and `SingletonFileIsPrefix`, which says of
failed transfers too that nothing but a beginning of the body is in the file.

**FileWriters** (`FileWritersProofs`), for every backend, number of writes and
parts, capacity, length of the queue, number of workers and of faults
(`WriterAssumption`). `WriterInv` follows a write: its guard tells whether a task
or a command has it (`Routed`), the queue holds the queued commands once each
(`Queued`), a busy command has one worker (`Busy`), what was reported or answered
as written is in the file (`Honest`), there is one finalize command
(`FinalizedOnce`), workers leave after the queue was closed and the last one
leaves it empty (`Staffed`), and each phase of the owner knows what came before
(`Owned`, `OnDisk`). `WritesAreAccounted` alone is not inductive: that a step
takes away one guard and adds one completion needs `Routed`, and that an answered
command is not reported again needs `Busy`. From it follow `WriterAccounts`,
`WriterStrandsNothing`, `WriterSuccessIsOnDisk` and `WriterLeavesNobody`.

**HttpAdapter** (`HttpAdapterProofs`), for every size of the resource and any
number of retries and failures (`AdapterAssumption`). `AdapterInv` says that with a
server that names totals and does not code, the file is at every moment of an
attempt by ranges a beginning of the one resource whose size the metadata told
(`Requesting`, `Receiving`); a coded range never gets a body; what the client
decodes into less than its range may get into the file and still never
completes it, because each range stops short of its last byte however the rest
is cut and requested again; and a full body starts with an empty file and is not
a coded one (`Full`). The lemmas `AcceptedRange` and `AcceptedFull` say what the
checks of an answer establish. From it follow `AdapterRangedFile` and
`AdapterFullFile`.

**LimitSlot** (`LimitSlotProofs`), for every set of limits and any number of
sends. `SlotInv` says who owns the waker's cell (`Ownership`), that a receiver
past `register` has its waker in the cell or a wake-up on the way, and that a
wake-up is on the way whenever it is about to wait with a value or a close
unseen (`Registration`), and that the slot holds the value sent last
(`Values`). `NoLostWakeup` is not inductive: between the store and the wake the
receiver may park, and it is `Registration` that says where the wake-up is
then. From it follow `SlotWakerIsExclusive` (the SAFETY comments of
`atomic_waker.rs`), `SlotNoLostWakeup`, `SlotClosedIsLast`, and
`SlotImplementsMailbox`: every step of the slot is a step of `Mailbox` or a
stutter.

**TaskLifecycle** (`TaskStatusProofs`), for every length of the resource.
`LifecycleInv` adds to the properties what each phase has established: the
thread returns only with a terminal status (`Told`), a transfer was announced
and the panic handler knows its file (`Announced`), the result, the files and
the leftover flag fit together from the teardown to the end (`Settled`), and the
terminal status has what `outcome` reads (`Readable`, `Joined`).
`NothingLeftBehind` alone is not inductive: that a panic finds the file to
remove needs `Announced`, and that a failed commit has removed or named it needs
`Settled`. From it follow `LifecycleCommits`, `LifecycleCleansUp`,
`LifecycleFallsBack`, `LifecycleOutcome`, `LifecycleTerminalIsLast`, by the
invariant `Doomed` of cancelled tasks `LifecycleCancelIsKept`, and by the
invariant `Shown` (within a transfer the status is behind what was received,
before the first one it has shown nothing) `LifecycleStartsOver`.

**Watch** (`TaskStatusProofs`), for any number of publishers, receivers and
publications. `WatchInv` says who has the lock (`Locked`), that the value belongs
to the version except between the count and the replacement (`Current`), that
the sender is dropped after every publication (`Closing`), that a receiver waits
only with a listener (`Waiting`), and that `wait_for` and the stream have handed
out what they marked as seen (`HandedOut`). `NoLostUpdate` needs `Waiting`, and
`ClosedAfterLast` needs `Closing` and `HandedOut`. From it follow
`WatchNoLostUpdate`, `WatchClosedAfterLast`, `WatchValueOfVersion` and
`WatchImplementsRegister`: every step of the channel is a step of
`StatusRegister` or a stutter.

**ConcurrencyControl** (`ConcurrencyControlProofs`), for every capacity and every
configuration (`CapacityAssumption`, `ControlAssumption`: the minimum concurrency
and the steps are positive and the minimum is within the capacity).
`ControlInv` has four parts: the ids in use are those marked and counted, and
those before the hint are among them (`IdsCounted`), the strategy's state has a target within the bounds
(`StateBounded`) that is in force, the timer never runs longer than what is
left of the period (`Timed`), and the policy's counter is the number of failures
since the last write that can be tried again (`Budgeted`). With no free id before
the hint the search is an ascending one (`SearchMeetsFreeIds`). The bounds need the ids: the target of an
immediate degradation is a number of runners. That the strategy is back to
normal only with the whole concurrency is `DecisionIsBounded`, which makes no
use of what the sampler holds. From it follow `ControlIsBounded`,
`ControlIdsAreRunners`, `ControlDeadlineIsExact` and `ControlRetryBudgetIsExact`.

**Only model-checked:** all liveness (fairness and `ENABLED` are out of the
prover's reach). Every invariant and every action property of a passing run has a
theorem. The three properties that the code violates have runs that show it.

## 5. Findings

**A. A complete file that nobody notices** (`completion_unnoticed`). When a
chunk is shrunk to what its runner has already delivered, the planner counts
it as downloaded once the last frame is taken, but the runner reads on until it
has read its limit. If its stream fails first, `handle_lifecycle` calls
`mark_failed` and does not ask `is_complete`. If it was the last runner, every
byte has been accepted, no runner is left, and the loop waits until the
no-progress deadline fails a download that is complete.
`handle_runner_lost` does ask, and a test of the manager expects `Finished` in
the same situation.

**B. Out of runner ids** (`out_of_runner_ids`). A tick counts chunks that are
pending or running, the id generator counts ids. A runner whose chunk is
finished holds its id until its `Stopped` is handled. Splits may ask for one id
more than there are, and `spawn_runner`'s `expect` panics, although
`bolt-load/docs/idm-insights.md:50` concludes that the gate excludes it.

**C. A decoded body that is written** (`decoded_written`). The documentation of
`validate_range_response` (`bolt-load-http/src/range.rs:75`) says that a body
which the client decoded behind the headers fails in `limit_range_body` instead
of being written. A body that is too long fails only on the item that runs past
its `Content-Range`; a runner stops reading when it has its range, so when the
items end exactly there the decoded bytes are accepted.

Smaller observations, none of them a run:

- A runtime without a local runtime fails the task before `Initializing` is
  published, a transition that the graph in `task/status.rs:17` lacks.
- The branch of `handle_recovering_state` that rolls a finished trial back
  (`concurrency_control_strategy.rs:244-255`) is not reached: the rate of the
  same window has been compared before.
- The outcome of a stream that ends short is recorded as unretryable, which
  `runner_outcome_sampler.rs:15-17` reserves for rejected concurrency: the
  sampler asks the error, the retry asks `is_attempt_retryable`.
- The compio backend opens an existing temporary file without truncating it: a
  longer one left by another process keeps its tail.
- With a known total the single-connection mode keeps the first `total` bytes of
  a longer body, as its tests intend.
- No validator (`ETag`, `If-Range`) is sent. A replaced resource is noticed by
  the total of a `Content-Range`; where the server sends `*`, or the caller
  supplied the metadata, two versions may be mixed. `RangedFileIsResource` says
  so.

## 6. What is not modelled

- Real time outside `ConcurrencyControl`: time-outs fire at any moment, or never.
- Speeds: the throughput sampler, the byte meters of the manager and the
  thresholds of the dynamic strategy; whether it splits is a choice.
- Progress reports, the progress bar, telemetry and error texts.
- The parsers of `Content-Disposition`, extended parameters and `Retry-After`,
  the choice of a file name and the validation of options: pure functions of
  strings, of which no property here tells the results apart.
- The runtimes, HTTP clients and servers themselves; weak memory orderings,
  which the crate's loom tests explore.
- Two tasks with one destination (an open question of the project).
- The test adapters and servers of `bolt-load-tests`.

## 7. Plan

1. Done: planner, runner, loop, single connection; slot and status channel with
   the specifications they implement; writers; strategies with time and ids;
   adapters; lifecycle. Proofs of every invariant and action property that is
   checked.
2. An abstract writer that `FileWriters` implements and `DownloadLoop` assumes;
   an abstract task (running, then exactly one outcome) that `TaskLifecycle`
   implements.
