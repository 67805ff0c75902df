---------------------------- MODULE ChunkPlanner ----------------------------
(***************************************************************************)
(* The chunk planner of a concurrent download                              *)
(* (concurrent_task/chunk_planner.rs): which byte ranges of the file are   *)
(* allocated, to which runner, and how far each one has been downloaded.   *)
(*                                                                         *)
(* A chunk is keyed by the start of its range.  The start of `downloaded`  *)
(* always equals the start of `allocated`, so a chunk keeps only the two   *)
(* ends: `end` is allocated.end, `done` is downloaded.end.                 *)
(*                                                                         *)
(* Every operation is defined twice over: the operator named after the     *)
(* method is what the method does, whoever calls it; PlannerNext adds the  *)
(* obligations of the callers that the method relies on and only asserts   *)
(* in debug builds or states in a comment.  DownloadLoop shows that the    *)
(* download loop meets them.                                               *)
(*                                                                         *)
(* A definition marked "Defect" is the one after it with a plausible       *)
(* mistake.  No specification uses it: with it in the place of the right   *)
(* one, TLC finds a property violated.                                     *)
(***************************************************************************)
EXTENDS Integers, FiniteSets, RunnerIds

CONSTANTS
  Total,          \* ChunkPlanner::total, the size of the file in bytes
  MinChunkSize,   \* ChunkPlanner::min_chunk_size
  MaxChunkCount,  \* ChunkPlanner::max_chunk_count
  NoRunner        \* Option::None for a runner id

ASSUME PlannerAssumption ==
  /\ Total \in Nat \ {0}
  /\ MinChunkSize \in Nat \ {0}
  /\ MaxChunkCount \in Nat \ {0}
  /\ NoRunner \notin Runners

VARIABLES
  chunks,           \* BTreeMap<u64, ChunkState>: start |-> chunk
  runner_to_chunk,  \* HashMap<RunnerId, u64>: runner |-> start of its chunk
  accepted_bytes    \* bytes accepted into all chunks

plannerVars == <<chunks, runner_to_chunk, accepted_bytes>>

ChunkStatus == {"Idle", "Pending", "Running", "Finished", "Failed"}

Chunk == [end : 1..Total, done : 0..Total,
          runner : Runners \cup {NoRunner}, status : ChunkStatus]

PlannerInit ==
  /\ chunks = [s \in {} |-> s]
  /\ runner_to_chunk = [r \in {} |-> r]
  /\ accepted_bytes = 0

-----------------------------------------------------------------------------
(* The maps. *)

\* HashMap::insert / BTreeMap::insert
InsertKey(f, k, v) == [x \in DOMAIN f \cup {k} |-> IF x = k THEN v ELSE f[x]]

\* HashMap::remove / BTreeMap::remove
RemoveKey(f, k) == [x \in DOMAIN f \ {k} |-> f[x]]

(* ChunkState. *)

Remaining(c) == c.end - c.done

IsActive(c) == c.status \in {"Running", "Pending"}

ChunkComplete(c) == c.done >= c.end

NewChunk(start, end, r, status) ==
  [end |-> end, done |-> start, runner |-> r, status |-> status]

-----------------------------------------------------------------------------
(* Queries. *)

ActiveChunks == {s \in DOMAIN chunks : IsActive(chunks[s])}

HasRunner(r) == r \in DOMAIN runner_to_chunk

RunnerChunk(r) == chunks[runner_to_chunk[r]]

\* p is the last chunk that starts before position e: range(..e).next_back()
IsLastBefore(p, e) ==
  /\ p \in DOMAIN chunks
  /\ p < e
  /\ \A q \in DOMAIN chunks : q < e => q <= p

\* get_available_ranges' cursor has reached c when the scan gets to position e.
IsCursor(c, e) ==
  \/ c = 0 /\ \A q \in DOMAIN chunks : q >= e
  \/ \E p \in DOMAIN chunks : IsLastBefore(p, e) /\ c = chunks[p].end

\* get_available_ranges: the gaps in front of each chunk, and the tail.
AvailableRanges ==
  {g \in [start : 0..Total, end : DOMAIN chunks \cup {Total}] :
      g.start < g.end /\ IsCursor(g.start, g.end)}

\* Planner::is_complete
IsComplete ==
  /\ DOMAIN chunks # {}
  /\ \A s \in DOMAIN chunks : chunks[s].status = "Finished"
  /\ AvailableRanges = {}

\* get_incomplete_states: the chunks that SplitAllTask splits.
IncompleteStates(min_size) ==
  {s \in DOMAIN chunks :
      /\ chunks[s].status = "Running"
      /\ Remaining(chunks[s]) > 0
      /\ Remaining(chunks[s]) >= min_size
      /\ Remaining(chunks[s]) >= 2 * MinChunkSize}

\* find_chunk_to_split once no range is available: max_by_key keeps the last
\* of the chunks with the most remaining work.
SplitCandidates ==
  {s \in DOMAIN chunks :
      /\ chunks[s].status = "Running"
      /\ chunks[s].runner # NoRunner
      /\ Remaining(chunks[s]) >= MinChunkSize}

ChunksToSplit ==
  {s \in SplitCandidates : \A t \in SplitCandidates :
      \/ Remaining(chunks[t]) < Remaining(chunks[s])
      \/ Remaining(chunks[t]) = Remaining(chunks[s]) /\ t <= s}

-----------------------------------------------------------------------------
(* Operations. *)

\* allocate_chunk_inner accepts the range.
CanAllocate(start, end) ==
  /\ start < end
  /\ end <= Total
  /\ Cardinality(DOMAIN chunks) < MaxChunkCount
  /\ \A p \in DOMAIN chunks : IsLastBefore(p, end) => chunks[p].end <= start

\* Defect: the end of the range is taken as its last byte.
AllocateInclusive(start, end, r) ==
  /\ chunks' = InsertKey(chunks, start,
                  NewChunk(start, IF end < Total THEN end + 1 ELSE end, r, "Pending"))
  /\ runner_to_chunk' = InsertKey(runner_to_chunk, r, start)
  /\ UNCHANGED accepted_bytes

\* allocate_pending_chunk
AllocatePending(start, end, r) ==
  /\ chunks' = InsertKey(chunks, start, NewChunk(start, end, r, "Pending"))
  /\ runner_to_chunk' = InsertKey(runner_to_chunk, r, start)
  /\ UNCHANGED accepted_bytes

\* allocate_idle_chunk
AllocateIdle(start, end) ==
  /\ chunks' = InsertKey(chunks, start, NewChunk(start, end, NoRunner, "Idle"))
  /\ UNCHANGED <<runner_to_chunk, accepted_bytes>>

\* The length update_progress accepts of a frame of the runner.
AcceptedLength(r, bytes) ==
  IF bytes <= Remaining(RunnerChunk(r)) THEN bytes ELSE Remaining(RunnerChunk(r))

\* update_progress: the chunk grows by at most what remains of it.
UpdateProgress(r, bytes) ==
  LET s == runner_to_chunk[r]
      new_end == chunks[s].done + AcceptedLength(r, bytes)
  IN  /\ chunks' = [chunks EXCEPT
                      ![s].done = new_end,
                      ![s].status = IF new_end >= chunks[s].end
                                    THEN "Finished" ELSE chunks[s].status]
      /\ accepted_bytes' = accepted_bytes + AcceptedLength(r, bytes)
      /\ UNCHANGED runner_to_chunk

\* mark_running
MarkRunning(r) ==
  /\ chunks' = [chunks EXCEPT ![runner_to_chunk[r]].status = "Running"]
  /\ UNCHANGED <<runner_to_chunk, accepted_bytes>>

\* mark_finished: the chunk keeps its runner id, the map forgets it.
MarkFinished(r) ==
  /\ chunks' = [chunks EXCEPT ![runner_to_chunk[r]].status = "Finished"]
  /\ runner_to_chunk' = RemoveKey(runner_to_chunk, r)
  /\ UNCHANGED accepted_bytes

\* Defect: the chunk is given back with what was downloaded of it.
MarkFailedFromScratch(r) ==
  LET s == runner_to_chunk[r]
  IN  /\ chunks' = RemoveKey(chunks, s)
      /\ runner_to_chunk' = RemoveKey(runner_to_chunk, r)
      /\ accepted_bytes' = accepted_bytes - (chunks[s].done - s)

\* mark_failed: what was downloaded stays as a finished chunk, the rest of
\* the range is free again.
MarkFailed(r) ==
  LET s == runner_to_chunk[r]
  IN  /\ chunks' = IF chunks[s].done = s
                   THEN RemoveKey(chunks, s)
                   ELSE [chunks EXCEPT ![s].end = chunks[s].done,
                                       ![s].status = "Finished",
                                       ![s].runner = NoRunner]
      /\ runner_to_chunk' = RemoveKey(runner_to_chunk, r)
      /\ UNCHANGED accepted_bytes

\* resize_runner_state shrinks the chunk; otherwise it changes nothing.
ShrinksTo(r, new_size) ==
  LET new_end == RunnerChunk(r).done + new_size
  IN  runner_to_chunk[r] < new_end /\ new_end < RunnerChunk(r).end

\* Resize::Shrunk { limit }: the bytes the runner may download in total.
LimitAfter(r, new_size) == RunnerChunk(r).done + new_size - runner_to_chunk[r]

ResizeRunnerState(r, new_size) ==
  /\ chunks' = [chunks EXCEPT ![runner_to_chunk[r]].end = RunnerChunk(r).done + new_size]
  /\ UNCHANGED <<runner_to_chunk, accepted_bytes>>

\* split_chunk accepts the position.
CanSplitAt(r, split_pos) ==
  RunnerChunk(r).done < split_pos /\ split_pos < RunnerChunk(r).end

\* split_chunk: the first part keeps the progress, the second starts running.
SplitChunk(r, split_pos, new_runner) ==
  LET s == runner_to_chunk[r]
  IN  /\ chunks' = InsertKey([chunks EXCEPT ![s].end = split_pos], split_pos,
                          NewChunk(split_pos, chunks[s].end, new_runner, "Running"))
      /\ runner_to_chunk' = InsertKey(runner_to_chunk, new_runner, split_pos)
      /\ UNCHANGED accepted_bytes

-----------------------------------------------------------------------------
(* The planner used as its callers promise: a runner id is handed out      *)
(* again only once it was released, `Started` comes once and first, and a  *)
(* runner reports success only after its whole chunk was accepted.         *)

PlannerAllocatePending == \E start \in 0..Total, end \in 0..Total, r \in Runners :
  ~HasRunner(r) /\ CanAllocate(start, end) /\ AllocatePending(start, end, r)

PlannerAllocateIdle == \E start \in 0..Total, end \in 0..Total :
  CanAllocate(start, end) /\ AllocateIdle(start, end)

PlannerUpdateProgress == \E r \in Runners, bytes \in 0..Total :
  HasRunner(r) /\ UpdateProgress(r, bytes)

PlannerMarkRunning == \E r \in Runners :
  HasRunner(r) /\ RunnerChunk(r).status = "Pending" /\ MarkRunning(r)

PlannerMarkFinished == \E r \in Runners :
  HasRunner(r) /\ ChunkComplete(RunnerChunk(r)) /\ MarkFinished(r)

PlannerMarkFailed == \E r \in Runners : HasRunner(r) /\ MarkFailed(r)

PlannerResize == \E r \in Runners, new_size \in 0..Total :
  HasRunner(r) /\ ShrinksTo(r, new_size) /\ ResizeRunnerState(r, new_size)

PlannerSplit == \E r \in Runners, new_runner \in Runners, split_pos \in 0..Total :
  /\ HasRunner(r) /\ ~HasRunner(new_runner)
  /\ CanSplitAt(r, split_pos)
  /\ SplitChunk(r, split_pos, new_runner)

PlannerNext ==
  \/ PlannerAllocatePending \/ PlannerAllocateIdle
  \/ PlannerUpdateProgress
  \/ PlannerMarkRunning \/ PlannerMarkFinished \/ PlannerMarkFailed
  \/ PlannerResize \/ PlannerSplit

PlannerSpec == PlannerInit /\ [][PlannerNext]_plannerVars

-----------------------------------------------------------------------------
(* Properties. *)

\* Type invariant: every chunk is a non-empty range of the file, downloaded
\* up to a position inside it, and every runner of the map has a chunk.
PlannerTypeOK ==
  /\ DOMAIN chunks \subseteq 0..(Total - 1)
  /\ chunks \in [DOMAIN chunks -> Chunk]
  /\ \A s \in DOMAIN chunks :
        s < chunks[s].end /\ s <= chunks[s].done /\ chunks[s].done <= chunks[s].end
  /\ DOMAIN runner_to_chunk \subseteq Runners
  /\ runner_to_chunk \in [DOMAIN runner_to_chunk -> DOMAIN chunks]
  /\ accepted_bytes \in Nat

\* "their allocated ranges never overlap" (chunk_planner.rs:130): although
\* allocate_chunk_inner compares a range with one chunk only.
NoOverlap ==
  \A s \in DOMAIN chunks, t \in DOMAIN chunks : s < t => chunks[s].end <= t

\* A runner of the map is the runner of its chunk, and a chunk in progress has
\* its runner in the map: what get_incomplete_states and mark_* rely on.
MappingAgrees ==
  /\ \A r \in DOMAIN runner_to_chunk : RunnerChunk(r).runner = r
  /\ \A s \in DOMAIN chunks : IsActive(chunks[s]) =>
        /\ chunks[s].runner \in DOMAIN runner_to_chunk
        /\ runner_to_chunk[chunks[s].runner] = s

\* A chunk counts as finished only when all of it was accepted.
FinishedIsDownloaded ==
  \A s \in DOMAIN chunks : chunks[s].status = "Finished" => chunks[s].done = chunks[s].end

\* The bytes accepted so far.
Downloaded == {b \in 0..(Total - 1) :
                 \E s \in DOMAIN chunks : s <= b /\ b < chunks[s].done}

\* get_downloaded_ranges asserts that accepted_bytes is the length of the
\* downloaded ranges, so no byte is counted twice.
AcceptedIsDownloaded == accepted_bytes = Cardinality(Downloaded)

\* get_available_ranges returns exactly the bytes no chunk holds: a byte it
\* missed would never be requested, one too many would be requested twice.
AvailableIsUnallocated ==
  {b \in 0..(Total - 1) : \E g \in AvailableRanges : g.start <= b /\ b < g.end}
    = {b \in 0..(Total - 1) : \A s \in DOMAIN chunks : ~(s <= b /\ b < chunks[s].end)}

\* is_complete is only ever true of a planner that has every byte of the file,
\* which makes it safe to end the download and commit the file.
CompleteIsWholeFile == IsComplete => Downloaded = 0..(Total - 1)

\* "no operation ever drops accepted bytes" (chunk_planner.rs:134).
NothingDropped == [][Downloaded \subseteq Downloaded']_plannerVars
=============================================================================
