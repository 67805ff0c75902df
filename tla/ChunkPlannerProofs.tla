------------------------- MODULE ChunkPlannerProofs -------------------------
(* Proofs about ChunkPlanner, for every file size and every set of runners. *)
EXTENDS ChunkPlanner, FiniteSetTheorems, WellFoundedInduction, TLAPS

\* A non-empty set of naturals has a least element.
LEMMA LeastElement ==
  ASSUME NEW S, S \subseteq Nat, S # {}
  PROVE  \E m \in S : \A x \in S : m <= x
PROOF
  <1>1. PICK m \in S : \A y \in S : ~(<<y, m>> \in OpToRel(<, Nat))
    BY NatLessThanWellFounded, WFMin, Zenon
  <1>2. ASSUME NEW x \in S
        PROVE  m <= x
    <2>1. <<x, m>> \in OpToRel(<, Nat) <=> x < m
      <3>1. OpToRel(<, Nat) = {ss \in Nat \X Nat : ss[1] < ss[2]}
        BY Zenon DEF OpToRel
      <3>2. <<x, m>> \in Nat \X Nat
        OBVIOUS
      <3>3. QED
        BY <3>1, <3>2
    <2>2. x \in Nat /\ m \in Nat /\ ~(x < m)
      BY <1>1, <2>1
    <2>3. QED
      BY <2>2
  <1>3. QED
    BY <1>2

\* A non-empty set of naturals below a bound has a greatest element.
LEMMA GreatestElement ==
  ASSUME NEW S, S \subseteq Nat, S # {}, NEW n \in Nat, \A x \in S : x <= n
  PROVE  \E m \in S : \A x \in S : x <= m
PROOF
  <1> DEFINE T == {n - x : x \in S}
  <1>1. T \subseteq Nat /\ T # {}
    <2>1. ASSUME NEW x \in S PROVE n - x \in Nat
      <3>1. x \in Nat /\ x <= n
        OBVIOUS
      <3>2. QED
        BY <3>1
    <2>2. QED
      BY <2>1
  <1>2. PICK k \in T : \A y \in T : k <= y
    BY <1>1, LeastElement, Zenon
  <1>3. PICK m \in S : k = n - m
    OBVIOUS
  <1>4. ASSUME NEW x \in S
        PROVE  x <= m
    <2>1. n - x \in T
      OBVIOUS
    <2>2. k <= n - x
      BY <1>2, <2>1
    <2>3. QED
      BY <1>3, <2>2
  <1>5. QED
    BY <1>4
-----------------------------------------------------------------------------
\* The inductive invariant.
PlannerInv == PlannerTypeOK /\ NoOverlap /\ MappingAgrees /\ FinishedIsDownloaded

\* The chunk that allocate_chunk_inner looks at is the only one that can
\* overlap the range: a range it accepts overlaps no chunk.
LEMMA AllocatedIsFree ==
  ASSUME PlannerTypeOK, NoOverlap,
         NEW start \in 0..Total, NEW end \in 0..Total, CanAllocate(start, end),
         NEW q \in DOMAIN chunks
  PROVE  chunks[q].end <= start \/ end <= q
PROOF
  <1> DEFINE Before == {p \in DOMAIN chunks : p < end}
  <1> SUFFICES ASSUME q < end
               PROVE  chunks[q].end <= start
    BY PlannerAssumption DEF PlannerTypeOK, Chunk
  <1>1. Before \subseteq Nat /\ Before # {} /\ \A p \in Before : p <= Total
    BY PlannerAssumption DEF PlannerTypeOK
  <1>2. PICK p \in Before : \A x \in Before : x <= p
    BY <1>1, GreatestElement, PlannerAssumption, Zenon DEF PlannerAssumption
  <1>3. chunks[p].end <= start
    BY <1>2 DEF CanAllocate, IsLastBefore
  <1>4. q <= p
    BY <1>2
  <1>5. CASE q = p
    BY <1>3, <1>5
  <1>6. CASE q < p
    <2>1. chunks[q].end <= p
      BY <1>6 DEF NoOverlap
    <2>2. p < chunks[p].end /\ chunks[p].end \in Nat /\ chunks[q].end \in Nat
      BY PlannerAssumption DEF PlannerTypeOK, Chunk
    <2>3. QED
      BY <1>3, <2>1, <2>2, PlannerAssumption DEF PlannerTypeOK
  <1>7. QED
    BY <1>4, <1>5, <1>6, PlannerAssumption DEF PlannerTypeOK
-----------------------------------------------------------------------------
(* One lemma per operation: it preserves the invariant. *)

\* allocate_pending_chunk keeps the invariant for a runner without a chunk.
LEMMA AllocatePendingInv ==
  ASSUME PlannerInv, PlannerAllocatePending
  PROVE  PlannerInv'
PROOF
  <1>1. PICK start \in 0..Total, end \in 0..Total, r \in Runners :
          ~HasRunner(r) /\ CanAllocate(start, end) /\ AllocatePending(start, end, r)
    BY DEF PlannerAllocatePending
  <1>2. \A q \in DOMAIN chunks : chunks[q].end <= start \/ end <= q
    BY <1>1, AllocatedIsFree DEF PlannerInv
  <1>3. start \notin DOMAIN chunks /\ start < end /\ end <= Total
    BY <1>1, <1>2, PlannerAssumption DEF PlannerInv, PlannerTypeOK, CanAllocate, Chunk
  <1>4. PlannerTypeOK'
    BY <1>1, <1>3, PlannerAssumption
    DEF PlannerInv, PlannerTypeOK, AllocatePending, InsertKey, NewChunk, Chunk, ChunkStatus
  <1>5. NoOverlap'
    BY <1>1, <1>2, <1>3, PlannerAssumption
    DEF PlannerInv, PlannerTypeOK, NoOverlap, AllocatePending, InsertKey, NewChunk, Chunk
  <1>6. MappingAgrees'
    BY <1>1, <1>3 DEF PlannerInv, PlannerTypeOK, MappingAgrees, AllocatePending, HasRunner,
      RunnerChunk, IsActive, InsertKey, NewChunk
  <1>7. FinishedIsDownloaded'
    BY <1>1 DEF PlannerInv, FinishedIsDownloaded, AllocatePending, InsertKey, NewChunk
  <1>8. QED
    BY <1>4, <1>5, <1>6, <1>7 DEF PlannerInv

\* allocate_idle_chunk keeps the invariant.
LEMMA AllocateIdleInv ==
  ASSUME PlannerInv, PlannerAllocateIdle
  PROVE  PlannerInv'
PROOF
  <1>1. PICK start \in 0..Total, end \in 0..Total :
          CanAllocate(start, end) /\ AllocateIdle(start, end)
    BY DEF PlannerAllocateIdle
  <1>2. \A q \in DOMAIN chunks : chunks[q].end <= start \/ end <= q
    BY <1>1, AllocatedIsFree DEF PlannerInv
  <1>3. start \notin DOMAIN chunks /\ start < end /\ end <= Total
    BY <1>1, <1>2, PlannerAssumption DEF PlannerInv, PlannerTypeOK, CanAllocate, Chunk
  <1>4. PlannerTypeOK'
    BY <1>1, <1>3, PlannerAssumption
    DEF PlannerInv, PlannerTypeOK, AllocateIdle, InsertKey, NewChunk, Chunk, ChunkStatus
  <1>5. NoOverlap'
    BY <1>1, <1>2, <1>3, PlannerAssumption
    DEF PlannerInv, PlannerTypeOK, NoOverlap, AllocateIdle, InsertKey, NewChunk, Chunk
  <1>6. MappingAgrees'
    BY <1>1, <1>3 DEF PlannerInv, PlannerTypeOK, MappingAgrees, AllocateIdle,
      RunnerChunk, IsActive, InsertKey, NewChunk
  <1>7. FinishedIsDownloaded'
    BY <1>1 DEF PlannerInv, FinishedIsDownloaded, AllocateIdle, InsertKey, NewChunk
  <1>8. QED
    BY <1>4, <1>5, <1>6, <1>7 DEF PlannerInv

\* update_progress keeps the invariant whatever the length of the frame.
LEMMA UpdateProgressInv ==
  ASSUME PlannerInv, PlannerUpdateProgress
  PROVE  PlannerInv'
PROOF
  <1>1. PICK r \in Runners, bytes \in 0..Total : HasRunner(r) /\ UpdateProgress(r, bytes)
    BY DEF PlannerUpdateProgress
  <1> DEFINE s == runner_to_chunk[r]
             n == AcceptedLength(r, bytes)
  <1>2. s \in DOMAIN chunks /\ chunks[s] \in Chunk
    BY <1>1 DEF PlannerInv, PlannerTypeOK, HasRunner
  <1>3. n \in Nat /\ chunks[s].done + n <= chunks[s].end
    BY <1>2, PlannerAssumption
    DEF PlannerInv, PlannerTypeOK, AcceptedLength, Remaining, RunnerChunk, Chunk
  <1>4. /\ chunks' = [chunks EXCEPT ![s].done = chunks[s].done + n,
                        ![s].status = IF chunks[s].done + n >= chunks[s].end
                                      THEN "Finished" ELSE chunks[s].status]
        /\ accepted_bytes' = accepted_bytes + n
        /\ runner_to_chunk' = runner_to_chunk
    BY <1>1 DEF UpdateProgress
  <1> HIDE DEF s, n
  <1>5. PlannerTypeOK'
    BY <1>2, <1>3, <1>4, PlannerAssumption DEF PlannerInv, PlannerTypeOK, Chunk, ChunkStatus
  <1>6. NoOverlap'
    BY <1>2, <1>4 DEF PlannerInv, NoOverlap, PlannerTypeOK, Chunk
  <1>7. MappingAgrees'
    BY <1>2, <1>4 DEF PlannerInv, MappingAgrees, PlannerTypeOK, Chunk, RunnerChunk, IsActive
  <1>8. FinishedIsDownloaded'
    BY <1>2, <1>3, <1>4, PlannerAssumption
    DEF PlannerInv, FinishedIsDownloaded, PlannerTypeOK, Chunk
  <1>9. QED
    BY <1>5, <1>6, <1>7, <1>8 DEF PlannerInv

\* mark_running keeps the invariant for a chunk that is pending.
LEMMA MarkRunningInv ==
  ASSUME PlannerInv, PlannerMarkRunning
  PROVE  PlannerInv'
PROOF
  <1>1. PICK r \in Runners :
          HasRunner(r) /\ RunnerChunk(r).status = "Pending" /\ MarkRunning(r)
    BY DEF PlannerMarkRunning
  <1>2. runner_to_chunk[r] \in DOMAIN chunks /\ chunks[runner_to_chunk[r]] \in Chunk
    BY <1>1 DEF PlannerInv, PlannerTypeOK, HasRunner
  <1>3. PlannerTypeOK'
    BY <1>1, <1>2 DEF PlannerInv, PlannerTypeOK, MarkRunning, Chunk, ChunkStatus
  <1>4. NoOverlap'
    BY <1>1, <1>2 DEF PlannerInv, NoOverlap, MarkRunning, Chunk, PlannerTypeOK
  <1>5. MappingAgrees'
    BY <1>1, <1>2 DEF PlannerInv, MappingAgrees, MarkRunning, Chunk, PlannerTypeOK,
      RunnerChunk, IsActive, HasRunner
  <1>6. FinishedIsDownloaded'
    BY <1>1, <1>2 DEF PlannerInv, FinishedIsDownloaded, MarkRunning, Chunk, PlannerTypeOK
  <1>7. QED
    BY <1>3, <1>4, <1>5, <1>6 DEF PlannerInv

\* mark_finished keeps the invariant for a chunk that was accepted whole.
LEMMA MarkFinishedInv ==
  ASSUME PlannerInv, PlannerMarkFinished
  PROVE  PlannerInv'
PROOF
  <1>1. PICK r \in Runners :
          HasRunner(r) /\ ChunkComplete(RunnerChunk(r)) /\ MarkFinished(r)
    BY DEF PlannerMarkFinished
  <1>2. runner_to_chunk[r] \in DOMAIN chunks /\ chunks[runner_to_chunk[r]] \in Chunk
    BY <1>1 DEF PlannerInv, PlannerTypeOK, HasRunner
  <1>3. PlannerTypeOK'
    BY <1>1, <1>2 DEF PlannerInv, PlannerTypeOK, MarkFinished, RemoveKey, Chunk, ChunkStatus
  <1>4. NoOverlap'
    BY <1>1, <1>2 DEF PlannerInv, NoOverlap, MarkFinished, Chunk, PlannerTypeOK
  <1>5. MappingAgrees'
    BY <1>1, <1>2 DEF PlannerInv, MappingAgrees, MarkFinished, RemoveKey, Chunk, PlannerTypeOK,
      RunnerChunk, IsActive, HasRunner
  <1>6. FinishedIsDownloaded'
    BY <1>1, <1>2, PlannerAssumption
    DEF PlannerInv, FinishedIsDownloaded, MarkFinished, Chunk, PlannerTypeOK,
      ChunkComplete, RunnerChunk
  <1>7. QED
    BY <1>3, <1>4, <1>5, <1>6 DEF PlannerInv

\* mark_failed keeps the invariant, with the chunk removed or cut.
LEMMA MarkFailedInv ==
  ASSUME PlannerInv, PlannerMarkFailed
  PROVE  PlannerInv'
PROOF
  <1>1. PICK r \in Runners : HasRunner(r) /\ MarkFailed(r)
    BY DEF PlannerMarkFailed
  <1> DEFINE s == runner_to_chunk[r]
  <1>2. s \in DOMAIN chunks /\ chunks[s] \in Chunk
    BY <1>1 DEF PlannerInv, PlannerTypeOK, HasRunner
  <1>3. \A q \in DOMAIN runner_to_chunk : q # r => runner_to_chunk[q] # s
    BY <1>1 DEF PlannerInv, MappingAgrees, RunnerChunk, HasRunner
  <1>4. runner_to_chunk' = RemoveKey(runner_to_chunk, r) /\ accepted_bytes' = accepted_bytes
    BY <1>1 DEF MarkFailed
  <1>5. CASE chunks[s].done = s
    <2>1. chunks' = RemoveKey(chunks, s)
      BY <1>1, <1>5 DEF MarkFailed
    <2>2. PlannerTypeOK'
      BY <1>2, <1>3, <1>4, <2>1 DEF PlannerInv, PlannerTypeOK, RemoveKey
    <2>3. NoOverlap' /\ FinishedIsDownloaded'
      BY <2>1 DEF PlannerInv, NoOverlap, FinishedIsDownloaded, RemoveKey
    <2>4. MappingAgrees'
      BY <1>1, <1>2, <1>3, <1>4, <2>1
      DEF PlannerInv, PlannerTypeOK, MappingAgrees, RunnerChunk, RemoveKey, IsActive, HasRunner
    <2>5. QED
      BY <2>2, <2>3, <2>4 DEF PlannerInv
  <1>6. CASE chunks[s].done # s
    <2>1. chunks' = [chunks EXCEPT ![s].end = chunks[s].done,
                                   ![s].status = "Finished",
                                   ![s].runner = NoRunner]
      BY <1>1, <1>6 DEF MarkFailed
    <2>2. s < chunks[s].done /\ chunks[s].done \in 1..Total
      BY <1>2, <1>6, PlannerAssumption DEF PlannerInv, PlannerTypeOK, Chunk
    <2>3. PlannerTypeOK'
      BY <1>2, <1>3, <1>4, <2>1, <2>2, PlannerAssumption
      DEF PlannerInv, PlannerTypeOK, RemoveKey, Chunk, ChunkStatus
    <2>4. NoOverlap'
      BY <1>2, <2>1, PlannerAssumption DEF PlannerInv, PlannerTypeOK, NoOverlap, Chunk
    <2>5. FinishedIsDownloaded'
      BY <1>2, <2>1 DEF PlannerInv, PlannerTypeOK, FinishedIsDownloaded, Chunk
    <2>6. MappingAgrees'
      BY <1>1, <1>2, <1>3, <1>4, <2>1
      DEF PlannerInv, PlannerTypeOK, MappingAgrees, RunnerChunk, RemoveKey, IsActive, HasRunner, Chunk
    <2>7. QED
      BY <2>3, <2>4, <2>5, <2>6 DEF PlannerInv
  <1>7. QED
    BY <1>5, <1>6

\* resize_runner_state keeps the invariant when the chunk shrinks.
LEMMA ResizeInv ==
  ASSUME PlannerInv, PlannerResize
  PROVE  PlannerInv'
PROOF
  <1>1. PICK r \in Runners, new_size \in 0..Total :
          HasRunner(r) /\ ShrinksTo(r, new_size) /\ ResizeRunnerState(r, new_size)
    BY DEF PlannerResize
  <1> DEFINE s == runner_to_chunk[r]
             e == chunks[s].done + new_size
  <1>2. s \in DOMAIN chunks /\ chunks[s] \in Chunk /\ s \in Nat
    BY <1>1, PlannerAssumption DEF PlannerInv, PlannerTypeOK, HasRunner
  <1>3. e \in Nat /\ s < e /\ e < chunks[s].end /\ chunks[s].done <= e
    BY <1>1, <1>2, PlannerAssumption DEF ShrinksTo, RunnerChunk, Chunk
  <1>4. chunks' = [chunks EXCEPT ![s].end = e] /\ UNCHANGED <<runner_to_chunk, accepted_bytes>>
    BY <1>1 DEF ResizeRunnerState, RunnerChunk
  <1> HIDE DEF s, e
  <1>5. PlannerTypeOK'
    BY <1>2, <1>3, <1>4, PlannerAssumption DEF PlannerInv, PlannerTypeOK, Chunk
  <1>6. NoOverlap'
    BY <1>2, <1>3, <1>4, PlannerAssumption DEF PlannerInv, PlannerTypeOK, NoOverlap, Chunk
  <1>7. MappingAgrees'
    BY <1>2, <1>4 DEF PlannerInv, PlannerTypeOK, MappingAgrees, RunnerChunk, IsActive, Chunk
  <1>8. FinishedIsDownloaded'
    BY <1>2, <1>3, <1>4, PlannerAssumption
    DEF PlannerInv, PlannerTypeOK, FinishedIsDownloaded, Chunk
  <1>9. QED
    BY <1>5, <1>6, <1>7, <1>8 DEF PlannerInv

\* split_chunk keeps the invariant, with a part for each of two runners.
LEMMA SplitInv ==
  ASSUME PlannerInv, PlannerSplit
  PROVE  PlannerInv'
PROOF
  <1>1. PICK r \in Runners, new_runner \in Runners, split_pos \in 0..Total :
          /\ HasRunner(r) /\ ~HasRunner(new_runner)
          /\ CanSplitAt(r, split_pos)
          /\ SplitChunk(r, split_pos, new_runner)
    BY DEF PlannerSplit
  <1> DEFINE s == runner_to_chunk[r]
             old_end == chunks[s].end
             first == [chunks EXCEPT ![s].end = split_pos]
             second == NewChunk(split_pos, old_end, new_runner, "Running")
  <1>2. s \in DOMAIN chunks /\ chunks[s] \in Chunk /\ s \in Nat
    BY <1>1, PlannerAssumption DEF PlannerInv, PlannerTypeOK, HasRunner
  <1>3. chunks[s].done < split_pos /\ split_pos < old_end /\ s < split_pos
    BY <1>1, <1>2, PlannerAssumption DEF CanSplitAt, RunnerChunk, PlannerInv, PlannerTypeOK, Chunk
  <1>4. split_pos \notin DOMAIN chunks
    BY <1>2, <1>3, PlannerAssumption DEF PlannerInv, PlannerTypeOK, NoOverlap, Chunk
  <1>5. /\ chunks' = InsertKey(first, split_pos, second)
        /\ runner_to_chunk' = InsertKey(runner_to_chunk, new_runner, split_pos)
        /\ accepted_bytes' = accepted_bytes
    BY <1>1 DEF SplitChunk
  <1>6. /\ DOMAIN chunks' = DOMAIN chunks \cup {split_pos}
        /\ chunks'[split_pos] = second
        /\ chunks'[s] = [chunks[s] EXCEPT !.end = split_pos]
        /\ \A q \in DOMAIN chunks : q # s => chunks'[q] = chunks[q]
    BY <1>2, <1>4, <1>5 DEF InsertKey
  <1>7. second \in Chunk /\ second.end = old_end /\ second.done = split_pos
        /\ second.runner = new_runner /\ second.status = "Running"
    BY <1>1, <1>2, <1>3, PlannerAssumption DEF NewChunk, Chunk, ChunkStatus
  <1> HIDE DEF s, old_end, first, second
  <1>8. PlannerTypeOK'
    <2>1. DOMAIN chunks' \subseteq 0..(Total - 1)
      BY <1>2, <1>3, <1>6, PlannerAssumption DEF PlannerInv, PlannerTypeOK, old_end, Chunk
    <2>2. chunks' = [q \in DOMAIN chunks' |-> chunks'[q]]
      BY <1>5 DEF InsertKey
    <2>3. ASSUME NEW q \in DOMAIN chunks'
          PROVE  /\ chunks'[q] \in Chunk
                 /\ q < chunks'[q].end /\ q <= chunks'[q].done
                 /\ chunks'[q].done <= chunks'[q].end
      <3>1. CASE q = split_pos
        BY <1>3, <1>6, <1>7, <3>1, <1>2, PlannerAssumption DEF Chunk, old_end
      <3>2. CASE q = s
        BY <1>2, <1>3, <1>6, <3>2, PlannerAssumption
        DEF PlannerInv, PlannerTypeOK, Chunk, old_end
      <3>3. CASE q # s /\ q # split_pos
        BY <1>6, <3>3 DEF PlannerInv, PlannerTypeOK
      <3>4. QED
        BY <3>1, <3>2, <3>3
    <2>4. /\ DOMAIN runner_to_chunk' \subseteq Runners
          /\ runner_to_chunk' \in [DOMAIN runner_to_chunk' -> DOMAIN chunks']
      BY <1>1, <1>5, <1>6 DEF PlannerInv, PlannerTypeOK, InsertKey
    <2>5. chunks' \in [DOMAIN chunks' -> Chunk]
      BY <2>2, <2>3
    <2>6. accepted_bytes' \in Nat
      BY <1>5 DEF PlannerInv, PlannerTypeOK
    <2>7. QED
      BY <2>1, <2>3, <2>4, <2>5, <2>6 DEF PlannerTypeOK
  <1>9. NoOverlap'
    <2>1. \A q \in DOMAIN chunks : q \in Nat /\ chunks[q].end \in Nat /\ q < chunks[q].end
      BY PlannerAssumption DEF PlannerInv, PlannerTypeOK, Chunk
    <2>2. \A q \in DOMAIN chunks : q # s => chunks[q].end <= s \/ old_end <= q
      BY <1>2, <2>1 DEF PlannerInv, NoOverlap, old_end
    <2>3. chunks'[s].end = split_pos
      BY <1>2, <1>6 DEF Chunk
    <2>4. SUFFICES ASSUME NEW p \in DOMAIN chunks', NEW q \in DOMAIN chunks', p < q
                   PROVE  chunks'[p].end <= q
      BY DEF NoOverlap
    <2>a. old_end \in Nat /\ s \in Nat
      BY <1>2, <2>1 DEF old_end
    <2>5. CASE p = split_pos
      <3>1. q \in DOMAIN chunks /\ q # s /\ chunks'[p].end = old_end
        BY <1>2, <1>3, <1>6, <1>7, <2>4, <2>5, <2>a
      <3>2. QED
        BY <1>3, <2>1, <2>2, <2>4, <2>5, <2>a, <3>1
    <2>6. CASE p = s
      <3>1. CASE q = split_pos
        BY <2>3, <2>6, <3>1
      <3>2. CASE q # split_pos
        <4>1. q \in DOMAIN chunks /\ q # s
          BY <1>6, <2>4, <2>6, <3>2, <2>a
        <4>2. QED
          BY <1>3, <2>1, <2>2, <2>3, <2>4, <2>6, <2>a, <4>1
      <3>3. QED
        BY <3>1, <3>2
    <2>7. CASE p # s /\ p # split_pos
      <3>1. p \in DOMAIN chunks /\ chunks'[p] = chunks[p]
        BY <1>6, <2>7
      <3>2. CASE q = split_pos
        BY <1>2, <1>3, <2>1, <2>2, <2>4, <2>7, <3>1, <3>2 DEF old_end
      <3>3. CASE q # split_pos
        BY <1>6, <2>4, <3>1, <3>3 DEF PlannerInv, NoOverlap
      <3>4. QED
        BY <3>2, <3>3
    <2>8. QED
      BY <2>5, <2>6, <2>7
  <1>10. MappingAgrees'
    <2>1. ASSUME NEW q \in DOMAIN runner_to_chunk'
          PROVE  chunks'[runner_to_chunk'[q]].runner = q
      <3>1. CASE q = new_runner
        BY <1>5, <1>6, <1>7, <3>1 DEF InsertKey
      <3>2. CASE q # new_runner
        <4>1. q \in DOMAIN runner_to_chunk /\ runner_to_chunk'[q] = runner_to_chunk[q]
          BY <1>5, <3>2 DEF InsertKey
        <4>2. runner_to_chunk[q] \in DOMAIN chunks /\ chunks[runner_to_chunk[q]].runner = q
          BY <4>1 DEF PlannerInv, PlannerTypeOK, MappingAgrees, RunnerChunk
        <4>3. QED
          BY <1>2, <1>6, <4>1, <4>2 DEF Chunk
      <3>3. QED
        BY <3>1, <3>2
    <2>2. ASSUME NEW q \in DOMAIN chunks', IsActive(chunks'[q])
          PROVE  /\ chunks'[q].runner \in DOMAIN runner_to_chunk'
                 /\ runner_to_chunk'[chunks'[q].runner] = q
      <3>1. CASE q = split_pos
        BY <1>5, <1>6, <1>7, <3>1 DEF InsertKey
      <3>2. CASE q # split_pos
        <4>1. q \in DOMAIN chunks /\ IsActive(chunks[q]) /\ chunks'[q].runner = chunks[q].runner
          BY <1>2, <1>6, <2>2, <3>2 DEF IsActive, Chunk
        <4>2. /\ chunks[q].runner \in DOMAIN runner_to_chunk
              /\ runner_to_chunk[chunks[q].runner] = q
          BY <4>1 DEF PlannerInv, MappingAgrees
        <4>3. QED
          BY <1>1, <1>5, <4>1, <4>2 DEF InsertKey, HasRunner
      <3>3. QED
        BY <3>1, <3>2
    <2>3. QED
      BY <2>1, <2>2 DEF MappingAgrees, RunnerChunk
  <1>11. FinishedIsDownloaded'
    BY <1>2, <1>3, <1>6, <1>7, PlannerAssumption
    DEF PlannerInv, PlannerTypeOK, FinishedIsDownloaded, Chunk, old_end
  <1>12. QED
    BY <1>8, <1>9, <1>10, <1>11 DEF PlannerInv

\* The invariant is inductive.
LEMMA PlannerStepInv ==
  ASSUME PlannerInv, [PlannerNext]_plannerVars
  PROVE  PlannerInv'
PROOF
  <1>1. CASE PlannerNext
    BY <1>1, AllocatePendingInv, AllocateIdleInv, UpdateProgressInv, MarkRunningInv,
      MarkFinishedInv, MarkFailedInv, ResizeInv, SplitInv DEF PlannerNext
  <1>2. CASE UNCHANGED plannerVars
    BY <1>2 DEF plannerVars, PlannerInv, PlannerTypeOK, NoOverlap, MappingAgrees,
      FinishedIsDownloaded, RunnerChunk
  <1>3. QED
    BY <1>1, <1>2

LEMMA PlannerInitInv ==
  ASSUME PlannerInit
  PROVE  PlannerInv
PROOF
  BY DEF PlannerInit, PlannerInv, PlannerTypeOK, NoOverlap, MappingAgrees,
    FinishedIsDownloaded, RunnerChunk

\* Whatever the callers do within their obligations, chunks never overlap, the
\* two maps agree and a finished chunk has all of its bytes.
THEOREM PlannerInvariant == PlannerSpec => []PlannerInv
PROOF
  <1>1. PlannerInit => PlannerInv
    BY PlannerInitInv
  <1>2. PlannerInv /\ [PlannerNext]_plannerVars => PlannerInv'
    BY PlannerStepInv
  <1>3. QED
    BY <1>1, <1>2, PTL DEF PlannerSpec
-----------------------------------------------------------------------------
(* The bytes that were accepted. *)

\* A step that changes how far a chunk is downloaded only for chunks without
\* any bytes leaves the accepted bytes alone.
LEMMA SameDownloaded ==
  ASSUME \A s \in DOMAIN chunks :
           chunks[s].done = s \/ (s \in DOMAIN chunks' /\ chunks'[s].done = chunks[s].done),
         \A s \in DOMAIN chunks' :
           chunks'[s].done = s \/ (s \in DOMAIN chunks /\ chunks'[s].done = chunks[s].done),
         PlannerTypeOK, PlannerTypeOK'
  PROVE  Downloaded' = Downloaded
PROOF
  <1>1. ASSUME NEW b \in 0..(Total - 1)
        PROVE  (\E s \in DOMAIN chunks' : s <= b /\ b < chunks'[s].done)
                 <=> (\E s \in DOMAIN chunks : s <= b /\ b < chunks[s].done)
    <2>1. \A s \in DOMAIN chunks : s \in Nat
      BY PlannerAssumption DEF PlannerTypeOK
    <2>2. \A s \in DOMAIN chunks' : s \in Nat
      BY PlannerAssumption DEF PlannerTypeOK
    <2>3. b \in Nat
      BY PlannerAssumption
    <2>4. QED
      BY <2>1, <2>2, <2>3
  <1>2. QED
    BY <1>1 DEF Downloaded

\* update_progress adds as many new bytes as it counts.
LEMMA UpdateAddsBytes ==
  ASSUME PlannerInv, PlannerInv', NEW r \in Runners, NEW bytes \in 0..Total,
         HasRunner(r), UpdateProgress(r, bytes)
  PROVE  LET done == RunnerChunk(r).done
             n == AcceptedLength(r, bytes)
         IN  /\ n \in Nat
             /\ accepted_bytes' = accepted_bytes + n
             /\ Downloaded' = Downloaded \cup (done..(done + n - 1))
             /\ Downloaded \cap (done..(done + n - 1)) = {}
PROOF
  <1> DEFINE s == runner_to_chunk[r]
             done == chunks[s].done
             n == AcceptedLength(r, bytes)
  <1>1. s \in DOMAIN chunks /\ chunks[s] \in Chunk /\ s \in Nat /\ done \in Nat /\ s <= done
    BY PlannerAssumption DEF PlannerInv, PlannerTypeOK, HasRunner, Chunk
  <1>2. n \in Nat /\ done + n <= chunks[s].end
    BY <1>1, PlannerAssumption
    DEF PlannerInv, PlannerTypeOK, AcceptedLength, Remaining, RunnerChunk, Chunk
  <1>3. /\ DOMAIN chunks' = DOMAIN chunks
        /\ chunks'[s].done = done + n
        /\ \A q \in DOMAIN chunks : q # s => chunks'[q] = chunks[q]
        /\ accepted_bytes' = accepted_bytes + n
    BY <1>1 DEF UpdateProgress, Chunk
  <1>4. chunks[s].end <= Total /\ chunks[s].end \in Nat
    BY <1>1, PlannerAssumption DEF Chunk
  <1>5. RunnerChunk(r).done = done
    BY DEF RunnerChunk
  <1>6. \A q \in DOMAIN chunks : q \in Nat /\ chunks[q].done \in Nat /\ chunks[q].end \in Nat
                                 /\ q <= chunks[q].done /\ chunks[q].done <= chunks[q].end
    BY PlannerAssumption DEF PlannerInv, PlannerTypeOK, Chunk
  <1>7. \A q \in DOMAIN chunks : q # s => chunks[q].end <= s \/ chunks[s].end <= q
    BY <1>1, <1>6 DEF PlannerInv, NoOverlap
  <1> HIDE DEF s, done, n
  <1>8. Downloaded' = Downloaded \cup (done..(done + n - 1))
    <2>1. ASSUME NEW b \in 0..(Total - 1)
          PROVE  (\E q \in DOMAIN chunks' : q <= b /\ b < chunks'[q].done)
                   <=> \/ \E q \in DOMAIN chunks : q <= b /\ b < chunks[q].done
                       \/ b \in done..(done + n - 1)
      <3>1. b \in Nat
        BY PlannerAssumption
      <3>2. s <= b /\ b < done + n <=> (s <= b /\ b < done) \/ b \in done..(done + n - 1)
        BY <1>1, <1>2, <3>1
      <3>3. done = chunks[s].done
        BY DEF done
      <3>4. QED
        BY <1>1, <1>3, <3>2, <3>3
    <2>2. done..(done + n - 1) \subseteq 0..(Total - 1)
      BY <1>1, <1>2, <1>4, PlannerAssumption
    <2>3. QED
      BY <2>1, <2>2 DEF Downloaded
  <1>9. Downloaded \cap (done..(done + n - 1)) = {}
    <2>1. SUFFICES ASSUME NEW b \in done..(done + n - 1), NEW q \in DOMAIN chunks,
                          q <= b, b < chunks[q].done
                   PROVE  FALSE
      BY DEF Downloaded
    <2>2. b \in Nat
      BY <1>1, <1>2
    <2>3. CASE q = s
      BY <1>1, <1>2, <2>1, <2>2, <2>3 DEF done
    <2>4. CASE q # s
      BY <1>1, <1>2, <1>4, <1>6, <1>7, <2>1, <2>2, <2>4
    <2>5. QED
      BY <2>3, <2>4
  <1>10. QED
    BY <1>2, <1>3, <1>5, <1>8, <1>9 DEF n

\* Every other operation leaves the accepted bytes and their count alone.
LEMMA OthersKeepBytes ==
  ASSUME PlannerInv, PlannerInv',
         \/ PlannerAllocatePending \/ PlannerAllocateIdle
         \/ PlannerMarkRunning \/ PlannerMarkFinished \/ PlannerMarkFailed
         \/ PlannerResize \/ PlannerSplit
  PROVE  Downloaded' = Downloaded /\ accepted_bytes' = accepted_bytes
PROOF
  <1> DEFINE Kept == Downloaded' = Downloaded /\ accepted_bytes' = accepted_bytes
  <1> USE DEF PlannerInv
  <1>1. CASE PlannerAllocatePending
    <2>1. PICK start \in 0..Total, end \in 0..Total, r \in Runners :
            CanAllocate(start, end) /\ AllocatePending(start, end, r)
      BY <1>1 DEF PlannerAllocatePending
    <2>2. start \notin DOMAIN chunks
      BY <2>1, AllocatedIsFree, PlannerAssumption DEF PlannerTypeOK, CanAllocate, Chunk
    <2>3. QED
      BY <2>1, <2>2, SameDownloaded DEF AllocatePending, InsertKey, NewChunk
  <1>2. CASE PlannerAllocateIdle
    <2>1. PICK start \in 0..Total, end \in 0..Total :
            CanAllocate(start, end) /\ AllocateIdle(start, end)
      BY <1>2 DEF PlannerAllocateIdle
    <2>2. start \notin DOMAIN chunks
      BY <2>1, AllocatedIsFree, PlannerAssumption DEF PlannerTypeOK, CanAllocate, Chunk
    <2>3. QED
      BY <2>1, <2>2, SameDownloaded DEF AllocateIdle, InsertKey, NewChunk
  <1>3. CASE PlannerMarkRunning
    BY <1>3, SameDownloaded DEF PlannerMarkRunning, MarkRunning, PlannerTypeOK, Chunk, HasRunner
  <1>4. CASE PlannerMarkFinished
    BY <1>4, SameDownloaded DEF PlannerMarkFinished, MarkFinished, PlannerTypeOK, Chunk, HasRunner
  <1>5. CASE PlannerMarkFailed
    <2>1. PICK r \in Runners : HasRunner(r) /\ MarkFailed(r)
      BY <1>5 DEF PlannerMarkFailed
    <2>2. runner_to_chunk[r] \in DOMAIN chunks
      BY <2>1 DEF PlannerTypeOK, HasRunner
    <2>3. CASE chunks[runner_to_chunk[r]].done = runner_to_chunk[r]
      BY <2>1, <2>2, <2>3, SameDownloaded DEF MarkFailed, RemoveKey
    <2>4. CASE chunks[runner_to_chunk[r]].done # runner_to_chunk[r]
      BY <2>1, <2>2, <2>4, SameDownloaded DEF MarkFailed, PlannerTypeOK, Chunk
    <2>5. QED
      BY <2>3, <2>4
  <1>6. CASE PlannerResize
    BY <1>6, SameDownloaded DEF PlannerResize, ResizeRunnerState, PlannerTypeOK, Chunk, HasRunner
  <1>7. CASE PlannerSplit
    <2>1. PICK r \in Runners, new_runner \in Runners, split_pos \in 0..Total :
            /\ HasRunner(r) /\ CanSplitAt(r, split_pos)
            /\ SplitChunk(r, split_pos, new_runner)
      BY <1>7 DEF PlannerSplit
    <2>2. runner_to_chunk[r] \in DOMAIN chunks
      BY <2>1 DEF PlannerTypeOK, HasRunner
    <2>3. split_pos \notin DOMAIN chunks
      BY <2>1, <2>2, PlannerAssumption
      DEF PlannerTypeOK, NoOverlap, Chunk, CanSplitAt, RunnerChunk
    <2>4. QED
      BY <2>1, <2>2, <2>3, SameDownloaded DEF SplitChunk, InsertKey, NewChunk, PlannerTypeOK, Chunk
  <1>8. QED
    BY <1>1, <1>2, <1>3, <1>4, <1>5, <1>6, <1>7

\* No operation of the planner ever drops accepted bytes.
THEOREM PlannerDropsNothing == PlannerSpec => NothingDropped
PROOF
  <1>1. ASSUME PlannerInv, PlannerInv', [PlannerNext]_plannerVars
        PROVE  [Downloaded \subseteq Downloaded']_plannerVars
    <2>1. CASE UNCHANGED plannerVars
      BY <2>1
    <2>2. CASE PlannerUpdateProgress
      BY <1>1, <2>2, UpdateAddsBytes DEF PlannerUpdateProgress
    <2>3. CASE PlannerNext /\ ~PlannerUpdateProgress
      BY <1>1, <2>3, OthersKeepBytes DEF PlannerNext
    <2>4. QED
      BY <1>1, <2>1, <2>2, <2>3
  <1>2. QED
    BY <1>1, PlannerInvariant, PTL DEF PlannerSpec, NothingDropped

\* The running count of accepted bytes is the number of distinct bytes of the
\* file that were accepted: no byte is ever counted, or written, twice.
THEOREM PlannerCountsBytes == PlannerSpec => []AcceptedIsDownloaded
PROOF
  <1>1. PlannerInit => AcceptedIsDownloaded
    <2>1. PlannerInit => Downloaded = {}
      BY DEF PlannerInit, Downloaded
    <2>2. QED
      BY <2>1, FS_EmptySet DEF PlannerInit, AcceptedIsDownloaded
  <1>2. ASSUME PlannerInv, PlannerInv', AcceptedIsDownloaded, [PlannerNext]_plannerVars
        PROVE  AcceptedIsDownloaded'
    <2>1. CASE UNCHANGED plannerVars
      BY <1>2, <2>1 DEF plannerVars, AcceptedIsDownloaded, Downloaded
    <2>2. CASE PlannerUpdateProgress
      <3>1. PICK r \in Runners, bytes \in 0..Total : HasRunner(r) /\ UpdateProgress(r, bytes)
        BY <2>2 DEF PlannerUpdateProgress
      <3> DEFINE done == RunnerChunk(r).done
                 n == AcceptedLength(r, bytes)
                 New == done..(done + n - 1)
      <3>2. /\ n \in Nat
            /\ accepted_bytes' = accepted_bytes + n
            /\ Downloaded' = Downloaded \cup New
            /\ Downloaded \cap New = {}
        BY <1>2, <3>1, UpdateAddsBytes
      <3>3. done \in Nat
        BY <1>2, <3>1, PlannerAssumption DEF PlannerInv, PlannerTypeOK, HasRunner, RunnerChunk, Chunk
      <3> HIDE DEF done, n
      <3>4. IsFiniteSet(New) /\ Cardinality(New) = n
        <4>1. IsFiniteSet(New) /\ Cardinality(New) = IF done > done + n - 1 THEN 0
                                                     ELSE (done + n - 1) - done + 1
          BY <3>2, <3>3, FS_Interval
        <4>2. QED
          BY <3>2, <3>3, <4>1
      <3>5. IsFiniteSet(Downloaded)
        <4>1. IsFiniteSet(0..(Total - 1))
          BY FS_Interval, PlannerAssumption
        <4>2. Downloaded \subseteq 0..(Total - 1)
          BY DEF Downloaded
        <4>3. QED
          BY <4>1, <4>2, FS_Subset
      <3>6. Cardinality(Downloaded \cup New)
              = Cardinality(Downloaded) + Cardinality(New) - Cardinality(Downloaded \cap New)
        BY <3>4, <3>5, FS_Union
      <3>7. Cardinality(Downloaded \cap New) = 0
        BY <3>2, FS_EmptySet
      <3>8. QED
        BY <1>2, <3>2, <3>4, <3>5, <3>6, <3>7, FS_CardinalityType DEF AcceptedIsDownloaded
    <2>3. CASE PlannerNext /\ ~PlannerUpdateProgress
      BY <1>2, <2>3, OthersKeepBytes DEF PlannerNext, AcceptedIsDownloaded
    <2>4. QED
      BY <1>2, <2>1, <2>2, <2>3
  <1>3. QED
    BY <1>1, <1>2, PlannerInvariant, PTL DEF PlannerSpec

-----------------------------------------------------------------------------
(* The bytes that are free. *)

\* The scan of get_available_ranges overlooks no hole.
LEMMA HoleIsAvailable ==
  ASSUME PlannerInv, NEW b \in 0..(Total - 1),
         \A s \in DOMAIN chunks : ~(s <= b /\ b < chunks[s].end)
  PROVE  \E g \in AvailableRanges : g.start <= b /\ b < g.end
PROOF
  <1>1. b \in Nat /\ b < Total /\ Total \in Nat
    BY PlannerAssumption
  <1>2. \A q \in DOMAIN chunks : q \in Nat /\ q < Total /\ chunks[q].end \in 1..Total
    BY PlannerAssumption DEF PlannerInv, PlannerTypeOK, Chunk
  <1>3. SUFFICES \E c \in 0..Total, e \in DOMAIN chunks \cup {Total} :
                    c <= b /\ b < e /\ IsCursor(c, e)
    <2>1. SUFFICES ASSUME NEW c \in 0..Total, NEW e \in DOMAIN chunks \cup {Total},
                          c <= b, b < e, IsCursor(c, e)
                   PROVE  [start |-> c, end |-> e] \in AvailableRanges
      OBVIOUS
    <2>2. QED
      BY <1>1, <1>2, <2>1 DEF AvailableRanges
  <1> DEFINE Low == {q \in DOMAIN chunks : q <= b}
             High == {q \in DOMAIN chunks : q > b}
  <1>4. PICK e \in DOMAIN chunks \cup {Total} :
           b < e /\ \A q \in DOMAIN chunks : q < e => q \in Low
    <2>1. CASE High = {}
      BY <1>1, <1>2, <2>1
    <2>2. CASE High # {}
      <3>1. High \subseteq Nat
        BY <1>2
      <3>2. PICK m \in High : \A q \in High : m <= q
        BY <2>2, <3>1, LeastElement, Zenon
      <3>3. QED
        BY <1>1, <1>2, <3>2
    <2>3. QED
      BY <2>1, <2>2
  <1>5. e \in Nat
    BY <1>1, <1>2
  <1>6. CASE Low = {}
    <2>1. IsCursor(0, e)
      BY <1>2, <1>4, <1>5, <1>6 DEF IsCursor
    <2>2. QED
      BY <1>1, <1>4, <2>1
  <1>7. CASE Low # {}
    <2>1. Low \subseteq Nat /\ \A q \in Low : q <= b
      BY <1>2
    <2>2. PICK p \in Low : \A q \in Low : q <= p
      BY <1>1, <1>7, <2>1, GreatestElement, Zenon
    <2>3. p \in DOMAIN chunks /\ p < e /\ chunks[p].end <= b
      BY <1>1, <1>2, <1>4, <1>5, <2>2
    <2>4. IsCursor(chunks[p].end, e)
      BY <1>4, <2>2, <2>3 DEF IsCursor, IsLastBefore
    <2>5. QED
      BY <1>1, <1>2, <1>4, <2>3, <2>4
  <1>8. QED
    BY <1>6, <1>7

\* A range that get_available_ranges returns meets no chunk.
LEMMA AvailableIsHole ==
  ASSUME PlannerInv, NEW b \in 0..(Total - 1),
         NEW g \in AvailableRanges, g.start <= b, b < g.end,
         NEW s \in DOMAIN chunks, s <= b
  PROVE  chunks[s].end <= b
PROOF
  <1>1. \A q \in DOMAIN chunks : q \in Nat /\ chunks[q].end \in Nat /\ q < chunks[q].end
    BY PlannerAssumption DEF PlannerInv, PlannerTypeOK, Chunk
  <1>2. g.start \in Nat /\ g.end \in Nat /\ IsCursor(g.start, g.end)
    BY <1>1, PlannerAssumption DEF AvailableRanges
  <1>3. b \in Nat /\ s < g.end
    BY <1>1, <1>2, PlannerAssumption
  <1>4. PICK p \in DOMAIN chunks : IsLastBefore(p, g.end) /\ g.start = chunks[p].end
    BY <1>1, <1>2, <1>3 DEF IsCursor
  <1>5. s <= p
    BY <1>3, <1>4 DEF IsLastBefore
  <1>6. CASE s = p
    BY <1>4, <1>6
  <1>7. CASE s < p
    <2>1. chunks[s].end <= p
      BY <1>7 DEF PlannerInv, NoOverlap
    <2>2. QED
      BY <1>1, <1>3, <1>4, <2>1
  <1>8. QED
    BY <1>1, <1>5, <1>6, <1>7

\* get_available_ranges returns exactly the bytes that no chunk holds, so that
\* none is requested twice at a time and none is never requested.
THEOREM PlannerFreeRanges == PlannerSpec => []AvailableIsUnallocated
PROOF
  <1>1. ASSUME PlannerInv PROVE AvailableIsUnallocated
    <2>1. ASSUME NEW b \in 0..(Total - 1)
          PROVE  (\E g \in AvailableRanges : g.start <= b /\ b < g.end)
                   <=> (\A s \in DOMAIN chunks : ~(s <= b /\ b < chunks[s].end))
      <3>1. ASSUME NEW g \in AvailableRanges, g.start <= b, b < g.end,
                   NEW s \in DOMAIN chunks, s <= b, b < chunks[s].end
            PROVE  FALSE
        <4>1. chunks[s].end <= b
          BY <1>1, <3>1, AvailableIsHole
        <4>2. b \in Nat /\ chunks[s].end \in Nat
          BY <1>1, PlannerAssumption DEF PlannerInv, PlannerTypeOK, Chunk
        <4>3. QED
          BY <3>1, <4>1, <4>2
      <3>2. QED
        BY <1>1, <3>1, HoleIsAvailable
    <2>2. QED
      BY <2>1 DEF AvailableIsUnallocated
  <1>2. QED
    BY <1>1, PlannerInvariant, PTL

\* A planner that reports completion has accepted every byte of the file.
LEMMA CompleteCovers ==
  ASSUME PlannerInv, IsComplete
  PROVE  Downloaded = 0..(Total - 1)
PROOF
  <1>1. SUFFICES ASSUME NEW b \in 0..(Total - 1)
                 PROVE  \E s \in DOMAIN chunks : s <= b /\ b < chunks[s].done
    BY DEF Downloaded
  <1>2. PICK s \in DOMAIN chunks : s <= b /\ b < chunks[s].end
    BY HoleIsAvailable DEF IsComplete
  <1>3. chunks[s].done = chunks[s].end
    BY DEF IsComplete, PlannerInv, FinishedIsDownloaded
  <1>4. QED
    BY <1>2, <1>3

\* Completion is only reported for the whole file.
THEOREM PlannerCompleteness == PlannerSpec => []CompleteIsWholeFile
PROOF
  <1>1. PlannerInv => CompleteIsWholeFile
    BY CompleteCovers DEF CompleteIsWholeFile
  <1>2. QED
    BY <1>1, PlannerInvariant, PTL

\* The type invariant, and the safety invariants the runs check.
THEOREM PlannerTypeCorrect == PlannerSpec => []PlannerTypeOK
PROOF
  <1>1. PlannerInv => PlannerTypeOK
    BY DEF PlannerInv
  <1>2. QED
    BY <1>1, PlannerInvariant, PTL

\* Allocated ranges never overlap, although only one chunk is compared.
THEOREM PlannerNoOverlap == PlannerSpec => []NoOverlap
PROOF
  <1>1. PlannerInv => NoOverlap
    BY DEF PlannerInv
  <1>2. QED
    BY <1>1, PlannerInvariant, PTL

\* A runner of the map and the runner of its chunk are the same.
THEOREM PlannerMapping == PlannerSpec => []MappingAgrees
PROOF
  <1>1. PlannerInv => MappingAgrees
    BY DEF PlannerInv
  <1>2. QED
    BY <1>1, PlannerInvariant, PTL

\* Nothing counts as finished before all of it was accepted.
THEOREM PlannerFinished == PlannerSpec => []FinishedIsDownloaded
PROOF
  <1>1. PlannerInv => FinishedIsDownloaded
    BY DEF PlannerInv
  <1>2. QED
    BY <1>1, PlannerInvariant, PTL
=============================================================================
