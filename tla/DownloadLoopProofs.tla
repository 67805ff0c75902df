------------------------ MODULE DownloadLoopProofs -------------------------
(***************************************************************************)
(* Proofs about DownloadLoop, for every file size, every set of runners    *)
(* and every bound of the channels, the buffers and the writer.            *)
(*                                                                         *)
(* LoopInv is the inductive invariant.  What it says of a runner is a      *)
(* predicate of values, Healthy, so that a step of one runner is seen to   *)
(* leave the others alone.                                                 *)
(***************************************************************************)
EXTENDS DownloadLoop, ChunkPlannerProofs

Success == {"Finished", "ExceededTotalSize"}

\* The phases in which a runner holds a connection and has a limit.
Live == {"connecting", "publishing_started", "streaming"}

\* A runner whose receivers the manager holds: it has a total, and no control
\* error waits for the end of a push.
Run == [phase : Phases, until : Nat, read : Nat, total : Nat, downloaded : Nat,
        buffer : Seq(Nat), item : Seq(Nat), staged : Seq(Nat),
        then : Continuations \cup {"None"}, deferred : {"None"},
        result : Results \cup {"None"}]

RunOK(s) ==
  /\ s \in Run
  /\ Len(s.buffer) <= BufferSize
  /\ s.staged # <<>> => s.then # "None"
  /\ s.phase \in {"draining", "publishing_stopped"} => s.result # "None"
  /\ s.phase \in Live => s.read <= s.until

\* The bytes of q are those of the file from a position on.
InOrder(q, position) == \A i \in 1..Len(q) : q[i] = position + i - 1

\* Where the i-th of the frames begins, when the chunk stands at done.
From(done, frames, i) == IF i = 1 THEN done ELSE frames[i - 1][Len(frames[i - 1])] + 1

Pushed(done, frames) == From(done, frames, Len(frames) + 1)

FramesOK(done, frames) ==
  \A i \in 1..Len(frames) : InOrder(frames[i], From(done, frames, i))

\* What a runner holds goes on from the position up to which it has pushed.
Holds(s, pushed) ==
  /\ InOrder(s.staged, pushed)
  /\ InOrder(s.buffer, pushed + Len(s.staged))
  /\ InOrder(s.item, pushed + Len(s.staged) + Len(s.buffer))
  /\ s.read = pushed + Len(s.staged) + Len(s.buffer) + Len(s.item)

\* The content of a runner of the chunk from start to end: while it works it has
\* pushed what it counts as downloaded; success is reported past the end only.
Fits(s, start, end, pushed) ==
  /\ s.phase \in Live =>
       /\ start + s.downloaded = pushed
       /\ Holds(s, pushed)
       /\ s.staged = <<>> => s.item = <<>>
  /\ s.phase \notin Live => s.buffer = <<>> /\ s.staged = <<>>
  /\ s.phase = "draining" /\ s.result \in Success => end <= pushed
  /\ s.phase = "publishing_stopped" => s.result \notin Success

\* The limit in force or in the mailbox is the length of the chunk.
LimitOK(s, limit, start, end) ==
  s.phase \in Live => \/ limit = {} /\ s.total = end - start
                      \/ limit = {end - start} /\ end - start < s.total

\* `Started` comes first, and data only after the manager has taken it.
EventsOK(s, frames, events, streamed, start, chunk) ==
  /\ s.phase \in {"connecting", "publishing_started"} =>
       /\ events = <<>> /\ frames = <<>> /\ chunk.status = "Pending"
       /\ s.downloaded = 0 /\ s.buffer = <<>> /\ s.staged = <<>> /\ s.item = <<>>
  /\ chunk.status = "Pending" => chunk.done = start /\ ~streamed
  /\ \A i \in 1..Len(events) : events[i] = "Started" => i = 1 /\ chunk.status = "Pending"

Healthy(s, frames, events, limit, streamed, start, chunk) ==
  /\ RunOK(s)
  /\ frames \in Seq(Seq(Nat) \ {<<>>})
  /\ events \in Seq({"Started"} \cup Results)
  /\ LimitOK(s, limit, start, chunk.end)
  /\ EventsOK(s, frames, events, streamed, start, chunk)
  /\ chunk.done < chunk.end =>
       /\ FramesOK(chunk.done, frames)
       /\ Fits(s, start, chunk.end, Pushed(chunk.done, frames))
       /\ \A i \in 1..Len(events) : events[i] \notin Success

RunnerOK(r) == receiving[r] =>
  Healthy(run[r], data[r], lifecycle[r], mailbox[r], r \in streams,
          runner_to_chunk[r], RunnerChunk(r))

-----------------------------------------------------------------------------
Actions == [kind : {"CreateTask"}, start : Nat, end : Nat]
           \cup [kind : {"Split"}, runner : Runners, start : Nat, end : Nat]

Domains ==
  /\ DOMAIN run = Runners /\ DOMAIN data = Runners /\ DOMAIN lifecycle = Runners
  /\ DOMAIN mailbox = Runners /\ receiving \in [Runners -> BOOLEAN]
  /\ loop \in LoopPhases
  /\ ids \subseteq Runners /\ spawn_failures \in Seq(Runners) /\ streams \subseteq Runners
  /\ max_concurrency \in Nat

Rejected(r) == \E i \in 1..Len(spawn_failures) : spawn_failures[i] = r

\* The tables of the manager.
Tables ==
  /\ \A r \in Runners :
       /\ r \in ids <=> HasRunner(r)
       /\ r \in ids <=> receiving[r] \/ Rejected(r)
       /\ ~receiving[r] => /\ run[r] = NoRun /\ data[r] = <<>> /\ lifecycle[r] = <<>>
                           /\ mailbox[r] = {} /\ r \notin streams
       /\ Rejected(r) => ~receiving[r] /\ RunnerChunk(r).status = "Pending"
  /\ \A i, j \in 1..Len(spawn_failures) : spawn_failures[i] = spawn_failures[j] => i = j

Planned == loop = "applying" =>
  /\ todo \in Seq(Actions) /\ todo # <<>>
  /\ \A i \in 1..Len(todo) : todo[i].kind = "Split" =>
       receiving[todo[i].runner] /\ todo[i].start <= todo[i].end

\* The writes.
Write == [start : Nat, bytes : Seq(Nat)]

Ending == loop \in {"returned", "finishing", "done"}

WriterOK ==
  /\ in_flight \in Seq(Write) /\ pending_write \in Seq(Write) /\ Len(pending_write) <= 1
  /\ saw_error \in BOOLEAN
  /\ file \in [0..(Total - 1) -> {Hole} \cup Nat]
  /\ pending_write # <<>> /\ ~saw_error => in_flight # <<>>
  /\ saw_error => outcome # "Finished" /\ Ending
  /\ outcome = "Finished" => Downloaded = 0..(Total - 1) /\ Ending
  /\ loop = "done" => in_flight = <<>>

\* The writes q on their way are of accepted bytes, each at its place and once.
OnTheWay(q, stored, accepted) ==
  /\ \A b \in 0..(Total - 1) : stored[b] \in {Hole, b} /\ (stored[b] = b => b \in accepted)
  /\ \A i \in 1..Len(q) : \A b \in WriteRangeOf(q[i]) :
       b \in accepted /\ q[i].bytes[b - q[i].start + 1] = b /\ stored[b] = Hole
  /\ \A i, j \in 1..Len(q) : i # j => WriteRangeOf(q[i]) \cap WriteRangeOf(q[j]) = {}

\* Every accepted byte is in the file or on its way to it.
AllThere(q, stored, accepted) ==
  \A b \in accepted : stored[b] = b \/ \E i \in 1..Len(q) : b \in WriteRangeOf(q[i])

Written ==
  /\ WriterOK
  /\ OnTheWay(Outstanding, file, Downloaded)
  /\ ~saw_error => AllThere(Outstanding, file, Downloaded)

Tended ==
  /\ Managing => Tables
  /\ ~Managing => \A r \in Runners : ~receiving[r]
  /\ \A r \in Runners : RunnerOK(r)

LoopInv == PlannerInv /\ Domains /\ Tended /\ Planned /\ Written

-----------------------------------------------------------------------------
(* The state of a runner after a step. *)

\* What concatenation does, index by index.
LEMMA Concatenation ==
  ASSUME NEW S, NEW p \in Seq(S), NEW q \in Seq(S)
  PROVE  /\ p \o q \in Seq(S) /\ Len(p \o q) = Len(p) + Len(q)
         /\ \A i \in 1..(Len(p) + Len(q)) :
              (p \o q)[i] = IF i <= Len(p) THEN p[i] ELSE q[i - Len(p)]
PROOF
  OBVIOUS

\* A runner in state s that reads its stream goes on to stream or stops.
Moves(s, t) ==
  /\ RunOK(t)
  /\ t.phase \in {"streaming", "draining", "publishing_stopped"}
  /\ t.phase = "streaming" => t.total = s.total

\* What it holds after that is what it held before.
FitsAfter(s, t) == \A start, end, pushed \in Nat :
  start + s.downloaded = pushed /\ Holds(s, pushed) /\ end - start <= s.total
    => Fits(t, start, end, pushed)

Stops == {"Validate", "Timeout"} \cup StreamErrors

\* What begin_stop keeps: the result, and where the runner goes on.
LEMMA BeginStopRun ==
  ASSUME NEW result \in Results
  PROVE  LET t == BeginStop(result)
         IN  /\ t.phase = IF ShouldWaitDataDrain(result) THEN "draining" ELSE "publishing_stopped"
             /\ t.result = result
             /\ t.buffer = <<>> /\ t.staged = <<>> /\ t.then = "None"
             /\ t \in Run
PROOF
  <1> DEFINE phase == IF ShouldWaitDataDrain(result) THEN "draining" ELSE "publishing_stopped"
  <1>1. phase \in Phases
    BY DEF Phases
  <1> HIDE DEF phase
  <1>2. BeginStop(result) = [NoRun EXCEPT !.phase = phase, !.result = result]
    BY DEF BeginStop, phase
  <1>3. NoRun \in Run
    BY DEF NoRun, Run, Phases
  <1>4. [NoRun EXCEPT !.phase = phase, !.result = result] \in Run
    BY <1>1, <1>3 DEF Run
  <1>5. /\ BeginStop(result).phase = phase /\ BeginStop(result).result = result
        /\ BeginStop(result).buffer = <<>> /\ BeginStop(result).staged = <<>>
        /\ BeginStop(result).then = "None"
    BY <1>2 DEF NoRun
  <1>6. QED
    BY <1>2, <1>4, <1>5 DEF phase

\* StopAfter reports success only of a runner that pushed up to its limit.
LEMMA StopMoves ==
  ASSUME NEW s, RunOK(s), NEW then \in Stops
  PROVE  Moves(s, StopAfter(s, then)) /\ FitsAfter(s, StopAfter(s, then))
PROOF
  <1> DEFINE result == IF then = "Validate" THEN ValidateSize(s) ELSE then
             t == BeginStop(result)
  <1>1. StopAfter(s, then) = t
    BY DEF StopAfter
  <1>2. s.total \in Nat /\ s.downloaded \in Nat
    BY DEF RunOK, Run
  <1>3. /\ ValidateSize(s) \in {"Finished", "SmallerThanTotalSize", "ExceededTotalSize"}
        /\ ValidateSize(s) \in Success => s.total <= s.downloaded
    BY <1>2 DEF ValidateSize, NoTotal, Success
  <1>4. /\ result \in Results /\ result # "None"
        /\ result \in Success => s.total <= s.downloaded
        /\ result \in Success => ShouldWaitDataDrain(result)
    BY <1>3, RunnerAssumption DEF Stops, Results, Success, ShouldWaitDataDrain, RunnerAssumption
  <1> HIDE DEF result
  <1>5. /\ t.phase = IF ShouldWaitDataDrain(result) THEN "draining" ELSE "publishing_stopped"
        /\ t.result = result
        /\ t.buffer = <<>> /\ t.staged = <<>> /\ t.then = "None"
        /\ t \in Run
    BY <1>4, BeginStopRun
  <1>6. Moves(s, t)
    BY <1>4, <1>5, RunnerAssumption DEF Moves, RunOK, Live, RunnerAssumption
  <1>7. FitsAfter(s, t)
    BY <1>2, <1>4, <1>5 DEF FitsAfter, Fits, Live
  <1>8. QED
    BY <1>1, <1>6, <1>7

\* The same of a stop that needs no look at the runner.
LEMMA BeginStopMoves ==
  ASSUME NEW s, NEW result \in Results, result \notin Success
  PROVE  Moves(s, BeginStop(result)) /\ FitsAfter(s, BeginStop(result))
PROOF
  <1> DEFINE t == BeginStop(result)
  <1>1. result # "None"
    BY RunnerAssumption DEF Results, RunnerAssumption
  <1>2. /\ t.phase \in {"draining", "publishing_stopped"}
        /\ t.result = result
        /\ t.buffer = <<>> /\ t.staged = <<>> /\ t.then = "None"
        /\ t \in Run
    BY BeginStopRun
  <1>3. QED
    BY <1>1, <1>2, RunnerAssumption DEF Moves, FitsAfter, Fits, RunOK, Live, RunnerAssumption

LEMMA FlushMoves ==
  ASSUME NEW s, RunOK(s), s.phase = "streaming", s.staged = <<>>,
         NEW then \in Stops \cup {"ResumeItem"}, then = "ResumeItem" => s.buffer # <<>>
  PROVE  Moves(s, Flush(s, then)) /\ FitsAfter(s, Flush(s, then))
PROOF
  <1>1. CASE s.buffer = <<>>
    <2>1. then \in Stops /\ Flush(s, then) = StopAfter(s, then)
      BY <1>1 DEF Flush
    <2>2. QED
      BY <2>1, StopMoves
  <1>2. CASE s.buffer # <<>>
    <2> DEFINE t == [s EXCEPT !.staged = s.buffer, !.buffer = <<>>, !.then = then]
    <2>1. Flush(s, then) = t
      BY <1>2 DEF Flush
    <2>2. s \in Run
      BY DEF RunOK
    <2>3. /\ t.phase = "streaming" /\ t.total = s.total /\ t.downloaded = s.downloaded
          /\ t.staged = s.buffer /\ t.buffer = <<>> /\ t.item = s.item /\ t.read = s.read
          /\ t.then = then /\ t.until = s.until
      BY <2>2 DEF Run
    <2>4. then # "None" /\ then \in Continuations
      BY RunnerAssumption DEF Stops, Continuations, RunnerAssumption
    <2>5. t \in Run
      BY <2>2, <2>4 DEF Run
    <2>6. Moves(s, t)
      BY <2>3, <2>4, <2>5, RunnerAssumption DEF Moves, RunOK, Live, RunnerAssumption
    <2>7. ASSUME NEW pushed \in Nat, Holds(s, pushed)
          PROVE  Holds(t, pushed)
      <3>1. Len(s.buffer) \in Nat /\ Len(s.item) \in Nat /\ Len(<<>>) = 0
        BY <2>2 DEF Run
      <3>2. QED
        BY <2>3, <2>7, <3>1 DEF Holds, InOrder
    <2> HIDE DEF t
    <2>8. FitsAfter(s, t)
      BY <1>2, <2>3, <2>7 DEF FitsAfter, Fits, Live
    <2>9. QED
      BY <2>1, <2>6, <2>8
  <1>3. QED
    BY <1>1, <1>2

LEMMA TakeKeeps ==
  ASSUME NEW s, RunOK(s), s.phase = "streaming", s.staged = <<>>,
         NEW n \in 0..Len(s.item), Len(s.buffer) + n <= BufferSize
  PROVE  /\ RunOK(Take(s, n))
         /\ Take(s, n).phase = "streaming" /\ Take(s, n).staged = <<>>
         /\ Take(s, n).total = s.total /\ Take(s, n).downloaded = s.downloaded
         /\ Len(Take(s, n).buffer) = Len(s.buffer) + n
         /\ Len(Take(s, n).item) = Len(s.item) - n
         /\ \A pushed \in Nat : Holds(s, pushed) => Holds(Take(s, n), pushed)
PROOF
  <1> DEFINE t == Take(s, n)
             first == SubSeq(s.item, 1, n)
             rest == SubSeq(s.item, n + 1, Len(s.item))
  <1>1. s \in Run /\ s.buffer \in Seq(Nat) /\ s.item \in Seq(Nat)
    BY DEF RunOK, Run
  <1>2. Len(s.item) \in Nat /\ Len(s.buffer) \in Nat /\ n \in Nat /\ n <= Len(s.item)
    BY <1>1
  <1>3. /\ first \in Seq(Nat) /\ Len(first) = n
        /\ \A i \in 1..n : first[i] = s.item[i]
    BY <1>1, <1>2
  <1>4. /\ rest \in Seq(Nat) /\ Len(rest) = Len(s.item) - n
        /\ \A i \in 1..(Len(s.item) - n) : rest[i] = s.item[n + i]
    BY <1>1, <1>2
  <1> HIDE DEF first, rest
  <1>5. /\ s.buffer \o first \in Seq(Nat) /\ Len(s.buffer \o first) = Len(s.buffer) + n
        /\ \A i \in 1..(Len(s.buffer) + n) :
             (s.buffer \o first)[i] = IF i <= Len(s.buffer) THEN s.buffer[i]
                                      ELSE first[i - Len(s.buffer)]
    <2>1. /\ s.buffer \o first \in Seq(Nat) /\ Len(s.buffer \o first) = Len(s.buffer) + Len(first)
          /\ \A i \in 1..(Len(s.buffer) + Len(first)) :
               (s.buffer \o first)[i] = IF i <= Len(s.buffer) THEN s.buffer[i]
                                        ELSE first[i - Len(s.buffer)]
      <3>1. \A p, q \in Seq(Nat) :
              /\ p \o q \in Seq(Nat) /\ Len(p \o q) = Len(p) + Len(q)
              /\ \A i \in 1..(Len(p) + Len(q)) :
                   (p \o q)[i] = IF i <= Len(p) THEN p[i] ELSE q[i - Len(p)]
        BY Concatenation
      <3>2. QED
        BY <1>1, <1>3, <3>1, Zenon
    <2> DEFINE all == s.buffer \o first
    <2> HIDE DEF all
    <2>2. QED
      BY <1>3, <2>1 DEF all
  <1>6. /\ t.phase = s.phase /\ t.total = s.total /\ t.downloaded = s.downloaded
        /\ t.staged = s.staged /\ t.read = s.read /\ t.then = s.then /\ t.until = s.until
        /\ t.buffer = s.buffer \o first /\ t.item = rest
    BY <1>1 DEF Take, Run, first, rest
  <1>7. t \in Run
    BY <1>1, <1>4, <1>5 DEF Take, Run, first, rest
  <1> HIDE DEF t
  <1>8. RunOK(t)
    BY <1>5, <1>6, <1>7 DEF RunOK, Live
  <1>9. ASSUME NEW pushed \in Nat, Holds(s, pushed)
        PROVE  Holds(t, pushed)
    <2>1. InOrder(t.buffer, pushed + Len(t.staged))
      <3>1. SUFFICES ASSUME NEW i \in 1..(Len(s.buffer) + n)
                     PROVE  (s.buffer \o first)[i] = pushed + i - 1
        BY <1>5, <1>6 DEF InOrder
      <3>2. CASE i <= Len(s.buffer)
        BY <1>2, <1>5, <1>9, <3>2 DEF Holds, InOrder
      <3>3. CASE i > Len(s.buffer)
        <4>1. i - Len(s.buffer) \in 1..n
          BY <1>2, <3>3
        <4>2. (s.buffer \o first)[i] = s.item[i - Len(s.buffer)]
          BY <1>2, <1>3, <1>5, <3>3, <4>1
        <4>3. \A k \in 1..n : s.item[k] = pushed + Len(s.buffer) + k - 1
          BY <1>2, <1>9 DEF Holds, InOrder
        <4>4. QED
          BY <1>2, <4>1, <4>2, <4>3
      <3>4. QED
        BY <1>2, <3>1, <3>2, <3>3, i <= Len(s.buffer) \/ i > Len(s.buffer)
    <2>2. InOrder(t.item, pushed + Len(t.staged) + Len(t.buffer))
      <3>1. \A k \in 1..Len(s.item) : s.item[k] = pushed + Len(s.buffer) + k - 1
        BY <1>2, <1>9 DEF Holds, InOrder
      <3>2. ASSUME NEW i \in 1..(Len(s.item) - n)
            PROVE  rest[i] = pushed + (Len(s.buffer) + n) + i - 1
        BY <1>2, <1>4, <3>1
      <3>3. Len(t.staged) = 0 /\ Len(t.buffer) = Len(s.buffer) + n
        BY <1>5, <1>6
      <3>4. pushed + Len(t.staged) + Len(t.buffer) = pushed + (Len(s.buffer) + n)
        BY <1>2, <3>3
      <3>5. QED
        BY <1>4, <1>6, <3>2, <3>4 DEF InOrder
    <2>3. InOrder(t.staged, pushed)
      BY <1>6 DEF InOrder
    <2>4. t.read = pushed + Len(t.staged) + Len(t.buffer) + Len(t.item)
      <3>1. s.read = pushed + Len(s.buffer) + Len(s.item)
        BY <1>2, <1>9 DEF Holds
      <3>2. Len(t.staged) = 0 /\ Len(t.buffer) = Len(s.buffer) + n /\ Len(t.item) = Len(s.item) - n
        BY <1>4, <1>5, <1>6
      <3>3. pushed + Len(s.buffer) + Len(s.item)
              = pushed + 0 + (Len(s.buffer) + n) + (Len(s.item) - n)
        <4> DEFINE held == Len(s.buffer)
                   left == Len(s.item)
        <4>1. held \in Nat /\ left \in Nat /\ n \in Nat
          BY <1>2
        <4> HIDE DEF held, left
        <4>2. pushed + held + left = pushed + 0 + (held + n) + (left - n)
          BY <4>1, SMTT(20)
        <4>3. QED
          BY <4>2 DEF held, left
      <3>4. QED
        BY <1>6, <3>1, <3>2, <3>3
    <2>5. QED
      BY <2>1, <2>2, <2>3, <2>4 DEF Holds
  <1>10. QED
    BY <1>4, <1>5, <1>6, <1>8, <1>9 DEF t

LEMMA BufferItemMoves ==
  ASSUME NEW s, RunOK(s), s.phase = "streaming", s.staged = <<>>
  PROVE  Moves(s, BufferItem(s)) /\ FitsAfter(s, BufferItem(s))
PROOF
  <1> DEFINE allowed == Allowance(s)
             writable == Smaller(Len(s.item), allowed)
             room == BufferSize - Len(s.buffer)
  <1>1. /\ s \in Run /\ s.total \in Nat /\ s.downloaded \in Nat
        /\ Len(s.buffer) \in Nat /\ Len(s.item) \in Nat
    BY DEF RunOK, Run
  <1>2. allowed \in Nat
    BY <1>1 DEF Allowance, NoTotal
  <1>3. /\ room \in Nat /\ writable \in Nat /\ writable <= Len(s.item) /\ writable <= allowed
        /\ writable = Len(s.item) \/ writable = allowed
    BY <1>1, <1>2, RunnerAssumption DEF RunOK, Smaller, RunnerAssumption
  <1> HIDE DEF allowed, writable
  <1>4. ASSUME NEW n \in 0..Len(s.item), Len(s.buffer) + n <= BufferSize,
               NEW u, Moves(Take(s, n), u), FitsAfter(Take(s, n), u)
        PROVE  Moves(s, u) /\ FitsAfter(s, u)
    BY <1>4, TakeKeeps DEF Moves, FitsAfter
  <1>5. CASE allowed = 0
    <2>1. BufferItem(s) = Flush(s, "Validate")
      BY <1>5 DEF BufferItem, allowed
    <2>2. QED
      BY <2>1, FlushMoves DEF Stops
  <1>6. CASE allowed > 0 /\ s.item = <<>>
    <2>1. BufferItem(s) = s
      BY <1>6 DEF BufferItem, allowed
    <2>2. QED
      BY <1>6, <2>1 DEF Moves, FitsAfter, Fits, Live
  <1>7. CASE allowed > 0 /\ s.item # <<>> /\ writable > room
    <2>1. BufferItem(s) = Flush(Take(s, room), "ResumeItem")
      BY <1>3, <1>7 DEF BufferItem, allowed, writable
    <2>2. room \in 0..Len(s.item) /\ Len(s.buffer) + room <= BufferSize
      BY <1>1, <1>3, <1>7, RunnerAssumption DEF RunnerAssumption
    <2>3. /\ RunOK(Take(s, room)) /\ Take(s, room).phase = "streaming"
          /\ Take(s, room).staged = <<>> /\ Len(Take(s, room).buffer) = BufferSize
      BY <1>1, <2>2, TakeKeeps, RunnerAssumption DEF RunnerAssumption
    <2>4. Take(s, room).buffer # <<>>
      BY <2>3, RunnerAssumption DEF RunnerAssumption
    <2>5. Moves(Take(s, room), BufferItem(s)) /\ FitsAfter(Take(s, room), BufferItem(s))
      BY <2>1, <2>3, <2>4, FlushMoves
    <2>6. QED
      BY <1>4, <2>2, <2>5
  <1>8. CASE allowed > 0 /\ s.item # <<>> /\ writable <= room
    <2> DEFINE t == Take(s, writable)
    <2>1. writable \in 0..Len(s.item) /\ Len(s.buffer) + writable <= BufferSize
      BY <1>1, <1>3, <1>8, RunnerAssumption DEF RunnerAssumption
    <2>2. /\ RunOK(t) /\ t.phase = "streaming" /\ t.staged = <<>>
          /\ Len(t.item) = Len(s.item) - writable
      BY <2>1, TakeKeeps
    <2> HIDE DEF t
    <2>3. CASE writable = allowed
      <3>1. BufferItem(s) = Flush(t, "Validate")
        BY <1>8, <2>3 DEF BufferItem, allowed, writable, t
      <3>2. Moves(t, BufferItem(s)) /\ FitsAfter(t, BufferItem(s))
        BY <2>2, <3>1, FlushMoves DEF Stops
      <3>3. QED
        BY <1>4, <2>1, <3>2 DEF t
    <2>4. CASE writable # allowed
      <3>1. BufferItem(s) = t
        BY <1>8, <2>4 DEF BufferItem, allowed, writable, t
      <3>2. t.item \in Seq(Nat) /\ Len(t.item) = 0
        BY <1>1, <1>3, <2>2, <2>4 DEF RunOK, Run
      <3>3. t.item = <<>>
        BY <3>2
      <3>4. Moves(t, t) /\ FitsAfter(t, t)
        BY <2>2, <3>3 DEF Moves, FitsAfter, Fits, Live
      <3>5. QED
        BY <1>4, <2>1, <3>1, <3>4 DEF t
    <2>5. QED
      BY <2>3, <2>4
  <1>9. QED
    BY <1>2, <1>3, <1>5, <1>6, <1>7, <1>8

-----------------------------------------------------------------------------
(* A step of a runner keeps it healthy. *)

ChunkOK(start, chunk) ==
  /\ start \in Nat /\ chunk.done \in Nat /\ chunk.end \in Nat
  /\ start <= chunk.done /\ chunk.done <= chunk.end

LEMMA FromIsNat ==
  ASSUME NEW done \in Nat, NEW frames \in Seq(Seq(Nat) \ {<<>>}), NEW i \in 1..(Len(frames) + 1)
  PROVE  From(done, frames, i) \in Nat
PROOF
  <1>1. CASE i = 1
    BY <1>1 DEF From
  <1>2. CASE i # 1
    <2>1. i - 1 \in 1..Len(frames) /\ Len(frames) \in Nat
      BY <1>2
    <2>2. frames[i - 1] \in Seq(Nat) \ {<<>>}
      BY <2>1
    <2>3. \A f \in Seq(Nat) \ {<<>>} : Len(f) \in 1..Len(f) /\ f[Len(f)] \in Nat
      OBVIOUS
    <2>4. frames[i - 1][Len(frames[i - 1])] \in Nat
      BY <2>2, <2>3
    <2>5. QED
      BY <1>2, <2>4, SMTT(20) DEF From
  <1>3. QED
    BY <1>1, <1>2

LEMMA PushedIsNat ==
  ASSUME NEW done \in Nat, NEW frames \in Seq(Seq(Nat) \ {<<>>})
  PROVE  Pushed(done, frames) \in Nat
PROOF
  <1>1. Len(frames) + 1 \in 1..(Len(frames) + 1)
    OBVIOUS
  <1>2. QED
    BY <1>1, FromIsNat DEF Pushed

\* A step in which the runner, with what it holds in u, goes on to t.
LEMMA StepHealthy ==
  ASSUME NEW s, NEW frames, NEW events, NEW limit, NEW streamed, NEW start, NEW chunk,
         ChunkOK(start, chunk),
         Healthy(s, frames, events, limit, streamed, start, chunk), s.phase = "streaming",
         NEW u, u.total = s.total, NEW t, Moves(u, t), FitsAfter(u, t),
         NEW pushed_frames \in Seq(Seq(Nat) \ {<<>>}),
         chunk.done < chunk.end =>
           /\ FramesOK(chunk.done, pushed_frames)
           /\ start + u.downloaded = Pushed(chunk.done, pushed_frames)
           /\ Holds(u, Pushed(chunk.done, pushed_frames))
  PROVE  Healthy(t, pushed_frames, events, limit, streamed, start, chunk)
PROOF
  <1>1. LimitOK(s, limit, start, chunk.end) /\ s.total \in Nat
    BY DEF Healthy, RunOK, Run
  <1>2. LimitOK(t, limit, start, chunk.end)
    BY <1>1 DEF LimitOK, Moves, Live
  <1>3. EventsOK(t, pushed_frames, events, streamed, start, chunk)
    BY DEF Healthy, EventsOK, Moves
  <1>4. ASSUME chunk.done < chunk.end
        PROVE  Fits(t, start, chunk.end, Pushed(chunk.done, pushed_frames))
    <2>1. chunk.end - start <= u.total
      BY <1>1 DEF LimitOK, Live, ChunkOK
    <2>2. Pushed(chunk.done, pushed_frames) \in Nat
      BY PushedIsNat DEF ChunkOK
    <2>3. QED
      BY <1>4, <2>1, <2>2 DEF FitsAfter, ChunkOK
  <1>5. QED
    BY <1>2, <1>3, <1>4 DEF Healthy, Moves

\* The same where nothing is pushed.
LEMMA StillHealthy ==
  ASSUME NEW s, NEW frames, NEW events, NEW limit, NEW streamed, NEW start, NEW chunk,
         ChunkOK(start, chunk),
         Healthy(s, frames, events, limit, streamed, start, chunk), s.phase = "streaming",
         NEW t, Moves(s, t), FitsAfter(s, t)
  PROVE  Healthy(t, frames, events, limit, streamed, start, chunk)
PROOF
  <1>1. chunk.done < chunk.end =>
           /\ FramesOK(chunk.done, frames)
           /\ start + s.downloaded = Pushed(chunk.done, frames)
           /\ Holds(s, Pushed(chunk.done, frames))
    BY DEF Healthy, Fits, Live
  <1>2. frames \in Seq(Seq(Nat) \ {<<>>})
    BY DEF Healthy
  <1>3. QED
    BY <1>1, <1>2, StepHealthy

\* A runner that gives up, without success.
LEMMA QuitHealthy ==
  ASSUME NEW s, NEW frames, NEW events, NEW limit, NEW streamed, NEW start, NEW chunk,
         Healthy(s, frames, events, limit, streamed, start, chunk),
         NEW t, RunOK(t), t.phase \notin Live, t.buffer = <<>>, t.staged = <<>>,
         t.phase \in {"draining", "publishing_stopped"} => t.result \notin Success
  PROVE  Healthy(t, frames, events, limit, streamed, start, chunk)
PROOF
  <1>1. LimitOK(t, limit, start, chunk.end)
    BY DEF LimitOK
  <1>2. EventsOK(t, frames, events, streamed, start, chunk)
    BY DEF Healthy, EventsOK, Live
  <1>3. chunk.done < chunk.end => Fits(t, start, chunk.end, Pushed(chunk.done, frames))
    BY DEF Fits
  <1>4. QED
    BY <1>1, <1>2, <1>3 DEF Healthy

\* BeginStop without success.
LEMMA StopHealthy ==
  ASSUME NEW s, NEW frames, NEW events, NEW limit, NEW streamed, NEW start, NEW chunk,
         Healthy(s, frames, events, limit, streamed, start, chunk),
         NEW result \in Results, result \notin Success
  PROVE  Healthy(BeginStop(result), frames, events, limit, streamed, start, chunk)
PROOF
  <1> DEFINE t == BeginStop(result)
  <1>1. RunOK(t) /\ t.phase \in {"draining", "publishing_stopped", "streaming"}
    BY BeginStopMoves DEF Moves
  <1>2. t.buffer = <<>> /\ t.staged = <<>> /\ t.result = result /\ t.phase # "streaming"
    BY BeginStopRun
  <1> HIDE DEF t
  <1>3. t.phase \notin Live
    BY <1>1, <1>2 DEF Live
  <1>4. QED
    BY <1>1, <1>2, <1>3, QuitHealthy DEF t

LEMMA ReadsItemHealthy ==
  ASSUME NEW s, NEW frames, NEW events, NEW limit, NEW streamed, NEW start, NEW chunk,
         ChunkOK(start, chunk),
         Healthy(s, frames, events, limit, streamed, start, chunk),
         s.phase = "streaming", s.staged = <<>>,
         NEW n \in Nat, s.read + n <= s.until,
         NEW u, u = [s EXCEPT !.item = [i \in 1..n |-> s.read + i - 1], !.read = @ + n]
  PROVE  Healthy(BufferItem(u), frames, events, limit, streamed, start, chunk)
PROOF
  <1> DEFINE item == [i \in 1..n |-> s.read + i - 1]
  <1>1. RunOK(s) /\ s \in Run /\ s.read \in Nat /\ frames \in Seq(Seq(Nat) \ {<<>>})
    BY DEF Healthy, RunOK, Run
  <1>2. item \in Seq(Nat) /\ Len(item) = n
    <2>1. \A i \in 1..n : s.read + i - 1 \in Nat
      BY <1>1
    <2>2. item \in [1..n -> Nat]
      BY <2>1, Zenon
    <2>3. QED
      BY <2>2
  <1>3. \A i \in 1..n : item[i] = s.read + i - 1
    OBVIOUS
  <1> HIDE DEF item
  <1>4. u = [s EXCEPT !.item = item, !.read = s.read + n]
    BY DEF item
  <1>5. u \in Run
    <2>1. s.read + n \in Nat
      BY <1>1
    <2>2. QED
      BY <1>1, <1>2, <1>4, <2>1 DEF Run
  <1>6. /\ u.phase = "streaming" /\ u.staged = <<>> /\ u.total = s.total /\ u.buffer = s.buffer
        /\ u.downloaded = s.downloaded /\ u.item = item /\ u.read = s.read + n
        /\ u.until = s.until /\ u.then = s.then
    BY <1>1, <1>4 DEF Run
  <1>7. RunOK(u)
    BY <1>1, <1>5, <1>6 DEF RunOK
  <1>8. Moves(u, BufferItem(u)) /\ FitsAfter(u, BufferItem(u))
    BY <1>6, <1>7, BufferItemMoves
  <1>9. ASSUME chunk.done < chunk.end
        PROVE  /\ FramesOK(chunk.done, frames)
               /\ start + u.downloaded = Pushed(chunk.done, frames)
               /\ Holds(u, Pushed(chunk.done, frames))
    <2> DEFINE p == Pushed(chunk.done, frames)
    <2>1. FramesOK(chunk.done, frames) /\ Fits(s, start, chunk.end, p)
      BY <1>9 DEF Healthy
    <2>2. p \in Nat
      BY <1>1, PushedIsNat DEF ChunkOK
    <2> HIDE DEF p
    <2>3. start + s.downloaded = p /\ Holds(s, p) /\ s.item = <<>>
      BY <2>1 DEF Fits, Live
    <2>4. Len(s.buffer) \in Nat /\ Len(s.staged) = 0 /\ Len(s.item) = 0
      BY <1>1, <2>3 DEF Run
    <2>5. s.read = p + Len(s.staged) + Len(s.buffer)
      BY <2>2, <2>3, <2>4 DEF Holds
    <2>6. InOrder(u.item, p + Len(u.staged) + Len(u.buffer))
      BY <1>2, <1>3, <1>6, <2>5 DEF InOrder
    <2>7. u.read = p + Len(u.staged) + Len(u.buffer) + Len(u.item)
      BY <1>2, <1>6, <2>5
    <2>8. Holds(u, p)
      BY <1>6, <2>3, <2>6, <2>7 DEF Holds
    <2>9. QED
      BY <1>6, <2>1, <2>3, <2>8 DEF p
  <1>10. QED
    BY <1>1, <1>6, <1>8, <1>9, StepHealthy

\* A frame that is appended moves the position up by its length.
LEMMA PushFrame ==
  ASSUME NEW done \in Nat, NEW frames \in Seq(Seq(Nat) \ {<<>>}), FramesOK(done, frames),
         NEW f \in Seq(Nat) \ {<<>>}, InOrder(f, Pushed(done, frames))
  PROVE  /\ Append(frames, f) \in Seq(Seq(Nat) \ {<<>>})
         /\ FramesOK(done, Append(frames, f))
         /\ Pushed(done, Append(frames, f)) = Pushed(done, frames) + Len(f)
PROOF
  <1> DEFINE q == Append(frames, f)
             n == Len(frames)
  <1>1. n \in Nat /\ Len(f) \in Nat \ {0} /\ Pushed(done, frames) \in Nat
    BY PushedIsNat, SMTT(20)
  <1>2. /\ q \in Seq(Seq(Nat) \ {<<>>}) /\ Len(q) = n + 1
        /\ q[n + 1] = f /\ \A i \in 1..n : q[i] = frames[i]
    OBVIOUS
  <1> HIDE DEF q, n
  <1>3. ASSUME NEW i \in 1..(n + 1)
        PROVE  From(done, q, i) = From(done, frames, i)
    <2>1. CASE i = 1
      BY <2>1 DEF From
    <2>2. CASE i # 1
      <3>1. i - 1 \in 1..n
        BY <1>1, <2>2
      <3>2. q[i - 1] = frames[i - 1]
        BY <1>2, <3>1
      <3>3. QED
        BY <2>2, <3>2 DEF From
    <2>3. QED
      BY <2>1, <2>2
  <1>4. ASSUME NEW i \in 1..(n + 1)
        PROVE  InOrder(q[i], From(done, q, i))
    <2>1. CASE i = n + 1
      BY <1>2, <1>3, <2>1 DEF Pushed, n
    <2>2. CASE i # n + 1
      <3>1. i \in 1..n
        BY <1>1, <2>2
      <3>2. InOrder(frames[i], From(done, frames, i))
        BY <3>1 DEF FramesOK, n
      <3>3. QED
        BY <1>2, <1>3, <3>1, <3>2
    <2>3. QED
      BY <2>1, <2>2
  <1>5. Pushed(done, q) = Pushed(done, frames) + Len(f)
    <2>1. Pushed(done, q) = From(done, q, n + 1 + 1)
      BY <1>2 DEF Pushed
    <2>2. n + 1 + 1 # 1 /\ n + 1 + 1 - 1 = n + 1
      BY <1>1
    <2>3. From(done, q, n + 1 + 1) = f[Len(f)] + 1
      BY <1>2, <2>2 DEF From
    <2>4. f[Len(f)] = Pushed(done, frames) + Len(f) - 1
      BY <1>1 DEF InOrder
    <2>5. QED
      BY <1>1, <2>1, <2>3, <2>4
  <1>6. FramesOK(done, q)
    BY <1>2, <1>4 DEF FramesOK
  <1>7. QED
    BY <1>2, <1>5, <1>6 DEF q

LEMMA EmittedRun ==
  ASSUME NEW s \in Run, NEW n \in Nat
  PROVE  [s EXCEPT !.downloaded = n, !.staged = <<>>, !.then = "None", !.deferred = "None"]
           \in Run
PROOF
  <1>1. <<>> \in Seq(Nat)
    OBVIOUS
  <1>2. QED
    BY <1>1 DEF Run

LEMMA EmittedHealthy ==
  ASSUME NEW s, NEW frames, NEW events, NEW limit, NEW streamed, NEW start, NEW chunk,
         ChunkOK(start, chunk),
         Healthy(s, frames, events, limit, streamed, start, chunk),
         s.phase = "streaming", s.staged # <<>>,
         NEW u, u = [s EXCEPT !.downloaded = @ + Len(s.staged), !.staged = <<>>,
                              !.then = "None", !.deferred = "None"]
  PROVE  Healthy(ResumeAfterEmit(u, s.then, s.deferred), Append(frames, s.staged),
                 events, limit, streamed, start, chunk)
PROOF
  <1> DEFINE t == ResumeAfterEmit(u, s.then, s.deferred)
             q == Append(frames, s.staged)
  <1>1. /\ RunOK(s) /\ s \in Run /\ s.staged \in Seq(Nat) \ {<<>>} /\ s.downloaded \in Nat
        /\ Len(s.staged) \in Nat /\ s.deferred = "None" /\ s.then \in Continuations
        /\ frames \in Seq(Seq(Nat) \ {<<>>})
    BY DEF Healthy, RunOK, Run
  <1>2. s.downloaded + Len(s.staged) \in Nat
    BY <1>1
  <1>3. u \in Run
    <2> DEFINE d == s.downloaded + Len(s.staged)
    <2>1. d \in Nat
      BY <1>2
    <2>2. u = [s EXCEPT !.downloaded = d, !.staged = <<>>, !.then = "None", !.deferred = "None"]
      OBVIOUS
    <2> HIDE DEF d
    <2>3. s \in Run
      BY <1>1
    <2>4. [s EXCEPT !.downloaded = d, !.staged = <<>>, !.then = "None", !.deferred = "None"]
            \in Run
      BY <2>1, <2>3, EmittedRun, Zenon
    <2>5. QED
      BY <2>2, <2>4, Zenon
  <1>4. /\ u.phase = "streaming" /\ u.staged = <<>> /\ u.total = s.total /\ u.buffer = s.buffer
        /\ u.downloaded = s.downloaded + Len(s.staged) /\ u.item = s.item /\ u.read = s.read
        /\ u.until = s.until
    BY <1>1 DEF Run
  <1>5. RunOK(u)
    BY <1>1, <1>3, <1>4 DEF RunOK
  <1>6. Moves(u, t) /\ FitsAfter(u, t)
    <2>1. CASE s.then = "ResumeItem"
      <3>1. "ResumeItem" \notin StreamErrors
        BY RunnerAssumption DEF RunnerAssumption
      <3>2. t = BufferItem(u)
        BY <1>1, <2>1, <3>1 DEF ResumeAfterEmit
      <3>3. QED
        BY <1>4, <1>5, <3>2, BufferItemMoves
    <2>2. CASE s.then # "ResumeItem"
      <3>1. s.then \in Stops
        BY <1>1, <2>2 DEF Stops, Continuations
      <3>2. t = StopAfter(u, s.then)
        BY <1>1, <2>2, <3>1 DEF ResumeAfterEmit, Stops
      <3>3. QED
        BY <1>5, <3>1, <3>2, StopMoves
    <2>3. QED
      BY <2>1, <2>2
  <1>7. q \in Seq(Seq(Nat) \ {<<>>})
    BY <1>1
  <1>8. ASSUME chunk.done < chunk.end
        PROVE  /\ FramesOK(chunk.done, q)
               /\ start + u.downloaded = Pushed(chunk.done, q)
               /\ Holds(u, Pushed(chunk.done, q))
    <2> DEFINE p == Pushed(chunk.done, frames)
    <2>1. FramesOK(chunk.done, frames) /\ Fits(s, start, chunk.end, p)
      BY <1>8 DEF Healthy
    <2>2. p \in Nat /\ start \in Nat /\ chunk.done \in Nat
      BY <1>1, PushedIsNat DEF ChunkOK
    <2>3. start + s.downloaded = p /\ Holds(s, p)
      BY <2>1 DEF Fits, Live
    <2>4. FramesOK(chunk.done, q) /\ Pushed(chunk.done, q) = p + Len(s.staged)
      BY <1>1, <2>1, <2>2, <2>3, PushFrame DEF Holds
    <2> HIDE DEF p
    <2>5. Len(u.staged) = 0 /\ p + Len(s.staged) + Len(u.staged) = p + Len(s.staged)
      BY <1>1, <1>4, <2>2
    <2>6. Holds(u, p + Len(s.staged))
      <3>1. InOrder(u.staged, p + Len(s.staged))
        BY <2>5 DEF InOrder
      <3>2. QED
        BY <1>4, <2>3, <2>5, <3>1 DEF Holds
    <2>7. start + u.downloaded = p + Len(s.staged)
      <3>1. start + (s.downloaded + Len(s.staged)) = (start + s.downloaded) + Len(s.staged)
        BY <1>1, <2>2
      <3>2. QED
        BY <1>4, <2>3, <3>1
    <2>8. QED
      BY <2>4, <2>6, <2>7
  <1> HIDE DEF q, t
  <1>9. Healthy(t, q, events, limit, streamed, start, chunk)
    BY <1>4, <1>6, <1>7, <1>8, StepHealthy
  <1>10. QED
    BY <1>9 DEF q, t

\* apply_control: the limit that is read is below the one in force.
LEMMA LimitHealthy ==
  ASSUME NEW s, NEW frames, NEW events, NEW limit, NEW streamed, NEW start, NEW chunk,
         ChunkOK(start, chunk),
         Healthy(s, frames, events, limit, streamed, start, chunk),
         s.phase \in {"connecting", "streaming"}, NEW m \in limit
  PROVE  Healthy(ApplyLimit(s, m), frames, events, {}, streamed, start, chunk)
PROOF
  <1> DEFINE t == [s EXCEPT !.total = m]
  <1>1. s \in Run /\ s.total \in Nat /\ RunOK(s)
    BY DEF Healthy, RunOK, Run
  <1>2. m = chunk.end - start /\ m < s.total /\ m \in Nat
    BY DEF Healthy, LimitOK, Live, ChunkOK
  <1>3. ApplyLimit(s, m) = t
    BY <1>1, <1>2 DEF ApplyLimit, NoTotal
  <1>4. /\ t \in Run
        /\ t.phase = s.phase /\ t.staged = s.staged /\ t.total = m /\ t.buffer = s.buffer
        /\ t.downloaded = s.downloaded /\ t.item = s.item /\ t.read = s.read
        /\ t.until = s.until /\ t.then = s.then /\ t.result = s.result
    BY <1>1, <1>2 DEF Run
  <1> HIDE DEF t
  <1>5. RunOK(t)
    BY <1>1, <1>4 DEF RunOK
  <1>6. LimitOK(t, {}, start, chunk.end)
    BY <1>2, <1>4 DEF LimitOK
  <1>7. EventsOK(t, frames, events, streamed, start, chunk)
    BY <1>4 DEF Healthy, EventsOK
  <1>8. ASSUME NEW end, NEW pushed, Fits(s, start, end, pushed)
        PROVE  Fits(t, start, end, pushed)
    BY <1>4, <1>8 DEF Fits, Holds
  <1>9. QED
    BY <1>3, <1>5, <1>6, <1>7, <1>8 DEF Healthy

LEMMA ConnectedHealthy ==
  ASSUME NEW s, NEW frames, NEW events, NEW limit, NEW streamed, NEW start, NEW chunk,
         Healthy(s, frames, events, limit, streamed, start, chunk),
         s.phase = "connecting"
  PROVE  Healthy([s EXCEPT !.phase = "publishing_started"],
                 frames, events, limit, streamed, start, chunk)
PROOF
  <1> DEFINE t == [s EXCEPT !.phase = "publishing_started"]
  <1>1. s \in Run /\ RunOK(s)
    BY DEF Healthy, RunOK, Run
  <1>2. /\ t \in Run
        /\ t.phase = "publishing_started" /\ t.staged = s.staged /\ t.total = s.total
        /\ t.buffer = s.buffer /\ t.downloaded = s.downloaded /\ t.item = s.item
        /\ t.read = s.read /\ t.until = s.until /\ t.then = s.then
    BY <1>1 DEF Run, Phases
  <1> HIDE DEF t
  <1>3. RunOK(t)
    BY <1>1, <1>2 DEF RunOK, Live
  <1>4. LimitOK(t, limit, start, chunk.end)
    BY <1>2 DEF Healthy, LimitOK, Live
  <1>5. EventsOK(t, frames, events, streamed, start, chunk)
    BY <1>2 DEF Healthy, EventsOK
  <1>6. ASSUME NEW end, NEW pushed, Fits(s, start, end, pushed)
        PROVE  Fits(t, start, end, pushed)
    BY <1>2, <1>6 DEF Fits, Holds, Live
  <1>7. QED
    BY <1>3, <1>4, <1>5, <1>6 DEF Healthy, t

LEMMA StartedHealthy ==
  ASSUME NEW s, NEW frames, NEW events, NEW limit, NEW streamed, NEW start, NEW chunk,
         Healthy(s, frames, events, limit, streamed, start, chunk),
         s.phase = "publishing_started"
  PROVE  Healthy([s EXCEPT !.phase = "streaming"],
                 frames, Append(events, "Started"), limit, streamed, start, chunk)
PROOF
  <1> DEFINE t == [s EXCEPT !.phase = "streaming"]
             told == Append(events, "Started")
  <1>1. s \in Run /\ RunOK(s)
    BY DEF Healthy, RunOK, Run
  <1>2. /\ t \in Run
        /\ t.phase = "streaming" /\ t.staged = s.staged /\ t.total = s.total
        /\ t.buffer = s.buffer /\ t.downloaded = s.downloaded /\ t.item = s.item
        /\ t.read = s.read /\ t.until = s.until /\ t.then = s.then
    BY <1>1 DEF Run, Phases
  <1>3. events = <<>> /\ chunk.status = "Pending"
    BY DEF Healthy, EventsOK
  <1>4. told \in Seq({"Started"} \cup Results) /\ Len(told) = 1 /\ told[1] = "Started"
    BY <1>3
  <1> HIDE DEF t, told
  <1>5. RunOK(t)
    BY <1>1, <1>2 DEF RunOK, Live
  <1>6. LimitOK(t, limit, start, chunk.end)
    BY <1>2 DEF Healthy, LimitOK, Live
  <1>7. EventsOK(t, frames, told, streamed, start, chunk)
    BY <1>2, <1>3, <1>4 DEF Healthy, EventsOK
  <1>8. ASSUME NEW end, NEW pushed, Fits(s, start, end, pushed)
        PROVE  Fits(t, start, end, pushed)
    BY <1>2, <1>8 DEF Fits, Holds, Live
  <1>9. \A i \in 1..Len(told) : told[i] \notin Success
    BY <1>4 DEF Success
  <1>10. QED
    BY <1>4, <1>5, <1>6, <1>7, <1>8, <1>9 DEF Healthy, t, told

\* finish_drain: success is passed on once every frame was taken.
LEMMA DrainedHealthy ==
  ASSUME NEW s, NEW frames, NEW events, NEW limit, NEW streamed, NEW start, NEW chunk,
         ChunkOK(start, chunk),
         Healthy(s, frames, events, limit, streamed, start, chunk),
         s.phase = "draining", NEW result \in Results,
         result \in Success => frames = <<>> /\ result = s.result
  PROVE  Healthy([s EXCEPT !.phase = "publishing_stopped", !.result = result],
                 frames, events, limit, streamed, start, chunk)
PROOF
  <1> DEFINE t == [s EXCEPT !.phase = "publishing_stopped", !.result = result]
  <1>1. s \in Run /\ RunOK(s) /\ result # "None"
    BY RunnerAssumption DEF Healthy, RunOK, Run, Results, RunnerAssumption
  <1>2. /\ t \in Run
        /\ t.phase = "publishing_stopped" /\ t.staged = s.staged /\ t.buffer = s.buffer
        /\ t.then = s.then /\ t.result = result
    BY <1>1 DEF Run, Phases
  <1> HIDE DEF t
  <1>3. RunOK(t)
    BY <1>1, <1>2 DEF RunOK, Live
  <1>4. LimitOK(t, limit, start, chunk.end)
    BY <1>2 DEF LimitOK, Live
  <1>5. EventsOK(t, frames, events, streamed, start, chunk)
    BY <1>2 DEF Healthy, EventsOK
  <1>6. ASSUME chunk.done < chunk.end
        PROVE  Fits(t, start, chunk.end, Pushed(chunk.done, frames))
    <2>1. Fits(s, start, chunk.end, Pushed(chunk.done, frames))
      BY <1>6 DEF Healthy
    <2>2. frames = <<>> => Pushed(chunk.done, frames) = chunk.done
      BY DEF Pushed, From
    <2>3. result \notin Success
      BY <1>6, <2>1, <2>2 DEF Fits, ChunkOK
    <2>4. QED
      BY <1>2, <2>1, <2>3 DEF Fits, Live
  <1>7. QED
    BY <1>3, <1>4, <1>5, <1>6 DEF Healthy, t

LEMMA StoppedHealthy ==
  ASSUME NEW s, NEW frames, NEW events, NEW limit, NEW streamed, NEW start, NEW chunk,
         Healthy(s, frames, events, limit, streamed, start, chunk),
         s.phase = "publishing_stopped"
  PROVE  Healthy([NoRun EXCEPT !.phase = "stopped"],
                 frames, Append(events, s.result), limit, streamed, start, chunk)
PROOF
  <1> DEFINE t == [NoRun EXCEPT !.phase = "stopped"]
             told == Append(events, s.result)
  <1>1. s.result \in Results /\ s.result # "Started" /\ events \in Seq({"Started"} \cup Results)
    BY RunnerAssumption DEF Healthy, RunOK, Run, Results, RunnerAssumption
  <1>2. /\ told \in Seq({"Started"} \cup Results) /\ Len(told) = Len(events) + 1
        /\ told[Len(events) + 1] = s.result /\ \A i \in 1..Len(events) : told[i] = events[i]
    BY <1>1
  <1>3. t \in Run /\ t.phase = "stopped" /\ t.staged = <<>> /\ t.buffer = <<>>
    <2>1. NoRun \in Run
      BY DEF NoRun, Run, Phases
    <2>2. QED
      BY <2>1 DEF NoRun, Run, Phases
  <1> HIDE DEF t, told
  <1>4. RunOK(t)
    BY <1>3, RunnerAssumption DEF RunOK, Live, RunnerAssumption
  <1>5. LimitOK(t, limit, start, chunk.end)
    BY <1>3 DEF LimitOK, Live
  <1>6. EventsOK(t, frames, told, streamed, start, chunk)
    BY <1>1, <1>2, <1>3 DEF Healthy, EventsOK
  <1>7. ASSUME chunk.done < chunk.end
        PROVE  /\ Fits(t, start, chunk.end, Pushed(chunk.done, frames))
               /\ \A i \in 1..Len(told) : told[i] \notin Success
    <2>1. s.result \notin Success
      BY <1>7 DEF Healthy, Fits
    <2>2. QED
      BY <1>2, <1>3, <1>7, <2>1, SMTT(20) DEF Healthy, Fits, Live
  <1>8. QED
    BY <1>2, <1>4, <1>5, <1>6, <1>7 DEF Healthy, t, told

-----------------------------------------------------------------------------
(* A step of the manager keeps the runner healthy. *)

\* The manager takes `Started`.
LEMMA TakeStartedHealthy ==
  ASSUME NEW s, NEW frames, NEW events, NEW limit, NEW streamed, NEW start, NEW chunk \in Chunk,
         Healthy(s, frames, events, limit, streamed, start, chunk),
         events # <<>>
  PROVE  Healthy(s, frames, Tail(events), limit, TRUE, start, [chunk EXCEPT !.status = "Running"])
PROOF
  <1> DEFINE c == [chunk EXCEPT !.status = "Running"]
             left == Tail(events)
  <1>1. c.done = chunk.done /\ c.end = chunk.end /\ c.status = "Running"
    BY DEF Chunk
  <1>2. events \in Seq({"Started"} \cup Results) /\ Len(events) \in Nat \ {0}
    BY DEF Healthy
  <1>3. /\ left \in Seq({"Started"} \cup Results) /\ Len(left) = Len(events) - 1
        /\ \A i \in 1..Len(left) : left[i] = events[i + 1]
    BY <1>2
  <1> HIDE DEF c, left
  <1>4. \A i \in 1..Len(left) : i + 1 \in 1..Len(events) /\ i + 1 # 1
    BY <1>2, <1>3
  <1>5. EventsOK(s, frames, left, TRUE, start, c)
    BY <1>1, <1>3, <1>4 DEF Healthy, EventsOK
  <1>6. QED
    BY <1>1, <1>3, <1>4, <1>5 DEF Healthy, c, left

\* The frames after the first go on where the first one ends.
LEMMA TakeFrameOrder ==
  ASSUME NEW done \in Nat, NEW frames \in Seq(Seq(Nat) \ {<<>>}), frames # <<>>,
         FramesOK(done, frames)
  PROVE  /\ InOrder(Head(frames), done)
         /\ FramesOK(done + Len(Head(frames)), Tail(frames))
         /\ Pushed(done + Len(Head(frames)), Tail(frames)) = Pushed(done, frames)
PROOF
  <1> DEFINE f == Head(frames)
             q == Tail(frames)
             n == Len(frames)
             next == done + Len(f)
  <1>1. /\ n \in Nat \ {0} /\ f = frames[1] /\ f \in Seq(Nat) \ {<<>>}
        /\ Len(f) \in Nat \ {0}
    OBVIOUS
  <1>2. Len(q) = n - 1 /\ \A i \in 1..(n - 1) : q[i] = frames[i + 1]
    OBVIOUS
  <1>3. InOrder(f, done)
    BY <1>1 DEF FramesOK, From
  <1>4. f[Len(f)] + 1 = next
    BY <1>1, <1>3 DEF InOrder
  <1> HIDE DEF f, q, n, next
  <1>5. ASSUME NEW i \in 1..n
        PROVE  From(next, q, i) = From(done, frames, i + 1)
    <2>1. i + 1 # 1 /\ i + 1 - 1 = i
      BY <1>1, <1>5
    <2>2. From(done, frames, i + 1) = frames[i][Len(frames[i])] + 1
      BY <2>1 DEF From
    <2>3. CASE i = 1
      BY <1>1, <1>4, <2>2, <2>3 DEF From
    <2>4. CASE i # 1
      <3>1. i - 1 \in 1..(n - 1) /\ i - 1 + 1 = i
        BY <1>1, <1>5, <2>4
      <3>2. q[i - 1] = frames[i]
        BY <1>2, <3>1
      <3>3. QED
        BY <2>2, <2>4, <3>2 DEF From
    <2>5. QED
      BY <2>3, <2>4
  <1>6. FramesOK(next, q)
    <2>1. SUFFICES ASSUME NEW i \in 1..(n - 1)
                   PROVE  InOrder(q[i], From(next, q, i))
      BY <1>2 DEF FramesOK
    <2>2. i \in 1..n /\ i + 1 \in 1..n
      BY <1>1, <2>1
    <2>3. InOrder(frames[i + 1], From(done, frames, i + 1))
      BY <2>2 DEF FramesOK, n
    <2>4. QED
      BY <1>2, <1>5, <2>1, <2>2, <2>3
  <1>7. Pushed(next, q) = Pushed(done, frames)
    <2>1. Pushed(next, q) = From(next, q, n) /\ Pushed(done, frames) = From(done, frames, n + 1)
      BY <1>1, <1>2 DEF Pushed, n
    <2>2. QED
      BY <1>1, <1>5, <2>1
  <1>8. QED
    BY <1>3, <1>6, <1>7 DEF f, q, next

\* The first n bytes are those of the file from a position on.
Begins(q, n, position) == \A k \in 1..n : q[k] = position + k - 1

\* The chunk c is the one that was advanced by n bytes.
Advanced(chunk, n, c) ==
  /\ c.done = chunk.done + n
  /\ c.end = chunk.end
  /\ c.status = IF chunk.done + n >= chunk.end THEN "Finished" ELSE chunk.status

\* The manager takes a frame and the planner accepts n bytes of it.
LEMMA TakeFrameHealthy ==
  ASSUME NEW s, NEW frames, NEW events, NEW limit, NEW start, NEW chunk,
         ChunkOK(start, chunk),
         Healthy(s, frames, events, limit, TRUE, start, chunk), frames # <<>>,
         NEW n, n = Smaller(Len(Head(frames)), chunk.end - chunk.done),
         NEW c, Advanced(chunk, n, c)
  PROVE  /\ Healthy(s, Tail(frames), events, limit, TRUE, start, c)
         /\ Begins(Head(frames), n, chunk.done)
         /\ n \in 0..Len(Head(frames))
PROOF
  <1> DEFINE f == Head(frames)
             q == Tail(frames)
  <1>1. frames \in Seq(Seq(Nat) \ {<<>>}) /\ chunk.status # "Pending"
    BY DEF Healthy, EventsOK
  <1>2. f \in Seq(Nat) \ {<<>>} /\ Len(f) \in Nat /\ q \in Seq(Seq(Nat) \ {<<>>})
    BY <1>1
  <1>3. /\ n \in Nat /\ n <= Len(f) /\ n <= chunk.end - chunk.done
        /\ n = Len(f) \/ n = chunk.end - chunk.done
        /\ c.done = chunk.done + n /\ c.end = chunk.end
        /\ c.status = "Finished" \/ c.status = chunk.status
    BY <1>2 DEF ChunkOK, Smaller, Advanced
  <1>4. chunk.done < chunk.end => InOrder(f, chunk.done)
    BY <1>1, TakeFrameOrder DEF ChunkOK, Healthy
  <1>5. ASSUME c.done < c.end
        PROVE  /\ chunk.done < chunk.end /\ c.done = chunk.done + Len(f)
               /\ FramesOK(c.done, q) /\ Pushed(c.done, q) = Pushed(chunk.done, frames)
    <2>1. chunk.done < chunk.end /\ n = Len(f)
      BY <1>2, <1>3, <1>5, SMTT(20) DEF ChunkOK
    <2>2. c.done = chunk.done + Len(f) /\ chunk.done \in Nat /\ FramesOK(chunk.done, frames)
      BY <1>3, <2>1 DEF ChunkOK, Healthy
    <2>3. QED
      BY <1>1, <2>1, <2>2, TakeFrameOrder
  <1> HIDE DEF f, q
  <1>6. c.status # "Pending"
    BY <1>1, <1>3
  <1>7. EventsOK(s, q, events, TRUE, start, c)
    BY <1>1, <1>3, <1>6 DEF Healthy, EventsOK
  <1>8. Healthy(s, q, events, limit, TRUE, start, c)
    BY <1>2, <1>3, <1>5, <1>7 DEF Healthy
  <1>9. \A k \in 1..n : f[k] = chunk.done + k - 1
    <2>1. CASE chunk.done < chunk.end
      BY <1>2, <1>3, <1>4, <2>1 DEF InOrder
    <2>2. CASE ~(chunk.done < chunk.end)
      BY <1>3, <2>2 DEF ChunkOK
    <2>3. QED
      BY <2>1, <2>2
  <1>10. n \in 0..Len(f)
    BY <1>2, <1>3
  <1>11. QED
    BY <1>8, <1>9, <1>10 DEF f, q, Begins

\* resize_runner: the chunk shrinks and its new length is sent.
LEMMA ResizeHealthy ==
  ASSUME NEW s, NEW frames, NEW events, NEW limit, NEW streamed, NEW start, NEW chunk \in Chunk,
         ChunkOK(start, chunk),
         Healthy(s, frames, events, limit, streamed, start, chunk),
         NEW e \in Nat, chunk.done <= e, e < chunk.end
  PROVE  Healthy(s, frames, events, {e - start}, streamed, start, [chunk EXCEPT !.end = e])
PROOF
  <1> DEFINE c == [chunk EXCEPT !.end = e]
  <1>1. c.done = chunk.done /\ c.end = e /\ c.status = chunk.status
    BY DEF Chunk
  <1> HIDE DEF c
  <1>2. LimitOK(s, {e - start}, start, c.end)
    <2>1. ASSUME s.phase \in Live
          PROVE  e - start < s.total
      <3>1. s.total \in Nat /\ chunk.end - start <= s.total
        BY <2>1 DEF Healthy, LimitOK, ChunkOK, RunOK, Run
      <3>2. QED
        BY <3>1 DEF ChunkOK
    <2>2. QED
      BY <1>1, <2>1 DEF LimitOK
  <1>3. EventsOK(s, frames, events, streamed, start, c)
    BY <1>1 DEF Healthy, EventsOK
  <1>4. ASSUME c.done < c.end
        PROVE  /\ chunk.done < chunk.end
               /\ Fits(s, start, c.end, Pushed(c.done, frames))
    <2> DEFINE p == Pushed(chunk.done, frames)
    <2>1. chunk.done < chunk.end
      BY <1>1, <1>4 DEF ChunkOK
    <2>2. Fits(s, start, chunk.end, p) /\ p \in Nat
      BY <2>1, PushedIsNat DEF Healthy, ChunkOK
    <2> HIDE DEF p
    <2>3. Fits(s, start, e, p)
      BY <2>2 DEF Fits, ChunkOK
    <2>4. QED
      BY <1>1, <2>1, <2>3 DEF p
  <1>5. QED
    BY <1>1, <1>2, <1>3, <1>4 DEF Healthy, c

\* A runner that was just spawned.
LEMMA SpawnHealthy ==
  ASSUME NEW start \in Nat, NEW end \in Nat, start < end, NEW r
  PROVE  Healthy(NewRun(start, end), <<>>, <<>>, {}, FALSE, start,
                 NewChunk(start, end, r, "Pending"))
PROOF
  <1> DEFINE s == NewRun(start, end)
             c == NewChunk(start, end, r, "Pending")
  <1>1. c.done = start /\ c.end = end /\ c.status = "Pending"
    BY DEF NewChunk
  <1>2. NoRun \in Run /\ end - start \in Nat
    BY DEF NoRun, Run, Phases
  <1>3. s \in Run
    BY <1>2 DEF NewRun, Run, Phases
  <1>4. /\ s.phase = "connecting" /\ s.until = end /\ s.read = start /\ s.total = end - start
        /\ s.downloaded = 0 /\ s.buffer = <<>> /\ s.item = <<>> /\ s.staged = <<>>
    BY DEF NewRun, NoRun
  <1> HIDE DEF s, c
  <1>5. RunOK(s)
    BY <1>3, <1>4, RunnerAssumption DEF RunOK, RunnerAssumption
  <1>6. LimitOK(s, {}, start, c.end)
    BY <1>1, <1>4 DEF LimitOK
  <1>7. EventsOK(s, <<>>, <<>>, FALSE, start, c)
    BY <1>1, <1>4 DEF EventsOK
  <1>8. Pushed(c.done, <<>>) = start
    BY <1>1 DEF Pushed, From
  <1>9. FramesOK(c.done, <<>>)
    BY DEF FramesOK
  <1>10. Fits(s, start, c.end, start)
    BY <1>4 DEF Fits, Holds, InOrder, Live
  <1>11. <<>> \in Seq(Seq(Nat) \ {<<>>}) /\ <<>> \in Seq({"Started"} \cup Results) /\ Len(<<>>) = 0
    OBVIOUS
  <1>12. Healthy(s, <<>>, <<>>, {}, FALSE, start, c)
    <2>1. \A i \in 1..Len(<<>>) : <<>>[i] \notin Success
      BY <1>11
    <2>2. Fits(s, start, c.end, Pushed(c.done, <<>>))
      BY <1>8, <1>10
    <2>3. QED
      BY <1>5, <1>6, <1>7, <1>9, <1>11, <2>1, <2>2, Zenon DEF Healthy
  <1>13. QED
    BY <1>12 DEF s, c

-----------------------------------------------------------------------------
(* The steps of the runners. *)

LEMMA RunnerChunkOK ==
  ASSUME PlannerInv, NEW r \in Runners, HasRunner(r)
  PROVE  /\ runner_to_chunk[r] \in DOMAIN chunks /\ RunnerChunk(r) \in Chunk
         /\ ChunkOK(runner_to_chunk[r], RunnerChunk(r))
PROOF
  <1>1. runner_to_chunk[r] \in DOMAIN chunks
    BY DEF PlannerInv, PlannerTypeOK, HasRunner
  <1>2. RunnerChunk(r) \in Chunk
    BY <1>1 DEF PlannerInv, PlannerTypeOK, RunnerChunk
  <1>3. QED
    BY <1>1, <1>2, PlannerAssumption
    DEF PlannerInv, PlannerTypeOK, RunnerChunk, ChunkOK, Chunk, PlannerAssumption

\* A runner's step touches its own state and channels only.
LEMMA StepIsLocal ==
  ASSUME Domains, NEW r \in Runners, RunnerWork(r) \/ RunnerFault(r)
  PROVE  /\ DOMAIN run' = Runners /\ DOMAIN data' = Runners /\ DOMAIN lifecycle' = Runners
         /\ DOMAIN mailbox' = Runners /\ receiving' = receiving
         /\ \A q \in Runners \ {r} :
              /\ run'[q] = run[q] /\ data'[q] = data[q] /\ lifecycle'[q] = lifecycle[q]
              /\ mailbox'[q] = mailbox[q]
PROOF
  <1> USE DEF Domains, Becomes
  <1>1. CASE \/ Connected(r) \/ ConnectFails(r) \/ ConnectTimeout(r) \/ SeesCancel(r)
             \/ SeesMailboxClosed(r) \/ IdleTimeout(r) \/ Lost(r) \/ EmitFails(r)
    BY <1>1 DEF Connected, ConnectFails, ConnectTimeout, SeesCancel, SeesMailboxClosed,
                IdleTimeout, Lost, EmitFails
  <1>2. CASE ReadsItem(r) \/ StreamEnds(r) \/ StreamEndsShort(r) \/ StreamFails(r)
    BY <1>2 DEF ReadsItem, StreamEnds, StreamEndsShort, StreamFails
  <1>3. CASE Drained(r) \/ DrainCancelled(r) \/ DrainTimeout(r)
    BY <1>3 DEF Drained, DrainCancelled, DrainTimeout, StopsDraining
  <1>4. CASE ReadsLimit(r)
    BY <1>4 DEF ReadsLimit
  <1>5. CASE PublishStarted(r)
    BY <1>5 DEF PublishStarted
  <1>6. CASE Emitted(r)
    BY <1>6 DEF Emitted
  <1>7. CASE PublishStopped(r)
    BY <1>7 DEF PublishStopped
  <1>8. QED
    BY <1>1, <1>2, <1>3, <1>4, <1>5, <1>6, <1>7 DEF RunnerWork, RunnerFault

\* Where there is no runner there is no step.
LEMMA NoRunNoStep ==
  ASSUME NEW r \in Runners, run[r] = NoRun
  PROVE  ~RunnerWork(r) /\ ~RunnerFault(r)
PROOF
  <1>1. run[r].phase = "none"
    BY DEF NoRun
  <1>2. QED
    BY <1>1 DEF RunnerWork, RunnerFault, Connected, PublishStarted, SeesCancel, ReadsLimit,
      SeesMailboxClosed, ReadsItem, StreamEnds, Emitted, EmitFails, Drained, DrainCancelled,
      PublishStopped, ConnectFails, ConnectTimeout, IdleTimeout, StreamEndsShort, StreamFails,
      DrainTimeout, Lost, Reading, StopsDraining

LEMMA RunnerStepHealthy ==
  ASSUME Domains, NEW r \in Runners, receiving[r],
         NEW start, NEW chunk, NEW streamed, ChunkOK(start, chunk),
         Healthy(run[r], data[r], lifecycle[r], mailbox[r], streamed, start, chunk),
         RunnerWork(r) \/ RunnerFault(r)
  PROVE  Healthy(run'[r], data'[r], lifecycle'[r], mailbox'[r], streamed, start, chunk)
PROOF
  <1> DEFINE s == run[r]
             Next1 == Healthy(run'[r], data'[r], lifecycle'[r], mailbox'[r], streamed, start, chunk)
  <1>1. /\ RunOK(s) /\ s \in Run /\ s.deferred = "None"
        /\ s.phase \in {"draining", "publishing_stopped"} => s.result \in Results
    BY DEF Healthy, RunOK, Run
  <1>2. {"Cancelled", "Timeout", "ChannelClosed"} \cup StreamErrors \subseteq Results \ Success
    BY RunnerAssumption DEF Results, Success, RunnerAssumption
  <1>3. ASSUME NEW t, Becomes(r, t), Healthy(t, data[r], lifecycle[r], mailbox[r], streamed, start, chunk)
        PROVE  Next1
    BY <1>3 DEF Becomes, Domains
  <1>4. ASSUME NEW result \in Results \ Success, Becomes(r, BeginStop(result))
        PROVE  Next1
    <2>1. Healthy(BeginStop(result), data[r], lifecycle[r], mailbox[r], streamed, start, chunk)
      BY StopHealthy
    <2>2. QED
      BY <1>3, <1>4, <2>1
  <1>5. ASSUME NEW then \in Stops, Reading(r), Becomes(r, Flush(s, then))
        PROVE  Next1
    <2>1. s.phase = "streaming" /\ s.staged = <<>>
      BY <1>5 DEF Reading, Emitting
    <2>2. "ResumeItem" \notin Stops
      BY RunnerAssumption DEF Stops, RunnerAssumption
    <2>3. Moves(s, Flush(s, then)) /\ FitsAfter(s, Flush(s, then))
      BY <1>1, <2>1, <2>2, FlushMoves
    <2>4. Healthy(Flush(s, then), data[r], lifecycle[r], mailbox[r], streamed, start, chunk)
      BY <2>1, <2>3, StillHealthy
    <2>5. QED
      BY <1>3, <1>5, <2>4
  <1>6. ASSUME NEW result \in Results, StopsDraining(r, result),
               result \in Success => data[r] = <<>> /\ result = s.result
        PROVE  Next1
    <2> DEFINE t == [s EXCEPT !.phase = "publishing_stopped", !.result = result]
    <2>1. s.phase = "draining" /\ Becomes(r, t)
      BY <1>6 DEF StopsDraining
    <2>2. Healthy(t, data[r], lifecycle[r], mailbox[r], streamed, start, chunk)
      BY <1>6, <2>1, DrainedHealthy
    <2>3. QED
      BY <1>3, <2>1, <2>2
  <1>7. CASE Connected(r)
    BY <1>3, <1>7, ConnectedHealthy DEF Connected
  <1>8. CASE ConnectFails(r) \/ ConnectTimeout(r) \/ SeesCancel(r)
    BY <1>2, <1>4, <1>8 DEF ConnectFails, ConnectTimeout, SeesCancel
  <1>9. CASE PublishStarted(r)
    <2>1. /\ s.phase = "publishing_started"
          /\ lifecycle' = [lifecycle EXCEPT ![r] = Append(@, "Started")]
          /\ run' = [run EXCEPT ![r].phase = "streaming"]
          /\ data' = data /\ mailbox' = mailbox
      BY <1>9 DEF PublishStarted
    <2>2. /\ run'[r] = [s EXCEPT !.phase = "streaming"]
          /\ lifecycle'[r] = Append(lifecycle[r], "Started")
      BY <2>1 DEF Domains
    <2>3. QED
      BY <2>1, <2>2, StartedHealthy
  <1>10. CASE ReadsLimit(r)
    <2>1. PICK m \in mailbox[r] :
            /\ s.phase \in {"connecting", "streaming"}
            /\ mailbox' = [mailbox EXCEPT ![r] = {}]
            /\ run' = [run EXCEPT ![r] = ApplyLimit(s, m)]
            /\ data' = data /\ lifecycle' = lifecycle
      BY <1>10 DEF ReadsLimit
    <2>2. run'[r] = ApplyLimit(s, m) /\ mailbox'[r] = {}
      BY <2>1 DEF Domains
    <2>3. QED
      BY <2>1, <2>2, LimitHealthy
  <1>11. CASE SeesMailboxClosed(r) \/ EmitFails(r)
    BY <1>11 DEF SeesMailboxClosed, EmitFails
  <1>12. CASE ReadsItem(r)
    <2>1. PICK size \in ItemSizes :
            LET n == Smaller(size, s.until - s.read)
                item == [i \in 1..n |-> s.read + i - 1]
            IN  /\ Reading(r)
                /\ Becomes(r, BufferItem([s EXCEPT !.item = item, !.read = @ + n]))
      BY <1>12 DEF ReadsItem
    <2> DEFINE n == Smaller(size, s.until - s.read)
               u == [s EXCEPT !.item = [i \in 1..n |-> s.read + i - 1], !.read = @ + n]
    <2>2. s.phase = "streaming" /\ s.staged = <<>> /\ Becomes(r, BufferItem(u))
      BY <2>1 DEF Reading, Emitting
    <2>3. size \in Nat /\ s.until \in Nat /\ s.read \in Nat /\ s.read <= s.until
      BY <1>1, <2>2, RunnerAssumption DEF RunOK, Run, Live, RunnerAssumption
    <2>4. n \in Nat /\ s.read + n <= s.until
      BY <2>3 DEF Smaller
    <2> HIDE DEF n
    <2>5. Healthy(BufferItem(u), data[r], lifecycle[r], mailbox[r], streamed, start, chunk)
      BY <2>2, <2>4, ReadsItemHealthy
    <2>6. QED
      BY <1>3, <2>2, <2>5
  <1>13. CASE StreamEnds(r) \/ StreamEndsShort(r) \/ StreamFails(r) \/ IdleTimeout(r)
    BY <1>5, <1>13 DEF StreamEnds, StreamEndsShort, StreamFails, IdleTimeout, Stops
  <1>14. CASE Emitted(r)
    <2> DEFINE u == [s EXCEPT !.downloaded = @ + Len(s.staged), !.staged = <<>>,
                              !.then = "None", !.deferred = "None"]
               t == ResumeAfterEmit(u, s.then, s.deferred)
    <2>1. /\ s.phase = "streaming" /\ s.staged # <<>>
          /\ data' = [data EXCEPT ![r] = Append(@, s.staged)]
          /\ run' = [run EXCEPT ![r] = t]
          /\ lifecycle' = lifecycle /\ mailbox' = mailbox
      BY <1>14 DEF Emitted, Emitting
    <2>2. Healthy(t, Append(data[r], s.staged), lifecycle[r], mailbox[r], streamed, start, chunk)
      BY <2>1, EmittedHealthy
    <2> HIDE DEF t
    <2>3. run'[r] = t /\ data'[r] = Append(data[r], s.staged)
      BY <2>1 DEF Domains
    <2>4. QED
      BY <2>1, <2>2, <2>3
  <1>15. CASE Drained(r) \/ DrainCancelled(r) \/ DrainTimeout(r)
    <2>1. CASE Drained(r)
      <3>1. data[r] = <<>> /\ StopsDraining(r, s.result) /\ s.result \in Results
        BY <1>1, <2>1 DEF Drained, StopsDraining
      <3>2. QED
        BY <1>6, <3>1
    <2>2. CASE DrainCancelled(r)
      BY <1>2, <1>6, <2>2 DEF DrainCancelled
    <2>3. CASE DrainTimeout(r)
      BY <1>2, <1>6, <2>3 DEF DrainTimeout
    <2>4. QED
      BY <1>15, <2>1, <2>2, <2>3
  <1>16. CASE PublishStopped(r)
    <2>1. /\ s.phase = "publishing_stopped"
          /\ run' = [run EXCEPT ![r] = [NoRun EXCEPT !.phase = "stopped"]]
          /\ lifecycle' = [lifecycle EXCEPT ![r] = Append(@, s.result)]
          /\ data' = data /\ mailbox' = mailbox
      BY <1>16 DEF PublishStopped
    <2>2. /\ run'[r] = [NoRun EXCEPT !.phase = "stopped"]
          /\ lifecycle'[r] = Append(lifecycle[r], s.result)
      BY <2>1 DEF Domains
    <2>3. QED
      BY <2>1, <2>2, StoppedHealthy
  <1>17. CASE Lost(r)
    <2> DEFINE t == [NoRun EXCEPT !.phase = "lost"]
    <2>1. Becomes(r, t)
      BY <1>17 DEF Lost
    <2>2. NoRun \in Run
      BY DEF NoRun, Run, Phases
    <2>3. t \in Run /\ t.phase = "lost" /\ t.buffer = <<>> /\ t.staged = <<>>
      BY <2>2 DEF NoRun, Run, Phases
    <2> HIDE DEF t
    <2>4. RunOK(t) /\ t.phase \notin Live
      BY <2>3, RunnerAssumption DEF RunOK, Live, RunnerAssumption
    <2>5. Healthy(t, data[r], lifecycle[r], mailbox[r], streamed, start, chunk)
      BY <2>3, <2>4, QuitHealthy
    <2>6. QED
      BY <1>3, <2>1, <2>5
  <1>18. QED
    BY <1>7, <1>8, <1>9, <1>10, <1>11, <1>12, <1>13, <1>14, <1>15, <1>16, <1>17
    DEF RunnerWork, RunnerFault

-----------------------------------------------------------------------------
(* The steps of the planner, as the runners see them. *)

\* What is said of a runner depends on its own state, channels and chunk.
LEMMA RunnerKept ==
  ASSUME NEW q \in Runners, RunnerOK(q),
         run'[q] = run[q], data'[q] = data[q], lifecycle'[q] = lifecycle[q],
         mailbox'[q] = mailbox[q], receiving'[q] = receiving[q],
         q \in streams' <=> q \in streams,
         receiving[q] => /\ runner_to_chunk'[q] = runner_to_chunk[q]
                         /\ RunnerChunk(q)' = RunnerChunk(q)
  PROVE  RunnerOK(q)'
PROOF
  <1>1. (q \in streams') = (q \in streams)
    OBVIOUS
  <1>2. ASSUME receiving[q]
        PROVE  Healthy(run'[q], data'[q], lifecycle'[q], mailbox'[q], q \in streams',
                       runner_to_chunk'[q], RunnerChunk(q)')
    BY <1>1, <1>2 DEF RunnerOK
  <1>3. QED
    BY <1>2 DEF RunnerOK

\* No two runners have the same chunk.
LEMMA ChunksDiffer ==
  ASSUME PlannerInv, NEW r \in Runners, NEW q \in Runners, q # r, HasRunner(r), HasRunner(q)
  PROVE  runner_to_chunk[q] # runner_to_chunk[r]
PROOF
  BY DEF PlannerInv, MappingAgrees, HasRunner, RunnerChunk

Untouched(q) == /\ HasRunner(q)'
                /\ runner_to_chunk'[q] = runner_to_chunk[q]
                /\ RunnerChunk(q)' = RunnerChunk(q)

\* mark_running
LEMMA MarkRunningChunks ==
  ASSUME PlannerInv, NEW r \in Runners, HasRunner(r), MarkRunning(r)
  PROVE  /\ \A q \in Runners : HasRunner(q)' <=> HasRunner(q)
         /\ \A q \in Runners \ {r} : HasRunner(q) => Untouched(q)
         /\ runner_to_chunk'[r] = runner_to_chunk[r]
         /\ RunnerChunk(r)' = [RunnerChunk(r) EXCEPT !.status = "Running"]
PROOF
  <1>1. \A q \in Runners : HasRunner(q) => runner_to_chunk[q] \in DOMAIN chunks
    BY RunnerChunkOK
  <1>2. \A q \in Runners \ {r} : HasRunner(q) => runner_to_chunk[q] # runner_to_chunk[r]
    BY ChunksDiffer
  <1>3. QED
    BY <1>1, <1>2 DEF MarkRunning, HasRunner, Untouched, RunnerChunk

\* update_progress
LEMMA UpdateProgressChunks ==
  ASSUME PlannerInv, NEW r \in Runners, HasRunner(r), NEW n, UpdateProgress(r, n)
  PROVE  /\ \A q \in Runners : HasRunner(q)' <=> HasRunner(q)
         /\ \A q \in Runners \ {r} : HasRunner(q) => Untouched(q)
         /\ runner_to_chunk'[r] = runner_to_chunk[r]
         /\ RunnerChunk(r)'.done = RunnerChunk(r).done + AcceptedLength(r, n)
         /\ RunnerChunk(r)'.end = RunnerChunk(r).end
         /\ RunnerChunk(r)'.status =
              IF RunnerChunk(r).done + AcceptedLength(r, n) >= RunnerChunk(r).end
              THEN "Finished" ELSE RunnerChunk(r).status
PROOF
  <1> DEFINE k == AcceptedLength(r, n)
             s == runner_to_chunk[r]
  <1>1. \A q \in Runners : HasRunner(q) => runner_to_chunk[q] \in DOMAIN chunks
    BY RunnerChunkOK
  <1>2. \A q \in Runners \ {r} : HasRunner(q) => runner_to_chunk[q] # runner_to_chunk[r]
    BY ChunksDiffer
  <1>3. /\ chunks' = [chunks EXCEPT
                        ![s].done = chunks[s].done + k,
                        ![s].status = IF chunks[s].done + k >= chunks[s].end
                                      THEN "Finished" ELSE chunks[s].status]
        /\ runner_to_chunk' = runner_to_chunk
    BY DEF UpdateProgress
  <1>4. chunks[s] \in Chunk /\ s \in DOMAIN chunks
    BY RunnerChunkOK DEF RunnerChunk
  <1> HIDE DEF k
  <1>5. /\ chunks'[s].done = chunks[s].done + k /\ chunks'[s].end = chunks[s].end
        /\ chunks'[s].status = IF chunks[s].done + k >= chunks[s].end
                               THEN "Finished" ELSE chunks[s].status
    BY <1>3, <1>4 DEF Chunk
  <1>6. \A q \in Runners \ {r} : HasRunner(q) => Untouched(q)
    BY <1>1, <1>2, <1>3 DEF HasRunner, Untouched, RunnerChunk
  <1>7. QED
    BY <1>3, <1>5, <1>6 DEF HasRunner, RunnerChunk, k

\* resize_runner_state
LEMMA ResizeChunks ==
  ASSUME PlannerInv, NEW r \in Runners, HasRunner(r), NEW n, ResizeRunnerState(r, n)
  PROVE  /\ \A q \in Runners : HasRunner(q)' <=> HasRunner(q)
         /\ \A q \in Runners \ {r} : HasRunner(q) => Untouched(q)
         /\ runner_to_chunk'[r] = runner_to_chunk[r]
         /\ RunnerChunk(r)' = [RunnerChunk(r) EXCEPT !.end = RunnerChunk(r).done + n]
PROOF
  <1>1. \A q \in Runners : HasRunner(q) => runner_to_chunk[q] \in DOMAIN chunks
    BY RunnerChunkOK
  <1>2. \A q \in Runners \ {r} : HasRunner(q) => runner_to_chunk[q] # runner_to_chunk[r]
    BY ChunksDiffer
  <1>3. QED
    BY <1>1, <1>2 DEF ResizeRunnerState, HasRunner, Untouched, RunnerChunk

\* mark_finished and mark_failed: the runner has no chunk any more.
LEMMA MarkEndsChunks ==
  ASSUME PlannerInv, NEW r \in Runners, HasRunner(r), MarkFinished(r) \/ MarkFailed(r)
  PROVE  /\ \A q \in Runners : HasRunner(q)' <=> HasRunner(q) /\ q # r
         /\ \A q \in Runners \ {r} : HasRunner(q) => Untouched(q)
PROOF
  <1>1. \A q \in Runners : HasRunner(q) => runner_to_chunk[q] \in DOMAIN chunks
    BY RunnerChunkOK
  <1>2. \A q \in Runners \ {r} : HasRunner(q) => runner_to_chunk[q] # runner_to_chunk[r]
    BY ChunksDiffer
  <1>3. runner_to_chunk' = RemoveKey(runner_to_chunk, r)
    BY DEF MarkFinished, MarkFailed
  <1>4. /\ DOMAIN runner_to_chunk' = DOMAIN runner_to_chunk \ {r}
        /\ \A q \in DOMAIN runner_to_chunk \ {r} : runner_to_chunk'[q] = runner_to_chunk[q]
    BY <1>3 DEF RemoveKey
  <1>5. \A t \in DOMAIN chunks : t # runner_to_chunk[r] => chunks'[t] = chunks[t]
    <2>1. CASE MarkFinished(r)
      BY <2>1 DEF MarkFinished
    <2>2. CASE MarkFailed(r)
      <3>1. CASE chunks[runner_to_chunk[r]].done = runner_to_chunk[r]
        BY <2>2, <3>1 DEF MarkFailed, RemoveKey
      <3>2. CASE chunks[runner_to_chunk[r]].done # runner_to_chunk[r]
        BY <2>2, <3>2 DEF MarkFailed
      <3>3. QED
        BY <3>1, <3>2
    <2>3. QED
      BY <2>1, <2>2
  <1>6. QED
    BY <1>1, <1>2, <1>4, <1>5 DEF HasRunner, Untouched, RunnerChunk

\* allocate_pending_chunk
LEMMA AllocateChunks ==
  ASSUME PlannerInv, NEW r \in Runners, ~HasRunner(r),
         NEW start \in 0..Total, NEW end \in 0..Total,
         CanAllocate(start, end), AllocatePending(start, end, r)
  PROVE  /\ \A q \in Runners : HasRunner(q)' <=> HasRunner(q) \/ q = r
         /\ \A q \in Runners \ {r} : HasRunner(q) => Untouched(q)
         /\ runner_to_chunk'[r] = start
         /\ RunnerChunk(r)' = NewChunk(start, end, r, "Pending")
PROOF
  <1>1. \A q \in Runners : HasRunner(q) => runner_to_chunk[q] \in DOMAIN chunks
    BY RunnerChunkOK
  <1>2. start \notin DOMAIN chunks
    BY AllocatedIsFree, PlannerAssumption DEF PlannerInv, PlannerTypeOK, CanAllocate, Chunk
  <1>3. QED
    BY <1>1, <1>2 DEF AllocatePending, InsertKey, HasRunner, Untouched, RunnerChunk

-----------------------------------------------------------------------------
(* The writes. *)

\* The list `more` is the list `less` with one more element, at place k.
OneMore(less, more, k) ==
  /\ k \in 1..Len(more)
  /\ Len(more) = Len(less) + 1
  /\ \A i \in 1..Len(more) : /\ i < k => more[i] = less[i]
                             /\ i > k => more[i] = less[i - 1]

\* The places of the elements in the longer and in the shorter list.
Up(j, k) == IF j < k THEN j ELSE j + 1

Down(i, k) == IF i < k THEN i ELSE i - 1

LEMMA OneMorePlaces ==
  ASSUME NEW less \in Seq(Write), NEW more \in Seq(Write), NEW k, OneMore(less, more, k)
  PROVE  /\ \A j \in 1..Len(less) :
              Up(j, k) \in 1..Len(more) /\ Up(j, k) # k /\ more[Up(j, k)] = less[j]
         /\ \A i \in 1..Len(more) : i # k =>
              Down(i, k) \in 1..Len(less) /\ more[i] = less[Down(i, k)]
         /\ \A i, j \in 1..Len(less) : i # j => Up(i, k) # Up(j, k)
         /\ \A i, j \in 1..Len(more) : i # j /\ i # k /\ j # k => Down(i, k) # Down(j, k)
PROOF
  <1> USE DEF Up, Down
  <1>1. Len(less) \in Nat /\ Len(more) \in Nat /\ k \in Nat /\ k <= Len(more) /\ k >= 1
        /\ Len(more) = Len(less) + 1
    BY DEF OneMore
  <1>2. ASSUME NEW j \in 1..Len(less)
        PROVE  Up(j, k) \in 1..Len(more) /\ Up(j, k) # k /\ more[Up(j, k)] = less[j]
    <2>1. CASE j < k
      BY <1>1, <2>1 DEF OneMore
    <2>2. CASE ~(j < k)
      <3>1. j + 1 \in 1..Len(more) /\ j + 1 > k /\ j + 1 - 1 = j
        BY <1>1, <2>2
      <3>2. more[j + 1] = less[j + 1 - 1]
        BY <3>1 DEF OneMore
      <3>3. QED
        BY <1>1, <2>2, <3>1, <3>2
    <2>3. QED
      BY <2>1, <2>2
  <1>3. ASSUME NEW i \in 1..Len(more), i # k
        PROVE  Down(i, k) \in 1..Len(less) /\ more[i] = less[Down(i, k)]
    <2>1. CASE i < k
      BY <1>1, <2>1 DEF OneMore
    <2>2. CASE ~(i < k)
      <3>1. i > k /\ i - 1 \in 1..Len(less)
        BY <1>1, <1>3, <2>2
      <3>2. QED
        BY <1>1, <2>2, <3>1 DEF OneMore
    <2>3. QED
      BY <2>1, <2>2
  <1>4. \A i, j \in 1..Len(less) : i # j => Up(i, k) # Up(j, k)
    BY <1>1
  <1>5. \A i, j \in 1..Len(more) : i # j /\ i # k /\ j # k => Down(i, k) # Down(j, k)
    BY <1>1
  <1> HIDE DEF Up, Down
  <1>6. QED
    BY <1>2, <1>3, <1>4, <1>5

LEMMA RangeOfWrite ==
  ASSUME NEW w \in Write
  PROVE  /\ w.start \in Nat /\ Len(w.bytes) \in Nat
         /\ \A b : b \in WriteRangeOf(w)
                     <=> b \in Nat /\ w.start <= b /\ b < w.start + Len(w.bytes)
PROOF
  <1>1. w.start \in Nat /\ Len(w.bytes) \in Nat
    BY DEF Write
  <1>2. QED
    BY <1>1 DEF WriteRangeOf

\* A write of bytes that were not accepted before is added.
LEMMA WriteIsAdded ==
  ASSUME NEW less \in Seq(Write), NEW more \in Seq(Write), NEW k, OneMore(less, more, k),
         NEW stored, NEW accepted, accepted \subseteq 0..(Total - 1),
         OnTheWay(less, stored, accepted),
         WriteRangeOf(more[k]) \cap accepted = {},
         WriteRangeOf(more[k]) \subseteq 0..(Total - 1),
         \A b \in WriteRangeOf(more[k]) : more[k].bytes[b - more[k].start + 1] = b
  PROVE  /\ OnTheWay(more, stored, accepted \cup WriteRangeOf(more[k]))
         /\ AllThere(less, stored, accepted)
              => AllThere(more, stored, accepted \cup WriteRangeOf(more[k]))
PROOF
  <1> DEFINE w == more[k]
             new == accepted \cup WriteRangeOf(w)
  <1>1. k \in 1..Len(more)
    BY DEF OneMore
  <1> HIDE DEF w
  <1>2. \A b \in 0..(Total - 1) : stored[b] \in {Hole, b} /\ (stored[b] = b => b \in new)
    BY DEF OnTheWay
  <1>3. ASSUME NEW i \in 1..Len(more), NEW b \in WriteRangeOf(more[i])
        PROVE  b \in new /\ more[i].bytes[b - more[i].start + 1] = b /\ stored[b] = Hole
    <2>1. CASE i = k
      <3>1. b \in WriteRangeOf(w) /\ b \notin accepted /\ b \in 0..(Total - 1)
        BY <1>3, <2>1 DEF w
      <3>2. stored[b] = Hole
        BY <3>1 DEF OnTheWay
      <3>3. QED
        BY <1>3, <2>1, <3>1, <3>2 DEF w
    <2>2. CASE i # k
      <3>1. PICK j \in 1..Len(less) : more[i] = less[j]
        BY <2>2, OneMorePlaces
      <3>2. QED
        BY <1>3, <3>1 DEF OnTheWay
    <2>3. QED
      BY <2>1, <2>2
  <1>4. ASSUME NEW i \in 1..Len(more), i # k
        PROVE  WriteRangeOf(more[i]) \cap WriteRangeOf(w) = {}
    <2>1. PICK j \in 1..Len(less) : more[i] = less[j]
      BY <1>4, OneMorePlaces
    <2>2. WriteRangeOf(more[i]) \subseteq accepted
      BY <2>1 DEF OnTheWay
    <2>3. QED
      BY <2>2 DEF w
  <1>5. ASSUME NEW m \in 1..Len(more), NEW n \in 1..Len(more), m # n
        PROVE  WriteRangeOf(more[m]) \cap WriteRangeOf(more[n]) = {}
    <2>1. CASE m # k /\ n # k
      <3>1. /\ Down(m, k) \in 1..Len(less) /\ more[m] = less[Down(m, k)]
            /\ Down(n, k) \in 1..Len(less) /\ more[n] = less[Down(n, k)]
            /\ Down(m, k) # Down(n, k)
        BY <1>5, <2>1, OneMorePlaces
      <3>2. QED
        BY <3>1 DEF OnTheWay
    <2>2. CASE m = k \/ n = k
      BY <1>4, <1>5, <2>2 DEF w
    <2>3. QED
      BY <2>1, <2>2
  <1>6. AllThere(less, stored, accepted) => AllThere(more, stored, new)
    <2>1. SUFFICES ASSUME AllThere(less, stored, accepted), NEW b \in new
                   PROVE  stored[b] = b \/ \E i \in 1..Len(more) : b \in WriteRangeOf(more[i])
      BY DEF AllThere
    <2>2. CASE b \in WriteRangeOf(w)
      BY <1>1, <2>2 DEF w
    <2>3. CASE b \in accepted
      <3>1. stored[b] = b \/ \E j \in 1..Len(less) : b \in WriteRangeOf(less[j])
        BY <2>1, <2>3 DEF AllThere
      <3>2. QED
        BY <3>1, OneMorePlaces
    <2>4. QED
      BY <2>2, <2>3
  <1>7. QED
    BY <1>2, <1>3, <1>5, <1>6 DEF OnTheWay, w

\* A write is taken off the list; it has landed or failed.
LEMMA WriteIsTaken ==
  ASSUME NEW less \in Seq(Write), NEW more \in Seq(Write), NEW k, OneMore(less, more, k),
         NEW stored, NEW accepted, OnTheWay(more, stored, accepted)
  PROVE  OnTheWay(less, stored, accepted)
PROOF
  <1>1. ASSUME NEW i \in 1..Len(less), NEW b \in WriteRangeOf(less[i])
        PROVE  b \in accepted /\ less[i].bytes[b - less[i].start + 1] = b /\ stored[b] = Hole
    <2>1. PICK j \in 1..Len(more) : more[j] = less[i]
      BY OneMorePlaces
    <2>2. QED
      BY <1>1, <2>1 DEF OnTheWay
  <1>2. ASSUME NEW i \in 1..Len(less), NEW j \in 1..Len(less), i # j
        PROVE  WriteRangeOf(less[i]) \cap WriteRangeOf(less[j]) = {}
    <2>1. /\ Up(i, k) \in 1..Len(more) /\ more[Up(i, k)] = less[i]
          /\ Up(j, k) \in 1..Len(more) /\ more[Up(j, k)] = less[j]
          /\ Up(i, k) # Up(j, k)
      BY <1>2, OneMorePlaces
    <2>2. QED
      BY <2>1 DEF OnTheWay
  <1>3. QED
    BY <1>1, <1>2 DEF OnTheWay

\* The file after a write.
Landed(w, stored) == [b \in 0..(Total - 1) |->
  IF w.start <= b /\ b < w.start + Len(w.bytes) THEN w.bytes[b - w.start + 1] ELSE stored[b]]

LEMMA WriteLands ==
  ASSUME NEW less \in Seq(Write), NEW more \in Seq(Write), NEW k, OneMore(less, more, k),
         NEW stored, NEW accepted, accepted \subseteq 0..(Total - 1),
         OnTheWay(more, stored, accepted), NEW now, now = Landed(more[k], stored)
  PROVE  /\ OnTheWay(less, now, accepted)
         /\ AllThere(more, stored, accepted) => AllThere(less, now, accepted)
PROOF
  <1> DEFINE w == more[k]
  <1>1. k \in 1..Len(more) /\ w \in Write
    BY DEF OneMore
  <1>2. \A b \in 0..(Total - 1) :
          b \in WriteRangeOf(w) <=> w.start <= b /\ b < w.start + Len(w.bytes)
    BY <1>1, RangeOfWrite, PlannerAssumption DEF PlannerAssumption
  <1>3. \A b \in WriteRangeOf(w) : b \in accepted /\ w.bytes[b - w.start + 1] = b
    BY <1>1 DEF OnTheWay
  <1>4. \A b \in 0..(Total - 1) : now[b] = IF b \in WriteRangeOf(w) THEN b ELSE stored[b]
    BY <1>2, <1>3 DEF Landed
  <1>5. OnTheWay(less, stored, accepted)
    BY WriteIsTaken
  <1>6. ASSUME NEW i \in 1..Len(less)
        PROVE  WriteRangeOf(less[i]) \cap WriteRangeOf(w) = {}
    <2>1. PICK j \in 1..Len(more) : j # k /\ more[j] = less[i]
      BY OneMorePlaces
    <2>2. QED
      BY <1>1, <2>1 DEF OnTheWay
  <1> HIDE DEF w
  <1>7. OnTheWay(less, now, accepted)
    <2>1. \A b \in 0..(Total - 1) : now[b] \in {Hole, b} /\ (now[b] = b => b \in accepted)
      BY <1>3, <1>4, <1>5 DEF OnTheWay
    <2>2. ASSUME NEW i \in 1..Len(less), NEW b \in WriteRangeOf(less[i])
          PROVE  b \in accepted /\ less[i].bytes[b - less[i].start + 1] = b /\ now[b] = Hole
      <3>1. b \in accepted /\ less[i].bytes[b - less[i].start + 1] = b /\ stored[b] = Hole
        BY <1>5, <2>2 DEF OnTheWay
      <3>2. b \in 0..(Total - 1) /\ b \notin WriteRangeOf(w)
        BY <1>6, <2>2, <3>1
      <3>3. QED
        BY <1>4, <3>1, <3>2
    <2>3. QED
      BY <1>5, <2>1, <2>2 DEF OnTheWay
  <1>8. AllThere(more, stored, accepted) => AllThere(less, now, accepted)
    <2>1. SUFFICES ASSUME AllThere(more, stored, accepted), NEW b \in accepted, now[b] # b
                   PROVE  \E i \in 1..Len(less) : b \in WriteRangeOf(less[i])
      BY DEF AllThere
    <2>2. b \in 0..(Total - 1) /\ b \notin WriteRangeOf(w) /\ stored[b] # b
      BY <1>4, <2>1
    <2>3. PICK i \in 1..Len(more) : b \in WriteRangeOf(more[i])
      BY <2>1, <2>2 DEF AllThere
    <2>4. i # k
      BY <2>2, <2>3 DEF w
    <2>5. QED
      BY <2>3, <2>4, OneMorePlaces
  <1>9. QED
    BY <1>7, <1>8

-----------------------------------------------------------------------------
(* Every step keeps the invariant. *)

\* The steps that leave the writer and the accepted bytes alone.
LEMMA WrittenKept ==
  ASSUME Written, UNCHANGED writerVars, Downloaded' = Downloaded,
         saw_error => outcome' # "Finished" /\ Ending',
         outcome' = "Finished" => Downloaded = 0..(Total - 1) /\ Ending',
         loop' = "done" => in_flight = <<>>
  PROVE  Written'
PROOF
  <1>1. /\ in_flight' = in_flight /\ pending_write' = pending_write
        /\ saw_error' = saw_error /\ file' = file
    BY DEF writerVars
  <1>2. Outstanding' = Outstanding
    BY <1>1 DEF Outstanding
  <1>3. WriterOK'
    BY <1>1 DEF Written, WriterOK
  <1>4. QED
    BY <1>1, <1>2, <1>3 DEF Written

LEMMA SamePlanner ==
  ASSUME PlannerInv, UNCHANGED plannerVars
  PROVE  /\ PlannerInv' /\ Downloaded' = Downloaded
         /\ \A q : /\ HasRunner(q)' <=> HasRunner(q)
                   /\ runner_to_chunk'[q] = runner_to_chunk[q]
                   /\ RunnerChunk(q)' = RunnerChunk(q)
PROOF
  <1>1. PlannerInv'
    BY PlannerStepInv
  <1>2. chunks' = chunks /\ runner_to_chunk' = runner_to_chunk
    BY DEF plannerVars
  <1>3. QED
    BY <1>1, <1>2 DEF Downloaded, HasRunner, RunnerChunk

\* The runner of receivers that the manager holds has a chunk.
LEMMA ReceivingHasRunner ==
  ASSUME LoopInv, NEW r \in Runners, receiving[r]
  PROVE  /\ Managing /\ Tables /\ HasRunner(r) /\ r \in ids
         /\ runner_to_chunk[r] \in DOMAIN chunks /\ RunnerChunk(r) \in Chunk
         /\ ChunkOK(runner_to_chunk[r], RunnerChunk(r))
         /\ Healthy(run[r], data[r], lifecycle[r], mailbox[r], r \in streams,
                    runner_to_chunk[r], RunnerChunk(r))
PROOF
  <1>1. Managing /\ Tables
    BY DEF LoopInv, Tended
  <1>2. HasRunner(r) /\ r \in ids
    BY <1>1 DEF Tables
  <1>3. QED
    BY <1>1, <1>2, RunnerChunkOK DEF LoopInv, Tended, RunnerOK

LEMMA RunnerStepInv ==
  ASSUME LoopInv, NEW r \in Runners, RunnerWork(r) \/ RunnerFault(r),
         UNCHANGED <<loop, outcome>>, NothingElse
  PROVE  LoopInv'
PROOF
  <1>1. /\ UNCHANGED plannerVars /\ UNCHANGED writerVars
        /\ ids' = ids /\ spawn_failures' = spawn_failures /\ streams' = streams
        /\ todo' = todo /\ max_concurrency' = max_concurrency
        /\ loop' = loop /\ outcome' = outcome
    BY DEF NothingElse, managerVars, strategyVars
  <1>2. /\ PlannerInv' /\ Downloaded' = Downloaded
        /\ \A q : /\ HasRunner(q)' <=> HasRunner(q)
                  /\ runner_to_chunk'[q] = runner_to_chunk[q]
                  /\ RunnerChunk(q)' = RunnerChunk(q)
    BY <1>1, SamePlanner DEF LoopInv
  <1>3. /\ DOMAIN run' = Runners /\ DOMAIN data' = Runners /\ DOMAIN lifecycle' = Runners
        /\ DOMAIN mailbox' = Runners /\ receiving' = receiving
        /\ \A q \in Runners \ {r} :
             /\ run'[q] = run[q] /\ data'[q] = data[q] /\ lifecycle'[q] = lifecycle[q]
             /\ mailbox'[q] = mailbox[q]
    BY StepIsLocal DEF LoopInv
  <1>4. Domains'
    BY <1>1, <1>3 DEF LoopInv, Domains
  <1>5. Planned'
    BY <1>1, <1>3 DEF LoopInv, Planned
  <1>6. Written'
    BY <1>1, <1>2, WrittenKept DEF LoopInv, Written, WriterOK, Ending
  <1>7. ASSUME NEW q \in Runners PROVE RunnerOK(q)'
    <2>1. CASE ~receiving[q]
      BY <1>3, <2>1 DEF RunnerOK
    <2>2. CASE receiving[q] /\ q = r
      <3>1. /\ ChunkOK(runner_to_chunk[r], RunnerChunk(r))
            /\ Healthy(run[r], data[r], lifecycle[r], mailbox[r], r \in streams,
                       runner_to_chunk[r], RunnerChunk(r))
        BY <2>2, ReceivingHasRunner
      <3>2. Healthy(run'[r], data'[r], lifecycle'[r], mailbox'[r], r \in streams,
                    runner_to_chunk[r], RunnerChunk(r))
        BY <2>2, <3>1, RunnerStepHealthy DEF LoopInv
      <3>3. QED
        BY <1>1, <1>2, <2>2, <3>2 DEF RunnerOK
    <2>3. CASE receiving[q] /\ q # r
      BY <1>1, <1>2, <1>3, <2>3, RunnerKept DEF LoopInv, Tended
    <2>4. QED
      BY <2>1, <2>2, <2>3
  <1>8. Managing => Tables'
    <2>1. SUFFICES ASSUME Managing PROVE Tables'
      OBVIOUS
    <2>2. Tables
      BY <2>1 DEF LoopInv, Tended
    <2>3. receiving[r]
      BY <2>2, NoRunNoStep DEF Tables
    <2>4. ASSUME NEW q \in Runners, ~receiving[q]
          PROVE  /\ run'[q] = NoRun /\ data'[q] = <<>> /\ lifecycle'[q] = <<>>
                 /\ mailbox'[q] = {} /\ q \notin streams
      BY <1>3, <2>2, <2>3, <2>4 DEF Tables
    <2>5. QED
      BY <1>1, <1>2, <1>3, <2>2, <2>4 DEF Tables, Rejected
  <1>9. Tended'
    BY <1>1, <1>3, <1>7, <1>8 DEF LoopInv, Tended, Managing
  <1>10. QED
    BY <1>2, <1>4, <1>5, <1>6, <1>9 DEF LoopInv

\* The steps that change nothing of the planner, the runners and the manager.
LEMMA StillInv ==
  ASSUME LoopInv, UNCHANGED plannerVars, UNCHANGED managerVars,
         UNCHANGED <<run, data, lifecycle, mailbox, receiving>>,
         loop' \in LoopPhases, Managing' <=> Managing, max_concurrency' \in Nat,
         Planned', Written'
  PROVE  LoopInv'
PROOF
  <1>1. /\ PlannerInv'
        /\ \A q : /\ HasRunner(q)' <=> HasRunner(q)
                  /\ runner_to_chunk'[q] = runner_to_chunk[q]
                  /\ RunnerChunk(q)' = RunnerChunk(q)
    BY SamePlanner DEF LoopInv
  <1>2. /\ run' = run /\ data' = data /\ lifecycle' = lifecycle /\ mailbox' = mailbox
        /\ receiving' = receiving
        /\ ids' = ids /\ spawn_failures' = spawn_failures /\ streams' = streams
    BY DEF managerVars
  <1>3. Domains'
    BY <1>2 DEF LoopInv, Domains
  <1>4. \A q \in Runners : RunnerOK(q)'
    BY <1>1, <1>2, RunnerKept DEF LoopInv, Tended
  <1>5. Tables => Tables'
    BY <1>1, <1>2 DEF Tables, Rejected
  <1>6. Tended'
    BY <1>2, <1>4, <1>5 DEF LoopInv, Tended
  <1>7. QED
    BY <1>1, <1>3, <1>6 DEF LoopInv

\* The same of the steps that leave the writer alone too.
LEMMA QuietInv ==
  ASSUME LoopInv, UNCHANGED plannerVars, UNCHANGED managerVars, UNCHANGED writerVars,
         UNCHANGED <<run, data, lifecycle, mailbox, receiving>>,
         loop' \in LoopPhases, Managing' <=> Managing, max_concurrency' \in Nat,
         Planned',
         saw_error => outcome' # "Finished" /\ Ending',
         outcome' = "Finished" => Downloaded = 0..(Total - 1) /\ Ending',
         loop' = "done" => in_flight = <<>>
  PROVE  LoopInv'
PROOF
  <1>1. Downloaded' = Downloaded
    BY SamePlanner DEF LoopInv
  <1>2. Written'
    BY <1>1, WrittenKept DEF LoopInv
  <1>3. QED
    BY <1>2, StillInv

\* While the loop works no write has failed and there is no outcome yet.
LEMMA Working ==
  ASSUME LoopInv, loop \in {"select", "applying", "unwinding"}
  PROVE  ~saw_error /\ outcome # "Finished" /\ Managing /\ Tables
PROOF
  BY DEF LoopInv, Written, WriterOK, Ending, Managing, Tended

\* A tick whose actions are well-formed.
LEMMA ApplyInv ==
  ASSUME LoopInv, loop = "select", NEW actions, Apply(actions), max_concurrency' \in Nat,
         actions \in Seq(Actions),
         \A i \in 1..Len(actions) : actions[i].kind = "Split" =>
           receiving[actions[i].runner] /\ actions[i].start <= actions[i].end
  PROVE  LoopInv'
PROOF
  <1>1. ~saw_error /\ outcome # "Finished" /\ Managing
    BY Working
  <1>2. /\ UNCHANGED <<plannerVars, runnerVars, managerVars, writerVars, outcome>>
        /\ loop' = "applying" /\ todo' = actions /\ actions # <<>>
    BY DEF Apply
  <1>3. UNCHANGED <<run, data, lifecycle, mailbox, receiving>>
    BY <1>2 DEF runnerVars
  <1>4. Planned'
    BY <1>2, <1>3 DEF Planned
  <1>5. loop' \in LoopPhases /\ Managing' /\ outcome' # "Finished" /\ loop' # "done"
    BY <1>1, <1>2 DEF LoopPhases, Managing
  <1>6. QED
    BY <1>1, <1>2, <1>3, <1>4, <1>5, QuietInv

LEMMA FiniteChunks ==
  ASSUME PlannerInv
  PROVE  /\ IsFiniteSet(DOMAIN chunks)
         /\ \A S \in SUBSET DOMAIN chunks : Cardinality(S) \in Nat
PROOF
  <1>1. IsFiniteSet(0..(Total - 1))
    BY FS_Interval, PlannerAssumption
  <1>2. IsFiniteSet(DOMAIN chunks)
    BY <1>1, FS_Subset DEF PlannerInv, PlannerTypeOK
  <1>3. QED
    BY <1>2, FS_Subset, FS_CardinalityType

\* The actions that create runners for free ranges.
LEMMA CreateTasksOK ==
  ASSUME PlannerInv, NEW ranges \in RangesInOrder, NEW n \in Nat
  PROVE  LET actions == CreateTasks(FirstN(ranges, n))
         IN  /\ actions \in Seq(Actions)
             /\ \A i \in 1..Len(actions) : actions[i].kind # "Split"
PROOF
  <1> DEFINE k == Cardinality(AvailableRanges)
             first == FirstN(ranges, n)
             Free == [start : Nat, end : Nat]
  <1>1. AvailableRanges \subseteq Free
    BY PlannerAssumption DEF AvailableRanges, PlannerInv, PlannerTypeOK, PlannerAssumption
  <1>2. k \in Nat
    <2>1. IsFiniteSet(0..Total)
      BY FS_Interval, PlannerAssumption
    <2>2. IsFiniteSet(DOMAIN chunks \cup {Total})
      BY FiniteChunks, FS_AddElement
    <2>3. IsFiniteSet((0..Total) \X (DOMAIN chunks \cup {Total}))
      BY <2>1, <2>2, FS_Product
    <2> DEFINE pair(g) == <<g.start, g.end>>
               f == [g \in AvailableRanges |-> pair(g)]
    <2>4. f \in Injection(AvailableRanges, (0..Total) \X (DOMAIN chunks \cup {Total}))
      BY DEF AvailableRanges, Injection, IsInjective
    <2>5. QED
      BY <2>3, <2>4, FS_Injection, FS_CardinalityType
  <1>3. ranges \in [1..k -> AvailableRanges]
    BY DEF RangesInOrder
  <1> HIDE DEF k, Free
  <1>4. ranges \in Seq(Free)
    <2>1. \A i \in 1..k : ranges[i] \in Free
      BY <1>1, <1>3
    <2>2. QED
      BY <1>2, <1>3, <2>1
  <1>5. first \in Seq(Free)
    <2>1. Len(ranges) \in Nat
      BY <1>4
    <2>2. Smaller(n, Len(ranges)) \in 0..Len(ranges)
      BY <2>1 DEF Smaller
    <2>3. \A m \in 0..Len(ranges) : SubSeq(ranges, 1, m) \in Seq(Free)
      BY <1>4
    <2>4. QED
      BY <2>2, <2>3 DEF FirstN
  <1> HIDE DEF first
  <1>6. \A i \in 1..Len(first) : CreateTask(first[i]) \in Actions /\ CreateTask(first[i]).kind # "Split"
    <2>1. \A g \in Free : CreateTask(g) \in Actions /\ CreateTask(g).kind # "Split"
      BY DEF CreateTask, Actions, Free
    <2>2. QED
      BY <1>5, <2>1
  <1>7. DOMAIN first = 1..Len(first) /\ Len(first) \in Nat
    BY <1>5
  <1>8. CreateTasks(first) = [i \in 1..Len(first) |-> CreateTask(first[i])]
    BY <1>7 DEF CreateTasks
  <1>9. CreateTasks(first) \in Seq(Actions) /\ Len(CreateTasks(first)) = Len(first)
    BY <1>6, <1>7, <1>8
  <1>10. QED
    BY <1>6, <1>8, <1>9 DEF first

\* The actions that split running chunks: each has a runner with a mailbox.
LEMMA SplitsOK ==
  ASSUME PlannerInv, Tables, NEW S, S \subseteq DOMAIN chunks,
         \A s \in S : chunks[s].status = "Running",
         NEW starts \in ChunksInOrder(S)
  PROVE  /\ Splits(starts) \in Seq(Actions)
         /\ \A i \in 1..Len(Splits(starts)) :
              /\ receiving[Splits(starts)[i].runner]
              /\ Splits(starts)[i].start <= Splits(starts)[i].end
PROOF
  <1> DEFINE k == Cardinality(S)
  <1>1. k \in Nat /\ starts \in [1..k -> S]
    BY FiniteChunks DEF ChunksInOrder
  <1>2. ASSUME NEW s \in S
        PROVE  Split(s) \in Actions /\ receiving[Split(s).runner] /\ Split(s).start <= Split(s).end
    <2> DEFINE r == chunks[s].runner
    <2>1. /\ chunks[s].done \in Nat /\ chunks[s].end \in Nat /\ chunks[s].done <= chunks[s].end
      BY PlannerAssumption DEF PlannerInv, PlannerTypeOK, Chunk, PlannerAssumption
    <2>2. r \in DOMAIN runner_to_chunk /\ runner_to_chunk[r] = s
      BY DEF PlannerInv, MappingAgrees, IsActive
    <2>3. r \in Runners
      BY <2>2 DEF PlannerInv, PlannerTypeOK
    <2>4. RunnerChunk(r).status = "Running"
      BY <2>2 DEF RunnerChunk
    <2>5. HasRunner(r)
      BY <2>2 DEF HasRunner
    <2> HIDE DEF r
    <2>6. receiving[r]
      BY <2>3, <2>4, <2>5 DEF Tables
    <2>7. Split(s) = [kind |-> "Split", runner |-> r, start |-> chunks[s].done, end |-> chunks[s].end]
      BY DEF Split, r
    <2>8. QED
      BY <2>1, <2>3, <2>6, <2>7 DEF Actions
  <1> HIDE DEF k
  <1>3. Splits(starts) = [i \in 1..k |-> Split(starts[i])]
    BY <1>1 DEF Splits
  <1>4. \A i \in 1..k : /\ Split(starts[i]) \in Actions /\ receiving[Split(starts[i]).runner]
                       /\ Split(starts[i]).start <= Split(starts[i]).end
    BY <1>1, <1>2
  <1>5. Splits(starts) \in Seq(Actions) /\ Len(Splits(starts)) = k
    BY <1>1, <1>3, <1>4
  <1>6. QED
    BY <1>3, <1>4, <1>5

LEMMA TickInv ==
  ASSUME LoopInv,
         FirstTick \/ CreateTick \/ SplitAllTick \/ SplitGivenTick \/ LeaveQuickStart \/ DegradeTick
  PROVE  LoopInv'
PROOF
  <1>1. PlannerInv /\ max_concurrency \in Nat
    BY DEF LoopInv, Domains
  <1>2. ASSUME NEW ranges \in RangesInOrder, NEW n \in Nat, loop = "select",
               Apply(CreateTasks(FirstN(ranges, n))), max_concurrency' = max_concurrency
        PROVE  LoopInv'
    <2>1. /\ CreateTasks(FirstN(ranges, n)) \in Seq(Actions)
          /\ \A i \in 1..Len(CreateTasks(FirstN(ranges, n))) :
                CreateTasks(FirstN(ranges, n))[i].kind # "Split"
      BY <1>1, CreateTasksOK
    <2>2. QED
      BY <1>1, <1>2, <2>1, ApplyInv
  <1>3. ASSUME NEW S, S \subseteq DOMAIN chunks, \A s \in S : chunks[s].status = "Running",
               NEW starts \in ChunksInOrder(S), loop = "select",
               Apply(Splits(starts)), max_concurrency' = max_concurrency
        PROVE  LoopInv'
    <2>1. Tables
      BY <1>3, Working
    <2>2. /\ Splits(starts) \in Seq(Actions)
          /\ \A i \in 1..Len(Splits(starts)) :
               /\ receiving[Splits(starts)[i].runner]
               /\ Splits(starts)[i].start <= Splits(starts)[i].end
      BY <1>1, <1>3, <2>1, SplitsOK
    <2>3. QED
      BY <1>1, <1>3, <2>2, ApplyInv
  <1>4. CASE FirstTick
    BY <1>1, <1>2, <1>4 DEF FirstTick, Ticks
  <1>5. CASE CreateTick
    <2>1. Active \in Nat
      BY <1>1, FiniteChunks DEF Active, ActiveChunks
    <2>2. Active < max_concurrency => max_concurrency - Active \in Nat
      BY <1>1, <2>1
    <2>3. QED
      BY <1>2, <1>5, <2>2 DEF CreateTick, Ticks
  <1>6. CASE SplitAllTick
    <2>1. PICK size \in 0..Total :
            \E starts \in ChunksInOrder(IncompleteStates(size)) : Apply(Splits(starts))
      BY <1>6 DEF SplitAllTick
    <2>2. /\ IncompleteStates(size) \subseteq DOMAIN chunks
          /\ \A s \in IncompleteStates(size) : chunks[s].status = "Running"
      BY DEF IncompleteStates
    <2>3. loop = "select" /\ max_concurrency' = max_concurrency
      BY <1>6 DEF SplitAllTick, MaySplit, Ticks
    <2>4. QED
      BY <1>3, <2>1, <2>2, <2>3
  <1>7. CASE SplitGivenTick
    <2>1. \E starts \in ChunksInOrder(ChunksToSplit) : Apply(Splits(starts))
      BY <1>7 DEF SplitGivenTick
    <2>2. /\ ChunksToSplit \subseteq DOMAIN chunks
          /\ \A s \in ChunksToSplit : chunks[s].status = "Running"
      BY DEF ChunksToSplit, SplitCandidates
    <2>3. loop = "select" /\ max_concurrency' = max_concurrency
      BY <1>7 DEF SplitGivenTick, MaySplit, Ticks
    <2>4. QED
      BY <1>3, <2>1, <2>2, <2>3
  <1>8. CASE LeaveQuickStart \/ DegradeTick
    <2>1. /\ loop = "select" /\ max_concurrency' \in Nat
          /\ UNCHANGED <<plannerVars, runnerVars, managerVars, writerVars, outcome, todo, loop>>
      BY <1>1, <1>8 DEF LeaveQuickStart, DegradeTick, MaySplit, Ticks
    <2>2. UNCHANGED <<run, data, lifecycle, mailbox, receiving>>
      BY <2>1 DEF runnerVars
    <2>3. /\ ~saw_error /\ outcome' # "Finished" /\ loop' = "select"
          /\ Planned' /\ (Managing' <=> Managing) /\ loop' \in LoopPhases
      BY <2>1, Working DEF Planned, Managing, LoopPhases
    <2>4. QED
      BY <2>1, <2>2, <2>3, QuietInv
  <1>9. QED
    BY <1>4, <1>5, <1>6, <1>7, <1>8

-----------------------------------------------------------------------------
\* The rest of the actions of a tick are well-formed when the first is done.
LEMMA ThenPlanned ==
  ASSUME NEW rest, Then(rest), rest \in Seq(Actions),
         \A i \in 1..Len(rest) : rest[i].kind = "Split" =>
           receiving'[rest[i].runner] /\ rest[i].start <= rest[i].end
  PROVE  Planned' /\ loop' \in {"select", "applying"} /\ outcome' = outcome
PROOF
  BY DEF Then, Planned

\* split, with or without success.
LEMMA ApplySplitInv ==
  ASSUME LoopInv, ApplySplit
  PROVE  LoopInv' /\ [PlannerNext]_plannerVars
PROOF
  <1> DEFINE a == NextAction
             half == (a.end - a.start) \div 2
             rest == [kind |-> "CreateTask", start |-> a.start + half, end |-> a.end]
  <1>1. /\ loop = "applying" /\ a.kind = "Split"
        /\ \/ Resized(a.runner, half) /\ Then(<<rest>> \o Tail(todo))
           \/ Refused(a.runner, half) /\ Then(Tail(todo))
        /\ UNCHANGED <<managerVars, writerVars>> /\ max_concurrency' = max_concurrency
    BY DEF ApplySplit
  <1>2. /\ todo \in Seq(Actions) /\ todo # <<>> /\ a = todo[1] /\ Len(todo) \in Nat \ {0}
        /\ \A i \in 1..Len(todo) : todo[i].kind = "Split" =>
             receiving[todo[i].runner] /\ todo[i].start <= todo[i].end
    BY <1>1 DEF LoopInv, Planned, NextAction
  <1>3. a \in Actions
    BY <1>2
  <1>4. a.runner \in Runners /\ a.start \in Nat /\ a.end \in Nat
    BY <1>1, <1>3 DEF Actions
  <1>5. PICK r \in Runners : r = a.runner /\ receiving[r] /\ a.start <= a.end
    BY <1>1, <1>2, <1>4
  <1>6. /\ Tail(todo) \in Seq(Actions) /\ Len(Tail(todo)) = Len(todo) - 1
        /\ \A i \in 1..Len(Tail(todo)) : Tail(todo)[i] = todo[i + 1]
    BY <1>2
  <1>7. \A i \in 1..Len(Tail(todo)) : Tail(todo)[i].kind = "Split" =>
          receiving[Tail(todo)[i].runner] /\ Tail(todo)[i].start <= Tail(todo)[i].end
    <2>1. \A i \in 1..Len(Tail(todo)) : i + 1 \in 1..Len(todo)
      BY <1>2, <1>6
    <2>2. QED
      BY <1>2, <1>6, <2>1
  <1>8. ~saw_error /\ outcome # "Finished" /\ Managing /\ Tables
    BY <1>1, Working
  <1> HIDE DEF a, half
  <1>9. CASE Refused(r, half) /\ Then(Tail(todo))
    <2>1. UNCHANGED plannerVars /\ UNCHANGED runnerVars
      BY <1>9 DEF Refused
    <2>2. UNCHANGED <<run, data, lifecycle, mailbox, receiving>>
      BY <2>1 DEF runnerVars
    <2>3. Planned' /\ loop' \in {"select", "applying"} /\ outcome' = outcome
      BY <1>6, <1>7, <1>9, <2>2, ThenPlanned
    <2>4. loop' \in LoopPhases /\ Managing' /\ loop' # "done" /\ max_concurrency' \in Nat
      BY <1>1, <2>3 DEF LoopPhases, Managing, LoopInv, Domains
    <2>5. QED
      BY <1>1, <1>8, <2>1, <2>2, <2>3, <2>4, QuietInv
  <1>10. CASE Resized(r, half) /\ Then(<<rest>> \o Tail(todo))
    <2>1. /\ HasRunner(r) /\ RunnerChunk(r) \in Chunk
          /\ ChunkOK(runner_to_chunk[r], RunnerChunk(r))
          /\ Healthy(run[r], data[r], lifecycle[r], mailbox[r], r \in streams,
                     runner_to_chunk[r], RunnerChunk(r))
      BY <1>4, <1>5, ReceivingHasRunner
    <2>2. /\ ShrinksTo(r, half) /\ ResizeRunnerState(r, half)
          /\ mailbox' = [mailbox EXCEPT ![r] = {LimitAfter(r, half)}]
          /\ run' = run /\ data' = data /\ lifecycle' = lifecycle /\ receiving' = receiving
      BY <1>10 DEF Resized, SendLimit
    <2>3. half \in Nat
      BY <1>4, <1>5 DEF half
    <2> DEFINE e == RunnerChunk(r).done + half
    <2>4. /\ e \in Nat /\ RunnerChunk(r).done <= e /\ e < RunnerChunk(r).end
          /\ LimitAfter(r, half) = e - runner_to_chunk[r]
      BY <2>1, <2>2, <2>3 DEF ShrinksTo, ChunkOK, LimitAfter
    <2>5. half \in 0..Total
      BY <2>1, <2>3, <2>4, PlannerAssumption DEF ChunkOK, Chunk, PlannerAssumption
    <2>6. PlannerResize
      BY <1>4, <2>1, <2>2, <2>5 DEF PlannerResize
    <2>7. PlannerInv' /\ Downloaded' = Downloaded
      BY <2>6, PlannerStepInv, OthersKeepBytes DEF LoopInv, PlannerNext
    <2>8. /\ \A q \in Runners : HasRunner(q)' <=> HasRunner(q)
          /\ \A q \in Runners \ {r} : HasRunner(q) => Untouched(q)
          /\ runner_to_chunk'[r] = runner_to_chunk[r]
          /\ RunnerChunk(r)' = [RunnerChunk(r) EXCEPT !.end = e]
      BY <1>4, <2>1, <2>2, ResizeChunks DEF LoopInv
    <2>9. /\ ids' = ids /\ spawn_failures' = spawn_failures /\ streams' = streams
      BY <1>1 DEF managerVars
    <2> HIDE DEF e
    <2>10. DOMAIN mailbox' = Runners /\ mailbox'[r] = {e - runner_to_chunk[r]}
           /\ \A q \in Runners \ {r} : mailbox'[q] = mailbox[q]
      BY <1>4, <2>2, <2>4 DEF LoopInv, Domains
    <2>11. ASSUME NEW q \in Runners PROVE RunnerOK(q)'
      <3>1. CASE q = r
        <4>1. Healthy(run[r], data[r], lifecycle[r], {e - runner_to_chunk[r]}, r \in streams,
                      runner_to_chunk[r], [RunnerChunk(r) EXCEPT !.end = e])
          BY <2>1, <2>4, ResizeHealthy
        <4>2. QED
          BY <2>2, <2>8, <2>9, <2>10, <3>1, <4>1 DEF RunnerOK
      <3>2. CASE q # r
        <4>1. receiving[q] => HasRunner(q)
          BY <1>8 DEF Tables
        <4>2. QED
          BY <2>2, <2>8, <2>9, <2>10, <3>2, <4>1, RunnerKept DEF LoopInv, Tended, Untouched
      <3>3. QED
        BY <3>1, <3>2
    <2>12. Tables'
      <3>1. ASSUME NEW q \in Runners, Rejected(q)
            PROVE  RunnerChunk(q)' = RunnerChunk(q)
        BY <1>5, <1>8, <2>8, <3>1 DEF Tables, Untouched
      <3>2. \A q \in Runners : Rejected(q)' <=> Rejected(q)
        BY <2>9 DEF Rejected
      <3>3. \A q \in Runners : ~receiving[q] => mailbox'[q] = {}
        BY <1>5, <1>8, <2>10 DEF Tables
      <3>4. QED
        BY <1>8, <2>2, <2>8, <2>9, <3>1, <3>2, <3>3 DEF Tables
    <2>13. Domains' /\ Tended' /\ Planned' /\ Written'
      <3>1. rest \in Actions /\ rest.kind = "CreateTask"
        BY <1>4, <2>3 DEF Actions
      <3>2. /\ <<rest>> \o Tail(todo) \in Seq(Actions)
            /\ Len(<<rest>> \o Tail(todo)) = 1 + Len(Tail(todo))
            /\ \A i \in 1..(1 + Len(Tail(todo))) :
                 (<<rest>> \o Tail(todo))[i] = IF i <= 1 THEN rest ELSE Tail(todo)[i - 1]
        BY <1>6, <3>1, Concatenation
      <3>3. ASSUME NEW i \in 1..Len(<<rest>> \o Tail(todo)), (<<rest>> \o Tail(todo))[i].kind = "Split"
            PROVE  /\ receiving'[(<<rest>> \o Tail(todo))[i].runner]
                   /\ (<<rest>> \o Tail(todo))[i].start <= (<<rest>> \o Tail(todo))[i].end
        <4>1. i # 1 /\ i - 1 \in 1..Len(Tail(todo)) /\ (<<rest>> \o Tail(todo))[i] = Tail(todo)[i - 1]
          BY <1>2, <1>6, <3>1, <3>2, <3>3
        <4>2. QED
          BY <1>7, <2>2, <3>3, <4>1
      <3>4. Planned' /\ loop' \in {"select", "applying"} /\ outcome' = outcome
        BY <1>10, <3>2, <3>3, ThenPlanned
      <3>5. Managing' /\ loop' \in LoopPhases /\ loop' # "done"
        BY <3>4 DEF Managing, LoopPhases
      <3>6. Domains'
        BY <1>1, <2>2, <2>9, <2>10, <3>5 DEF LoopInv, Domains
      <3>7. Tended'
        BY <2>11, <2>12, <3>5 DEF Tended
      <3>8. Written'
        BY <1>1, <1>8, <2>7, <3>4, <3>5, WrittenKept DEF LoopInv
      <3>9. QED
        BY <3>4, <3>6, <3>7, <3>8
    <2>14. QED
      BY <2>6, <2>7, <2>13 DEF LoopInv, PlannerNext
  <1>11. QED
    BY <1>1, <1>5, <1>9, <1>10

\* The first action of a tick.
LEMMA NextActionOK ==
  ASSUME LoopInv, loop = "applying"
  PROVE  /\ NextAction \in Actions
         /\ Tail(todo) \in Seq(Actions)
         /\ \A i \in 1..Len(Tail(todo)) : Tail(todo)[i].kind = "Split" =>
              receiving[Tail(todo)[i].runner] /\ Tail(todo)[i].start <= Tail(todo)[i].end
PROOF
  <1>1. /\ todo \in Seq(Actions) /\ todo # <<>> /\ Len(todo) \in Nat \ {0}
        /\ \A i \in 1..Len(todo) : todo[i].kind = "Split" =>
             receiving[todo[i].runner] /\ todo[i].start <= todo[i].end
    BY DEF LoopInv, Planned
  <1>2. NextAction = todo[1] /\ NextAction \in Actions
    BY <1>1 DEF NextAction
  <1>3. /\ Tail(todo) \in Seq(Actions) /\ Len(Tail(todo)) = Len(todo) - 1
        /\ \A i \in 1..Len(Tail(todo)) : Tail(todo)[i] = todo[i + 1]
    BY <1>1
  <1>4. \A i \in 1..Len(Tail(todo)) : i + 1 \in 1..Len(todo)
    BY <1>1, <1>3
  <1>5. QED
    BY <1>1, <1>2, <1>3, <1>4

\* A runner id and a chunk are taken, and the runner is spawned or rejected.
LEMMA ApplyCreateInv ==
  ASSUME LoopInv, ApplyCreate \/ ApplyCreateRejected
  PROVE  LoopInv' /\ [PlannerNext]_plannerVars
PROOF
  <1>1. /\ loop = "applying" /\ NextAction.kind = "CreateTask"
        /\ Runners \ ids # {} /\ CanAllocate(NextAction.start, NextAction.end)
        /\ AllocatePending(NextAction.start, NextAction.end, FreeId)
        /\ ids' = ids \cup {FreeId} /\ streams' = streams
        /\ UNCHANGED writerVars /\ max_concurrency' = max_concurrency
        /\ Then(Tail(todo))
    BY DEF ApplyCreate, ApplyCreateRejected, Creates, CanSpawn, Allocated
  <1>2. NextAction.start \in Nat /\ NextAction.end \in Nat
    BY <1>1, NextActionOK DEF Actions
  <1>3. PICK r \in Runners \ ids : r = FreeId
    BY <1>1 DEF FreeId
  <1>4. PICK start \in Nat, end \in Nat : start = NextAction.start /\ end = NextAction.end
    BY <1>2
  <1>5. /\ CanAllocate(start, end) /\ AllocatePending(start, end, r)
        /\ ids' = ids \cup {r}
    BY <1>1, <1>3, <1>4
  <1>6. start < end /\ start \in 0..Total /\ end \in 0..Total
    BY <1>5, PlannerAssumption DEF CanAllocate, PlannerAssumption
  <1>7. ~saw_error /\ outcome # "Finished" /\ Managing /\ Tables
    BY <1>1, Working
  <1>8. /\ ~HasRunner(r) /\ ~receiving[r] /\ ~Rejected(r) /\ r \notin streams
        /\ run[r] = NoRun /\ data[r] = <<>> /\ lifecycle[r] = <<>> /\ mailbox[r] = {}
    BY <1>7 DEF Tables
  <1>9. PlannerAllocatePending
    BY <1>5, <1>6, <1>8 DEF PlannerAllocatePending
  <1>10. PlannerInv' /\ Downloaded' = Downloaded
    BY <1>9, PlannerStepInv, OthersKeepBytes DEF LoopInv, PlannerNext
  <1>11. /\ \A q \in Runners : HasRunner(q)' <=> HasRunner(q) \/ q = r
         /\ \A q \in Runners \ {r} : HasRunner(q) => Untouched(q)
         /\ runner_to_chunk'[r] = start
         /\ RunnerChunk(r)' = NewChunk(start, end, r, "Pending")
    BY <1>5, <1>6, <1>8, AllocateChunks DEF LoopInv
  <1>12. /\ data' = data /\ lifecycle' = lifecycle /\ mailbox' = mailbox
         /\ \/ /\ run' = [run EXCEPT ![r] = NewRun(start, end)]
               /\ receiving' = [receiving EXCEPT ![r] = TRUE]
               /\ spawn_failures' = spawn_failures
            \/ /\ run' = run /\ receiving' = receiving
               /\ spawn_failures' = Append(spawn_failures, r)
    BY <1>3, <1>4 DEF ApplyCreate, ApplyCreateRejected, Spawn, runnerVars
  <1>13. /\ DOMAIN run' = Runners /\ receiving' \in [Runners -> BOOLEAN]
         /\ \A q \in Runners \ {r} : run'[q] = run[q] /\ receiving'[q] = receiving[q]
         /\ spawn_failures' \in Seq(Runners)
    <2>1. /\ DOMAIN run = Runners /\ receiving \in [Runners -> BOOLEAN]
          /\ spawn_failures \in Seq(Runners)
      BY DEF LoopInv, Domains
    <2>2. Append(spawn_failures, r) \in Seq(Runners)
      BY <2>1
    <2>3. spawn_failures' \in Seq(Runners)
      BY <1>12, <2>1, <2>2
    <2>4. CASE run' = run /\ receiving' = receiving
      BY <2>1, <2>3, <2>4
    <2>5. CASE /\ run' = [run EXCEPT ![r] = NewRun(start, end)]
               /\ receiving' = [receiving EXCEPT ![r] = TRUE]
      BY <2>1, <2>3, <2>5
    <2>6. QED
      BY <1>12, <2>4, <2>5
  <1>14. /\ Planned' /\ loop' \in {"select", "applying"} /\ outcome' = outcome
    <2>1. \A q \in Runners : receiving[q] => receiving'[q]
      BY <1>8, <1>13
    <2>2. ASSUME NEW i \in 1..Len(Tail(todo)), Tail(todo)[i].kind = "Split"
          PROVE  receiving'[Tail(todo)[i].runner] /\ Tail(todo)[i].start <= Tail(todo)[i].end
      <3>1. Tail(todo)[i] \in Actions
        BY <1>1, NextActionOK
      <3>2. Tail(todo)[i].runner \in Runners
        BY <2>2, <3>1 DEF Actions
      <3>3. QED
        BY <1>1, <2>1, <2>2, <3>2, NextActionOK
    <2>3. QED
      BY <1>1, <2>2, NextActionOK, ThenPlanned
  <1>15. Managing' /\ loop' \in LoopPhases /\ loop' # "done"
    BY <1>14 DEF Managing, LoopPhases
  <1>16. Domains'
    BY <1>1, <1>3, <1>5, <1>12, <1>13, <1>15 DEF LoopInv, Domains
  <1>17. Written'
    BY <1>1, <1>7, <1>10, <1>14, <1>15, WrittenKept DEF LoopInv
  <1>18. ASSUME NEW q \in Runners PROVE RunnerOK(q)'
    <2>1. CASE q # r
      <3>1. receiving[q] => HasRunner(q)
        BY <1>7 DEF Tables
      <3>2. QED
        BY <1>1, <1>11, <1>12, <1>13, <2>1, <3>1, RunnerKept DEF LoopInv, Tended, Untouched
    <2>2. CASE q = r /\ receiving'[r]
      <3>1. run'[r] = NewRun(start, end)
        BY <1>8, <1>12, <2>2 DEF LoopInv, Domains
      <3>2. Healthy(NewRun(start, end), <<>>, <<>>, {}, FALSE, start,
                    NewChunk(start, end, r, "Pending"))
        BY <1>6, SpawnHealthy
      <3>3. /\ data'[r] = <<>> /\ lifecycle'[r] = <<>> /\ mailbox'[r] = {}
            /\ (r \in streams') = FALSE
        BY <1>1, <1>8, <1>12
      <3>4. QED
        BY <1>11, <2>2, <3>1, <3>2, <3>3 DEF RunnerOK
    <2>3. QED
      BY <2>1, <2>2 DEF RunnerOK
  <1>19. Tables'
    <2>1. ASSUME NEW q \in Runners \ {r}
          PROVE  /\ Rejected(q)' <=> Rejected(q)
                 /\ Rejected(q) => RunnerChunk(q)' = RunnerChunk(q)
      <3>1. spawn_failures \in Seq(Runners)
        BY DEF LoopInv, Domains
      <3>2. Rejected(q)' <=> Rejected(q)
        <4>1. CASE spawn_failures' = spawn_failures
          BY <4>1 DEF Rejected
        <4>2. CASE spawn_failures' = Append(spawn_failures, r)
          <5>1. /\ Len(spawn_failures') = Len(spawn_failures) + 1
                /\ spawn_failures'[Len(spawn_failures) + 1] = r
                /\ \A i \in 1..Len(spawn_failures) : spawn_failures'[i] = spawn_failures[i]
            BY <3>1, <4>2
          <5>2. \A i \in 1..Len(spawn_failures') :
                  i \in 1..Len(spawn_failures) \/ i = Len(spawn_failures) + 1
            BY <3>1, <5>1
          <5>3. 1..Len(spawn_failures) \subseteq 1..Len(spawn_failures')
            BY <3>1, <5>1
          <5>4. QED
            BY <2>1, <5>1, <5>2, <5>3 DEF Rejected
        <4>3. QED
          BY <1>12, <4>1, <4>2
      <3>3. Rejected(q) => HasRunner(q)
        BY <1>7 DEF Tables
      <3>4. QED
        BY <1>11, <3>2, <3>3 DEF Untouched
    <2>2. /\ Rejected(r)' <=> ~receiving'[r]
          /\ receiving'[r] \/ run'[r] = NoRun
      <3>1. CASE receiving' = [receiving EXCEPT ![r] = TRUE] /\ spawn_failures' = spawn_failures
        <4>1. receiving'[r]
          BY <3>1 DEF LoopInv, Domains
        <4>2. ~Rejected(r)'
          BY <1>8, <3>1 DEF Rejected
        <4>3. QED
          BY <4>1, <4>2
      <3>2. CASE /\ run' = run /\ receiving' = receiving
                 /\ spawn_failures' = Append(spawn_failures, r)
        <4>1. Rejected(r)'
          <5>1. spawn_failures \in Seq(Runners)
            BY DEF LoopInv, Domains
          <5>2. /\ spawn_failures'[Len(spawn_failures) + 1] = r
                /\ Len(spawn_failures) + 1 \in 1..Len(spawn_failures')
            BY <3>2, <5>1
          <5>3. QED
            BY <5>2 DEF Rejected
        <4>2. QED
          BY <1>8, <3>2, <4>1
      <3>3. QED
        BY <1>12, <3>1, <3>2
    <2>3. RunnerChunk(r)'.status = "Pending"
      BY <1>11 DEF NewChunk
    <2>4. \A i, j \in 1..Len(spawn_failures') : spawn_failures'[i] = spawn_failures'[j] => i = j
      <3>1. CASE spawn_failures' = spawn_failures
        BY <1>7, <3>1 DEF Tables
      <3>2. CASE spawn_failures' = Append(spawn_failures, r)
        <4>1. spawn_failures \in Seq(Runners)
          BY DEF LoopInv, Domains
        <4>2. /\ Len(spawn_failures') = Len(spawn_failures) + 1
              /\ spawn_failures'[Len(spawn_failures) + 1] = r
              /\ \A i \in 1..Len(spawn_failures) : spawn_failures'[i] = spawn_failures[i]
          BY <3>2, <4>1
        <4>3. \A i \in 1..Len(spawn_failures') :
                i \in 1..Len(spawn_failures) \/ i = Len(spawn_failures) + 1
          BY <4>1, <4>2
        <4>4. \A i \in 1..Len(spawn_failures) : spawn_failures[i] # r
          BY <1>8 DEF Rejected
        <4>5. QED
          BY <1>7, <4>2, <4>3, <4>4 DEF Tables
      <3>3. QED
        BY <1>12, <3>1, <3>2
    <2>5. ASSUME NEW q \in Runners
          PROVE  /\ q \in ids' <=> HasRunner(q)'
                 /\ q \in ids' <=> receiving'[q] \/ Rejected(q)'
                 /\ ~receiving'[q] => /\ run'[q] = NoRun /\ data'[q] = <<>> /\ lifecycle'[q] = <<>>
                                      /\ mailbox'[q] = {} /\ q \notin streams'
                 /\ Rejected(q)' => ~receiving'[q] /\ RunnerChunk(q)'.status = "Pending"
      <3>1. CASE q = r
        BY <1>1, <1>5, <1>8, <1>11, <1>12, <2>2, <2>3, <3>1
      <3>2. CASE q # r
        BY <1>1, <1>5, <1>7, <1>11, <1>12, <1>13, <2>1, <3>2 DEF Tables
      <3>3. QED
        BY <3>1, <3>2
    <2>6. QED
      BY <2>4, <2>5 DEF Tables
  <1>20. Tended'
    BY <1>15, <1>18, <1>19 DEF Tended
  <1>21. QED
    BY <1>9, <1>10, <1>14, <1>16, <1>17, <1>20 DEF LoopInv, PlannerNext

LEMMA ApplyCreatePanicsInv ==
  ASSUME LoopInv, ApplyCreatePanics
  PROVE  LoopInv' /\ [PlannerNext]_plannerVars
PROOF
  <1>1. /\ loop = "applying" /\ loop' = "unwinding" /\ outcome' # "Finished"
        /\ UNCHANGED <<plannerVars, runnerVars, managerVars, writerVars>>
        /\ max_concurrency' = max_concurrency
    BY DEF ApplyCreatePanics, Creates, PanicWith
  <1>2. UNCHANGED <<run, data, lifecycle, mailbox, receiving>>
    BY <1>1 DEF runnerVars
  <1>3. ~saw_error /\ Managing /\ max_concurrency' \in Nat
    BY <1>1, Working DEF LoopInv, Domains
  <1>4. Planned' /\ Managing' /\ loop' \in LoopPhases /\ loop' # "done"
    BY <1>1 DEF Planned, Managing, LoopPhases
  <1>5. QED
    BY <1>1, <1>2, <1>3, <1>4, QuietInv

-----------------------------------------------------------------------------
\* A planner that is complete has every byte, also after a step.
LEMMA CompleteHasAll == PlannerInv /\ IsComplete => Downloaded = 0..(Total - 1)
PROOF
  BY CompleteCovers

LEMMA CompleteHasAllNext == (PlannerInv /\ IsComplete => Downloaded = 0..(Total - 1))'
PROOF
  BY CompleteHasAll, PTL

\* A runner is released, with its chunk finished or given back.
LEMMA ReleaseInv ==
  ASSUME LoopInv, NEW r \in Runners, r \in ids, loop = "select", ReleaseRunner(r),
         (ChunkComplete(RunnerChunk(r)) /\ MarkFinished(r)) \/ MarkFailed(r),
         spawn_failures' \in Seq(Runners),
         \A q \in Runners : Rejected(q)' <=> Rejected(q) /\ q # r,
         \A i, j \in 1..Len(spawn_failures') : spawn_failures'[i] = spawn_failures'[j] => i = j,
         UNCHANGED strategyVars, UNCHANGED writerVars,
         loop' \in {"select", "returned"},
         outcome' = "Finished" => IsComplete' /\ loop' = "returned"
  PROVE  LoopInv' /\ [PlannerNext]_plannerVars
PROOF
  <1>1. ~saw_error /\ Managing /\ Tables
    BY Working
  <1>2. HasRunner(r)
    BY <1>1 DEF Tables
  <1>3. PlannerMarkFinished \/ PlannerMarkFailed
    BY <1>2 DEF PlannerMarkFinished, PlannerMarkFailed
  <1>4. PlannerInv' /\ Downloaded' = Downloaded
    BY <1>3, PlannerStepInv, OthersKeepBytes DEF LoopInv, PlannerNext
  <1>5. /\ \A q \in Runners : HasRunner(q)' <=> HasRunner(q) /\ q # r
        /\ \A q \in Runners \ {r} : HasRunner(q) => Untouched(q)
    BY <1>2, MarkEndsChunks DEF LoopInv
  <1>6. /\ run' = [run EXCEPT ![r] = NoRun] /\ data' = [data EXCEPT ![r] = <<>>]
        /\ lifecycle' = [lifecycle EXCEPT ![r] = <<>>] /\ mailbox' = [mailbox EXCEPT ![r] = {}]
        /\ receiving' = [receiving EXCEPT ![r] = FALSE]
        /\ ids' = ids \ {r} /\ streams' = streams \ {r}
    BY DEF ReleaseRunner, Release
  <1>7. /\ DOMAIN run = Runners /\ DOMAIN data = Runners /\ DOMAIN lifecycle = Runners
        /\ DOMAIN mailbox = Runners /\ receiving \in [Runners -> BOOLEAN]
        /\ ids \subseteq Runners /\ streams \subseteq Runners /\ max_concurrency \in Nat
    BY DEF LoopInv, Domains
  <1>8. /\ DOMAIN run' = Runners /\ DOMAIN data' = Runners /\ DOMAIN lifecycle' = Runners
        /\ DOMAIN mailbox' = Runners /\ receiving' \in [Runners -> BOOLEAN]
        /\ run'[r] = NoRun /\ data'[r] = <<>> /\ lifecycle'[r] = <<>> /\ mailbox'[r] = {}
        /\ ~receiving'[r]
    BY <1>6, <1>7
  <1>9. \A q \in Runners \ {r} :
          /\ run'[q] = run[q] /\ data'[q] = data[q] /\ lifecycle'[q] = lifecycle[q]
          /\ mailbox'[q] = mailbox[q] /\ receiving'[q] = receiving[q]
          /\ q \in streams' <=> q \in streams
    BY <1>6, <1>7
  <1>10. todo' = todo /\ max_concurrency' = max_concurrency
    BY DEF strategyVars
  <1>11. Managing' /\ loop' \in LoopPhases /\ Planned' /\ loop' # "done"
    BY DEF Managing, LoopPhases, Planned
  <1>12. Domains'
    BY <1>6, <1>7, <1>8, <1>10, <1>11 DEF Domains
  <1>13. outcome' = "Finished" => Downloaded = 0..(Total - 1) /\ Ending'
    BY <1>4, CompleteHasAllNext DEF Ending
  <1>14. Written'
    BY <1>1, <1>4, <1>11, <1>13, WrittenKept DEF LoopInv
  <1>15. ASSUME NEW q \in Runners PROVE RunnerOK(q)'
    <2>1. CASE q = r
      BY <1>8, <2>1 DEF RunnerOK
    <2>2. CASE q # r
      <3>1. receiving[q] => HasRunner(q)
        BY <1>1 DEF Tables
      <3>2. QED
        BY <1>5, <1>9, <2>2, <3>1, RunnerKept DEF LoopInv, Tended, Untouched
    <2>3. QED
      BY <2>1, <2>2
  <1>16. ASSUME NEW q \in Runners
         PROVE  /\ q \in ids' <=> HasRunner(q)'
                /\ q \in ids' <=> receiving'[q] \/ Rejected(q)'
                /\ ~receiving'[q] => /\ run'[q] = NoRun /\ data'[q] = <<>> /\ lifecycle'[q] = <<>>
                                     /\ mailbox'[q] = {} /\ q \notin streams'
                /\ Rejected(q)' => ~receiving'[q] /\ RunnerChunk(q)'.status = "Pending"
    <2>1. CASE q = r
      BY <1>5, <1>6, <1>8, <2>1
    <2>2. CASE q # r
      <3>1. q \in ids' <=> q \in ids
        BY <1>6, <2>2
      <3>2. Rejected(q) => RunnerChunk(q)' = RunnerChunk(q)
        BY <1>1, <1>5, <2>2 DEF Tables, Untouched
      <3>3. QED
        BY <1>1, <1>5, <1>9, <2>2, <3>1, <3>2 DEF Tables
    <2>3. QED
      BY <2>1, <2>2
  <1>17. Tended'
    BY <1>11, <1>15, <1>16 DEF Tended, Tables
  <1>18. QED
    BY <1>3, <1>4, <1>11, <1>12, <1>14, <1>17 DEF LoopInv, PlannerNext

\* The failure policy goes on or returns, never with success.
LEMMA OnFailureOutcome ==
  ASSUME LoopInv, loop = "select", NEW r, NEW e, e # "Finished", OnFailure(r, e)
  PROVE  loop' \in {"select", "returned"} /\ outcome' # "Finished"
PROOF
  <1>1. outcome # "Finished"
    BY Working
  <1>2. QED
    BY <1>1 DEF OnFailure, EndWith, Continue

\* No spawn failure is queued of a runner whose receivers are held.
LEMMA NotRejected ==
  ASSUME LoopInv, NEW r \in Runners, receiving[r], UNCHANGED spawn_failures
  PROVE  /\ spawn_failures' \in Seq(Runners)
         /\ \A q \in Runners : Rejected(q)' <=> Rejected(q) /\ q # r
         /\ \A i, j \in 1..Len(spawn_failures') : spawn_failures'[i] = spawn_failures'[j] => i = j
PROOF
  <1>1. Tables
    BY ReceivingHasRunner
  <1>2. ~Rejected(r)
    BY <1>1 DEF Tables
  <1>3. \A q \in Runners : Rejected(q)' <=> Rejected(q)
    BY DEF Rejected
  <1>4. spawn_failures' \in Seq(Runners)
    BY DEF LoopInv, Domains
  <1>5. QED
    BY <1>1, <1>2, <1>3, <1>4 DEF Tables

\* The runner whose spawn was rejected first is no longer queued.
LEMMA RejectionTaken ==
  ASSUME LoopInv, Tables, spawn_failures # <<>>,
         spawn_failures' = Tail(spawn_failures),
         NEW r, r = spawn_failures[1]
  PROVE  /\ r \in Runners /\ r \in ids
         /\ spawn_failures' \in Seq(Runners)
         /\ \A q \in Runners : Rejected(q)' <=> Rejected(q) /\ q # r
         /\ \A i, j \in 1..Len(spawn_failures') : spawn_failures'[i] = spawn_failures'[j] => i = j
PROOF
  <1>1. spawn_failures \in Seq(Runners) /\ Len(spawn_failures) \in Nat \ {0}
    BY DEF LoopInv, Domains
  <1>2. /\ spawn_failures' \in Seq(Runners) /\ Len(spawn_failures') = Len(spawn_failures) - 1
        /\ \A i \in 1..Len(spawn_failures') : spawn_failures'[i] = spawn_failures[i + 1]
    BY <1>1
  <1>3. \A i \in 1..Len(spawn_failures') : i + 1 \in 1..Len(spawn_failures) /\ i + 1 # 1
    BY <1>1, <1>2
  <1>4. \A i \in 1..Len(spawn_failures) : i # 1 => i - 1 \in 1..Len(spawn_failures') /\ i - 1 + 1 = i
    BY <1>1, <1>2
  <1>5. 1 \in 1..Len(spawn_failures) /\ r \in Runners
    BY <1>1
  <1>6. r \in ids
    BY <1>5 DEF Tables, Rejected
  <1>7. \A i, j \in 1..Len(spawn_failures) : spawn_failures[i] = spawn_failures[j] => i = j
    BY DEF Tables
  <1>8. \A i, j \in 1..Len(spawn_failures') : spawn_failures'[i] = spawn_failures'[j] => i = j
    <2>1. \A i, j \in 1..Len(spawn_failures') : i + 1 = j + 1 => i = j
      BY <1>2
    <2>2. QED
      BY <1>2, <1>3, <1>7, <2>1
  <1>9. ASSUME NEW q \in Runners
        PROVE  Rejected(q)' <=> Rejected(q) /\ q # r
    <2>1. ASSUME Rejected(q)' PROVE Rejected(q) /\ q # r
      <3>1. PICK i \in 1..Len(spawn_failures') : spawn_failures'[i] = q
        BY <2>1 DEF Rejected
      <3>2. spawn_failures[i + 1] = q /\ i + 1 \in 1..Len(spawn_failures) /\ i + 1 # 1
        BY <1>2, <1>3, <3>1
      <3>3. QED
        BY <1>5, <1>7, <3>2 DEF Rejected
    <2>2. ASSUME Rejected(q), q # r PROVE Rejected(q)'
      <3>1. PICK i \in 1..Len(spawn_failures) : spawn_failures[i] = q
        BY <2>2 DEF Rejected
      <3>2. i # 1
        BY <2>2, <3>1
      <3>3. i - 1 \in 1..Len(spawn_failures') /\ spawn_failures'[i - 1] = q
        BY <1>2, <1>4, <3>1, <3>2
      <3>4. QED
        BY <3>3 DEF Rejected
    <2>3. QED
      BY <2>1, <2>2
  <1>10. QED
    BY <1>2, <1>5, <1>6, <1>8, <1>9

LEMMA HandleStartedInv ==
  ASSUME LoopInv, NEW r \in Runners, HandleStarted(r)
  PROVE  LoopInv' /\ [PlannerNext]_plannerVars
PROOF
  <1>1. /\ loop = "select" /\ receiving[r] /\ lifecycle[r] # <<>> /\ Head(lifecycle[r]) = "Started"
        /\ lifecycle' = [lifecycle EXCEPT ![r] = Tail(lifecycle[r])]
        /\ run' = run /\ data' = data /\ mailbox' = mailbox /\ receiving' = receiving
        /\ MarkRunning(r) /\ streams' = streams \cup {r}
        /\ ids' = ids /\ spawn_failures' = spawn_failures
        /\ UNCHANGED strategyVars /\ UNCHANGED writerVars /\ loop' = loop /\ outcome' = outcome
    BY DEF HandleStarted, PollsRunners, HasEvent, TakeEvent, Continue
  <1>2. /\ Managing /\ Tables /\ HasRunner(r)
        /\ RunnerChunk(r) \in Chunk
        /\ Healthy(run[r], data[r], lifecycle[r], mailbox[r], r \in streams,
                   runner_to_chunk[r], RunnerChunk(r))
    BY <1>1, ReceivingHasRunner
  <1>3. RunnerChunk(r).status = "Pending"
    <2>1. lifecycle[r] \in Seq({"Started"} \cup Results)
      BY <1>2 DEF Healthy
    <2>2. 1 \in 1..Len(lifecycle[r]) /\ lifecycle[r][1] = "Started"
      BY <1>1, <2>1
    <2>3. QED
      BY <1>2, <2>2 DEF Healthy, EventsOK
  <1>4. PlannerMarkRunning
    BY <1>1, <1>2, <1>3 DEF PlannerMarkRunning
  <1>5. PlannerInv' /\ Downloaded' = Downloaded
    BY <1>4, PlannerStepInv, OthersKeepBytes DEF LoopInv, PlannerNext
  <1>6. /\ \A q \in Runners : HasRunner(q)' <=> HasRunner(q)
        /\ \A q \in Runners \ {r} : HasRunner(q) => Untouched(q)
        /\ runner_to_chunk'[r] = runner_to_chunk[r]
        /\ RunnerChunk(r)' = [RunnerChunk(r) EXCEPT !.status = "Running"]
    BY <1>1, <1>2, MarkRunningChunks DEF LoopInv
  <1>7. /\ DOMAIN lifecycle' = Runners /\ lifecycle'[r] = Tail(lifecycle[r])
        /\ \A q \in Runners \ {r} : lifecycle'[q] = lifecycle[q]
    BY <1>1 DEF LoopInv, Domains
  <1>8. ~saw_error /\ outcome # "Finished"
    BY <1>1, Working
  <1>9. todo' = todo /\ max_concurrency' = max_concurrency
    BY <1>1 DEF strategyVars
  <1>10. Managing' /\ loop' = "select" /\ Planned'
    BY <1>1 DEF Managing, Planned
  <1>11. Domains'
    BY <1>1, <1>7, <1>9 DEF LoopInv, Domains
  <1>12. Written'
    BY <1>1, <1>5, <1>8, <1>10, WrittenKept DEF LoopInv
  <1>13. ASSUME NEW q \in Runners PROVE RunnerOK(q)'
    <2>1. CASE q = r
      <3>1. Healthy(run[r], data[r], Tail(lifecycle[r]), mailbox[r], TRUE, runner_to_chunk[r],
                    [RunnerChunk(r) EXCEPT !.status = "Running"])
        BY <1>1, <1>2, TakeStartedHealthy
      <3>2. (r \in streams') = TRUE
        BY <1>1
      <3>3. QED
        BY <1>1, <1>6, <1>7, <2>1, <3>1, <3>2 DEF RunnerOK
    <2>2. CASE q # r
      <3>1. receiving[q] => HasRunner(q)
        BY <1>2 DEF Tables
      <3>2. q \in streams' <=> q \in streams
        BY <1>1, <2>2
      <3>3. QED
        BY <1>1, <1>6, <1>7, <2>2, <3>1, <3>2, RunnerKept DEF LoopInv, Tended, Untouched
    <2>3. QED
      BY <2>1, <2>2
  <1>14. Tables'
    <2>1. \A q \in Runners : Rejected(q)' <=> Rejected(q)
      BY <1>1 DEF Rejected
    <2>2. \A q \in Runners : Rejected(q) => q # r /\ RunnerChunk(q)' = RunnerChunk(q)
      BY <1>1, <1>2, <1>6 DEF Tables, Untouched
    <2>3. \A q \in Runners : ~receiving[q] => lifecycle'[q] = <<>> /\ q \notin streams'
      BY <1>1, <1>2, <1>7 DEF Tables
    <2>4. QED
      BY <1>1, <1>2, <1>6, <2>1, <2>2, <2>3 DEF Tables
  <1>15. Tended'
    BY <1>10, <1>13, <1>14 DEF Tended
  <1>16. QED
    BY <1>4, <1>5, <1>10, <1>11, <1>12, <1>15 DEF LoopInv, PlannerNext

LEMMA HandleEndInv ==
  ASSUME LoopInv, NEW r \in Runners, HandleFinished(r) \/ HandleFailed(r) \/ HandleLost(r)
  PROVE  LoopInv' /\ [PlannerNext]_plannerVars
PROOF
  <1>1. /\ loop = "select" /\ receiving[r] /\ ReleaseRunner(r) /\ spawn_failures' = spawn_failures
        /\ UNCHANGED strategyVars /\ UNCHANGED writerVars
    BY DEF HandleFinished, HandleFailed, HandleLost, PollsRunners, HasEvent
  <1>2. /\ r \in ids /\ ChunkOK(runner_to_chunk[r], RunnerChunk(r))
        /\ Healthy(run[r], data[r], lifecycle[r], mailbox[r], r \in streams,
                   runner_to_chunk[r], RunnerChunk(r))
    BY <1>1, ReceivingHasRunner
  <1>3. outcome # "Finished"
    BY <1>1, Working
  <1>4. /\ spawn_failures' \in Seq(Runners)
        /\ \A q \in Runners : Rejected(q)' <=> Rejected(q) /\ q # r
        /\ \A i, j \in 1..Len(spawn_failures') : spawn_failures'[i] = spawn_failures'[j] => i = j
    BY <1>1, NotRejected
  <1>5. CASE HandleFinished(r)
    <2>1. /\ lifecycle[r] # <<>> /\ Head(lifecycle[r]) \in Success /\ MarkFinished(r)
          /\ IF IsComplete' THEN EndWith("Finished") ELSE Continue
      BY <1>5 DEF HandleFinished, HasEvent, Success
    <2>2. lifecycle[r] \in Seq({"Started"} \cup Results)
      BY <1>2 DEF Healthy
    <2>3. 1 \in 1..Len(lifecycle[r]) /\ lifecycle[r][1] \in Success
      BY <2>1, <2>2
    <2>4. ~(RunnerChunk(r).done < RunnerChunk(r).end)
      BY <1>2, <2>3 DEF Healthy
    <2>5. ChunkComplete(RunnerChunk(r))
      BY <1>2, <2>4 DEF ChunkComplete, ChunkOK
    <2>6. /\ loop' \in {"select", "returned"}
          /\ outcome' = "Finished" => IsComplete' /\ loop' = "returned"
      BY <1>1, <1>3, <2>1 DEF EndWith, Continue
    <2>7. QED
      BY <1>1, <1>2, <1>4, <2>1, <2>5, <2>6, ReleaseInv
  <1>6. CASE HandleFailed(r)
    <2> DEFINE e == Head(lifecycle[r])
               error == IF e = "Finished" THEN "ChannelClosed" ELSE e
    <2>1. /\ MarkFailed(r)
          /\ IF e = "Cancelled" THEN Continue ELSE OnFailure(r, error)
      BY <1>6 DEF HandleFailed
    <2>2. error # "Finished"
      OBVIOUS
    <2> HIDE DEF error
    <2>3. loop' \in {"select", "returned"} /\ outcome' # "Finished"
      BY <1>1, <1>3, <2>1, <2>2, OnFailureOutcome DEF Continue
    <2>4. QED
      BY <1>1, <1>2, <1>4, <2>1, <2>3, ReleaseInv
  <1>7. CASE HandleLost(r)
    <2>1. /\ MarkFailed(r)
          /\ IF IsComplete' THEN EndWith("Finished") ELSE OnFailure(r, "ChannelClosed")
      BY <1>7 DEF HandleLost
    <2>2. /\ loop' \in {"select", "returned"}
          /\ outcome' = "Finished" => IsComplete' /\ loop' = "returned"
      BY <1>1, <2>1, OnFailureOutcome DEF EndWith
    <2>3. QED
      BY <1>1, <1>2, <1>4, <2>1, <2>2, ReleaseInv
  <1>8. QED
    BY <1>5, <1>6, <1>7

LEMMA HandleSpawnFailedInv ==
  ASSUME LoopInv, HandleSpawnFailed
  PROVE  LoopInv' /\ [PlannerNext]_plannerVars
PROOF
  <1>1. /\ loop = "select" /\ spawn_failures # <<>>
        /\ spawn_failures' = Tail(spawn_failures)
        /\ UNCHANGED strategyVars /\ UNCHANGED writerVars
    BY DEF HandleSpawnFailed
  <1>2. Tables /\ spawn_failures \in Seq(Runners)
    BY <1>1, Working DEF LoopInv, Domains
  <1>3. PICK r \in Runners : r = Head(spawn_failures) /\ r = spawn_failures[1]
    BY <1>1, <1>2
  <1>4. ReleaseRunner(r) /\ MarkFailed(r) /\ OnFailure(r, "Other")
    BY <1>3 DEF HandleSpawnFailed
  <1>5. /\ r \in ids
        /\ spawn_failures' \in Seq(Runners)
        /\ \A q \in Runners : Rejected(q)' <=> Rejected(q) /\ q # r
        /\ \A i, j \in 1..Len(spawn_failures') : spawn_failures'[i] = spawn_failures'[j] => i = j
    BY <1>1, <1>2, <1>3, RejectionTaken
  <1>6. loop' \in {"select", "returned"} /\ outcome' # "Finished"
    BY <1>1, <1>4, OnFailureOutcome
  <1>7. QED
    BY <1>1, <1>4, <1>5, <1>6, ReleaseInv

LEMMA DataClosedInv ==
  ASSUME LoopInv, NEW r \in Runners, DataClosed(r)
  PROVE  LoopInv' /\ [PlannerNext]_plannerVars
PROOF
  <1>1. /\ loop = "select" /\ streams' = streams \ {r}
        /\ UNCHANGED plannerVars /\ UNCHANGED runnerVars /\ ids' = ids
        /\ spawn_failures' = spawn_failures /\ UNCHANGED strategyVars /\ UNCHANGED writerVars
        /\ loop' = loop /\ outcome' = outcome
    BY DEF DataClosed, PollsRunners, Continue
  <1>2. /\ run' = run /\ data' = data /\ lifecycle' = lifecycle /\ mailbox' = mailbox
        /\ receiving' = receiving /\ todo' = todo /\ max_concurrency' = max_concurrency
    BY <1>1 DEF runnerVars, strategyVars
  <1>3. /\ PlannerInv' /\ Downloaded' = Downloaded
        /\ \A q : /\ HasRunner(q)' <=> HasRunner(q)
                  /\ runner_to_chunk'[q] = runner_to_chunk[q]
                  /\ RunnerChunk(q)' = RunnerChunk(q)
    BY <1>1, SamePlanner DEF LoopInv
  <1>4. ~saw_error /\ outcome # "Finished" /\ Managing /\ Tables
    BY <1>1, Working
  <1>5. Managing' /\ Planned' /\ loop' = "select"
    BY <1>1 DEF Managing, Planned
  <1>6. Domains'
    BY <1>1, <1>2 DEF LoopInv, Domains
  <1>7. Written'
    BY <1>1, <1>3, <1>4, <1>5, WrittenKept DEF LoopInv
  <1>8. ASSUME NEW q \in Runners PROVE RunnerOK(q)'
    <2>1. CASE q = r /\ receiving[r]
      <3>1. Healthy(run[r], data[r], lifecycle[r], mailbox[r], r \in streams,
                    runner_to_chunk[r], RunnerChunk(r))
        BY <2>1, ReceivingHasRunner
      <3>2. Healthy(run[r], data[r], lifecycle[r], mailbox[r], FALSE,
                    runner_to_chunk[r], RunnerChunk(r))
        BY <3>1 DEF Healthy, EventsOK
      <3>3. (r \in streams') = FALSE
        BY <1>1
      <3>4. QED
        BY <1>2, <1>3, <2>1, <3>2, <3>3 DEF RunnerOK
    <2>2. CASE q # r
      BY <1>1, <1>2, <1>3, <2>2, RunnerKept DEF LoopInv, Tended
    <2>3. QED
      BY <1>2, <2>1, <2>2 DEF RunnerOK
  <1>9. Tables'
    BY <1>1, <1>2, <1>3, <1>4 DEF Tables, Rejected
  <1>10. Tended'
    BY <1>5, <1>8, <1>9 DEF Tended
  <1>11. QED
    BY <1>1, <1>3, <1>5, <1>6, <1>7, <1>10 DEF LoopInv

-----------------------------------------------------------------------------
(* The steps of the writer. *)

\* write_range dispatches the write or keeps it: it is one more on its way.
LEMMA WriteRangeAdds ==
  ASSUME WriterOK, NEW w \in Write, CanWrite, WriteRange(w)
  PROVE  /\ in_flight' \in Seq(Write) /\ pending_write' \in Seq(Write)
         /\ Len(pending_write') <= 1 /\ in_flight' # <<>>
         /\ Outstanding \in Seq(Write) /\ Outstanding' \in Seq(Write)
         /\ OneMore(Outstanding, Outstanding', Len(in_flight) + 1)
         /\ Outstanding'[Len(in_flight) + 1] = w
PROOF
  <1> DEFINE p == in_flight
             q == pending_write
             n == Len(in_flight)
  <1>1. /\ p \in Seq(Write) /\ q \in Seq(Write) /\ Len(q) <= 1 /\ n \in Nat /\ Len(q) \in Nat
    BY DEF WriterOK
  <1>2. /\ p \o q \in Seq(Write) /\ Len(p \o q) = n + Len(q)
        /\ \A i \in 1..(n + Len(q)) : (p \o q)[i] = IF i <= n THEN p[i] ELSE q[i - n]
    BY <1>1, Concatenation
  <1>3. Outstanding = p \o q /\ Outstanding' = in_flight' \o pending_write'
    BY DEF Outstanding
  <1>4. CASE ~IsFull
    <2>1. in_flight' = Append(p, w) /\ pending_write' = q
      BY <1>4 DEF WriteRange
    <2>2. /\ Append(p, w) \in Seq(Write) /\ Len(Append(p, w)) = n + 1
          /\ Append(p, w)[n + 1] = w /\ \A i \in 1..n : Append(p, w)[i] = p[i]
      BY <1>1
    <2> DEFINE a == Append(p, w)
    <2> HIDE DEF a
    <2>3. /\ a \o q \in Seq(Write) /\ Len(a \o q) = n + 1 + Len(q)
          /\ \A i \in 1..(n + 1 + Len(q)) :
               (a \o q)[i] = IF i <= n + 1 THEN a[i] ELSE q[i - (n + 1)]
      BY <1>1, <2>2, Concatenation DEF a
    <2> DEFINE m == a \o q
               l == p \o q
    <2>4. m[n + 1] = w
      BY <1>1, <2>2, <2>3 DEF a
    <2>5. n + 1 \in 1..Len(m) /\ Len(m) = Len(l) + 1
      BY <1>1, <1>2, <2>3
    <2>6. ASSUME NEW i \in 1..Len(m), i < n + 1 PROVE m[i] = l[i]
      BY <1>1, <1>2, <2>2, <2>3, <2>6 DEF a
    <2>7. ASSUME NEW i \in 1..Len(m), i > n + 1 PROVE m[i] = l[i - 1]
      <3>1. i - 1 \in 1..(n + Len(q)) /\ ~(i - 1 <= n) /\ i - 1 - n = i - (n + 1)
        BY <1>1, <2>3, <2>7
      <3>2. QED
        BY <1>1, <1>2, <2>3, <2>7, <3>1
    <2>8. OneMore(l, m, n + 1)
      BY <2>5, <2>6, <2>7 DEF OneMore
    <2>9. in_flight' # <<>>
      BY <1>1, <2>1, <2>2
    <2>10. in_flight' = a /\ pending_write' = q /\ in_flight' \in Seq(Write)
      BY <2>1, <2>2 DEF a
    <2> HIDE DEF m, l
    <2>11. Outstanding = l /\ Outstanding' = m
      BY <1>3, <2>10 DEF m, l
    <2>12. Outstanding \in Seq(Write) /\ Outstanding' \in Seq(Write)
      BY <1>2, <2>3, <2>11 DEF m, l
    <2>13. QED
      BY <1>1, <2>4, <2>8, <2>9, <2>10, <2>11, <2>12
  <1>5. CASE IsFull
    <2>1. in_flight' = p /\ pending_write' = <<w>> /\ q = <<>>
      BY <1>5 DEF WriteRange, CanWrite
    <2>2. <<w>> \in Seq(Write) /\ Len(<<w>>) = 1 /\ <<w>>[1] = w
      OBVIOUS
    <2>3. /\ p \o <<w>> \in Seq(Write) /\ Len(p \o <<w>>) = n + 1
          /\ \A i \in 1..(n + 1) : (p \o <<w>>)[i] = IF i <= n THEN p[i] ELSE <<w>>[i - n]
      BY <1>1, <2>2, Concatenation
    <2>4. p # <<>>
      BY <1>1, <1>5, LoopAssumption DEF IsFull, LoopAssumption
    <2>5. Len(q) = 0
      BY <2>1
    <2>6. (p \o <<w>>)[n + 1] = w
      BY <1>1, <2>2, <2>3
    <2>7. OneMore(p \o q, p \o <<w>>, n + 1)
      <3>1. n + 1 \in 1..Len(p \o <<w>>) /\ Len(p \o <<w>>) = Len(p \o q) + 1
        BY <1>1, <1>2, <2>3, <2>5
      <3>2. \A i \in 1..(n + 1) : i < n + 1 => (p \o <<w>>)[i] = (p \o q)[i]
        BY <1>1, <1>2, <2>3, <2>5
      <3>3. \A i \in 1..(n + 1) : ~(i > n + 1)
        BY <1>1
      <3>4. QED
        BY <2>3, <3>1, <3>2, <3>3 DEF OneMore
    <2>8. QED
      BY <1>1, <1>2, <1>3, <2>1, <2>2, <2>3, <2>4, <2>6, <2>7
  <1>6. QED
    BY <1>4, <1>5

\* settle takes the write away, and no other.
LEMMA SettleTakes ==
  ASSUME WriterOK, NEW i \in 1..Len(in_flight), NEW failed \in BOOLEAN, Settle(i, failed)
  PROVE  /\ in_flight' \in Seq(Write) /\ pending_write' \in Seq(Write)
         /\ Len(pending_write') <= 1 /\ (pending_write' # <<>> => saw_error')
         /\ saw_error' = (saw_error \/ failed) /\ saw_error' \in BOOLEAN
         /\ Outstanding \in Seq(Write) /\ Outstanding' \in Seq(Write)
         /\ OneMore(Outstanding', Outstanding, i)
         /\ Outstanding[i] = in_flight[i]
PROOF
  <1> DEFINE p == in_flight
             q == pending_write
             n == Len(in_flight)
             before == SubSeq(p, 1, i - 1)
             after == SubSeq(p, i + 1, n)
             left == before \o after
             l == left \o q
             m == p \o q
  <1>1. /\ p \in Seq(Write) /\ q \in Seq(Write) /\ Len(q) <= 1 /\ n \in Nat /\ Len(q) \in Nat
        /\ saw_error \in BOOLEAN /\ i \in 1..n
    BY DEF WriterOK
  <1>2. /\ m \in Seq(Write) /\ Len(m) = n + Len(q)
        /\ \A j \in 1..(n + Len(q)) : m[j] = IF j <= n THEN p[j] ELSE q[j - n]
    BY <1>1, Concatenation
  <1>3. /\ before \in Seq(Write) /\ Len(before) = i - 1
        /\ \A j \in 1..(i - 1) : before[j] = p[j]
    BY <1>1
  <1>4. /\ after \in Seq(Write) /\ Len(after) = n - i
        /\ \A j \in 1..(n - i) : after[j] = p[i + j]
    BY <1>1
  <1> HIDE DEF p, q, n, before, after
  <1>5. /\ left \in Seq(Write) /\ Len(left) = (i - 1) + (n - i)
        /\ \A j \in 1..((i - 1) + (n - i)) :
             left[j] = IF j <= i - 1 THEN before[j] ELSE after[j - (i - 1)]
    BY <1>3, <1>4, Concatenation
  <1>6. /\ Len(left) = n - 1
        /\ \A j \in 1..(n - 1) : left[j] = IF j <= i - 1 THEN p[j] ELSE p[j + 1]
    <2>1. (i - 1) + (n - i) = n - 1
      BY <1>1
    <2>2. ASSUME NEW j \in 1..(n - 1) PROVE left[j] = IF j <= i - 1 THEN p[j] ELSE p[j + 1]
      <3>1. CASE j <= i - 1
        BY <1>1, <1>3, <1>5, <2>1, <3>1
      <3>2. CASE ~(j <= i - 1)
        <4>1. j - (i - 1) \in 1..(n - i) /\ i + (j - (i - 1)) = j + 1
          BY <1>1, <3>2
        <4>2. QED
          BY <1>4, <1>5, <2>1, <3>2, <4>1
      <3>3. QED
        BY <3>1, <3>2
    <2>3. QED
      BY <1>5, <2>1, <2>2
  <1>7. left \in Seq(Write)
    BY <1>5
  <1> HIDE DEF left
  <1>8. /\ l \in Seq(Write) /\ Len(l) = (n - 1) + Len(q)
        /\ \A j \in 1..((n - 1) + Len(q)) :
             l[j] = IF j <= n - 1 THEN left[j] ELSE q[j - (n - 1)]
    <2>1. /\ l \in Seq(Write) /\ Len(l) = Len(left) + Len(q)
          /\ \A j \in 1..(Len(left) + Len(q)) :
               l[j] = IF j <= Len(left) THEN left[j] ELSE q[j - Len(left)]
      BY <1>1, <1>7, Concatenation
    <2> HIDE DEF l
    <2>2. QED
      BY <1>6, <2>1
  <1> HIDE DEF l, m
  <1>9. OneMore(l, m, i)
    <2>1. i \in 1..Len(m) /\ Len(m) = Len(l) + 1
      BY <1>1, <1>2, <1>8
    <2>2. ASSUME NEW j \in 1..Len(m), j < i PROVE m[j] = l[j]
      <3>1. /\ j \in 1..(n - 1) /\ j <= i - 1 /\ j <= n
            /\ j \in 1..((n - 1) + Len(q)) /\ j \in 1..(n + Len(q))
        BY <1>1, <1>2, <2>2
      <3>2. j <= n - 1 /\ m[j] = p[j] /\ left[j] = p[j]
        BY <1>1, <1>2, <1>6, <3>1
      <3>3. QED
        BY <1>8, <3>1, <3>2
    <2>3. ASSUME NEW j \in 1..Len(m), j > i PROVE m[j] = l[j - 1]
      <3>1. CASE j <= n
        <4>1. /\ j - 1 \in 1..(n - 1) /\ ~(j - 1 <= i - 1) /\ j - 1 + 1 = j
              /\ j - 1 \in 1..((n - 1) + Len(q)) /\ j \in 1..(n + Len(q))
          BY <1>1, <1>2, <2>3, <3>1
        <4>2. QED
          BY <1>2, <1>6, <1>8, <3>1, <4>1
      <3>2. CASE ~(j <= n)
        <4>1. /\ ~(j - 1 <= n - 1) /\ j - 1 \in 1..((n - 1) + Len(q))
              /\ j - 1 - (n - 1) = j - n /\ j \in 1..(n + Len(q))
          BY <1>1, <1>2, <2>3, <3>2
        <4>2. QED
          BY <1>2, <1>8, <3>2, <4>1
      <3>3. QED
        BY <3>1, <3>2
    <2>4. QED
      BY <2>1, <2>2, <2>3 DEF OneMore
  <1>10. m[i] = p[i]
    BY <1>1, <1>2
  <1>11. Outstanding = m
    BY DEF Outstanding, m, p, q
  <1>12. RemoveAt(in_flight, i) = left
    BY DEF RemoveAt, left, before, after, p, n
  <1>13. saw_error' = (saw_error \/ failed)
    BY DEF Settle
  <1>14. CASE saw_error'
    <2>1. in_flight' = left /\ pending_write' = q
      BY <1>12, <1>14 DEF Settle, q
    <2>2. Outstanding' = l
      BY <2>1 DEF Outstanding, l
    <2>3. QED
      BY <1>1, <1>2, <1>7, <1>8, <1>9, <1>10, <1>11, <1>13, <1>14, <2>1, <2>2 DEF p
  <1>15. CASE ~saw_error'
    <2>1. in_flight' = left \o q /\ pending_write' = <<>>
      BY <1>12, <1>15 DEF Settle, q
    <2>2. l \o <<>> = l
      BY <1>8
    <2>3. Outstanding' = l /\ in_flight' = l
      BY <2>1, <2>2 DEF Outstanding, l
    <2>4. QED
      BY <1>1, <1>2, <1>8, <1>9, <1>10, <1>11, <1>13, <1>15, <2>1, <2>3 DEF p
  <1>16. QED
    BY <1>14, <1>15

LEMMA WriteCompletesInv ==
  ASSUME LoopInv, WriteCompletes
  PROVE  LoopInv' /\ UNCHANGED plannerVars
PROOF
  <1>1. PICK i \in 1..Len(in_flight) :
          LET w == in_flight[i]
          IN  /\ WriterPolled
              /\ file' = [b \in 0..(Total - 1) |->
                            IF w.start <= b /\ b < w.start + Len(w.bytes)
                            THEN w.bytes[b - w.start + 1] ELSE file[b]]
              /\ Settle(i, FALSE)
              /\ Continue
              /\ UNCHANGED <<plannerVars, runnerVars, managerVars, strategyVars>>
    BY DEF WriteCompletes
  <1>2. /\ loop \in {"select", "finishing"} /\ loop' = loop /\ outcome' = outcome
        /\ UNCHANGED plannerVars /\ UNCHANGED managerVars
        /\ UNCHANGED <<run, data, lifecycle, mailbox, receiving>>
        /\ todo' = todo /\ max_concurrency' = max_concurrency
    BY <1>1 DEF WriterPolled, Continue, runnerVars, strategyVars
  <1>3. WriterOK /\ OnTheWay(Outstanding, file, Downloaded)
        /\ (~saw_error => AllThere(Outstanding, file, Downloaded))
    BY DEF LoopInv, Written
  <1>4. /\ in_flight' \in Seq(Write) /\ pending_write' \in Seq(Write)
        /\ Len(pending_write') <= 1 /\ (pending_write' # <<>> => saw_error')
        /\ saw_error' = saw_error /\ saw_error' \in BOOLEAN
        /\ Outstanding \in Seq(Write) /\ Outstanding' \in Seq(Write)
        /\ OneMore(Outstanding', Outstanding, i)
        /\ Outstanding[i] = in_flight[i]
    BY <1>1, <1>3, SettleTakes DEF WriterOK
  <1>5. Downloaded' = Downloaded /\ Downloaded \subseteq 0..(Total - 1)
    BY <1>2, SamePlanner DEF LoopInv, Downloaded
  <1>6. file' = Landed(Outstanding[i], file)
    BY <1>1, <1>4 DEF Landed
  <1>7. /\ OnTheWay(Outstanding', file', Downloaded)
        /\ AllThere(Outstanding, file, Downloaded) => AllThere(Outstanding', file', Downloaded)
    BY <1>3, <1>4, <1>5, <1>6, WriteLands
  <1>8. file' \in [0..(Total - 1) -> {Hole} \cup Nat]
    <2>1. \A b \in 0..(Total - 1) : file'[b] \in {Hole} \cup Nat
      BY <1>7, PlannerAssumption DEF OnTheWay, PlannerAssumption
    <2>2. QED
      BY <1>6, <2>1 DEF Landed
  <1>9. WriterOK'
    BY <1>2, <1>3, <1>4, <1>5, <1>8 DEF WriterOK, Ending
  <1>10. Written'
    BY <1>3, <1>4, <1>5, <1>7, <1>9 DEF Written
  <1>11. /\ loop' \in LoopPhases /\ (Managing' <=> Managing) /\ Planned' /\ max_concurrency' \in Nat
    BY <1>2 DEF LoopPhases, Managing, Planned, LoopInv, Domains
  <1>12. QED
    BY <1>2, <1>10, <1>11, StillInv

LEMMA WriteFailsInv ==
  ASSUME LoopInv, WriteFails
  PROVE  LoopInv' /\ UNCHANGED plannerVars
PROOF
  <1>1. PICK i \in 1..Len(in_flight) :
          /\ WriterPolled
          /\ Settle(i, TRUE)
          /\ IF loop = "select" THEN EndWith("WriteFailed")
             ELSE /\ outcome' = IF outcome = "Finished" THEN "WriteFailed" ELSE outcome
                  /\ UNCHANGED loop
          /\ UNCHANGED <<plannerVars, runnerVars, managerVars, strategyVars, file>>
    BY DEF WriteFails
  <1>2. /\ loop' \in {"returned", "finishing"} /\ outcome' # "Finished"
        /\ (Managing' <=> Managing)
        /\ UNCHANGED plannerVars /\ UNCHANGED managerVars /\ file' = file
        /\ UNCHANGED <<run, data, lifecycle, mailbox, receiving>>
        /\ todo' = todo /\ max_concurrency' = max_concurrency
    BY <1>1 DEF WriterPolled, EndWith, runnerVars, strategyVars, Managing
  <1>3. WriterOK /\ OnTheWay(Outstanding, file, Downloaded)
    BY DEF LoopInv, Written
  <1>4. /\ in_flight' \in Seq(Write) /\ pending_write' \in Seq(Write)
        /\ Len(pending_write') <= 1 /\ saw_error'  /\ saw_error' \in BOOLEAN
        /\ Outstanding \in Seq(Write) /\ Outstanding' \in Seq(Write)
        /\ OneMore(Outstanding', Outstanding, i)
    BY <1>1, <1>3, SettleTakes
  <1>5. Downloaded' = Downloaded
    BY <1>2, SamePlanner DEF LoopInv
  <1>6. OnTheWay(Outstanding', file, Downloaded)
    BY <1>3, <1>4, WriteIsTaken
  <1>7. WriterOK'
    BY <1>2, <1>3, <1>4, <1>5 DEF WriterOK, Ending
  <1>8. Written'
    BY <1>2, <1>4, <1>5, <1>6, <1>7 DEF Written
  <1>9. loop' \in LoopPhases /\ Planned' /\ max_concurrency' \in Nat
    BY <1>2 DEF LoopPhases, Planned, LoopInv, Domains
  <1>10. QED
    BY <1>2, <1>8, <1>9, StillInv

\* The planner accepts what remains of the chunk, whatever the frame's length.
LEMMA ProgressIsClipped ==
  ASSUME PlannerInv, NEW r \in Runners, HasRunner(r), NEW m \in Nat, UpdateProgress(r, m)
  PROVE  LET n == AcceptedLength(r, m)
         IN  /\ n \in 0..Total /\ UpdateProgress(r, n) /\ AcceptedLength(r, n) = n
             /\ PlannerUpdateProgress
PROOF
  <1> DEFINE n == AcceptedLength(r, m)
  <1>1. ChunkOK(runner_to_chunk[r], RunnerChunk(r)) /\ RunnerChunk(r) \in Chunk
    BY RunnerChunkOK
  <1>2. Remaining(RunnerChunk(r)) \in Nat /\ Remaining(RunnerChunk(r)) <= Total
    BY <1>1, PlannerAssumption DEF Remaining, ChunkOK, Chunk, PlannerAssumption
  <1>3. n \in 0..Total /\ n <= Remaining(RunnerChunk(r))
    BY <1>2, PlannerAssumption DEF AcceptedLength, PlannerAssumption
  <1>4. AcceptedLength(r, n) = n
    BY <1>3 DEF AcceptedLength
  <1>5. UpdateProgress(r, n)
    BY <1>4 DEF UpdateProgress
  <1>6. QED
    BY <1>3, <1>4, <1>5 DEF PlannerUpdateProgress

LEMMA HandleDataInv ==
  ASSUME LoopInv, NEW r \in Runners, HandleData(r)
  PROVE  LoopInv' /\ [PlannerNext]_plannerVars
PROOF
  <1> DEFINE sent == Head(data[r])
  <1>1. /\ loop = "select" /\ r \in streams /\ data[r] # <<>> /\ CanWrite
        /\ data' = [data EXCEPT ![r] = Tail(data[r])]
        /\ run' = run /\ lifecycle' = lifecycle /\ mailbox' = mailbox /\ receiving' = receiving
        /\ UpdateProgress(r, Len(sent))
        /\ WriteRange([start |-> RunnerChunk(r).done,
                       bytes |-> SubSeq(sent, 1, AcceptedLength(r, Len(sent)))])
        /\ loop' = loop /\ outcome' = outcome
        /\ ids' = ids /\ spawn_failures' = spawn_failures /\ streams' = streams
        /\ todo' = todo /\ max_concurrency' = max_concurrency
    BY DEF HandleData, PollsRunners, TakeFrame, Continue, managerVars, strategyVars
  <1>2. ~saw_error /\ outcome # "Finished" /\ Managing /\ Tables
    BY <1>1, Working
  <1>3. receiving[r]
    BY <1>1, <1>2 DEF Tables
  <1>4. /\ HasRunner(r) /\ RunnerChunk(r) \in Chunk
        /\ ChunkOK(runner_to_chunk[r], RunnerChunk(r))
        /\ Healthy(run[r], data[r], lifecycle[r], mailbox[r], r \in streams,
                   runner_to_chunk[r], RunnerChunk(r))
    BY <1>3, ReceivingHasRunner
  <1>5. sent \in Seq(Nat) \ {<<>>} /\ Len(sent) \in Nat
    BY <1>1, <1>4 DEF Healthy
  <1>6. PICK frame \in Seq(Nat) : frame = sent
    BY <1>5
  <1>7. PICK done \in Nat, n \in 0..Total :
          /\ done = RunnerChunk(r).done /\ n = AcceptedLength(r, Len(frame))
          /\ UpdateProgress(r, n) /\ AcceptedLength(r, n) = n /\ PlannerUpdateProgress
    BY <1>1, <1>4, <1>5, <1>6, ProgressIsClipped DEF LoopInv, ChunkOK
  <1>8. PICK w : w = [start |-> done, bytes |-> SubSeq(frame, 1, n)]
    OBVIOUS
  <1> HIDE DEF sent
  <1>9. WriteRange(w)
    BY <1>1, <1>6, <1>7, <1>8
  <1>10. PlannerInv'
    BY <1>7, PlannerStepInv DEF LoopInv, PlannerNext
  <1>11. /\ Downloaded' = Downloaded \cup (done..(done + n - 1))
         /\ Downloaded \cap (done..(done + n - 1)) = {}
    BY <1>4, <1>7, <1>10, UpdateAddsBytes DEF LoopInv
  <1>12. /\ \A q \in Runners : HasRunner(q)' <=> HasRunner(q)
         /\ \A q \in Runners \ {r} : HasRunner(q) => Untouched(q)
         /\ runner_to_chunk'[r] = runner_to_chunk[r]
         /\ RunnerChunk(r)'.done = done + n
         /\ RunnerChunk(r)'.end = RunnerChunk(r).end
         /\ RunnerChunk(r)'.status =
              IF done + n >= RunnerChunk(r).end THEN "Finished" ELSE RunnerChunk(r).status
    BY <1>4, <1>7, UpdateProgressChunks DEF LoopInv
  <1>13. /\ Healthy(run[r], Tail(data[r]), lifecycle[r], mailbox[r], r \in streams,
                    runner_to_chunk[r], RunnerChunk(r)')
         /\ Begins(frame, n, done)
         /\ n \in 0..Len(frame)
    <2>1. PICK frames, chunk, c, start :
            /\ frames = data[r] /\ chunk = RunnerChunk(r) /\ c = RunnerChunk(r)'
            /\ start = runner_to_chunk[r]
      OBVIOUS
    <2>2. n = Smaller(Len(Head(frames)), chunk.end - chunk.done)
      BY <1>6, <1>7, <2>1 DEF AcceptedLength, Remaining, Smaller, sent
    <2>3. Advanced(chunk, n, c)
      BY <1>7, <1>12, <2>1 DEF Advanced
    <2>4. /\ ChunkOK(start, chunk) /\ frames # <<>> /\ (r \in streams) = TRUE
          /\ Healthy(run[r], frames, lifecycle[r], mailbox[r], TRUE, start, chunk)
      BY <1>1, <1>4, <2>1
    <2>5. /\ Healthy(run[r], Tail(frames), lifecycle[r], mailbox[r], TRUE, start, c)
          /\ Begins(Head(frames), n, chunk.done)
          /\ n \in 0..Len(Head(frames))
      BY <2>2, <2>3, <2>4, TakeFrameHealthy
    <2>6. QED
      BY <1>6, <1>7, <2>1, <2>4, <2>5 DEF sent
  <1>14. /\ w \in Write /\ w.start = done /\ Len(w.bytes) = n
         /\ \A k \in 1..n : w.bytes[k] = frame[k]
    BY <1>6, <1>8, <1>13 DEF Write
  <1>15. WriteRangeOf(w) = done..(done + n - 1)
    BY <1>14 DEF WriteRangeOf
  <1>16. \A b \in WriteRangeOf(w) : w.bytes[b - w.start + 1] = b
    <2>1. ASSUME NEW b \in done..(done + n - 1)
          PROVE  b - done + 1 \in 1..n /\ done + (b - done + 1) - 1 = b
      OBVIOUS
    <2>2. QED
      BY <1>13, <1>14, <1>15, <2>1 DEF Begins
  <1>17. /\ Downloaded \subseteq 0..(Total - 1) /\ Downloaded' \subseteq 0..(Total - 1)
    BY DEF Downloaded
  <1>18. WriterOK /\ OnTheWay(Outstanding, file, Downloaded)
         /\ AllThere(Outstanding, file, Downloaded)
    BY <1>2 DEF LoopInv, Written
  <1>19. PICK k : k = Len(in_flight) + 1
    OBVIOUS
  <1>20. /\ in_flight' \in Seq(Write) /\ pending_write' \in Seq(Write)
         /\ Len(pending_write') <= 1 /\ in_flight' # <<>>
         /\ Outstanding \in Seq(Write) /\ Outstanding' \in Seq(Write)
         /\ OneMore(Outstanding, Outstanding', k)
         /\ Outstanding'[k] = w
    BY <1>1, <1>9, <1>14, <1>18, <1>19, WriteRangeAdds
  <1>21. saw_error' = saw_error /\ file' = file
    BY <1>9 DEF WriteRange
  <1>22. /\ OnTheWay(Outstanding', file, Downloaded \cup WriteRangeOf(w))
         /\ AllThere(Outstanding', file, Downloaded \cup WriteRangeOf(w))
    BY <1>11, <1>15, <1>16, <1>17, <1>18, <1>20, WriteIsAdded
  <1>23. Managing' /\ Planned' /\ loop' = "select" /\ outcome' # "Finished"
    BY <1>1, <1>2 DEF Managing, Planned
  <1>24. WriterOK'
    BY <1>2, <1>18, <1>20, <1>21, <1>23 DEF WriterOK
  <1>25. Written'
    BY <1>11, <1>15, <1>21, <1>22, <1>24 DEF Written
  <1>26. /\ DOMAIN data' = Runners /\ data'[r] = Tail(data[r])
         /\ \A q \in Runners \ {r} : data'[q] = data[q]
    BY <1>1 DEF LoopInv, Domains
  <1>27. Domains'
    BY <1>1, <1>26 DEF LoopInv, Domains
  <1>28. ASSUME NEW q \in Runners PROVE RunnerOK(q)'
    <2>1. CASE q = r
      BY <1>1, <1>12, <1>13, <1>26, <2>1 DEF RunnerOK
    <2>2. CASE q # r
      <3>1. receiving[q] => HasRunner(q)
        BY <1>2 DEF Tables
      <3>2. QED
        BY <1>1, <1>12, <1>26, <2>2, <3>1, RunnerKept DEF LoopInv, Tended, Untouched
    <2>3. QED
      BY <2>1, <2>2
  <1>29. Tables'
    <2>1. \A q \in Runners : Rejected(q)' <=> Rejected(q)
      BY <1>1 DEF Rejected
    <2>2. \A q \in Runners : Rejected(q) => q # r /\ RunnerChunk(q)' = RunnerChunk(q)
      BY <1>2, <1>3, <1>12 DEF Tables, Untouched
    <2>3. \A q \in Runners : ~receiving[q] => data'[q] = <<>>
      BY <1>2, <1>3, <1>26 DEF Tables
    <2>4. QED
      BY <1>1, <1>2, <1>12, <2>1, <2>2, <2>3 DEF Tables
  <1>30. Tended'
    BY <1>23, <1>28, <1>29 DEF Tended
  <1>31. QED
    BY <1>7, <1>10, <1>23, <1>25, <1>27, <1>30 DEF LoopInv, PlannerNext

-----------------------------------------------------------------------------
(* The end of the attempt. *)

LEMMA EndInv ==
  ASSUME LoopInv, UserCancels \/ Cancelled \/ Deadline \/ Joined
  PROVE  LoopInv' /\ UNCHANGED plannerVars
PROOF
  <1>1. /\ NothingElse /\ UNCHANGED <<run, data, lifecycle, mailbox, receiving>>
        /\ \/ loop \in {"select", "applying"} /\ loop' = loop /\ outcome' = outcome
           \/ loop = "select" /\ loop' = "returned" /\ outcome' # "Finished"
           \/ loop = "finishing" /\ loop' = "done" /\ outcome' = outcome /\ in_flight = <<>>
    BY DEF UserCancels, Cancelled, Deadline, Joined, EndWith, Continue, runnerVars
  <1>2. /\ UNCHANGED plannerVars /\ UNCHANGED managerVars /\ UNCHANGED writerVars
        /\ todo' = todo /\ max_concurrency' = max_concurrency
    BY <1>1 DEF NothingElse, strategyVars
  <1>3. loop' \in LoopPhases /\ (Managing' <=> Managing) /\ max_concurrency' \in Nat
    BY <1>1, <1>2 DEF LoopPhases, Managing, LoopInv, Domains
  <1>4. Planned'
    BY <1>1, <1>2 DEF LoopInv, Planned
  <1>5. /\ saw_error => outcome' # "Finished" /\ Ending'
        /\ outcome' = "Finished" => Downloaded = 0..(Total - 1) /\ Ending'
        /\ loop' = "done" => in_flight = <<>>
    BY <1>1 DEF LoopInv, Written, WriterOK, Ending
  <1>6. QED
    BY <1>1, <1>2, <1>3, <1>4, <1>5, QuietInv

\* finish and unwinding drop every receiver.
LEMMA FinishInv ==
  ASSUME LoopInv, Finish
  PROVE  LoopInv' /\ UNCHANGED plannerVars
PROOF
  <1>1. /\ loop \in {"returned", "unwinding"} /\ outcome' = outcome
        /\ loop' = IF loop = "returned" THEN "finishing" ELSE "panicked"
        /\ receiving' = [r \in Runners |-> FALSE]
        /\ data' = [r \in Runners |-> <<>>] /\ lifecycle' = [r \in Runners |-> <<>>]
        /\ run' = run /\ mailbox' = mailbox
        /\ NothingElse
    BY DEF Finish, DropReceivers
  <1>2. /\ UNCHANGED plannerVars /\ UNCHANGED writerVars
        /\ ids' = ids /\ spawn_failures' = spawn_failures /\ streams' = streams
        /\ max_concurrency' = max_concurrency
    BY <1>1 DEF NothingElse, managerVars, strategyVars
  <1>3. PlannerInv' /\ Downloaded' = Downloaded
    BY <1>2, SamePlanner DEF LoopInv
  <1>4. Domains'
    BY <1>1, <1>2 DEF LoopInv, Domains, LoopPhases
  <1>5. ~Managing' /\ Planned'
    BY <1>1 DEF Managing, Planned
  <1>6. \A r \in Runners : ~receiving'[r]
    BY <1>1
  <1>7. Tended'
    BY <1>5, <1>6 DEF Tended, RunnerOK
  <1>8. Written'
    BY <1>1, <1>2, <1>3, WrittenKept DEF LoopInv, Written, WriterOK, Ending
  <1>9. QED
    BY <1>2, <1>3, <1>4, <1>5, <1>7, <1>8 DEF LoopInv

-----------------------------------------------------------------------------
(* The invariant. *)

LEMMA LoopInitInv ==
  ASSUME LoopInit
  PROVE  LoopInv
PROOF
  <1> USE DEF LoopInit
  <1>1. PlannerInv /\ Downloaded = {} /\ DOMAIN runner_to_chunk = {}
    BY PlannerInitInv DEF PlannerInit, Downloaded
  <1>2. Domains
    <2>1. max_concurrency \in Nat
      BY LoopAssumption, FS_CardinalityType DEF LoopAssumption
    <2>2. spawn_failures \in Seq(Runners)
      OBVIOUS
    <2>3. QED
      BY <2>1, <2>2 DEF Domains, RunnerInit, LoopPhases
  <1>3. /\ \A r \in Runners : /\ ~receiving[r] /\ run[r] = NoRun /\ data[r] = <<>>
                              /\ lifecycle[r] = <<>> /\ mailbox[r] = {}
        /\ \A i \in 1..Len(spawn_failures) : FALSE
    BY DEF RunnerInit
  <1>4. Tended
    BY <1>1, <1>3 DEF Tended, Tables, RunnerOK, Rejected, HasRunner, Managing
  <1>5. Planned
    BY DEF Planned
  <1>6. Written
    <2>1. in_flight \in Seq(Write) /\ pending_write \in Seq(Write) /\ Len(pending_write) = 0
      OBVIOUS
    <2>2. Outstanding = <<>> /\ Len(Outstanding) = 0
      BY DEF Outstanding
    <2>3. file \in [0..(Total - 1) -> {Hole} \cup Nat]
      OBVIOUS
    <2>4. \A b \in 0..(Total - 1) : file[b] = Hole /\ Hole # b
      BY PlannerAssumption DEF Hole, PlannerAssumption
    <2>5. OnTheWay(Outstanding, file, Downloaded) /\ AllThere(Outstanding, file, Downloaded)
      BY <1>1, <2>2, <2>4 DEF OnTheWay, AllThere
    <2>6. WriterOK
      <3>1. /\ pending_write = <<>> /\ saw_error = FALSE /\ in_flight = <<>>
            /\ outcome # "Finished" /\ loop # "done"
        OBVIOUS
      <3> USE <2>1, <2>3, <3>1
      <3>2. /\ pending_write # <<>> /\ ~saw_error => in_flight # <<>>
            /\ saw_error => outcome # "Finished" /\ Ending
            /\ outcome = "Finished" => Downloaded = 0..(Total - 1) /\ Ending
        BY Zenon
      <3>3. saw_error \in BOOLEAN
        BY Zenon
      <3>4. Len(pending_write) <= 1
        OBVIOUS
      <3>5. QED
        BY <3>2, <3>3, <3>4, Zenon DEF WriterOK
    <2>7. QED
      BY <2>5, <2>6 DEF Written
  <1>7. QED
    BY <1>1, <1>2, <1>4, <1>5, <1>6 DEF LoopInv

\* Every step keeps the invariant and is a step of the planner, or none of it.
LEMMA LoopStepInv ==
  ASSUME LoopInv, [LoopNext]_vars
  PROVE  LoopInv' /\ [PlannerNext]_plannerVars
PROOF
  <1>1. CASE UNCHANGED vars
    <2>1. /\ UNCHANGED plannerVars /\ UNCHANGED managerVars /\ UNCHANGED writerVars
          /\ UNCHANGED <<run, data, lifecycle, mailbox, receiving>>
          /\ loop' = loop /\ outcome' = outcome /\ todo' = todo
          /\ max_concurrency' = max_concurrency
      BY <1>1 DEF vars, plannerVars, managerVars, writerVars
    <2>2. /\ loop' \in LoopPhases /\ (Managing' <=> Managing) /\ max_concurrency' \in Nat /\ Planned'
      BY <2>1 DEF LoopInv, Domains, Managing, Planned
    <2>3. /\ saw_error => outcome' # "Finished" /\ Ending'
          /\ outcome' = "Finished" => Downloaded = 0..(Total - 1) /\ Ending'
          /\ loop' = "done" => in_flight = <<>>
      BY <2>1 DEF LoopInv, Written, WriterOK, Ending
    <2>4. QED
      BY <2>1, <2>2, <2>3, QuietInv
  <1>2. CASE FirstTick \/ CreateTick \/ SplitAllTick \/ SplitGivenTick \/ LeaveQuickStart \/ DegradeTick
    <2>1. UNCHANGED plannerVars
      BY <1>2 DEF FirstTick, CreateTick, SplitAllTick, SplitGivenTick, LeaveQuickStart,
                  DegradeTick, Apply
    <2>2. QED
      BY <1>2, <2>1, TickInv
  <1>3. CASE ApplySplit
    BY <1>3, ApplySplitInv
  <1>4. CASE ApplyCreate \/ ApplyCreateRejected
    BY <1>4, ApplyCreateInv
  <1>5. CASE ApplyCreatePanics
    BY <1>5, ApplyCreatePanicsInv
  <1>6. CASE WriteCompletes
    BY <1>6, WriteCompletesInv
  <1>7. CASE WriteFails
    BY <1>7, WriteFailsInv
  <1>8. ASSUME NEW r \in Runners, Handles(r)
        PROVE  LoopInv' /\ [PlannerNext]_plannerVars
    BY <1>8, HandleStartedInv, HandleEndInv, HandleDataInv, DataClosedInv DEF Handles
  <1>9. CASE HandleSpawnFailed
    BY <1>9, HandleSpawnFailedInv
  <1>10. CASE Cancelled \/ Deadline \/ Joined \/ UserCancels
    BY <1>10, EndInv
  <1>11. CASE Finish
    BY <1>11, FinishInv
  <1>12. ASSUME NEW r \in Runners, RunnerWorks(r) \/ RunnerFails(r)
         PROVE  LoopInv' /\ [PlannerNext]_plannerVars
    <2>1. /\ RunnerWork(r) \/ RunnerFault(r)
          /\ UNCHANGED <<loop, outcome>> /\ NothingElse
      BY <1>12 DEF RunnerWorks, RunnerFails
    <2>2. UNCHANGED plannerVars
      BY <2>1 DEF NothingElse
    <2>3. QED
      BY <2>1, <2>2, RunnerStepInv
  <1>13. LoopStep => LoopInv' /\ [PlannerNext]_plannerVars
    BY <1>2, <1>3, <1>4, <1>5, <1>6, <1>8, <1>9, <1>10, <1>11 DEF LoopStep
  <1>14. LoopFault => LoopInv' /\ [PlannerNext]_plannerVars
    BY <1>2, <1>4, <1>7, <1>10 DEF LoopFault
  <1>15. QED
    BY <1>1, <1>12, <1>13, <1>14 DEF LoopNext, Ended

\* The invariant holds of every attempt, whatever fails and however the steps
\* of the loop, the runners and the writer come between one another.
THEOREM LoopInvariant == LoopSpec => []LoopInv
PROOF
  <1>1. LoopInit => LoopInv
    BY LoopInitInv
  <1>2. LoopInv /\ [LoopNext]_vars => LoopInv'
    BY LoopStepInv
  <1>3. QED
    BY <1>1, <1>2, PTL DEF LoopSpec

\* The loop keeps the promises of the planner's callers: every step of a
\* download is a step of the planner's own specification, or changes nothing of
\* it.  An id is handed out again only once it was released, `Started` comes
\* first, and a runner reports success only of a chunk that was wholly accepted.
THEOREM LoopImplementsPlanner == LoopSpec => PlannerSpec
PROOF
  <1>1. LoopInit => PlannerInit
    BY DEF LoopInit
  <1>2. LoopInv /\ [LoopNext]_vars => [PlannerNext]_plannerVars
    BY LoopStepInv
  <1>3. QED
    BY <1>1, <1>2, LoopInvariant, PTL DEF LoopSpec, PlannerSpec

\* No byte that was accepted is ever given up, in the composed system.
THEOREM LoopDropsNothing == LoopSpec => NothingDropped
PROOF
  BY LoopImplementsPlanner, PlannerDropsNothing, PTL

\* The tables of the manager and the planner agree on which runners there are
\* while the manager is alive: no `expect` on them fails.
THEOREM LoopTablesAgree == LoopSpec => []TablesAgree
PROOF
  <1>1. LoopInv => TablesAgree
    <2>1. SUFFICES ASSUME LoopInv, Managing, NEW r \in Runners
                   PROVE  /\ r \in ids <=> HasRunner(r)
                          /\ r \in ids <=> (receiving[r] \/ \E i \in DOMAIN spawn_failures :
                                                              spawn_failures[i] = r)
                          /\ ~(r \in ids) => run[r] = NoRun
      BY DEF TablesAgree
    <2>2. Tables /\ DOMAIN spawn_failures = 1..Len(spawn_failures)
      BY <2>1 DEF LoopInv, Tended, Domains
    <2>3. QED
      BY <2>2 DEF Tables, Rejected
  <1>2. QED
    BY <1>1, LoopInvariant, PTL

\* The limit a runner has, or will read next, is the length of its chunk.
THEOREM LoopLimitIsChunk == LoopSpec => []LimitIsChunk
PROOF
  <1>1. LoopInv => LimitIsChunk
    <2>1. SUFFICES ASSUME LoopInv, NEW r \in Runners, receiving[r],
                          run[r].phase \in {"connecting", "streaming"}
                   PROVE  (IF mailbox[r] = {} THEN {run[r].total} ELSE mailbox[r])
                            = {RunnerChunk(r).end - runner_to_chunk[r]}
      BY DEF LimitIsChunk
    <2>2. Healthy(run[r], data[r], lifecycle[r], mailbox[r], r \in streams,
                  runner_to_chunk[r], RunnerChunk(r))
      BY <2>1, ReceivingHasRunner
    <2>3. LimitOK(run[r], mailbox[r], runner_to_chunk[r], RunnerChunk(r).end)
      BY <2>2 DEF Healthy
    <2>4. QED
      BY <2>1, <2>3 DEF LimitOK, Live
  <1>2. QED
    BY <1>1, LoopInvariant, PTL

LEMMA InOrderIsBytes ==
  ASSUME NEW q \in Seq(Nat), NEW position \in Nat, InOrder(q, position)
  PROVE  q = Bytes(position, Len(q))
PROOF
  BY DEF InOrder, Bytes

\* The bytes on their way from a runner go on where its chunk stands.
THEOREM LoopFramesInOrder == LoopSpec => []FramesInOrder
PROOF
  <1>1. LoopInv => FramesInOrder
    <2>1. SUFFICES ASSUME LoopInv, NEW r \in Runners, receiving[r],
                          RunnerChunk(r).done < RunnerChunk(r).end
                   PROVE  LET pushed == Position(r, Len(data[r]) + 1)
                              staged == run[r].staged
                              buffer == run[r].buffer
                          IN  /\ \A i \in DOMAIN data[r] :
                                   data[r][i] = Bytes(Position(r, i), Len(data[r][i]))
                              /\ staged = Bytes(pushed, Len(staged))
                              /\ buffer = Bytes(pushed + Len(staged), Len(buffer))
      BY DEF FramesInOrder
    <2>2. /\ Healthy(run[r], data[r], lifecycle[r], mailbox[r], r \in streams,
                     runner_to_chunk[r], RunnerChunk(r))
          /\ ChunkOK(runner_to_chunk[r], RunnerChunk(r))
      BY <2>1, ReceivingHasRunner
    <2> DEFINE done == RunnerChunk(r).done
               frames == data[r]
               pushed == Pushed(done, frames)
               s == run[r]
    <2>3. /\ frames \in Seq(Seq(Nat) \ {<<>>}) /\ done \in Nat
          /\ FramesOK(done, frames)
          /\ Fits(s, runner_to_chunk[r], RunnerChunk(r).end, pushed)
          /\ s.staged \in Seq(Nat) /\ s.buffer \in Seq(Nat)
      BY <2>1, <2>2 DEF Healthy, ChunkOK, RunOK, Run
    <2>4. \A i : Position(r, i) = From(done, frames, i)
      BY DEF Position, From
    <2>5. pushed \in Nat /\ Position(r, Len(frames) + 1) = pushed
      BY <2>3, <2>4, PushedIsNat DEF Pushed
    <2>6. ASSUME NEW i \in DOMAIN frames
          PROVE  frames[i] = Bytes(Position(r, i), Len(frames[i]))
      <3>1. i \in 1..Len(frames) /\ i \in 1..(Len(frames) + 1) /\ frames[i] \in Seq(Nat)
        <4>1. \A q \in Seq(Seq(Nat) \ {<<>>}) : \A k \in DOMAIN q :
                k \in 1..Len(q) /\ k \in 1..(Len(q) + 1) /\ q[k] \in Seq(Nat)
          OBVIOUS
        <4>2. QED
          BY <2>3, <2>6, <4>1
      <3>2. InOrder(frames[i], From(done, frames, i)) /\ From(done, frames, i) \in Nat
        BY <2>3, <3>1, FromIsNat DEF FramesOK
      <3>3. QED
        BY <2>4, <3>1, <3>2, InOrderIsBytes
    <2>7. /\ InOrder(s.staged, pushed) /\ InOrder(s.buffer, pushed + Len(s.staged))
      <3>1. CASE s.phase \in Live
        BY <2>3, <3>1 DEF Fits, Holds
      <3>2. CASE s.phase \notin Live
        BY <2>3, <3>2 DEF Fits, InOrder
      <3>3. QED
        BY <3>1, <3>2
    <2>8. pushed + Len(s.staged) \in Nat
      BY <2>3, <2>5
    <2> HIDE DEF pushed
    <2>9. /\ s.staged = Bytes(pushed, Len(s.staged))
          /\ s.buffer = Bytes(pushed + Len(s.staged), Len(s.buffer))
      BY <2>3, <2>5, <2>7, <2>8, InOrderIsBytes
    <2>10. QED
      BY <2>5, <2>6, <2>9
  <1>2. QED
    BY <1>1, LoopInvariant, PTL

\* A runner reports success only once its chunk was accepted to its end.
THEOREM LoopSuccessIsDelivered == LoopSpec => []SuccessIsDelivered
PROOF
  <1>1. LoopInv => SuccessIsDelivered
    <2>1. SUFFICES ASSUME LoopInv, NEW r \in Runners, receiving[r],
                          NEW i \in DOMAIN lifecycle[r], lifecycle[r][i] \in Success
                   PROVE  RunnerChunk(r).done = RunnerChunk(r).end
      BY DEF SuccessIsDelivered, Success
    <2>2. /\ Healthy(run[r], data[r], lifecycle[r], mailbox[r], r \in streams,
                     runner_to_chunk[r], RunnerChunk(r))
          /\ ChunkOK(runner_to_chunk[r], RunnerChunk(r))
      BY <2>1, ReceivingHasRunner
    <2>3. lifecycle[r] \in Seq({"Started"} \cup Results)
      BY <2>2 DEF Healthy
    <2>4. i \in 1..Len(lifecycle[r])
      BY <2>1, <2>3
    <2>5. ~(RunnerChunk(r).done < RunnerChunk(r).end)
      BY <2>1, <2>2, <2>4 DEF Healthy
    <2>6. QED
      BY <2>2, <2>5 DEF ChunkOK
  <1>2. QED
    BY <1>1, LoopInvariant, PTL

\* Every byte is written at its place, and none is written twice.
THEOREM LoopBytesInPlace == LoopSpec => []BytesInPlace
PROOF
  <1>1. LoopInv => BytesInPlace
    <2>1. SUFFICES ASSUME LoopInv PROVE BytesInPlace
      OBVIOUS
    <2>2. OnTheWay(Outstanding, file, Downloaded)
      BY <2>1 DEF LoopInv, Written
    <2>3. Outstanding \in Seq(Write)
      BY <2>1, Concatenation DEF LoopInv, Written, WriterOK, Outstanding
    <2>4. DOMAIN Outstanding = 1..Len(Outstanding)
      BY <2>3
    <2>5. QED
      BY <2>2, <2>4 DEF OnTheWay, BytesInPlace
  <1>2. QED
    BY <1>1, LoopInvariant, PTL

\* An attempt that ends with success leaves the whole file, each byte at its place.
THEOREM LoopSuccessIsWholeFile == LoopSpec => []SuccessIsWholeFile
PROOF
  <1>1. LoopInv => SuccessIsWholeFile
    <2>1. SUFFICES ASSUME LoopInv, loop = "done", outcome = "Finished",
                          NEW b \in 0..(Total - 1)
                   PROVE  file[b] = b
      BY DEF SuccessIsWholeFile
    <2>2. WriterOK /\ (~saw_error => AllThere(Outstanding, file, Downloaded))
      BY <2>1 DEF LoopInv, Written
    <2>3. /\ ~saw_error /\ in_flight = <<>> /\ pending_write = <<>>
          /\ Downloaded = 0..(Total - 1)
      BY <2>1, <2>2 DEF WriterOK
    <2>4. Len(Outstanding) = 0
      BY <2>3 DEF Outstanding
    <2>5. QED
      BY <2>1, <2>2, <2>3, <2>4 DEF AllThere
  <1>2. QED
    BY <1>1, LoopInvariant, PTL
=============================================================================
