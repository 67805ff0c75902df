------------------------ MODULE SingletonTaskProofs ------------------------
(***************************************************************************)
(* Proofs about SingletonTask, for every size of the body, known or not,   *)
(* and every bound of the channel and of the buffer.                       *)
(*                                                                         *)
(* SingletonInv is the inductive invariant: while the task runs, the file, *)
(* the frames in the channel and what the runner holds lie end to end, and *)
(* `Finished` is reported of a runner that has pushed all there is.        *)
(***************************************************************************)
EXTENDS SingletonTask, FiniteSetTheorems, TLAPS

\* The phases before the file is there, and those in which there is a connection.
Early == {"connecting", "publishing_started", "preparing"}

Live == Early \cup {"streaming"}

\* No control error waits for the end of a push: there is no mailbox to read.
Run == [phase : Phases, until : Nat, read : Nat, total : Nat \cup {NoTotal}, downloaded : Nat,
        buffer : Seq(Nat), item : Seq(Nat), staged : Seq(Nat),
        then : Continuations \cup {"None"}, deferred : {"None"},
        result : Results \cup {"None"}]

RunOK(s) ==
  /\ s \in Run
  /\ Len(s.buffer) <= BufferSize
  /\ s.staged # <<>> => s.then # "None"
  /\ s.phase \in {"draining", "publishing_stopped"} => s.result # "None"
  /\ s.phase \in Live => s.read <= s.until

\* The bytes of q are those of the body from a position on.
InOrder(q, position) == \A i \in 1..Len(q) : q[i] = position + i - 1

\* Where the i-th of the frames begins, when the file holds `written` bytes.
From(written, frames, i) == IF i = 1 THEN written ELSE frames[i - 1][Len(frames[i - 1])] + 1

Pushed(written, frames) == From(written, frames, Len(frames) + 1)

FramesOK(written, frames) ==
  \A i \in 1..Len(frames) : InOrder(frames[i], From(written, frames, i))

\* What the runner holds goes on from the position up to which it has pushed.
Holds(s, pushed) ==
  /\ InOrder(s.staged, pushed)
  /\ InOrder(s.buffer, pushed + Len(s.staged))
  /\ InOrder(s.item, pushed + Len(s.staged) + Len(s.buffer))
  /\ s.read = pushed + Len(s.staged) + Len(s.buffer) + Len(s.item)

\* All of a body of that size: without a size, all that came, and not nothing.
Delivered(size, came, pushed) ==
  IF size = NoTotal THEN pushed > 0 /\ pushed = came ELSE pushed = size

\* The last frame of a stream of unknown size is the end of what came.
LastFrame(s) ==
  s.total = NoTotal /\ s.staged # <<>> /\ s.then = "Validate" => s.buffer = <<>> /\ s.item = <<>>

Fits(s, size, came, pushed) ==
  /\ s.phase \in Live =>
       /\ s.total = size /\ s.read = came
       /\ s.downloaded = pushed
       /\ Holds(s, pushed)
       /\ s.staged = <<>> => s.item = <<>>
       /\ LastFrame(s)
  /\ s.phase \in {"draining", "publishing_stopped"} /\ s.result = "Finished" =>
       Delivered(size, came, pushed)

\* Each event is taken before the runner goes on, or is its last.
EventsOK(phase, events) ==
  /\ phase = "preparing" => events = <<"Started">>
  /\ phase = "stopped" => events = <<>> \/ \E result \in Results : events = <<result>>
  /\ phase \notin {"preparing", "stopped"} => events = <<>>

\* The loop: `finished` is runner_stopped, `ended` is data_done.
LoopOK(s, frames, events, size, came, pushed, finished, ended) ==
  /\ finished \/ events = <<"Finished">> => s.phase = "stopped" /\ Delivered(size, came, pushed)
  /\ ended => s.phase = "stopped" /\ frames = <<>>

Healthy(s, frames, events, written, size, came, finished, ended) ==
  /\ RunOK(s) /\ s.phase \notin {"none", "lost"}
  /\ frames \in Seq(Seq(Nat) \ {<<>>})
  /\ FramesOK(written, frames)
  /\ Fits(s, size, came, Pushed(written, frames))
  /\ s.phase \in Early => written = 0 /\ frames = <<>>
  /\ EventsOK(s.phase, events)
  /\ LoopOK(s, frames, events, size, came, Pushed(written, frames), finished, ended)

Domains ==
  /\ DOMAIN run = Runners /\ DOMAIN data = Runners /\ DOMAIN lifecycle = Runners
  /\ DOMAIN receiving = Runners
  /\ total \in (Nat \ {0}) \cup {NoTotal}
  /\ content \in Seq(Nat) /\ yielded \in Nat
  /\ dataDone \in BOOLEAN /\ runnerStopped \in BOOLEAN

RunnerHealthy == Running =>
  /\ receiving[Only] = TRUE
  /\ Healthy(run[Only], data[Only], lifecycle[Only], Len(content), total, yielded,
             runnerStopped, dataDone)

SingletonInv == Domains /\ InOrder(content, 0) /\ RunnerHealthy /\ SuccessIsBody

-----------------------------------------------------------------------------
(* The state of the runner after a step. *)

\* What concatenation does, index by index.
LEMMA Concatenation ==
  ASSUME NEW S, NEW p \in Seq(S), NEW q \in Seq(S)
  PROVE  /\ p \o q \in Seq(S) /\ Len(p \o q) = Len(p) + Len(q)
         /\ \A i \in 1..(Len(p) + Len(q)) :
              (p \o q)[i] = IF i <= Len(p) THEN p[i] ELSE q[i - Len(p)]
PROOF
  OBVIOUS

\* A runner in state s that reads its stream goes on to stream or stops.
Moves(t) ==
  /\ RunOK(t)
  /\ t.phase \in {"streaming", "draining", "publishing_stopped"}

\* What it holds after that is what it held before.  What has come is of no
\* account once a runner with a size has stopped.
FitsAfter(s, t) == \A pushed, came \in Nat :
  /\ s.downloaded = pushed /\ Holds(s, pushed)
  /\ t.phase = "streaming" \/ s.total = NoTotal => came = s.read
  => Fits(t, s.total, came, pushed)

Stops == {"Validate", "Timeout"} \cup StreamErrors

\* What begin_stop keeps: the result, and where the runner goes on.
LEMMA BeginStopRun ==
  ASSUME NEW result \in Results
  PROVE  LET t == BeginStop(result)
         IN  /\ t.phase = IF ShouldWaitDataDrain(result) THEN "draining" ELSE "publishing_stopped"
             /\ t.result = result
             /\ t.buffer = <<>> /\ t.staged = <<>> /\ t.then = "None"
             /\ t \in Run
PROOF
  <1> DEFINE phase == IF ShouldWaitDataDrain(result) THEN "draining" ELSE "publishing_stopped"
  <1>1. phase \in Phases
    BY DEF Phases
  <1> HIDE DEF phase
  <1>2. BeginStop(result) = [NoRun EXCEPT !.phase = phase, !.result = result]
    BY DEF BeginStop, phase
  <1>3. NoRun \in Run
    BY DEF NoRun, Run, Phases
  <1>4. [NoRun EXCEPT !.phase = phase, !.result = result] \in Run
    BY <1>1, <1>3 DEF Run
  <1>5. /\ BeginStop(result).phase = phase /\ BeginStop(result).result = result
        /\ BeginStop(result).buffer = <<>> /\ BeginStop(result).staged = <<>>
        /\ BeginStop(result).then = "None"
    BY <1>2 DEF NoRun
  <1>6. QED
    BY <1>2, <1>4, <1>5 DEF phase

\* StopAfter reports success only of a runner that pushed all there is.
LEMMA StopMoves ==
  ASSUME NEW s, RunOK(s), s.staged = <<>>, NEW then \in Stops,
         s.total = NoTotal /\ then = "Validate" => s.buffer = <<>> /\ s.item = <<>>
  PROVE  /\ Moves(StopAfter(s, then)) /\ FitsAfter(s, StopAfter(s, then))
         /\ StopAfter(s, then).phase # "streaming"
PROOF
  <1> DEFINE result == IF then = "Validate" THEN ValidateSize(s) ELSE then
             t == BeginStop(result)
  <1>1. StopAfter(s, then) = t
    BY DEF StopAfter
  <1>2. s.total \in Nat \cup {NoTotal} /\ s.downloaded \in Nat
    BY DEF RunOK, Run
  <1>3. /\ ValidateSize(s) \in {"Finished", "Empty", "SmallerThanTotalSize", "ExceededTotalSize"}
        /\ ValidateSize(s) = "Finished" =>
             IF s.total = NoTotal THEN s.downloaded > 0 ELSE s.total = s.downloaded
    BY <1>2 DEF ValidateSize, NoTotal
  <1>4. /\ result \in Results /\ result # "None"
        /\ result = "Finished" => then = "Validate"
    BY <1>3, RunnerAssumption DEF Stops, Results, RunnerAssumption
  <1>5. result = "Finished" => IF s.total = NoTotal THEN s.downloaded > 0
                               ELSE s.total = s.downloaded
    BY <1>3, <1>4
  <1> HIDE DEF result
  <1>6. /\ t.phase \in {"draining", "publishing_stopped"}
        /\ t.result = result
        /\ t.buffer = <<>> /\ t.staged = <<>> /\ t.then = "None"
        /\ t \in Run
    BY <1>4, BeginStopRun
  <1> HIDE DEF t
  <1>7. Moves(t)
    BY <1>4, <1>6, RunnerAssumption DEF Moves, RunOK, Live, Early, RunnerAssumption
  <1>8. ASSUME NEW pushed \in Nat, NEW came \in Nat, s.downloaded = pushed, Holds(s, pushed),
               s.total = NoTotal => came = s.read
        PROVE  Fits(t, s.total, came, pushed)
    <2>1. result = "Finished" => Delivered(s.total, came, pushed)
      <3>1. CASE s.total = NoTotal /\ result = "Finished"
        <4>1. s.buffer = <<>> /\ s.item = <<>> /\ s.staged = <<>> /\ pushed > 0
          BY <1>4, <1>5, <1>8, <3>1
        <4>2. Len(<<>>) = 0 /\ pushed + 0 + 0 + 0 = pushed
          OBVIOUS
        <4>3. s.read = pushed
          BY <1>8, <4>1, <4>2 DEF Holds
        <4>4. QED
          BY <1>8, <3>1, <4>1, <4>3 DEF Delivered
      <3>2. CASE s.total # NoTotal /\ result = "Finished"
        BY <1>5, <1>8, <3>2 DEF Delivered
      <3>3. QED
        BY <3>1, <3>2
    <2>2. QED
      BY <1>6, <2>1 DEF Fits, Live, Early
  <1>9. FitsAfter(s, t)
    BY <1>8 DEF FitsAfter
  <1>10. QED
    BY <1>1, <1>6, <1>7, <1>9

\* The same of a stop that needs no look at the runner.
LEMMA BeginStopMoves ==
  ASSUME NEW result \in Results, result # "Finished"
  PROVE  /\ Moves(BeginStop(result)) /\ BeginStop(result).phase # "streaming"
         /\ \A size, came, pushed : Fits(BeginStop(result), size, came, pushed)
PROOF
  <1> DEFINE t == BeginStop(result)
  <1>1. result # "None"
    BY RunnerAssumption DEF Results, RunnerAssumption
  <1>2. /\ t.phase \in {"draining", "publishing_stopped"}
        /\ t.result = result
        /\ t.buffer = <<>> /\ t.staged = <<>> /\ t.then = "None"
        /\ t \in Run
    BY BeginStopRun
  <1> HIDE DEF t
  <1>3. Moves(t)
    BY <1>1, <1>2, RunnerAssumption DEF Moves, RunOK, Live, Early, RunnerAssumption
  <1>4. \A size, came, pushed : Fits(t, size, came, pushed)
    BY <1>2 DEF Fits, Live, Early
  <1>5. QED
    BY <1>2, <1>3, <1>4 DEF t

LEMMA FlushMoves ==
  ASSUME NEW s, RunOK(s), s.phase = "streaming", s.staged = <<>>,
         NEW then \in Stops \cup {"ResumeItem"}, then = "ResumeItem" => s.buffer # <<>>,
         s.total = NoTotal /\ then = "Validate" => s.item = <<>>
  PROVE  /\ Moves(Flush(s, then)) /\ FitsAfter(s, Flush(s, then))
         /\ s.buffer # <<>> => Flush(s, then).phase = "streaming"
PROOF
  <1>1. CASE s.buffer = <<>>
    <2>1. then \in Stops /\ Flush(s, then) = StopAfter(s, then)
      BY <1>1 DEF Flush
    <2>2. QED
      BY <1>1, <2>1, StopMoves
  <1>2. CASE s.buffer # <<>>
    <2> DEFINE t == [s EXCEPT !.staged = s.buffer, !.buffer = <<>>, !.then = then]
    <2>1. Flush(s, then) = t
      BY <1>2 DEF Flush
    <2>2. s \in Run
      BY DEF RunOK
    <2>3. /\ t.phase = "streaming" /\ t.total = s.total /\ t.downloaded = s.downloaded
          /\ t.staged = s.buffer /\ t.buffer = <<>> /\ t.item = s.item /\ t.read = s.read
          /\ t.then = then /\ t.until = s.until
      BY <2>2 DEF Run
    <2>4. then # "None" /\ then \in Continuations
      BY RunnerAssumption DEF Stops, Continuations, RunnerAssumption
    <2>5. t \in Run
      BY <2>2, <2>4 DEF Run
    <2> HIDE DEF t
    <2>6. Moves(t)
      BY <2>3, <2>4, <2>5, RunnerAssumption DEF Moves, RunOK, Live, RunnerAssumption
    <2>7. ASSUME NEW pushed \in Nat, Holds(s, pushed)
          PROVE  Holds(t, pushed)
      <3>1. Len(s.buffer) \in Nat /\ Len(s.item) \in Nat /\ Len(<<>>) = 0
        BY <2>2, SMTT(20) DEF Run
      <3>2. QED
        BY <2>3, <2>7, <3>1 DEF Holds, InOrder
    <2>8. t.staged # <<>> /\ LastFrame(t)
      BY <1>2, <2>3 DEF LastFrame
    <2>9. FitsAfter(s, t)
      BY <2>3, <2>7, <2>8 DEF FitsAfter, Fits
    <2>10. QED
      BY <2>1, <2>3, <2>6, <2>9
  <1>3. QED
    BY <1>1, <1>2

\* The bytes that move from the item to the buffer stay in order.
LEMMA TakeKeeps ==
  ASSUME NEW s, RunOK(s), s.phase = "streaming", s.staged = <<>>,
         NEW n \in 0..Len(s.item), Len(s.buffer) + n <= BufferSize
  PROVE  /\ RunOK(Take(s, n))
         /\ Take(s, n).phase = "streaming" /\ Take(s, n).staged = <<>>
         /\ Take(s, n).total = s.total /\ Take(s, n).downloaded = s.downloaded
         /\ Take(s, n).read = s.read
         /\ Len(Take(s, n).buffer) = Len(s.buffer) + n
         /\ Len(Take(s, n).item) = Len(s.item) - n
         /\ \A pushed \in Nat : Holds(s, pushed) => Holds(Take(s, n), pushed)
PROOF
  <1> DEFINE t == Take(s, n)
             first == SubSeq(s.item, 1, n)
             rest == SubSeq(s.item, n + 1, Len(s.item))
  <1>1. s \in Run /\ s.buffer \in Seq(Nat) /\ s.item \in Seq(Nat)
    BY DEF RunOK, Run
  <1>2. Len(s.item) \in Nat /\ Len(s.buffer) \in Nat /\ n \in Nat /\ n <= Len(s.item)
    BY <1>1
  <1>3. /\ first \in Seq(Nat) /\ Len(first) = n
        /\ \A i \in 1..n : first[i] = s.item[i]
    BY <1>1, <1>2
  <1>4. /\ rest \in Seq(Nat) /\ Len(rest) = Len(s.item) - n
        /\ \A i \in 1..(Len(s.item) - n) : rest[i] = s.item[n + i]
    BY <1>1, <1>2
  <1> HIDE DEF first, rest
  <1>5. /\ s.buffer \o first \in Seq(Nat) /\ Len(s.buffer \o first) = Len(s.buffer) + n
        /\ \A i \in 1..(Len(s.buffer) + n) :
             (s.buffer \o first)[i] = IF i <= Len(s.buffer) THEN s.buffer[i]
                                      ELSE first[i - Len(s.buffer)]
    <2>1. /\ s.buffer \o first \in Seq(Nat) /\ Len(s.buffer \o first) = Len(s.buffer) + Len(first)
          /\ \A i \in 1..(Len(s.buffer) + Len(first)) :
               (s.buffer \o first)[i] = IF i <= Len(s.buffer) THEN s.buffer[i]
                                        ELSE first[i - Len(s.buffer)]
      <3>1. \A p, q \in Seq(Nat) :
              /\ p \o q \in Seq(Nat) /\ Len(p \o q) = Len(p) + Len(q)
              /\ \A i \in 1..(Len(p) + Len(q)) :
                   (p \o q)[i] = IF i <= Len(p) THEN p[i] ELSE q[i - Len(p)]
        BY Concatenation
      <3>2. QED
        BY <1>1, <1>3, <3>1, Zenon
    <2> DEFINE all == s.buffer \o first
    <2> HIDE DEF all
    <2>2. QED
      BY <1>3, <2>1 DEF all
  <1>6. /\ t.phase = s.phase /\ t.total = s.total /\ t.downloaded = s.downloaded
        /\ t.staged = s.staged /\ t.read = s.read /\ t.then = s.then /\ t.until = s.until
        /\ t.buffer = s.buffer \o first /\ t.item = rest
    BY <1>1 DEF Take, Run, first, rest
  <1>7. t \in Run
    BY <1>1, <1>4, <1>5 DEF Take, Run, first, rest
  <1> HIDE DEF t
  <1>8. RunOK(t)
    BY <1>5, <1>6, <1>7 DEF RunOK, Live
  <1>9. ASSUME NEW pushed \in Nat, Holds(s, pushed)
        PROVE  Holds(t, pushed)
    <2>1. InOrder(t.buffer, pushed + Len(t.staged))
      <3>1. SUFFICES ASSUME NEW i \in 1..(Len(s.buffer) + n)
                     PROVE  (s.buffer \o first)[i] = pushed + i - 1
        BY <1>5, <1>6 DEF InOrder
      <3>2. CASE i <= Len(s.buffer)
        BY <1>2, <1>5, <1>9, <3>2 DEF Holds, InOrder
      <3>3. CASE i > Len(s.buffer)
        <4>1. i - Len(s.buffer) \in 1..n
          BY <1>2, <3>3
        <4>2. (s.buffer \o first)[i] = s.item[i - Len(s.buffer)]
          BY <1>2, <1>3, <1>5, <3>3, <4>1
        <4>3. \A k \in 1..n : s.item[k] = pushed + Len(s.buffer) + k - 1
          BY <1>2, <1>9 DEF Holds, InOrder
        <4>4. QED
          BY <1>2, <4>1, <4>2, <4>3
      <3>4. QED
        BY <1>2, <3>1, <3>2, <3>3, i <= Len(s.buffer) \/ i > Len(s.buffer)
    <2>2. InOrder(t.item, pushed + Len(t.staged) + Len(t.buffer))
      <3>1. \A k \in 1..Len(s.item) : s.item[k] = pushed + Len(s.buffer) + k - 1
        BY <1>2, <1>9 DEF Holds, InOrder
      <3>2. ASSUME NEW i \in 1..(Len(s.item) - n)
            PROVE  rest[i] = pushed + (Len(s.buffer) + n) + i - 1
        BY <1>2, <1>4, <3>1
      <3>3. Len(t.staged) = 0 /\ Len(t.buffer) = Len(s.buffer) + n
        BY <1>5, <1>6
      <3>4. pushed + Len(t.staged) + Len(t.buffer) = pushed + (Len(s.buffer) + n)
        BY <1>2, <3>3
      <3>5. QED
        BY <1>4, <1>6, <3>2, <3>4 DEF InOrder
    <2>3. InOrder(t.staged, pushed)
      BY <1>6 DEF InOrder
    <2>4. t.read = pushed + Len(t.staged) + Len(t.buffer) + Len(t.item)
      <3>1. s.read = pushed + Len(s.buffer) + Len(s.item)
        BY <1>2, <1>9 DEF Holds
      <3>2. Len(t.staged) = 0 /\ Len(t.buffer) = Len(s.buffer) + n /\ Len(t.item) = Len(s.item) - n
        BY <1>4, <1>5, <1>6
      <3>3. pushed + Len(s.buffer) + Len(s.item)
              = pushed + 0 + (Len(s.buffer) + n) + (Len(s.item) - n)
        <4> DEFINE held == Len(s.buffer)
                   left == Len(s.item)
        <4>1. held \in Nat /\ left \in Nat /\ n \in Nat
          BY <1>2
        <4> HIDE DEF held, left
        <4>2. pushed + held + left = pushed + 0 + (held + n) + (left - n)
          BY <4>1, SMTT(20)
        <4>3. QED
          BY <4>2 DEF held, left
      <3>4. QED
        BY <1>6, <3>1, <3>2, <3>3
    <2>5. QED
      BY <2>1, <2>2, <2>3, <2>4 DEF Holds
  <1>10. QED
    BY <1>4, <1>5, <1>6, <1>8, <1>9 DEF t

LEMMA BufferItemMoves ==
  ASSUME NEW s, RunOK(s), s.phase = "streaming", s.staged = <<>>
  PROVE  /\ Moves(BufferItem(s)) /\ FitsAfter(s, BufferItem(s))
         /\ s.total = NoTotal => BufferItem(s).phase = "streaming"
PROOF
  <1> DEFINE allowed == Allowance(s)
             writable == Smaller(Len(s.item), allowed)
             room == BufferSize - Len(s.buffer)
  <1>1. /\ s \in Run /\ s.total \in Nat \cup {NoTotal} /\ s.downloaded \in Nat
        /\ Len(s.buffer) \in Nat /\ Len(s.item) \in Nat
    BY DEF RunOK, Run
  <1>2. allowed \in Nat /\ (s.total = NoTotal => allowed = Len(s.item) + 1)
    BY <1>1, SMTT(20) DEF Allowance, NoTotal
  <1>3. /\ room \in Nat /\ writable \in Nat /\ writable <= Len(s.item) /\ writable <= allowed
        /\ writable = Len(s.item) \/ writable = allowed
        /\ s.total = NoTotal => allowed # 0 /\ writable # allowed
    BY <1>1, <1>2, RunnerAssumption DEF RunOK, Smaller, RunnerAssumption
  <1> HIDE DEF allowed, writable
  <1>4. ASSUME NEW n \in 0..Len(s.item), Len(s.buffer) + n <= BufferSize,
               NEW u, Moves(u), FitsAfter(Take(s, n), u)
        PROVE  Moves(u) /\ FitsAfter(s, u)
    BY <1>4, TakeKeeps DEF Moves, FitsAfter
  <1>5. CASE allowed = 0
    <2>1. BufferItem(s) = Flush(s, "Validate") /\ s.total # NoTotal
      BY <1>3, <1>5 DEF BufferItem, allowed
    <2>2. QED
      BY <1>5, <2>1, FlushMoves DEF Stops
  <1>6. CASE allowed > 0 /\ s.item = <<>>
    <2>1. BufferItem(s) = s
      BY <1>6 DEF BufferItem, allowed
    <2>2. QED
      BY <1>6, <2>1 DEF Moves, FitsAfter, Fits, LastFrame
  <1>7. CASE allowed > 0 /\ s.item # <<>> /\ writable > room
    <2>1. BufferItem(s) = Flush(Take(s, room), "ResumeItem")
      BY <1>3, <1>7 DEF BufferItem, allowed, writable
    <2>2. room \in 0..Len(s.item) /\ Len(s.buffer) + room <= BufferSize
      BY <1>1, <1>3, <1>7, RunnerAssumption DEF RunnerAssumption
    <2>3. /\ RunOK(Take(s, room)) /\ Take(s, room).phase = "streaming"
          /\ Take(s, room).staged = <<>> /\ Len(Take(s, room).buffer) = BufferSize
      BY <1>1, <2>2, TakeKeeps, RunnerAssumption DEF RunnerAssumption
    <2>4. Take(s, room).buffer # <<>>
      BY <2>3, RunnerAssumption DEF RunnerAssumption
    <2>5. /\ Moves(BufferItem(s)) /\ FitsAfter(Take(s, room), BufferItem(s))
          /\ BufferItem(s).phase = "streaming"
      BY <2>1, <2>3, <2>4, FlushMoves
    <2>6. QED
      BY <1>4, <2>2, <2>5
  <1>8. CASE allowed > 0 /\ s.item # <<>> /\ writable <= room
    <2> DEFINE t == Take(s, writable)
    <2>1. writable \in 0..Len(s.item) /\ Len(s.buffer) + writable <= BufferSize
      BY <1>1, <1>3, <1>8, RunnerAssumption DEF RunnerAssumption
    <2>2. /\ RunOK(t) /\ t.phase = "streaming" /\ t.staged = <<>>
          /\ t.total = s.total /\ Len(t.item) = Len(s.item) - writable
      BY <2>1, TakeKeeps
    <2> HIDE DEF t
    <2>3. CASE writable = allowed
      <3>1. BufferItem(s) = Flush(t, "Validate")
        BY <1>8, <2>3 DEF BufferItem, allowed, writable, t
      <3>2. Moves(BufferItem(s)) /\ FitsAfter(t, BufferItem(s))
        BY <1>3, <2>2, <2>3, <3>1, FlushMoves DEF Stops
      <3>3. QED
        BY <1>3, <1>4, <2>1, <2>3, <3>2 DEF t
    <2>4. CASE writable # allowed
      <3>1. BufferItem(s) = t
        BY <1>8, <2>4 DEF BufferItem, allowed, writable, t
      <3>2. t.item \in Seq(Nat) /\ Len(t.item) = 0
        BY <1>1, <1>3, <2>2, <2>4 DEF RunOK, Run
      <3>3. t.item = <<>>
        BY <3>2
      <3>4. Moves(t) /\ FitsAfter(t, t)
        BY <2>2, <3>3 DEF Moves, FitsAfter, Fits, LastFrame
      <3>5. QED
        BY <1>4, <2>1, <2>2, <3>1, <3>4 DEF t
    <2>5. QED
      BY <2>3, <2>4
  <1>9. QED
    BY <1>2, <1>3, <1>5, <1>6, <1>7, <1>8

LEMMA FromIsNat ==
  ASSUME NEW written \in Nat, NEW frames \in Seq(Seq(Nat) \ {<<>>}), NEW i \in 1..(Len(frames) + 1)
  PROVE  From(written, frames, i) \in Nat
PROOF
  <1>1. CASE i = 1
    BY <1>1 DEF From
  <1>2. CASE i # 1
    <2>1. i - 1 \in 1..Len(frames) /\ Len(frames) \in Nat
      BY <1>2
    <2>2. frames[i - 1] \in Seq(Nat) \ {<<>>}
      BY <2>1
    <2>3. \A f \in Seq(Nat) \ {<<>>} : Len(f) \in 1..Len(f) /\ f[Len(f)] \in Nat
      OBVIOUS
    <2>4. frames[i - 1][Len(frames[i - 1])] \in Nat
      BY <2>2, <2>3
    <2>5. QED
      BY <1>2, <2>4, SMTT(20) DEF From
  <1>3. QED
    BY <1>1, <1>2

LEMMA PushedIsNat ==
  ASSUME NEW written \in Nat, NEW frames \in Seq(Seq(Nat) \ {<<>>})
  PROVE  Pushed(written, frames) \in Nat
PROOF
  <1>1. Len(frames) + 1 \in 1..(Len(frames) + 1)
    OBVIOUS
  <1>2. QED
    BY <1>1, FromIsNat DEF Pushed

\* A frame that is appended moves the position up by its length.
LEMMA PushFrame ==
  ASSUME NEW written \in Nat, NEW frames \in Seq(Seq(Nat) \ {<<>>}), FramesOK(written, frames),
         NEW f \in Seq(Nat) \ {<<>>}, InOrder(f, Pushed(written, frames))
  PROVE  /\ Append(frames, f) \in Seq(Seq(Nat) \ {<<>>})
         /\ FramesOK(written, Append(frames, f))
         /\ Pushed(written, Append(frames, f)) = Pushed(written, frames) + Len(f)
PROOF
  <1> DEFINE q == Append(frames, f)
             n == Len(frames)
  <1>1. n \in Nat /\ Len(f) \in Nat \ {0} /\ Pushed(written, frames) \in Nat
    BY PushedIsNat, SMTT(20)
  <1>2. /\ q \in Seq(Seq(Nat) \ {<<>>}) /\ Len(q) = n + 1
        /\ q[n + 1] = f /\ \A i \in 1..n : q[i] = frames[i]
    OBVIOUS
  <1> HIDE DEF q, n
  <1>3. ASSUME NEW i \in 1..(n + 1)
        PROVE  From(written, q, i) = From(written, frames, i)
    <2>1. CASE i = 1
      BY <2>1 DEF From
    <2>2. CASE i # 1
      <3>1. i - 1 \in 1..n
        BY <1>1, <2>2
      <3>2. q[i - 1] = frames[i - 1]
        BY <1>2, <3>1
      <3>3. QED
        BY <2>2, <3>2 DEF From
    <2>3. QED
      BY <2>1, <2>2
  <1>4. ASSUME NEW i \in 1..(n + 1)
        PROVE  InOrder(q[i], From(written, q, i))
    <2>1. CASE i = n + 1
      BY <1>2, <1>3, <2>1 DEF Pushed, n
    <2>2. CASE i # n + 1
      <3>1. i \in 1..n
        BY <1>1, <2>2
      <3>2. InOrder(frames[i], From(written, frames, i))
        BY <3>1 DEF FramesOK, n
      <3>3. QED
        BY <1>2, <1>3, <3>1, <3>2
    <2>3. QED
      BY <2>1, <2>2
  <1>5. Pushed(written, q) = Pushed(written, frames) + Len(f)
    <2>1. Pushed(written, q) = From(written, q, n + 1 + 1)
      BY <1>2 DEF Pushed
    <2>2. n + 1 + 1 # 1 /\ n + 1 + 1 - 1 = n + 1
      BY <1>1
    <2>3. From(written, q, n + 1 + 1) = f[Len(f)] + 1
      BY <1>2, <2>2 DEF From
    <2>4. f[Len(f)] = Pushed(written, frames) + Len(f) - 1
      BY <1>1 DEF InOrder
    <2>5. QED
      BY <1>1, <2>1, <2>3, <2>4
  <1>6. FramesOK(written, q)
    BY <1>2, <1>4 DEF FramesOK
  <1>7. QED
    BY <1>2, <1>5, <1>6 DEF q

\* The frames after the first go on where the first one ends.
LEMMA TakeFrameOrder ==
  ASSUME NEW written \in Nat, NEW frames \in Seq(Seq(Nat) \ {<<>>}), frames # <<>>,
         FramesOK(written, frames)
  PROVE  /\ InOrder(Head(frames), written)
         /\ FramesOK(written + Len(Head(frames)), Tail(frames))
         /\ Pushed(written + Len(Head(frames)), Tail(frames)) = Pushed(written, frames)
PROOF
  <1> DEFINE f == Head(frames)
             q == Tail(frames)
             n == Len(frames)
             next == written + Len(f)
  <1>1. /\ n \in Nat \ {0} /\ f = frames[1] /\ f \in Seq(Nat) \ {<<>>}
        /\ Len(f) \in Nat \ {0}
    OBVIOUS
  <1>2. Len(q) = n - 1 /\ \A i \in 1..(n - 1) : q[i] = frames[i + 1]
    OBVIOUS
  <1>3. InOrder(f, written)
    BY <1>1 DEF FramesOK, From
  <1>4. f[Len(f)] + 1 = next
    BY <1>1, <1>3 DEF InOrder
  <1> HIDE DEF f, q, n, next
  <1>5. ASSUME NEW i \in 1..n
        PROVE  From(next, q, i) = From(written, frames, i + 1)
    <2>1. i + 1 # 1 /\ i + 1 - 1 = i
      BY <1>1, <1>5
    <2>2. From(written, frames, i + 1) = frames[i][Len(frames[i])] + 1
      BY <2>1 DEF From
    <2>3. CASE i = 1
      BY <1>1, <1>4, <2>2, <2>3 DEF From
    <2>4. CASE i # 1
      <3>1. i - 1 \in 1..(n - 1) /\ i - 1 + 1 = i
        BY <1>1, <1>5, <2>4
      <3>2. q[i - 1] = frames[i]
        BY <1>2, <3>1
      <3>3. QED
        BY <2>2, <2>4, <3>2 DEF From
    <2>5. QED
      BY <2>3, <2>4
  <1>6. FramesOK(next, q)
    <2>1. SUFFICES ASSUME NEW i \in 1..(n - 1)
                   PROVE  InOrder(q[i], From(next, q, i))
      BY <1>2 DEF FramesOK
    <2>2. i \in 1..n /\ i + 1 \in 1..n
      BY <1>1, <2>1
    <2>3. InOrder(frames[i + 1], From(written, frames, i + 1))
      BY <2>2 DEF FramesOK, n
    <2>4. QED
      BY <1>2, <1>5, <2>1, <2>2, <2>3
  <1>7. Pushed(next, q) = Pushed(written, frames)
    <2>1. Pushed(next, q) = From(next, q, n) /\ Pushed(written, frames) = From(written, frames, n + 1)
      BY <1>1, <1>2 DEF Pushed, n
    <2>2. QED
      BY <1>1, <1>5, <2>1
  <1>8. QED
    BY <1>3, <1>6, <1>7 DEF f, q, next

-----------------------------------------------------------------------------
(* A step of the runner keeps it healthy. *)

\* What has come, when the runner has moved to t.
Came(t, came) == IF t.phase = "streaming" THEN t.read ELSE came

LEMMA StepHealthy ==
  ASSUME NEW s, NEW frames, NEW events, NEW written, NEW size, NEW came, NEW finished, NEW ended,
         Healthy(s, frames, events, written, size, came, finished, ended),
         s.phase \in {"connecting", "streaming"},
         NEW t, Moves(t),
         NEW q \in Seq(Seq(Nat) \ {<<>>}), FramesOK(written, q),
         NEW c, Fits(t, size, c, Pushed(written, q))
  PROVE  Healthy(t, q, events, written, size, c, finished, ended)
PROOF
  <1>1. RunOK(t) /\ t.phase \in {"streaming", "draining", "publishing_stopped"}
    BY DEF Moves
  <1>2. events = <<>> /\ s.phase # "stopped"
    BY DEF Healthy, EventsOK
  <1>3. /\ ~(finished \/ events = <<"Finished">>)
        /\ ~ended
    BY <1>2 DEF Healthy, LoopOK
  <1>4. LoopOK(t, q, events, size, c, Pushed(written, q), finished, ended)
    BY <1>3 DEF LoopOK
  <1>5. EventsOK(t.phase, events)
    BY <1>1, <1>2 DEF EventsOK
  <1>6. QED
    BY <1>1, <1>4, <1>5 DEF Healthy, Early

LEMMA StopHealthy ==
  ASSUME NEW s, NEW frames, NEW events, NEW written, NEW size, NEW came, NEW finished, NEW ended,
         Healthy(s, frames, events, written, size, came, finished, ended),
         s.phase \in {"connecting", "streaming"},
         NEW result \in Results, result # "Finished"
  PROVE  Healthy(BeginStop(result), frames, events, written, size, Came(BeginStop(result), came),
                 finished, ended)
PROOF
  <1> DEFINE t == BeginStop(result)
  <1>1. Moves(t) /\ t.phase # "streaming" /\ Fits(t, size, came, Pushed(written, frames))
    BY BeginStopMoves
  <1> HIDE DEF t
  <1>2. frames \in Seq(Seq(Nat) \ {<<>>}) /\ FramesOK(written, frames)
    BY DEF Healthy
  <1>3. Healthy(t, frames, events, written, size, came, finished, ended)
    BY <1>1, <1>2, StepHealthy
  <1>4. Came(t, came) = came
    BY <1>1 DEF Came
  <1>5. QED
    BY <1>3, <1>4 DEF t

\* A step in which the runner, with what it holds in u, goes on to t.
LEMMA ReadHealthy ==
  ASSUME NEW s, NEW frames, NEW events, NEW written, NEW size, NEW came \in Nat, NEW finished,
         NEW ended,
         Healthy(s, frames, events, written, size, came, finished, ended),
         s.phase = "streaming",
         NEW q \in Seq(Seq(Nat) \ {<<>>}), FramesOK(written, q), Pushed(written, q) \in Nat,
         NEW u, u.total = size, u.read \in Nat, u.downloaded = Pushed(written, q),
         Holds(u, Pushed(written, q)),
         NEW t, Moves(t), FitsAfter(u, t),
         t.phase = "streaming" \/ size # NoTotal \/ u.read = came
  PROVE  Healthy(t, q, events, written, size, Came(t, came), finished, ended)
PROOF
  <1> DEFINE p == Pushed(written, q)
  <1>1. \A c \in Nat : (t.phase = "streaming" \/ size = NoTotal => c = u.read)
                         => Fits(t, size, c, p)
    BY DEF FitsAfter
  <1>2. Fits(t, size, Came(t, came), p)
    <2>1. CASE t.phase = "streaming"
      <3>1. Fits(t, size, u.read, p)
        BY <1>1
      <3>2. t.read = u.read
        BY <2>1, <3>1 DEF Fits, Live
      <3>3. QED
        BY <2>1, <3>1, <3>2 DEF Came
    <2>2. CASE t.phase # "streaming"
      <3>1. Fits(t, size, came, p)
        BY <1>1, <2>2
      <3>2. QED
        BY <2>2, <3>1 DEF Came
    <2>3. QED
      BY <2>1, <2>2
  <1>3. QED
    BY <1>2, StepHealthy

LEMMA FlushHealthy ==
  ASSUME NEW s, NEW frames, NEW events, NEW written \in Nat, NEW size, NEW came \in Nat,
         NEW finished, NEW ended,
         Healthy(s, frames, events, written, size, came, finished, ended),
         s.phase = "streaming", s.staged = <<>>,
         NEW then \in Stops
  PROVE  Healthy(Flush(s, then), frames, events, written, size, Came(Flush(s, then), came),
                 finished, ended)
PROOF
  <1>1. RunOK(s) /\ frames \in Seq(Seq(Nat) \ {<<>>}) /\ FramesOK(written, frames)
    BY DEF Healthy
  <1>2. Pushed(written, frames) \in Nat
    BY <1>1, PushedIsNat
  <1>3. /\ s.total = size /\ s.read = came /\ s.downloaded = Pushed(written, frames)
        /\ Holds(s, Pushed(written, frames)) /\ s.item = <<>>
    BY DEF Healthy, Fits, Live
  <1>4. Moves(Flush(s, then)) /\ FitsAfter(s, Flush(s, then))
    <2>1. then # "ResumeItem"
      BY RunnerAssumption DEF Stops, RunnerAssumption
    <2>2. QED
      BY <1>1, <1>3, <2>1, FlushMoves
  <1>5. QED
    BY <1>1, <1>2, <1>3, <1>4, ReadHealthy

LEMMA ReadsItemHealthy ==
  ASSUME NEW s, NEW frames, NEW events, NEW written \in Nat, NEW size, NEW came \in Nat,
         NEW finished, NEW ended,
         Healthy(s, frames, events, written, size, came, finished, ended),
         s.phase = "streaming", s.staged = <<>>,
         NEW n \in Nat, s.read + n <= s.until,
         NEW u, u = [s EXCEPT !.item = [i \in 1..n |-> s.read + i - 1], !.read = @ + n]
  PROVE  Healthy(BufferItem(u), frames, events, written, size, Came(BufferItem(u), came),
                 finished, ended)
PROOF
  <1> DEFINE item == [i \in 1..n |-> s.read + i - 1]
             p == Pushed(written, frames)
  <1>1. /\ RunOK(s) /\ s \in Run /\ s.read \in Nat /\ frames \in Seq(Seq(Nat) \ {<<>>})
        /\ FramesOK(written, frames) /\ Fits(s, size, came, p)
    BY DEF Healthy, RunOK, Run
  <1>2. item \in Seq(Nat) /\ Len(item) = n
    <2>1. \A i \in 1..n : s.read + i - 1 \in Nat
      BY <1>1
    <2>2. item \in [1..n -> Nat]
      BY <2>1, Zenon
    <2>3. QED
      BY <2>2
  <1>3. \A i \in 1..n : item[i] = s.read + i - 1
    OBVIOUS
  <1> HIDE DEF item
  <1>4. u = [s EXCEPT !.item = item, !.read = s.read + n] /\ s.read + n \in Nat
    BY <1>1 DEF item
  <1>5. u \in Run
    BY <1>1, <1>2, <1>4 DEF Run
  <1>6. /\ u.phase = "streaming" /\ u.staged = <<>> /\ u.total = s.total /\ u.buffer = s.buffer
        /\ u.downloaded = s.downloaded /\ u.item = item /\ u.read = s.read + n
        /\ u.until = s.until /\ u.then = s.then
    BY <1>1, <1>4 DEF Run
  <1>7. RunOK(u)
    BY <1>1, <1>5, <1>6 DEF RunOK
  <1>8. /\ Moves(BufferItem(u)) /\ FitsAfter(u, BufferItem(u))
        /\ u.total = NoTotal => BufferItem(u).phase = "streaming"
    BY <1>6, <1>7, BufferItemMoves
  <1>9. p \in Nat
    BY <1>1, PushedIsNat
  <1> HIDE DEF p
  <1>10. s.total = size /\ s.downloaded = p /\ Holds(s, p) /\ s.item = <<>>
    BY <1>1 DEF Fits, Live
  <1>11. Holds(u, p)
    <2>1. Len(s.buffer) \in Nat /\ Len(s.staged) = 0 /\ Len(s.item) = 0
      BY <1>1, <1>10 DEF Run
    <2>2. s.read = p + Len(s.staged) + Len(s.buffer)
      BY <1>9, <1>10, <2>1 DEF Holds
    <2>3. InOrder(u.item, p + Len(u.staged) + Len(u.buffer))
      BY <1>2, <1>3, <1>6, <2>2 DEF InOrder
    <2>4. u.read = p + Len(u.staged) + Len(u.buffer) + Len(u.item)
      BY <1>2, <1>6, <2>2
    <2>5. QED
      BY <1>6, <1>10, <2>3, <2>4 DEF Holds
  <1>12. /\ u.total = size /\ u.read \in Nat /\ u.downloaded = p
         /\ BufferItem(u).phase = "streaming" \/ size # NoTotal
    BY <1>4, <1>6, <1>8, <1>10
  <1>13. frames \in Seq(Seq(Nat) \ {<<>>}) /\ FramesOK(written, frames)
         /\ Moves(BufferItem(u)) /\ FitsAfter(u, BufferItem(u))
    BY <1>1, <1>8
  <1> DEFINE t == BufferItem(u)
  <1> HIDE DEF t
  <1>14. Healthy(t, frames, events, written, size, Came(t, came), finished, ended)
    BY <1>9, <1>11, <1>12, <1>13, ReadHealthy, Zenon DEF p, t
  <1>15. QED
    BY <1>14 DEF t

LEMMA EmittedRun ==
  ASSUME NEW s \in Run, NEW n \in Nat
  PROVE  [s EXCEPT !.downloaded = n, !.staged = <<>>, !.then = "None", !.deferred = "None"]
           \in Run
PROOF
  <1>1. <<>> \in Seq(Nat)
    OBVIOUS
  <1>2. QED
    BY <1>1 DEF Run

\* The frame is in the channel, and the runner goes on as resume_after_emit says.
LEMMA EmittedHealthy ==
  ASSUME NEW s, NEW frames, NEW events, NEW written \in Nat, NEW size, NEW came \in Nat,
         NEW finished, NEW ended,
         Healthy(s, frames, events, written, size, came, finished, ended),
         s.phase = "streaming", s.staged # <<>>,
         NEW u, u = [s EXCEPT !.downloaded = @ + Len(s.staged), !.staged = <<>>,
                              !.then = "None", !.deferred = "None"],
         NEW t, t = ResumeAfterEmit(u, s.then, s.deferred)
  PROVE  Healthy(t, Append(frames, s.staged), events, written, size, Came(t, came),
                 finished, ended)
PROOF
  <1> DEFINE p == Pushed(written, frames)
             q == Append(frames, s.staged)
  <1>1. /\ RunOK(s) /\ s \in Run /\ s.staged \in Seq(Nat) \ {<<>>} /\ s.downloaded \in Nat
        /\ Len(s.staged) \in Nat /\ s.deferred = "None" /\ s.then \in Continuations
        /\ s.read \in Nat
        /\ frames \in Seq(Seq(Nat) \ {<<>>}) /\ FramesOK(written, frames)
    BY DEF Healthy, RunOK, Run
  <1>2. u \in Run
    <2> DEFINE d == s.downloaded + Len(s.staged)
    <2>1. d \in Nat
      BY <1>1
    <2>2. u = [s EXCEPT !.downloaded = d, !.staged = <<>>, !.then = "None", !.deferred = "None"]
      OBVIOUS
    <2> HIDE DEF d
    <2>3. [s EXCEPT !.downloaded = d, !.staged = <<>>, !.then = "None", !.deferred = "None"]
            \in Run
      BY <1>1, <2>1, EmittedRun, Zenon
    <2>4. QED
      BY <2>2, <2>3, Zenon
  <1>3. /\ u.phase = "streaming" /\ u.staged = <<>> /\ u.total = s.total /\ u.buffer = s.buffer
        /\ u.downloaded = s.downloaded + Len(s.staged) /\ u.item = s.item /\ u.read = s.read
        /\ u.until = s.until
    BY <1>1 DEF Run
  <1>4. RunOK(u)
    BY <1>1, <1>2, <1>3 DEF RunOK
  <1>5. /\ s.total = size /\ s.read = came /\ s.downloaded = p /\ Holds(s, p) /\ LastFrame(s)
    BY DEF Healthy, Fits, Live
  <1>6. Moves(t) /\ FitsAfter(u, t)
    <2>1. CASE s.then = "ResumeItem"
      <3>1. "ResumeItem" \notin StreamErrors
        BY RunnerAssumption DEF RunnerAssumption
      <3>2. t = BufferItem(u)
        BY <1>1, <2>1, <3>1 DEF ResumeAfterEmit
      <3>3. QED
        BY <1>3, <1>4, <3>2, BufferItemMoves
    <2>2. CASE s.then # "ResumeItem"
      <3>1. s.then \in Stops
        BY <1>1, <2>2 DEF Stops, Continuations
      <3>2. t = StopAfter(u, s.then)
        BY <1>1, <2>2, <3>1 DEF ResumeAfterEmit, Stops
      <3>3. u.total = NoTotal /\ s.then = "Validate" => u.buffer = <<>> /\ u.item = <<>>
        BY <1>3, <1>5 DEF LastFrame
      <3>4. QED
        BY <1>3, <1>4, <3>1, <3>2, <3>3, StopMoves
    <2>3. QED
      BY <2>1, <2>2
  <1>7. p \in Nat
    BY <1>1, PushedIsNat
  <1>8. /\ q \in Seq(Seq(Nat) \ {<<>>}) /\ FramesOK(written, q)
        /\ Pushed(written, q) = p + Len(s.staged)
    BY <1>1, <1>5, PushFrame DEF Holds
  <1> HIDE DEF p, q
  <1>9. Holds(u, p + Len(s.staged))
    <2>1. Len(u.staged) = 0 /\ p + Len(s.staged) + Len(u.staged) = p + Len(s.staged)
      BY <1>1, <1>3, <1>7
    <2>2. InOrder(u.staged, p + Len(s.staged))
      BY <2>1 DEF InOrder
    <2>3. QED
      BY <1>3, <1>5, <2>1, <2>2 DEF Holds
  <1>10. u.downloaded = Pushed(written, q) /\ Pushed(written, q) \in Nat
    BY <1>1, <1>3, <1>5, <1>7, <1>8
  <1>11. Healthy(t, q, events, written, size, Came(t, came), finished, ended)
    BY <1>1, <1>3, <1>5, <1>6, <1>8, <1>9, <1>10, ReadHealthy
  <1>12. QED
    BY <1>11 DEF q

\* The phases before the first frame differ in nothing but the events.
LEMMA EarlyKeeps ==
  ASSUME NEW s, RunOK(s), s.phase \in Early, NEW phase \in Live
  PROVE  LET t == [s EXCEPT !.phase = phase]
         IN  /\ RunOK(t) /\ t.phase = phase /\ t.read = s.read
             /\ \A size, came, pushed : Fits(s, size, came, pushed) => Fits(t, size, came, pushed)
PROOF
  <1> DEFINE t == [s EXCEPT !.phase = phase]
  <1>1. s \in Run /\ phase \in Phases
    BY DEF RunOK, Live, Early, Phases
  <1>2. /\ t \in Run /\ t.phase = phase /\ t.staged = s.staged /\ t.total = s.total
        /\ t.buffer = s.buffer /\ t.downloaded = s.downloaded /\ t.item = s.item
        /\ t.read = s.read /\ t.until = s.until /\ t.then = s.then
    BY <1>1 DEF Run
  <1> HIDE DEF t
  <1>3. RunOK(t)
    BY <1>2 DEF RunOK, Live, Early
  <1>4. ASSUME NEW size, NEW came, NEW pushed, Fits(s, size, came, pushed)
        PROVE  Fits(t, size, came, pushed)
    BY <1>2, <1>4 DEF Fits, Holds, LastFrame, Live, Early
  <1>5. QED
    BY <1>2, <1>3, <1>4 DEF t

LEMMA NothingTold ==
  ASSUME NEW s, NEW frames, NEW events, NEW written, NEW size, NEW came, NEW finished, NEW ended,
         Healthy(s, frames, events, written, size, came, finished, ended), s.phase # "stopped"
  PROVE  ~finished /\ ~ended
PROOF
  BY DEF Healthy, LoopOK

LEMMA ConnectedHealthy ==
  ASSUME NEW s, NEW frames, NEW events, NEW written, NEW size, NEW came, NEW finished, NEW ended,
         Healthy(s, frames, events, written, size, came, finished, ended),
         s.phase = "connecting",
         NEW t, t = [s EXCEPT !.phase = "publishing_started"]
  PROVE  Healthy(t, frames, events, written, size, Came(t, came), finished, ended)
PROOF
  <1> DEFINE p == Pushed(written, frames)
  <1>1. RunOK(s) /\ Fits(s, size, came, p) /\ events = <<>> /\ written = 0 /\ frames = <<>>
    BY DEF Healthy, EventsOK, Early
  <1>2. RunOK(t) /\ t.phase = "publishing_started" /\ Fits(t, size, came, p)
    BY <1>1, EarlyKeeps DEF Early, Live
  <1>3. ~finished /\ ~ended /\ Came(t, came) = came
    BY <1>2, NothingTold DEF Came
  <1>4. EventsOK(t.phase, events) /\ LoopOK(t, frames, events, size, came, p, finished, ended)
    BY <1>1, <1>2, <1>3 DEF EventsOK, LoopOK
  <1>5. QED
    BY <1>1, <1>2, <1>3, <1>4 DEF Healthy

LEMMA StartedHealthy ==
  ASSUME NEW s, NEW frames, NEW events, NEW written, NEW size, NEW came, NEW finished, NEW ended,
         Healthy(s, frames, events, written, size, came, finished, ended),
         s.phase = "publishing_started",
         NEW t, t = [s EXCEPT !.phase = "preparing"]
  PROVE  Healthy(t, frames, Append(events, "Started"), written, size, came, finished, ended)
PROOF
  <1> DEFINE p == Pushed(written, frames)
  <1>1. RunOK(s) /\ Fits(s, size, came, p) /\ events = <<>> /\ written = 0 /\ frames = <<>>
    BY DEF Healthy, EventsOK, Early
  <1>2. RunOK(t) /\ t.phase = "preparing" /\ Fits(t, size, came, p)
    BY <1>1, EarlyKeeps DEF Early, Live
  <1>3. ~finished /\ ~ended
    BY NothingTold
  <1>4. Append(events, "Started") = <<"Started">> /\ <<"Started">> # <<"Finished">>
    BY <1>1
  <1>5. /\ EventsOK(t.phase, <<"Started">>)
        /\ LoopOK(t, frames, <<"Started">>, size, came, p, finished, ended)
    BY <1>2, <1>3, <1>4 DEF EventsOK, LoopOK
  <1>6. QED
    BY <1>1, <1>2, <1>4, <1>5 DEF Healthy

\* finish_drain: what was delivered is what is reported, unless the drain failed.
LEMMA DrainedHealthy ==
  ASSUME NEW s, NEW frames, NEW events, NEW written, NEW size, NEW came, NEW finished, NEW ended,
         Healthy(s, frames, events, written, size, came, finished, ended),
         s.phase = "draining", NEW result \in Results \cup {"None"}, result # "None",
         result = "Finished" => result = s.result,
         NEW t, t = [s EXCEPT !.phase = "publishing_stopped", !.result = result]
  PROVE  Healthy(t, frames, events, written, size, Came(t, came), finished, ended)
PROOF
  <1> DEFINE p == Pushed(written, frames)
  <1>1. s \in Run /\ RunOK(s) /\ Fits(s, size, came, p) /\ events = <<>>
    BY DEF Healthy, RunOK, EventsOK
  <1>2. /\ t \in Run
        /\ t.phase = "publishing_stopped" /\ t.staged = s.staged /\ t.buffer = s.buffer
        /\ t.then = s.then /\ t.result = result
    BY <1>1 DEF Run, Phases
  <1>3. RunOK(t)
    BY <1>1, <1>2 DEF RunOK, Live, Early
  <1>4. Fits(t, size, came, p)
    BY <1>1, <1>2 DEF Fits, Live, Early
  <1>5. ~finished /\ ~ended /\ Came(t, came) = came
    BY <1>2, NothingTold DEF Came
  <1>6. EventsOK(t.phase, events) /\ LoopOK(t, frames, events, size, came, p, finished, ended)
    BY <1>1, <1>2, <1>5 DEF EventsOK, LoopOK
  <1>7. QED
    BY <1>2, <1>3, <1>4, <1>5, <1>6 DEF Healthy, Early

LEMMA StoppedHealthy ==
  ASSUME NEW s, NEW frames, NEW events, NEW written, NEW size, NEW came, NEW finished, NEW ended,
         Healthy(s, frames, events, written, size, came, finished, ended),
         s.phase = "publishing_stopped",
         NEW t, t = [NoRun EXCEPT !.phase = "stopped"]
  PROVE  Healthy(t, frames, Append(events, s.result), written, size, Came(t, came),
                 finished, ended)
PROOF
  <1> DEFINE p == Pushed(written, frames)
  <1>1. s.result \in Results /\ Fits(s, size, came, p) /\ events = <<>>
    BY DEF Healthy, RunOK, Run, EventsOK
  <1>2. t \in Run /\ t.phase = "stopped" /\ t.staged = <<>> /\ t.buffer = <<>>
    <2>1. NoRun \in Run
      BY DEF NoRun, Run, Phases
    <2>2. QED
      BY <2>1 DEF NoRun, Run, Phases
  <1>3. RunOK(t)
    BY <1>2, RunnerAssumption DEF RunOK, Live, Early, RunnerAssumption
  <1>4. Fits(t, size, came, p) /\ Came(t, came) = came
    BY <1>2 DEF Fits, Live, Early, Came
  <1>5. ~finished /\ ~ended
    BY NothingTold
  <1>6. Append(events, s.result) = <<s.result>>
    BY <1>1
  <1>7. <<s.result>> = <<"Finished">> => s.result = "Finished"
    OBVIOUS
  <1>8. s.result = "Finished" => Delivered(size, came, p)
    BY <1>1 DEF Fits
  <1>9. LoopOK(t, frames, <<s.result>>, size, came, p, finished, ended)
    BY <1>2, <1>5, <1>7, <1>8 DEF LoopOK
  <1>10. EventsOK(t.phase, <<s.result>>)
    BY <1>1, <1>2 DEF EventsOK
  <1>11. QED
    BY <1>2, <1>3, <1>4, <1>6, <1>9, <1>10 DEF Healthy, Early

-----------------------------------------------------------------------------
(* A step of the loop keeps the runner healthy. *)

\* An event that the loop finds first: `Started` of a runner that waits for the
\* file, any other the last word of the runner.
LEMMA FirstEvent ==
  ASSUME NEW s, NEW frames, NEW events, NEW written, NEW size, NEW came, NEW finished, NEW ended,
         Healthy(s, frames, events, written, size, came, finished, ended),
         events # <<>>
  PROVE  /\ events = <<Head(events)>> /\ Tail(events) = <<>>
         /\ IF Head(events) = "Started" THEN s.phase = "preparing" ELSE s.phase = "stopped"
PROOF
  <1>1. "Started" \notin Results
    BY RunnerAssumption DEF Results, RunnerAssumption
  <1>2. CASE s.phase = "preparing"
    <2>1. events = <<"Started">>
      BY <1>2 DEF Healthy, EventsOK
    <2>2. Head(events) = "Started" /\ Tail(events) = <<>>
      BY <2>1
    <2>3. QED
      BY <1>2, <2>1, <2>2
  <1>3. CASE s.phase = "stopped"
    <2>1. PICK result \in Results : events = <<result>>
      BY <1>3 DEF Healthy, EventsOK
    <2>2. Head(events) = result /\ Tail(events) = <<>>
      BY <2>1
    <2>3. QED
      BY <1>1, <1>3, <2>1, <2>2
  <1>4. QED
    BY <1>2, <1>3 DEF Healthy, EventsOK

LEMMA TakeStartedHealthy ==
  ASSUME NEW s, NEW frames, NEW events, NEW written, NEW size, NEW came, NEW finished, NEW ended,
         Healthy(s, frames, events, written, size, came, finished, ended),
         s.phase = "preparing",
         NEW t, t = [s EXCEPT !.phase = "streaming"]
  PROVE  Healthy(t, frames, <<>>, 0, size, came, finished, ended)
PROOF
  <1> DEFINE p == Pushed(written, frames)
  <1>1. /\ RunOK(s) /\ Fits(s, size, came, p) /\ written = 0
        /\ frames \in Seq(Seq(Nat) \ {<<>>}) /\ FramesOK(written, frames)
    BY DEF Healthy, Early
  <1>2. RunOK(t) /\ t.phase = "streaming" /\ Fits(t, size, came, p)
    BY <1>1, EarlyKeeps DEF Early, Live
  <1>3. ~finished /\ ~ended
    BY NothingTold
  <1>4. EventsOK(t.phase, <<>>) /\ LoopOK(t, frames, <<>>, size, came, p, finished, ended)
    <2>1. <<>> # <<"Finished">>
      OBVIOUS
    <2>2. QED
      BY <1>2, <1>3, <2>1 DEF EventsOK, LoopOK
  <1>5. QED
    BY <1>1, <1>2, <1>4 DEF Healthy, Early

\* `Finished` is noted.
LEMMA TakeFinishedHealthy ==
  ASSUME NEW s, NEW frames, NEW events, NEW written, NEW size, NEW came, NEW finished, NEW ended,
         Healthy(s, frames, events, written, size, came, finished, ended),
         events # <<>>, Head(events) = "Finished"
  PROVE  /\ Healthy(s, frames, <<>>, written, size, came, TRUE, ended)
         /\ Delivered(size, came, Pushed(written, frames))
PROOF
  <1>1. events = <<"Finished">> /\ s.phase = "stopped"
    BY FirstEvent
  <1>2. Delivered(size, came, Pushed(written, frames))
    BY <1>1 DEF Healthy, LoopOK
  <1>3. LoopOK(s, frames, <<>>, size, came, Pushed(written, frames), TRUE, ended)
    BY <1>1, <1>2 DEF Healthy, LoopOK
  <1>4. EventsOK(s.phase, <<>>)
    BY <1>1 DEF EventsOK
  <1>5. QED
    BY <1>1, <1>2, <1>3, <1>4 DEF Healthy, Early

\* The end of the data is noted.
LEMMA DataEndsHealthy ==
  ASSUME NEW s, NEW frames, NEW events, NEW written, NEW size, NEW came, NEW finished, NEW ended,
         Healthy(s, frames, events, written, size, came, finished, ended),
         frames = <<>>, s.phase = "stopped"
  PROVE  Healthy(s, frames, events, written, size, came, finished, TRUE)
PROOF
  BY DEF Healthy, LoopOK

\* The first frame goes to the end of the file.
LEMMA TakeFrameHealthy ==
  ASSUME NEW s, NEW frames, NEW events, NEW written \in Nat, NEW size, NEW came, NEW finished,
         Healthy(s, frames, events, written, size, came, finished, FALSE),
         frames # <<>>
  PROVE  /\ Head(frames) \in Seq(Nat) /\ InOrder(Head(frames), written)
         /\ Healthy(s, Tail(frames), events, written + Len(Head(frames)), size, came,
                    finished, FALSE)
PROOF
  <1> DEFINE q == Tail(frames)
             next == written + Len(Head(frames))
  <1>1. frames \in Seq(Seq(Nat) \ {<<>>}) /\ FramesOK(written, frames) /\ s.phase \notin Early
    BY DEF Healthy
  <1>2. /\ InOrder(Head(frames), written) /\ FramesOK(next, q)
        /\ Pushed(next, q) = Pushed(written, frames)
    BY <1>1, TakeFrameOrder
  <1>3. q \in Seq(Seq(Nat) \ {<<>>}) /\ Head(frames) \in Seq(Nat)
    BY <1>1
  <1> HIDE DEF q, next
  <1>4. LoopOK(s, q, events, size, came, Pushed(next, q), finished, FALSE)
    BY <1>2 DEF Healthy, LoopOK
  <1>5. Healthy(s, q, events, next, size, came, finished, FALSE)
    BY <1>1, <1>2, <1>3, <1>4 DEF Healthy
  <1>6. QED
    BY <1>2, <1>3, <1>5 DEF q, next

\* What is appended in order to what is in order.
LEMMA AppendInOrder ==
  ASSUME NEW p \in Seq(Nat), NEW q \in Seq(Nat), InOrder(p, 0), InOrder(q, Len(p))
  PROVE  p \o q \in Seq(Nat) /\ InOrder(p \o q, 0) /\ Len(p \o q) = Len(p) + Len(q)
PROOF
  <1> DEFINE all == p \o q
  <1>1. /\ all \in Seq(Nat) /\ Len(all) = Len(p) + Len(q)
        /\ \A i \in 1..(Len(p) + Len(q)) :
             all[i] = IF i <= Len(p) THEN p[i] ELSE q[i - Len(p)]
    BY Concatenation
  <1> HIDE DEF all
  <1>2. Len(p) \in Nat /\ Len(q) \in Nat
    OBVIOUS
  <1>3. ASSUME NEW i \in 1..(Len(p) + Len(q))
        PROVE  all[i] = 0 + i - 1
    <2>1. CASE i <= Len(p)
      <3>1. i \in 1..Len(p)
        BY <1>2, <2>1
      <3>2. p[i] = 0 + i - 1
        BY <3>1 DEF InOrder
      <3>3. all[i] = p[i]
        BY <1>1, <2>1
      <3>4. QED
        BY <3>2, <3>3
    <2>2. CASE i > Len(p)
      <3>1. i - Len(p) \in 1..Len(q)
        BY <1>2, <2>2
      <3>2. q[i - Len(p)] = Len(p) + (i - Len(p)) - 1
        BY <3>1 DEF InOrder
      <3>3. QED
        <4>1. all[i] = q[i - Len(p)]
          BY <1>1, <1>2, <2>2
        <4>2. Len(p) + (i - Len(p)) - 1 = 0 + i - 1
          BY <1>2
        <4>3. QED
          BY <3>2, <4>1, <4>2
    <2>3. QED
      BY <1>2, <2>1, <2>2
  <1>4. QED
    BY <1>1, <1>3 DEF InOrder, all

\* A part of a frame is in order too.
LEMMA PartInOrder ==
  ASSUME NEW q \in Seq(Nat), NEW position \in Nat, InOrder(q, position), NEW n \in 0..(Len(q) - 1)
  PROVE  SubSeq(q, 1, n) \in Seq(Nat) /\ InOrder(SubSeq(q, 1, n), position)
PROOF
  <1> DEFINE part == SubSeq(q, 1, n)
  <1>1. part \in Seq(Nat) /\ Len(part) = n /\ \A i \in 1..n : part[i] = q[i]
    OBVIOUS
  <1> HIDE DEF part
  <1>2. QED
    BY <1>1 DEF InOrder, part

-----------------------------------------------------------------------------
(* The inductive invariant. *)

LEMMA OnlyIsRunner == Only \in Runners
PROOF
  <1>1. Cardinality({}) = 0
    BY FS_EmptySet
  <1>2. Runners # {}
    BY <1>1, SingletonAssumption DEF SingletonAssumption
  <1>3. QED
    BY <1>2 DEF Only

\* The steps that the runner takes by itself.
Driven ==
  \/ RunnerSteps \/ RunnerTimers \/ RunnerFaultSteps \/ ReadsItem(Only)

LEMMA DrivenHealthy ==
  ASSUME SingletonInv, Running, Driven
  PROVE  /\ DOMAIN run' = Runners /\ DOMAIN data' = Runners /\ DOMAIN lifecycle' = Runners
         /\ receiving' = receiving
         /\ Healthy(run'[Only], data'[Only], lifecycle'[Only], Len(content), total,
                    Came(run'[Only], yielded), runnerStopped, dataDone)
PROOF
  <1> DEFINE s == run[Only]
             w == Len(content)
             H(t, q, e) == Healthy(t, q, e, w, total, Came(t, yielded), runnerStopped, dataDone)
             Goal == /\ DOMAIN run' = Runners /\ DOMAIN data' = Runners
                     /\ DOMAIN lifecycle' = Runners /\ receiving' = receiving
                     /\ H(run'[Only], data'[Only], lifecycle'[Only])
  <1>1. /\ DOMAIN run = Runners /\ DOMAIN data = Runners /\ DOMAIN lifecycle = Runners
        /\ DOMAIN receiving = Runners /\ Only \in Runners
        /\ w \in Nat /\ yielded \in Nat
    BY OnlyIsRunner DEF SingletonInv, Domains
  <1>2. /\ receiving[Only] = TRUE
        /\ Healthy(s, data[Only], lifecycle[Only], w, total, yielded, runnerStopped, dataDone)
    BY DEF SingletonInv, RunnerHealthy
  <1>3. ASSUME NEW t, Becomes(Only, t), H(t, data[Only], lifecycle[Only])
        PROVE  Goal
    BY <1>1, <1>3 DEF Becomes
  <1> SUFFICES Goal
    OBVIOUS
  <1> HIDE DEF s, w, H, Goal
  <1>4. ASSUME NEW result \in Results, result # "Finished", s.phase \in {"connecting", "streaming"},
               Becomes(Only, BeginStop(result))
        PROVE  Goal
    BY <1>2, <1>3, <1>4, StopHealthy DEF H
  <1>5. ASSUME NEW then \in Stops, Reading(Only), Becomes(Only, Flush(s, then))
        PROVE  Goal
    <2>1. s.phase = "streaming" /\ s.staged = <<>>
      BY <1>5 DEF Reading, Emitting, s
    <2>2. H(Flush(s, then), data[Only], lifecycle[Only])
      BY <1>1, <1>2, <2>1, FlushHealthy DEF H
    <2>3. QED
      BY <1>3, <1>5, <2>2
  <1>6. ASSUME NEW result \in Results \cup {"None"}, result # "None",
               result = "Finished" => result = s.result, StopsDraining(Only, result)
        PROVE  Goal
    <2> DEFINE t == [s EXCEPT !.phase = "publishing_stopped", !.result = result]
    <2>1. s.phase = "draining" /\ Becomes(Only, t)
      BY <1>6 DEF StopsDraining, s
    <2> HIDE DEF t
    <2>2. H(t, data[Only], lifecycle[Only])
      BY <1>2, <1>6, <2>1, DrainedHealthy DEF H, t
    <2>3. QED
      BY <1>3, <2>1, <2>2
  <1>7. {"Cancelled", "Timeout"} \subseteq Results /\ StreamErrors \subseteq Results \ {"Finished"}
    BY RunnerAssumption DEF Results, RunnerAssumption
  <1>8. CASE Connected(Only)
    <2> DEFINE t == [s EXCEPT !.phase = "publishing_started"]
    <2>1. s.phase = "connecting" /\ Becomes(Only, t)
      BY <1>8 DEF Connected, s
    <2> HIDE DEF t
    <2>2. H(t, data[Only], lifecycle[Only])
      BY <1>2, <2>1, ConnectedHealthy DEF H, t
    <2>3. QED
      BY <1>3, <2>1, <2>2
  <1>9. CASE SeesCancel(Only)
    BY <1>4, <1>7, <1>9 DEF SeesCancel, s
  <1>10. CASE StreamEnds(Only) \/ StreamEndsShort(Only)
    BY <1>5, <1>10 DEF StreamEnds, StreamEndsShort, Stops, s
  <1>11. CASE Emitted(Only)
    <2> DEFINE u == [s EXCEPT !.downloaded = @ + Len(s.staged), !.staged = <<>>,
                              !.then = "None", !.deferred = "None"]
               t == ResumeAfterEmit(u, s.then, s.deferred)
    <2>1. /\ s.phase = "streaming" /\ s.staged # <<>>
          /\ data' = [data EXCEPT ![Only] = Append(@, s.staged)]
          /\ run' = [run EXCEPT ![Only] = t]
          /\ UNCHANGED <<lifecycle, receiving>>
      BY <1>11 DEF Emitted, Emitting, s
    <2>2. H(t, Append(data[Only], s.staged), lifecycle[Only])
      BY <1>1, <1>2, <2>1, EmittedHealthy DEF H
    <2> HIDE DEF t
    <2>3. QED
      BY <1>1, <2>1, <2>2 DEF Goal
  <1>12. CASE Drained(Only)
    <2>1. s.phase = "draining" /\ StopsDraining(Only, s.result)
      BY <1>12 DEF Drained, StopsDraining, s
    <2>2. s.result \in Results \cup {"None"} /\ s.result # "None"
      BY <1>2, <2>1 DEF Healthy, RunOK, Run
    <2>3. QED
      BY <1>6, <2>1, <2>2
  <1>13. CASE DrainCancelled(Only) \/ DrainTimeout(Only)
    BY <1>6, <1>7, <1>13 DEF DrainCancelled, DrainTimeout
  <1>14. CASE PublishStopped(Only)
    <2> DEFINE t == [NoRun EXCEPT !.phase = "stopped"]
    <2>1. /\ s.phase = "publishing_stopped"
          /\ run' = [run EXCEPT ![Only] = t]
          /\ lifecycle' = [lifecycle EXCEPT ![Only] = Append(@, s.result)]
          /\ UNCHANGED <<data, receiving>>
      BY <1>2, <1>14 DEF PublishStopped, s
    <2>2. H(t, data[Only], Append(lifecycle[Only], s.result))
      BY <1>2, <2>1, StoppedHealthy DEF H
    <2> HIDE DEF t
    <2>3. QED
      BY <1>1, <2>1, <2>2 DEF Goal
  <1>15. CASE ConnectTimeout(Only)
    BY <1>4, <1>7, <1>15 DEF ConnectTimeout, s
  <1>16. CASE ConnectFails(Only)
    BY <1>4, <1>7, <1>16 DEF ConnectFails, s
  <1>17. CASE IdleTimeout(Only)
    BY <1>5, <1>17 DEF IdleTimeout, Stops, s
  <1>18. CASE StreamFails(Only)
    BY <1>5, <1>18 DEF StreamFails, Stops, s
  <1>19. CASE ReadsItem(Only)
    <2>1. PICK size \in ItemSizes :
            LET n == Smaller(size, s.until - s.read)
                item == [i \in 1..n |-> s.read + i - 1]
            IN  /\ Reading(Only)
                /\ Becomes(Only, BufferItem([s EXCEPT !.item = item, !.read = @ + n]))
      BY <1>19 DEF ReadsItem, s
    <2> DEFINE n == Smaller(size, s.until - s.read)
               u == [s EXCEPT !.item = [i \in 1..n |-> s.read + i - 1], !.read = @ + n]
    <2>2. s.phase = "streaming" /\ s.staged = <<>>
      BY <2>1 DEF Reading, Emitting, s
    <2>3. s.until \in Nat /\ s.read \in Nat /\ s.read <= s.until
      BY <1>2, <2>2 DEF Healthy, RunOK, Run, Live
    <2>4. n \in Nat /\ s.read + n <= s.until
      BY <2>3, RunnerAssumption DEF Smaller, RunnerAssumption
    <2>5. Becomes(Only, BufferItem(u))
      BY <2>1
    <2> HIDE DEF n
    <2>6. H(BufferItem(u), data[Only], lifecycle[Only])
      BY <1>1, <1>2, <2>2, <2>4, ReadsItemHealthy DEF H
    <2> HIDE DEF u
    <2>7. QED
      BY <1>3, <2>5, <2>6
  <1>20. QED
    BY <1>8, <1>9, <1>10, <1>11, <1>12, <1>13, <1>14, <1>15, <1>16, <1>17, <1>18, <1>19
    DEF Driven, RunnerSteps, RunnerTimers, RunnerFaultSteps

LEMMA DrivesInv ==
  ASSUME SingletonInv, Running, Driven,
         yielded' = IF run'[Only].phase = "streaming" THEN run'[Only].read ELSE yielded,
         UNCHANGED loopVars
  PROVE  SingletonInv'
PROOF
  <1>1. /\ DOMAIN run' = Runners /\ DOMAIN data' = Runners /\ DOMAIN lifecycle' = Runners
        /\ receiving' = receiving
        /\ Healthy(run'[Only], data'[Only], lifecycle'[Only], Len(content), total,
                   Came(run'[Only], yielded), runnerStopped, dataDone)
    BY DrivenHealthy
  <1>2. yielded' = Came(run'[Only], yielded)
    BY DEF Came
  <1>3. yielded' \in Nat
    <2>1. run'[Only].read \in Nat
      BY <1>1 DEF Healthy, RunOK, Run
    <2>2. QED
      BY <1>2, <2>1 DEF Came, SingletonInv, Domains
  <1>4. Domains'
    BY <1>1, <1>3 DEF SingletonInv, Domains, loopVars
  <1>5. InOrder(content, 0)' /\ SuccessIsBody'
    BY DEF SingletonInv, InOrder, SuccessIsBody, Running, loopVars
  <1>6. RunnerHealthy'
    BY <1>1, <1>2 DEF SingletonInv, RunnerHealthy, Running, loopVars
  <1>7. QED
    BY <1>4, <1>5, <1>6 DEF SingletonInv

\* A step of the loop after which the task goes on.
LEMMA GoesOnInv ==
  ASSUME SingletonInv, Running, outcome' = outcome,
         DOMAIN run' = Runners, DOMAIN data' = Runners, DOMAIN lifecycle' = Runners,
         receiving' = receiving, total' = total, yielded' = yielded,
         dataDone' \in BOOLEAN, runnerStopped' \in BOOLEAN,
         content' \in Seq(Nat), InOrder(content', 0),
         Healthy(run'[Only], data'[Only], lifecycle'[Only], Len(content'), total, yielded,
                 runnerStopped', dataDone')
  PROVE  SingletonInv'
PROOF
  <1>1. Domains'
    BY DEF SingletonInv, Domains
  <1>2. SuccessIsBody'
    BY DEF SuccessIsBody, Running
  <1>3. RunnerHealthy'
    BY DEF SingletonInv, RunnerHealthy
  <1>4. InOrder(content, 0)'
    BY DEF InOrder
  <1>5. QED
    BY <1>1, <1>2, <1>3, <1>4 DEF SingletonInv

\* The content of a file in order is the beginning of the body.
LEMMA InOrderIsPrefix ==
  ASSUME NEW q \in Seq(Nat), InOrder(q, 0)
  PROVE  q = Prefix(Len(q))
PROOF
  BY DEF InOrder, Prefix

\* A step of the loop with which the task returns.
LEMMA ReturnsInv ==
  ASSUME SingletonInv, NEW result \in Results \cup {"Io", "Ok"}, Returns(result),
         DOMAIN lifecycle' = Runners, total' = total, yielded' = yielded,
         dataDone' \in BOOLEAN, runnerStopped' \in BOOLEAN,
         content' \in Seq(Nat), InOrder(content', 0),
         result = "Ok" => Delivered(total, yielded, Len(content'))
  PROVE  SingletonInv'
PROOF
  <1>1. outcome' \in Results \cup {"Io", "Ok"} /\ (outcome' = "Ok" => result = "Ok")
    BY DEF Returns
  <1>2. outcome' # "running"
    BY <1>1, RunnerAssumption DEF Results, RunnerAssumption
  <1>3. DOMAIN run' = Runners /\ DOMAIN data' = Runners /\ DOMAIN receiving' = Runners
    BY DEF Returns, SingletonInv, Domains
  <1>4. Domains'
    BY <1>3 DEF SingletonInv, Domains
  <1>5. RunnerHealthy' /\ InOrder(content, 0)'
    BY <1>2 DEF RunnerHealthy, Running, InOrder
  <1>6. SuccessIsBody'
    <2>1. content' = Prefix(Len(content'))
      BY InOrderIsPrefix
    <2>2. ASSUME outcome' = "Ok"
          PROVE  IF total = NoTotal THEN content' # <<>> /\ Len(content') = yielded
                                    ELSE Len(content') = total
      <3>1. Delivered(total, yielded, Len(content'))
        BY <1>1, <2>2
      <3>2. Len(content') > 0 => content' # <<>>
        OBVIOUS
      <3>3. QED
        BY <3>1, <3>2 DEF Delivered
    <2>3. QED
      BY <2>1, <2>2 DEF SuccessIsBody, Prefix
  <1>7. QED
    BY <1>4, <1>5, <1>6 DEF SingletonInv

LEMMA SingletonInitInv == SingletonInit => SingletonInv
PROOF
  <1> SUFFICES ASSUME SingletonInit
               PROVE  SingletonInv
    OBVIOUS
  <1>1. PICK body \in Bodies :
          run = [r \in Runners |-> [NoRun EXCEPT !.phase = "connecting", !.until = body,
                                                 !.total = total]]
    BY DEF SingletonInit
  <1>2. Only \in Runners /\ body \in Nat /\ total \in (Nat \ {0}) \cup {NoTotal}
    BY OnlyIsRunner, SingletonAssumption DEF SingletonAssumption, SingletonInit
  <1> DEFINE s == [NoRun EXCEPT !.phase = "connecting", !.until = body, !.total = total]
  <1>3. run[Only] = s /\ data[Only] = <<>> /\ lifecycle[Only] = <<>> /\ receiving[Only] = TRUE
    BY <1>1, <1>2 DEF SingletonInit
  <1>4. s \in Run
    <2>1. NoRun \in Run
      BY DEF NoRun, Run, Phases
    <2>2. "connecting" \in Phases /\ total \in Nat \cup {NoTotal}
      BY <1>2 DEF Phases
    <2>3. QED
      BY <1>2, <2>1, <2>2 DEF Run
  <1>5. /\ s.phase = "connecting" /\ s.until = body /\ s.total = total /\ s.read = 0
        /\ s.downloaded = 0 /\ s.buffer = <<>> /\ s.item = <<>> /\ s.staged = <<>>
    BY DEF NoRun
  <1> HIDE DEF s
  <1>6. RunOK(s)
    BY <1>2, <1>4, <1>5, RunnerAssumption DEF RunOK, RunnerAssumption
  <1>7. Pushed(0, <<>>) = 0 /\ <<>> \in Seq(Seq(Nat) \ {<<>>}) /\ FramesOK(0, <<>>)
    BY DEF Pushed, From, FramesOK
  <1>8. Holds(s, 0)
    BY <1>5 DEF Holds, InOrder
  <1>9. Fits(s, total, 0, 0)
    BY <1>5, <1>8 DEF Fits, LastFrame
  <1>10. EventsOK(s.phase, <<>>) /\ LoopOK(s, <<>>, <<>>, total, 0, 0, FALSE, FALSE)
    <2>1. <<>> # <<"Finished">>
      OBVIOUS
    <2>2. QED
      BY <1>5, <2>1 DEF EventsOK, LoopOK
  <1>11. Healthy(s, <<>>, <<>>, 0, total, 0, FALSE, FALSE)
    BY <1>5, <1>6, <1>7, <1>9, <1>10 DEF Healthy
  <1>12. content = <<>> /\ Len(content) = 0 /\ yielded = 0 /\ dataDone = FALSE
         /\ runnerStopped = FALSE /\ outcome = "running"
    BY DEF SingletonInit
  <1>13. Domains
    <2>1. /\ DOMAIN run = Runners /\ DOMAIN data = Runners /\ DOMAIN lifecycle = Runners
          /\ DOMAIN receiving = Runners
      BY <1>1 DEF SingletonInit
    <2>2. content \in Seq(Nat) /\ yielded \in Nat
      BY <1>12
    <2>3. QED
      BY <1>2, <1>12, <2>1, <2>2 DEF Domains
  <1>14. InOrder(content, 0) /\ SuccessIsBody
    BY <1>12 DEF InOrder, SuccessIsBody
  <1>15. RunnerHealthy
    BY <1>3, <1>11, <1>12 DEF RunnerHealthy
  <1>16. QED
    BY <1>13, <1>14, <1>15 DEF SingletonInv

LEMMA SingletonStepInv == SingletonInv /\ [SingletonNext]_singletonVars => SingletonInv'
PROOF
  <1> SUFFICES ASSUME SingletonInv, [SingletonNext]_singletonVars
               PROVE  SingletonInv'
    OBVIOUS
  <1> DEFINE s == run[Only]
             w == Len(content)
  <1>1. /\ DOMAIN run = Runners /\ DOMAIN data = Runners /\ DOMAIN lifecycle = Runners
        /\ Only \in Runners /\ content \in Seq(Nat) /\ w \in Nat /\ InOrder(content, 0)
        /\ dataDone \in BOOLEAN /\ runnerStopped \in BOOLEAN
    BY OnlyIsRunner DEF SingletonInv, Domains
  <1>2. ASSUME Running
        PROVE  Healthy(s, data[Only], lifecycle[Only], w, total, yielded, runnerStopped, dataDone)
    BY <1>2 DEF SingletonInv, RunnerHealthy
  <1>3. ASSUME Running, TakesFrame
        PROVE  /\ Head(data[Only]) \in Seq(Nat) /\ InOrder(Head(data[Only]), w)
               /\ Healthy(s, Tail(data[Only]), lifecycle[Only], w + Len(Head(data[Only])), total,
                          yielded, runnerStopped, FALSE)
    <2>1. dataDone = FALSE /\ data[Only] # <<>>
      BY <1>1, <1>3 DEF TakesFrame
    <2>2. Healthy(s, data[Only], lifecycle[Only], w, total, yielded, runnerStopped, FALSE)
      BY <1>2, <1>3, <2>1
    <2> HIDE DEF s, w
    <2>3. QED
      BY <1>1, <2>1, <2>2, TakeFrameHealthy
  <1>4. CASE Drives(RunnerSteps) \/ Drives(RunnerTimers) \/ Drives(RunnerFaultSteps) \/ ReadsBody
    BY <1>4, DrivesInv DEF Drives, ReadsBody, Driven
  <1>5. CASE PublishesStarted
    <2> DEFINE t == [s EXCEPT !.phase = "preparing"]
    <2>1. /\ Running /\ s.phase = "publishing_started"
          /\ run' = [run EXCEPT ![Only] = t]
          /\ lifecycle' = [lifecycle EXCEPT ![Only] = Append(@, "Started")]
          /\ UNCHANGED <<data, receiving, loopVars, yielded>>
      BY <1>5 DEF PublishesStarted
    <2>2. Healthy(t, data[Only], Append(lifecycle[Only], "Started"), w, total, yielded,
                  runnerStopped, dataDone)
      BY <1>2, <2>1, StartedHealthy
    <2> HIDE DEF t
    <2>3. /\ DOMAIN run' = Runners /\ DOMAIN lifecycle' = Runners
          /\ run'[Only] = t /\ lifecycle'[Only] = Append(lifecycle[Only], "Started")
      BY <1>1, <2>1
    <2>4. QED
      BY <1>1, <2>1, <2>2, <2>3, GoesOnInv DEF loopVars
  <1>6. CASE HandleStarted
    <2> DEFINE t == [s EXCEPT !.phase = "streaming"]
    <2>1. /\ Running /\ lifecycle[Only] # <<>> /\ Head(lifecycle[Only]) = "Started"
          /\ lifecycle' = [lifecycle EXCEPT ![Only] = Tail(@)]
          /\ content' = <<>>
          /\ run' = [run EXCEPT ![Only].phase = IF @ = "preparing" THEN "streaming" ELSE @]
          /\ UNCHANGED <<data, receiving, total, dataDone, runnerStopped, outcome, yielded>>
      BY <1>6 DEF HandleStarted, TakesEvent
    <2>2. s.phase = "preparing" /\ Tail(lifecycle[Only]) = <<>>
      BY <1>2, <2>1, FirstEvent
    <2>3. Healthy(t, data[Only], <<>>, 0, total, yielded, runnerStopped, dataDone)
      BY <1>2, <2>1, <2>2, TakeStartedHealthy
    <2>4. run' = [run EXCEPT ![Only] = t]
      BY <1>1, <2>1, <2>2
    <2> HIDE DEF t
    <2>5. /\ DOMAIN run' = Runners /\ DOMAIN lifecycle' = Runners
          /\ run'[Only] = t /\ lifecycle'[Only] = <<>>
      BY <1>1, <2>1, <2>2, <2>4
    <2>6. content' \in Seq(Nat) /\ Len(content') = 0 /\ InOrder(content', 0)
      BY <2>1 DEF InOrder
    <2>7. QED
      BY <1>1, <2>1, <2>3, <2>5, <2>6, GoesOnInv
  <1>7. CASE HandleFailed
    <2>1. PICK reason \in Results \ {"Finished"} :
            /\ TakesEvent(reason) /\ Returns(reason)
            /\ UNCHANGED <<mailbox, total, content, downloaded, dataDone, runnerStopped, yielded>>
      BY <1>7 DEF HandleFailed
    <2>2. reason # "Ok" /\ DOMAIN lifecycle' = Runners
      BY <1>1, <2>1, RunnerAssumption DEF Results, RunnerAssumption, TakesEvent
    <2>3. QED
      BY <1>1, <2>1, <2>2, ReturnsInv
  <1>8. CASE HandleFinished
    <2>1. /\ Running /\ lifecycle[Only] # <<>> /\ Head(lifecycle[Only]) = "Finished"
          /\ lifecycle' = [lifecycle EXCEPT ![Only] = Tail(@)]
          /\ runnerStopped' = TRUE
          /\ UNCHANGED <<total, content, dataDone, yielded>>
      BY <1>8 DEF HandleFinished, TakesEvent
    <2>2. /\ Healthy(s, data[Only], <<>>, w, total, yielded, TRUE, dataDone)
          /\ Delivered(total, yielded, Pushed(w, data[Only]))
      BY <1>2, <2>1, TakeFinishedHealthy
    <2>3. Tail(lifecycle[Only]) = <<>>
      BY <1>2, <2>1, FirstEvent
    <2>4. DOMAIN lifecycle' = Runners /\ lifecycle'[Only] = <<>>
      BY <1>1, <2>1, <2>3
    <2>5. CASE dataDone
      <3>1. Returns("Ok")
        BY <1>8, <2>5 DEF HandleFinished
      <3>2. data[Only] = <<>>
        BY <2>2, <2>5 DEF Healthy, LoopOK
      <3>3. Pushed(w, <<>>) = w
        BY DEF Pushed, From
      <3>4. Delivered(total, yielded, Len(content'))
        BY <2>1, <2>2, <3>2, <3>3
      <3>5. QED
        BY <1>1, <2>1, <2>4, <3>1, <3>4, ReturnsInv
    <2>6. CASE ~dataDone
      <3>1. UNCHANGED <<run, data, receiving, outcome>>
        BY <1>8, <2>6 DEF HandleFinished
      <3>2. QED
        BY <1>1, <2>1, <2>2, <2>4, <3>1, GoesOnInv
    <2>7. QED
      BY <2>5, <2>6
  <1>9. CASE HandleDataFrame
    <2> DEFINE f == Head(data[Only])
    <2>1. /\ Running /\ TakesFrame /\ content' = content \o f
          /\ data' = [data EXCEPT ![Only] = Tail(@)]
          /\ dataDone = FALSE
          /\ UNCHANGED <<run, lifecycle, receiving, total, dataDone, runnerStopped, outcome, yielded>>
      BY <1>1, <1>9 DEF HandleDataFrame, TakesFrame
    <2>2. /\ f \in Seq(Nat) /\ InOrder(f, w)
          /\ Healthy(s, Tail(data[Only]), lifecycle[Only], w + Len(f), total, yielded,
                     runnerStopped, FALSE)
      BY <1>3, <2>1
    <2> HIDE DEF f
    <2>3. content' \in Seq(Nat) /\ InOrder(content', 0) /\ Len(content') = w + Len(f)
      BY <1>1, <2>1, <2>2, AppendInOrder
    <2>4. DOMAIN data' = Runners /\ data'[Only] = Tail(data[Only])
      BY <1>1, <2>1
    <2>5. QED
      BY <1>1, <2>1, <2>2, <2>3, <2>4, GoesOnInv
  <1>10. CASE DataEnds
    <2>1. /\ Running /\ data[Only] = <<>> /\ s.phase = "stopped" /\ dataDone' = TRUE
          /\ UNCHANGED <<lifecycle, total, content, runnerStopped, yielded>>
      BY <1>10 DEF DataEnds
    <2>2. CASE runnerStopped
      <3>1. Returns("Ok")
        BY <1>10, <2>2 DEF DataEnds
      <3>2. Delivered(total, yielded, Pushed(w, data[Only]))
        BY <1>2, <2>1, <2>2 DEF Healthy, LoopOK
      <3>3. Pushed(w, <<>>) = w
        BY DEF Pushed, From
      <3>4. Delivered(total, yielded, Len(content'))
        BY <2>1, <3>2, <3>3
      <3>5. QED
        BY <1>1, <2>1, <3>1, <3>4, ReturnsInv
    <2>3. CASE ~runnerStopped
      <3>1. UNCHANGED <<run, data, receiving, outcome>>
        BY <1>10, <2>3 DEF DataEnds
      <3>2. Healthy(s, data[Only], lifecycle[Only], w, total, yielded, runnerStopped, TRUE)
        BY <1>2, <2>1, DataEndsHealthy
      <3>3. QED
        BY <1>1, <2>1, <3>1, <3>2, GoesOnInv
    <2>4. QED
      BY <2>2, <2>3
  <1>11. CASE CreateFails
    <2>1. /\ Returns("Io") /\ DOMAIN lifecycle' = Runners
          /\ UNCHANGED <<total, content, dataDone, runnerStopped, yielded>>
      BY <1>1, <1>11 DEF CreateFails, TakesEvent
    <2>2. QED
      BY <1>1, <2>1, ReturnsInv
  <1>12. CASE WriteFails
    <2> DEFINE f == Head(data[Only])
    <2>1. /\ Running /\ TakesFrame /\ Returns("Io")
          /\ UNCHANGED <<lifecycle, total, dataDone, runnerStopped, yielded>>
      BY <1>12 DEF WriteFails, TakesFrame
    <2>2. PICK n \in 0..(Len(f) - 1) : content' = content \o SubSeq(f, 1, n)
      BY <1>12 DEF WriteFails
    <2>3. f \in Seq(Nat) /\ InOrder(f, w)
      BY <1>3, <2>1
    <2> HIDE DEF f
    <2>4. SubSeq(f, 1, n) \in Seq(Nat) /\ InOrder(SubSeq(f, 1, n), w)
      BY <1>1, <2>3, PartInOrder
    <2>5. content' \in Seq(Nat) /\ InOrder(content', 0)
      BY <1>1, <2>2, <2>4, AppendInOrder
    <2>6. QED
      BY <1>1, <2>1, <2>5, ReturnsInv
  <1>13. CASE Cancel
    <2>1. Running /\ UNCHANGED <<run, data, lifecycle, receiving, loopVars, yielded>>
      BY <1>13 DEF Cancel
    <2>2. QED
      BY <1>1, <1>2, <2>1, GoesOnInv DEF loopVars
  <1>14. CASE UNCHANGED singletonVars
    BY <1>14 DEF SingletonInv, Domains, InOrder, RunnerHealthy, Running, SuccessIsBody,
                 singletonVars, runnerVars, loopVars
  <1>15. QED
    BY <1>4, <1>5, <1>6, <1>7, <1>8, <1>9, <1>10, <1>11, <1>12, <1>13, <1>14
    DEF SingletonNext, Loop

-----------------------------------------------------------------------------
(* Theorems. *)

\* The file, the frames on their way and what the runner holds lie end to end in
\* the body, and `Finished` is reported of all of it.
THEOREM SingletonInvariant == SingletonSpec => []SingletonInv
PROOF
  BY SingletonInitInv, SingletonStepInv, PTL DEF SingletonSpec

\* A transfer over one connection that succeeds leaves the body in the file: as
\* many bytes as the task was told, or all that came.
THEOREM SingletonSuccessIsBody == SingletonSpec => []SuccessIsBody
PROOF
  <1>1. SingletonInv => SuccessIsBody
    BY DEF SingletonInv
  <1>2. QED
    BY <1>1, SingletonInvariant, PTL

\* Whatever becomes of the transfer, the file never holds anything but the
\* beginning of the body: handle_data_frame appends the frames in their order, and
\* a failed write leaves a part of a frame at most.
THEOREM SingletonFileIsPrefix == SingletonSpec => [](content = Prefix(Len(content)))
PROOF
  <1>1. SingletonInv => content = Prefix(Len(content))
    BY InOrderIsPrefix DEF SingletonInv, Domains
  <1>2. QED
    BY <1>1, SingletonInvariant, PTL
=============================================================================
