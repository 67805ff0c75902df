----------------------------- MODULE TaskRunner -----------------------------
(***************************************************************************)
(* The range runners of a concurrent download (runner/run_loop.rs and its  *)
(* phases, runner/control.rs).  A runner connects to the server, reads its *)
(* range as a stream of items, pushes it to the manager in frames of at    *)
(* most BufferSize bytes and reports `Started` and `Stopped`.  Meanwhile   *)
(* the manager may lower the number of bytes the runner is to deliver.     *)
(*                                                                         *)
(* A byte is the offset in the file it was read from, so that a byte       *)
(* that is lost, repeated or written at the wrong place can be seen.       *)
(*                                                                         *)
(* Each phase of poll_step polls its sources in a fixed order.  A source   *)
(* may become ready just after it was polled, so a later one may be taken  *)
(* first: the actions of a phase are enabled whatever the other sources    *)
(* have.  Timers fire at any time.                                         *)
(***************************************************************************)
EXTENDS Integers, Sequences, RunnerIds

CONSTANTS
  BufferSize,    \* BUFFER_SIZE, in bytes
  DataCapacity,  \* DATA_FRAME_CHANNEL_CAPACITY, in frames
  ItemSizes,     \* the sizes of the items a stream yields
  StreamErrors,  \* the kinds of AdapterError the server may cause
  Faults         \* what else may go wrong, of RunnerFaults here

\* Runner timeouts; a stream that ends early; a task dropped by its runtime.
RunnerFaults == {"timeout", "short", "lost"}

ASSUME RunnerAssumption ==
  /\ BufferSize \in Nat \ {0}
  /\ DataCapacity \in Nat \ {0}
  /\ ItemSizes \subseteq Nat
  /\ StreamErrors \subseteq {"Retryable", "Unretryable", "Congestion", "RangeUnsupported"}

VARIABLES
  run,        \* TaskRunner and RunnerLoop: the state of each runner
  data,       \* the frames in each runner's data channel
  lifecycle,  \* the events in each runner's lifecycle channel
  mailbox,    \* the limit a runner has not read yet: {} or {limit}
  receiving,  \* the manager still holds the runner's receivers and mailbox
  cancelled   \* the runners' cancel token

runnerVars == <<run, data, lifecycle, mailbox, receiving, cancelled>>

\* StoppedReason
Results == {"Finished", "Cancelled", "Timeout", "ChannelClosed", "Empty",
            "ExceededTotalSize", "SmallerThanTotalSize"} \cup StreamErrors

Phases == {"none", "connecting", "publishing_started", "preparing", "streaming",
           "draining", "publishing_stopped", "stopped", "lost"}

Continuations == {"ResumeItem", "Validate", "Timeout"} \cup StreamErrors

\* TaskRunner::total of a runner whose size is not known.
NoTotal == -1

\* No runner: none was spawned, or the manager has let go of it.
NoRun == [phase |-> "none",
          until |-> 0,         \* the end of the requested range
          read |-> 0,          \* the next offset the stream yields
          total |-> 0,         \* TaskRunner::total, the limit
          downloaded |-> 0,    \* TaskRunner::downloaded, the bytes pushed
          buffer |-> <<>>,     \* StreamingState::buffer
          item |-> <<>>,       \* the rest of StreamingState::item
          staged |-> <<>>,     \* the frame being emitted
          then |-> "None",     \* the Continuation after it
          deferred |-> "None", \* Emission::deferred
          result |-> "None"]   \* what `Stopped` will report

\* RunnerSpawner::spawn for the range from start up to end.
NewRun(start, end) ==
  [NoRun EXCEPT !.phase = "connecting", !.until = end, !.read = start, !.total = end - start]

RunnerInit ==
  /\ run = [r \in Runners |-> NoRun]
  /\ data = [r \in Runners |-> <<>>]
  /\ lifecycle = [r \in Runners |-> <<>>]
  /\ mailbox = [r \in Runners |-> {}]
  /\ receiving = [r \in Runners |-> FALSE]
  /\ cancelled = FALSE

Smaller(a, b) == IF a <= b THEN a ELSE b

Emitting(s) == s.staged # <<>>

-----------------------------------------------------------------------------
(* The state of a runner after a step, as a function of its state before.  *)

\* Defect: success is reported while frames are still in the channel.
DrainOnError(result) == result \in {"Timeout"} \cup StreamErrors

\* should_wait_data_drain: the delivered bytes count.
ShouldWaitDataDrain(result) ==
  result \in {"Finished", "ExceededTotalSize", "Timeout"} \cup StreamErrors

\* begin_stop: only the result outlives the phase; the connection, the buffer
\* and the item are dropped, and neither the limit nor the count is used again.
BeginStop(result) ==
  [NoRun EXCEPT
     !.phase = IF ShouldWaitDataDrain(result) THEN "draining" ELSE "publishing_stopped",
     !.result = result]

\* Defect: a body that ends early is a whole one.
DefectValidateSize(s) == IF s.downloaded > 0 THEN "Finished" ELSE "Empty"

\* validate_size: without a total any body will do that is not empty.
ValidateSize(s) ==
  CASE s.total = NoTotal -> IF s.downloaded > 0 THEN "Finished" ELSE "Empty"
    [] s.total = s.downloaded -> "Finished"
    [] s.total > s.downloaded -> "SmallerThanTotalSize"
    [] s.total # NoTotal /\ s.total < s.downloaded -> "ExceededTotalSize"

\* What a continuation other than ResumeItem leads to.
StopAfter(s, then) == BeginStop(IF then = "Validate" THEN ValidateSize(s) ELSE then)

\* Defect: the buffer is not emptied.
FlushKeepsBuffer(s, then) ==
  IF s.buffer = <<>>
  THEN StopAfter(s, then)
  ELSE [s EXCEPT !.staged = s.buffer, !.then = then]

\* flush: an empty buffer, which ResumeItem never sees, is not emitted.
Flush(s, then) ==
  IF s.buffer = <<>>
  THEN StopAfter(s, then)
  ELSE [s EXCEPT !.staged = s.buffer, !.buffer = <<>>, !.then = then]

\* allowance: a limit below what was pushed or buffered saturates at 0; without a
\* total there is more than any item needs.
Allowance(s) ==
  LET used == s.downloaded + Len(s.buffer)
  IN  CASE s.total = NoTotal -> Len(s.item) + 1
        [] s.total >= used -> s.total - used
        [] s.total # NoTotal /\ s.total < used -> 0

\* The first n bytes of the item move to the buffer.
Take(s, n) == [s EXCEPT !.buffer = @ \o SubSeq(s.item, 1, n),
                        !.item = SubSeq(s.item, n + 1, Len(s.item))]

\* buffer_item: a full buffer is emitted before the rest of the item is taken;
\* the limit ends the stream.
BufferItem(s) ==
  LET allowed == Allowance(s)
      writable == Smaller(Len(s.item), allowed)
      room == BufferSize - Len(s.buffer)
  IN  CASE allowed = 0 -> Flush(s, "Validate")
        [] allowed > 0 /\ s.item = <<>> -> s
        [] allowed > 0 /\ s.item # <<>> /\ writable > room ->
             Flush(Take(s, room), "ResumeItem")
        [] allowed > 0 /\ s.item # <<>> /\ writable <= room ->
             IF writable = allowed THEN Flush(Take(s, writable), "Validate")
                                   ELSE Take(s, writable)

\* resume_after_emit, once the frame was pushed: an upstream error wins over a
\* control error that came during the push.
ResumeAfterEmit(s, then, deferred) ==
  CASE then \in StreamErrors -> StopAfter(s, then)
    [] then \notin StreamErrors /\ deferred # "None" -> BeginStop(deferred)
    [] deferred = "None" /\ then = "ResumeItem" -> BufferItem(s)
    [] deferred = "None" /\ then \in {"Validate", "Timeout"} -> StopAfter(s, then)

\* A control error waits for the end of a push.
ControlError(s, error) ==
  IF Emitting(s)
  THEN [s EXCEPT !.deferred = IF @ = "None" THEN error ELSE @]
  ELSE BeginStop(error)

\* apply_control: a runner without a total ignores the limit.
ApplyLimit(s, limit) ==
  CASE s.total = NoTotal -> s
    [] limit < s.total -> [s EXCEPT !.total = limit]
    [] s.total # NoTotal /\ limit >= s.total -> ControlError(s, "ExceededTotalSize")

-----------------------------------------------------------------------------
(* The steps of a runner. *)

Reading(r) == run[r].phase = "streaming" /\ ~Emitting(run[r])

\* The runner moves to state s; nothing else changes.
Becomes(r, s) ==
  /\ run' = [run EXCEPT ![r] = s]
  /\ UNCHANGED <<data, lifecycle, mailbox, receiving, cancelled>>

Connected(r) ==
  /\ run[r].phase = "connecting"
  /\ Becomes(r, [run[r] EXCEPT !.phase = "publishing_started"])

ConnectFails(r) == \E e \in StreamErrors :
  run[r].phase = "connecting" /\ Becomes(r, BeginStop(e))

ConnectTimeout(r) ==
  /\ "timeout" \in Faults
  /\ run[r].phase = "connecting"
  /\ Becomes(r, BeginStop("Timeout"))

\* Defect: a consumer that is gone is waited for.
StartedForEver(r) ==
  /\ run[r].phase = "publishing_started" /\ receiving[r]
  /\ lifecycle' = [lifecycle EXCEPT ![r] = Append(@, "Started")]
  /\ run' = [run EXCEPT ![r].phase = "streaming"]
  /\ UNCHANGED <<data, mailbox, receiving, cancelled>>

\* poll_started; at most two events are ever sent, so there is always room.
PublishStarted(r) ==
  /\ run[r].phase = "publishing_started"
  /\ IF receiving[r]
     THEN /\ lifecycle' = [lifecycle EXCEPT ![r] = Append(@, "Started")]
          /\ run' = [run EXCEPT ![r].phase = "streaming"]
          /\ UNCHANGED <<data, mailbox, receiving, cancelled>>
     ELSE Becomes(r, BeginStop("ChannelClosed"))

SeesCancel(r) ==
  /\ cancelled
  /\ run[r].phase \in {"connecting", "streaming"}
  /\ Becomes(r, BeginStop("Cancelled"))

\* poll_control, of a new limit
ReadsLimit(r) == \E limit \in mailbox[r] :
  /\ run[r].phase \in {"connecting", "streaming"}
  /\ mailbox' = [mailbox EXCEPT ![r] = {}]
  /\ run' = [run EXCEPT ![r] = ApplyLimit(run[r], limit)]
  /\ UNCHANGED <<data, lifecycle, receiving, cancelled>>

\* The last limit is read before the mailbox is seen closed.
SeesMailboxClosed(r) ==
  /\ run[r].phase \in {"connecting", "streaming"}
  /\ ~receiving[r] /\ mailbox[r] = {}
  /\ run[r].deferred = "None"
  /\ Becomes(r, ControlError(run[r], "ChannelClosed"))

IdleTimeout(r) ==
  /\ "timeout" \in Faults
  /\ Reading(r)
  /\ Becomes(r, Flush(run[r], "Timeout"))

\* on_item: the stream yields the next bytes of the range, or an empty item.
ReadsItem(r) == \E size \in ItemSizes :
  LET n == Smaller(size, run[r].until - run[r].read)
      item == [i \in 1..n |-> run[r].read + i - 1]
  IN  /\ Reading(r)
      /\ size = 0 \/ n > 0
      /\ Becomes(r, BufferItem([run[r] EXCEPT !.item = item, !.read = @ + n]))

StreamEnds(r) ==
  /\ Reading(r)
  /\ run[r].read = run[r].until
  /\ Becomes(r, Flush(run[r], "Validate"))

\* A 206 whose Content-Range ends early, or a body cut off without an error.
StreamEndsShort(r) ==
  /\ "short" \in Faults
  /\ Reading(r)
  /\ run[r].read < run[r].until
  /\ Becomes(r, Flush(run[r], "Validate"))

StreamFails(r) == \E e \in StreamErrors :
  Reading(r) /\ Becomes(r, Flush(run[r], e))

\* poll_push and resume_after_emit
Emitted(r) ==
  LET s == run[r]
  IN  /\ s.phase = "streaming" /\ Emitting(s)
      /\ receiving[r] /\ Len(data[r]) < DataCapacity
      /\ data' = [data EXCEPT ![r] = Append(@, s.staged)]
      /\ run' = [run EXCEPT ![r] =
            ResumeAfterEmit([s EXCEPT !.downloaded = @ + Len(s.staged), !.staged = <<>>,
                                      !.then = "None", !.deferred = "None"],
                            s.then, s.deferred)]
      /\ UNCHANGED <<lifecycle, mailbox, receiving, cancelled>>

EmitFails(r) ==
  /\ run[r].phase = "streaming" /\ Emitting(run[r])
  /\ ~receiving[r]
  /\ Becomes(r, BeginStop("ChannelClosed"))

\* finish_drain
StopsDraining(r, result) ==
  /\ run[r].phase = "draining"
  /\ Becomes(r, [run[r] EXCEPT !.phase = "publishing_stopped", !.result = result])

Drained(r) == (data[r] = <<>> \/ ~receiving[r]) /\ StopsDraining(r, run[r].result)

DrainCancelled(r) == cancelled /\ StopsDraining(r, "Cancelled")

DrainTimeout(r) == "timeout" \in Faults /\ data[r] # <<>> /\ StopsDraining(r, "Timeout")

\* poll_stopped: a consumer that is gone misses the event.
PublishStopped(r) ==
  /\ run[r].phase = "publishing_stopped"
  /\ run' = [run EXCEPT ![r] = [NoRun EXCEPT !.phase = "stopped"]]
  /\ lifecycle' = [lifecycle EXCEPT ![r] =
                     IF receiving[r] THEN Append(@, run[r].result) ELSE @]
  /\ UNCHANGED <<data, mailbox, receiving, cancelled>>

\* The runtime drops the task, or it panics, before it publishes `Stopped`.
Lost(r) ==
  /\ "lost" \in Faults
  /\ run[r].phase \notin {"none", "stopped", "lost"}
  /\ Becomes(r, [NoRun EXCEPT !.phase = "lost"])

\* A runner has exited, and with it its end of every channel.
Exited(r) == run[r].phase \in {"none", "stopped", "lost"}

RunnerWork(r) ==
  \/ Connected(r) \/ PublishStarted(r)
  \/ SeesCancel(r) \/ ReadsLimit(r) \/ SeesMailboxClosed(r)
  \/ ReadsItem(r) \/ StreamEnds(r)
  \/ Emitted(r) \/ EmitFails(r)
  \/ Drained(r) \/ DrainCancelled(r)
  \/ PublishStopped(r)

\* What the server, the clock or the runtime does to a runner.
RunnerFault(r) ==
  \/ ConnectFails(r) \/ ConnectTimeout(r)
  \/ IdleTimeout(r) \/ StreamEndsShort(r) \/ StreamFails(r)
  \/ DrainTimeout(r) \/ Lost(r)

-----------------------------------------------------------------------------
(* The manager's ends of the channels. *)

\* A runner for the range is spawned and its receivers are registered.
Spawn(r, start, end) ==
  /\ run' = [run EXCEPT ![r] = NewRun(start, end)]
  /\ receiving' = [receiving EXCEPT ![r] = TRUE]
  /\ UNCHANGED <<data, lifecycle, mailbox, cancelled>>

\* Defect: the data channel outlives the runner and meets the next one.
ReleaseKeepsData(r) ==
  /\ run' = [run EXCEPT ![r] = NoRun]
  /\ lifecycle' = [lifecycle EXCEPT ![r] = <<>>]
  /\ mailbox' = [mailbox EXCEPT ![r] = {}]
  /\ receiving' = [receiving EXCEPT ![r] = FALSE]
  /\ UNCHANGED <<data, cancelled>>

\* release_runner: the receivers and the mailbox are dropped.  Only a runner
\* that has exited is released, and its id may then be used again.
Release(r) ==
  /\ run' = [run EXCEPT ![r] = NoRun]
  /\ data' = [data EXCEPT ![r] = <<>>]
  /\ lifecycle' = [lifecycle EXCEPT ![r] = <<>>]
  /\ mailbox' = [mailbox EXCEPT ![r] = {}]
  /\ receiving' = [receiving EXCEPT ![r] = FALSE]
  /\ UNCHANGED cancelled

TakeFrame(r) ==
  /\ data' = [data EXCEPT ![r] = Tail(@)]
  /\ UNCHANGED <<run, lifecycle, mailbox, receiving, cancelled>>

TakeEvent(r) ==
  /\ lifecycle' = [lifecycle EXCEPT ![r] = Tail(@)]
  /\ UNCHANGED <<run, data, mailbox, receiving, cancelled>>

\* The slot keeps only the latest limit.
SendLimit(r, limit) ==
  /\ mailbox' = [mailbox EXCEPT ![r] = {limit}]
  /\ UNCHANGED <<run, data, lifecycle, receiving, cancelled>>

\* The end of the loop: cancel the token, drop every receiver and mailbox.
DropReceivers ==
  /\ receiving' = [r \in Runners |-> FALSE]
  /\ data' = [r \in Runners |-> <<>>]
  /\ lifecycle' = [r \in Runners |-> <<>>]
  /\ cancelled' = TRUE
  /\ UNCHANGED <<run, mailbox>>

-----------------------------------------------------------------------------
\* Type invariant of the runners and their channels.
RunnerTypeOK ==
  /\ \A r \in Runners :
       LET s == run[r]
       IN  /\ s.phase \in Phases
           /\ {s.until, s.read, s.downloaded} \subseteq Nat /\ s.total \in Nat \cup {NoTotal}
           /\ s.read <= s.until
           /\ Len(s.buffer) <= BufferSize /\ Len(s.staged) <= BufferSize
           /\ s.then \in Continuations \cup {"None"}
           /\ s.deferred \in Results \cup {"None"}
           /\ s.result \in Results \cup {"None"}
           /\ Emitting(s) <=> s.then # "None"
           /\ Len(data[r]) <= DataCapacity
           /\ mailbox[r] \subseteq Nat /\ \A m, n \in mailbox[r] : m = n
  /\ receiving \in [Runners -> BOOLEAN]
  /\ cancelled \in BOOLEAN
=============================================================================
