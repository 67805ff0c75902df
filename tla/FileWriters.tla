---------------------------- MODULE FileWriters -----------------------------
(***************************************************************************)
(* The writing side of a concurrent download: the pending writer           *)
(* (file_writer/pending_writer.rs), the commands it queues with their      *)
(* completion guards (command.rs), the workers of the backends             *)
(* (pool_writer.rs, mmap_writer.rs, compio_writer.rs, null_writer.rs) and  *)
(* their owner, from the opening of the file to finish and finalize        *)
(* (file_writer.rs, concurrent_task/mod.rs).                               *)
(*                                                                         *)
(* A write has a number of parts, so that one that ends half way differs   *)
(* from a whole one.  What a write has put into the file is kept apart     *)
(* from what a sync has put onto the disk.                                 *)
(***************************************************************************)
EXTENDS Integers, Sequences, FiniteSets

CONSTANTS
  Count,        \* the number of writes that the download loop may ask for
  Parts,        \* how many short writes one write may take
  Capacity,     \* the pending writer's capacity
  QueueSize,    \* FILE_WRITER_QUEUE_SIZE
  Workers,      \* the workers of the pool
  Single,       \* the worker of a backend with one thread
  Faults,       \* what may go wrong, by name
  MaxFaults     \* bound of the number of faults

ASSUME WriterAssumption ==
  /\ {Parts, Capacity, QueueSize} \subseteq Nat \ {0}
  /\ Count \in Nat /\ MaxFaults \in Nat
  /\ Single \in Workers

\* The writes, numbered as the loop asks for them.
Writes == 1 .. Count
NoWrite == 0
\* The command that ends a worker.
Finalize == -1

VARIABLES
  kind,         \* the backend
  direct,       \* writes go to the queue without a task of their own
  phase,        \* where the owner of the file is
  accepted,     \* the number of writes that write_range has taken
  guard,        \* per write, who has its completion guard
  command,      \* per write, where its command is
  reply,        \* per write, what an awaited command was answered
  task,         \* per write, the task spawned for it
  completions,  \* the completion channel
  inFlight,     \* PendingWriter::in_flight
  pending,      \* PendingWriter::pending_write
  sawError,     \* PendingWriter::saw_error
  queue,        \* the command queue of the backend
  queueClosed,
  worker,       \* per worker, where it is
  item,         \* per worker, the write it is busy with
  written,      \* per write, the parts that are in the file
  synced,       \* the writes that are on the disk
  ack,          \* the answer to the finalize command
  failed,       \* opening or finalizing the file failed
  faults        \* the number of faults so far

pendingVars == <<inFlight, pending, sawError>>
routeVars == <<guard, command, reply, task, completions>>
queueVars == <<queue, queueClosed>>
workerVars == <<worker, item>>
diskVars == <<written, synced>>
setup == <<kind, direct>>
vars == <<setup, phase, accepted, routeVars, pendingVars, queueVars, workerVars,
          diskVars, ack, failed, faults>>

Kinds == {"pool", "mmap", "compio", "null"}
OwnerPhases == {"opening", "starting", "unready", "open", "flushing", "waiting", "sending",
                "answer", "joining", "syncing", "done"}
WorkerPhases == {"absent", "starting", "idle", "writing", "finalizing", "closing", "draining", "exited"}
Completion == [write : Writes, ok : BOOLEAN]

\* One type for every variable.
WriterTypeOK ==
  /\ kind \in Kinds /\ direct \in BOOLEAN
  /\ phase \in OwnerPhases
  /\ accepted \in 0 .. Count
  /\ guard \in [Writes -> {"none", "task", "command", "reported"}]
  /\ command \in [Writes -> {"none", "queued", "busy", "over"}]
  /\ reply \in [Writes -> {"none", "ok", "err"}]
  /\ task \in [Writes -> {"none", "sending", "awaiting", "leaving", "exited"}]
  /\ completions \in Seq(Completion)
  /\ inFlight \in Nat /\ pending \in Writes \union {NoWrite} /\ sawError \in BOOLEAN
  /\ queue \in Seq(Writes \union {Finalize}) /\ queueClosed \in BOOLEAN
  /\ worker \in [Workers -> WorkerPhases] /\ item \in [Workers -> Writes \union {NoWrite}]
  /\ written \in [Writes -> 0 .. Parts] /\ synced \subseteq Writes
  /\ ack \in {"none", "ok", "err"} /\ failed \in BOOLEAN /\ faults \in 0 .. MaxFaults

WriterInit ==
  /\ kind \in Kinds /\ direct \in BOOLEAN
  /\ phase = "opening" /\ accepted = 0
  /\ guard = [w \in Writes |-> "none"] /\ command = [w \in Writes |-> "none"]
  /\ reply = [w \in Writes |-> "none"] /\ task = [w \in Writes |-> "none"]
  /\ completions = <<>> /\ inFlight = 0 /\ pending = NoWrite /\ sawError = FALSE
  /\ queue = <<>> /\ queueClosed = FALSE
  /\ worker = [k \in Workers |-> "absent"] /\ item = [k \in Workers |-> NoWrite]
  /\ written = [w \in Writes |-> 0] /\ synced = {}
  /\ ack = "none" /\ failed = FALSE /\ faults = 0

Fault(name) == name \in Faults /\ faults < MaxFaults /\ faults' = faults + 1

-----------------------------------------------------------------------------
(* Opening the file and starting the workers.                              *)

\* open_file, a clone of its handle or the start of the builder fails.
OpenFails ==
  /\ phase = "opening" /\ kind # "null" /\ Fault("open")
  /\ phase' = "done" /\ failed' = TRUE
  /\ UNCHANGED <<setup, accepted, routeVars, pendingVars, queueVars, workerVars, diskVars, ack>>

\* The workers are started.  The pool's are at work at once; the other builders
\* wait for their worker's word.
Opened ==
  /\ phase = "opening"
  /\ IF kind = "pool"
     THEN worker' = [k \in Workers |-> "idle"] /\ phase' = "open"
     ELSE worker' = [worker EXCEPT ![Single] = "starting"] /\ phase' = "starting"
  /\ UNCHANGED <<setup, accepted, routeVars, pendingVars, queueVars, item, diskVars, ack, failed, faults>>

\* The worker has its mapping, its runtime or its file.
WorkerReady ==
  /\ phase = "starting" /\ phase' = "open"
  /\ worker' = [worker EXCEPT ![Single] = "idle"]
  /\ UNCHANGED <<setup, accepted, routeVars, pendingVars, queueVars, item, diskVars, ack, failed, faults>>

\* It does not get it, and leaves; the builder lets go of the queue.
WorkerUnready ==
  /\ phase = "starting" /\ kind # "null" /\ Fault("open") /\ phase' = "unready"
  /\ worker' = [worker EXCEPT ![Single] = "closing"]
  /\ queueClosed' = TRUE
  /\ UNCHANGED <<setup, accepted, routeVars, pendingVars, queue, item, diskVars, ack, failed>>

\* The builder fails once the worker has left.
BuildFails ==
  /\ phase = "unready" /\ worker[Single] = "exited"
  /\ phase' = "done" /\ failed' = TRUE
  /\ UNCHANGED <<setup, accepted, routeVars, pendingVars, queueVars, workerVars, diskVars, ack, faults>>

-----------------------------------------------------------------------------
(* The pending writer.                                                     *)

\* Defect: the channel has no room for the completion of the last write.
DefectPublish(channel, w, ok) ==
  IF Len(channel) < Capacity - 1 THEN Append(channel, [write |-> w, ok |-> ok]) ELSE channel

\* try_send of a completion; a channel without room for it loses it.
Publish(channel, w, ok) ==
  IF Len(channel) < Capacity + 1 THEN Append(channel, [write |-> w, ok |-> ok]) ELSE channel

IsFull == inFlight >= Capacity
CanWrite == ~IsFull \/ pending = NoWrite

HasRoom == ~queueClosed /\ Len(queue) < QueueSize
NeedsTask == ~direct \/ (~queueClosed /\ Len(queue) = QueueSize)

\* dispatch_direct queues the write, or finds the queue closed and completes the
\* write itself.  With the queue full, and in dispatch_spawned, a task takes it; a
\* task that is rejected drops the guard.
Dispatch(w, channel) ==
  \/ /\ direct /\ HasRoom
     /\ queue' = Append(queue, w)
     /\ command' = [command EXCEPT ![w] = "queued"]
     /\ guard' = [guard EXCEPT ![w] = "command"]
     /\ completions' = channel
     /\ UNCHANGED <<task, faults>>
  \/ /\ direct /\ queueClosed
     /\ guard' = [guard EXCEPT ![w] = "reported"]
     /\ completions' = Publish(channel, w, FALSE)
     /\ UNCHANGED <<queue, command, task, faults>>
  \/ /\ NeedsTask
     /\ task' = [task EXCEPT ![w] = "sending"]
     /\ guard' = [guard EXCEPT ![w] = "task"]
     /\ completions' = channel
     /\ UNCHANGED <<queue, command, faults>>
  \/ /\ NeedsTask /\ Fault("spawn")
     /\ guard' = [guard EXCEPT ![w] = "reported"]
     /\ completions' = Publish(channel, w, FALSE)
     /\ UNCHANGED <<queue, command, task>>

\* write_range: the write is dispatched, or it waits for a slot.
WriteRange ==
  /\ phase = "open" /\ accepted < Count /\ CanWrite
  /\ accepted' = accepted + 1
  /\ IF ~IsFull
     THEN /\ inFlight' = inFlight + 1
          /\ Dispatch(accepted + 1, completions)
          /\ UNCHANGED pending
     ELSE /\ pending' = accepted + 1
          /\ UNCHANGED <<inFlight, queue, command, guard, task, completions, faults>>
  /\ UNCHANGED <<setup, phase, reply, sawError, queueClosed, workerVars, diskVars, ack, failed>>

HasError(batch) == \E i \in DOMAIN batch : ~batch[i].ok

\* Defect: the waiting write is left where it is.
DefectSettle ==
  /\ inFlight' = inFlight - Len(completions)
  /\ sawError' = (sawError \/ HasError(completions))
  /\ pending' = pending /\ completions' = <<>>
  /\ UNCHANGED <<queue, command, guard, task, faults>>

\* settle: the slots of the drained completions are free, an error is noted, and
\* without one the waiting write is dispatched into a free slot.
Settle ==
  LET left == inFlight - Len(completions)
      error == sawError \/ HasError(completions)
  IN  /\ sawError' = error
      /\ IF ~error /\ left < Capacity /\ pending # NoWrite
         THEN /\ inFlight' = left + 1 /\ pending' = NoWrite
              /\ Dispatch(pending, <<>>)
         ELSE /\ inFlight' = left
              /\ completions' = <<>>
              /\ UNCHANGED <<pending, queue, command, guard, task, faults>>

\* poll_completions, try_tick and the turns of flush: what has completed is taken.
Tick ==
  /\ phase \in {"open", "flushing"} /\ inFlight > 0 /\ completions # <<>>
  /\ Settle
  /\ UNCHANGED <<setup, phase, accepted, reply, queueClosed, workerVars, diskVars, ack, failed>>

\* The download is over: finish starts to flush.
Finish ==
  /\ phase = "open" /\ phase' = "flushing"
  /\ UNCHANGED <<setup, accepted, routeVars, pendingVars, queueVars, workerVars, diskVars, ack, failed, faults>>

\* Nothing is in flight: finish lets go of the channel and waits for the tasks.
Flushed ==
  /\ phase = "flushing" /\ inFlight = 0
  /\ phase' = "waiting"
  /\ UNCHANGED <<setup, accepted, routeVars, pendingVars, queueVars, workerVars, diskVars, ack, failed, faults>>

\* No task refers to the writer any more: finalize has it to itself.
TasksGone ==
  /\ phase = "waiting" /\ \A w \in Writes : task[w] \in {"none", "exited"}
  /\ phase' = "sending"
  /\ UNCHANGED <<setup, accepted, routeVars, pendingVars, queueVars, workerVars, diskVars, ack, failed, faults>>

-----------------------------------------------------------------------------
(* The tasks that were spawned for writes.                                 *)

\* The task queues its write: submit leaves it to the worker, write awaits it.
TaskSends(w) ==
  /\ task[w] = "sending" /\ HasRoom
  /\ queue' = Append(queue, w)
  /\ command' = [command EXCEPT ![w] = "queued"]
  /\ IF direct
     THEN /\ task' = [task EXCEPT ![w] = "leaving"]
          /\ guard' = [guard EXCEPT ![w] = "command"]
     ELSE /\ task' = [task EXCEPT ![w] = "awaiting"]
          /\ UNCHANGED guard
  /\ UNCHANGED <<setup, phase, accepted, reply, completions, pendingVars, queueClosed, workerVars,
                 diskVars, ack, failed, faults>>

\* The task reports the write itself.
TaskReports(w, ok) ==
  /\ task' = [task EXCEPT ![w] = "leaving"]
  /\ guard' = [guard EXCEPT ![w] = "reported"]
  /\ completions' = Publish(completions, w, ok)
  /\ UNCHANGED <<setup, phase, accepted, command, reply, pendingVars, queueVars, workerVars,
                 diskVars, ack, failed>>

\* The queue is closed.
TaskRefused(w) ==
  /\ task[w] = "sending" /\ queueClosed
  /\ TaskReports(w, FALSE) /\ UNCHANGED faults

\* The awaited write was answered, or its command was dropped.
TaskAnswered(w) ==
  /\ task[w] = "awaiting" /\ reply[w] # "none"
  /\ TaskReports(w, reply[w] = "ok") /\ UNCHANGED faults

\* The runtime drops the task: its guard reports a failure.  The command of an
\* awaited write stays where it is.
TaskDropped(w) ==
  /\ task[w] \in {"sending", "awaiting"} /\ Fault("drop")
  /\ TaskReports(w, FALSE)

\* The task releases the writer and its place in the wait group.
TaskExits(w) ==
  /\ task[w] = "leaving"
  /\ task' = [task EXCEPT ![w] = "exited"]
  /\ UNCHANGED <<setup, phase, accepted, guard, command, reply, completions, pendingVars, queueVars,
                 workerVars, diskVars, ack, failed, faults>>

-----------------------------------------------------------------------------
(* The workers.                                                            *)

\* The command of a write ends: its guard reports it, or its task is answered.
Answer(w, ok) ==
  /\ command' = [command EXCEPT ![w] = "over"]
  /\ IF guard[w] = "command"
     THEN /\ guard' = [guard EXCEPT ![w] = "reported"]
          /\ completions' = Publish(completions, w, ok)
          /\ UNCHANGED reply
     ELSE /\ reply' = [reply EXCEPT ![w] = IF ok THEN "ok" ELSE "err"]
          /\ UNCHANGED <<guard, completions>>

\* A worker takes a write.  The compio worker spawns it and goes on.
TakeWrite(k) ==
  /\ worker[k] = "idle" /\ queue # <<>> /\ Head(queue) # Finalize
  /\ queue' = Tail(queue)
  /\ command' = [command EXCEPT ![Head(queue)] = "busy"]
  /\ IF kind = "compio"
     THEN UNCHANGED workerVars
     ELSE /\ worker' = [worker EXCEPT ![k] = "writing"]
          /\ item' = [item EXCEPT ![k] = Head(queue)]
  /\ UNCHANGED <<setup, phase, accepted, guard, reply, task, completions, pendingVars, queueClosed,
                 diskVars, ack, failed, faults>>

Rested(k) ==
  /\ worker' = [worker EXCEPT ![k] = "idle"]
  /\ item' = [item EXCEPT ![k] = NoWrite]

\* write_at writes a part of what is left, and the rest is tried again.
WritePart(k) ==
  /\ kind = "pool" /\ worker[k] = "writing"
  /\ \E n \in 1 .. (Parts - 1) :
       /\ written[item[k]] + n < Parts
       /\ written' = [written EXCEPT ![item[k]] = @ + n]
  /\ UNCHANGED <<setup, phase, accepted, routeVars, pendingVars, queueVars, workerVars, synced, ack,
                 failed, faults>>

\* Defect: a short write counts as the whole.
DefectWriteAll(k) ==
  /\ worker[k] = "writing"
  /\ \E n \in 1 .. Parts : written' = [written EXCEPT ![item[k]] = n]
  /\ Answer(item[k], TRUE) /\ Rested(k)
  /\ UNCHANGED <<setup, phase, accepted, task, pendingVars, queueVars, synced, ack, failed, faults>>

\* The rest is written and the write is reported; the null writer drops it.
WriteAll(k) ==
  /\ worker[k] = "writing"
  /\ written' = IF kind = "null" THEN written ELSE [written EXCEPT ![item[k]] = Parts]
  /\ Answer(item[k], TRUE) /\ Rested(k)
  /\ UNCHANGED <<setup, phase, accepted, task, pendingVars, queueVars, synced, ack, failed, faults>>

\* The file refuses the write, or accepts nothing of it.
WriteFails(k) ==
  /\ kind = "pool" /\ worker[k] = "writing" /\ Fault("write")
  /\ Answer(item[k], FALSE) /\ Rested(k)
  /\ UNCHANGED <<setup, phase, accepted, task, pendingVars, queueVars, diskVars, ack, failed>>

\* A write that the compio worker spawned ends.
SpawnedWriteEnds(w) ==
  /\ kind = "compio" /\ command[w] = "busy"
  /\ \/ written' = [written EXCEPT ![w] = Parts] /\ Answer(w, TRUE) /\ UNCHANGED faults
     \/ Fault("write") /\ Answer(w, FALSE) /\ UNCHANGED written
  /\ UNCHANGED <<setup, phase, accepted, task, pendingVars, queueVars, workerVars, synced, ack, failed>>

\* A worker panics in a write: the command is dropped with its guard.
WorkerPanics(k) ==
  /\ worker[k] = "writing" /\ Fault("panic")
  /\ Answer(item[k], FALSE)
  /\ worker' = [worker EXCEPT ![k] = "closing"]
  /\ item' = [item EXCEPT ![k] = NoWrite]
  /\ UNCHANGED <<setup, phase, accepted, task, pendingVars, queueVars, diskVars, ack, failed>>

\* A worker takes the finalize command.
TakeFinalize(k) ==
  /\ worker[k] = "idle" /\ queue # <<>> /\ Head(queue) = Finalize
  /\ queue' = Tail(queue)
  /\ worker' = [worker EXCEPT ![k] = "finalizing"]
  /\ UNCHANGED <<setup, phase, accepted, routeVars, pendingVars, queueClosed, item, diskVars, ack,
                 failed, faults>>

InFile == {w \in Writes : written[w] = Parts}

\* It answers: at once in the pool, after a flush of the mapping, or after the
\* spawned writes and a sync.
Finalizes(k) ==
  /\ worker[k] = "finalizing"
  /\ kind = "compio" => \A w \in Writes : command[w] # "busy"
  /\ \/ /\ synced' = IF kind \in {"mmap", "compio"} THEN InFile ELSE synced
        /\ ack' = "ok" /\ UNCHANGED faults
     \/ /\ kind \in {"mmap", "compio"} /\ Fault("sync")
        /\ ack' = "err" /\ UNCHANGED synced
  /\ worker' = [worker EXCEPT ![k] = "closing"]
  /\ UNCHANGED <<setup, phase, accepted, routeVars, pendingVars, queueVars, item, written, failed>>

\* The queue is closed and empty.
ReceiveFails(k) ==
  /\ worker[k] = "idle" /\ queue = <<>> /\ queueClosed
  /\ worker' = [worker EXCEPT ![k] = "closing"]
  /\ UNCHANGED <<setup, phase, accepted, routeVars, pendingVars, queueVars, item, diskVars, ack,
                 failed, faults>>

\* CloseOnExit closes the queue ...
CloseQueue(k) ==
  /\ worker[k] = "closing"
  /\ queueClosed' = TRUE
  /\ worker' = [worker EXCEPT ![k] = "draining"]
  /\ UNCHANGED <<setup, phase, accepted, routeVars, pendingVars, queue, item, diskVars, ack,
                 failed, faults>>

\* ... and drops the commands that are left in it.
DropCommand(k) ==
  /\ worker[k] = "draining" /\ queue # <<>>
  /\ queue' = Tail(queue)
  /\ IF Head(queue) = Finalize
     THEN ack' = "err" /\ UNCHANGED <<command, guard, completions, reply>>
     ELSE Answer(Head(queue), FALSE) /\ UNCHANGED ack
  /\ UNCHANGED <<setup, phase, accepted, task, pendingVars, queueClosed, workerVars, diskVars,
                 failed, faults>>

\* Defect: the receiver is dropped without a look at what is left in the queue.
DefectWorkerExits(k) ==
  /\ worker[k] = "draining"
  /\ worker' = [worker EXCEPT ![k] = "exited"]
  /\ UNCHANGED <<setup, phase, accepted, routeVars, pendingVars, queueVars, item, diskVars, ack,
                 failed, faults>>

\* Nothing is left: the worker releases its handles and its place in the group.
WorkerExits(k) ==
  /\ worker[k] = "draining" /\ queue = <<>>
  /\ worker' = [worker EXCEPT ![k] = "exited"]
  /\ UNCHANGED <<setup, phase, accepted, routeVars, pendingVars, queueVars, item, diskVars, ack,
                 failed, faults>>

-----------------------------------------------------------------------------
(* Finalization by the owner.                                              *)

\* finalize_and_join sends the command, once there is room for it.
SendFinalize ==
  /\ phase = "sending" /\ HasRoom
  /\ queue' = Append(queue, Finalize)
  /\ phase' = "answer"
  /\ UNCHANGED <<setup, accepted, routeVars, pendingVars, queueClosed, workerVars, diskVars, ack,
                 failed, faults>>

\* The queue is closed: the workers are joined all the same.
FinalizeRefused ==
  /\ phase = "sending" /\ queueClosed
  /\ failed' = TRUE
  /\ phase' = IF kind = "null" THEN "done" ELSE "joining"
  /\ UNCHANGED <<setup, accepted, routeVars, pendingVars, queueVars, workerVars, diskVars, ack, faults>>

\* The answer has come: the owner's end of the queue is dropped, which closes it.
FinalizeAnswered ==
  /\ phase = "answer" /\ ack # "none"
  /\ failed' = (ack = "err")
  /\ queueClosed' = TRUE
  /\ phase' = IF kind = "null" THEN "done" ELSE "joining"
  /\ UNCHANGED <<setup, accepted, routeVars, pendingVars, queue, workerVars, diskVars, ack, faults>>

\* Defect: the pool is synced when the command was answered.
DefectJoined ==
  /\ phase = "joining"
  /\ phase' = IF kind = "pool" THEN "syncing" ELSE "done"
  /\ UNCHANGED <<setup, accepted, routeVars, pendingVars, queueVars, workerVars, diskVars, ack, failed, faults>>

\* Every worker has exited.
Joined ==
  /\ phase = "joining" /\ \A k \in Workers : worker[k] \in {"absent", "exited"}
  /\ phase' = IF kind = "pool" THEN "syncing" ELSE "done"
  /\ UNCHANGED <<setup, accepted, routeVars, pendingVars, queueVars, workerVars, diskVars, ack, failed, faults>>

\* The owner of the pool syncs the file.
SyncAll ==
  /\ phase = "syncing" /\ phase' = "done"
  /\ \/ synced' = InFile /\ UNCHANGED <<failed, faults>>
     \/ Fault("sync") /\ failed' = TRUE /\ UNCHANGED synced
  /\ UNCHANGED <<setup, accepted, routeVars, pendingVars, queueVars, workerVars, written, ack>>

-----------------------------------------------------------------------------
OwnerGoesOn ==
  \/ Opened \/ WorkerReady \/ BuildFails
  \/ Flushed \/ TasksGone \/ SendFinalize \/ FinalizeRefused \/ FinalizeAnswered \/ Joined \/ SyncAll

TaskGoesOn(w) == TaskSends(w) \/ TaskRefused(w) \/ TaskAnswered(w) \/ TaskExits(w)

WorkerGoesOn(k) ==
  \/ TakeWrite(k) \/ WriteAll(k) \/ TakeFinalize(k) \/ Finalizes(k)
  \/ ReceiveFails(k) \/ CloseQueue(k) \/ DropCommand(k) \/ WorkerExits(k)

WriterNext ==
  \/ OpenFails \/ WorkerUnready
  \/ WriteRange \/ Tick \/ Finish
  \/ OwnerGoesOn
  \/ \E w \in Writes : TaskGoesOn(w) \/ TaskDropped(w) \/ SpawnedWriteEnds(w)
  \/ \E k \in Workers : WorkerGoesOn(k) \/ WritePart(k) \/ WriteFails(k) \/ WorkerPanics(k)

\* The runtimes poll the owner and the tasks, the threads of the workers run, and
\* a write to the file ends.  Nothing obliges the loop to write, or a fault to happen.
WriterFairness ==
  /\ WF_vars(OwnerGoesOn) /\ WF_vars(Tick)
  /\ \A w \in Writes : WF_vars(TaskGoesOn(w)) /\ WF_vars(SpawnedWriteEnds(w))
  /\ \A k \in Workers : WF_vars(WorkerGoesOn(k))

WriterSpec == WriterInit /\ [][WriterNext]_vars /\ WriterFairness

-----------------------------------------------------------------------------
(* Properties.                                                             *)

Unreported == {w \in Writes : guard[w] \in {"task", "command"}}

\* in_flight counts the guards that are still out and the completions that nobody
\* has taken, and stays within the capacity.  So a write completes exactly once
\* however it ends (command.rs, CompletionGuard), the completion channel never
\* runs full (publish), and ack_completions never goes below zero.
WritesAreAccounted ==
  phase \in {"starting", "open", "flushing"} =>
    /\ inFlight = Cardinality(Unreported) + Len(completions)
    /\ inFlight <= Capacity

\* A waiting write that may still be dispatched has a write in flight ahead of it,
\* whose completion will dispatch it: what poll_completions relies on.
PendingIsNotStranded == pending # NoWrite /\ ~sawError => inFlight > 0

Succeeded == phase = "done" /\ ~failed /\ ~sawError

\* When the download counts as written, every write that was accepted is in the
\* file in full and was synced, whichever worker took the finalize command and
\* whoever was still writing then.
SuccessIsOnDisk == Succeeded /\ kind # "null" => 1 .. accepted \subseteq synced

\* When the owner returns, no worker and no task is left that could write to the
\* file or hold it open: it is renamed or removed next.
NobodyIsLeft ==
  phase = "done" /\ kind # "null" =>
    /\ \A k \in Workers : worker[k] \in {"absent", "exited"}
    /\ \A w \in Writes : task[w] \in {"none", "exited"} /\ command[w] \in {"none", "over"}

\* Every download that starts to finish ends, with whatever result: no guard,
\* task, worker or queue keeps it.
FinishEnds == (phase = "flushing") ~> (phase = "done")
=============================================================================
