------------------------- MODULE FileWritersProofs --------------------------
(***************************************************************************)
(* The writing side of a download is right for every number of writes,     *)
(* workers and faults and for every capacity.  The inductive invariant     *)
(* follows a write through the parts of the code that hold it: the guard,  *)
(* the task, the command in the queue and the worker that is busy with it  *)
(* agree, there is one finalize command, and what was reported without an  *)
(* error is in the file.                                                   *)
(***************************************************************************)
EXTENDS FileWriters, FiniteSetTheorems, TLAPS

Before == {"opening", "starting", "unready"}
Joining == {"joining", "syncing", "done"}
Alone == {"sending", "answer"} \union Joining
Late == {"waiting"} \union Alone
Leaving == {"closing", "draining", "exited"}
Gone == {"absent", "exited"}

\* Every write in flight has its guard out or its completion in the channel.
Accounted ==
  /\ inFlight = Cardinality(Unreported) + Len(completions)
  /\ inFlight <= Capacity

\* The guard of a write tells where the write is.
Routed ==
  /\ pending <= accepted
  /\ \A w \in Writes :
       /\ guard[w] = "none" <=> w > accepted \/ w = pending
       /\ guard[w] = "none" => command[w] = "none" /\ task[w] = "none"
       /\ guard[w] = "task" <=> task[w] \in {"sending", "awaiting"}
       /\ guard[w] = "command" => command[w] \in {"queued", "busy"}
       /\ task[w] = "sending" => command[w] = "none"

\* A write that was reported, or answered, as written is in the file.
Honest ==
  kind # "null" => \A w \in Writes :
    /\ guard[w] = "reported" /\ ~sawError /\ ~HasError(completions) => written[w] = Parts
    /\ reply[w] = "ok" => written[w] = Parts

\* The queue holds the queued commands, each once.
Queued ==
  /\ \A i \in DOMAIN queue : queue[i] # Finalize => command[queue[i]] = "queued"
  /\ \A w \in Writes : command[w] = "queued" => \E i \in DOMAIN queue : queue[i] = w
  /\ \A i, j \in DOMAIN queue : queue[i] = queue[j] => i = j

\* There is one finalize command: in the queue, with a worker, or answered.
FinalizedOnce ==
  /\ \A i \in DOMAIN queue : queue[i] = Finalize =>
       phase = "answer" /\ ack = "none" /\ \A k \in Workers : worker[k] # "finalizing"
  /\ \A k \in Workers : worker[k] = "finalizing" => phase = "answer" /\ ack = "none"
  /\ \A k, l \in Workers : worker[k] = "finalizing" /\ worker[l] = "finalizing" => k = l
  /\ ack # "none" => phase \in {"answer"} \union Joining

\* A busy command has one worker, which in compio may go on in the meantime.
Busy ==
  /\ \A k \in Workers : worker[k] = "writing" =>
       kind # "compio" /\ item[k] \in Writes /\ command[item[k]] = "busy"
  /\ \A k, l \in Workers : worker[k] = "writing" /\ worker[l] = "writing" /\ item[k] = item[l] => k = l
  /\ \A w \in Writes : command[w] = "busy" =>
       IF kind = "compio" THEN worker[Single] \in {"idle", "finalizing"}
       ELSE \E k \in Workers : worker[k] = "writing" /\ item[k] = w

\* The workers that were started leave once the queue is closed, and the last one
\* leaves an empty queue.
Staffed ==
  /\ phase = "opening" => \A k \in Workers : worker[k] = "absent"
  /\ kind # "pool" => \A k \in Workers : k # Single => worker[k] = "absent"
  /\ phase = "starting" <=> worker[Single] = "starting"
  /\ phase = "unready" => kind # "pool" /\ worker[Single] \in Leaving
  /\ phase \notin {"opening", "done"} => worker[Single] # "absent"
  /\ \A k \in Workers : worker[k] \in {"draining", "exited"} => queueClosed
  /\ \A k \in Workers : worker[k] = "exited" => queue = <<>>
  /\ kind # "pool" /\ (queueClosed \/ ack # "none") => worker[Single] \in Leaving
  /\ \A k \in Workers : worker[k] = "starting" => k = Single /\ kind # "pool"

\* What the owner knows in each of its phases.
Owned ==
  /\ phase \in Before => accepted = 0 /\ inFlight = 0
  /\ phase \in Late => inFlight = 0
  /\ phase \in Alone => \A w \in Writes : task[w] \in {"none", "exited"}
  /\ phase \in Joining /\ ~failed => ack = "ok"
  /\ phase = "joining" => kind # "null"
  /\ phase = "syncing" => kind = "pool" /\ \A k \in Workers : worker[k] \in Gone
  /\ NobodyIsLeft

\* Who has synced the file has synced every write.
OnDisk ==
  ~sawError =>
    /\ kind \in {"mmap", "compio"} /\ ack = "ok" => 1 .. accepted \subseteq synced
    /\ kind = "pool" /\ phase = "done" /\ ~failed => 1 .. accepted \subseteq synced

WriterInv ==
  /\ WriterTypeOK /\ Accounted /\ PendingIsNotStranded /\ Routed /\ Honest
  /\ Queued /\ FinalizedOnce /\ Busy /\ Staffed /\ Owned /\ OnDisk

-----------------------------------------------------------------------------
(* Facts about the writes, the guards and the completions.                 *)

\* The writes are numbered from one, so none of them is NoWrite or Finalize.
LEMMA WritesAreNumbers ==
  /\ Writes \subseteq Nat \ {0} /\ IsFiniteSet(Writes)
  /\ NoWrite \notin Writes /\ Finalize \notin Writes
<1>1. IsFiniteSet(Writes)
  BY WriterAssumption, FS_Interval DEF Writes
<1> QED BY <1>1, WriterAssumption DEF Writes, NoWrite, Finalize

\* A guard that goes out is one more to be reported.
LEMMA GuardGoesOut ==
  ASSUME WriterTypeOK, NEW w \in Writes, NEW g \in {"task", "command"},
         guard[w] = "none", guard' = [guard EXCEPT ![w] = g]
  PROVE  Cardinality(Unreported)' = Cardinality(Unreported) + 1
<1>1. Unreported' = Unreported \union {w} /\ w \notin Unreported
  BY DEF WriterTypeOK, Unreported
<1>2. IsFiniteSet(Unreported)
  BY WritesAreNumbers, FS_Subset DEF Unreported
<1> QED BY <1>1, <1>2, FS_AddElement

\* A guard that reports its write is one less.
LEMMA GuardReports ==
  ASSUME WriterTypeOK, NEW w \in Writes,
         guard[w] \in {"task", "command"}, guard' = [guard EXCEPT ![w] = "reported"]
  PROVE  Cardinality(Unreported)' = Cardinality(Unreported) - 1
<1>1. Unreported' = Unreported \ {w} /\ w \in Unreported
  BY DEF WriterTypeOK, Unreported
<1>2. IsFiniteSet(Unreported)
  BY WritesAreNumbers, FS_Subset DEF Unreported
<1>3. Cardinality(Unreported) \in Nat
  BY <1>2, FS_CardinalityType
<1> QED BY <1>1, <1>2, <1>3, FS_RemoveElement

\* Any other change of a guard makes no difference.
LEMMA GuardStays ==
  ASSUME WriterTypeOK, NEW w \in Writes, NEW g,
         guard' = [guard EXCEPT ![w] = g],
         guard[w] \in {"task", "command"} <=> g \in {"task", "command"}
  PROVE  Unreported' = Unreported
BY DEF WriterTypeOK, Unreported

\* The number of guards that are out.
LEMMA UnreportedIsFinite ==
  /\ IsFiniteSet(Unreported) /\ Cardinality(Unreported) \in Nat
  /\ Cardinality(Unreported) = 0 => Unreported = {}
<1>1. IsFiniteSet(Unreported)
  BY WritesAreNumbers, FS_Subset DEF Unreported
<1> QED BY <1>1, FS_CardinalityType, FS_EmptySet

\* The channel has room for every completion, so that none is lost.
LEMMA PublishAppends ==
  ASSUME NEW channel \in Seq(Completion), Len(channel) <= Capacity,
         NEW w \in Writes, NEW ok \in BOOLEAN
  PROVE  /\ Publish(channel, w, ok) \in Seq(Completion)
         /\ Len(Publish(channel, w, ok)) = Len(channel) + 1
         /\ HasError(Publish(channel, w, ok)) <=> HasError(channel) \/ ~ok
<1> DEFINE done == [write |-> w, ok |-> ok]
<1>1. done \in Completion
  BY DEF Completion
<1>2. Publish(channel, w, ok) = Append(channel, done)
  BY WriterAssumption DEF Publish
<1>3. /\ Append(channel, done) \in Seq(Completion)
      /\ Len(Append(channel, done)) = Len(channel) + 1
  BY <1>1
<1>4. HasError(Append(channel, done)) <=> HasError(channel) \/ ~ok
  <2>1. ASSUME HasError(channel) PROVE HasError(Append(channel, done))
    <3>1. PICK i \in DOMAIN channel : ~channel[i].ok
      BY <2>1 DEF HasError
    <3>2. i \in DOMAIN Append(channel, done) /\ Append(channel, done)[i] = channel[i]
      BY <1>1, <3>1
    <3> QED BY <3>1, <3>2 DEF HasError
  <2>2. ASSUME ~ok PROVE HasError(Append(channel, done))
    <3>1. /\ Len(channel) + 1 \in DOMAIN Append(channel, done)
          /\ Append(channel, done)[Len(channel) + 1] = done
      BY <1>1
    <3> QED BY <2>2, <3>1 DEF HasError
  <2>3. ASSUME HasError(Append(channel, done)), ok PROVE HasError(channel)
    <3>1. PICK i \in DOMAIN Append(channel, done) : ~Append(channel, done)[i].ok
      BY <2>3 DEF HasError
    <3>2. i \in 1 .. Len(channel) + 1
      BY <1>1, <3>1
    <3>3. i # Len(channel) + 1
      BY <1>1, <2>3, <3>1
    <3>4. i \in DOMAIN channel /\ Append(channel, done)[i] = channel[i]
      BY <1>1, <3>2, <3>3
    <3> QED BY <3>1, <3>4 DEF HasError
  <2> QED BY <2>1, <2>2, <2>3
<1> QED BY <1>2, <1>3, <1>4

\* An empty channel has no error.
LEMMA NothingIsNoError ==
  /\ <<>> \in Seq(Completion) /\ Len(<<>>) = 0
  /\ ~HasError(<<>>)
BY DEF HasError

\* Before the file is open there are no writes.
LEMMA NothingIsAsked ==
  ASSUME WriterInv, phase \in Before
  PROVE  \A w \in Writes : command[w] = "none" /\ task[w] = "none"
<1>1. accepted = 0
  BY DEF WriterInv, Owned
<1>2. \A w \in Writes : guard[w] = "none"
  BY <1>1, WritesAreNumbers DEF WriterInv, Routed, WriterTypeOK
<1> QED BY <1>2 DEF WriterInv, Routed

\* Once nothing is in flight every write was reported; without an error each of
\* them is in the file.
LEMMA FlushedIsInFile ==
  ASSUME WriterInv, inFlight = 0, ~sawError, kind # "null"
  PROVE  1 .. accepted \subseteq InFile
<1>1. Unreported = {} /\ Len(completions) = 0
  BY UnreportedIsFinite DEF WriterInv, Accounted, WriterTypeOK
<1>2. ~HasError(completions)
  BY <1>1 DEF HasError, WriterInv, WriterTypeOK
<1>3. pending = NoWrite
  BY DEF WriterInv, PendingIsNotStranded
<1> SUFFICES ASSUME NEW w \in 1 .. accepted PROVE w \in InFile
  OBVIOUS
<1>4. w \in Writes /\ accepted \in Nat
  BY WriterAssumption DEF WriterInv, WriterTypeOK, Writes
<1>5. guard[w] # "none"
  BY <1>3, <1>4, WritesAreNumbers DEF WriterInv, Routed
<1>6. guard[w] = "reported"
  BY <1>1, <1>4, <1>5 DEF Unreported, WriterInv, WriterTypeOK
<1> QED BY <1>2, <1>4, <1>6 DEF WriterInv, Honest, InFile

\* When the workers have left no command is left.
LEMMA NothingIsLeft ==
  ASSUME WriterInv, worker[Single] = "exited", \A k \in Workers : worker[k] \in Gone
  PROVE  \A w \in Writes : command[w] \in {"none", "over"}
<1>1. queue = <<>>
  BY WriterAssumption DEF WriterInv, Staffed
<1> SUFFICES ASSUME NEW w \in Writes PROVE command[w] \notin {"queued", "busy"}
  BY DEF WriterInv, WriterTypeOK
<1>2. command[w] # "queued"
  BY <1>1 DEF WriterInv, Queued
<1>3. command[w] # "busy"
  BY WriterAssumption DEF WriterInv, Busy, Gone
<1> QED BY <1>2, <1>3

\* Opening the file, starting the workers and a start that fails.
LEMMA OpeningKeepsInv ==
  ASSUME WriterInv,
         OpenFails \/ Opened \/ WorkerReady \/ WorkerUnready \/ BuildFails
  PROVE  WriterInv'
<1> USE WriterAssumption DEF setup, routeVars, pendingVars, queueVars, workerVars, diskVars, Fault
<1>1. CASE OpenFails
  <2> USE <1>1 DEF OpenFails
  <2>1. Accounted' /\ PendingIsNotStranded' /\ Routed' /\ Honest' /\ Queued' /\ Busy'
    BY DEF WriterInv, Accounted, Unreported, PendingIsNotStranded, Routed, Honest, HasError, Queued, Busy
  <2>2. WriterTypeOK'
    BY DEF WriterInv, WriterTypeOK, Kinds, OwnerPhases, WorkerPhases
  <2>3. FinalizedOnce'
    BY DEF WriterInv, FinalizedOnce, Joining, WriterTypeOK
  <2>4. Staffed'
    BY DEF WriterInv, Staffed, Leaving, WriterTypeOK
  <2>5. Owned'
    BY NothingIsAsked DEF WriterInv, Staffed, Owned, NobodyIsLeft, Before, Late, Alone, Joining, Gone, WriterTypeOK
  <2>6. OnDisk'
    BY DEF WriterInv, OnDisk
  <2> QED BY <2>1, <2>2, <2>3, <2>4, <2>5, <2>6 DEF WriterInv
<1>2. CASE Opened
  <2> USE <1>2 DEF Opened
  <2>1. Accounted' /\ PendingIsNotStranded' /\ Routed' /\ Honest' /\ Queued'
    BY DEF WriterInv, Accounted, Unreported, PendingIsNotStranded, Routed, Honest, HasError, Queued
  <2>2. WriterTypeOK'
    BY DEF WriterInv, WriterTypeOK, Kinds, OwnerPhases, WorkerPhases
  <2>3. FinalizedOnce'
    BY DEF WriterInv, FinalizedOnce, Joining, WriterTypeOK
  <2>4. Busy'
    <3>1. \A k \in Workers : worker'[k] # "writing"
      BY DEF WriterInv, Staffed, WriterTypeOK
    <3> QED BY <3>1, NothingIsAsked DEF WriterInv, Busy, Before
  <2>5. Staffed'
    BY DEF WriterInv, Staffed, Leaving, WriterTypeOK
  <2>6. Owned'
    BY DEF WriterInv, Owned, NobodyIsLeft, Before, Late, Alone, Joining, Gone, WriterTypeOK
  <2>7. OnDisk'
    BY DEF WriterInv, OnDisk
  <2> QED BY <2>1, <2>2, <2>3, <2>4, <2>5, <2>6, <2>7 DEF WriterInv
<1>3. CASE WorkerReady
  <2> USE <1>3 DEF WorkerReady
  <2>1. Accounted' /\ PendingIsNotStranded' /\ Routed' /\ Honest' /\ Queued'
    BY DEF WriterInv, Accounted, Unreported, PendingIsNotStranded, Routed, Honest, HasError, Queued
  <2>2. WriterTypeOK'
    BY DEF WriterInv, WriterTypeOK, Kinds, OwnerPhases, WorkerPhases
  <2>3. FinalizedOnce'
    BY DEF WriterInv, FinalizedOnce, Joining, WriterTypeOK
  <2>4. Busy'
    BY NothingIsAsked DEF WriterInv, Busy, Before, WriterTypeOK
  <2>5. Staffed'
    BY DEF WriterInv, Staffed, Leaving, WriterTypeOK
  <2>6. Owned'
    BY DEF WriterInv, Owned, NobodyIsLeft, Before, Late, Alone, Joining, Gone, WriterTypeOK
  <2>7. OnDisk'
    BY DEF WriterInv, OnDisk
  <2> QED BY <2>1, <2>2, <2>3, <2>4, <2>5, <2>6, <2>7 DEF WriterInv
<1>4. CASE WorkerUnready
  <2> USE <1>4 DEF WorkerUnready
  <2>1. Accounted' /\ PendingIsNotStranded' /\ Routed' /\ Honest' /\ Queued'
    BY DEF WriterInv, Accounted, Unreported, PendingIsNotStranded, Routed, Honest, HasError, Queued
  <2>2. WriterTypeOK'
    BY DEF WriterInv, WriterTypeOK, Kinds, OwnerPhases, WorkerPhases
  <2>3. FinalizedOnce'
    BY DEF WriterInv, FinalizedOnce, Joining, WriterTypeOK
  <2>4. Busy'
    BY NothingIsAsked DEF WriterInv, Busy, Before, WriterTypeOK
  <2>5. Staffed'
    BY DEF WriterInv, Staffed, Leaving, WriterTypeOK
  <2>6. Owned'
    BY DEF WriterInv, Owned, NobodyIsLeft, Before, Late, Alone, Joining, Gone, WriterTypeOK
  <2>7. OnDisk'
    BY DEF WriterInv, OnDisk
  <2> QED BY <2>1, <2>2, <2>3, <2>4, <2>5, <2>6, <2>7 DEF WriterInv
<1>5. CASE BuildFails
  <2> USE <1>5 DEF BuildFails
  <2>1. Accounted' /\ PendingIsNotStranded' /\ Routed' /\ Honest' /\ Queued' /\ Busy'
    BY DEF WriterInv, Accounted, Unreported, PendingIsNotStranded, Routed, Honest, HasError, Queued, Busy
  <2>2. WriterTypeOK'
    BY DEF WriterInv, WriterTypeOK, Kinds, OwnerPhases, WorkerPhases
  <2>3. FinalizedOnce'
    BY DEF WriterInv, FinalizedOnce, Joining, WriterTypeOK
  <2>4. Staffed'
    BY DEF WriterInv, Staffed, Leaving, WriterTypeOK
  <2>5. Owned'
    <3>1. \A k \in Workers : worker[k] \in Gone
      BY DEF WriterInv, Staffed, Gone, WriterTypeOK
    <3> QED BY <3>1, NothingIsAsked DEF WriterInv, Owned, NobodyIsLeft, Before, Late, Alone, Joining, Gone, WriterTypeOK
  <2>6. OnDisk'
    BY DEF WriterInv, OnDisk
  <2> QED BY <2>1, <2>2, <2>3, <2>4, <2>5, <2>6 DEF WriterInv
<1> QED BY <1>1, <1>2, <1>3, <1>4, <1>5

\* The owner ends the download, joins the workers and syncs the file.
LEMMA FinishKeepsInv ==
  ASSUME WriterInv,
         \/ Finish \/ Flushed \/ TasksGone \/ SendFinalize
         \/ FinalizeRefused \/ FinalizeAnswered \/ Joined \/ SyncAll
  PROVE  WriterInv'
<1> USE WriterAssumption DEF setup, routeVars, pendingVars, queueVars, workerVars, diskVars
<1>1. CASE Finish
  <2> USE <1>1 DEF Finish
  <2>1. Accounted' /\ PendingIsNotStranded' /\ Routed' /\ Honest' /\ Queued' /\ Busy'
    BY DEF WriterInv, Accounted, Unreported, PendingIsNotStranded, Routed, Honest, HasError, Queued, Busy
  <2>2. WriterTypeOK'
    BY DEF WriterInv, WriterTypeOK, Kinds, OwnerPhases, WorkerPhases
  <2>3. FinalizedOnce'
    BY DEF WriterInv, FinalizedOnce, Joining, WriterTypeOK
  <2>4. Staffed'
    BY DEF WriterInv, Staffed, Leaving, WriterTypeOK
  <2>5. Owned'
    BY DEF WriterInv, Owned, NobodyIsLeft, Before, Late, Alone, Joining, Gone, WriterTypeOK
  <2>6. OnDisk'
    BY DEF WriterInv, OnDisk
  <2> QED BY <2>1, <2>2, <2>3, <2>4, <2>5, <2>6 DEF WriterInv
<1>2. CASE Flushed
  <2> USE <1>2 DEF Flushed
  <2>1. Accounted' /\ PendingIsNotStranded' /\ Routed' /\ Honest' /\ Queued' /\ Busy'
    BY DEF WriterInv, Accounted, Unreported, PendingIsNotStranded, Routed, Honest, HasError, Queued, Busy
  <2>2. WriterTypeOK'
    BY DEF WriterInv, WriterTypeOK, Kinds, OwnerPhases, WorkerPhases
  <2>3. FinalizedOnce'
    BY DEF WriterInv, FinalizedOnce, Joining, WriterTypeOK
  <2>4. Staffed'
    BY DEF WriterInv, Staffed, Leaving, WriterTypeOK
  <2>5. Owned'
    BY DEF WriterInv, Owned, NobodyIsLeft, Before, Late, Alone, Joining, Gone, WriterTypeOK
  <2>6. OnDisk'
    BY DEF WriterInv, OnDisk
  <2> QED BY <2>1, <2>2, <2>3, <2>4, <2>5, <2>6 DEF WriterInv
<1>3. CASE TasksGone
  <2> USE <1>3 DEF TasksGone
  <2>1. Accounted' /\ PendingIsNotStranded' /\ Routed' /\ Honest' /\ Queued' /\ Busy'
    BY DEF WriterInv, Accounted, Unreported, PendingIsNotStranded, Routed, Honest, HasError, Queued, Busy
  <2>2. WriterTypeOK'
    BY DEF WriterInv, WriterTypeOK, Kinds, OwnerPhases, WorkerPhases
  <2>3. FinalizedOnce'
    BY DEF WriterInv, FinalizedOnce, Joining, WriterTypeOK
  <2>4. Staffed'
    BY DEF WriterInv, Staffed, Leaving, WriterTypeOK
  <2>5. Owned'
    BY DEF WriterInv, Owned, NobodyIsLeft, Before, Late, Alone, Joining, Gone, WriterTypeOK
  <2>6. OnDisk'
    BY DEF WriterInv, OnDisk
  <2> QED BY <2>1, <2>2, <2>3, <2>4, <2>5, <2>6 DEF WriterInv
<1>4. CASE SendFinalize
  <2> USE <1>4 DEF SendFinalize
  <2>1. Accounted' /\ PendingIsNotStranded' /\ Routed' /\ Honest' /\ Busy'
    BY DEF WriterInv, Accounted, Unreported, PendingIsNotStranded, Routed, Honest, HasError, Busy
  <2>2. WriterTypeOK'
    BY DEF WriterInv, WriterTypeOK, Kinds, OwnerPhases, WorkerPhases
  <2>3. Queued'
    <3>1. \A i \in DOMAIN queue : queue[i] # Finalize
      BY DEF WriterInv, FinalizedOnce
    <3>2. /\ DOMAIN queue' = 1 .. Len(queue) + 1 /\ queue'[Len(queue) + 1] = Finalize
          /\ \A i \in DOMAIN queue : i \in DOMAIN queue' /\ queue'[i] = queue[i]
      BY DEF WriterInv, WriterTypeOK
    <3> QED BY <3>1, <3>2, WritesAreNumbers DEF WriterInv, Queued, WriterTypeOK
  <2>4. FinalizedOnce'
    BY DEF WriterInv, FinalizedOnce, Joining, WriterTypeOK
  <2>5. Staffed'
    BY DEF WriterInv, Staffed, Leaving, HasRoom, WriterTypeOK
  <2>6. Owned'
    BY DEF WriterInv, Owned, NobodyIsLeft, Before, Late, Alone, Joining, Gone, WriterTypeOK
  <2>7. OnDisk'
    BY DEF WriterInv, OnDisk
  <2> QED BY <2>1, <2>2, <2>3, <2>4, <2>5, <2>6, <2>7 DEF WriterInv
<1>5. CASE FinalizeRefused
  <2> USE <1>5 DEF FinalizeRefused
  <2>1. Accounted' /\ PendingIsNotStranded' /\ Routed' /\ Honest' /\ Queued' /\ Busy'
    BY DEF WriterInv, Accounted, Unreported, PendingIsNotStranded, Routed, Honest, HasError, Queued, Busy
  <2>2. WriterTypeOK'
    BY DEF WriterInv, WriterTypeOK, Kinds, OwnerPhases, WorkerPhases
  <2>3. FinalizedOnce'
    BY DEF WriterInv, FinalizedOnce, Joining, WriterTypeOK
  <2>4. Staffed'
    BY DEF WriterInv, Staffed, Leaving, WriterTypeOK
  <2>5. Owned'
    BY DEF WriterInv, Owned, NobodyIsLeft, Before, Late, Alone, Joining, Gone, WriterTypeOK
  <2>6. OnDisk'
    BY DEF WriterInv, OnDisk
  <2> QED BY <2>1, <2>2, <2>3, <2>4, <2>5, <2>6 DEF WriterInv
<1>6. CASE FinalizeAnswered
  <2> USE <1>6 DEF FinalizeAnswered
  <2>1. Accounted' /\ PendingIsNotStranded' /\ Routed' /\ Honest' /\ Queued' /\ Busy'
    BY DEF WriterInv, Accounted, Unreported, PendingIsNotStranded, Routed, Honest, HasError, Queued, Busy
  <2>2. WriterTypeOK'
    BY DEF WriterInv, WriterTypeOK, Kinds, OwnerPhases, WorkerPhases
  <2>3. FinalizedOnce'
    BY DEF WriterInv, FinalizedOnce, Joining, WriterTypeOK
  <2>4. Staffed'
    BY DEF WriterInv, Staffed, Leaving, WriterTypeOK
  <2>5. Owned'
    BY DEF WriterInv, Owned, NobodyIsLeft, Before, Late, Alone, Joining, Gone, WriterTypeOK
  <2>6. OnDisk'
    BY DEF WriterInv, OnDisk
  <2> QED BY <2>1, <2>2, <2>3, <2>4, <2>5, <2>6 DEF WriterInv
<1>7. CASE Joined
  <2> USE <1>7 DEF Joined
  <2>1. Accounted' /\ PendingIsNotStranded' /\ Routed' /\ Honest' /\ Queued' /\ Busy'
    BY DEF WriterInv, Accounted, Unreported, PendingIsNotStranded, Routed, Honest, HasError, Queued, Busy
  <2>2. WriterTypeOK'
    BY DEF WriterInv, WriterTypeOK, Kinds, OwnerPhases, WorkerPhases
  <2>3. FinalizedOnce'
    BY DEF WriterInv, FinalizedOnce, Joining, WriterTypeOK
  <2>4. Staffed'
    BY DEF WriterInv, Staffed, Leaving, WriterTypeOK
  <2>5. Owned'
    <3>1. \A k \in Workers : worker[k] \in Gone
      BY DEF Gone
    <3>2. worker[Single] = "exited"
      BY <3>1 DEF WriterInv, Staffed, Gone
    <3>3. \A w \in Writes : command[w] \in {"none", "over"}
      BY <3>1, <3>2, NothingIsLeft
    <3> QED BY <3>1, <3>3 DEF WriterInv, Owned, NobodyIsLeft, Before, Late, Alone, Joining, Gone, WriterTypeOK
  <2>6. OnDisk'
    BY DEF WriterInv, OnDisk
  <2> QED BY <2>1, <2>2, <2>3, <2>4, <2>5, <2>6 DEF WriterInv
<1>8. CASE SyncAll
  <2> USE <1>8 DEF SyncAll
  <2>1. Accounted' /\ PendingIsNotStranded' /\ Routed' /\ Honest' /\ Queued' /\ Busy'
    BY DEF WriterInv, Accounted, Unreported, PendingIsNotStranded, Routed, Honest, HasError, Queued, Busy
  <2>2. WriterTypeOK'
    <3>1. synced' \subseteq Writes
      BY DEF WriterInv, WriterTypeOK, InFile
    <3>2. failed' \in BOOLEAN
      BY DEF WriterInv, WriterTypeOK
    <3>3. faults' \in 0 .. MaxFaults
      BY DEF WriterInv, WriterTypeOK, Fault
    <3> QED BY <3>1, <3>2, <3>3 DEF WriterInv, WriterTypeOK, OwnerPhases
  <2>3. FinalizedOnce'
    BY DEF WriterInv, FinalizedOnce, Joining, WriterTypeOK
  <2>4. Staffed'
    BY DEF WriterInv, Staffed, Leaving, WriterTypeOK
  <2>5. Owned'
    <3>1. worker[Single] = "exited"
      BY DEF WriterInv, Owned, Staffed, Gone
    <3>2. \A w \in Writes : command[w] \in {"none", "over"}
      BY <3>1, NothingIsLeft DEF WriterInv, Owned
    <3> QED BY <3>2 DEF WriterInv, Owned, NobodyIsLeft, Before, Late, Alone, Joining, Gone, WriterTypeOK
  <2>6. OnDisk'
    BY FlushedIsInFile DEF WriterInv, OnDisk, Owned, Late, Alone, Joining
  <2> QED BY <2>1, <2>2, <2>3, <2>4, <2>5, <2>6 DEF WriterInv
<1> QED BY <1>1, <1>2, <1>3, <1>4, <1>5, <1>6, <1>7, <1>8


-----------------------------------------------------------------------------
(* The end of a command.                                                   *)

\* A command that ends is reported or answered, once: the guards and the
\* completions go on to agree.
LEMMA AnswerAccounts ==
  ASSUME WriterInv, NEW w \in Writes, NEW ok \in BOOLEAN,
         command[w] \in {"queued", "busy"}, Answer(w, ok),
         UNCHANGED inFlight
  PROVE  /\ guard' \in [Writes -> {"none", "task", "command", "reported"}]
         /\ reply' \in [Writes -> {"none", "ok", "err"}]
         /\ completions' \in Seq(Completion)
         /\ Accounted'
         /\ guard[w] = "command" =>
              (HasError(completions)' <=> HasError(completions) \/ ~ok)
         /\ guard[w] # "command" => UNCHANGED <<guard, completions>>
<1>1. CASE guard[w] = "command"
  <2>1. /\ guard' = [guard EXCEPT ![w] = "reported"]
        /\ completions' = Publish(completions, w, ok) /\ reply' = reply
    BY <1>1 DEF Answer
  <2>2. Len(completions) <= Capacity
    BY UnreportedIsFinite, WriterAssumption DEF WriterInv, Accounted, WriterTypeOK
  <2>3. /\ completions' \in Seq(Completion)
        /\ Len(completions') = Len(completions) + 1
        /\ HasError(completions') <=> HasError(completions) \/ ~ok
    BY <2>1, <2>2, PublishAppends DEF WriterInv, WriterTypeOK
  <2>4. Cardinality(Unreported)' = Cardinality(Unreported) - 1
    BY <1>1, <2>1, GuardReports DEF WriterInv
  <2>5. Accounted'
    BY <2>3, <2>4, UnreportedIsFinite DEF WriterInv, Accounted, WriterTypeOK
  <2>6. HasError(completions)' <=> HasError(completions) \/ ~ok
    BY <2>3 DEF HasError
  <2> QED BY <1>1, <2>1, <2>3, <2>5, <2>6 DEF WriterInv, WriterTypeOK
<1>2. CASE guard[w] # "command"
  <2>1. /\ UNCHANGED <<guard, completions>>
        /\ reply' = [reply EXCEPT ![w] = IF ok THEN "ok" ELSE "err"]
    BY <1>2 DEF Answer
  <2>2. Accounted'
    BY <2>1 DEF WriterInv, Accounted, Unreported
  <2> QED BY <1>2, <2>1, <2>2 DEF WriterInv, WriterTypeOK
<1> QED BY <1>1, <1>2

\* What was in the file stays there, and the write that ends well is there.
WritesOn(w, ok) ==
  /\ \A v \in Writes : written[v] = Parts => written'[v] = Parts
  /\ ok /\ kind # "null" => written'[w] = Parts

\* The write that ends is reported or answered as what it is.
LEMMA AnswerIsHonest ==
  ASSUME WriterInv, NEW w \in Writes, NEW ok \in BOOLEAN,
         command[w] \in {"queued", "busy"}, Answer(w, ok), WritesOn(w, ok),
         UNCHANGED <<kind, accepted, task, inFlight, pending, sawError>>
  PROVE  PendingIsNotStranded' /\ Routed' /\ Honest'
<1>1. PendingIsNotStranded'
  BY DEF WriterInv, PendingIsNotStranded
<1>2. /\ command' = [command EXCEPT ![w] = "over"]
      /\ \/ guard[w] = "command" /\ guard' = [guard EXCEPT ![w] = "reported"] /\ reply' = reply
         \/ /\ guard[w] # "command" /\ guard' = guard /\ completions' = completions
            /\ reply' = [reply EXCEPT ![w] = IF ok THEN "ok" ELSE "err"]
  BY DEF Answer
<1>3. Routed'
  BY <1>2 DEF WriterInv, Routed, WriterTypeOK
<1>4. Honest'
  <2> SUFFICES ASSUME kind # "null", NEW v \in Writes
               PROVE  /\ guard'[v] = "reported" /\ ~sawError /\ ~HasError(completions)'
                           => written'[v] = Parts
                      /\ reply'[v] = "ok" => written'[v] = Parts
    BY DEF Honest, HasError
  <2>1. CASE guard[w] = "command"
    <3>1. HasError(completions)' <=> HasError(completions) \/ ~ok
      BY <2>1, AnswerAccounts
    <3> QED BY <1>2, <2>1, <3>1 DEF WriterInv, Honest, WritesOn, WriterTypeOK
  <2>2. CASE guard[w] # "command"
    <3>1. HasError(completions)' <=> HasError(completions)
      BY <1>2, <2>2 DEF HasError
    <3> QED BY <1>2, <2>2, <3>1 DEF WriterInv, Honest, WritesOn, WriterTypeOK
  <2> QED BY <2>1, <2>2
<1> QED BY <1>1, <1>3, <1>4

\* A worker ends its write, and goes on or leaves.
LEMMA EndOfWriteKeepsInv ==
  ASSUME WriterInv, NEW k \in Workers, NEW ok \in BOOLEAN, NEW next \in {"idle", "closing"},
         worker[k] = "writing", Answer(item[k], ok), WritesOn(item[k], ok),
         worker' = [worker EXCEPT ![k] = next], item' = [item EXCEPT ![k] = NoWrite],
         written' \in [Writes -> 0 .. Parts], faults' \in 0 .. MaxFaults,
         UNCHANGED <<setup, phase, accepted, task, pendingVars, queueVars, synced, ack, failed>>
  PROVE  WriterInv'
<1> USE DEF setup, pendingVars, queueVars
<1>1. /\ item[k] \in Writes /\ command[item[k]] = "busy"
      /\ command' = [command EXCEPT ![item[k]] = "over"]
  BY DEF WriterInv, Busy, Answer
<1>2. WriterTypeOK'
  BY <1>1, AnswerAccounts DEF WriterInv, WriterTypeOK, WorkerPhases
<1>3. Accounted' /\ PendingIsNotStranded' /\ Routed' /\ Honest'
  BY <1>1, AnswerAccounts, AnswerIsHonest
<1>4. Queued'
  BY <1>1, WritesAreNumbers DEF WriterInv, Queued, WriterTypeOK
<1>5. FinalizedOnce'
  BY DEF WriterInv, FinalizedOnce, WriterTypeOK
<1>6. Busy'
  BY <1>1, WriterAssumption DEF WriterInv, Busy, WriterTypeOK
<1>7. Staffed'
  BY WriterAssumption DEF WriterInv, Staffed, Leaving, WriterTypeOK
<1>8. Owned'
  BY <1>1 DEF WriterInv, Owned, NobodyIsLeft, Gone, WriterTypeOK
<1>9. OnDisk'
  BY DEF WriterInv, OnDisk
<1> QED BY <1>2, <1>3, <1>4, <1>5, <1>6, <1>7, <1>8, <1>9 DEF WriterInv

\* A worker writes a part, all or nothing of its write.
LEMMA WriteKeepsInv ==
  ASSUME WriterInv, NEW k \in Workers,
         WritePart(k) \/ WriteAll(k) \/ WriteFails(k) \/ WorkerPanics(k)
  PROVE  WriterInv'
<1>1. worker[k] = "writing" /\ item[k] \in Writes
  BY DEF WriterInv, Busy, WritePart, WriteAll, WriteFails, WorkerPanics
<1>2. CASE WritePart(k)
  <2> USE <1>2 DEF WritePart, setup, routeVars, pendingVars, queueVars, workerVars
  <2>1. PICK n \in 1 .. (Parts - 1) :
          written[item[k]] + n < Parts /\ written' = [written EXCEPT ![item[k]] = @ + n]
    OBVIOUS
  <2>2. written' \in [Writes -> 0 .. Parts]
        /\ \A v \in Writes : written[v] = Parts => written'[v] = Parts
    BY <1>1, <2>1, WriterAssumption DEF WriterInv, WriterTypeOK
  <2>3. WriterTypeOK'
    BY <2>2 DEF WriterInv, WriterTypeOK
  <2>4. Honest'
    BY <2>2 DEF WriterInv, Honest, HasError
  <2>5. /\ Accounted' /\ PendingIsNotStranded' /\ Routed' /\ Queued' /\ FinalizedOnce'
        /\ Busy' /\ Staffed' /\ Owned' /\ OnDisk'
    BY DEF WriterInv, Accounted, Unreported, PendingIsNotStranded, Routed, Queued, FinalizedOnce,
           Busy, Staffed, Owned, NobodyIsLeft, OnDisk
  <2> QED BY <2>3, <2>4, <2>5 DEF WriterInv
<1>3. CASE WriteAll(k)
  <2> USE <1>3 DEF WriteAll, Rested
  <2>1. WritesOn(item[k], TRUE) /\ written' \in [Writes -> 0 .. Parts]
    BY <1>1, WriterAssumption DEF WritesOn, WriterInv, WriterTypeOK
  <2>2. faults' \in 0 .. MaxFaults
    BY DEF WriterInv, WriterTypeOK
  <2> QED BY <1>1, <2>1, <2>2, EndOfWriteKeepsInv
<1>4. CASE WriteFails(k)
  <2> USE <1>4 DEF WriteFails, Rested, diskVars
  <2>1. WritesOn(item[k], FALSE) /\ written' \in [Writes -> 0 .. Parts]
    BY DEF WritesOn, WriterInv, WriterTypeOK
  <2>2. faults' \in 0 .. MaxFaults
    BY WriterAssumption DEF WriterInv, WriterTypeOK, Fault
  <2> QED BY <1>1, <2>1, <2>2, EndOfWriteKeepsInv
<1>5. CASE WorkerPanics(k)
  <2> USE <1>5 DEF WorkerPanics, diskVars
  <2>1. WritesOn(item[k], FALSE) /\ written' \in [Writes -> 0 .. Parts]
    BY DEF WritesOn, WriterInv, WriterTypeOK
  <2>2. faults' \in 0 .. MaxFaults
    BY WriterAssumption DEF WriterInv, WriterTypeOK, Fault
  <2> QED BY <1>1, <2>1, <2>2, EndOfWriteKeepsInv
<1> QED BY <1>2, <1>3, <1>4, <1>5

\* A write that the compio worker has spawned ends.
LEMMA SpawnedWriteKeepsInv ==
  ASSUME WriterInv, NEW w \in Writes, SpawnedWriteEnds(w)
  PROVE  WriterInv'
<1> USE DEF SpawnedWriteEnds, setup, pendingVars, queueVars, workerVars
<1>1. PICK ok \in BOOLEAN :
        /\ Answer(w, ok) /\ WritesOn(w, ok)
        /\ written' \in [Writes -> 0 .. Parts] /\ faults' \in 0 .. MaxFaults
  <2>1. CASE written' = [written EXCEPT ![w] = Parts] /\ Answer(w, TRUE) /\ UNCHANGED faults
    <3>1. WritesOn(w, TRUE) /\ written' \in [Writes -> 0 .. Parts] /\ faults' \in 0 .. MaxFaults
      BY <2>1, WriterAssumption DEF WritesOn, WriterInv, WriterTypeOK
    <3> QED BY <2>1, <3>1
  <2>2. CASE Fault("write") /\ Answer(w, FALSE) /\ UNCHANGED written
    <3>1. WritesOn(w, FALSE) /\ written' \in [Writes -> 0 .. Parts] /\ faults' \in 0 .. MaxFaults
      BY <2>2, WriterAssumption DEF WritesOn, WriterInv, WriterTypeOK, Fault
    <3> QED BY <2>2, <3>1
  <2> QED BY <2>1, <2>2
<1>2. command[w] = "busy" /\ command' = [command EXCEPT ![w] = "over"]
  BY <1>1 DEF Answer
<1>3. WriterTypeOK'
  BY <1>1, <1>2, AnswerAccounts DEF WriterInv, WriterTypeOK
<1>4. Accounted' /\ PendingIsNotStranded' /\ Routed' /\ Honest'
  BY <1>1, <1>2, AnswerAccounts, AnswerIsHonest
<1>5. Queued' /\ FinalizedOnce' /\ Staffed'
  BY <1>2, WritesAreNumbers DEF WriterInv, Queued, FinalizedOnce, Staffed, WriterTypeOK
<1>6. Busy'
  BY <1>2 DEF WriterInv, Busy, WriterTypeOK
<1>7. Owned' /\ OnDisk'
  BY <1>2 DEF WriterInv, Owned, NobodyIsLeft, OnDisk, WriterTypeOK
<1> QED BY <1>3, <1>4, <1>5, <1>6, <1>7 DEF WriterInv

-----------------------------------------------------------------------------
(* The workers and the queue.                                              *)

\* The rest of the queue once its head was taken.
LEMMA TailOfQueue ==
  ASSUME WriterTypeOK, queue # <<>>, queue' = Tail(queue)
  PROVE  /\ 1 \in DOMAIN queue /\ Head(queue) = queue[1]
         /\ Head(queue) \in Writes \union {Finalize}
         /\ queue' \in Seq(Writes \union {Finalize})
         /\ \A i \in DOMAIN queue' : i + 1 \in DOMAIN queue /\ queue'[i] = queue[i + 1]
         /\ \A i \in DOMAIN queue : i = 1 \/ (i - 1 \in DOMAIN queue' /\ queue'[i - 1] = queue[i])
BY DEF WriterTypeOK

\* What is left in the queue is still there once, without its head.
LEMMA TailIsQueued ==
  ASSUME WriterInv, queue # <<>>, queue' = Tail(queue),
         \A w \in Writes : w # Head(queue) => command'[w] = command[w],
         Head(queue) # Finalize => command'[Head(queue)] # "queued"
  PROVE  /\ Queued'
         /\ \A i \in DOMAIN queue' : queue'[i] # Head(queue)
<1> USE TailOfQueue DEF WriterInv
<1>1. \A i \in DOMAIN queue' : queue'[i] # Head(queue)
  BY DEF Queued
<1>2. \A i \in DOMAIN queue' : queue'[i] \in Writes \union {Finalize}
  OBVIOUS
<1>3. \A i \in DOMAIN queue' : queue'[i] # Finalize => command'[queue'[i]] = "queued"
  BY <1>1, <1>2 DEF Queued
<1>4. ASSUME NEW w \in Writes, command'[w] = "queued"
      PROVE  \E i \in DOMAIN queue' : queue'[i] = w
  <2>1. w # Head(queue) /\ command[w] = "queued"
    BY <1>4, WritesAreNumbers
  <2>2. PICK i \in DOMAIN queue : queue[i] = w
    BY <2>1 DEF Queued
  <2>3. i - 1 \in DOMAIN queue' /\ queue'[i - 1] = w
    BY <2>1, <2>2
  <2> QED BY <2>3
<1>5. ASSUME NEW i \in DOMAIN queue', NEW j \in DOMAIN queue', queue'[i] = queue'[j]
      PROVE  i = j
  <2>1. i + 1 = j + 1
    BY <1>5 DEF Queued
  <2> QED BY <2>1 DEF WriterTypeOK
<1> QED BY <1>1, <1>3, <1>4, <1>5 DEF Queued

\* A worker takes a write, which is busy from then on.
LEMMA TakeWriteKeepsInv ==
  ASSUME WriterInv, NEW k \in Workers, TakeWrite(k)
  PROVE  WriterInv'
<1> USE DEF TakeWrite, setup, pendingVars, workerVars, diskVars
<1> DEFINE w == Head(queue)
<1>1. w \in Writes /\ command' = [command EXCEPT ![w] = "busy"] /\ command[w] = "queued"
  BY TailOfQueue DEF WriterInv, Queued
<1>2. /\ worker' \in [Workers -> WorkerPhases] /\ item' \in [Workers -> Writes \union {NoWrite}]
      /\ \A l \in Workers : l # k => worker'[l] = worker[l] /\ item'[l] = item[l]
      /\ IF kind = "compio" THEN worker'[k] = "idle" ELSE worker'[k] = "writing" /\ item'[k] = w
  <2>1. CASE kind = "compio"
    BY <2>1 DEF WriterInv, WriterTypeOK
  <2>2. CASE kind # "compio"
    <3>1. worker' = [worker EXCEPT ![k] = "writing"] /\ item' = [item EXCEPT ![k] = w]
      BY <2>2
    <3> QED BY <1>1, <2>2, <3>1 DEF WriterInv, WriterTypeOK, WorkerPhases
  <2> QED BY <2>1, <2>2
<1>3. WriterTypeOK'
  BY <1>1, <1>2, TailOfQueue DEF WriterInv, WriterTypeOK
<1>4. Accounted' /\ PendingIsNotStranded' /\ Honest' /\ OnDisk'
  BY DEF WriterInv, Accounted, Unreported, PendingIsNotStranded, Honest, HasError, OnDisk
<1>5. Routed'
  BY <1>1 DEF WriterInv, Routed, WriterTypeOK
<1>6. Queued'
  BY <1>1, TailIsQueued DEF WriterInv, WriterTypeOK
<1>7. FinalizedOnce'
  <2>1. \A l \in Workers : worker'[l] = "finalizing" => l # k /\ worker[l] = "finalizing"
    BY <1>2
  <2> QED BY <2>1, TailOfQueue DEF WriterInv, FinalizedOnce
<1>8. Busy'
  <2>1. \A l \in Workers : worker[l] = "writing" => item[l] # w
    BY <1>1 DEF WriterInv, Busy
  <2>2. \A l \in Workers : worker'[l] = "writing" =>
          \/ kind # "compio" /\ l = k /\ item'[l] = w
          \/ worker[l] = "writing" /\ item'[l] = item[l] /\ l # k
    BY <1>2
  <2>3. \A l \in Workers : worker'[l] = "writing" =>
          kind # "compio" /\ item'[l] \in Writes /\ command'[item'[l]] = "busy"
    BY <1>1, <2>1, <2>2 DEF WriterInv, Busy, WriterTypeOK
  <2>4. \A l, m \in Workers :
          worker'[l] = "writing" /\ worker'[m] = "writing" /\ item'[l] = item'[m] => l = m
    BY <2>1, <2>2 DEF WriterInv, Busy
  <2>5. ASSUME NEW v \in Writes, command'[v] = "busy"
        PROVE  IF kind = "compio" THEN worker'[Single] \in {"idle", "finalizing"}
               ELSE \E l \in Workers : worker'[l] = "writing" /\ item'[l] = v
    <3>1. CASE kind = "compio"
      BY <1>2, <3>1, WriterAssumption DEF WriterInv, Staffed
    <3>2. CASE kind # "compio" /\ v = w
      BY <1>2, <3>2
    <3>3. CASE kind # "compio" /\ v # w
      <4>1. PICK l \in Workers : worker[l] = "writing" /\ item[l] = v
        BY <1>1, <2>5, <3>3 DEF WriterInv, Busy, WriterTypeOK
      <4> QED BY <1>2, <3>3, <4>1
    <3> QED BY <3>1, <3>2, <3>3
  <2> QED BY <2>3, <2>4, <2>5 DEF WriterInv, Busy
<1>9. Staffed'
  <2>1. \A l \in Workers : worker[l] # "exited"
    BY DEF WriterInv, Staffed
  <2> QED BY <1>2, <2>1, WriterAssumption DEF WriterInv, Staffed, Leaving, WriterTypeOK
<1>10. Owned'
  BY <1>1, <1>2 DEF WriterInv, Owned, NobodyIsLeft, Gone, WriterTypeOK
<1> QED BY <1>3, <1>4, <1>5, <1>6, <1>7, <1>8, <1>9, <1>10 DEF WriterInv

\* A worker takes the finalize command, answers it, or sees that the queue is over.
LEMMA WorkerLeavesInv ==
  ASSUME WriterInv, NEW k \in Workers,
         TakeFinalize(k) \/ Finalizes(k) \/ ReceiveFails(k) \/ CloseQueue(k) \/ WorkerExits(k)
  PROVE  WriterInv'
<1> USE WriterAssumption DEF setup, routeVars, pendingVars, queueVars, diskVars
<1>1. CASE TakeFinalize(k)
  <2> USE <1>1 DEF TakeFinalize
  <2>1. /\ Accounted' /\ PendingIsNotStranded' /\ Routed' /\ Honest' /\ OnDisk'
    BY DEF WriterInv, Accounted, Unreported, PendingIsNotStranded, Routed, Honest, HasError, OnDisk
  <2>2. WriterTypeOK'
    BY TailOfQueue DEF WriterInv, WriterTypeOK, WorkerPhases
  <2>3. Queued' /\ \A i \in DOMAIN queue' : queue'[i] # Finalize
    BY TailIsQueued
  <2>4. /\ phase = "answer" /\ ack = "none"
        /\ \A l \in Workers : worker[l] # "finalizing"
    BY TailOfQueue DEF WriterInv, FinalizedOnce
  <2>5. FinalizedOnce'
    BY <2>3, <2>4 DEF WriterInv, FinalizedOnce, WriterTypeOK
  <2>6. Busy'
    BY DEF WriterInv, Busy, WriterTypeOK
  <2>7. Staffed'
    BY DEF WriterInv, Staffed, Leaving, WriterTypeOK
  <2>8. Owned'
    BY <2>4 DEF WriterInv, Owned, NobodyIsLeft, WriterTypeOK
  <2> QED BY <2>1, <2>2, <2>3, <2>5, <2>6, <2>7, <2>8 DEF WriterInv
<1>2. CASE Finalizes(k)
  <2> USE <1>2 DEF Finalizes
  <2>1. /\ Accounted' /\ PendingIsNotStranded' /\ Routed' /\ Honest' /\ Queued'
    BY DEF WriterInv, Accounted, Unreported, PendingIsNotStranded, Routed, Honest, HasError, Queued
  <2>2. phase = "answer" /\ ack = "none" /\ inFlight = 0 /\ ack' \in {"ok", "err"}
    BY DEF WriterInv, FinalizedOnce, Owned, Late, Alone
  <2>3. WriterTypeOK'
    <3>1. synced' \subseteq Writes
      BY DEF WriterInv, WriterTypeOK, InFile
    <3>2. faults' \in 0 .. MaxFaults
      BY DEF WriterInv, WriterTypeOK, Fault
    <3> QED BY <2>2, <3>1, <3>2 DEF WriterInv, WriterTypeOK, WorkerPhases
  <2>4. FinalizedOnce'
    BY <2>2 DEF WriterInv, FinalizedOnce, Joining, WriterTypeOK
  <2>5. Busy'
    BY DEF WriterInv, Busy, WriterTypeOK
  <2>6. Staffed'
    BY <2>2 DEF WriterInv, Staffed, Leaving, WriterTypeOK
  <2>7. Owned'
    BY <2>2 DEF WriterInv, Owned, NobodyIsLeft, Joining, WriterTypeOK
  <2>8. OnDisk'
    BY <2>2, FlushedIsInFile DEF WriterInv, OnDisk
  <2> QED BY <2>1, <2>3, <2>4, <2>5, <2>6, <2>7, <2>8 DEF WriterInv
<1>3. CASE ReceiveFails(k) \/ CloseQueue(k) \/ WorkerExits(k)
  <2> USE <1>3 DEF ReceiveFails, CloseQueue, WorkerExits
  <2>0. /\ UNCHANGED <<setup, phase, accepted, routeVars, pendingVars, queue, item, diskVars, ack,
                      failed, faults>>
        /\ \E next \in Leaving : worker' = [worker EXCEPT ![k] = next]
    BY DEF Leaving
  <2>1. /\ Accounted' /\ PendingIsNotStranded' /\ Routed' /\ Honest' /\ Queued' /\ OnDisk'
    BY <2>0 DEF WriterInv, Accounted, Unreported, PendingIsNotStranded, Routed, Honest, HasError, Queued,
           OnDisk
  <2>2. WriterTypeOK'
    <3>1. worker' \in [Workers -> WorkerPhases]
      BY <2>0 DEF WriterInv, WriterTypeOK, WorkerPhases, Leaving
    <3>2. queueClosed' \in BOOLEAN
      BY DEF WriterInv, WriterTypeOK
    <3> QED BY <2>0, <3>1, <3>2, SMTT(20) DEF WriterInv, WriterTypeOK
  <2>3. FinalizedOnce'
    BY <2>0 DEF WriterInv, FinalizedOnce, Leaving, WriterTypeOK
  <2>4. Busy'
    <3>1. worker[k] # "writing" /\ worker[k] # "finalizing"
      OBVIOUS
    <3>2. kind = "compio" /\ k = Single => worker[k] # "idle"
      BY DEF WriterInv, Staffed, Leaving
    <3>3. \A l \in Workers : worker'[l] = "writing" <=> worker[l] = "writing"
      BY <2>0, <3>1 DEF WriterInv, WriterTypeOK, Leaving
    <3>4. kind = "compio" /\ worker[Single] \in {"idle", "finalizing"} => worker'[Single] = worker[Single]
      BY <2>0, <3>1, <3>2 DEF WriterInv, WriterTypeOK
    <3> QED BY <2>0, <3>3, <3>4 DEF WriterInv, Busy
  <2>5. Staffed'
    BY DEF WriterInv, Staffed, Leaving, WriterTypeOK
  <2>6. Owned'
    BY DEF WriterInv, Owned, NobodyIsLeft, Gone, WriterTypeOK
  <2> QED BY <2>1, <2>2, <2>3, <2>4, <2>5, <2>6 DEF WriterInv
<1> QED BY <1>1, <1>2, <1>3

\* A worker that leaves drops a command.
LEMMA DropCommandKeepsInv ==
  ASSUME WriterInv, NEW k \in Workers, DropCommand(k)
  PROVE  WriterInv'
<1> USE WriterAssumption DEF DropCommand, setup, pendingVars, workerVars, diskVars
<1>1. CASE Head(queue) = Finalize
  <2>1. /\ ack' = "err" /\ UNCHANGED <<command, guard, completions, reply>>
        /\ phase = "answer" /\ ack = "none"
    BY <1>1, TailOfQueue DEF WriterInv, FinalizedOnce
  <2>2. /\ Accounted' /\ PendingIsNotStranded' /\ Routed' /\ Honest' /\ Busy'
    BY <2>1 DEF WriterInv, Accounted, Unreported, PendingIsNotStranded, Routed, Honest, HasError, Busy
  <2>3. WriterTypeOK'
    BY <2>1, TailOfQueue DEF WriterInv, WriterTypeOK
  <2>4. Queued' /\ \A i \in DOMAIN queue' : queue'[i] # Finalize
    BY <1>1, <2>1, TailIsQueued
  <2>5. FinalizedOnce'
    BY <1>1, <2>1, <2>4, TailOfQueue DEF WriterInv, FinalizedOnce, Joining
  <2>6. Staffed'
    BY <2>1 DEF WriterInv, Staffed, Leaving
  <2>7. Owned' /\ OnDisk'
    BY <2>1 DEF WriterInv, Owned, NobodyIsLeft, Joining, OnDisk
  <2> QED BY <2>2, <2>3, <2>4, <2>5, <2>6, <2>7 DEF WriterInv
<1>2. CASE Head(queue) # Finalize
  <2> DEFINE w == Head(queue)
  <2>1. /\ w \in Writes /\ command[w] = "queued" /\ Answer(w, FALSE) /\ UNCHANGED ack
    <3>1. Answer(w, FALSE) /\ UNCHANGED ack
      BY <1>2
    <3>2. 1 \in DOMAIN queue /\ w = queue[1] /\ w \in Writes \union {Finalize}
      BY TailOfQueue DEF WriterInv
    <3> QED BY <1>2, <3>1, <3>2 DEF WriterInv, Queued
  <2>2. command' = [command EXCEPT ![w] = "over"] /\ WritesOn(w, FALSE)
    BY <2>1 DEF Answer, WritesOn
  <2>3. Accounted' /\ PendingIsNotStranded' /\ Routed' /\ Honest'
    BY <2>1, <2>2, AnswerAccounts, AnswerIsHonest
  <2>4. WriterTypeOK'
    BY <2>1, <2>2, AnswerAccounts, TailOfQueue DEF WriterInv, WriterTypeOK
  <2>5. Queued'
    BY <1>2, <2>1, <2>2, TailIsQueued DEF WriterInv, WriterTypeOK
  <2>6. FinalizedOnce'
    BY <2>1, TailOfQueue DEF WriterInv, FinalizedOnce
  <2>7. Busy'
    BY <2>1, <2>2 DEF WriterInv, Busy, WriterTypeOK
  <2>8. Staffed'
    BY <2>1 DEF WriterInv, Staffed
  <2>9. Owned' /\ OnDisk'
    BY <2>1, <2>2 DEF WriterInv, Owned, NobodyIsLeft, OnDisk, WriterTypeOK
  <2> QED BY <2>3, <2>4, <2>5, <2>6, <2>7, <2>8, <2>9 DEF WriterInv
<1> QED BY <1>1, <1>2

-----------------------------------------------------------------------------
(* The pending writer and the tasks.                                       *)

\* A write that had no command is queued once.
LEMMA AppendIsQueued ==
  ASSUME WriterInv, NEW w \in Writes, command[w] = "none",
         queue' = Append(queue, w), command' = [command EXCEPT ![w] = "queued"]
  PROVE  /\ queue' \in Seq(Writes \union {Finalize})
         /\ command' \in [Writes -> {"none", "queued", "busy", "over"}]
         /\ Queued'
         /\ \A i \in DOMAIN queue' : queue'[i] = Finalize => i \in DOMAIN queue /\ queue[i] = Finalize
<1>1. /\ queue' \in Seq(Writes \union {Finalize})
      /\ DOMAIN queue' = DOMAIN queue \union {Len(queue) + 1}
      /\ Len(queue) + 1 \notin DOMAIN queue
      /\ queue'[Len(queue) + 1] = w
      /\ \A i \in DOMAIN queue : queue'[i] = queue[i]
  BY DEF WriterInv, WriterTypeOK
<1>2. \A i \in DOMAIN queue : queue[i] # w
  BY WritesAreNumbers DEF WriterInv, Queued
<1>3. \A i \in DOMAIN queue : queue[i] \in Writes \union {Finalize}
  BY DEF WriterInv, WriterTypeOK
<1>4. \A i \in DOMAIN queue' : queue'[i] # Finalize => command'[queue'[i]] = "queued"
  BY <1>1, <1>2, <1>3 DEF WriterInv, Queued, WriterTypeOK
<1>5. \A v \in Writes : command'[v] = "queued" => \E i \in DOMAIN queue' : queue'[i] = v
  <2> SUFFICES ASSUME NEW v \in Writes, command'[v] = "queued"
               PROVE  \E i \in DOMAIN queue' : queue'[i] = v
    OBVIOUS
  <2>1. CASE v = w
    BY <1>1, <2>1
  <2>2. CASE v # w
    <3>1. PICK i \in DOMAIN queue : queue[i] = v
      BY <2>2 DEF WriterInv, Queued, WriterTypeOK
    <3> QED BY <1>1, <3>1
  <2> QED BY <2>1, <2>2
<1>6. \A i, j \in DOMAIN queue' : queue'[i] = queue'[j] => i = j
  BY <1>1, <1>2 DEF WriterInv, Queued
<1> QED BY <1>1, <1>4, <1>5, <1>6, WritesAreNumbers DEF WriterInv, WriterTypeOK, Queued

\* A write goes from the owner to the queue or to a task, or is reported as failed.
\* Whichever it is, it is in flight or reported, once.
LEMMA DispatchKeeps ==
  ASSUME WriterInv, NEW w \in Writes, guard[w] = "none",
         NEW channel \in Seq(Completion), Len(channel) <= Capacity, Dispatch(w, channel),
         UNCHANGED <<setup, phase, queueClosed, workerVars, ack>>
  PROVE  /\ queue' \in Seq(Writes \union {Finalize})
         /\ command' \in [Writes -> {"none", "queued", "busy", "over"}]
         /\ guard' \in [Writes -> {"none", "task", "command", "reported"}]
         /\ task' \in [Writes -> {"none", "sending", "awaiting", "leaving", "exited"}]
         /\ completions' \in Seq(Completion) /\ faults' \in 0 .. MaxFaults
         /\ Cardinality(Unreported)' + Len(completions') = Cardinality(Unreported) + Len(channel) + 1
         /\ \A v \in Writes : v # w =>
              guard'[v] = guard[v] /\ command'[v] = command[v] /\ task'[v] = task[v]
         /\ guard'[w] # "none"
         /\ guard'[w] = "task" <=> task'[w] \in {"sending", "awaiting"}
         /\ guard'[w] = "command" => command'[w] = "queued"
         /\ task'[w] = "sending" => command'[w] = "none"
         /\ HasError(channel) \/ guard'[w] = "reported" => HasError(completions)'
         /\ Queued' /\ FinalizedOnce' /\ Busy' /\ Staffed'
<1> USE DEF setup, workerVars
<1>1. command[w] = "none" /\ task[w] = "none"
  BY DEF WriterInv, Routed
<1>2. faults' \in 0 .. MaxFaults
  <2>1. faults' = faults \/ (faults < MaxFaults /\ faults' = faults + 1)
    BY DEF Dispatch, Fault
  <2> QED BY <2>1, WriterAssumption DEF WriterInv, WriterTypeOK
<1>3. HasError(completions)' <=> HasError(completions')
  BY DEF HasError
<1>4. CASE /\ HasRoom
           /\ queue' = Append(queue, w) /\ command' = [command EXCEPT ![w] = "queued"]
           /\ guard' = [guard EXCEPT ![w] = "command"]
           /\ completions' = channel /\ UNCHANGED task
  <2>1. Cardinality(Unreported)' = Cardinality(Unreported) + 1
    BY <1>4, GuardGoesOut DEF WriterInv
  <2>2. FinalizedOnce'
    BY <1>1, <1>4, AppendIsQueued DEF WriterInv, FinalizedOnce
  <2>3. Busy'
    BY <1>1, <1>4, WriterAssumption DEF WriterInv, Busy, WriterTypeOK
  <2>4. Staffed'
    BY <1>4 DEF WriterInv, Staffed, HasRoom
  <2>5. Cardinality(Unreported)' + Len(completions') = Cardinality(Unreported) + Len(channel) + 1
    BY <1>4, <2>1, UnreportedIsFinite
  <2> QED BY <1>1, <1>2, <1>3, <1>4, <2>2, <2>3, <2>4, <2>5, AppendIsQueued DEF WriterInv, WriterTypeOK
<1>5. CASE /\ guard' = [guard EXCEPT ![w] = "reported"]
           /\ completions' = Publish(channel, w, FALSE)
           /\ UNCHANGED <<queue, command, task>>
  <2>1. Unreported' = Unreported
    BY <1>5, GuardStays DEF WriterInv
  <2>2. /\ completions' \in Seq(Completion) /\ Len(completions') = Len(channel) + 1
        /\ HasError(completions')
    BY <1>5, PublishAppends
  <2>3. Queued' /\ FinalizedOnce' /\ Busy' /\ Staffed'
    BY <1>5 DEF WriterInv, Queued, FinalizedOnce, Busy, Staffed
  <2>4. Cardinality(Unreported)' + Len(completions') = Cardinality(Unreported) + Len(channel) + 1
    BY <2>1, <2>2, UnreportedIsFinite
  <2> QED BY <1>1, <1>2, <1>3, <1>5, <2>2, <2>3, <2>4 DEF WriterInv, WriterTypeOK
<1>6. CASE /\ task' = [task EXCEPT ![w] = "sending"] /\ guard' = [guard EXCEPT ![w] = "task"]
           /\ completions' = channel /\ UNCHANGED <<queue, command>>
  <2>1. Cardinality(Unreported)' = Cardinality(Unreported) + 1
    BY <1>6, GuardGoesOut DEF WriterInv
  <2>2. Queued' /\ FinalizedOnce' /\ Busy' /\ Staffed'
    BY <1>6 DEF WriterInv, Queued, FinalizedOnce, Busy, Staffed
  <2>3. Cardinality(Unreported)' + Len(completions') = Cardinality(Unreported) + Len(channel) + 1
    BY <1>6, <2>1, UnreportedIsFinite
  <2> QED BY <1>1, <1>2, <1>3, <1>6, <2>2, <2>3 DEF WriterInv, WriterTypeOK
<1> QED BY <1>4, <1>5, <1>6 DEF Dispatch

\* The loop asks for a write.
LEMMA WriteRangeKeepsInv ==
  ASSUME WriterInv, WriteRange
  PROVE  WriterInv'
<1> USE WriterAssumption DEF WriteRange, setup, diskVars
<1> DEFINE w == accepted + 1
<1>1. /\ w \in Writes /\ guard[w] = "none" /\ phase = "open"
      /\ accepted \in Nat /\ accepted' = w /\ accepted' \in 0 .. Count
  BY DEF WriterInv, WriterTypeOK, Writes, Routed
<1>2. Len(completions) <= Capacity
  BY UnreportedIsFinite DEF WriterInv, Accounted, WriterTypeOK
<1>3. OnDisk'
  BY <1>1 DEF WriterInv, OnDisk, FinalizedOnce, Joining
<1>4. CASE ~IsFull
  <2>1. inFlight' = inFlight + 1 /\ Dispatch(w, completions) /\ UNCHANGED pending
    BY <1>4
  <2>2. completions \in Seq(Completion)
    BY DEF WriterInv, WriterTypeOK
  <2> USE <1>1, <1>2, <2>1, <2>2, DispatchKeeps
  <2>3. WriterTypeOK'
    BY DEF WriterInv, WriterTypeOK, workerVars
  <2>4. Accounted'
    BY <1>4 DEF WriterInv, Accounted, IsFull, WriterTypeOK
  <2>5. PendingIsNotStranded'
    BY DEF PendingIsNotStranded, WriterInv, WriterTypeOK
  <2>6. Routed'
    <3>1. pending <= accepted /\ pending \in Int
      BY WritesAreNumbers DEF WriterInv, Routed, WriterTypeOK, NoWrite
    <3> SUFFICES ASSUME NEW v \in Writes
                 PROVE  /\ guard'[v] = "none" <=> v > w \/ v = pending
                        /\ guard'[v] = "none" => command'[v] = "none" /\ task'[v] = "none"
                        /\ guard'[v] = "task" <=> task'[v] \in {"sending", "awaiting"}
                        /\ guard'[v] = "command" => command'[v] \in {"queued", "busy"}
                        /\ task'[v] = "sending" => command'[v] = "none"
      BY <3>1 DEF Routed
    <3>2. CASE v = w
      BY <3>1, <3>2
    <3>3. CASE v # w
      <4>1. guard'[v] = guard[v] /\ command'[v] = command[v] /\ task'[v] = task[v]
        BY <3>3
      <4>2. v > w <=> v > accepted
        BY <3>3, WritesAreNumbers
      <4> QED BY <4>1, <4>2 DEF WriterInv, Routed
    <3> QED BY <3>2, <3>3
  <2>7. Honest'
    <3>1. HasError(completions) \/ guard'[w] = "reported" => HasError(completions)'
      OBVIOUS
    <3>2. \A v \in Writes : v # w => guard'[v] = guard[v]
      OBVIOUS
    <3> QED BY <3>1, <3>2 DEF WriterInv, Honest
  <2>8. Queued' /\ FinalizedOnce' /\ Busy' /\ Staffed'
    OBVIOUS
  <2>9. Owned'
    BY DEF WriterInv, Owned, NobodyIsLeft, Before, Late, Alone, Joining
  <2> QED BY <1>3, <2>3, <2>4, <2>5, <2>6, <2>7, <2>8, <2>9 DEF WriterInv
<1>5. CASE IsFull
  <2> USE <1>1
  <2>1. /\ pending' = w /\ pending = NoWrite /\ inFlight > 0
        /\ UNCHANGED <<inFlight, queue, command, guard, task, completions, faults>>
    BY <1>5 DEF CanWrite, IsFull, WriterInv, WriterTypeOK
  <2>2. WriterTypeOK'
    BY <2>1 DEF WriterInv, WriterTypeOK, workerVars
  <2>3. PendingIsNotStranded'
    BY <2>1 DEF PendingIsNotStranded
  <2>4. Routed'
    BY <2>1, WritesAreNumbers DEF WriterInv, Routed, WriterTypeOK
  <2>5. /\ Accounted' /\ Honest' /\ Queued' /\ FinalizedOnce' /\ Busy' /\ Staffed'
    BY <2>1 DEF WriterInv, Accounted, Unreported, Honest, HasError, Queued, FinalizedOnce, Busy,
                Staffed, workerVars
  <2>6. Owned'
    BY <2>1 DEF WriterInv, Owned, NobodyIsLeft, Before, Late, Alone, Joining, workerVars
  <2> QED BY <1>3, <2>2, <2>3, <2>4, <2>5, <2>6 DEF WriterInv
<1> QED BY <1>4, <1>5

\* The completions are taken, and a write that waited is dispatched.
LEMMA TickKeepsInv ==
  ASSUME WriterInv, Tick
  PROVE  WriterInv'
<1> USE WriterAssumption DEF Tick, setup, diskVars
<1> DEFINE left == inFlight - Len(completions)
           error == sawError \/ HasError(completions)
<1>1. /\ left = Cardinality(Unreported) /\ left \in Nat
      /\ sawError' = error /\ error \in BOOLEAN /\ left <= Capacity
  BY UnreportedIsFinite DEF WriterInv, Accounted, WriterTypeOK, Settle, HasError
<1>2. OnDisk'
  BY DEF WriterInv, OnDisk, FinalizedOnce, Joining, Settle
<1>3. CASE ~error /\ left < Capacity /\ pending # NoWrite
  <2> DEFINE w == pending
  <2>1. /\ inFlight' = left + 1 /\ pending' = NoWrite /\ Dispatch(w, <<>>) /\ ~sawError'
        /\ ~sawError /\ ~HasError(completions)
    BY <1>1, <1>3 DEF Settle
  <2>2. w \in Writes /\ guard[w] = "none" /\ w <= accepted /\ accepted \in Nat
    BY <1>3 DEF WriterInv, WriterTypeOK, Routed
  <2>3. <<>> \in Seq(Completion) /\ Len(<<>>) = 0 /\ Len(<<>>) <= Capacity
    BY NothingIsNoError
  <2> USE <1>1, <2>1, <2>2, <2>3, DispatchKeeps
  <2>4. WriterTypeOK'
    <3>1. /\ queue' \in Seq(Writes \union {Finalize})
          /\ command' \in [Writes -> {"none", "queued", "busy", "over"}]
          /\ guard' \in [Writes -> {"none", "task", "command", "reported"}]
          /\ task' \in [Writes -> {"none", "sending", "awaiting", "leaving", "exited"}]
          /\ completions' \in Seq(Completion) /\ faults' \in 0 .. MaxFaults
      OBVIOUS
    <3>2. inFlight' \in Nat /\ sawError' \in BOOLEAN
      OBVIOUS
    <3> HIDE DispatchKeeps
    <3> QED BY <3>1, <3>2 DEF WriterInv, WriterTypeOK, workerVars
  <2>5. Accounted'
    <3>1. Cardinality(Unreported)' + Len(completions') = left + 0 + 1
      OBVIOUS
    <3> QED BY <1>3, <3>1 DEF Accounted
  <2>6. PendingIsNotStranded'
    BY DEF PendingIsNotStranded
  <2>7. Routed'
    <3> SUFFICES ASSUME NEW v \in Writes
                 PROVE  /\ guard'[v] = "none" <=> v > accepted \/ v = NoWrite
                        /\ guard'[v] = "none" => command'[v] = "none" /\ task'[v] = "none"
                        /\ guard'[v] = "task" <=> task'[v] \in {"sending", "awaiting"}
                        /\ guard'[v] = "command" => command'[v] \in {"queued", "busy"}
                        /\ task'[v] = "sending" => command'[v] = "none"
      BY DEF Routed, NoWrite
    <3>1. CASE v = w
      <4>1. /\ guard'[w] # "none" /\ (guard'[w] = "task" <=> task'[w] \in {"sending", "awaiting"})
            /\ guard'[w] = "command" => command'[w] = "queued"
            /\ task'[w] = "sending" => command'[w] = "none"
        OBVIOUS
      <4>2. ~(w > accepted) /\ w # NoWrite
        BY WritesAreNumbers
      <4> HIDE DEF w
      <4> QED BY <3>1, <4>1, <4>2
    <3>2. CASE v # w
      <4>1. guard'[v] = guard[v] /\ command'[v] = command[v] /\ task'[v] = task[v]
        BY <3>2
      <4> QED BY <3>2, <4>1, WritesAreNumbers DEF WriterInv, Routed
    <3> QED BY <3>1, <3>2
  <2>8. Honest'
    <3>1. guard'[w] = "reported" => HasError(completions)'
      OBVIOUS
    <3>2. \A v \in Writes : v # w => guard'[v] = guard[v]
      OBVIOUS
    <3> QED BY <3>1, <3>2 DEF WriterInv, Honest
  <2>9. Queued' /\ FinalizedOnce' /\ Busy' /\ Staffed'
    OBVIOUS
  <2>10. Owned'
    BY DEF WriterInv, Owned, NobodyIsLeft, Before, Late, Alone, Joining
  <2> QED BY <1>2, <2>4, <2>5, <2>6, <2>7, <2>8, <2>9, <2>10 DEF WriterInv
<1>4. CASE ~(~error /\ left < Capacity /\ pending # NoWrite)
  <2>1. /\ inFlight' = left /\ completions' = <<>>
        /\ UNCHANGED <<pending, queue, command, guard, task, faults>>
    BY <1>4 DEF Settle
  <2> USE <1>1, <2>1, NothingIsNoError
  <2>2. WriterTypeOK'
    BY DEF WriterInv, WriterTypeOK, workerVars
  <2>3. Accounted'
    BY DEF Accounted, Unreported
  <2>4. PendingIsNotStranded'
    <3>1. pending # NoWrite /\ ~error => left > 0
      BY <1>4
    <3> QED BY <3>1 DEF PendingIsNotStranded
  <2>5. Honest'
    BY DEF WriterInv, Honest
  <2>6. Routed' /\ Queued' /\ FinalizedOnce' /\ Busy' /\ Staffed'
    BY DEF WriterInv, Routed, Queued, FinalizedOnce, Busy, Staffed, workerVars
  <2>7. Owned'
    BY DEF WriterInv, Owned, NobodyIsLeft, Before, Late, Alone, Joining, workerVars
  <2> QED BY <1>2, <2>2, <2>3, <2>4, <2>5, <2>6, <2>7 DEF WriterInv
<1> QED BY <1>3, <1>4

\* A task queues its write.
LEMMA TaskSendsKeepsInv ==
  ASSUME WriterInv, NEW w \in Writes, TaskSends(w)
  PROVE  WriterInv'
<1> USE WriterAssumption DEF TaskSends, setup, pendingVars, workerVars, diskVars
<1>1. guard[w] = "task" /\ command[w] = "none" /\ queue' = Append(queue, w)
      /\ command' = [command EXCEPT ![w] = "queued"]
  BY DEF WriterInv, Routed
<1>2. \/ direct /\ task' = [task EXCEPT ![w] = "leaving"] /\ guard' = [guard EXCEPT ![w] = "command"]
      \/ ~direct /\ task' = [task EXCEPT ![w] = "awaiting"] /\ guard' = guard
  OBVIOUS
<1>3. phase \notin Alone
  BY DEF WriterInv, Owned
<1>4. WriterTypeOK'
  BY <1>1, <1>2, AppendIsQueued DEF WriterInv, WriterTypeOK
<1>5. Accounted'
  <2>1. Unreported' = Unreported
    BY <1>1, <1>2, GuardStays DEF WriterInv, Unreported
  <2> QED BY <2>1 DEF WriterInv, Accounted
<1>6. Routed'
  BY <1>1, <1>2 DEF WriterInv, Routed, WriterTypeOK
<1>7. PendingIsNotStranded' /\ OnDisk'
  BY DEF WriterInv, PendingIsNotStranded, OnDisk
<1>8. Honest'
  BY <1>1, <1>2 DEF WriterInv, Honest, HasError, WriterTypeOK
<1>9. Queued' /\ FinalizedOnce'
  BY <1>1, AppendIsQueued DEF WriterInv, FinalizedOnce
<1>10. Busy'
  BY <1>1 DEF WriterInv, Busy, WriterTypeOK
<1>11. Staffed'
  BY DEF WriterInv, Staffed, HasRoom
<1>12. Owned'
  BY <1>3 DEF WriterInv, Owned, NobodyIsLeft, Alone, Joining
<1> QED BY <1>4, <1>5, <1>6, <1>7, <1>8, <1>9, <1>10, <1>11, <1>12 DEF WriterInv

\* A task reports its write, as what it was answered or as failed.
LEMMA TaskReportsKeepsInv ==
  ASSUME WriterInv, NEW w \in Writes, NEW ok \in BOOLEAN, TaskReports(w, ok),
         task[w] \in {"sending", "awaiting"}, ok => reply[w] = "ok",
         faults' \in 0 .. MaxFaults
  PROVE  WriterInv'
<1> USE WriterAssumption DEF TaskReports, setup, pendingVars, queueVars, workerVars, diskVars
<1>1. guard[w] = "task" /\ phase \notin Alone
  BY DEF WriterInv, Routed, Owned
<1>2. Len(completions) <= Capacity
  BY UnreportedIsFinite DEF WriterInv, Accounted, WriterTypeOK
<1>3. /\ completions' \in Seq(Completion) /\ Len(completions') = Len(completions) + 1
      /\ HasError(completions') <=> HasError(completions) \/ ~ok
  BY <1>2, PublishAppends DEF WriterInv, WriterTypeOK
<1>4. WriterTypeOK'
  BY <1>3 DEF WriterInv, WriterTypeOK
<1>5. Accounted'
  <2>1. Cardinality(Unreported)' = Cardinality(Unreported) - 1
    BY <1>1, GuardReports DEF WriterInv
  <2> QED BY <1>3, <2>1, UnreportedIsFinite DEF WriterInv, Accounted, WriterTypeOK
<1>6. Routed'
  BY <1>1 DEF WriterInv, Routed, WriterTypeOK
<1>7. Honest'
  <2>1. HasError(completions)' <=> HasError(completions) \/ ~ok
    BY <1>3 DEF HasError
  <2> QED BY <2>1 DEF WriterInv, Honest, WriterTypeOK
<1>8. PendingIsNotStranded' /\ Queued' /\ FinalizedOnce' /\ Busy' /\ Staffed' /\ OnDisk'
  BY DEF WriterInv, PendingIsNotStranded, Queued, FinalizedOnce, Busy, Staffed, OnDisk
<1>9. Owned'
  BY <1>1 DEF WriterInv, Owned, NobodyIsLeft, Alone, Joining
<1> QED BY <1>4, <1>5, <1>6, <1>7, <1>8, <1>9 DEF WriterInv

\* The steps of a task.
LEMMA TaskKeepsInv ==
  ASSUME WriterInv, NEW w \in Writes, TaskGoesOn(w) \/ TaskDropped(w)
  PROVE  WriterInv'
<1>1. CASE TaskSends(w)
  BY <1>1, TaskSendsKeepsInv
<1>2. CASE TaskRefused(w)
  <2>1. faults' \in 0 .. MaxFaults
    BY <1>2 DEF TaskRefused, WriterInv, WriterTypeOK
  <2> QED BY <1>2, <2>1, TaskReportsKeepsInv DEF TaskRefused
<1>3. CASE TaskAnswered(w)
  <2>1. faults' \in 0 .. MaxFaults
    BY <1>3 DEF TaskAnswered, WriterInv, WriterTypeOK
  <2>2. (reply[w] = "ok") \in BOOLEAN
    OBVIOUS
  <2> QED BY <1>3, <2>1, <2>2, TaskReportsKeepsInv DEF TaskAnswered
<1>4. CASE TaskDropped(w)
  <2>1. faults' \in 0 .. MaxFaults
    BY <1>4, WriterAssumption DEF TaskDropped, Fault, WriterInv, WriterTypeOK
  <2> QED BY <1>4, <2>1, TaskReportsKeepsInv DEF TaskDropped
<1>5. CASE TaskExits(w)
  <2> USE <1>5 DEF TaskExits, setup, pendingVars, queueVars, workerVars, diskVars
  <2>1. WriterTypeOK'
    BY DEF WriterInv, WriterTypeOK
  <2>2. Routed'
    BY DEF WriterInv, Routed, WriterTypeOK
  <2>3. /\ Accounted' /\ PendingIsNotStranded' /\ Honest' /\ Queued' /\ FinalizedOnce' /\ Busy'
        /\ Staffed' /\ OnDisk'
    BY DEF WriterInv, Accounted, Unreported, PendingIsNotStranded, Honest, HasError, Queued,
           FinalizedOnce, Busy, Staffed, OnDisk
  <2>4. Owned'
    BY DEF WriterInv, Owned, NobodyIsLeft, Alone, Joining, WriterTypeOK
  <2> QED BY <2>1, <2>2, <2>3, <2>4 DEF WriterInv
<1> QED BY <1>1, <1>2, <1>3, <1>4, <1>5 DEF TaskGoesOn

-----------------------------------------------------------------------------
(* The theorems.                                                           *)

\* Nothing is asked for, and no worker was started.
LEMMA WriterInitInv == WriterInit => WriterInv
<1> SUFFICES ASSUME WriterInit PROVE WriterInv
  OBVIOUS
<1> USE WriterAssumption, WritesAreNumbers DEF WriterInit
<1>1. WriterTypeOK
  <2>1. completions \in Seq(Completion) /\ queue \in Seq(Writes \union {Finalize})
    OBVIOUS
  <2>2. /\ guard \in [Writes -> {"none", "task", "command", "reported"}]
        /\ command \in [Writes -> {"none", "queued", "busy", "over"}]
        /\ reply \in [Writes -> {"none", "ok", "err"}]
        /\ task \in [Writes -> {"none", "sending", "awaiting", "leaving", "exited"}]
        /\ worker \in [Workers -> WorkerPhases] /\ item \in [Workers -> Writes \union {NoWrite}]
        /\ written \in [Writes -> 0 .. Parts]
    BY DEF WorkerPhases
  <2>3. accepted \in 0 .. Count /\ inFlight \in Nat /\ faults \in 0 .. MaxFaults
    OBVIOUS
  <2> QED BY <2>1, <2>2, <2>3 DEF WriterTypeOK, OwnerPhases
<1>2. Accounted
  <2>1. Unreported = {}
    BY DEF Unreported
  <2> QED BY <2>1, FS_EmptySet DEF Accounted
<1>3. PendingIsNotStranded /\ Routed /\ Honest
  BY DEF PendingIsNotStranded, Routed, Honest, NoWrite
<1>4. Queued /\ FinalizedOnce /\ Busy
  BY DEF Queued, FinalizedOnce, Busy
<1>5. Staffed /\ Owned /\ OnDisk
  BY DEF Staffed, Owned, OnDisk, NobodyIsLeft, Before, Late, Alone, Joining
<1> QED BY <1>1, <1>2, <1>3, <1>4, <1>5 DEF WriterInv

\* Whatever the loop asks for, the runtime drops, the file refuses and the workers
\* do, in any order, the invariant holds.
THEOREM WriterInvariant == WriterSpec => []WriterInv
<1>1. WriterInv /\ [WriterNext]_vars => WriterInv'
  <2> SUFFICES ASSUME WriterInv, [WriterNext]_vars PROVE WriterInv'
    OBVIOUS
  <2>1. CASE UNCHANGED vars
    <3> USE <2>1 DEF vars, setup, routeVars, pendingVars, queueVars, workerVars, diskVars
    <3>1. WriterTypeOK'
      BY DEF WriterInv, WriterTypeOK
    <3>2. Accounted' /\ PendingIsNotStranded' /\ Routed' /\ Honest' /\ Queued'
      BY DEF WriterInv, Accounted, Unreported, PendingIsNotStranded, Routed, Honest, HasError, Queued
    <3>3. FinalizedOnce' /\ Busy' /\ Staffed' /\ Owned' /\ OnDisk'
      BY DEF WriterInv, FinalizedOnce, Busy, Staffed, Owned, NobodyIsLeft, OnDisk
    <3> QED BY <3>1, <3>2, <3>3 DEF WriterInv
  <2>2. CASE OpenFails \/ Opened \/ WorkerReady \/ WorkerUnready \/ BuildFails
    BY <2>2, OpeningKeepsInv
  <2>3. CASE Finish \/ Flushed \/ TasksGone \/ SendFinalize
             \/ FinalizeRefused \/ FinalizeAnswered \/ Joined \/ SyncAll
    BY <2>3, FinishKeepsInv
  <2>4. CASE WriteRange
    BY <2>4, WriteRangeKeepsInv
  <2>5. CASE Tick
    BY <2>5, TickKeepsInv
  <2>6. ASSUME NEW w \in Writes, TaskGoesOn(w) \/ TaskDropped(w) PROVE WriterInv'
    BY <2>6, TaskKeepsInv
  <2>7. ASSUME NEW w \in Writes, SpawnedWriteEnds(w) PROVE WriterInv'
    BY <2>7, SpawnedWriteKeepsInv
  <2>8. ASSUME NEW k \in Workers,
               WritePart(k) \/ WriteAll(k) \/ WriteFails(k) \/ WorkerPanics(k)
        PROVE  WriterInv'
    BY <2>8, WriteKeepsInv
  <2>9. ASSUME NEW k \in Workers, TakeWrite(k) PROVE WriterInv'
    BY <2>9, TakeWriteKeepsInv
  <2>10. ASSUME NEW k \in Workers,
                TakeFinalize(k) \/ Finalizes(k) \/ ReceiveFails(k) \/ CloseQueue(k) \/ WorkerExits(k)
         PROVE  WriterInv'
    BY <2>10, WorkerLeavesInv
  <2>11. ASSUME NEW k \in Workers, DropCommand(k) PROVE WriterInv'
    BY <2>11, DropCommandKeepsInv
  <2> QED
    BY <2>1, <2>2, <2>3, <2>4, <2>5, <2>6, <2>7, <2>8, <2>9, <2>10, <2>11
    DEF WriterNext, OwnerGoesOn, WorkerGoesOn
<1> QED BY WriterInitInv, <1>1, PTL DEF WriterSpec

\* in_flight is the number of writes that are on their way or whose completion
\* nobody has taken, and stays within the capacity: a CompletionGuard completes its
\* write once however the write ends, and the completion channel never runs full.
THEOREM WriterAccounts == WriterSpec => []WritesAreAccounted
<1>1. WriterInv => WritesAreAccounted
  BY DEF WriterInv, Accounted, WritesAreAccounted
<1> QED BY WriterInvariant, <1>1, PTL

\* A write that waits for a slot is behind one that is in flight.
THEOREM WriterStrandsNothing == WriterSpec => []PendingIsNotStranded
<1>1. WriterInv => PendingIsNotStranded
  BY DEF WriterInv
<1> QED BY WriterInvariant, <1>1, PTL

\* A download that counts as written is on the disk, every write of it, with every
\* backend, whichever worker took the finalize command and whoever wrote then.
THEOREM WriterSuccessIsOnDisk == WriterSpec => []SuccessIsOnDisk
<1>1. WriterInv => SuccessIsOnDisk
  <2> SUFFICES ASSUME WriterInv, Succeeded, kind # "null"
               PROVE  1 .. accepted \subseteq synced
    BY DEF SuccessIsOnDisk
  <2>1. ack = "ok"
    BY DEF WriterInv, Owned, Joining, Succeeded
  <2>2. kind \in {"pool", "mmap", "compio"}
    BY DEF WriterInv, WriterTypeOK, Kinds
  <2> QED BY <2>1, <2>2 DEF WriterInv, OnDisk, Succeeded
<1> QED BY WriterInvariant, <1>1, PTL

\* When the owner returns, no worker, task or command is left that could write to
\* the file or keep it open.
THEOREM WriterLeavesNobody == WriterSpec => []NobodyIsLeft
<1>1. WriterInv => NobodyIsLeft
  BY DEF WriterInv, Owned
<1> QED BY WriterInvariant, <1>1, PTL
=============================================================================
