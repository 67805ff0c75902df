--------------------------- MODULE TaskLifecycle ----------------------------
(***************************************************************************)
(* One task from spawn to join: initialization, the choice of the mode,    *)
(* the transfer, the fallback to one connection, the commit or the removal *)
(* of the temporary file, the status that observers read, and the handle   *)
(* that cancels, detaches or awaits it (task/instance/drive.rs,            *)
(* output_file.rs, task/status.rs, task/handle.rs).                        *)
(*                                                                         *)
(* A transfer is abstracted to the moments at which its file is opened,    *)
(* bytes arrive and it ends; DownloadLoop has the steps of the concurrent  *)
(* one.  The adapter may panic wherever the attempt calls it, the runtime  *)
(* when it is built or shut down; destructors are taken not to panic.  No  *)
(* other task has the same destination.                                    *)
(*                                                                         *)
(* A definition marked "Defect" is the one after it with a plausible       *)
(* mistake; no specification uses it.                                      *)
(***************************************************************************)
EXTENDS Naturals

CONSTANT Length  \* of the resource, in bytes

ASSUME LengthAssumption == Length \in Nat \ {0}

VARIABLES
  prefer,      \* Attempt::prefer_mode
  has_local,   \* downcast_local finds a local runtime
  cancelled,   \* the task's own token; cancelling its parent cancels it too
  pc,          \* where the attempt's thread is
  info,        \* the TaskInfo that run works with
  total,       \* the size the transfer expects, 0 when it is unknown
  downloaded,  \* the bytes the transfer has received
  result,      \* the result of the transfer, of its commit in the end
  leftover,    \* Teardown::leftover_temp_file is set
  status,      \* the newest value of the watch channel
  terminal,    \* Shared::terminal
  temp_file,   \* Shared::temp_file is set
  tmp,         \* the temporary file; a stale one is of an earlier process
  dest,        \* the destination file
  handle,      \* what became of the Task
  outcome      \* Task::outcome

attemptVars == <<info, total, downloaded, result, leftover>>

statusVars == <<status, terminal, temp_file>>

fileVars == <<tmp, dest>>

handleVars == <<handle, outcome>>

lifecycleVars == <<prefer, has_local, cancelled, pc, attemptVars, statusVars, fileVars, handleVars>>

Modes == {"Singleton", "Concurrent"}

FallbackReasons == {"RangeIgnored", "ContentCoded"}

Errors == {"Cancelled", "Metadata", "Destination", "Runtime", "Transfer", "RangeUnsupported",
           "Io", "Panicked", "Aborted"}

States == {"Pending", "Initializing", "Downloading", "Finished", "Failed", "Cancelled"}

IsTerminal(state) == state \in {"Finished", "Failed", "Cancelled"}

Info(mode, fallback) == [mode |-> mode, fallback |-> fallback]

NoInfo == Info("none", "none")

Infos == [mode : Modes \cup {"none"}, fallback : FallbackReasons \cup {"none"}]

\* No total is a total of 0.
Progress(whole, bytes) == [total |-> whole, downloaded |-> bytes]

NoProgress == Progress(0, 0)

\* TaskStatus::new: no error, no leftover file.
NewStatus(state, progress, known) ==
  [state |-> state, progress |-> progress, info |-> known, error |-> "none", leftover |-> FALSE]

Phases == {"pending", "initializing", "starting", "opening", "transferring", "torn_down",
           "renaming", "discarding", "ending", "returning", "panicked", "returned"}

LifecycleInit ==
  /\ prefer \in Modes \cup {"none"}
  /\ has_local \in BOOLEAN
  /\ cancelled \in BOOLEAN
  /\ pc = "pending"
  /\ info = NoInfo
  /\ total = 0
  /\ downloaded = 0
  /\ result = "none"
  /\ leftover = FALSE
  /\ status = NewStatus("Pending", NoProgress, NoInfo)
  /\ terminal = FALSE
  /\ temp_file = FALSE
  /\ tmp \in {"absent", "stale"}
  /\ dest = "old"
  /\ handle = "held"
  /\ outcome = "none"

-----------------------------------------------------------------------------
(* The status. *)

Publish(new) ==
  /\ status' = IF terminal THEN status ELSE new
  /\ UNCHANGED terminal

TerminalState(res) ==
  CASE res = "Ok" -> "Finished"
    [] res = "Cancelled" -> "Cancelled"
    [] OTHER -> "Failed"

TerminalStatus(res, progress, left) ==
  [NewStatus(TerminalState(res), progress, status.info) EXCEPT
     !.error = IF res = "Ok" THEN "none" ELSE res,
     !.leftover = left]

\* Defect: the flag that closes the status is forgotten.
FinishOpen(res, progress, left) ==
  /\ status' = IF terminal THEN status ELSE TerminalStatus(res, progress, left)
  /\ UNCHANGED <<terminal, temp_file>>

Finish(res, progress, left) ==
  /\ status' = IF terminal THEN status ELSE TerminalStatus(res, progress, left)
  /\ terminal' = TRUE
  /\ UNCHANGED temp_file

-----------------------------------------------------------------------------
(* The attempt: initialization. *)

Start ==
  /\ pc = "pending"
  /\ has_local
  /\ pc' = "initializing"
  /\ Publish(NewStatus("Initializing", NoProgress, NoInfo))
  /\ UNCHANGED <<prefer, has_local, cancelled, attemptVars, temp_file, fileVars, handleVars>>

NoLocalRuntime ==
  /\ pc = "pending"
  /\ ~has_local
  /\ pc' = "returning"
  /\ Finish("Runtime", NoProgress, FALSE)
  /\ UNCHANGED <<prefer, has_local, cancelled, attemptVars, fileVars, handleVars>>

\* The mode for metadata of this size and coding, when ranges are available or not.
SelectMode(size, coded, ranges) ==
  IF prefer = "Singleton" THEN Info("Singleton", "none")
  ELSE IF coded THEN Info("Singleton", "ContentCoded")
  ELSE IF size # 0 /\ ranges THEN Info("Concurrent", "none")
  ELSE Info("Singleton", "none")

\* Cancellation wins a tie.
Initialized ==
  /\ pc = "initializing"
  /\ ~cancelled
  /\ \E size \in {0, Length}, coded, ranges \in BOOLEAN :
       /\ info' = SelectMode(size, coded, ranges)
       /\ total' = IF coded THEN 0 ELSE size
  /\ pc' = "starting"
  /\ UNCHANGED <<prefer, has_local, cancelled, downloaded, result, leftover, statusVars,
                 fileVars, handleVars>>

\* No metadata; no safe file name, or no place for it; a place that cannot be inspected.
InitializeErrors == {"Metadata", "Destination", "Io"}

InitializeFails ==
  /\ pc = "initializing"
  /\ ~cancelled
  /\ \E e \in InitializeErrors : Finish(e, NoProgress, FALSE)
  /\ pc' = "returning"
  /\ UNCHANGED <<prefer, has_local, cancelled, attemptVars, fileVars, handleVars>>

\* Defect: a request that hangs is waited for.
InitializeHangs == FALSE

InitializeCancelled ==
  /\ pc = "initializing"
  /\ cancelled
  /\ Finish("Cancelled", NoProgress, FALSE)
  /\ pc' = "returning"
  /\ UNCHANGED <<prefer, has_local, cancelled, attemptVars, fileVars, handleVars>>

-----------------------------------------------------------------------------
(* The attempt: the transfer. *)

TransferProgress == Progress(total, downloaded)

\* The transfer is new: it has received nothing and has no result.
Drive ==
  /\ pc = "starting"
  /\ downloaded' = 0
  /\ result' = "none"
  /\ leftover' = FALSE
  /\ temp_file' = TRUE
  /\ Publish(NewStatus("Downloading", Progress(total, 0), info))
  /\ pc' = "opening"
  /\ UNCHANGED <<prefer, has_local, cancelled, info, total, fileVars, handleVars>>

\* create_file_writer, before any request; create_file, once the runner has connected.
OpenFile ==
  /\ pc = "opening"
  /\ tmp' = "partial"
  /\ pc' = "transferring"
  /\ UNCHANGED <<prefer, has_local, cancelled, attemptVars, statusVars, dest, handleVars>>

\* The file may exist when sizing it failed.
OpenFails ==
  /\ pc = "opening"
  /\ tmp' \in {tmp, "partial"}
  /\ result' = IF info.mode = "Singleton" THEN "Io" ELSE "Transfer"
  /\ pc' = "torn_down"
  /\ UNCHANGED <<prefer, has_local, cancelled, info, total, downloaded, leftover, statusVars,
                 dest, handleVars>>

\* The runner of the singleton ends before its file is opened.
ConnectFails ==
  /\ pc = "opening"
  /\ info.mode = "Singleton"
  /\ \E e \in {"Transfer"} \cup IF cancelled THEN {"Cancelled"} ELSE {} : result' = e
  /\ pc' = "torn_down"
  /\ UNCHANGED <<prefer, has_local, cancelled, info, total, downloaded, leftover, statusVars,
                 fileVars, handleVars>>

Receive ==
  /\ pc = "transferring"
  /\ downloaded < Length
  /\ downloaded' = downloaded + 1
  /\ UNCHANGED <<prefer, has_local, cancelled, pc, info, total, result, leftover, statusVars,
                 fileVars, handleVars>>

\* A periodic sample; its speed is left out.
Report ==
  /\ pc = "transferring"
  /\ Publish(NewStatus("Downloading", TransferProgress, status.info))
  /\ UNCHANGED <<prefer, has_local, cancelled, pc, attemptVars, temp_file, fileVars, handleVars>>

\* Everything was received and written: the whole file when its size is known, else
\* what the stream had, which is not nothing.
TransferSucceeds ==
  /\ pc = "transferring"
  /\ IF total = 0 THEN downloaded > 0 ELSE downloaded = total
  /\ tmp' = "whole"
  /\ result' = "Ok"
  /\ pc' = "torn_down"
  /\ UNCHANGED <<prefer, has_local, cancelled, info, total, downloaded, leftover, statusVars,
                 dest, handleVars>>

\* The stream, a write, the flush or the writer's finalization fails, or the attempt
\* was cancelled; ranges turn out unusable in the concurrent mode only.
TransferErrors ==
  {"Transfer"} \cup (IF info.mode = "Concurrent" THEN {"RangeUnsupported"} ELSE {"Io"})

TransferFails ==
  /\ pc = "transferring"
  /\ \E e \in TransferErrors : result' = e
  /\ pc' = "torn_down"
  /\ UNCHANGED <<prefer, has_local, cancelled, info, total, downloaded, leftover, statusVars,
                 fileVars, handleVars>>

TransferCancelled ==
  /\ pc = "transferring"
  /\ cancelled
  /\ result' = "Cancelled"
  /\ pc' = "torn_down"
  /\ UNCHANGED <<prefer, has_local, cancelled, info, total, downloaded, leftover, statusVars,
                 fileVars, handleVars>>

-----------------------------------------------------------------------------
(* The attempt: commit, fallback and the end. *)

\* Defect: the token is not looked at again.
CommitAnyway ==
  /\ pc = "torn_down"
  /\ pc' = IF result = "Ok" THEN "renaming" ELSE "discarding"
  /\ UNCHANGED <<prefer, has_local, cancelled, attemptVars, statusVars, fileVars, handleVars>>

Commit ==
  /\ pc = "torn_down"
  /\ result' = IF result = "Ok" /\ cancelled THEN "Cancelled" ELSE result
  /\ pc' = IF result' = "Ok" THEN "renaming" ELSE "discarding"
  /\ UNCHANGED <<prefer, has_local, cancelled, info, total, downloaded, leftover, statusVars,
                 fileVars, handleVars>>

Rename ==
  /\ pc = "renaming"
  /\ tmp' = "absent"
  /\ dest' = "new"
  /\ pc' = "ending"
  /\ UNCHANGED <<prefer, has_local, cancelled, attemptVars, statusVars, handleVars>>

\* Defect: a failed rename is only logged.
RenameFailsQuietly ==
  /\ pc = "renaming"
  /\ pc' = "discarding"
  /\ UNCHANGED <<prefer, has_local, cancelled, attemptVars, statusVars, fileVars, handleVars>>

RenameFails ==
  /\ pc = "renaming"
  /\ result' = "Io"
  /\ pc' = "discarding"
  /\ UNCHANGED <<prefer, has_local, cancelled, info, total, downloaded, leftover, statusVars,
                 fileVars, handleVars>>

\* remove_file: the file is gone, or it is named as left over.
Removed(left) ==
  \/ tmp' = "absent" /\ ~left
  \/ tmp' = tmp /\ left

Discard ==
  /\ pc = "discarding"
  /\ leftover' \in BOOLEAN
  /\ Removed(leftover')
  /\ pc' = "ending"
  /\ UNCHANGED <<prefer, has_local, cancelled, info, total, downloaded, result, statusVars,
                 dest, handleVars>>

FallsBack == info.mode = "Concurrent" /\ result = "RangeUnsupported"

\* What the first teardown left over is the second one's to remove.
FallBack ==
  /\ pc = "ending"
  /\ FallsBack
  /\ \E reason \in FallbackReasons : info' = Info("Singleton", reason)
  /\ total' = 0
  /\ pc' = "starting"
  /\ UNCHANGED <<prefer, has_local, cancelled, downloaded, result, leftover, statusVars,
                 fileVars, handleVars>>

FinalProgress == Progress(IF total = 0 THEN downloaded ELSE total, downloaded)

End ==
  /\ pc = "ending"
  /\ ~FallsBack
  /\ Finish(result, IF result = "Ok" THEN FinalProgress ELSE TransferProgress, leftover)
  /\ pc' = "returning"
  /\ UNCHANGED <<prefer, has_local, cancelled, attemptVars, fileVars, handleVars>>

\* The closure returns and with it the last sender of the status goes.
Return ==
  /\ pc = "returning"
  /\ pc' = "returned"
  /\ UNCHANGED <<prefer, has_local, cancelled, attemptVars, statusVars, fileVars, handleVars>>

\* The adapter panics, or the runtime does as it is built or shut down.
Panic ==
  /\ pc \in {"pending", "initializing", "opening", "transferring", "returning"}
  /\ pc' = "panicked"
  /\ UNCHANGED <<prefer, has_local, cancelled, attemptVars, statusVars, fileVars, handleVars>>

\* Defect: the file is left to the destructors.
ReportPanicOnly ==
  /\ pc = "panicked"
  /\ cancelled' = TRUE
  /\ pc' = "returned"
  /\ Finish("Panicked", status.progress, FALSE)
  /\ UNCHANGED <<prefer, has_local, attemptVars, fileVars, handleVars>>

\* Defect: the progress is forgotten.
ForgottenProgress == NoProgress

\* StatusPublisher::progress
LastProgress == status.progress

\* The token is cancelled for the workers, which are not joined.
ReportPanic ==
  /\ pc = "panicked"
  /\ cancelled' = TRUE
  /\ pc' = "returned"
  /\ \/ terminal /\ UNCHANGED <<statusVars, tmp>>
     \/ ~terminal /\ ~temp_file /\ Finish("Panicked", LastProgress, FALSE) /\ UNCHANGED tmp
     \/ /\ ~terminal /\ temp_file
        /\ \E left \in BOOLEAN : Removed(left) /\ Finish("Panicked", LastProgress, left)
  /\ UNCHANGED <<prefer, has_local, attemptVars, dest, handleVars>>

-----------------------------------------------------------------------------
(* The handle. *)

\* Task::cancel, a clone of the task's token, or the caller's token.
Cancel ==
  /\ ~cancelled
  /\ cancelled' = TRUE
  /\ UNCHANGED <<prefer, has_local, pc, attemptVars, statusVars, fileVars, handleVars>>

Stop ==
  /\ handle = "held"
  /\ handle' = "stopping"
  /\ cancelled' = TRUE
  /\ UNCHANGED <<prefer, has_local, pc, attemptVars, statusVars, fileVars, outcome>>

Detach ==
  /\ handle = "held"
  /\ handle' = "detached"
  /\ UNCHANGED <<prefer, has_local, cancelled, pc, attemptVars, statusVars, fileVars, outcome>>

\* The task, or the future of stop that owns it, is dropped before it was joined.
Drop ==
  /\ handle \in {"held", "stopping"}
  /\ handle' = "dropped"
  /\ cancelled' = TRUE
  /\ UNCHANGED <<prefer, has_local, pc, attemptVars, statusVars, fileVars, outcome>>

OutcomeOf(s) ==
  CASE s.state = "Finished" -> IF s.info = NoInfo THEN "Aborted" ELSE "Ok"
    [] s.state = "Cancelled" -> "Cancelled"
    [] s.state = "Failed" -> IF s.error = "none" THEN "Aborted" ELSE s.error
    [] OTHER -> "Aborted"

\* poll, once the attempt's thread has returned.
Join ==
  /\ handle \in {"held", "stopping"}
  /\ pc = "returned"
  /\ handle' = "joined"
  /\ outcome' = OutcomeOf(status)
  /\ UNCHANGED <<prefer, has_local, cancelled, pc, attemptVars, statusVars, fileVars>>

-----------------------------------------------------------------------------

Attempt ==
  \/ Start \/ NoLocalRuntime
  \/ Initialized \/ InitializeFails \/ InitializeCancelled
  \/ Drive \/ OpenFile \/ OpenFails \/ ConnectFails
  \/ Receive \/ Report \/ TransferSucceeds \/ TransferFails \/ TransferCancelled
  \/ Commit \/ Rename \/ RenameFails \/ Discard \/ FallBack \/ End \/ Return
  \/ Panic \/ ReportPanic

Owner == Cancel \/ Stop \/ Detach \/ Drop \/ Join

LifecycleNext == Attempt \/ Owner

LifecycleSpec == LifecycleInit /\ [][LifecycleNext]_lifecycleVars

\* The thread runs, file operations end, and what observes the token is polled once it
\* is cancelled.  Nothing obliges the adapter to answer, and an owner may do nothing,
\* but one who stops a task waits for it.
LifecycleFairness ==
  /\ WF_lifecycleVars(Start \/ NoLocalRuntime)
  /\ WF_lifecycleVars(InitializeCancelled)
  /\ WF_lifecycleVars(Drive)
  /\ WF_lifecycleVars(info.mode = "Concurrent" /\ (OpenFile \/ OpenFails))
  /\ WF_lifecycleVars(cancelled /\ ConnectFails)
  /\ WF_lifecycleVars(TransferCancelled)
  /\ WF_lifecycleVars(Commit \/ Rename \/ RenameFails \/ Discard)
  /\ WF_lifecycleVars(FallBack \/ End \/ Return \/ ReportPanic)
  /\ WF_lifecycleVars(handle = "stopping" /\ Join)

FairLifecycleSpec == LifecycleSpec /\ LifecycleFairness

-----------------------------------------------------------------------------
(* Properties. *)

Progresses == [total : 0 .. Length, downloaded : 0 .. Length]

Statuses == [state : States, progress : Progresses, info : Infos, error : Errors \cup {"none"},
             leftover : BOOLEAN]

\* The variables have their types; a concurrent transfer has a known size, as
\* ConcurrentTaskInner::new asserts.
LifecycleTypeOK ==
  /\ prefer \in Modes \cup {"none"}
  /\ has_local \in BOOLEAN
  /\ cancelled \in BOOLEAN
  /\ pc \in Phases
  /\ info \in Infos
  /\ total \in {0, Length}
  /\ info.mode = "Concurrent" => total # 0
  /\ downloaded \in 0 .. Length
  /\ result \in Errors \cup {"Ok", "none"}
  /\ leftover \in BOOLEAN
  /\ status \in Statuses
  /\ terminal \in BOOLEAN
  /\ temp_file \in BOOLEAN
  /\ tmp \in {"absent", "stale", "partial", "whole"}
  /\ dest \in {"old", "new"}
  /\ handle \in {"held", "stopping", "detached", "dropped", "joined"}
  /\ outcome \in Errors \cup {"Ok", "none"}

\* commit and finish: the destination holds the new file exactly when the task reports
\* Finished or is about to, the temporary file is then gone, and the final progress has
\* a total that was downloaded to the last byte.
FinishedIsCommitted ==
  /\ status.state = "Finished" =>
       /\ dest = "new"
       /\ tmp = "absent"
       /\ status.progress.total = status.progress.downloaded
  /\ dest = "new" => status.state = "Finished" \/ (pc = "ending" /\ result = "Ok")

\* discard and report_panic: a task that ends otherwise, by a failure, a cancellation or
\* a panic at any moment, with a fallback before it or not, has left the destination
\* alone, and no file of its own remains unless the status says that it is left over.
NothingLeftBehind ==
  status.state \in {"Failed", "Cancelled"} =>
    /\ dest = "old"
    /\ tmp \in {"absent", "stale"} \/ status.leftover

\* run: a task does not end with RangeUnsupported, whatever races the fallback.
FallbackIsTaken == status.error # "RangeUnsupported"

\* poll and outcome: whoever awaits the task gets the outcome of its terminal status,
\* Ok exactly when the file is at its destination, and never Aborted.
AwaitTellsTheOutcome ==
  handle = "joined" =>
    /\ outcome # "Aborted"
    /\ outcome = "Ok" <=> dest = "new"
    /\ outcome = "Cancelled" <=> status.state = "Cancelled"

\* Shared::publish and finish: the terminal status is the last one, also when the
\* attempt panics after it.
TerminalIsLast == [][IsTerminal(status.state) => status' = status]_lifecycleVars

\* drive and downloading: the published progress never goes back and the published
\* info never changes, but for the one fallback that announces both with its reason.
StartsOverOnlyToFallBack ==
  [][\/ /\ status'.progress.downloaded >= status.progress.downloaded
        /\ status.info # NoInfo => status'.info = status.info
     \/ /\ status.info = Info("Concurrent", "none")
        /\ status'.info \in {Info("Singleton", reason) : reason \in FallbackReasons}
    ]_lifecycleVars

BeforeCommit == {"pending", "initializing", "starting", "opening", "transferring", "torn_down"}

\* commit: a task that is cancelled before the rename starts never writes to its
\* destination.
CancelledNeverCommits == [](cancelled /\ pc \in BeforeCommit => [](dest = "old"))

\* until_cancelled and download: a cancelled task ends, whatever it was doing.
CancelEnds == cancelled ~> pc = "returned"
=============================================================================
