--------------------------- MODULE SingletonTask ----------------------------
(***************************************************************************)
(* A download over a single connection (task/instance/singleton_task.rs):  *)
(* one runner streams the whole content, and the loop that drives it       *)
(* inline creates the file, writes the frames and waits for the end of the *)
(* events and of the data, which come in either order.  The size may be    *)
(* unknown, and the body may be shorter or longer than the size.           *)
(*                                                                         *)
(* While the loop creates or writes the file the runner is not polled, so  *)
(* each of the loop's branches is one step.  The lifecycle channel is not  *)
(* closed before the runner is dropped, after the loop; the timer's branch *)
(* only reports the progress.                                              *)
(***************************************************************************)
EXTENDS TaskRunner, FiniteSets

CONSTANTS
  Bodies,     \* the lengths of the bodies that the server may send
  Totals      \* the sizes that the task may know, NoTotal for none

ASSUME SingletonAssumption ==
  /\ Cardinality(Runners) = 1
  /\ Bodies \subseteq Nat
  /\ Totals \subseteq (Nat \ {0}) \cup {NoTotal}

VARIABLES
  total,         \* SingletonTaskInner::total
  file,          \* "none" until it is created, then "open"; "flushed" in the end
  content,       \* what was written to the file
  downloaded,    \* SingletonTaskInner::downloaded
  dataDone,      \* data_done
  runnerStopped, \* runner_stopped, which is_finished sets
  yielded,       \* the length of the body that the stream has come to
  outcome        \* "running", then what download_to returns

loopVars == <<total, file, content, downloaded, dataDone, runnerStopped, outcome>>
singletonVars == <<runnerVars, loopVars, yielded>>

\* STATIC_RUNNER_ID
Only == CHOOSE r \in Runners : TRUE

SingletonInit ==
  /\ total \in Totals
  /\ \E body \in Bodies :
       run = [r \in Runners |-> [NoRun EXCEPT !.phase = "connecting", !.until = body, !.total = total]]
  /\ data = [r \in Runners |-> <<>>]
  /\ lifecycle = [r \in Runners |-> <<>>]
  /\ mailbox = [r \in Runners |-> {}]
  /\ receiving = [r \in Runners |-> TRUE]
  /\ cancelled = FALSE
  /\ file = "none" /\ content = <<>> /\ downloaded = 0
  /\ dataDone = FALSE /\ runnerStopped = FALSE
  /\ yielded = 0
  /\ outcome = "running"

-----------------------------------------------------------------------------
(* The runner, driven by run_after_started.                                *)

Running == outcome = "running"

\* The runner goes on: what it reads is noted, since begin_stop forgets it.
Drives(step) ==
  /\ Running /\ step
  /\ yielded' = IF run'[Only].phase = "streaming" THEN run'[Only].read ELSE yielded
  /\ UNCHANGED loopVars

\* poll_until_started: `Started` is published, and the runner waits for the file.
PublishesStarted ==
  /\ Running /\ run[Only].phase = "publishing_started"
  /\ lifecycle' = [lifecycle EXCEPT ![Only] = Append(@, "Started")]
  /\ run' = [run EXCEPT ![Only].phase = "preparing"]
  /\ UNCHANGED <<data, mailbox, receiving, cancelled, loopVars, yielded>>

\* The server sends some more of the body, or nothing.
ReadsBody == Drives(ReadsItem(Only))

RunnerSteps ==
  \/ Connected(Only) \/ SeesCancel(Only)
  \/ StreamEnds(Only)
  \/ Emitted(Only)
  \/ Drained(Only) \/ DrainCancelled(Only)
  \/ PublishStopped(Only)

\* The timers of the runner, which always fire in the end.
RunnerTimers == ConnectTimeout(Only) \/ IdleTimeout(Only)

\* The server cuts the connection or the body; a slow disk delays the drain.
RunnerFaultSteps ==
  ConnectFails(Only) \/ StreamEndsShort(Only) \/ StreamFails(Only) \/ DrainTimeout(Only)

-----------------------------------------------------------------------------
(* The branches of the loop.                                               *)

TakesEvent(event) ==
  /\ Running /\ lifecycle[Only] # <<>> /\ Head(lifecycle[Only]) = event
  /\ lifecycle' = [lifecycle EXCEPT ![Only] = Tail(@)]

\* The teardown: the token is cancelled, the runner, its channels and its
\* connection are dropped, and the file is flushed whatever the result is.
Returns(result) ==
  /\ \/ outcome' = result
     \/ /\ file = "open" /\ "io" \in Faults
        /\ outcome' = IF result = "Ok" THEN "Io" ELSE result
  /\ file' = IF file = "open" THEN "flushed" ELSE file
  /\ run' = [run EXCEPT ![Only] = NoRun]
  /\ data' = [data EXCEPT ![Only] = <<>>]
  /\ receiving' = [receiving EXCEPT ![Only] = FALSE]
  /\ cancelled' = cancelled

\* `Started`: create_file makes the file, of the known size, and the runner may
\* stream.
HandleStarted ==
  /\ TakesEvent("Started")
  /\ file' = "open" /\ content' = <<>>
  /\ run' = [run EXCEPT ![Only].phase = IF @ = "preparing" THEN "streaming" ELSE @]
  /\ UNCHANGED <<data, mailbox, receiving, cancelled, total, downloaded, dataDone, runnerStopped,
                 outcome, yielded>>

\* create_file cannot open the file or allocate its size.
CreateFails ==
  /\ "io" \in Faults /\ TakesEvent("Started")
  /\ Returns("Io")
  /\ UNCHANGED <<mailbox, total, content, downloaded, dataDone, runnerStopped, yielded>>

\* `Stopped` before the file is there (connect_error), and `Stopped` of a failed
\* runner (handle_lifecycle_event): its reason is the result.
HandleFailed == \E reason \in Results \ {"Finished"} :
  /\ TakesEvent(reason)
  /\ Returns(reason)
  /\ UNCHANGED <<mailbox, total, content, downloaded, dataDone, runnerStopped, yielded>>

\* `Stopped` of a runner that finished: the loop ends if the data has ended too.
HandleFinished ==
  /\ TakesEvent("Finished") /\ file = "open"
  /\ runnerStopped' = TRUE
  /\ IF dataDone
     THEN Returns("Ok")
     ELSE UNCHANGED <<run, data, receiving, cancelled, file, outcome>>
  /\ UNCHANGED <<mailbox, total, content, downloaded, dataDone, yielded>>

TakesFrame ==
  /\ Running /\ file = "open" /\ ~dataDone /\ data[Only] # <<>>
  /\ downloaded' = downloaded + Len(Head(data[Only]))

\* handle_data_frame counts the frame and appends it to the file.
HandleDataFrame ==
  /\ TakesFrame
  /\ content' = content \o Head(data[Only])
  /\ data' = [data EXCEPT ![Only] = Tail(@)]
  /\ UNCHANGED <<run, lifecycle, mailbox, receiving, cancelled, total, file, dataDone, runnerStopped,
                 outcome, yielded>>

\* write_all fails, after a part of the frame or before it.
WriteFails ==
  /\ "io" \in Faults /\ TakesFrame
  /\ \E n \in 0 .. (Len(Head(data[Only])) - 1) : content' = content \o SubSeq(Head(data[Only]), 1, n)
  /\ Returns("Io")
  /\ UNCHANGED <<lifecycle, mailbox, total, dataDone, runnerStopped, yielded>>

\* Defect: the end of the data is noted, and the end of the loop left to the event.
DefectDataEnds ==
  /\ Running /\ file = "open" /\ ~dataDone
  /\ data[Only] = <<>> /\ run[Only].phase = "stopped"
  /\ dataDone' = TRUE
  /\ UNCHANGED <<run, data, receiving, cancelled, file, outcome>>
  /\ UNCHANGED <<lifecycle, mailbox, total, content, downloaded, runnerStopped, yielded>>

\* The data channel is closed, by the runner's exit, and empty.
DataEnds ==
  /\ Running /\ file = "open" /\ ~dataDone
  /\ data[Only] = <<>> /\ run[Only].phase = "stopped"
  /\ dataDone' = TRUE
  /\ IF runnerStopped
     THEN Returns("Ok")
     ELSE UNCHANGED <<run, data, receiving, cancelled, file, outcome>>
  /\ UNCHANGED <<lifecycle, mailbox, total, content, downloaded, runnerStopped, yielded>>

\* The task is cancelled; the runner's token is a child of the task's.
Cancel ==
  /\ Running /\ ~cancelled /\ cancelled' = TRUE
  /\ UNCHANGED <<run, data, lifecycle, mailbox, receiving, loopVars, yielded>>

-----------------------------------------------------------------------------
Loop ==
  \/ HandleStarted \/ HandleFailed \/ HandleFinished
  \/ HandleDataFrame \/ DataEnds

SingletonNext ==
  \/ Drives(RunnerSteps) \/ Drives(RunnerTimers) \/ Drives(RunnerFaultSteps)
  \/ ReadsBody \/ PublishesStarted
  \/ Loop \/ CreateFails \/ WriteFails
  \/ Cancel

\* The task is polled whenever one of its sources is ready and its timers fire.
\* The server need not answer, nor send anything once it has.
SingletonFairness ==
  /\ WF_singletonVars(Drives(RunnerSteps)) /\ WF_singletonVars(PublishesStarted)
  /\ WF_singletonVars(Drives(RunnerTimers))
  /\ WF_singletonVars(Loop)

SingletonSpec == SingletonInit /\ [][SingletonNext]_singletonVars /\ SingletonFairness

-----------------------------------------------------------------------------
(* Properties.                                                             *)

Prefix(n) == [i \in 1 .. n |-> i - 1]

\* When the transfer succeeds the file holds the beginning of the body: as many
\* bytes as the task was told, or all that the stream yielded when the size was
\* unknown, and then not nothing.  Neither the order of `Finished` and the end of
\* the data, a body of another length, nor the drain makes it more or less.
SuccessIsBody ==
  outcome = "Ok" =>
    /\ content = Prefix(Len(content))
    /\ IF total = NoTotal THEN content # <<>> /\ Len(content) = yielded
                          ELSE Len(content) = total

\* The transfer ends, with a server that never answers or falls silent too.
SingletonEnds == <>(outcome # "running")
=============================================================================
