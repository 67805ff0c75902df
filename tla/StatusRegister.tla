--------------------------- MODULE StatusRegister ---------------------------
(***************************************************************************)
(* What a watch channel promises, without its lock, its event and its      *)
(* listeners: a register that only moves forward.  Values are numbered in  *)
(* the order in which they are published.  A receiver notices the newest   *)
(* value, reads it, and learns that the channel is closed only when there  *)
(* is nothing left that it has not noticed.                                *)
(***************************************************************************)
EXTENDS Naturals

CONSTANT Receivers

VARIABLES
  latest,      \* the number of the newest value
  closed,      \* the sender is gone
  noticed,     \* per receiver, the newest value it knows of
  read,        \* per receiver, the value it read last
  over         \* the receivers that were told that the channel is closed

vars == <<latest, closed, noticed, read, over>>

RegisterInit ==
  /\ latest = 0 /\ closed = FALSE /\ over = {}
  /\ noticed = [r \in Receivers |-> 0]
  /\ read = [r \in Receivers |-> 0]

\* A value is published; nobody waits for the receivers.
Publish ==
  /\ ~closed
  /\ latest' = latest + 1
  /\ UNCHANGED <<closed, noticed, read, over>>

\* The sender is dropped.
Close ==
  /\ ~closed /\ closed' = TRUE
  /\ UNCHANGED <<latest, noticed, read, over>>

\* The receiver notices whatever is newest; values in between are skipped.
Notice(r) ==
  /\ noticed' = [noticed EXCEPT ![r] = latest]
  /\ UNCHANGED <<latest, closed, read, over>>

\* It reads the newest value, which it has noticed.
Read(r) ==
  /\ noticed[r] = latest
  /\ read' = [read EXCEPT ![r] = latest]
  /\ UNCHANGED <<latest, closed, noticed, over>>

\* It is told that nothing follows, and only then.
SeeClosed(r) ==
  /\ closed /\ noticed[r] = latest
  /\ over' = over \union {r}
  /\ UNCHANGED <<latest, closed, noticed, read>>

\* A receiver is created from another one, or from the sender with nothing unseen.
Join(r) ==
  /\ \E n \in {latest} \union {noticed[s] : s \in Receivers} :
       noticed' = [noticed EXCEPT ![r] = n]
  /\ UNCHANGED <<latest, closed, read, over>>

RegisterNext ==
  \/ Publish
  \/ Close
  \/ \E r \in Receivers : Notice(r) \/ Read(r) \/ SeeClosed(r) \/ Join(r)

RegisterSpec == RegisterInit /\ [][RegisterNext]_vars
=============================================================================
