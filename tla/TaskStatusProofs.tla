-------------------------- MODULE TaskStatusProofs --------------------------
(***************************************************************************)
(* The status of a task, from the attempt that publishes it to the caller  *)
(* that reads it.  The watch channel is right for every number of          *)
(* publishers, receivers and publications: its inductive invariant says    *)
(* who has the lock and what the value is then, that a receiver waits only *)
(* with a listener, and that wait_for and the stream have read what they   *)
(* have marked as seen.  The lifecycle is right for a resource of every    *)
(* length: its inductive invariant says what each phase of the attempt has *)
(* established before the status tells it.                                 *)
(***************************************************************************)
EXTENDS Watch, TaskLifecycle, TLAPS

-----------------------------------------------------------------------------
(* The watch channel. *)

\* Whoever is between taking the lock and letting go of it has it.
Locked ==
  /\ \A p \in Publishers : publisher[p] \in {"bump", "replace"} <=> lock = p
  /\ \A r \in Receivers : receiver[r] \in {"read", "clone"} <=> lock = r

\* The value belongs to the version, except between Bump and Replace.
Current ==
  /\ \A p \in Publishers : lock = p /\ publisher[p] = "bump" => value = version
  /\ \A r \in Receivers : receiver[r] = "clone" => seen[r] = version
  /\ lock \in Receivers \union {Nobody} => value = version

\* The sender is dropped once, and only when nobody publishes.
Closing ==
  /\ closed <=> dropping # "alive"
  /\ closed => \A p \in Publishers : publisher[p] = "idle"

\* A receiver waits only with a listener, and one that does not exist has no call.
Waiting ==
  \A r \in Receivers :
    /\ receiver[r] = "wait" => listener[r] # "none"
    /\ receiver[r] = "absent" => call[r] = "none"

\* wait_for and the stream have handed out the value they have marked as seen.
HandedOut ==
  \A r \in Receivers :
    call[r] \in {"wait_for", "stream"} /\ receiver[r] \notin {"lock", "read", "clone"}
      => got[r] = seen[r]

WatchInv ==
  /\ WatchTypeOK /\ Locked /\ Current /\ Closing /\ Waiting /\ HandedOut
  /\ NoLostUpdate /\ ClosedAfterLast

-----------------------------------------------------------------------------
\* The channel starts with one idle receiver and nothing published.
LEMMA WatchInitInv == WatchInit => WatchInv
<1> SUFFICES ASSUME WatchInit PROVE WatchInv
  OBVIOUS
<1> USE WatchAssumption DEF WatchInit
<1>1. WatchTypeOK
  BY DEF WatchTypeOK, PublisherPhases, DropPhases, ReceiverPhases, Calls, Registrations
<1>2. Locked /\ Current /\ Closing
  BY DEF Locked, Current, Closing
<1>3. Waiting /\ HandedOut /\ NoLostUpdate /\ ClosedAfterLast
  BY DEF Waiting, HandedOut, NoLostUpdate, ClosedAfterLast
<1> QED BY <1>1, <1>2, <1>3 DEF WatchInv

\* A publication keeps the invariant: the version is ahead of the value only while
\* the publisher has the lock, and who waits then is notified before it returns.
LEMMA PublishKeepsInv ==
  ASSUME WatchInv,
         NEW p \in Publishers,
         SendReplace(p) \/ Bump(p) \/ Replace(p) \/ Notify(p)
  PROVE  WatchInv'
<1> USE WatchAssumption DEF WatchInv, WatchTypeOK, senderVars, receiverVars
<1>1. CASE SendReplace(p)
  <2> USE <1>1 DEF SendReplace
  <2>1. WatchTypeOK'
    BY DEF PublisherPhases, DropPhases, ReceiverPhases, Calls, Registrations
  <2>2. Locked'
    BY DEF Locked
  <2>3. Current'
    BY DEF Current, Locked
  <2>4. Closing'
    BY DEF Closing
  <2>5. NoLostUpdate'
    BY DEF NoLostUpdate, NotifyComing
  <2>6. Waiting' /\ HandedOut' /\ ClosedAfterLast'
    BY DEF Waiting, HandedOut, ClosedAfterLast
  <2> QED BY <2>1, <2>2, <2>3, <2>4, <2>5, <2>6
<1>2. CASE Bump(p)
  <2> USE <1>2 DEF Bump
  <2>1. WatchTypeOK'
    BY DEF PublisherPhases, DropPhases, ReceiverPhases, Calls, Registrations
  <2>2. Locked'
    BY DEF Locked
  <2>3. Current'
    BY DEF Current, Locked
  <2>4. Closing'
    BY DEF Closing
  <2>5. NoLostUpdate'
    BY DEF NoLostUpdate, NotifyComing, Waiting, Registrations
  <2>6. ClosedAfterLast'
    BY DEF ClosedAfterLast, Closing
  <2>7. Waiting' /\ HandedOut'
    BY DEF Waiting, HandedOut
  <2> QED BY <2>1, <2>2, <2>3, <2>4, <2>5, <2>6, <2>7
<1>3. CASE Replace(p)
  <2> USE <1>3 DEF Replace
  <2>1. WatchTypeOK'
    BY DEF PublisherPhases, DropPhases, ReceiverPhases, Calls, Registrations
  <2>2. Locked'
    BY DEF Locked
  <2>3. Current'
    BY DEF Current, Locked
  <2>4. Closing'
    BY DEF Closing
  <2>5. NoLostUpdate'
    BY DEF NoLostUpdate, NotifyComing
  <2>6. Waiting' /\ HandedOut' /\ ClosedAfterLast'
    BY DEF Waiting, HandedOut, ClosedAfterLast
  <2> QED BY <2>1, <2>2, <2>3, <2>4, <2>5, <2>6
<1>4. CASE Notify(p)
  <2> USE <1>4 DEF Notify, NotifyAll
  <2>1. WatchTypeOK'
    BY DEF PublisherPhases, DropPhases, ReceiverPhases, Calls, Registrations
  <2>2. Locked'
    BY DEF Locked
  <2>3. Closing'
    BY DEF Closing
  <2>4. Waiting'
    BY DEF Waiting
  <2>5. NoLostUpdate'
    BY DEF NoLostUpdate, NotifyComing
  <2>6. Current' /\ HandedOut' /\ ClosedAfterLast'
    BY DEF Current, Locked, HandedOut, ClosedAfterLast
  <2> QED BY <2>1, <2>2, <2>3, <2>4, <2>5, <2>6
<1> QED BY <1>1, <1>2, <1>3, <1>4

\* So does the drop of the sender, which comes after every publication.
LEMMA DropKeepsInv ==
  ASSUME WatchInv,
         DropSender \/ NotifyDropped
  PROVE  WatchInv'
<1> USE WatchAssumption DEF WatchInv, WatchTypeOK, senderVars, receiverVars
<1>1. CASE DropSender
  <2> USE <1>1 DEF DropSender
  <2>1. WatchTypeOK'
    BY DEF PublisherPhases, DropPhases, ReceiverPhases, Calls, Registrations
  <2>2. Closing'
    BY DEF Closing
  <2>3. NoLostUpdate'
    BY DEF NoLostUpdate, NotifyComing, Waiting, Registrations
  <2>4. ClosedAfterLast'
    BY DEF ClosedAfterLast, Closing
  <2>5. Locked' /\ Current' /\ Waiting' /\ HandedOut'
    BY DEF Locked, Current, Waiting, HandedOut
  <2> QED BY <2>1, <2>2, <2>3, <2>4, <2>5
<1>2. CASE NotifyDropped
  <2> USE <1>2 DEF NotifyDropped, NotifyAll
  <2>1. WatchTypeOK'
    BY DEF PublisherPhases, DropPhases, ReceiverPhases, Calls, Registrations
  <2>2. Closing'
    BY DEF Closing
  <2>3. Waiting'
    BY DEF Waiting
  <2>4. NoLostUpdate'
    BY DEF NoLostUpdate, NotifyComing
  <2>5. Locked' /\ Current' /\ HandedOut' /\ ClosedAfterLast'
    BY DEF Locked, Current, HandedOut, ClosedAfterLast
  <2> QED BY <2>1, <2>2, <2>3, <2>4, <2>5
<1> QED BY <1>1, <1>2

\* Creating a receiver, calling it and giving a call up keep the invariant.
LEMMA CallKeepsInv ==
  ASSUME WatchInv,
         NEW r \in Receivers,
         Clone(r) \/ Subscribe(r) \/ MarkUnchanged(r)
           \/ Begin(r) \/ PollNext(r) \/ Abandon(r)
  PROVE  WatchInv'
<1> USE WatchAssumption DEF WatchInv, WatchTypeOK, senderVars, receiverVars
<1>1. CASE Clone(r)
  <2> USE <1>1 DEF Clone
  <2>1. WatchTypeOK'
    BY DEF PublisherPhases, DropPhases, ReceiverPhases, Calls, Registrations
  <2>2. Locked'
    BY DEF Locked
  <2>3. Current'
    BY DEF Current, Locked
  <2>4. Waiting'
    BY DEF Waiting
  <2>5. HandedOut'
    BY DEF HandedOut, Waiting
  <2>6. NoLostUpdate'
    BY DEF NoLostUpdate, NotifyComing
  <2>7. ClosedAfterLast'
    BY DEF ClosedAfterLast
  <2>8. Closing'
    BY DEF Closing
  <2> QED BY <2>1, <2>2, <2>3, <2>4, <2>5, <2>6, <2>7, <2>8
<1>2. CASE Subscribe(r)
  <2> USE <1>2 DEF Subscribe
  <2>1. WatchTypeOK'
    BY DEF PublisherPhases, DropPhases, ReceiverPhases, Calls, Registrations
  <2>2. Locked'
    BY DEF Locked
  <2>3. Current'
    BY DEF Current, Locked
  <2>4. Waiting'
    BY DEF Waiting
  <2>5. HandedOut'
    BY DEF HandedOut, Waiting
  <2>6. NoLostUpdate'
    BY DEF NoLostUpdate, NotifyComing
  <2>7. ClosedAfterLast'
    BY DEF ClosedAfterLast
  <2>8. Closing'
    BY DEF Closing
  <2> QED BY <2>1, <2>2, <2>3, <2>4, <2>5, <2>6, <2>7, <2>8
<1>3. CASE MarkUnchanged(r)
  <2> USE <1>3 DEF MarkUnchanged
  <2>1. WatchTypeOK'
    BY DEF PublisherPhases, DropPhases, ReceiverPhases, Calls, Registrations
  <2>2. Current'
    BY DEF Current, Locked
  <2>3. HandedOut'
    BY DEF HandedOut
  <2>4. NoLostUpdate'
    BY DEF NoLostUpdate, NotifyComing
  <2>5. ClosedAfterLast'
    BY DEF ClosedAfterLast
  <2>6. Locked' /\ Closing' /\ Waiting'
    BY DEF Locked, Closing, Waiting
  <2> QED BY <2>1, <2>2, <2>3, <2>4, <2>5, <2>6
<1>4. CASE Begin(r)
  <2> USE <1>4 DEF Begin
  <2>1. WatchTypeOK'
    BY DEF PublisherPhases, DropPhases, ReceiverPhases, Calls, Registrations
  <2>2. Locked'
    BY DEF Locked
  <2>3. Current'
    BY DEF Current, Locked
  <2>4. Waiting'
    BY DEF Waiting
  <2>5. HandedOut'
    BY DEF HandedOut
  <2>6. NoLostUpdate'
    BY DEF NoLostUpdate, NotifyComing
  <2>7. ClosedAfterLast'
    BY DEF ClosedAfterLast
  <2>8. Closing'
    BY DEF Closing
  <2> QED BY <2>1, <2>2, <2>3, <2>4, <2>5, <2>6, <2>7, <2>8
<1>5. CASE PollNext(r)
  <2> USE <1>5 DEF PollNext
  <2>1. WatchTypeOK'
    BY DEF PublisherPhases, DropPhases, ReceiverPhases, Calls, Registrations
  <2>2. Locked'
    BY DEF Locked
  <2>3. Waiting'
    BY DEF Waiting
  <2>4. HandedOut'
    BY DEF HandedOut
  <2>5. NoLostUpdate'
    BY DEF NoLostUpdate, NotifyComing
  <2>6. ClosedAfterLast'
    BY DEF ClosedAfterLast
  <2>7. Current' /\ Closing'
    BY DEF Current, Locked, Closing
  <2> QED BY <2>1, <2>2, <2>3, <2>4, <2>5, <2>6, <2>7
<1>6. CASE Abandon(r)
  <2> USE <1>6 DEF Abandon
  <2>1. WatchTypeOK'
    BY DEF PublisherPhases, DropPhases, ReceiverPhases, Calls, Registrations
  <2>2. Locked'
    BY DEF Locked
  <2>3. Waiting'
    BY DEF Waiting
  <2>4. HandedOut'
    BY DEF HandedOut
  <2>5. NoLostUpdate'
    BY DEF NoLostUpdate, NotifyComing
  <2>6. ClosedAfterLast'
    BY DEF ClosedAfterLast
  <2>7. Current' /\ Closing'
    BY DEF Current, Locked, Closing
  <2> QED BY <2>1, <2>2, <2>3, <2>4, <2>5, <2>6, <2>7
<1> QED BY <1>1, <1>2, <1>3, <1>4, <1>5, <1>6

\* So do looking at the state, listening and waking: a receiver that listens looks
\* once more, so that whatever came before its listener is seen.
LEMMA LookKeepsInv ==
  ASSUME WatchInv,
         NEW r \in Receivers,
         PollFindsNew(r) \/ PollFindsClosed(r) \/ PollFindsNothing(r)
           \/ Listen(r) \/ Wake(r)
  PROVE  WatchInv'
<1> USE WatchAssumption DEF WatchInv, WatchTypeOK, senderVars, receiverVars
<1>1. CASE PollFindsNew(r)
  <2> USE <1>1 DEF PollFindsNew
  <2>1. WatchTypeOK'
    BY DEF PublisherPhases, DropPhases, ReceiverPhases, Calls, Registrations
  <2>2. Locked'
    BY DEF Locked
  <2>3. Current'
    BY DEF Current, Locked
  <2>4. Waiting'
    BY DEF Waiting
  <2>5. HandedOut'
    BY DEF HandedOut
  <2>6. NoLostUpdate'
    BY DEF NoLostUpdate, NotifyComing
  <2>7. ClosedAfterLast'
    BY DEF ClosedAfterLast
  <2>8. Closing'
    BY DEF Closing
  <2> QED BY <2>1, <2>2, <2>3, <2>4, <2>5, <2>6, <2>7, <2>8
<1>2. CASE PollFindsClosed(r)
  <2> USE <1>2 DEF PollFindsClosed
  <2>1. WatchTypeOK'
    BY DEF PublisherPhases, DropPhases, ReceiverPhases, Calls, Registrations
  <2>2. Locked'
    BY DEF Locked
  <2>3. Waiting'
    BY DEF Waiting
  <2>4. HandedOut'
    BY DEF HandedOut
  <2>5. NoLostUpdate'
    BY DEF NoLostUpdate, NotifyComing
  <2>6. ClosedAfterLast'
    BY DEF ClosedAfterLast, HandedOut
  <2>7. Current' /\ Closing'
    BY DEF Current, Locked, Closing
  <2> QED BY <2>1, <2>2, <2>3, <2>4, <2>5, <2>6, <2>7
<1>3. CASE PollFindsNothing(r)
  <2> USE <1>3 DEF PollFindsNothing
  <2>1. WatchTypeOK'
    BY DEF PublisherPhases, DropPhases, ReceiverPhases, Calls, Registrations
  <2>2. Locked'
    BY DEF Locked
  <2>3. Waiting'
    BY DEF Waiting
  <2>4. HandedOut'
    BY DEF HandedOut
  <2>5. NoLostUpdate'
    BY DEF NoLostUpdate, NotifyComing
  <2>6. ClosedAfterLast'
    BY DEF ClosedAfterLast
  <2>7. Current' /\ Closing'
    BY DEF Current, Locked, Closing
  <2> QED BY <2>1, <2>2, <2>3, <2>4, <2>5, <2>6, <2>7
<1>4. CASE Listen(r)
  <2> USE <1>4 DEF Listen
  <2>1. WatchTypeOK'
    BY DEF PublisherPhases, DropPhases, ReceiverPhases, Calls, Registrations
  <2>2. Locked'
    BY DEF Locked
  <2>3. Waiting'
    BY DEF Waiting
  <2>4. HandedOut'
    BY DEF HandedOut
  <2>5. NoLostUpdate'
    BY DEF NoLostUpdate, NotifyComing
  <2>6. ClosedAfterLast'
    BY DEF ClosedAfterLast
  <2>7. Current' /\ Closing'
    BY DEF Current, Locked, Closing
  <2> QED BY <2>1, <2>2, <2>3, <2>4, <2>5, <2>6, <2>7
<1>5. CASE Wake(r)
  <2> USE <1>5 DEF Wake
  <2>1. WatchTypeOK'
    BY DEF PublisherPhases, DropPhases, ReceiverPhases, Calls, Registrations
  <2>2. Locked'
    BY DEF Locked
  <2>3. Waiting'
    BY DEF Waiting
  <2>4. HandedOut'
    BY DEF HandedOut
  <2>5. NoLostUpdate'
    BY DEF NoLostUpdate, NotifyComing
  <2>6. ClosedAfterLast'
    BY DEF ClosedAfterLast
  <2>7. Current' /\ Closing'
    BY DEF Current, Locked, Closing
  <2> QED BY <2>1, <2>2, <2>3, <2>4, <2>5, <2>6, <2>7
<1> QED BY <1>1, <1>2, <1>3, <1>4, <1>5

\* And reading the value, with the lock held from the version to the value.
LEMMA ReadKeepsInv ==
  ASSUME WatchInv,
         NEW r \in Receivers,
         Lock(r) \/ ReadVersion(r) \/ CloneValue(r)
  PROVE  WatchInv'
<1> USE WatchAssumption DEF WatchInv, WatchTypeOK, senderVars, receiverVars
<1>1. CASE Lock(r)
  <2> USE <1>1 DEF Lock
  <2>1. WatchTypeOK'
    BY DEF PublisherPhases, DropPhases, ReceiverPhases, Calls, Registrations
  <2>2. Locked'
    BY DEF Locked
  <2>3. Current'
    BY DEF Current, Locked
  <2>4. Waiting'
    BY DEF Waiting
  <2>5. HandedOut'
    BY DEF HandedOut
  <2>6. NoLostUpdate'
    BY DEF NoLostUpdate, NotifyComing
  <2>7. ClosedAfterLast'
    BY DEF ClosedAfterLast
  <2>8. Closing'
    BY DEF Closing
  <2> QED BY <2>1, <2>2, <2>3, <2>4, <2>5, <2>6, <2>7, <2>8
<1>2. CASE ReadVersion(r)
  <2> USE <1>2 DEF ReadVersion
  <2>1. WatchTypeOK'
    BY DEF PublisherPhases, DropPhases, ReceiverPhases, Calls, Registrations
  <2>2. Locked'
    BY DEF Locked
  <2>3. Current'
    BY DEF Current, Locked
  <2>4. Waiting'
    BY DEF Waiting
  <2>5. HandedOut'
    BY DEF HandedOut
  <2>6. NoLostUpdate'
    BY DEF NoLostUpdate, NotifyComing
  <2>7. ClosedAfterLast'
    BY DEF ClosedAfterLast
  <2>8. Closing'
    BY DEF Closing
  <2> QED BY <2>1, <2>2, <2>3, <2>4, <2>5, <2>6, <2>7, <2>8
<1>3. CASE CloneValue(r)
  <2> USE <1>3 DEF CloneValue
  <2>1. WatchTypeOK'
    BY DEF PublisherPhases, DropPhases, ReceiverPhases, Calls, Registrations
  <2>2. Locked'
    BY DEF Locked
  <2>3. Current'
    BY DEF Current, Locked
  <2>4. Waiting'
    BY DEF Waiting
  <2>5. HandedOut'
    BY DEF HandedOut, Current, Locked
  <2>6. NoLostUpdate'
    BY DEF NoLostUpdate, NotifyComing
  <2>7. ClosedAfterLast'
    BY DEF ClosedAfterLast
  <2>8. Closing'
    BY DEF Closing
  <2> QED BY <2>1, <2>2, <2>3, <2>4, <2>5, <2>6, <2>7, <2>8
<1> QED BY <1>1, <1>2, <1>3

\* The inductive invariant of the channel.
THEOREM WatchInvariant == WatchSpec => []WatchInv
<1>1. WatchInv /\ [WatchNext]_vars => WatchInv'
  <2> SUFFICES ASSUME WatchInv, [WatchNext]_vars
               PROVE  WatchInv'
    OBVIOUS
  <2>1. CASE SenderNext
    BY <2>1, PublishKeepsInv, DropKeepsInv DEF SenderNext
  <2>2. CASE ReceiverNext
    BY <2>2, CallKeepsInv, LookKeepsInv, ReadKeepsInv DEF ReceiverNext, ReceiverGoesOn
  <2>3. CASE UNCHANGED vars
    BY <2>3 DEF vars, senderVars, receiverVars, WatchInv, WatchTypeOK, Locked, Current, Closing,
      Waiting, HandedOut, NoLostUpdate, NotifyComing, ClosedAfterLast
  <2> QED BY <2>1, <2>2, <2>3 DEF WatchNext
<1> QED BY WatchInitInv, <1>1, PTL DEF WatchSpec

\* Every variable keeps its type.
THEOREM WatchTypeCorrect == WatchSpec => []WatchTypeOK
<1>1. WatchInv => WatchTypeOK
  BY DEF WatchInv
<1> QED BY <1>1, WatchInvariant, PTL

\* No receiver sleeps through an update or the close: check, listen and check again
\* leave no gap, however many publishers and receivers there are.
THEOREM WatchNoLostUpdate == WatchSpec => []NoLostUpdate
<1>1. WatchInv => NoLostUpdate
  BY DEF WatchInv
<1> QED BY <1>1, WatchInvariant, PTL

\* Closed comes after the last value, which wait_for and the stream have handed out.
THEOREM WatchClosedAfterLast == WatchSpec => []ClosedAfterLast
<1>1. WatchInv => ClosedAfterLast
  BY DEF WatchInv
<1> QED BY <1>1, WatchInvariant, PTL

\* A value is read together with its version.
THEOREM WatchValueOfVersion == WatchSpec => []ValueOfVersion
<1>1. WatchInv => ValueOfVersion
  BY WatchAssumption DEF WatchInv, ValueOfVersion, Locked, Current
<1> QED BY <1>1, WatchInvariant, PTL

\* The channel with its lock, its event and its listeners implements the register.
THEOREM WatchImplementsRegister == WatchSpec => IsRegister
<1>1. WatchInit => Register!RegisterInit
  BY DEF WatchInit, Register!RegisterInit
<1>2. WatchInv /\ [WatchNext]_vars => [Register!RegisterNext]_Register!vars
  <2> SUFFICES ASSUME WatchInv, [WatchNext]_vars
               PROVE  [Register!RegisterNext]_Register!vars
    OBVIOUS
  <2> USE WatchAssumption DEF WatchInv, WatchTypeOK, Register!vars
  <2>1. ASSUME NEW p \in Publishers, Bump(p) PROVE [Register!RegisterNext]_Register!vars
    BY <2>1 DEF Bump, receiverVars, Closing, Register!RegisterNext, Register!Publish
  <2>2. ASSUME NEW p \in Publishers, SendReplace(p) \/ Replace(p) \/ Notify(p) PROVE [Register!RegisterNext]_Register!vars
    BY <2>2 DEF SendReplace, Replace, Notify, receiverVars
  <2>3. CASE DropSender
    BY <2>3 DEF DropSender, receiverVars, Closing, Register!RegisterNext, Register!Close
  <2>4. CASE NotifyDropped
    BY <2>4 DEF NotifyDropped
  <2>5. ASSUME NEW r \in Receivers, Clone(r) \/ Subscribe(r) PROVE [Register!RegisterNext]_Register!vars
    BY <2>5 DEF Clone, Subscribe, Register!RegisterNext, Register!Join
  <2>6. ASSUME NEW r \in Receivers, MarkUnchanged(r) \/ PollFindsNew(r) \/ ReadVersion(r) PROVE [Register!RegisterNext]_Register!vars
    BY <2>6 DEF MarkUnchanged, PollFindsNew, ReadVersion, Register!RegisterNext, Register!Notice
  <2>7. ASSUME NEW r \in Receivers, CloneValue(r) PROVE [Register!RegisterNext]_Register!vars
    BY <2>7 DEF CloneValue, Current, Locked, Register!RegisterNext, Register!Read
  <2>8. ASSUME NEW r \in Receivers, PollFindsClosed(r) PROVE [Register!RegisterNext]_Register!vars
    BY <2>8 DEF PollFindsClosed, Register!RegisterNext, Register!SeeClosed
  <2>9. ASSUME NEW r \in Receivers, Begin(r) \/ PollNext(r) \/ Abandon(r) \/ PollFindsNothing(r) \/ Listen(r) \/ Wake(r) \/ Lock(r) PROVE [Register!RegisterNext]_Register!vars
    BY <2>9 DEF Begin, PollNext, Abandon, PollFindsNothing, Listen, Wake, Lock
  <2>10. CASE UNCHANGED vars
    BY <2>10 DEF vars, receiverVars
  <2> QED BY <2>1, <2>2, <2>3, <2>4, <2>5, <2>6, <2>7, <2>8, <2>9, <2>10
    DEF WatchNext, SenderNext, ReceiverNext, ReceiverGoesOn
<1> QED BY <1>1, <1>2, WatchInvariant, PTL DEF WatchSpec, IsRegister, Register!RegisterSpec

-----------------------------------------------------------------------------
(* The lifecycle of a task. *)

\* The attempt's thread ends with a terminal status, and only ends after one.
Told ==
  /\ terminal <=> IsTerminal(status.state)
  /\ pc \in {"returning", "returned"} => terminal
  /\ terminal => pc \in {"returning", "returned", "panicked"}

InTransfer == {"opening", "transferring", "torn_down", "renaming", "discarding", "ending"}

\* A transfer was announced with its mode, and the panic handler knows its file.
Announced ==
  /\ pc \in InTransfer \cup {"starting"} => info.mode \in Modes
  /\ pc \in {"pending", "initializing"} => ~temp_file
  /\ pc \in InTransfer => temp_file /\ status.info = info
  /\ tmp \in {"partial", "whole"} => temp_file

TransferResults == {"Ok", "Cancelled", "Transfer", "Io", "RangeUnsupported"}

\* What the result of a transfer means as it passes through the commit.
Settled ==
  /\ pc \in {"torn_down", "renaming", "discarding", "ending"} =>
       /\ result \in TransferResults
       /\ result = "Ok" => total = 0 \/ downloaded = total
       /\ result = "RangeUnsupported" => info.mode = "Concurrent"
  /\ pc = "renaming" => result = "Ok"
  /\ pc = "discarding" => result # "Ok"
  /\ pc = "ending" =>
       IF result = "Ok" THEN dest = "new" /\ tmp = "absent"
                        ELSE dest = "old" /\ (tmp \in {"absent", "stale"} \/ leftover)
  /\ dest = "new" => status.state = "Finished" \/ (pc = "ending" /\ result = "Ok")

\* The terminal status has all that outcome reads.
Readable ==
  /\ status.state = "Finished" => status.info # NoInfo
  /\ status.state = "Failed" => status.error \notin {"none", "Aborted", "Cancelled"}

\* A task that was joined has returned, and its outcome is that of the status.
Joined == handle = "joined" => pc = "returned" /\ outcome = OutcomeOf(status)

LifecycleInv ==
  /\ LifecycleTypeOK
  /\ Told
  /\ Announced
  /\ Settled
  /\ FinishedIsCommitted
  /\ NothingLeftBehind
  /\ FallbackIsTaken
  /\ Readable
  /\ Joined

-----------------------------------------------------------------------------
(* What a step that publishes makes of the status. *)

\* Publish shows a status without an error, unless a terminal one stands.
LEMMA PublishTells ==
  ASSUME NEW state \in States, NEW progress \in Progresses, NEW known \in Infos,
         ~terminal, Publish(NewStatus(state, progress, known))
  PROVE  /\ UNCHANGED terminal
         /\ status' \in Statuses
         /\ status'.state = state
         /\ status'.info = known
         /\ status'.error = "none"
BY DEF Publish, NewStatus, Statuses

\* Finish tells the result, unless a terminal status stands.
LEMMA FinishTells ==
  ASSUME NEW res \in Errors \cup {"Ok"}, NEW progress \in Progresses, NEW left \in BOOLEAN,
         status \in Statuses, ~terminal, Finish(res, progress, left)
  PROVE  /\ terminal' /\ terminal' \in BOOLEAN /\ temp_file' = temp_file
         /\ status' \in Statuses
         /\ status'.state = TerminalState(res)
         /\ status'.progress = progress
         /\ status'.info = status.info
         /\ status'.error = IF res = "Ok" THEN "none" ELSE res
         /\ status'.leftover = left
<1>1. TerminalState(res) \in States
  BY DEF TerminalState, States
<1>2. status.info \in Infos
  BY DEF Statuses
<1>3. status' = [state |-> TerminalState(res), progress |-> progress, info |-> status.info,
                 error |-> IF res = "Ok" THEN "none" ELSE res, leftover |-> left]
  BY DEF Finish, TerminalStatus, NewStatus
<1>4. (IF res = "Ok" THEN "none" ELSE res) \in Errors \cup {"none"}
  OBVIOUS
<1>5. terminal' /\ terminal' \in BOOLEAN /\ temp_file' = temp_file
  BY DEF Finish
<1> QED
  BY <1>1, <1>2, <1>3, <1>4, <1>5 DEF Statuses

\* A progress is a record of two sizes.
LEMMA ProgressType ==
  ASSUME NEW whole \in 0 .. Length, NEW bytes \in 0 .. Length
  PROVE  /\ Progress(whole, bytes) \in Progresses
         /\ Progress(whole, bytes).total = whole
         /\ Progress(whole, bytes).downloaded = bytes
BY DEF Progress, Progresses

\* Nothing was downloaded and nothing is known.
LEMMA NothingKnown == NoProgress \in Progresses /\ NoInfo \in Infos
BY LengthAssumption, ProgressType DEF NoProgress, NoInfo, Info, Infos

\* The attempt announces initialization, a transfer and its samples.
LEMMA AnnouncementTells ==
  ASSUME LifecycleInv
  PROVE  /\ Start => /\ UNCHANGED terminal /\ status' \in Statuses
                     /\ status'.state = "Initializing" /\ status'.error = "none"
         /\ Drive \/ Report =>
              /\ UNCHANGED terminal /\ status' \in Statuses
              /\ status'.state = "Downloading" /\ status'.error = "none"
         /\ Drive => status'.info = info
         /\ Report => status'.info = status.info
<1>1. /\ status.info \in Infos /\ info \in Infos
      /\ total \in 0 .. Length /\ downloaded \in 0 .. Length /\ 0 \in 0 .. Length
  BY LengthAssumption DEF LifecycleInv, LifecycleTypeOK, Statuses
<1>2. Progress(total, 0) \in Progresses /\ Progress(total, downloaded) \in Progresses
  BY <1>1, ProgressType
<1>3. {"Initializing", "Downloading"} \subseteq States
  BY DEF States
<1>4. Start \/ Drive \/ Report => ~terminal
  BY DEF Start, Drive, Report, LifecycleInv, Told
<1>5. ASSUME Start
      PROVE  /\ UNCHANGED terminal /\ status' \in Statuses
             /\ status'.state = "Initializing" /\ status'.error = "none"
  <2>1. Publish(NewStatus("Initializing", NoProgress, NoInfo))
    BY <1>5 DEF Start
  <2> QED
    BY <1>3, <1>4, <1>5, <2>1, NothingKnown, PublishTells
<1>6. ASSUME Drive
      PROVE  /\ UNCHANGED terminal /\ status' \in Statuses
             /\ status'.state = "Downloading" /\ status'.error = "none" /\ status'.info = info
  <2>1. Publish(NewStatus("Downloading", Progress(total, 0), info))
    BY <1>6 DEF Drive
  <2> QED
    BY <1>1, <1>2, <1>3, <1>4, <1>6, <2>1, PublishTells
<1>7. ASSUME Report
      PROVE  /\ UNCHANGED terminal /\ status' \in Statuses
             /\ status'.state = "Downloading" /\ status'.error = "none"
             /\ status'.info = status.info
  <2>1. Publish(NewStatus("Downloading", Progress(total, downloaded), status.info))
    BY <1>7 DEF Report, TransferProgress
  <2> QED
    BY <1>1, <1>2, <1>3, <1>4, <1>7, <2>1, PublishTells
<1> QED
  BY <1>5, <1>6, <1>7

\* An attempt that ends before its transfer fails, or was cancelled.
LEMMA EarlyEndTells ==
  ASSUME LifecycleInv, NoLocalRuntime \/ InitializeFails \/ InitializeCancelled
  PROVE  /\ ~terminal /\ terminal' /\ terminal' \in BOOLEAN /\ temp_file' = temp_file
         /\ status' \in Statuses
         /\ \/ status'.state = "Failed" /\ status'.error \in {"Runtime"} \cup InitializeErrors
            \/ status'.state = "Cancelled" /\ status'.error = "Cancelled"
<1>1. PICK e \in {"Runtime", "Metadata", "Destination", "Io", "Cancelled"} :
        Finish(e, NoProgress, FALSE)
  BY DEF NoLocalRuntime, InitializeFails, InitializeErrors, InitializeCancelled
<1>2. ~terminal /\ status \in Statuses
  BY DEF LifecycleInv, LifecycleTypeOK, Told, NoLocalRuntime, InitializeFails, InitializeCancelled
<1>3. e \in Errors \cup {"Ok"} /\ e # "Ok"
  BY DEF Errors
<1>4. /\ terminal' /\ terminal' \in BOOLEAN /\ temp_file' = temp_file /\ status' \in Statuses
      /\ status'.state = TerminalState(e) /\ status'.error = e
  BY <1>1, <1>2, <1>3, NothingKnown, FinishTells
<1> QED
  BY <1>2, <1>3, <1>4 DEF TerminalState, InitializeErrors

\* An attempt that ends after its transfer tells the result of the commit.
LEMMA EndTells ==
  ASSUME LifecycleInv, End
  PROVE  /\ ~terminal /\ terminal' /\ terminal' \in BOOLEAN /\ temp_file' = temp_file
         /\ status' \in Statuses
         /\ status'.state = TerminalState(result)
         /\ status'.info = status.info
         /\ status'.leftover = leftover
         /\ status'.error = IF result = "Ok" THEN "none" ELSE result
         /\ result = "Ok" => status'.progress.total = status'.progress.downloaded
<1> DEFINE progress == IF result = "Ok" THEN FinalProgress ELSE TransferProgress
<1>1. /\ total \in 0 .. Length /\ downloaded \in 0 .. Length
      /\ status \in Statuses /\ leftover \in BOOLEAN /\ ~terminal
      /\ result \in Errors \cup {"Ok"}
      /\ result = "Ok" => total = 0 \/ downloaded = total
  BY LengthAssumption DEF LifecycleInv, LifecycleTypeOK, Told, Settled, TransferResults, Errors, End
<1>2. progress \in Progresses /\ (result = "Ok" => progress.total = progress.downloaded)
  BY <1>1, ProgressType DEF FinalProgress, TransferProgress
<1>3. Finish(result, progress, leftover)
  BY DEF End
<1> HIDE DEF progress
<1>4. /\ terminal' /\ terminal' \in BOOLEAN /\ temp_file' = temp_file /\ status' \in Statuses
      /\ status'.state = TerminalState(result) /\ status'.progress = progress
      /\ status'.info = status.info /\ status'.leftover = leftover
      /\ status'.error = IF result = "Ok" THEN "none" ELSE result
  BY <1>1, <1>2, <1>3, FinishTells
<1> QED
  BY <1>1, <1>2, <1>4

\* The panic handler fails the task with its progress, unless the status is terminal.
LEMMA PanicTells ==
  ASSUME LifecycleInv, ReportPanic, ~terminal
  PROVE  /\ terminal' /\ terminal' \in BOOLEAN /\ temp_file' = temp_file
         /\ status' \in Statuses
         /\ status'.state = "Failed" /\ status'.error = "Panicked"
         /\ IF temp_file THEN Removed(status'.leftover) ELSE UNCHANGED tmp
<1>1. PICK left \in BOOLEAN : /\ Finish("Panicked", status.progress, left)
                              /\ IF temp_file THEN Removed(left) ELSE UNCHANGED tmp
  BY DEF ReportPanic, LastProgress
<1>2. status \in Statuses /\ status.progress \in Progresses
  BY DEF LifecycleInv, LifecycleTypeOK, Statuses
<1>3. "Panicked" \in Errors \cup {"Ok"}
  BY DEF Errors
<1>4. /\ terminal' /\ terminal' \in BOOLEAN /\ temp_file' = temp_file /\ status' \in Statuses
      /\ status'.state = TerminalState("Panicked") /\ status'.error = "Panicked"
      /\ status'.leftover = left
  BY <1>1, <1>2, <1>3, FinishTells
<1> QED
  BY <1>1, <1>4 DEF TerminalState

-----------------------------------------------------------------------------
(* The invariant. *)

\* A task starts pending, with nothing but perhaps a stale file.
LEMMA LifecycleInitInv == LifecycleInit => LifecycleInv
<1> SUFFICES ASSUME LifecycleInit PROVE LifecycleInv
  OBVIOUS
<1>1. NoInfo.mode = "none"
  BY DEF NoInfo, Info
<1>2. /\ status \in Statuses /\ status.state = "Pending" /\ status.error = "none"
  BY NothingKnown DEF LifecycleInit, NewStatus, Statuses, States
<1>3. {leftover, terminal, temp_file} \subseteq BOOLEAN
  BY DEF LifecycleInit
<1> QED
  BY <1>1, <1>2, <1>3, NothingKnown, LengthAssumption
    DEF LifecycleInit, LifecycleInv, LifecycleTypeOK, Told, Announced, Settled,
        FinishedIsCommitted, NothingLeftBehind, FallbackIsTaken, Readable, Joined, Modes,
        Errors, Phases, IsTerminal, InTransfer

\* Every step of the attempt and of its owner keeps the invariant.
LEMMA LifecycleStepInv ==
  ASSUME LifecycleInv, LifecycleNext
  PROVE  LifecycleInv'
<1> USE LengthAssumption
    DEF LifecycleInv, LifecycleTypeOK, Told, Announced, Settled, FinishedIsCommitted,
        NothingLeftBehind, FallbackIsTaken, Readable, Joined, NoInfo, Info, Infos, Modes,
        FallbackReasons, Errors, Phases, IsTerminal, InTransfer, TransferResults, OutcomeOf,
        attemptVars, statusVars, fileVars, handleVars
<1>1. CASE Start
  BY <1>1, AnnouncementTells DEF Start
<1>2. CASE NoLocalRuntime \/ InitializeFails \/ InitializeCancelled
  <2>1. /\ ~terminal /\ terminal' /\ terminal' \in BOOLEAN /\ temp_file' = temp_file
        /\ status' \in Statuses
        /\ \/ status'.state = "Failed" /\ status'.error \in {"Runtime"} \cup InitializeErrors
           \/ status'.state = "Cancelled" /\ status'.error = "Cancelled"
    BY <1>2, EarlyEndTells
  <2>2. /\ pc \in {"pending", "initializing"} /\ pc' = "returning"
        /\ UNCHANGED <<prefer, has_local, cancelled, attemptVars, fileVars, handleVars>>
    BY <1>2 DEF NoLocalRuntime, InitializeFails, InitializeCancelled
  <2> QED
    BY <2>1, <2>2 DEF InitializeErrors
<1>3. CASE Initialized
  BY <1>3 DEF Initialized, SelectMode
<1>4. CASE Drive
  <2>1. /\ leftover' \in BOOLEAN /\ temp_file' /\ temp_file' \in BOOLEAN
    BY <1>4 DEF Drive
  <2>2. /\ ~terminal /\ UNCHANGED terminal /\ status' \in Statuses
        /\ status'.state = "Downloading" /\ status'.error = "none" /\ status'.info = info
    BY <1>4, AnnouncementTells DEF Drive
  <2>3. /\ pc = "starting" /\ pc' = "opening" /\ downloaded' = 0 /\ result' = "none"
        /\ UNCHANGED <<prefer, has_local, cancelled, info, total, fileVars, handleVars>>
    BY <1>4 DEF Drive
  <2> QED
    BY <2>1, <2>2, <2>3
<1>5. CASE OpenFile
  BY <1>5 DEF OpenFile
<1>6. CASE OpenFails
  BY <1>6 DEF OpenFails
<1>7. CASE ConnectFails
  BY <1>7 DEF ConnectFails
<1>8. CASE Receive
  BY <1>8 DEF Receive
<1>9. CASE Report
  BY <1>9, AnnouncementTells DEF Report
<1>10. CASE TransferSucceeds
  BY <1>10 DEF TransferSucceeds
<1>11. CASE TransferFails
  BY <1>11 DEF TransferFails, TransferErrors
<1>12. CASE TransferCancelled
  BY <1>12 DEF TransferCancelled
<1>13. CASE Commit
  BY <1>13 DEF Commit
<1>14. CASE Rename
  BY <1>14 DEF Rename
<1>15. CASE RenameFails
  BY <1>15 DEF RenameFails
<1>16. CASE Discard
  BY <1>16 DEF Discard, Removed
<1>17. CASE FallBack
  BY <1>17 DEF FallBack, FallsBack
<1>18. CASE End
  <2>1. /\ ~terminal /\ terminal' /\ terminal' \in BOOLEAN /\ temp_file' = temp_file
        /\ status' \in Statuses
        /\ status'.state = TerminalState(result) /\ status'.info = status.info
        /\ status'.leftover = leftover
        /\ status'.error = IF result = "Ok" THEN "none" ELSE result
        /\ result = "Ok" => status'.progress.total = status'.progress.downloaded
    BY <1>18, EndTells
  <2>2. /\ pc = "ending" /\ pc' = "returning" /\ ~FallsBack
        /\ UNCHANGED <<prefer, has_local, cancelled, attemptVars, fileVars, handleVars>>
    BY <1>18 DEF End
  <2>3. CASE result = "Ok"
    BY <2>1, <2>2, <2>3 DEF TerminalState
  <2>4. CASE result # "Ok"
    BY <2>1, <2>2, <2>4 DEF TerminalState, FallsBack
  <2> QED
    BY <2>3, <2>4
<1>19. CASE Return
  BY <1>19 DEF Return
<1>20. CASE Panic
  BY <1>20 DEF Panic
<1>21. CASE ReportPanic
  <2>1. /\ pc = "panicked" /\ pc' = "returned" /\ cancelled' \in BOOLEAN
        /\ UNCHANGED <<prefer, has_local, attemptVars, dest, handleVars>>
    BY <1>21 DEF ReportPanic
  <2>2. CASE terminal
    BY <1>21, <2>1, <2>2 DEF ReportPanic
  <2>3. CASE ~terminal
    <3>1. /\ terminal' /\ terminal' \in BOOLEAN /\ temp_file' = temp_file
          /\ status' \in Statuses
          /\ status'.state = "Failed" /\ status'.error = "Panicked"
          /\ IF temp_file THEN Removed(status'.leftover) ELSE UNCHANGED tmp
      BY <1>21, <2>3, PanicTells
    <3> QED
      BY <2>1, <2>3, <3>1 DEF Removed
  <2> QED
    BY <2>2, <2>3
<1>22. CASE Cancel
  BY <1>22 DEF Cancel
<1>23. CASE Stop
  BY <1>23 DEF Stop
<1>24. CASE Detach
  BY <1>24 DEF Detach
<1>25. CASE Drop
  BY <1>25 DEF Drop
<1>26. CASE Join
  BY <1>26 DEF Join, Statuses
<1> QED
  BY <1>1, <1>2, <1>3, <1>4, <1>5, <1>6, <1>7, <1>8, <1>9, <1>10, <1>11, <1>12, <1>13,
     <1>14, <1>15, <1>16, <1>17, <1>18, <1>19, <1>20, <1>21, <1>22, <1>23, <1>24, <1>25, <1>26
    DEF LifecycleNext, Attempt, Owner
-----------------------------------------------------------------------------
(* The theorems. *)

\* The invariant holds in every reachable state.
THEOREM LifecycleInvariant == LifecycleSpec => []LifecycleInv
<1>1. LifecycleInv /\ UNCHANGED lifecycleVars => LifecycleInv'
  BY DEF LifecycleInv, LifecycleTypeOK, Told, Announced, Settled, FinishedIsCommitted,
         NothingLeftBehind, FallbackIsTaken, Readable, Joined, OutcomeOf, lifecycleVars,
         attemptVars, statusVars, fileVars, handleVars
<1>2. LifecycleInv /\ [LifecycleNext]_lifecycleVars => LifecycleInv'
  BY <1>1, LifecycleStepInv
<1> QED
  BY <1>2, LifecycleInitInv, PTL DEF LifecycleSpec

\* Types are kept, and a concurrent transfer has a known size.
THEOREM LifecycleTypeCorrect == LifecycleSpec => []LifecycleTypeOK
<1>1. LifecycleInv => LifecycleTypeOK
  BY DEF LifecycleInv
<1> QED
  BY <1>1, LifecycleInvariant, PTL

\* The destination holds the new file exactly when the task finished.
THEOREM LifecycleCommits == LifecycleSpec => []FinishedIsCommitted
<1>1. LifecycleInv => FinishedIsCommitted
  BY DEF LifecycleInv
<1> QED
  BY <1>1, LifecycleInvariant, PTL

\* A task that did not finish leaves the destination alone and no file of its own that
\* it does not name.
THEOREM LifecycleCleansUp == LifecycleSpec => []NothingLeftBehind
<1>1. LifecycleInv => NothingLeftBehind
  BY DEF LifecycleInv
<1> QED
  BY <1>1, LifecycleInvariant, PTL

\* No task ends with RangeUnsupported.
THEOREM LifecycleFallsBack == LifecycleSpec => []FallbackIsTaken
<1>1. LifecycleInv => FallbackIsTaken
  BY DEF LifecycleInv
<1> QED
  BY <1>1, LifecycleInvariant, PTL

\* Awaiting a task gives the outcome of its terminal status and never Aborted.
THEOREM LifecycleOutcome == LifecycleSpec => []AwaitTellsTheOutcome
<1>1. LifecycleInv => AwaitTellsTheOutcome
  <2> SUFFICES ASSUME LifecycleInv, handle = "joined"
               PROVE  /\ outcome # "Aborted"
                      /\ outcome = "Ok" <=> dest = "new"
                      /\ outcome = "Cancelled" <=> status.state = "Cancelled"
    BY DEF AwaitTellsTheOutcome
  <2>1. /\ pc = "returned" /\ outcome = OutcomeOf(status)
        /\ status.state \in {"Finished", "Failed", "Cancelled"}
    BY DEF LifecycleInv, Joined, Told, IsTerminal
  <2>2. dest = "new" <=> status.state = "Finished"
    BY <2>1 DEF LifecycleInv, Settled, FinishedIsCommitted
  <2>3. status.error # "Ok"
    BY DEF LifecycleInv, LifecycleTypeOK, Statuses, Errors
  <2> QED
    BY <2>1, <2>2, <2>3 DEF LifecycleInv, Readable, OutcomeOf
<1> QED
  BY <1>1, LifecycleInvariant, PTL

\* A terminal status is never replaced.
THEOREM LifecycleTerminalIsLast == LifecycleSpec => TerminalIsLast
<1>1. LifecycleInv /\ [LifecycleNext]_lifecycleVars
        => [IsTerminal(status.state) => status' = status]_lifecycleVars
  <2> SUFFICES ASSUME LifecycleInv, LifecycleNext, terminal PROVE status' = status
    BY DEF LifecycleInv, Told
  <2>1. pc \in {"returning", "returned", "panicked"}
    BY DEF LifecycleInv, Told
  <2> USE DEF statusVars
  <2>2. CASE Attempt
    BY <2>1, <2>2 DEF Attempt, Start, NoLocalRuntime, Initialized, InitializeFails,
      InitializeCancelled, Drive, OpenFile, OpenFails, ConnectFails, Receive, Report,
      TransferSucceeds, TransferFails, TransferCancelled, Commit, Rename, RenameFails, Discard,
      FallBack, End, Return, Panic, ReportPanic
  <2>3. CASE Owner
    BY <2>3 DEF Owner, Cancel, Stop, Detach, Drop, Join
  <2> QED
    BY <2>2, <2>3 DEF LifecycleNext
<1> QED
  BY <1>1, LifecycleInvariant, PTL DEF LifecycleSpec, TerminalIsLast

\* Cancelled, and not on the way to the rename.
Doomed ==
  /\ cancelled
  /\ dest = "old"
  /\ pc # "renaming"
  /\ pc = "ending" => result # "Ok"

\* A task cancelled before the commit looks at the token never renames its file.
THEOREM LifecycleCancelIsKept == LifecycleSpec => CancelledNeverCommits
<1>1. LifecycleInv /\ cancelled /\ pc \in BeforeCommit => Doomed
  <2> SUFFICES ASSUME LifecycleInv, cancelled, pc \in BeforeCommit PROVE dest = "old"
    BY DEF Doomed, BeforeCommit
  <2>1. ~terminal
    BY DEF LifecycleInv, Told, BeforeCommit
  <2> QED
    BY <2>1 DEF LifecycleInv, LifecycleTypeOK, Told, Settled, IsTerminal, BeforeCommit
<1>2. LifecycleInv /\ Doomed /\ [LifecycleNext]_lifecycleVars => Doomed'
  <2> SUFFICES ASSUME LifecycleInv, Doomed, [LifecycleNext]_lifecycleVars PROVE Doomed'
    OBVIOUS
  <2> USE DEF Doomed, attemptVars, fileVars
  <2>1. CASE Attempt
    BY <2>1 DEF LifecycleInv, Settled, Attempt, Start, NoLocalRuntime, Initialized,
      InitializeFails, InitializeCancelled, Drive, OpenFile, OpenFails, ConnectFails, Receive,
      Report, TransferSucceeds, TransferFails, TransferCancelled, Commit, Rename, RenameFails,
      Discard, FallBack, End, Return, Panic, ReportPanic
  <2>2. CASE Owner
    BY <2>2 DEF Owner, Cancel, Stop, Detach, Drop, Join
  <2>3. CASE UNCHANGED lifecycleVars
    BY <2>3 DEF lifecycleVars
  <2> QED
    BY <2>1, <2>2, <2>3 DEF LifecycleNext
<1>3. Doomed => dest = "old"
  BY DEF Doomed
<1> QED
  BY <1>1, <1>2, <1>3, LifecycleInvariant, PTL DEF LifecycleSpec, CancelledNeverCommits

-----------------------------------------------------------------------------
(* What the status has shown of the transfer. *)

\* Nothing was shown before the first transfer; a second one follows only a
\* concurrent one; within a transfer the status is behind what was received.
Shown ==
  /\ pc \in {"pending", "initializing"} =>
       status.progress.downloaded = 0 /\ status.info = NoInfo
  /\ pc = "starting" =>
       \/ status.progress.downloaded = 0 /\ status.info = NoInfo
       \/ /\ status.info = Info("Concurrent", "none")
          /\ info \in {Info("Singleton", reason) : reason \in FallbackReasons}
  /\ pc \in InTransfer => status.progress.downloaded <= downloaded
  /\ info.mode = "Concurrent" => info.fallback = "none"

\* The step of StartsOverOnlyToFallBack.
ShowsOn ==
  \/ /\ status'.progress.downloaded >= status.progress.downloaded
     /\ status.info # NoInfo => status'.info = status.info
  \/ /\ status.info = Info("Concurrent", "none")
     /\ status'.info \in {Info("Singleton", reason) : reason \in FallbackReasons}

\* The numbers in a status and in the attempt.
LEMMA Counted ==
  ASSUME LifecycleInv
  PROVE  /\ status \in Statuses /\ info \in Infos
         /\ status.progress \in Progresses
         /\ status.progress.downloaded \in Nat /\ downloaded \in Nat
         /\ total \in 0 .. Length /\ downloaded \in 0 .. Length
BY LengthAssumption DEF LifecycleInv, LifecycleTypeOK, Statuses, Progresses

\* A status that is not touched shows on.
LEMMA KeptShowsOn ==
  ASSUME LifecycleInv, status' = status
  PROVE  ShowsOn
BY Counted DEF ShowsOn

\* An early end comes before anything was shown.
LEMMA EarlyEndShows ==
  ASSUME LifecycleInv, Shown, pc \in {"pending", "initializing"}, NEW e \in Errors,
         Finish(e, NoProgress, FALSE)
  PROVE  ShowsOn
<1>1. ~terminal
  BY DEF LifecycleInv, Told
<1>2. status'.progress = NoProgress
  BY <1>1, Counted, NothingKnown, FinishTells
<1>3. NoProgress.downloaded = 0
  BY DEF NoProgress, Progress
<1> QED
  BY <1>2, <1>3 DEF Shown, ShowsOn

\* Every step shows on, and keeps what was shown.
LEMMA ShownStep ==
  ASSUME LifecycleInv, Shown, [LifecycleNext]_lifecycleVars
  PROVE  Shown' /\ ShowsOn
<1> USE DEF attemptVars, statusVars
<1>1. CASE Start
  <2>1. ~terminal /\ pc = "pending"
    BY <1>1 DEF Start, LifecycleInv, Told
  <2>2. status' = NewStatus("Initializing", NoProgress, NoInfo)
    BY <1>1, <2>1 DEF Start, Publish
  <2>3. status'.progress.downloaded = 0 /\ status'.info = NoInfo
    BY <2>2 DEF NewStatus, NoProgress, Progress
  <2> QED
    BY <1>1, <2>1, <2>3 DEF Start, Shown, ShowsOn, InTransfer
<1>2. CASE NoLocalRuntime
  <2>1. ShowsOn
    BY <1>2, EarlyEndShows DEF NoLocalRuntime, Errors
  <2> QED
    BY <1>2, <2>1 DEF NoLocalRuntime, Shown, InTransfer
<1>3. CASE Initialized
  <2>1. info' \in {Info("Singleton", "none"), Info("Singleton", "ContentCoded"),
                   Info("Concurrent", "none")}
    BY <1>3 DEF Initialized, SelectMode
  <2>2. info'.mode = "Concurrent" => info'.fallback = "none"
    BY <2>1 DEF Info
  <2>3. pc = "initializing" /\ pc' = "starting" /\ status' = status
    BY <1>3 DEF Initialized
  <2> QED
    BY <2>2, <2>3, KeptShowsOn DEF Shown, InTransfer
<1>4. CASE InitializeFails
  <2>1. ShowsOn
    BY <1>4, EarlyEndShows DEF InitializeFails, InitializeErrors, Errors
  <2> QED
    BY <1>4, <2>1 DEF InitializeFails, Shown, InTransfer
<1>5. CASE InitializeCancelled
  <2>1. ShowsOn
    BY <1>5, EarlyEndShows DEF InitializeCancelled, Errors
  <2> QED
    BY <1>5, <2>1 DEF InitializeCancelled, Shown, InTransfer
<1>6. CASE Drive
  <2>1. ~terminal /\ pc = "starting" /\ pc' = "opening" /\ downloaded' = 0 /\ info' = info
    BY <1>6 DEF Drive, LifecycleInv, Told
  <2>2. status' = NewStatus("Downloading", Progress(total, 0), info)
    BY <1>6, <2>1 DEF Drive, Publish
  <2>3. status'.progress.downloaded = 0 /\ status'.info = info
    BY <2>2 DEF NewStatus, Progress
  <2> QED
    BY <2>1, <2>3 DEF Shown, ShowsOn, InTransfer
<1>7. CASE Receive
  <2>1. /\ pc = "transferring" /\ UNCHANGED <<pc, status, info>>
        /\ downloaded' = downloaded + 1
    BY <1>7 DEF Receive
  <2> QED
    BY <2>1, Counted, KeptShowsOn DEF Shown, InTransfer
<1>8. CASE Report
  <2>1. ~terminal /\ pc = "transferring" /\ UNCHANGED <<pc, info, downloaded>>
    BY <1>8 DEF Report, LifecycleInv, Told
  <2>2. status' = NewStatus("Downloading", Progress(total, downloaded), status.info)
    BY <1>8, <2>1 DEF Report, Publish, TransferProgress
  <2>3. status'.progress.downloaded = downloaded /\ status'.info = status.info
    BY <2>2 DEF NewStatus, Progress
  <2> QED
    BY <2>1, <2>3, Counted DEF Shown, ShowsOn, InTransfer
<1>9. CASE FallBack
  <2>1. /\ pc = "ending" /\ pc' = "starting" /\ status' = status
        /\ info.mode = "Concurrent"
        /\ info' \in {Info("Singleton", reason) : reason \in FallbackReasons}
    BY <1>9 DEF FallBack, FallsBack
  <2>2. status.info = info /\ info.fallback = "none" /\ info \in Infos
    BY <2>1, Counted DEF LifecycleInv, Announced, InTransfer, Shown
  <2>3. info = Info("Concurrent", "none")
    BY <2>1, <2>2 DEF Info, Infos
  <2>4. info'.mode # "Concurrent"
    BY <2>1 DEF Info
  <2> QED
    BY <2>1, <2>2, <2>3, <2>4, KeptShowsOn DEF Shown, InTransfer
<1>10. CASE End
  <2>1. /\ ~terminal /\ pc = "ending" /\ pc' = "returning" /\ info' = info
        /\ result \in Errors \cup {"Ok"} /\ leftover \in BOOLEAN
    BY <1>10 DEF End, LifecycleInv, LifecycleTypeOK, Told, Settled, TransferResults, Errors
  <2> DEFINE progress == IF result = "Ok" THEN FinalProgress ELSE TransferProgress
  <2>2. progress \in Progresses /\ progress.downloaded = downloaded
    BY Counted, ProgressType DEF FinalProgress, TransferProgress
  <2>3. Finish(result, progress, leftover)
    BY <1>10 DEF End
  <2> HIDE DEF progress
  <2>4. status'.progress = progress /\ status'.info = status.info
    BY <2>1, <2>2, <2>3, Counted, FinishTells
  <2> QED
    BY <2>1, <2>2, <2>4, Counted DEF Shown, ShowsOn, InTransfer
<1>11. CASE ReportPanic
  <2>1. pc' = "returned" /\ info' = info
    BY <1>11 DEF ReportPanic
  <2>2. CASE terminal
    BY <1>11, <2>1, <2>2, KeptShowsOn DEF ReportPanic, Shown, InTransfer
  <2>3. CASE ~terminal
    <3>1. PICK left \in BOOLEAN : Finish("Panicked", LastProgress, left)
      BY <1>11, <2>3 DEF ReportPanic
    <3>2. status'.progress = status.progress /\ status'.info = status.info
      BY <2>3, <3>1, Counted, FinishTells DEF LastProgress, Errors
    <3> QED
      BY <2>1, <3>2, Counted DEF Shown, ShowsOn, InTransfer
  <2> QED
    BY <2>2, <2>3
<1>12. CASE OpenFile \/ OpenFails \/ ConnectFails \/ TransferSucceeds \/ TransferFails
            \/ TransferCancelled \/ Commit \/ Rename \/ RenameFails \/ Discard
  <2>1. /\ pc \in InTransfer /\ pc' \in InTransfer
        /\ UNCHANGED <<status, info, downloaded>>
    BY <1>12 DEF OpenFile, OpenFails, ConnectFails, TransferSucceeds, TransferFails,
      TransferCancelled, Commit, Rename, RenameFails, Discard, InTransfer
  <2> QED
    BY <2>1, KeptShowsOn DEF Shown, InTransfer
<1>13. CASE Return \/ Panic
  <2>1. pc' \in {"returned", "panicked"} /\ UNCHANGED <<status, info>>
    BY <1>13 DEF Return, Panic
  <2> QED
    BY <2>1, KeptShowsOn DEF Shown, InTransfer
<1>14. CASE Owner \/ UNCHANGED lifecycleVars
  <2>1. UNCHANGED <<pc, status, info, downloaded>>
    BY <1>14 DEF Owner, Cancel, Stop, Detach, Drop, Join, lifecycleVars
  <2> QED
    BY <2>1, KeptShowsOn DEF Shown
<1> QED
  BY <1>1, <1>2, <1>3, <1>4, <1>5, <1>6, <1>7, <1>8, <1>9, <1>10, <1>11, <1>12, <1>13, <1>14
     DEF LifecycleNext, Attempt

\* The published progress goes back, and the published info changes, only in the
\* one fallback that announces both (drive, downloading).
THEOREM LifecycleStartsOver == LifecycleSpec => StartsOverOnlyToFallBack
<1>1. LifecycleInit => Shown
  BY DEF LifecycleInit, Shown, NewStatus, NoProgress, Progress, NoInfo, Info, InTransfer
<1>2. LifecycleInv /\ Shown /\ [LifecycleNext]_lifecycleVars
        => Shown' /\ [ShowsOn]_lifecycleVars
  BY ShownStep
<1>3. [ShowsOn]_lifecycleVars =>
        [\/ /\ status'.progress.downloaded >= status.progress.downloaded
            /\ status.info # NoInfo => status'.info = status.info
         \/ /\ status.info = Info("Concurrent", "none")
            /\ status'.info \in {Info("Singleton", reason) : reason \in FallbackReasons}
        ]_lifecycleVars
  BY DEF ShowsOn
<1> QED
  BY <1>1, <1>2, <1>3, LifecycleInvariant, PTL DEF LifecycleSpec, StartsOverOnlyToFallBack
=============================================================================
