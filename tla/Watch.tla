------------------------------- MODULE Watch --------------------------------
(***************************************************************************)
(* The watch channel of bolt-load-sync/src/watch.rs, through which a task  *)
(* publishes its status.  Publishers and receivers run on different        *)
(* threads; a step is one operation on the state word, the value's lock or *)
(* the event.  The value is the number of its publication.                 *)
(*                                                                         *)
(* changed, changed_blocking and the stream's poll_next all look at the    *)
(* state, register a listener, look again and wait: a receiver with pc     *)
(* "poll" looks for the first time when it has no listener and for the     *)
(* second time when it has one.                                            *)
(***************************************************************************)
EXTENDS Naturals

CONSTANTS
  Publishers,   \* the threads that publish through the one sender
  Receivers,
  First,        \* the receiver that channel returns
  Nobody,       \* the owner of a lock that is free
  Wanted,       \* the values that the closure given to wait_for accepts
  MaxSends      \* bound of the number of publications

ASSUME WatchAssumption ==
  /\ First \in Receivers
  /\ Nobody \notin Publishers \union Receivers
  /\ Publishers \cap Receivers = {}
  /\ Wanted \subseteq Nat
  /\ MaxSends \in Nat

VARIABLES
  version,     \* the upper bits of Shared::state, in steps of one
  closed,      \* bit 0 of Shared::state
  value,       \* the value behind the lock
  lock,        \* who has the lock
  publisher,   \* where each publisher is in send_replace
  dropping,    \* where the sender's drop is
  receiver,    \* where each receiver is
  call,        \* what it is doing: the method that was called on it
  seen,        \* Receiver::seen
  listener,    \* the state of its registration with the event
  got          \* the value that it read last, 0 for the initial one

senderVars == <<publisher, dropping>>
receiverVars == <<receiver, call, seen, listener, got>>
vars == <<version, closed, value, lock, senderVars, receiverVars>>

PublisherPhases == {"idle", "bump", "replace", "notify"}
DropPhases == {"alive", "notify", "dropped"}
ReceiverPhases == {"absent", "idle", "poll", "listen", "wait", "lock", "read", "clone", "closed"}
Calls == {"none", "borrow_and_update", "changed", "wait_for", "stream"}
Registrations == {"none", "registered", "notified"}

\* One type for every variable.
WatchTypeOK ==
  /\ version \in Nat /\ value \in Nat
  /\ closed \in BOOLEAN
  /\ lock \in Publishers \union Receivers \union {Nobody}
  /\ publisher \in [Publishers -> PublisherPhases]
  /\ dropping \in DropPhases
  /\ receiver \in [Receivers -> ReceiverPhases]
  /\ call \in [Receivers -> Calls]
  /\ seen \in [Receivers -> Nat]
  /\ listener \in [Receivers -> Registrations]
  /\ got \in [Receivers -> Nat]

WatchInit ==
  /\ version = 0 /\ closed = FALSE /\ value = 0 /\ lock = Nobody
  /\ publisher = [p \in Publishers |-> "idle"]
  /\ dropping = "alive"
  /\ receiver = [r \in Receivers |-> IF r = First THEN "idle" ELSE "absent"]
  /\ call = [r \in Receivers |-> "none"]
  /\ seen = [r \in Receivers |-> 0]
  /\ listener = [r \in Receivers |-> "none"]
  /\ got = [r \in Receivers |-> 0]

-----------------------------------------------------------------------------
(* The sender.                                                             *)

\* Event::notify(usize::MAX): everybody who has registered is woken.
NotifyAll ==
  listener' = [r \in Receivers |-> IF listener[r] = "registered" THEN "notified" ELSE listener[r]]

\* send_replace takes the lock.
SendReplace(p) ==
  /\ publisher[p] = "idle" /\ dropping = "alive" /\ lock = Nobody
  /\ version < MaxSends
  /\ lock' = p
  /\ publisher' = [publisher EXCEPT ![p] = "bump"]
  /\ UNCHANGED <<version, closed, value, dropping, receiverVars>>

\* With the lock held it counts the version up, which receivers can see at once.
Bump(p) ==
  /\ publisher[p] = "bump"
  /\ version' = version + 1
  /\ publisher' = [publisher EXCEPT ![p] = "replace"]
  /\ UNCHANGED <<closed, value, lock, dropping, receiverVars>>

\* It replaces the value and lets go of the lock.
Replace(p) ==
  /\ publisher[p] = "replace"
  /\ value' = version
  /\ lock' = Nobody
  /\ publisher' = [publisher EXCEPT ![p] = "notify"]
  /\ UNCHANGED <<version, closed, dropping, receiverVars>>

\* Defect: the event is notified for one listener only.
DefectNotify(p) ==
  /\ publisher[p] = "notify"
  /\ \/ \E r \in Receivers : /\ listener[r] = "registered"
                             /\ listener' = [listener EXCEPT ![r] = "notified"]
     \/ (\A r \in Receivers : listener[r] # "registered") /\ UNCHANGED listener
  /\ publisher' = [publisher EXCEPT ![p] = "idle"]
  /\ UNCHANGED <<version, closed, value, lock, dropping, receiver, call, seen, got>>

\* It wakes everybody who listens and returns.
Notify(p) ==
  /\ publisher[p] = "notify"
  /\ NotifyAll
  /\ publisher' = [publisher EXCEPT ![p] = "idle"]
  /\ UNCHANGED <<version, closed, value, lock, dropping, receiver, call, seen, got>>

\* Dropping the sender, which nobody is using any more, sets the bit ...
DropSender ==
  /\ dropping = "alive" /\ \A p \in Publishers : publisher[p] = "idle"
  /\ closed' = TRUE
  /\ dropping' = "notify"
  /\ UNCHANGED <<version, value, lock, publisher, receiverVars>>

\* ... and wakes everybody who listens.
NotifyDropped ==
  /\ dropping = "notify"
  /\ NotifyAll
  /\ dropping' = "dropped"
  /\ UNCHANGED <<version, closed, value, lock, publisher, receiver, call, seen, got>>

-----------------------------------------------------------------------------
(* The receivers.                                                          *)

\* A receiver is cloned: it has seen what the other one has.
Clone(r) ==
  /\ receiver[r] = "absent"
  /\ \E s \in Receivers : /\ receiver[s] = "idle"
                          /\ seen' = [seen EXCEPT ![r] = seen[s]]
  /\ receiver' = [receiver EXCEPT ![r] = "idle"]
  /\ UNCHANGED <<version, closed, value, lock, senderVars, call, listener, got>>

\* The sender makes a receiver that has seen the current version.
Subscribe(r) ==
  /\ receiver[r] = "absent" /\ dropping = "alive"
  /\ seen' = [seen EXCEPT ![r] = version]
  /\ receiver' = [receiver EXCEPT ![r] = "idle"]
  /\ UNCHANGED <<version, closed, value, lock, senderVars, call, listener, got>>

\* The current version is marked as seen without a look at the value.
MarkUnchanged(r) ==
  /\ receiver[r] = "idle" /\ call[r] = "none"
  /\ seen' = [seen EXCEPT ![r] = version]
  /\ UNCHANGED <<version, closed, value, lock, senderVars, receiver, call, listener, got>>

\* A method is called: changed looks at the state first, the others read the value.
Begin(r) ==
  /\ receiver[r] = "idle" /\ call[r] = "none"
  /\ \E m \in {"borrow_and_update", "changed", "wait_for", "stream"} :
       /\ call' = [call EXCEPT ![r] = m]
       /\ receiver' = [receiver EXCEPT ![r] = IF m = "changed" THEN "poll" ELSE "lock"]
  /\ UNCHANGED <<version, closed, value, lock, senderVars, seen, listener, got>>

\* The stream is polled for the next value, or again while it waits.
PollNext(r) ==
  /\ call[r] = "stream" /\ receiver[r] \in {"idle", "wait"}
  /\ receiver' = [receiver EXCEPT ![r] = "poll"]
  /\ UNCHANGED <<version, closed, value, lock, senderVars, call, seen, listener, got>>

\* The future is dropped while it waits, or the stream gives its receiver back.
Abandon(r) ==
  /\ \/ receiver[r] = "wait"
     \/ receiver[r] = "idle" /\ call[r] = "stream"
  /\ receiver' = [receiver EXCEPT ![r] = "idle"]
  /\ call' = [call EXCEPT ![r] = "none"]
  /\ listener' = [listener EXCEPT ![r] = "none"]
  /\ UNCHANGED <<version, closed, value, lock, senderVars, seen, got>>

\* poll_state finds a newer version and marks it as seen: changed returns, the
\* others go on to read the value.  The listener, if there is one, is dropped.
PollFindsNew(r) ==
  /\ receiver[r] = "poll" /\ version # seen[r]
  /\ seen' = [seen EXCEPT ![r] = version]
  /\ listener' = [listener EXCEPT ![r] = "none"]
  /\ IF call[r] = "changed"
     THEN /\ receiver' = [receiver EXCEPT ![r] = "idle"]
          /\ call' = [call EXCEPT ![r] = "none"]
     ELSE /\ receiver' = [receiver EXCEPT ![r] = "lock"]
          /\ UNCHANGED call
  /\ UNCHANGED <<version, closed, value, lock, senderVars, got>>

\* Defect: the closed bit is looked at before the version.
DefectPollFindsClosed(r) ==
  /\ receiver[r] = "poll" /\ closed
  /\ receiver' = [receiver EXCEPT ![r] = "closed"]
  /\ listener' = [listener EXCEPT ![r] = "none"]
  /\ UNCHANGED <<version, closed, value, lock, senderVars, call, seen, got>>

\* poll_state finds nothing new and the channel closed.
PollFindsClosed(r) ==
  /\ receiver[r] = "poll" /\ version = seen[r] /\ closed
  /\ receiver' = [receiver EXCEPT ![r] = "closed"]
  /\ listener' = [listener EXCEPT ![r] = "none"]
  /\ UNCHANGED <<version, closed, value, lock, senderVars, call, seen, got>>

\* poll_state finds nothing: the receiver registers, or waits if it has done so.
PollFindsNothing(r) ==
  /\ receiver[r] = "poll" /\ version = seen[r] /\ ~closed
  /\ receiver' = [receiver EXCEPT ![r] = IF listener[r] = "none" THEN "listen" ELSE "wait"]
  /\ UNCHANGED <<version, closed, value, lock, senderVars, call, seen, listener, got>>

\* Defect: having registered, the receiver waits without a second look.
DefectListen(r) ==
  /\ receiver[r] = "listen"
  /\ listener' = [listener EXCEPT ![r] = "registered"]
  /\ receiver' = [receiver EXCEPT ![r] = "wait"]
  /\ UNCHANGED <<version, closed, value, lock, senderVars, call, seen, got>>

\* The receiver registers with the event and looks again.
Listen(r) ==
  /\ receiver[r] = "listen"
  /\ listener' = [listener EXCEPT ![r] = "registered"]
  /\ receiver' = [receiver EXCEPT ![r] = "poll"]
  /\ UNCHANGED <<version, closed, value, lock, senderVars, call, seen, got>>

\* The listener was notified: it is dropped, and the receiver starts again.
Wake(r) ==
  /\ receiver[r] = "wait" /\ listener[r] = "notified"
  /\ listener' = [listener EXCEPT ![r] = "none"]
  /\ receiver' = [receiver EXCEPT ![r] = "poll"]
  /\ UNCHANGED <<version, closed, value, lock, senderVars, call, seen, got>>

\* borrow_and_update takes the lock ...
Lock(r) ==
  /\ receiver[r] = "lock" /\ lock = Nobody
  /\ lock' = r
  /\ receiver' = [receiver EXCEPT ![r] = "read"]
  /\ UNCHANGED <<version, closed, value, senderVars, call, seen, listener, got>>

\* ... marks the version as seen ...
ReadVersion(r) ==
  /\ receiver[r] = "read"
  /\ seen' = [seen EXCEPT ![r] = version]
  /\ receiver' = [receiver EXCEPT ![r] = "clone"]
  /\ UNCHANGED <<version, closed, value, lock, senderVars, call, listener, got>>

\* ... and clones the value.  wait_for returns it when it is wanted, the stream
\* yields it.
CloneValue(r) ==
  /\ receiver[r] = "clone"
  /\ got' = [got EXCEPT ![r] = value]
  /\ lock' = Nobody
  /\ LET rejected == call[r] = "wait_for" /\ value \notin Wanted
     IN  /\ receiver' = [receiver EXCEPT ![r] = IF rejected THEN "poll" ELSE "idle"]
         /\ call' = IF rejected \/ call[r] = "stream" THEN call ELSE [call EXCEPT ![r] = "none"]
  /\ UNCHANGED <<version, closed, value, senderVars, seen, listener>>

-----------------------------------------------------------------------------
SenderNext ==
  \/ \E p \in Publishers : SendReplace(p) \/ Bump(p) \/ Replace(p) \/ Notify(p)
  \/ DropSender
  \/ NotifyDropped

\* What a receiver does by itself once a method was called.
ReceiverGoesOn(r) ==
  \/ PollFindsNew(r) \/ PollFindsClosed(r) \/ PollFindsNothing(r)
  \/ Listen(r) \/ Wake(r)
  \/ Lock(r) \/ ReadVersion(r) \/ CloneValue(r)

ReceiverNext ==
  \E r \in Receivers :
    \/ Clone(r) \/ Subscribe(r) \/ MarkUnchanged(r)
    \/ Begin(r) \/ PollNext(r) \/ Abandon(r)
    \/ ReceiverGoesOn(r)

WatchNext == SenderNext \/ ReceiverNext

\* A publication and a drop are completed; a receiver that has something to do
\* is polled, and one that waits only when its listener was notified.
WatchFairness ==
  /\ \A p \in Publishers : WF_vars(Bump(p) \/ Replace(p) \/ Notify(p))
  /\ WF_vars(NotifyDropped)
  /\ \A r \in Receivers : WF_vars(ReceiverGoesOn(r))

WatchSpec == WatchInit /\ [][WatchNext]_vars /\ WatchFairness

-----------------------------------------------------------------------------
(* Properties.                                                             *)

\* A notification is on its way to everybody who listens.
NotifyComing == dropping = "notify" \/ \E p \in Publishers : publisher[p] \in {"replace", "notify"}

\* A receiver that waits (changed, changed_blocking or a pending stream) while
\* there is something it has not seen, a value or the close, has been notified
\* or is about to be: the second look after listen closes the gap.
NoLostUpdate ==
  \A r \in Receivers :
    receiver[r] = "wait" /\ (version # seen[r] \/ closed)
      => listener[r] = "notified" \/ (listener[r] = "registered" /\ NotifyComing)

\* Closed is the last thing a receiver learns: it has seen the final version,
\* and wait_for and the stream have handed the final value out before.
ClosedAfterLast ==
  \A r \in Receivers :
    receiver[r] = "closed" =>
      /\ closed /\ seen[r] = version
      /\ call[r] \in {"wait_for", "stream"} => got[r] = version

\* Outside the lock the value belongs to the version, and with the lock a
\* receiver reads a value and its version together: nothing marked as seen by
\* borrow_and_update is a value it did not return.
ValueOfVersion ==
  /\ lock = Nobody => value = version
  /\ \A r \in Receivers :
       /\ receiver[r] \in {"read", "clone"} => lock = r /\ value = version
       /\ receiver[r] = "clone" => seen[r] = value

\* The channel implements the register: no reader goes back to an older value
\* and none skips the newest one.
Register == INSTANCE StatusRegister WITH
  latest <- version, noticed <- seen, read <- got,
  over <- {r \in Receivers : receiver[r] = "closed"}
IsRegister == Register!RegisterSpec

\* A receiver that waits while there is something unseen is woken.
UpdatesArrive ==
  \A r \in Receivers :
    (receiver[r] = "wait" /\ (version # seen[r] \/ closed)) ~> (receiver[r] # "wait")
=============================================================================
