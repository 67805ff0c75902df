----------------------------- MODULE LimitSlot ------------------------------
(***************************************************************************)
(* The slot through which the manager lowers a runner's limit              *)
(* (bolt-load-sync/src/slot.rs) and the waker both ends share without a    *)
(* lock (atomic_waker.rs), one atomic operation per step.                  *)
(*                                                                         *)
(* The steps are sequentially consistent.  The orderings in the code are   *)
(* weaker but pair up on the same variables: what precedes a wake is       *)
(* visible to the register that the wake did not find.                     *)
(*                                                                         *)
(* A definition marked "Defect" is the one after it with a plausible       *)
(* mistake; no specification uses it.                                      *)
(***************************************************************************)
EXTENDS Naturals

CONSTANTS
  Limits,  \* the values that are sent
  Empty    \* EMPTY, the slot holds no value

ASSUME SlotAssumption == Empty \notin Limits

VARIABLES
  value,        \* Shared::value
  closed,       \* Shared::closed
  state,        \* AtomicWaker::state, as the set of its bits; {} is WAITING
  cell,         \* AtomicWaker::waker holds the receiver's waker
  scheduled,    \* the receiver's task was woken and is going to be polled
  sender,       \* where the sender is
  held,         \* the sender took the waker out of the cell
  receiver,     \* where the receiver is
  seen_closed,  \* the closed flag as poll_recv read it
  last,         \* the value sent last
  got           \* the value received last

slotVars == <<value, closed, state, cell, scheduled, sender, held,
              receiver, seen_closed, last, got>>

SenderPhases == {"idle", "wake", "take", "unlock", "notify", "gone"}

ReceiverPhases == {"look", "swap", "register", "set", "release", "take_back", "reset",
                   "check", "look_again", "parked", "dropped", "over"}

SlotInit ==
  /\ value = Empty
  /\ closed = FALSE
  /\ state = {}
  /\ cell = FALSE
  /\ scheduled = FALSE
  /\ sender = "idle"
  /\ held = FALSE
  /\ receiver = "look"
  /\ seen_closed = FALSE
  /\ last = Empty
  /\ got = Empty

-----------------------------------------------------------------------------
(* The sender. *)

\* Where wake returns to: drop sets the flag before it wakes.
Returned == IF closed THEN "gone" ELSE "idle"

\* send refuses when the receiver is gone.  A receiver that goes between this
\* look at the reference count and the store misses the value all the same.
Send == \E v \in Limits :
  /\ sender = "idle" /\ receiver # "dropped"
  /\ value' = v /\ last' = v
  /\ sender' = "wake"
  /\ UNCHANGED <<closed, state, cell, scheduled, held, receiver, seen_closed, got>>

\* Defect: closing the slot empties it.
DropEmpties ==
  /\ sender = "idle"
  /\ closed' = TRUE /\ value' = Empty
  /\ sender' = "wake"
  /\ UNCHANGED <<state, cell, scheduled, held, receiver, seen_closed, last, got>>

DropSender ==
  /\ sender = "idle"
  /\ closed' = TRUE
  /\ sender' = "wake"
  /\ UNCHANGED <<value, state, cell, scheduled, held, receiver, seen_closed, last, got>>

\* take: fetch_or gives the sender the waker only if nobody else has it.
FetchOr ==
  /\ sender = "wake"
  /\ state' = state \cup {"WAKING"}
  /\ sender' = IF state = {} THEN "take" ELSE Returned
  /\ UNCHANGED <<value, closed, cell, scheduled, held, receiver, seen_closed, last, got>>

TakeWaker ==
  /\ sender = "take"
  /\ held' = cell /\ cell' = FALSE
  /\ sender' = "unlock"
  /\ UNCHANGED <<value, closed, state, scheduled, receiver, seen_closed, last, got>>

FetchAnd ==
  /\ sender = "unlock"
  /\ state' = state \ {"WAKING"}
  /\ sender' = IF held THEN "notify" ELSE Returned
  /\ UNCHANGED <<value, closed, cell, scheduled, held, receiver, seen_closed, last, got>>

Notify ==
  /\ sender = "notify"
  /\ scheduled' = TRUE /\ held' = FALSE
  /\ sender' = Returned
  /\ UNCHANGED <<value, closed, state, cell, receiver, seen_closed, last, got>>

-----------------------------------------------------------------------------
(* The receiver: poll_recv. *)

\* The task is polled because it was woken, or for another of its sources.
Poll ==
  /\ receiver = "parked"
  /\ scheduled' = FALSE
  /\ receiver' = "look"
  /\ UNCHANGED <<value, closed, state, cell, sender, held, seen_closed, last, got>>

\* The load of the first try_recv.
Look ==
  /\ receiver = "look"
  /\ receiver' = IF value = Empty THEN "register" ELSE "swap"
  /\ UNCHANGED <<value, closed, state, cell, scheduled, sender, held, seen_closed, last, got>>

\* The swap of try_recv; only the receiver empties the slot, so it finds a value.
Swap ==
  /\ receiver = "swap"
  /\ got' = value /\ value' = Empty
  /\ receiver' = "look"
  /\ UNCHANGED <<closed, state, cell, scheduled, sender, held, seen_closed, last>>

\* Defect: register waits for no wake and wakes nobody.
RegisterGivesUp ==
  /\ receiver = "register"
  /\ IF state = {} THEN state' = {"REGISTERING"} /\ receiver' = "set"
                   ELSE receiver' = "check" /\ UNCHANGED state
  /\ UNCHANGED <<value, closed, cell, scheduled, sender, held, seen_closed, last, got>>

\* Defect: register takes the waker whoever has it.
RegisterAnyway ==
  /\ receiver = "register"
  /\ state' = state \cup {"REGISTERING"} /\ receiver' = "set"
  /\ UNCHANGED <<value, closed, cell, scheduled, sender, held, seen_closed, last, got>>

\* register: while a wake has the old waker, the new one is woken directly.
Register ==
  /\ receiver = "register"
  /\ IF state = {}
     THEN state' = {"REGISTERING"} /\ receiver' = "set" /\ UNCHANGED scheduled
     ELSE scheduled' = TRUE /\ receiver' = "check" /\ UNCHANGED state
  /\ UNCHANGED <<value, closed, cell, sender, held, seen_closed, last, got>>

SetWaker ==
  /\ receiver = "set"
  /\ cell' = TRUE
  /\ receiver' = "release"
  /\ UNCHANGED <<value, closed, state, scheduled, sender, held, seen_closed, last, got>>

\* A wake that came meanwhile has left the waking to register.
Release ==
  /\ receiver = "release"
  /\ IF state = {"REGISTERING"} THEN state' = {} /\ receiver' = "check"
                                ELSE receiver' = "take_back" /\ UNCHANGED state
  /\ UNCHANGED <<value, closed, cell, scheduled, sender, held, seen_closed, last, got>>

TakeBack ==
  /\ receiver = "take_back"
  /\ cell' = FALSE
  /\ receiver' = "reset"
  /\ UNCHANGED <<value, closed, state, scheduled, sender, held, seen_closed, last, got>>

\* The swap and the wake after it: the task that is woken is the one that runs
\* this poll, so it cannot be polled in between.
Reset ==
  /\ receiver = "reset"
  /\ state' = {}
  /\ scheduled' = TRUE
  /\ receiver' = "check"
  /\ UNCHANGED <<value, closed, cell, sender, held, seen_closed, last, got>>

\* The closed flag is read before the slot.
CheckClosed ==
  /\ receiver = "check"
  /\ seen_closed' = closed
  /\ receiver' = "look_again"
  /\ UNCHANGED <<value, closed, state, cell, scheduled, sender, held, last, got>>

\* Defect: the close is only another reason to poll again.
CloseIsMissed ==
  /\ receiver = "look_again"
  /\ receiver' = IF value # Empty THEN "swap" ELSE IF seen_closed THEN "look" ELSE "parked"
  /\ UNCHANGED <<value, closed, state, cell, scheduled, sender, held, seen_closed, last, got>>

\* The second try_recv, whose swap is Swap.
LookAgain ==
  /\ receiver = "look_again"
  /\ receiver' = IF value # Empty THEN "swap" ELSE IF seen_closed THEN "over" ELSE "parked"
  /\ UNCHANGED <<value, closed, state, cell, scheduled, sender, held, seen_closed, last, got>>

\* The runner exits, or no longer reads its limits.
DropReceiver ==
  /\ receiver \in {"parked", "look"}
  /\ receiver' = "dropped"
  /\ UNCHANGED <<value, closed, state, cell, scheduled, sender, held, seen_closed, last, got>>

-----------------------------------------------------------------------------
Wakes == FetchOr \/ TakeWaker \/ FetchAnd \/ Notify

Polled == Look \/ Swap \/ Register \/ SetWaker \/ Release \/ TakeBack \/ Reset
          \/ CheckClosed \/ LookAgain

SlotNext == Send \/ DropSender \/ Wakes \/ Poll \/ Polled \/ DropReceiver

\* Each end goes through what it has begun, and the executor polls a task that
\* was woken.  Nothing else polls the receiver, and nothing has to be sent.
SlotSpec ==
  /\ SlotInit /\ [][SlotNext]_slotVars
  /\ WF_slotVars(Wakes)
  /\ WF_slotVars(Polled)
  /\ WF_slotVars(Poll /\ scheduled)

-----------------------------------------------------------------------------
(* Properties. *)

\* Type invariant of the slot.  The value that try_recv has seen is still there,
\* or a newer one, when it swaps it out, so its filter never drops anything; and
\* the debug assertion of register holds.
SlotTypeOK ==
  /\ value \in Limits \cup {Empty}
  /\ last \in Limits \cup {Empty}
  /\ got \in Limits \cup {Empty}
  /\ state \subseteq {"REGISTERING", "WAKING"}
  /\ {closed, cell, scheduled, held, seen_closed} \subseteq BOOLEAN
  /\ sender \in SenderPhases
  /\ receiver \in ReceiverPhases
  /\ receiver = "swap" => value # Empty
  /\ receiver = "take_back" => state = {"REGISTERING", "WAKING"}

\* "it is never accessed from two threads at once" (atomic_waker.rs:23): wake and
\* register never have the waker's cell at the same time.
WakerIsExclusive == ~(sender = "take" /\ receiver \in {"set", "release", "take_back"})

\* A receiver that waits, with no wake-up on its way, has nothing to read: the
\* value or the close that came while it registered its waker was not lost.
NoLostWakeup ==
  receiver = "parked" /\ ~scheduled /\ sender \in {"idle", "gone"} => value = Empty /\ ~closed

\* The receiver sees the slot closed only after it took the last value sent.
ClosedIsLast == receiver = "over" => value = Empty /\ got = last

\* The slot implements the mailbox that the model of the runner assumes.
TheMailbox == INSTANCE Mailbox WITH
  mailbox <- IF value = Empty THEN {} ELSE {value}, over <- receiver = "over"

IsMailbox == TheMailbox!MailboxSpec

\* A value is read or replaced, and the close is seen, unless the receiver goes.
ValuesArrive ==
  /\ \A v \in Limits : (value = v) ~> (value # v \/ receiver = "dropped")
  /\ closed ~> (receiver \in {"over", "dropped"})
=============================================================================
