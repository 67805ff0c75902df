-------------------------- MODULE LimitSlotProofs ---------------------------
(***************************************************************************)
(* The limit slot is right for every set of limits and for every number of *)
(* sends and polls.  The inductive invariant says who owns the waker's     *)
(* cell, and that a wake-up is on its way whenever the receiver has let go *)
(* of something it ought to read.                                          *)
(***************************************************************************)
EXTENDS LimitSlot, TLAPS

\* The bits of the state say which side has the waker's cell.
Ownership ==
  /\ sender \in {"take", "unlock"} <=> state = {"WAKING"}
  /\ receiver \in {"set", "release", "take_back", "reset"} <=> "REGISTERING" \in state
  /\ receiver \in {"take_back", "reset"} => state = {"REGISTERING", "WAKING"}

\* A wake-up has reached the receiver's task, or the sender is bringing it.
WakeComing ==
  \/ scheduled
  \/ sender = "notify"
  \/ sender = "unlock" /\ held
  \/ sender \in {"wake", "take"} /\ cell

\* Once registered, the waker is in its cell or on its way, and what has come
\* behind the receiver's back has set off a wake-up.
Registration ==
  /\ receiver = "release" => cell
  /\ receiver \in {"check", "look_again", "parked"} => cell \/ WakeComing
  /\ receiver = "look_again" /\ closed /\ ~seen_closed => WakeComing
  /\ receiver = "parked" /\ (value # Empty \/ closed) => WakeComing

\* What the slot holds is the value sent last, and the end comes after it.
Values ==
  /\ IF value = Empty THEN got = last ELSE value = last
  /\ seen_closed => closed
  /\ closed => sender # "idle"
  /\ receiver = "over" => closed /\ value = Empty

SlotInv == SlotTypeOK /\ Ownership /\ Registration /\ Values

-----------------------------------------------------------------------------
\* The slot starts empty, with nobody at the waker.
LEMMA SlotInitInv == SlotInit => SlotInv
BY SlotAssumption
  DEF SlotInit, SlotInv, SlotTypeOK, Ownership, Registration, WakeComing, Values,
      SenderPhases, ReceiverPhases

\* What the sender does keeps the invariant: a value or a close sets off a
\* wake-up that reaches the waker, or finds register at work and leaves it to it.
LEMMA SenderKeepsInv ==
  ASSUME SlotInv, Send \/ DropSender \/ Wakes
  PROVE  SlotInv'
<1> USE SlotAssumption DEF SlotInv
<1>1. CASE Send
  <2>1. PICK v \in Limits : /\ sender = "idle" /\ receiver # "dropped"
                            /\ value' = v /\ last' = v /\ sender' = "wake"
                            /\ UNCHANGED <<closed, state, cell, scheduled, held,
                                           receiver, seen_closed, got>>
    BY <1>1 DEF Send
  <2>2. SlotTypeOK'
    BY <2>1 DEF SlotTypeOK, SenderPhases
  <2>3. Ownership'
    BY <2>1 DEF Ownership
  <2>4. Registration'
    BY <2>1 DEF Registration, WakeComing
  <2>5. Values'
    BY <2>1 DEF Values
  <2> QED BY <2>2, <2>3, <2>4, <2>5
<1>2. CASE DropSender
  <2>2. SlotTypeOK'
    BY <1>2 DEF DropSender, SlotTypeOK, SenderPhases
  <2>3. Ownership'
    BY <1>2 DEF DropSender, Ownership
  <2>4. Registration'
    BY <1>2 DEF DropSender, Registration, WakeComing
  <2>5. Values'
    BY <1>2 DEF DropSender, Values
  <2> QED BY <2>2, <2>3, <2>4, <2>5
<1>3. CASE FetchOr
  <2>2. SlotTypeOK'
    BY <1>3 DEF FetchOr, Returned, SlotTypeOK, SenderPhases
  <2>3. Ownership'
    BY <1>3 DEF FetchOr, Returned, Ownership, SlotTypeOK
  <2>4. Registration'
    <3>1. receiver \in {"check", "look_again", "parked"} => state = {}
      BY <1>3 DEF FetchOr, Ownership, SlotTypeOK
    <3> QED BY <3>1, <1>3 DEF FetchOr, Registration, WakeComing
  <2>5. Values'
    BY <1>3 DEF FetchOr, Returned, Values
  <2> QED BY <2>2, <2>3, <2>4, <2>5
<1>4. CASE TakeWaker
  <2>2. SlotTypeOK'
    BY <1>4 DEF TakeWaker, SlotTypeOK, SenderPhases
  <2>3. Ownership'
    BY <1>4 DEF TakeWaker, Ownership
  <2>4. Registration'
    BY <1>4 DEF TakeWaker, Registration, WakeComing, Ownership, SlotTypeOK
  <2>5. Values'
    BY <1>4 DEF TakeWaker, Values
  <2> QED BY <2>2, <2>3, <2>4, <2>5
<1>5. CASE FetchAnd
  <2>2. SlotTypeOK'
    BY <1>5 DEF FetchAnd, Returned, SlotTypeOK, SenderPhases, Ownership
  <2>3. Ownership'
    BY <1>5 DEF FetchAnd, Returned, Ownership
  <2>4. Registration'
    BY <1>5 DEF FetchAnd, Registration, WakeComing
  <2>5. Values'
    BY <1>5 DEF FetchAnd, Returned, Values
  <2> QED BY <2>2, <2>3, <2>4, <2>5
<1>6. CASE Notify
  <2>2. SlotTypeOK'
    BY <1>6 DEF Notify, Returned, SlotTypeOK, SenderPhases
  <2>3. Ownership'
    BY <1>6 DEF Notify, Returned, Ownership
  <2>4. Registration'
    BY <1>6 DEF Notify, Registration, WakeComing
  <2>5. Values'
    BY <1>6 DEF Notify, Returned, Values
  <2> QED BY <2>2, <2>3, <2>4, <2>5
<1> QED BY <1>1, <1>2, <1>3, <1>4, <1>5, <1>6 DEF Wakes

\* Registering keeps the invariant: the waker is stored where no wake is at work,
\* and a wake that finds it in the making is made up for.
LEMMA RegisterKeepsInv ==
  ASSUME SlotInv, Register \/ SetWaker \/ Release \/ TakeBack \/ Reset
  PROVE  SlotInv'
<1> USE SlotAssumption DEF SlotInv
<1>1. CASE Register
  <2>1. SlotTypeOK'
    BY <1>1 DEF Register, SlotTypeOK, ReceiverPhases
  <2>2. Ownership'
    BY <1>1 DEF Register, Ownership
  <2>3. Registration'
    BY <1>1 DEF Register, Registration, WakeComing
  <2> QED BY <2>1, <2>2, <2>3, <1>1 DEF Register, Values
<1>2. CASE SetWaker
  <2>1. SlotTypeOK'
    BY <1>2 DEF SetWaker, SlotTypeOK, ReceiverPhases
  <2>2. Ownership'
    BY <1>2 DEF SetWaker, Ownership
  <2>3. Registration'
    BY <1>2 DEF SetWaker, Registration, WakeComing
  <2> QED BY <2>1, <2>2, <2>3, <1>2 DEF SetWaker, Values
<1>3. CASE Release
  <2>1. SlotTypeOK'
    BY <1>3 DEF Release, SlotTypeOK, ReceiverPhases, Ownership
  <2>2. Ownership'
    BY <1>3 DEF Release, Ownership, SlotTypeOK
  <2>3. Registration'
    BY <1>3 DEF Release, Registration, WakeComing
  <2> QED BY <2>1, <2>2, <2>3, <1>3 DEF Release, Values
<1>4. CASE TakeBack
  <2>1. SlotTypeOK'
    BY <1>4 DEF TakeBack, SlotTypeOK, ReceiverPhases
  <2>2. Ownership'
    BY <1>4 DEF TakeBack, Ownership
  <2>3. Registration'
    BY <1>4 DEF TakeBack, Registration, WakeComing
  <2> QED BY <2>1, <2>2, <2>3, <1>4 DEF TakeBack, Values
<1>5. CASE Reset
  <2>1. SlotTypeOK'
    BY <1>5 DEF Reset, SlotTypeOK, ReceiverPhases
  <2>2. Ownership'
    BY <1>5 DEF Reset, Ownership
  <2>3. Registration'
    BY <1>5 DEF Reset, Registration, WakeComing
  <2> QED BY <2>1, <2>2, <2>3, <1>5 DEF Reset, Values
<1> QED BY <1>1, <1>2, <1>3, <1>4, <1>5

\* The rest of poll_recv keeps the invariant: it looks at the slot once more
\* before it waits, and heeds the closed flag only when it finds nothing there.
LEMMA PollKeepsInv ==
  ASSUME SlotInv, Poll \/ Look \/ Swap \/ CheckClosed \/ LookAgain \/ DropReceiver
  PROVE  SlotInv'
<1> USE SlotAssumption DEF SlotInv
<1>1. CASE Poll
  BY <1>1 DEF Poll, SlotTypeOK, ReceiverPhases, Ownership, Registration, WakeComing, Values
<1>2. CASE Look
  BY <1>2 DEF Look, SlotTypeOK, ReceiverPhases, Ownership, Registration, WakeComing, Values
<1>3. CASE Swap
  BY <1>3 DEF Swap, SlotTypeOK, ReceiverPhases, Ownership, Registration, WakeComing, Values
<1>4. CASE CheckClosed
  BY <1>4 DEF CheckClosed, SlotTypeOK, ReceiverPhases, Ownership, Registration, WakeComing, Values
<1>5. CASE LookAgain
  BY <1>5 DEF LookAgain, SlotTypeOK, ReceiverPhases, Ownership, Registration, WakeComing, Values
<1>6. CASE DropReceiver
  BY <1>6 DEF DropReceiver, SlotTypeOK, ReceiverPhases, Ownership, Registration, WakeComing, Values
<1> QED BY <1>1, <1>2, <1>3, <1>4, <1>5, <1>6

-----------------------------------------------------------------------------
\* The inductive invariant of slot.rs and atomic_waker.rs, for every interleaving
\* of the sender's and the receiver's atomic operations.
THEOREM SlotInvariant == SlotSpec => []SlotInv
<1>1. SlotInv /\ [SlotNext]_slotVars => SlotInv'
  <2> SUFFICES ASSUME SlotInv, [SlotNext]_slotVars PROVE SlotInv'
    OBVIOUS
  <2>1. CASE SlotNext
    BY <2>1, SenderKeepsInv, RegisterKeepsInv, PollKeepsInv DEF SlotNext, Polled
  <2>2. CASE UNCHANGED slotVars
    BY <2>2 DEF slotVars, SlotInv, SlotTypeOK, Ownership, Registration, WakeComing, Values
  <2> QED BY <2>1, <2>2
<1> QED BY SlotInitInv, <1>1, PTL DEF SlotSpec

\* The slot's state is well formed, and the swap of try_recv always finds a value.
THEOREM SlotTypeCorrect == SlotSpec => []SlotTypeOK
<1>1. SlotInv => SlotTypeOK
  BY DEF SlotInv
<1> QED BY <1>1, SlotInvariant, PTL

\* The SAFETY comments of atomic_waker.rs: the cell has one user at a time.
THEOREM SlotWakerIsExclusive == SlotSpec => []WakerIsExclusive
<1>1. SlotInv => WakerIsExclusive
  BY DEF SlotInv, Ownership, WakerIsExclusive
<1> QED BY <1>1, SlotInvariant, PTL

\* A wake that races register is never lost.
THEOREM SlotNoLostWakeup == SlotSpec => []NoLostWakeup
<1>1. SlotInv => NoLostWakeup
  BY DEF SlotInv, Registration, WakeComing, NoLostWakeup
<1> QED BY <1>1, SlotInvariant, PTL

\* poll_recv returns None only after the last value was received.
THEOREM SlotClosedIsLast == SlotSpec => []ClosedIsLast
<1>1. SlotInv => ClosedIsLast
  BY DEF SlotInv, Values, ClosedIsLast
<1> QED BY <1>1, SlotInvariant, PTL

\* The slot implements the mailbox the runner relies on: values are replaced or
\* taken, never repeated, and the close is seen after the last of them.
THEOREM SlotImplementsMailbox == SlotSpec => IsMailbox
<1>1. SlotInit => TheMailbox!MailboxInit
  BY DEF SlotInit, TheMailbox!MailboxInit
<1>2. SlotInv /\ [SlotNext]_slotVars => [TheMailbox!MailboxNext]_TheMailbox!mailboxVars
  <2> SUFFICES ASSUME SlotInv, [SlotNext]_slotVars
               PROVE  [TheMailbox!MailboxNext]_TheMailbox!mailboxVars
    OBVIOUS
  <2> USE SlotAssumption DEF TheMailbox!MailboxNext, TheMailbox!mailboxVars
  <2>1. CASE Send
    BY <2>1 DEF Send, TheMailbox!Send, SlotInv, Values
  <2>2. CASE DropSender
    BY <2>2 DEF DropSender, TheMailbox!Close, SlotInv, Values
  <2>3. CASE Wakes
    BY <2>3 DEF Wakes, FetchOr, TakeWaker, FetchAnd, Notify
  <2>4. CASE Swap
    BY <2>4 DEF Swap, TheMailbox!Receive, SlotInv, SlotTypeOK
  <2>5. CASE LookAgain
    BY <2>5 DEF LookAgain, TheMailbox!SeeClosed, SlotInv, Values
  <2>6. CASE Register \/ SetWaker \/ Release \/ TakeBack \/ Reset
    BY <2>6 DEF Register, SetWaker, Release, TakeBack, Reset
  <2>7. CASE Poll \/ Look \/ CheckClosed \/ DropReceiver
    BY <2>7 DEF Poll, Look, CheckClosed, DropReceiver
  <2>8. CASE UNCHANGED slotVars
    BY <2>8 DEF slotVars
  <2> QED BY <2>1, <2>2, <2>3, <2>4, <2>5, <2>6, <2>7, <2>8 DEF SlotNext, Polled
<1> QED BY <1>1, <1>2, SlotInvariant, PTL DEF SlotSpec, IsMailbox, TheMailbox!MailboxSpec
=============================================================================
