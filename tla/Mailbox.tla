------------------------------ MODULE Mailbox -------------------------------
(***************************************************************************)
(* What a limit mailbox promises (the module documentation of              *)
(* bolt-load-sync/src/slot.rs): the receiver takes the latest value, each  *)
(* at most once, and sees the mailbox closed only after the last one.      *)
(* TaskRunner assumes just this of SendLimit, ReadsLimit and               *)
(* SeesMailboxClosed.                                                      *)
(***************************************************************************)
EXTENDS FiniteSets

CONSTANT Limits

VARIABLES
  mailbox,  \* the value not read yet: {} or {value}
  closed,   \* the sender was dropped
  over      \* the receiver has seen the mailbox closed

mailboxVars == <<mailbox, closed, over>>

MailboxInit == mailbox = {} /\ closed = FALSE /\ over = FALSE

Send == \E v \in Limits :
  /\ ~closed
  /\ mailbox' = {v}
  /\ UNCHANGED <<closed, over>>

Receive ==
  /\ mailbox # {} /\ ~over
  /\ mailbox' = {}
  /\ UNCHANGED <<closed, over>>

Close ==
  /\ ~closed
  /\ closed' = TRUE
  /\ UNCHANGED <<mailbox, over>>

SeeClosed ==
  /\ closed /\ mailbox = {} /\ ~over
  /\ over' = TRUE
  /\ UNCHANGED <<mailbox, closed>>

MailboxNext == Send \/ Receive \/ Close \/ SeeClosed

MailboxSpec == MailboxInit /\ [][MailboxNext]_mailboxVars
=============================================================================
