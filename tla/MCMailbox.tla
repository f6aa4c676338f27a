----------------------------- MODULE MCMailbox -----------------------------
(***************************************************************************)
(* The mailbox link layer (Mailbox) and the list its errors are reported   *)
(* in (ErrorList).  A behaviour shows one of them while the other rests.   *)
(***************************************************************************)
EXTENDS ErrorList, Mailbox

VARIABLE part

InitAny == part \in {"list", "mailbox"} /\ Init /\ MailboxInit

ShowList == part = "list" /\ Next /\ UNCHANGED <<part, mailboxVars>>
Show(A) == part = "mailbox" /\ A /\ UNCHANGED <<part, vars>>

AnyPart == InitAny /\ [][ShowList \/ Show(MailboxNext)]_<<part, vars, mailboxVars>>

\* The fairness of Mailbox.
FairAnyPart ==
  AnyPart /\ WF_mailboxVars(Show(Master)) /\ WF_mailboxVars(Show(Expire))
=============================================================================
