------------------------------ MODULE Mailbox ------------------------------
(***************************************************************************)
(* The mailbox link layer of the EtherCAT master (ecx_mbxempty,            *)
(* ecx_mbxsend and ecx_mbxreceive of soem/ethercatmain.c) between one      *)
(* blocking client, the request and answer of a CoE transfer, and the two  *)
(* mailboxes of a slave: SM0 takes a request, SM1 holds one mail for the   *)
(* master.  Every read and write of a slave register is a datagram that    *)
(* may be lost on its way to the slave or on its way back.                 *)
(*                                                                         *)
(* The slave is external: it answers each request once, sends emergencies  *)
(* and EoE fragments unasked, and when the repeat bit of SM1 is toggled it *)
(* puts the mail read last back in front of the others, which is what the  *)
(* master's "repeat request" and its "toggle ack" are for.                 *)
(***************************************************************************)
EXTENDS Integers, Sequences

CONSTANTS
  MaxCnt,        \* highest mailbox counter: 7 in ec_nextmbxcnt
  MaxTries,      \* transmissions of the mailbox write (EC_TIMEOUTRET3)
  MaxRequests,   \* bound: transfers of the client
  MaxUnasked,    \* bound: emergencies and EoE fragments of the slave
  MaxLosses,     \* bound: datagrams lost
  NoMail         \* empty mailbox, no result

Unasked == {"emergency", "eoe"}
Kinds   == {"reply", "error"} \union Unasked

ASSUME MailboxAssumption ==
  /\ MaxCnt \in Nat \ {0, 1}
  /\ MaxTries \in Nat \ {0}
  /\ MaxRequests \in Nat
  /\ MaxUnasked \in Nat
  /\ MaxLosses \in Nat
  /\ NoMail \notin [kind : Kinds, id : Nat, for : Nat]

\* A mail of the slave: its how-manieth, and the request it answers (or 0).
Mails    == [kind : Kinds, id : 1 .. MaxRequests + MaxUnasked,
             for : 0 .. MaxRequests]
Orders   == [cnt : 0 .. MaxCnt, req : 1 .. MaxRequests]
EC_NOFRAME == -1
EC_TIMEOUT == -5

VARIABLES
  pc, call,       \* where the master is, and in which ecx_mbxreceive
  req,            \* requests made by the client
  mbx_cnt,        \* slavelist[slave].mbx_cnt
  SMstat,         \* local: what was last read of SM1STAT
  wkc,            \* local
  tries,          \* transmissions of the write so far
  expired,        \* osal_timer_is_expired(&timer)
  answer,         \* what the client got for its request
  handled, latest,   \* history: ids of the mails taken, the one taken last
  forgone,        \* history: ids lost in a read when no time was left to repeat
  hurried,        \* history: a mailbox timer has run out
  sm0, sm1,       \* the mailboxes of the slave
  outq,           \* mails the slave has yet to put into SM1
  lastread,       \* the mail it keeps for a repeat
  repeat, ack,    \* repeat bit of SM1STAT and its acknowledge in SM1CONTR
  lastcnt,        \* counter of the request it took last
  executed,       \* requests it carried out, in order
  mails, unasked, \* mails it has produced, those unasked
  losses          \* datagrams lost

master == <<pc, call, req, mbx_cnt, SMstat, wkc, tries, expired, answer,
            handled, latest, forgone, hurried>>
slave  == <<sm0, sm1, outq, lastread, repeat, ack, lastcnt, executed, mails, unasked>>
mailboxVars == <<master, slave, losses>>

MailboxInit ==
  /\ pc = "idle" /\ call = "drain" /\ req = 0 /\ mbx_cnt = 0
  /\ SMstat = [full |-> FALSE, repeat |-> FALSE]
  /\ wkc = 0 /\ tries = 0 /\ expired = FALSE
  /\ answer = NoMail /\ handled = {} /\ latest = 0 /\ forgone = {}
  /\ hurried = FALSE
  /\ sm0 = NoMail /\ sm1 = NoMail /\ outq = << >> /\ lastread = NoMail
  /\ repeat = FALSE /\ ack = FALSE /\ lastcnt = 0 /\ executed = << >>
  /\ mails = 0 /\ unasked = 0 /\ losses = 0

history == <<handled, latest, forgone, hurried>>

\* One datagram more is lost.
Lost == losses < MaxLosses /\ losses' = losses + 1

-----------------------------------------------------------------------------
(* The client: empty the slave's mailbox with timeout 0, send a request    *)
(* under a new mailbox counter, receive.                                   *)

\* Wrong: the counter wraps to 0, which tells a slave not to look at it.
ec_nextmbxcnt_Wrong(cnt) == IF cnt + 1 > MaxCnt THEN 0 ELSE cnt + 1

\* "wrap around to 1, not 0"
ec_nextmbxcnt(cnt) == IF cnt + 1 > MaxCnt THEN 1 ELSE cnt + 1

Request ==
  /\ pc = "idle"
  /\ req < MaxRequests
  /\ req' = req + 1
  /\ answer' = NoMail
  /\ call' = "drain"
  /\ expired' = TRUE
  /\ pc' = "wait"
  /\ UNCHANGED <<mbx_cnt, SMstat, wkc, tries, history, slave, losses>>

\* ecx_mbxreceive returns w: the client goes on to ecx_mbxsend after the
\* draining call and is done after the other.
Received(w) ==
  /\ wkc' = w
  /\ IF call = "drain"
     THEN pc' = "empty" /\ expired' = FALSE /\ mbx_cnt' = ec_nextmbxcnt(mbx_cnt)
     ELSE pc' = "idle" /\ UNCHANGED <<expired, mbx_cnt>>

\* A mailbox timer runs out.
Expire ==
  /\ pc # "idle"
  /\ ~ expired
  /\ expired' = TRUE
  /\ hurried' = TRUE
  /\ UNCHANGED <<pc, call, req, mbx_cnt, SMstat, wkc, tries, answer, handled,
                 latest, forgone, slave, losses>>

-----------------------------------------------------------------------------
(* ecx_mbxempty and ecx_mbxsend                                            *)

SendFailed == pc' = "idle" /\ wkc' = 0

EmptyPoll ==
  /\ pc = "empty"
  /\ \/ /\ sm0 = NoMail
        /\ pc' = "write" /\ tries' = 0
        /\ UNCHANGED <<wkc, losses>>
     \/ /\ (sm0 # NoMail /\ UNCHANGED losses) \/ Lost
        /\ IF expired THEN SendFailed ELSE UNCHANGED <<pc, wkc>>
        /\ UNCHANGED tries
  /\ UNCHANGED <<call, req, mbx_cnt, SMstat, expired, answer, history, slave>>

\* ecx_srconfirm transmits a lost write again until its timer expires.
Unconfirmed ==
  /\ Lost
  /\ tries' = tries + 1
  /\ IF tries + 1 < MaxTries THEN UNCHANGED <<pc, wkc>> ELSE SendFailed
  /\ UNCHANGED <<call, expired>>

Write ==
  /\ pc = "write"
  /\ \/ /\ sm0 = NoMail
        /\ sm0' = [cnt |-> mbx_cnt, req |-> req]
        /\ \/ /\ pc' = "wait" /\ call' = "answer" /\ expired' = FALSE
              /\ UNCHANGED <<wkc, tries, losses>>
           \/ Unconfirmed
     \/ sm0' = sm0 /\ Unconfirmed
     \/ /\ sm0 # NoMail      \* the slave refuses: workcounter 0
        /\ SendFailed
        /\ UNCHANGED <<sm0, call, expired, tries, losses>>
  /\ UNCHANGED <<req, mbx_cnt, SMstat, answer, history, sm1, outq, lastread,
                 repeat, ack, lastcnt, executed, mails, unasked>>

-----------------------------------------------------------------------------
(* ecx_mbxreceive                                                          *)

SM1STAT == [full |-> sm1 # NoMail, repeat |-> repeat]

\* "wait for read mailbox available"
WaitAvailable ==
  /\ pc = "wait"
  /\ \/ /\ SMstat' = SM1STAT
        /\ IF sm1 # NoMail
           THEN pc' = "read" /\ UNCHANGED <<wkc, expired, mbx_cnt>>
           ELSE IF expired THEN Received(EC_TIMEOUT)
                ELSE UNCHANGED <<pc, wkc, expired, mbx_cnt>>
        /\ UNCHANGED losses
     \/ /\ Lost
        /\ SMstat' = [full |-> FALSE, repeat |-> FALSE]
        /\ IF expired THEN Received(EC_NOFRAME)
           ELSE UNCHANGED <<pc, wkc, expired, mbx_cnt>>
  /\ UNCHANGED <<call, req, tries, answer, history, slave>>

\* "if WKC<=0 repeat": read the mailbox again unless the timer has expired.
ReadAgain(w) ==
  IF expired THEN Received(w)
  ELSE pc' = "read" /\ wkc' = w /\ UNCHANGED <<expired, mbx_cnt>>

\* The slave sees its mailbox read and keeps the mail for a repeat.
Emptied == sm1' = NoMail /\ lastread' = sm1

\* Wrong: an emergency is handed to the client like an answer.
Internal_Wrong(mail) == mail.kind = "error"

\* Mails that ecx_mbxreceive deals with itself: the error list takes mailbox
\* errors and emergencies, EOEhook takes fragments.
Internal(mail) == mail.kind # "reply"

ReadMail ==
  /\ pc = "read"
  /\ sm1 # NoMail
  /\ Emptied
  /\ handled' = handled \union {sm1.id}
  /\ latest' = sm1.id
  /\ IF Internal(sm1)
     THEN ReadAgain(0) /\ UNCHANGED answer
     ELSE Received(1) /\ answer' = IF call = "answer" THEN sm1 ELSE answer
  /\ UNCHANGED <<call, req, SMstat, tries, sm0, outq, repeat, ack, lastcnt,
                 executed, mails, unasked, losses, forgone, hurried>>

\* "read mailbox lost", or nothing was in it: a repeat is requested.
ReadFails ==
  /\ pc = "read"
  /\ \/ sm1 = NoMail /\ wkc' = 0 /\ UNCHANGED <<sm1, lastread, losses, forgone>>
     \/ Lost /\ wkc' = EC_NOFRAME /\ UNCHANGED <<sm1, lastread, forgone>>
     \/ /\ Lost /\ wkc' = EC_NOFRAME
        /\ sm1 # NoMail /\ Emptied
        /\ forgone' = IF expired THEN forgone \union {sm1.id} ELSE forgone
  /\ pc' = "toggle"
  /\ UNCHANGED <<call, req, mbx_cnt, SMstat, tries, expired, answer, handled,
                 latest, hurried, sm0, outq, repeat, ack, lastcnt, executed, mails, unasked>>

\* "toggle repeat request": one write whose result is not looked at.
Toggle ==
  /\ pc = "toggle"
  /\ SMstat' = [SMstat EXCEPT !.repeat = ~ @]
  /\ \/ repeat' = ~ SMstat.repeat /\ (UNCHANGED losses \/ Lost)
     \/ Lost /\ UNCHANGED repeat
  /\ pc' = "ack"
  /\ UNCHANGED <<call, req, mbx_cnt, wkc, tries, expired, answer, history, sm0, sm1,
                 outq, lastread, ack, lastcnt, executed, mails, unasked>>

\* Wrong: the wait for the acknowledge has no end of its own.
WaitAck_Endless ==
  /\ pc = "ack"
  /\ pc' = IF ack = SMstat.repeat THEN "refill" ELSE "ack"
  /\ UNCHANGED <<call, req, mbx_cnt, SMstat, wkc, tries, expired, answer, history,
                 slave, losses>>

\* Wrong: the mailbox is looked at before the slave has acknowledged.
WaitAck_Wrong ==
  /\ pc = "ack"
  /\ pc' = "refill"
  /\ UNCHANGED <<call, req, mbx_cnt, SMstat, wkc, tries, expired, answer, history,
                 slave, losses>>

\* "wait for toggle ack"
WaitAck ==
  /\ pc = "ack"
  /\ \/ /\ pc' = IF ack = SMstat.repeat \/ expired THEN "refill" ELSE "ack"
        /\ UNCHANGED losses
     \/ /\ Lost
        /\ pc' = IF expired THEN "refill" ELSE "ack"
  /\ UNCHANGED <<call, req, mbx_cnt, SMstat, wkc, tries, expired, answer, history,
                 slave>>

\* "wait for read mailbox available", after a repeat request.
WaitRefill ==
  /\ pc = "refill"
  /\ \/ /\ SMstat' = SM1STAT
        /\ IF sm1 # NoMail \/ expired THEN ReadAgain(wkc)
           ELSE UNCHANGED <<pc, wkc, expired, mbx_cnt>>
        /\ UNCHANGED losses
     \/ /\ Lost
        /\ IF expired THEN ReadAgain(wkc)
           ELSE UNCHANGED <<pc, wkc, expired, mbx_cnt>>
        /\ UNCHANGED SMstat
  /\ UNCHANGED <<call, req, tries, answer, history, slave>>

-----------------------------------------------------------------------------
(* The slave (external)                                                    *)

Produce(kind, for) ==
  /\ outq' = Append(outq, [kind |-> kind, id |-> mails + 1, for |-> for])
  /\ mails' = mails + 1

\* A request whose counter is that of the last one is a duplicate.
TakeOrder ==
  /\ sm0 # NoMail
  /\ sm0' = NoMail
  /\ lastcnt' = sm0.cnt
  /\ IF sm0.cnt # 0 /\ sm0.cnt = lastcnt
     THEN UNCHANGED <<outq, mails, executed>>
     ELSE /\ executed' = Append(executed, sm0.req)
          /\ \E kind \in {"reply", "error"} : Produce(kind, sm0.req)
  /\ UNCHANGED <<sm1, lastread, repeat, ack, unasked, master, losses>>

SpeakUp ==
  /\ unasked < MaxUnasked
  /\ unasked' = unasked + 1
  /\ \E kind \in Unasked : Produce(kind, 0)
  /\ UNCHANGED <<sm0, sm1, lastread, repeat, ack, lastcnt, executed, master, losses>>

PutMail ==
  /\ sm1 = NoMail
  /\ outq # << >>
  /\ sm1' = Head(outq)
  /\ outq' = Tail(outq)
  /\ UNCHANGED <<sm0, lastread, repeat, ack, lastcnt, executed, mails, unasked,
                 master, losses>>

Repeat ==
  /\ repeat # ack
  /\ ack' = repeat
  /\ IF lastread = NoMail THEN UNCHANGED <<sm1, outq, lastread>>
     ELSE /\ sm1' = lastread
          /\ lastread' = NoMail
          /\ outq' = IF sm1 = NoMail THEN outq ELSE <<sm1>> \o outq
  /\ UNCHANGED <<sm0, repeat, lastcnt, executed, mails, unasked, master, losses>>

-----------------------------------------------------------------------------
Receive == \/ WaitAvailable \/ ReadMail \/ ReadFails \/ Toggle \/ WaitAck
           \/ WaitRefill
Master  == Request \/ EmptyPoll \/ Write \/ Receive
Slave   == TakeOrder \/ SpeakUp \/ PutMail \/ Repeat

\* The client has made its transfers (the bound MaxRequests).
Rest == pc = "idle" /\ req = MaxRequests /\ UNCHANGED mailboxVars

MailboxNext == Master \/ Slave \/ Expire \/ Rest

MailboxSpec == MailboxInit /\ [][MailboxNext]_mailboxVars

\* The thread of the master runs, and the timers it waits on expire.
FairMailbox == MailboxSpec /\ WF_mailboxVars(Master) /\ WF_mailboxVars(Expire)

-----------------------------------------------------------------------------
(* Properties                                                              *)

\* Every variable has its type.
MailboxTypeOK ==
  /\ pc \in {"idle", "wait", "read", "toggle", "ack", "refill", "empty", "write"}
  /\ call \in {"drain", "answer"}
  /\ req \in 0 .. MaxRequests
  /\ mbx_cnt \in 0 .. MaxCnt
  /\ SMstat \in [full : BOOLEAN, repeat : BOOLEAN]
  /\ wkc \in {EC_TIMEOUT, EC_NOFRAME, 0, 1}
  /\ tries \in 0 .. MaxTries
  /\ expired \in BOOLEAN
  /\ answer \in Mails \union {NoMail}
  /\ handled \subseteq 1 .. mails /\ forgone \subseteq 1 .. mails
  /\ latest \in 0 .. mails
  /\ sm0 \in Orders \union {NoMail}
  /\ sm1 \in Mails \union {NoMail}
  /\ lastread \in Mails \union {NoMail}
  /\ outq \in Seq(Mails)
  /\ repeat \in BOOLEAN /\ ack \in BOOLEAN
  /\ lastcnt \in 0 .. MaxCnt
  /\ executed \in Seq(1 .. MaxRequests)
  /\ mails \in 0 .. MaxRequests + MaxUnasked
  /\ unasked \in 0 .. MaxUnasked
  /\ losses \in 0 .. MaxLosses

\* ecx_mbxreceive "supports Mailbox Link Layer with repeat requests": when one
\* datagram is lost and no timer runs out, a mail whose read was lost is read
\* again before a later one, so that none is skipped (but in the draining call,
\* which has no time to repeat).
NoMailSkipped ==
  losses <= 1 /\ ~ hurried => 1 .. latest \subseteq handled \union forgone

\* A write that is transmitted again after its confirmation was lost does not
\* make the slave carry out the request twice, also where the counter wraps.
RequestOnce ==
  \A i \in 1 .. Len(executed) - 1 : executed[i] < executed[i + 1]

\* Where nothing is lost or late, what the client gets is the answer to its
\* own request, with emergencies and fragments kept away from it.
AnswerIsOwn ==
  losses = 0 /\ ~ hurried /\ answer # NoMail =>
    answer.kind = "reply" /\ answer.for = req

\* A transfer ends, whatever is lost, once the timers expire.
TransferEnds == pc # "idle" ~> pc = "idle"
=============================================================================
