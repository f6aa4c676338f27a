--------------------------- MODULE MailboxProofs ---------------------------
(***************************************************************************)
(* Proofs about the mailbox link layer (Mailbox), for every number of      *)
(* requests, unasked mails and losses, and about the list its errors go to *)
(* (ErrorList), for every size of the ring.                                *)
(*                                                                         *)
(* Mailbox: an order is a duplicate exactly when its counter says so, as   *)
(* the counter moves only once per request (Orderly); without loss one     *)
(* order or one reply is under way (OwnReply); mails stand in the order of *)
(* their numbers (Numbered), and the mail whose read was lost is the one   *)
(* before them until the repeat brings it back (NoneSkipped).              *)
(*                                                                         *)
(* ErrorList: arithmetic on the positions between tail and head.  A push   *)
(* adds a position at the end, and takes one from the front when the ring  *)
(* is full; a pop takes one from the front.                                *)
(***************************************************************************)
EXTENDS ErrorList, Mailbox, SequenceTheorems, TLAPS

Receiving == {"wait", "read", "toggle", "ack", "refill"}
Repeating == {"toggle", "ack", "refill"}

AnyMail == [kind : Kinds, id : Nat, for : Nat]
AnyOrder == [cnt : Nat, req : Nat]

BoxType ==
  /\ pc \in {"idle", "empty", "write"} \union Receiving
  /\ call \in {"drain", "answer"} /\ req \in Nat /\ mbx_cnt \in Nat
  /\ SMstat \in [full : BOOLEAN, repeat : BOOLEAN]
  /\ expired \in BOOLEAN /\ hurried \in BOOLEAN
  /\ answer \in AnyMail \union {NoMail}
  /\ sm0 \in AnyOrder \union {NoMail}
  /\ sm1 \in AnyMail \union {NoMail} /\ lastread \in AnyMail \union {NoMail}
  /\ outq \in Seq(AnyMail)
  /\ repeat \in BOOLEAN /\ ack \in BOOLEAN
  /\ lastcnt \in Nat /\ executed \in Seq(Nat)
  /\ mails \in Nat /\ losses \in Nat

\* The request carried out last.
Last == IF executed = << >> THEN 0 ELSE executed[Len(executed)]

\* An order in the mailbox is not older than the request carried out last, and
\* is a duplicate by its counter when it is the same; the counter moves on only
\* when the draining call of a new request is over.
Orderly ==
  /\ RequestOnce
  /\ Last <= req /\ (Last = req => lastcnt = mbx_cnt)
  /\ sm0 # NoMail =>
       /\ Last <= sm0.req /\ sm0.req <= req /\ 1 <= sm0.cnt
       /\ sm0.req = Last => sm0.cnt = lastcnt
       /\ sm0.req = req => sm0.cnt = mbx_cnt
  /\ call = "drain" /\ pc \in Receiving =>
       /\ Last < req
       /\ sm0 # NoMail => sm0.req < req
  /\ pc \in {"empty", "write"} => 1 <= mbx_cnt

Calm == losses = 0 /\ ~ hurried
Awaiting == call = "answer" /\ pc \in Receiving
IsReply(mail) == mail # NoMail /\ mail.kind = "reply"

\* Nothing lost or late: the handshake of the repeat bit is under way only where
\* the master waits for it, and no repeat is asked for while draining.
Handshake ==
  Calm =>
    /\ repeat # ack => pc = "ack"
    /\ pc \in {"read"} \union Repeating => SMstat.repeat = repeat
    /\ pc = "read" /\ expired => sm1 # NoMail
    /\ pc \in Repeating => ~ expired

\* One order, or one reply, is under way, and that for the client's request.
OwnReply ==
  Calm =>
    /\ sm0 # NoMail => Awaiting /\ sm0.req = req
    /\ IsReply(sm1) =>
         /\ Awaiting /\ sm0 = NoMail /\ sm1.for = req
         /\ \A i \in DOMAIN outq : ~ IsReply(outq[i])
    /\ \A i \in DOMAIN outq : IsReply(outq[i]) =>
         /\ Awaiting /\ sm0 = NoMail /\ outq[i].for = req /\ ~ IsReply(sm1)
         /\ \A j \in DOMAIN outq : IsReply(outq[j]) => j = i
    /\ pc \in {"empty", "write"} \/ Awaiting => ~ expired
    /\ call = "drain" /\ pc \in Receiving => expired
    /\ pc = "read" => sm1 # NoMail \/ ~ IsReply(lastread)
    /\ pc \in Repeating => ~ IsReply(lastread)
    /\ answer # NoMail => pc = "idle" /\ answer.kind = "reply" /\ answer.for = req

\* The mail that comes next.
First == mails + 1 - Len(outq) - (IF sm1 = NoMail THEN 0 ELSE 1)

\* Mails wait in the order of their numbers, and the one kept for a repeat is
\* the one before them.
Numbered ==
  /\ 1 <= First
  /\ \A i \in DOMAIN outq : outq[i].id = mails - Len(outq) + i
  /\ sm1 # NoMail => sm1.id = mails - Len(outq)
  /\ lastread # NoMail => lastread.id = First - 1 /\ 1 <= lastread.id

\* What is not yet taken of the mails before is the one whose read was lost,
\* and the repeat that brings it back is on its way.
Unread(mail) == mail # NoMail /\ mail.id \notin handled \union forgone
NoneSkipped ==
  losses <= 1 /\ ~ hurried =>
    /\ 1 .. latest \subseteq handled \union forgone
    /\ \A id \in 1 .. First - 1 :
         id \in handled \union forgone \/ (lastread # NoMail /\ id = lastread.id)
    /\ Unread(lastread) =>
         /\ losses = 1 /\ ~ expired /\ SMstat.repeat = repeat
         /\ \/ pc = "toggle" /\ repeat = ack
            \/ pc = "ack" /\ repeat # ack

BoxInv == BoxType /\ Orderly /\ Handshake /\ OwnReply /\ Numbered /\ NoneSkipped

-----------------------------------------------------------------------------
(* What the slave's steps do to the mails that wait.                       *)

LEMMA Parameters ==
  /\ MaxCnt \in Nat /\ 1 < MaxCnt /\ MaxTries \in Nat /\ 0 < MaxTries
  /\ MaxRequests \in Nat /\ MaxUnasked \in Nat /\ MaxLosses \in Nat
BY MailboxAssumption, SMT DEF MailboxAssumption

\* A mail is produced: it is the last.
LEMMA Produced ==
  ASSUME BoxType, NEW kind \in Kinds, NEW for \in Nat, Produce(kind, for)
  PROVE  /\ mails' = mails + 1 /\ mails' \in Nat
         /\ outq' \in Seq(AnyMail) /\ Len(outq') = Len(outq) + 1
         /\ \A i \in DOMAIN outq : i \in DOMAIN outq' /\ outq'[i] = outq[i]
         /\ outq'[Len(outq) + 1].id = mails + 1 /\ outq'[Len(outq) + 1].kind = kind
         /\ outq'[Len(outq) + 1].for = for
         /\ \A i \in DOMAIN outq' : i \in DOMAIN outq \/ i = Len(outq) + 1
<1> DEFINE mail == [kind |-> kind, id |-> mails + 1, for |-> for]
<1>1. mail \in AnyMail /\ mail.id = mails + 1 /\ mail.kind = kind /\ mail.for = for
  BY DEF AnyMail, BoxType
<1>2. outq' = Append(outq, mail) /\ outq \in Seq(AnyMail) /\ mails \in Nat /\ mails' = mails + 1
  BY DEF Produce, BoxType
<1> HIDE DEF mail
<1>3. /\ outq' \in Seq(AnyMail) /\ Len(outq') = Len(outq) + 1 /\ Len(outq) \in Nat
      /\ \A i \in 1 .. Len(outq) : outq'[i] = outq[i]
      /\ outq'[Len(outq) + 1] = mail
  BY <1>1, <1>2
<1> QED BY <1>1, <1>2, <1>3

\* The first mail goes into the mailbox.
LEMMA Put ==
  ASSUME BoxType, PutMail
  PROVE  /\ sm1 = NoMail /\ sm1' = outq[1] /\ sm1' \in AnyMail /\ 1 \in DOMAIN outq
         /\ outq' \in Seq(AnyMail) /\ Len(outq') = Len(outq) - 1
         /\ \A i \in DOMAIN outq' : i \in Nat \ {0} /\ i + 1 \in DOMAIN outq
                                     /\ outq'[i] = outq[i + 1]
         /\ UNCHANGED <<sm0, lastread, repeat, ack, lastcnt, executed, mails, master, losses>>
<1>1. outq \in Seq(AnyMail) /\ outq # << >> /\ outq' = Tail(outq) /\ sm1' = Head(outq)
  BY DEF PutMail, BoxType
<1>2. Len(outq) \in Nat /\ Len(outq) >= 1
  BY <1>1
<1> QED BY <1>1, <1>2 DEF PutMail

\* The mail read last is back in the mailbox, before the others.
LEMMA PutBack ==
  ASSUME BoxType, Repeat
  PROVE  /\ UNCHANGED <<sm0, repeat, lastcnt, executed, mails, master, losses>>
         /\ repeat # ack /\ ack' = repeat
         /\ \/ lastread = NoMail /\ UNCHANGED <<sm1, outq, lastread>>
            \/ /\ lastread # NoMail /\ sm1' = lastread /\ lastread' = NoMail
               /\ sm1 = NoMail /\ outq' = outq
            \/ /\ lastread # NoMail /\ sm1' = lastread /\ lastread' = NoMail
               /\ sm1 # NoMail /\ sm1 \in AnyMail
               /\ outq' \in Seq(AnyMail) /\ Len(outq') = Len(outq) + 1 /\ outq'[1] = sm1
               /\ \A i \in DOMAIN outq' : i \in Nat
                     /\ (i = 1 \/ (i - 1 \in DOMAIN outq /\ outq'[i] = outq[i - 1]))
<1>1. UNCHANGED <<sm0, repeat, lastcnt, executed, mails, master, losses>>
      /\ repeat # ack /\ ack' = repeat
  BY DEF Repeat
<1>2. CASE lastread = NoMail
  BY <1>1, <1>2 DEF Repeat
<1>3. CASE lastread # NoMail /\ sm1 = NoMail
  BY <1>1, <1>3 DEF Repeat
<1>4. CASE lastread # NoMail /\ sm1 # NoMail
  <2>1. outq' = <<sm1>> \o outq /\ sm1' = lastread /\ lastread' = NoMail
    BY <1>4 DEF Repeat
  <2>2. sm1 \in AnyMail /\ outq \in Seq(AnyMail)
    BY <1>4 DEF BoxType
  <2>3. /\ outq' \in Seq(AnyMail) /\ Len(outq') = Len(outq) + 1 /\ outq'[1] = sm1
        /\ \A i \in 1 .. Len(outq) + 1 : i = 1 \/ (i - 1 \in 1 .. Len(outq) /\ outq'[i] = outq[i - 1])
    BY <2>1, <2>2
  <2> QED BY <1>1, <1>4, <2>1, <2>2, <2>3
<1> QED BY <1>2, <1>3, <1>4

\* The steps of the master and of the slave, one by one.
LEMMA Steps ==
  ASSUME [MailboxNext]_mailboxVars
  PROVE  \/ Request \/ EmptyPoll \/ Write \/ WaitAvailable \/ ReadMail \/ ReadFails \/ Toggle
         \/ WaitAck \/ WaitRefill \/ TakeOrder \/ SpeakUp \/ PutMail \/ Repeat \/ Expire
         \/ UNCHANGED mailboxVars
BY DEF MailboxNext, Master, Receive, Slave, Rest

LEMMA CounterMoves ==
  ASSUME NEW cnt \in Nat
  PROVE  ec_nextmbxcnt(cnt) \in Nat /\ 1 <= ec_nextmbxcnt(cnt)
BY SMT DEF ec_nextmbxcnt

\* A call of ecx_mbxreceive ends.
LEMMA ReceiveEnds ==
  ASSUME BoxType, NEW w, Received(w)
  PROVE  /\ call = "drain" => pc' = "empty" /\ expired' = FALSE /\ mbx_cnt' \in Nat /\ 1 <= mbx_cnt'
         /\ call = "answer" => pc' = "idle" /\ expired' = expired /\ mbx_cnt' = mbx_cnt
         /\ pc' \in {"empty", "idle"} /\ expired' \in BOOLEAN /\ mbx_cnt' \in Nat
BY CounterMoves DEF Received, BoxType

\* A datagram that is lost makes one more.
LEMMA LostOne == BoxType /\ Lost => losses' = losses + 1 /\ losses' \in Nat /\ losses' >= 1
BY SMT DEF BoxType, Lost

\* Each step of the client within its calls, by where it leads.
LEMMA Reads ==
  ASSUME BoxType, WaitAvailable \/ ReadMail \/ WaitRefill
  PROVE  /\ pc \in {"wait", "read", "refill"} /\ pc' \in {"wait", "read", "refill", "empty", "idle"}
         /\ \/ pc' \in Receiving /\ UNCHANGED <<expired, mbx_cnt>>
            \/ call = "drain" /\ pc' = "empty" /\ expired' = FALSE /\ mbx_cnt' \in Nat /\ 1 <= mbx_cnt'
            \/ call = "answer" /\ pc' = "idle" /\ UNCHANGED <<expired, mbx_cnt>>
         /\ UNCHANGED <<call, req, hurried, forgone, sm0, outq, repeat, ack, lastcnt, executed,
                        mails>>
<1>1. CASE WaitAvailable
  BY <1>1, ReceiveEnds DEF WaitAvailable, Received, BoxType, Receiving, slave, history
<1>2. CASE ReadMail
  BY <1>2, ReceiveEnds DEF ReadMail, ReadAgain, Received, BoxType, Receiving
<1>3. CASE WaitRefill
  BY <1>3, ReceiveEnds DEF WaitRefill, ReadAgain, Received, BoxType, Receiving, slave, history
<1> QED BY <1>1, <1>2, <1>3

-----------------------------------------------------------------------------
(* Types.                                                                  *)

LEMMA MailTypes ==
  ASSUME BoxType, [MailboxNext]_mailboxVars
  PROVE  BoxType'
<1>1. CASE Request
  BY <1>1 DEF Request, BoxType, Receiving, history, slave
<1>2. CASE EmptyPoll
  BY <1>2, LostOne DEF EmptyPoll, SendFailed, BoxType, history, slave
<1>3. CASE Write
  <2>1. mbx_cnt \in Nat /\ req \in Nat => [cnt |-> mbx_cnt, req |-> req] \in AnyOrder
    BY DEF AnyOrder
  <2>2. sm0' \in AnyOrder \union {NoMail}
    BY <1>3, <2>1 DEF Write, BoxType
  <2>3. losses' \in Nat
    BY <1>3, LostOne DEF Write, Unconfirmed, BoxType
  <2>4. /\ pc' \in {"wait", "write", "idle"} /\ call' \in {"answer", call}
        /\ expired' = FALSE \/ expired' = expired
        /\ UNCHANGED <<req, mbx_cnt, SMstat, answer, hurried, sm1, outq, lastread, repeat, ack,
                       lastcnt, executed, mails>>
    BY <1>3 DEF Write, Unconfirmed, SendFailed, history
  <2>5. expired' \in BOOLEAN /\ call' \in {"drain", "answer"}
    BY <2>4 DEF BoxType
  <2> QED BY <2>2, <2>3, <2>4, <2>5 DEF BoxType, Receiving
<1>4. CASE WaitAvailable \/ ReadMail \/ WaitRefill
  <2>1. SMstat' \in [full : BOOLEAN, repeat : BOOLEAN]
    <3>1. /\ SM1STAT \in [full : BOOLEAN, repeat : BOOLEAN]
          /\ [full |-> FALSE, repeat |-> FALSE] \in [full : BOOLEAN, repeat : BOOLEAN]
          /\ SMstat \in [full : BOOLEAN, repeat : BOOLEAN]
      BY DEF SM1STAT, BoxType
    <3>2. SMstat' \in {SMstat, SM1STAT, [full |-> FALSE, repeat |-> FALSE]}
      BY <1>4 DEF WaitAvailable, ReadMail, WaitRefill
    <3> QED BY <3>1, <3>2
  <2>2. /\ sm1' \in {sm1, NoMail} /\ lastread' \in {lastread, sm1}
        /\ answer' \in {answer, sm1}
    <3>1. CASE ReadMail
      BY <3>1 DEF ReadMail, Emptied
    <3>2. CASE WaitAvailable \/ WaitRefill
      BY <3>2 DEF WaitAvailable, WaitRefill, history, slave
    <3> QED BY <1>4, <3>1, <3>2
  <2>3. losses' \in Nat
    BY <1>4, LostOne DEF WaitAvailable, ReadMail, WaitRefill, BoxType
  <2>4. /\ pc' \in {"idle", "empty"} \union Receiving
        /\ expired' = FALSE \/ expired' = expired
        /\ mbx_cnt' = mbx_cnt \/ mbx_cnt' \in Nat
        /\ UNCHANGED <<call, req, hurried, sm0, outq, repeat, ack, lastcnt, executed, mails>>
    BY <1>4, Reads DEF Receiving
  <2>5. expired' \in BOOLEAN /\ mbx_cnt' \in Nat
    BY <2>4 DEF BoxType
  <2> QED BY <2>1, <2>2, <2>3, <2>4, <2>5 DEF BoxType
<1>5. CASE ReadFails
  <2>1. losses' \in Nat
    BY <1>5, LostOne DEF ReadFails, BoxType
  <2> QED BY <1>5, <2>1 DEF ReadFails, Emptied, BoxType, Receiving
<1>6. CASE Toggle
  <2>1. losses' \in Nat /\ SMstat' \in [full : BOOLEAN, repeat : BOOLEAN] /\ repeat' \in BOOLEAN
    BY <1>6, LostOne DEF Toggle, BoxType
  <2> QED BY <1>6, <2>1 DEF Toggle, BoxType, Receiving, history
<1>7. CASE WaitAck
  BY <1>7, LostOne DEF WaitAck, BoxType, Receiving, history, slave
<1>8. CASE TakeOrder
  <2>1. sm0 \in AnyOrder /\ sm0.cnt \in Nat /\ sm0.req \in Nat /\ executed \in Seq(Nat)
    BY <1>8 DEF TakeOrder, BoxType, AnyOrder
  <2>2. Append(executed, sm0.req) \in Seq(Nat)
    BY <2>1
  <2>3. executed' \in Seq(Nat) /\ outq' \in Seq(AnyMail) /\ mails' \in Nat
    <3>1. CASE UNCHANGED <<outq, mails, executed>>
      BY <3>1 DEF BoxType
    <3>2. CASE \E kind \in {"reply", "error"} :
                 Produce(kind, sm0.req) /\ executed' = Append(executed, sm0.req)
      BY <2>1, <2>2, <3>2, Produced DEF Kinds
    <3> QED BY <1>8, <3>1, <3>2 DEF TakeOrder
  <2> QED BY <1>8, <2>1, <2>3 DEF TakeOrder, BoxType, master, history
<1>9. CASE SpeakUp
  <2>1. PICK kind \in Unasked : Produce(kind, 0)
    BY <1>9 DEF SpeakUp
  <2>2. kind \in Kinds
    BY DEF Kinds
  <2> QED BY <1>9, <2>1, <2>2, Produced DEF SpeakUp, BoxType, master
<1>10. CASE PutMail
  BY <1>10, Put DEF BoxType, master
<1>11. CASE Repeat
  BY <1>11, PutBack DEF BoxType, master
<1>12. CASE Expire
  BY <1>12 DEF Expire, BoxType, slave
<1>13. CASE UNCHANGED mailboxVars
  BY <1>13 DEF mailboxVars, master, slave, BoxType
<1> QED
  BY <1>1, <1>2, <1>3, <1>4, <1>5, <1>6, <1>7, <1>8, <1>9, <1>10, <1>11, <1>12, <1>13, Steps

-----------------------------------------------------------------------------
(* A request is carried out once.                                          *)

\* One more request is carried out.
LEMMA OneMore ==
  ASSUME executed \in Seq(Nat), RequestOnce, NEW r \in Nat, Last < r,
         executed' = Append(executed, r)
  PROVE  RequestOnce' /\ Last' = r
<1>1. /\ Len(executed') = Len(executed) + 1 /\ Len(executed) \in Nat
      /\ \A i \in 1 .. Len(executed) : executed'[i] = executed[i]
      /\ executed'[Len(executed) + 1] = r /\ executed' # << >>
  OBVIOUS
<1>2. Last' = r
  BY <1>1 DEF Last
<1>3. ASSUME NEW i \in 1 .. Len(executed') - 1
      PROVE  executed'[i] < executed'[i + 1]
  <2>1. CASE i = Len(executed)
    <3>1. executed # << >> /\ executed'[i] = executed[Len(executed)]
      BY <1>1, <2>1
    <3> QED BY <1>1, <2>1, <3>1 DEF Last
  <2>2. CASE i # Len(executed)
    <3>1. i \in 1 .. Len(executed) - 1 /\ i \in 1 .. Len(executed) /\ i + 1 \in 1 .. Len(executed)
      BY <1>1, <2>2
    <3> QED BY <1>1, <3>1 DEF RequestOnce
  <2> QED BY <2>1, <2>2
<1> QED BY <1>2, <1>3 DEF RequestOnce

LEMMA LastIs == BoxType => Last \in Nat
<1> SUFFICES ASSUME BoxType PROVE Last \in Nat
  OBVIOUS
<1>1. CASE executed = << >>
  BY <1>1 DEF Last
<1>2. CASE executed # << >>
  <2>1. executed \in Seq(Nat) /\ Len(executed) \in 1 .. Len(executed)
    BY <1>2 DEF BoxType
  <2> QED BY <1>2, <2>1 DEF Last
<1> QED BY <1>1, <1>2

\* Orders and executed requests stay as they are.
LEMMA OrdersRest ==
  ASSUME Orderly, UNCHANGED <<sm0, executed, lastcnt, req, mbx_cnt, call>>,
         pc' \in Receiving => pc \in Receiving,
         pc' \in {"empty", "write"} => 1 <= mbx_cnt
  PROVE  Orderly'
BY DEF Orderly, Last, RequestOnce

LEMMA OrderlyKept ==
  ASSUME BoxType, Orderly, [MailboxNext]_mailboxVars
  PROVE  Orderly'
<1>0. Last \in Nat /\ req \in Nat /\ mbx_cnt \in Nat /\ lastcnt \in Nat
  BY LastIs DEF BoxType
<1>a. sm0 # NoMail => sm0.cnt \in Nat /\ sm0.req \in Nat
  BY DEF BoxType, AnyOrder
<1>1. CASE Request
  <2>1. /\ req' = req + 1 /\ call' = "drain" /\ pc' = "wait"
        /\ UNCHANGED <<mbx_cnt, sm0, executed, lastcnt>>
    BY <1>1 DEF Request, slave
  <2>2. Last' = Last /\ (RequestOnce <=> RequestOnce')
    BY <2>1 DEF Last, RequestOnce
  <2> QED BY <1>0, <1>a, <2>1, <2>2, SMT DEF Orderly
<1>2. CASE EmptyPoll
  BY <1>2, OrdersRest DEF EmptyPoll, SendFailed, Orderly, Receiving, slave
<1>3. CASE Write
  <2>1. /\ UNCHANGED <<req, mbx_cnt, executed, lastcnt>> /\ pc = "write"
        /\ \/ sm0 = NoMail /\ sm0' = [cnt |-> mbx_cnt, req |-> req]
           \/ sm0' = sm0
        /\ \/ pc' = "wait" /\ call' = "answer"
           \/ pc' \in {"write", "idle"} /\ call' = call
    BY <1>3 DEF Write, Unconfirmed, SendFailed
  <2>2. Last' = Last /\ (RequestOnce <=> RequestOnce')
    BY <2>1 DEF Last, RequestOnce
  <2> QED BY <1>0, <1>a, <2>1, <2>2, SMT DEF Orderly, Receiving
<1>4. CASE WaitAvailable \/ ReadMail \/ WaitRefill
  <2>1. UNCHANGED <<sm0, executed, lastcnt, req, call>> /\ pc \in Receiving
    BY <1>4, Reads DEF Receiving
  <2>2. CASE mbx_cnt' = mbx_cnt /\ pc' # "empty"
    <3>1. pc' \notin {"empty", "write"}
      BY <1>4, <2>2, Reads
    <3> QED BY <2>1, <2>2, <3>1, OrdersRest
  <2>3. CASE call = "drain" /\ pc' = "empty" /\ mbx_cnt' \in Nat /\ 1 <= mbx_cnt'
    <3>1. Last' = Last /\ (RequestOnce <=> RequestOnce')
      BY <2>1 DEF Last, RequestOnce
    <3> QED BY <1>0, <1>a, <2>1, <2>3, <3>1, SMT DEF Orderly, Receiving
  <2> QED BY <1>4, <2>2, <2>3, Reads DEF Receiving
<1>5. CASE ReadFails
  BY <1>5, OrdersRest DEF ReadFails, Orderly, Receiving
<1>6. CASE Toggle
  BY <1>6, OrdersRest DEF Toggle, Orderly, Receiving
<1>7. CASE WaitAck
  BY <1>7, OrdersRest DEF WaitAck, Orderly, Receiving, slave
<1>8. CASE TakeOrder
  <2>1. /\ sm0 # NoMail /\ sm0' = NoMail /\ lastcnt' = sm0.cnt
        /\ UNCHANGED <<pc, call, req, mbx_cnt>>
        /\ \/ sm0.cnt = lastcnt /\ executed' = executed
           \/ (sm0.cnt = 0 \/ sm0.cnt # lastcnt) /\ executed' = Append(executed, sm0.req)
    BY <1>8 DEF TakeOrder, master
  <2>2. CASE sm0.cnt = lastcnt /\ executed' = executed
    <3>1. Last' = Last /\ (RequestOnce <=> RequestOnce')
      BY <2>2 DEF Last, RequestOnce
    <3> QED BY <2>1, <2>2, <3>1 DEF Orderly
  <2>3. CASE (sm0.cnt = 0 \/ sm0.cnt # lastcnt) /\ executed' = Append(executed, sm0.req)
    <3>1. sm0.cnt # lastcnt /\ Last < sm0.req
      BY <1>0, <1>a, <2>1, <2>3, SMT DEF Orderly
    <3>2. RequestOnce' /\ Last' = sm0.req
      BY <1>a, <2>1, <2>3, <3>1, OneMore DEF Orderly, BoxType
    <3> QED BY <1>0, <1>a, <2>1, <3>1, <3>2, SMT DEF Orderly
  <2> QED BY <2>1, <2>2, <2>3
<1>9. CASE SpeakUp
  BY <1>9, OrdersRest DEF SpeakUp, Orderly, master
<1>10. CASE PutMail
  BY <1>10, OrdersRest DEF PutMail, Orderly, master
<1>11. CASE Repeat
  BY <1>11, OrdersRest DEF Repeat, Orderly, master
<1>12. CASE Expire
  BY <1>12, OrdersRest DEF Expire, Orderly, slave
<1>13. CASE UNCHANGED mailboxVars
  BY <1>13, OrdersRest DEF mailboxVars, master, slave, Orderly
<1> QED
  BY <1>1, <1>2, <1>3, <1>4, <1>5, <1>6, <1>7, <1>8, <1>9, <1>10, <1>11, <1>12, <1>13, Steps

-----------------------------------------------------------------------------
(* Where nothing is lost or late.                                          *)

\* Losses and haste only grow.
LEMMA WorseOnly ==
  ASSUME BoxType, [MailboxNext]_mailboxVars
  PROVE  /\ losses <= losses' /\ losses' \in Nat /\ (hurried => hurried')
         /\ losses' # losses => losses' = losses + 1 /\ losses' >= 1
<1>1. losses \in Nat
  BY DEF BoxType
<1>2. losses' = losses \/ Lost
  BY Steps DEF Request, EmptyPoll, Write, Unconfirmed, WaitAvailable, ReadMail, ReadFails,
               Toggle, WaitAck, WaitRefill, TakeOrder, SpeakUp, PutMail, Repeat, Expire,
               mailboxVars
<1>3. hurried => hurried'
  <2>1. hurried' = hurried \/ hurried' = TRUE
    BY Steps DEF Request, EmptyPoll, Write, WaitAvailable, ReadMail, ReadFails, Toggle,
                 WaitAck, WaitRefill, TakeOrder, SpeakUp, PutMail, Repeat, Expire,
                 mailboxVars, history, master
  <2> QED BY <2>1
<1> QED BY <1>1, <1>2, <1>3, LostOne, SMT

LEMMA CalmBefore ==
  ASSUME BoxType, [MailboxNext]_mailboxVars, Calm'
  PROVE  Calm /\ ~ Lost /\ losses' = losses
<1>1. losses \in Nat /\ losses' = 0 /\ losses <= losses'
  BY WorseOnly DEF BoxType, Calm
<1>2. losses = 0
  BY <1>1, SMT
<1>3. ~ Lost
  BY <1>1, LostOne, SMT
<1> QED BY <1>1, <1>2, <1>3, WorseOnly DEF Calm

LEMMA HandshakeKept ==
  ASSUME BoxType, Handshake, [MailboxNext]_mailboxVars
  PROVE  Handshake'
<1> SUFFICES ASSUME Calm'
             PROVE  /\ repeat' # ack' => pc' = "ack"
                    /\ pc' \in {"read"} \union Repeating => SMstat'.repeat = repeat'
                    /\ pc' = "read" /\ expired' => sm1' # NoMail
                    /\ pc' \in Repeating => ~ expired'
  BY DEF Handshake
<1>0. /\ ~ Lost /\ (repeat # ack => pc = "ack")
      /\ pc \in {"read"} \union Repeating => SMstat.repeat = repeat
      /\ pc = "read" /\ expired => sm1 # NoMail
      /\ pc \in Repeating => ~ expired
  BY CalmBefore DEF Handshake
<1>1. CASE Request
  BY <1>0, <1>1 DEF Request, Repeating, slave
<1>2. CASE EmptyPoll
  BY <1>0, <1>2 DEF EmptyPoll, SendFailed, Repeating, slave
<1>3. CASE Write
  BY <1>0, <1>3 DEF Write, Unconfirmed, SendFailed, Repeating
<1>4. CASE WaitAvailable
  BY <1>0, <1>4 DEF WaitAvailable, SM1STAT, Received, Repeating, slave
<1>5. CASE ReadMail
  BY <1>0, <1>5 DEF ReadMail, ReadAgain, Received, Repeating
<1>6. CASE ReadFails
  BY <1>0, <1>6 DEF ReadFails, Repeating
<1>7. CASE Toggle
  <2>1. SMstat' = [SMstat EXCEPT !.repeat = ~ @] /\ SMstat \in [full : BOOLEAN, repeat : BOOLEAN]
        /\ repeat' = ~ SMstat.repeat /\ pc = "toggle" /\ pc' = "ack"
        /\ UNCHANGED <<expired, sm1>>
    BY <1>0, <1>7 DEF Toggle, BoxType
  <2>2. SMstat'.repeat = ~ SMstat.repeat
    BY <2>1
  <2> QED BY <1>0, <2>1, <2>2 DEF Repeating
<1>8. CASE WaitAck
  BY <1>0, <1>8 DEF WaitAck, Repeating, slave
<1>9. CASE WaitRefill
  BY <1>0, <1>9 DEF WaitRefill, SM1STAT, ReadAgain, Received, Repeating, slave
<1>10. CASE TakeOrder \/ SpeakUp
  BY <1>0, <1>10 DEF TakeOrder, SpeakUp, master
<1>11. CASE PutMail
  BY <1>0, <1>11, Put DEF master
<1>12. CASE Repeat
  BY <1>0, <1>12 DEF Repeat, Repeating, master
<1>13. CASE Expire
  BY <1>13 DEF Expire, Calm
<1>14. CASE UNCHANGED mailboxVars
  BY <1>0, <1>14 DEF mailboxVars, master, slave
<1> QED
  BY <1>1, <1>2, <1>3, <1>4, <1>5, <1>6, <1>7, <1>8, <1>9, <1>10, <1>11, <1>12, <1>13, <1>14,
     Steps

-----------------------------------------------------------------------------
(* The answer is of the request.                                           *)

NoReply == ~ IsReply(sm1) /\ \A i \in DOMAIN outq : ~ IsReply(outq[i])

\* Where the client does not wait, or its order was not yet taken.
LEMMA NoneYet ==
  ASSUME OwnReply, Calm, ~ Awaiting \/ sm0 # NoMail
  PROVE  NoReply
BY DEF OwnReply, NoReply

\* No reply is under way, before and after.
LEMMA StillNone ==
  ASSUME NoReply',
         sm0' # NoMail => Awaiting' /\ sm0'.req = req',
         pc' \in {"empty", "write"} \/ Awaiting' => ~ expired',
         call' = "drain" /\ pc' \in Receiving => expired',
         pc' = "read" => sm1' # NoMail \/ ~ IsReply(lastread'),
         pc' \in Repeating => ~ IsReply(lastread'),
         answer' # NoMail => pc' = "idle" /\ answer'.kind = "reply" /\ answer'.for = req'
  PROVE  OwnReply'
BY DEF OwnReply, NoReply, IsReply

\* What waits in the slave is as it was, and so is who waits for it.
LEMMA SameMails ==
  ASSUME OwnReply, Calm, UNCHANGED <<sm0, sm1, outq, req, lastread, answer>>,
         Awaiting => Awaiting', sm0' # NoMail => Awaiting',
         pc' \in {"empty", "write"} \/ Awaiting' => ~ expired',
         call' = "drain" /\ pc' \in Receiving => expired',
         pc' = "read" => sm1' # NoMail \/ ~ IsReply(lastread'),
         pc' \in Repeating => ~ IsReply(lastread'),
         answer' # NoMail => pc' = "idle"
  PROVE  OwnReply'
BY DEF OwnReply, IsReply

LEMMA ReadOwn ==
  ASSUME BoxType, OwnReply, ReadMail, Calm
  PROVE  OwnReply'
<1>1. /\ pc = "read" /\ sm1 # NoMail /\ sm1' = NoMail /\ lastread' = sm1
      /\ UNCHANGED <<call, req, sm0, outq>>
      /\ sm1 \in AnyMail
  BY DEF ReadMail, Emptied, BoxType
<1>2. ~ IsReply(sm1')
  BY <1>1 DEF IsReply
<1>3. CASE Internal(sm1)
  <2>1. ~ IsReply(sm1) /\ ReadAgain(0) /\ answer' = answer
    BY <1>3 DEF ReadMail, Internal, IsReply
  <2>2. CASE expired
    <3>1. call = "drain" /\ ~ Awaiting
      BY <1>1, <2>2 DEF OwnReply, Awaiting, Receiving, BoxType
    <3>2. pc' = "empty" /\ expired' = FALSE
      BY <2>1, <2>2, <3>1 DEF ReadAgain, Received
    <3>3. NoReply' /\ sm0 = NoMail
      BY <1>1, <1>2, <3>1, NoneYet DEF NoReply, OwnReply
    <3> QED BY <1>1, <2>1, <3>1, <3>2, <3>3, StillNone DEF OwnReply, Receiving, Repeating, Awaiting
  <2>3. CASE ~ expired
    <3>1. pc' = "read" /\ expired' = expired
      BY <2>1, <2>3 DEF ReadAgain
    <3>2. Awaiting /\ Awaiting' /\ answer = NoMail
      BY <1>1, <2>3, <3>1 DEF OwnReply, Awaiting, Receiving, BoxType
    <3> QED BY <1>1, <1>2, <2>1, <2>3, <3>1, <3>2 DEF OwnReply, Calm, Repeating, Awaiting, Receiving
  <2> QED BY <2>2, <2>3
<1>4. CASE ~ Internal(sm1)
  <2>1. IsReply(sm1)
    BY <1>1, <1>4 DEF Internal, IsReply
  <2>2. /\ Awaiting /\ call = "answer" /\ sm0 = NoMail /\ sm1.for = req /\ sm1.kind = "reply"
        /\ \A i \in DOMAIN outq : ~ IsReply(outq[i])
    BY <2>1 DEF OwnReply, Awaiting, IsReply
  <2>3. pc' = "idle" /\ answer' = sm1 /\ expired' = expired
    BY <1>4, <2>2 DEF ReadMail, Received
  <2>4. NoReply'
    BY <1>1, <1>2, <2>2 DEF NoReply
  <2> QED BY <1>1, <2>2, <2>3, <2>4, StillNone DEF Awaiting, Receiving, Repeating
<1> QED BY <1>3, <1>4

\* The order is taken: its answer is the only one.
LEMMA TakeOwn ==
  ASSUME BoxType, OwnReply, TakeOrder, Calm
  PROVE  OwnReply'
<1>1. /\ sm0 # NoMail /\ sm0' = NoMail /\ UNCHANGED <<sm1, lastread>>
      /\ UNCHANGED <<pc, call, req, expired, answer, hurried>>
  BY DEF TakeOrder, master
<1>2. /\ Awaiting /\ Awaiting' /\ sm0.req = req /\ NoReply /\ req \in Nat
  BY <1>1, NoneYet DEF OwnReply, Awaiting, BoxType
<1>3. CASE UNCHANGED outq
  BY <1>1, <1>2, <1>3, StillNone DEF OwnReply, NoReply, IsReply
<1>4. CASE \E kind \in {"reply", "error"} : Produce(kind, sm0.req)
  <2>1. PICK kind \in {"reply", "error"} : Produce(kind, req)
    BY <1>2, <1>4
  <2>2. kind \in Kinds
    BY DEF Kinds
  <2>3. /\ \A i \in DOMAIN outq' : i \in DOMAIN outq \/ i = Len(outq) + 1
        /\ \A i \in DOMAIN outq : outq'[i] = outq[i]
        /\ outq'[Len(outq) + 1].for = req
    BY <1>2, <2>1, <2>2, Produced
  <2>4. \A i \in DOMAIN outq' : IsReply(outq'[i]) => i = Len(outq) + 1 /\ outq'[i].for = req
    BY <1>2, <2>3 DEF NoReply
  <2>5. ~ IsReply(sm1')
    BY <1>1, <1>2 DEF NoReply, IsReply
  <2> QED BY <1>1, <1>2, <2>4, <2>5 DEF OwnReply, IsReply
<1> QED BY <1>3, <1>4 DEF TakeOrder

LEMMA OwnReplyKept ==
  ASSUME BoxType, Handshake, OwnReply, [MailboxNext]_mailboxVars
  PROVE  OwnReply'
<1> SUFFICES ASSUME Calm' PROVE OwnReply'
  BY DEF OwnReply
<1>0. Calm /\ ~ Lost
  BY CalmBefore
<1>h. /\ (repeat # ack => pc = "ack")
      /\ pc = "read" /\ expired => sm1 # NoMail
      /\ pc = "ack" => SMstat.repeat = repeat
  BY <1>0 DEF Handshake, Repeating
<1>1. CASE Request
  <2>1. /\ pc = "idle" /\ pc' = "wait" /\ call' = "drain" /\ expired' = TRUE /\ answer' = NoMail
        /\ UNCHANGED <<sm0, sm1, outq, lastread>>
    BY <1>1 DEF Request, slave
  <2>2. sm0 = NoMail /\ NoReply
    BY <1>0, <2>1, NoneYet DEF OwnReply, Awaiting, Receiving
  <2>3. NoReply'
    BY <2>1, <2>2 DEF NoReply, IsReply
  <2> QED BY <2>1, <2>2, <2>3, StillNone DEF Awaiting, Repeating
<1>2. CASE EmptyPoll
  <2>1. /\ pc = "empty" /\ UNCHANGED <<call, req, expired, answer, sm0, sm1, outq, lastread>>
        /\ pc' \in {"empty", "write"}
    BY <1>0, <1>2 DEF EmptyPoll, SendFailed, slave, OwnReply
  <2> QED BY <1>0, <2>1, SameMails DEF OwnReply, Awaiting, Receiving, Repeating
<1>3. CASE Write
  <2>1. /\ pc = "write" /\ sm0 = NoMail /\ answer = NoMail /\ NoReply
    BY <1>0, <1>3, NoneYet DEF Write, OwnReply, Awaiting, Receiving
  <2>2. /\ sm0' = [cnt |-> mbx_cnt, req |-> req] /\ pc' = "wait" /\ call' = "answer"
        /\ expired' = FALSE /\ UNCHANGED <<req, answer, sm1, outq, lastread>>
    BY <1>0, <1>3, <2>1 DEF Write, Unconfirmed
  <2>3. NoReply' /\ sm0'.req = req'
    BY <2>1, <2>2 DEF NoReply, IsReply
  <2> QED BY <2>1, <2>2, <2>3, StillNone DEF Awaiting, Receiving, Repeating
<1>4. CASE WaitAvailable
  <2>1. pc = "wait" /\ UNCHANGED <<call, req, answer, sm0, sm1, outq, lastread>>
    BY <1>4 DEF WaitAvailable, slave
  <2>2. CASE sm1 # NoMail
    <3>1. pc' = "read" /\ expired' = expired
      BY <1>0, <1>4, <2>2 DEF WaitAvailable
    <3> QED BY <1>0, <2>1, <2>2, <3>1, SameMails DEF OwnReply, Awaiting, Receiving, Repeating
  <2>3. CASE sm1 = NoMail /\ ~ expired
    <3>1. pc' = "wait" /\ expired' = expired
      BY <1>0, <1>4, <2>3 DEF WaitAvailable
    <3> QED BY <1>0, <2>1, <3>1, SameMails DEF OwnReply, Awaiting, Receiving, Repeating
  <2>4. CASE sm1 = NoMail /\ expired
    <3>1. call = "drain" /\ ~ Awaiting /\ answer = NoMail
      BY <1>0, <2>1, <2>4 DEF OwnReply, Awaiting, Receiving, BoxType
    <3>2. pc' = "empty" /\ expired' = FALSE
      BY <1>0, <1>4, <2>4, <3>1 DEF WaitAvailable, Received
    <3> QED BY <1>0, <2>1, <3>1, <3>2, SameMails DEF OwnReply, Awaiting, Receiving, Repeating
  <2> QED BY <2>2, <2>3, <2>4
<1>5. CASE ReadMail
  BY <1>0, <1>5, ReadOwn
<1>6. CASE ReadFails
  <2>1. /\ pc = "read" /\ sm1 = NoMail /\ pc' = "toggle"
        /\ UNCHANGED <<call, req, expired, answer, sm0, sm1, outq, lastread>>
    BY <1>0, <1>6 DEF ReadFails
  <2> QED BY <1>0, <2>1, SameMails DEF OwnReply, Awaiting, Receiving, Repeating
<1>7. CASE Toggle
  <2>1. /\ pc = "toggle" /\ pc' = "ack"
        /\ UNCHANGED <<call, req, expired, answer, sm0, sm1, outq, lastread>>
    BY <1>7 DEF Toggle, history
  <2> QED BY <1>0, <2>1, SameMails DEF OwnReply, Awaiting, Receiving, Repeating
<1>8. CASE WaitAck
  <2>1. /\ pc = "ack" /\ pc' \in {"ack", "refill"}
        /\ UNCHANGED <<call, req, expired, answer, sm0, sm1, outq, lastread>>
    BY <1>8 DEF WaitAck, slave
  <2> QED BY <1>0, <2>1, SameMails DEF OwnReply, Awaiting, Receiving, Repeating
<1>9. CASE WaitRefill
  <2>1. pc = "refill" /\ UNCHANGED <<call, req, answer, sm0, sm1, outq, lastread>>
    BY <1>9 DEF WaitRefill, slave
  <2>2. ~ expired
    BY <1>0, <2>1 DEF Handshake, Repeating
  <2>3. pc' \in {"refill", "read"} /\ expired' = expired
    BY <1>0, <1>9, <2>2 DEF WaitRefill, ReadAgain
  <2> QED BY <1>0, <2>1, <2>3, SameMails DEF OwnReply, Awaiting, Receiving, Repeating
<1>10. CASE TakeOrder
  BY <1>0, <1>10, TakeOwn
<1>11. CASE SpeakUp
  <2>1. PICK kind \in Unasked : Produce(kind, 0)
    BY <1>11 DEF SpeakUp
  <2>2. UNCHANGED <<sm0, sm1, lastread, pc, call, req, expired, answer>>
    BY <1>11 DEF SpeakUp, master
  <2>3. kind \in Kinds /\ kind # "reply"
    BY DEF Kinds, Unasked
  <2>4. /\ \A i \in DOMAIN outq' : i \in DOMAIN outq \/ i = Len(outq) + 1
        /\ \A i \in DOMAIN outq : i \in DOMAIN outq' /\ outq'[i] = outq[i]
        /\ outq'[Len(outq) + 1].kind # "reply"
    BY <2>1, <2>3, Produced
  <2>5. \A i \in DOMAIN outq' : IsReply(outq'[i]) => i \in DOMAIN outq /\ IsReply(outq[i])
                                                     /\ outq'[i] = outq[i]
    BY <2>4 DEF IsReply
  <2>6. /\ sm0' # NoMail => Awaiting' /\ sm0'.req = req'
        /\ IsReply(sm1') => Awaiting' /\ sm0' = NoMail /\ sm1'.for = req'
        /\ pc' \in {"empty", "write"} \/ Awaiting' => ~ expired'
        /\ call' = "drain" /\ pc' \in Receiving => expired'
        /\ pc' = "read" => sm1' # NoMail \/ ~ IsReply(lastread')
        /\ pc' \in Repeating => ~ IsReply(lastread')
        /\ answer' # NoMail => pc' = "idle" /\ answer'.kind = "reply" /\ answer'.for = req'
    BY <1>0, <2>2 DEF OwnReply, Awaiting, IsReply
  <2>7. IsReply(sm1') => \A i \in DOMAIN outq' : ~ IsReply(outq'[i])
    BY <1>0, <2>2, <2>5 DEF OwnReply, IsReply
  <2>8. \A i \in DOMAIN outq' : IsReply(outq'[i]) =>
          /\ Awaiting' /\ sm0' = NoMail /\ outq'[i].for = req' /\ ~ IsReply(sm1')
          /\ \A j \in DOMAIN outq' : IsReply(outq'[j]) => j = i
    BY <1>0, <2>2, <2>5 DEF OwnReply, Awaiting, IsReply
  <2> QED BY <2>6, <2>7, <2>8 DEF OwnReply, IsReply
<1>12. CASE PutMail
  <2>1. /\ sm1 = NoMail /\ sm1' = outq[1] /\ 1 \in DOMAIN outq
        /\ \A i \in DOMAIN outq' : i \in Nat \ {0} /\ i + 1 \in DOMAIN outq
                                    /\ outq'[i] = outq[i + 1]
        /\ UNCHANGED <<sm0, lastread, pc, call, req, expired, answer>>
    BY <1>12, Put DEF master
  <2>2. /\ sm0' # NoMail => Awaiting' /\ sm0'.req = req'
        /\ pc' \in {"empty", "write"} \/ Awaiting' => ~ expired'
        /\ call' = "drain" /\ pc' \in Receiving => expired'
        /\ pc' = "read" => ~ IsReply(lastread')
        /\ pc' \in Repeating => ~ IsReply(lastread')
        /\ answer' # NoMail => pc' = "idle" /\ answer'.kind = "reply" /\ answer'.for = req'
    BY <1>0, <2>1 DEF OwnReply, Awaiting, IsReply
  <2>3. \A i \in DOMAIN outq : IsReply(outq[i]) =>
          /\ Awaiting' /\ sm0' = NoMail /\ outq[i].for = req'
          /\ \A j \in DOMAIN outq : IsReply(outq[j]) => j = i
    BY <1>0, <2>1 DEF OwnReply, Awaiting
  <2>4. IsReply(sm1') => /\ Awaiting' /\ sm0' = NoMail /\ sm1'.for = req'
                         /\ \A i \in DOMAIN outq' : ~ IsReply(outq'[i])
    <3>1. \A i \in DOMAIN outq' : i + 1 # 1
      BY <2>1
    <3> QED BY <2>1, <2>3, <3>1 DEF IsReply
  <2>5. \A i \in DOMAIN outq' : IsReply(outq'[i]) =>
          /\ Awaiting' /\ sm0' = NoMail /\ outq'[i].for = req' /\ ~ IsReply(sm1')
          /\ \A j \in DOMAIN outq' : IsReply(outq'[j]) => j = i
    <3>1. \A i, j \in DOMAIN outq' : i + 1 = j + 1 => i = j
      BY <2>1
    <3> QED BY <2>1, <2>3, <2>4, <3>1 DEF IsReply
  <2> QED BY <2>2, <2>4, <2>5 DEF OwnReply, IsReply
<1>13. CASE Repeat
  <2>1. pc = "ack" /\ UNCHANGED <<sm0, pc, call, req, expired, answer>>
    BY <1>h, <1>13, PutBack DEF master
  <2>2. ~ IsReply(lastread) /\ ~ IsReply(lastread') /\ answer = NoMail
    BY <1>0, <1>13, <2>1, PutBack DEF OwnReply, Repeating, IsReply
  <2>3. CASE UNCHANGED <<sm1, outq, lastread>>
    BY <1>0, <2>1, <2>2, <2>3, SameMails DEF OwnReply, Awaiting, Receiving, Repeating
  <2>4. CASE sm1' = lastread /\ sm1 = NoMail /\ outq' = outq
    <3>1. ~ IsReply(sm1')
      BY <2>2, <2>4 DEF IsReply
    <3> QED BY <1>0, <2>1, <2>2, <2>4, <3>1 DEF OwnReply, Awaiting, Receiving, Repeating, IsReply
  <2>5. CASE /\ sm1' = lastread /\ outq'[1] = sm1
             /\ \A i \in DOMAIN outq' :
                  i \in Nat /\ (i = 1 \/ (i - 1 \in DOMAIN outq /\ outq'[i] = outq[i - 1]))
    <3>1. ~ IsReply(sm1')
      BY <2>2, <2>5 DEF IsReply
    <3>2. \A i \in DOMAIN outq : IsReply(outq[i]) =>
            /\ Awaiting' /\ sm0' = NoMail /\ outq[i].for = req' /\ ~ IsReply(sm1)
            /\ \A j \in DOMAIN outq : IsReply(outq[j]) => j = i
      BY <1>0, <2>1 DEF OwnReply, Awaiting
    <3>3. \A i, j \in DOMAIN outq' : i - 1 = j - 1 => i = j
      BY <2>5
    <3>4. \A i \in DOMAIN outq' : IsReply(outq'[i]) =>
            /\ Awaiting' /\ sm0' = NoMail /\ outq'[i].for = req'
      BY <1>0, <2>1, <2>5, <3>2 DEF OwnReply, Awaiting, IsReply
    <3>5. \A i, j \in DOMAIN outq' : IsReply(outq'[i]) /\ IsReply(outq'[j]) => j = i
      <4>1. IsReply(sm1) => \A i \in DOMAIN outq : ~ IsReply(outq[i])
        BY <3>2
      <4> QED BY <2>5, <3>2, <3>3, <4>1
    <3> QED BY <1>0, <2>1, <2>2, <3>1, <3>4, <3>5 DEF OwnReply, Awaiting, Receiving, Repeating, IsReply
  <2> QED BY <1>13, <2>3, <2>4, <2>5, PutBack
<1>14. CASE Expire
  BY <1>14 DEF Expire, Calm
<1>15. CASE UNCHANGED mailboxVars
  BY <1>0, <1>15, SameMails DEF mailboxVars, master, slave, OwnReply, Awaiting, Receiving, Repeating
<1> QED
  BY <1>1, <1>2, <1>3, <1>4, <1>5, <1>6, <1>7, <1>8, <1>9, <1>10, <1>11, <1>12, <1>13, <1>14,
     <1>15, Steps

-----------------------------------------------------------------------------
(* The mails are numbered in their order.                                  *)

LEMMA FirstIs ==
  ASSUME BoxType
  PROVE  /\ mails \in Nat /\ Len(outq) \in Nat /\ First \in Int
         /\ sm1 = NoMail => First = mails + 1 - Len(outq)
         /\ sm1 # NoMail => First = mails - Len(outq)
<1>1. mails \in Nat /\ Len(outq) \in Nat
  BY DEF BoxType
<1> QED BY <1>1, SMT DEF First

LEMMA IsMail == \A mail \in AnyMail : mail # NoMail /\ mail.id \in Nat
BY MailboxAssumption DEF MailboxAssumption, AnyMail

\* A mail is numbered as the one that comes next in the queue, in the mailbox or
\* kept for a repeat.
LEMMA Numbers ==
  ASSUME BoxType, Numbered
  PROVE  /\ \A i \in DOMAIN outq : i \in Nat /\ outq[i].id = mails - Len(outq) + i
         /\ sm1 # NoMail => sm1.id = First
         /\ lastread # NoMail => lastread.id = First - 1 /\ lastread.id \in Nat
<1>1. \A i \in DOMAIN outq : i \in Nat /\ outq[i].id = mails - Len(outq) + i
  BY DEF Numbered, BoxType
<1>2. sm1 # NoMail => sm1.id = First
  BY FirstIs DEF Numbered
<1>3. lastread # NoMail => lastread \in AnyMail /\ lastread.id = First - 1
  BY DEF Numbered, BoxType
<1> QED BY <1>1, <1>2, <1>3, IsMail

\* Mails rest.
LEMMA NumbersRest ==
  ASSUME Numbered, UNCHANGED <<sm1, outq, lastread, mails>>
  PROVE  Numbered' /\ First' = First
BY DEF Numbered, First

LEMMA NumbersProduced ==
  ASSUME BoxType, BoxType', Numbered, NEW kind \in Kinds, NEW for \in Nat, Produce(kind, for),
         UNCHANGED <<sm1, lastread>>
  PROVE  Numbered' /\ First' = First
<1>1. /\ mails' = mails + 1 /\ Len(outq') = Len(outq) + 1
      /\ \A i \in DOMAIN outq : outq'[i] = outq[i]
      /\ outq'[Len(outq) + 1].id = mails + 1
      /\ \A i \in DOMAIN outq' : i \in DOMAIN outq \/ i = Len(outq) + 1
  BY Produced
<1>2. mails' - Len(outq') = mails - Len(outq) /\ mails \in Nat /\ Len(outq) \in Nat
  BY <1>1, FirstIs
<1>3. First' = First
  BY <1>1, <1>2, FirstIs, SMT DEF First
<1>4. ASSUME NEW i \in DOMAIN outq'
      PROVE  outq'[i].id = mails' - Len(outq') + i
  <2>1. CASE i \in DOMAIN outq
    BY <1>1, <1>2, <2>1 DEF Numbered
  <2>2. CASE i = Len(outq) + 1
    BY <1>1, <1>2, <2>2
  <2> QED BY <1>1, <2>1, <2>2
<1> QED BY <1>2, <1>3, <1>4 DEF Numbered

\* The slave's mailbox was read.
LEMMA NumbersEmptied ==
  ASSUME BoxType, Numbered, Emptied, sm1 # NoMail, UNCHANGED <<outq, mails>>
  PROVE  Numbered' /\ First' = First + 1 /\ lastread' = sm1 /\ sm1.id = First /\ First \in Nat
<1>1. sm1' = NoMail /\ lastread' = sm1
  BY DEF Emptied
<1>2. /\ sm1.id = First /\ First = mails - Len(outq) /\ mails \in Nat /\ Len(outq) \in Nat
      /\ 1 <= First
  BY Numbers, FirstIs DEF Numbered
<1>3. First' = mails + 1 - Len(outq)
  BY <1>1, <1>2 DEF First
<1>4. First' = First + 1 /\ First \in Nat /\ 1 <= First' /\ First' - 1 = First
  BY <1>2, <1>3, SMT
<1> QED BY <1>1, <1>2, <1>4 DEF Numbered

LEMMA NumbersPut ==
  ASSUME BoxType, Numbered, PutMail
  PROVE  Numbered' /\ First' = First
<1>1. /\ sm1 = NoMail /\ sm1' = outq[1] /\ sm1' \in AnyMail /\ 1 \in DOMAIN outq
      /\ Len(outq') = Len(outq) - 1
      /\ \A i \in DOMAIN outq' : i \in Nat \ {0} /\ i + 1 \in DOMAIN outq
                                  /\ outq'[i] = outq[i + 1]
      /\ mails' = mails /\ lastread' = lastread
  BY Put
<1>2. sm1' # NoMail /\ mails \in Nat /\ Len(outq) \in Nat /\ First = mails + 1 - Len(outq)
  BY <1>1, IsMail, FirstIs
<1>3. First' = mails - (Len(outq) - 1)
  BY <1>1, <1>2 DEF First
<1>4. First' = First
  BY <1>2, <1>3, SMT
<1>5. sm1'.id = mails' - Len(outq')
  <2>1. outq[1].id = mails - Len(outq) + 1
    BY <1>1 DEF Numbered
  <2>2. mails' - Len(outq') = mails - Len(outq) + 1
    BY <1>1, <1>2
  <2> QED BY <1>1, <2>1, <2>2
<1>6. ASSUME NEW i \in DOMAIN outq'
      PROVE  outq'[i].id = mails' - Len(outq') + i
  <2>1. i \in Nat /\ outq'[i].id = mails - Len(outq) + (i + 1)
    BY <1>1 DEF Numbered
  <2> QED BY <1>1, <1>2, <2>1
<1> QED BY <1>1, <1>4, <1>5, <1>6 DEF Numbered

\* A mail goes back: the one before comes next again.
LEMMA NumbersBack ==
  ASSUME BoxType, Numbered, Repeat
  PROVE  /\ Numbered'
         /\ \/ First' = First /\ lastread = NoMail /\ lastread' = NoMail
            \/ First' = First - 1 /\ lastread # NoMail /\ lastread' = NoMail
<1>0. mails' = mails /\ mails \in Nat /\ Len(outq) \in Nat /\ First \in Int
  BY PutBack, FirstIs
<1>1. CASE lastread = NoMail /\ UNCHANGED <<sm1, outq, lastread>>
  BY <1>0, <1>1, NumbersRest
<1>2. CASE lastread # NoMail /\ sm1' = lastread /\ lastread' = NoMail
  <2>0. lastread.id = First - 1 /\ 1 <= lastread.id /\ lastread.id \in Nat
    BY <1>2, Numbers DEF Numbered
  <2>1. CASE sm1 = NoMail /\ outq' = outq
    <3>1. First = mails + 1 - Len(outq)
      BY <2>1, FirstIs
    <3>2. First' = mails - Len(outq)
      BY <1>0, <1>2, <2>1 DEF First
    <3>3. First' = First - 1 /\ 1 <= First' /\ sm1'.id = mails' - Len(outq')
      BY <1>0, <1>2, <2>0, <2>1, <3>1, <3>2
    <3> QED BY <1>0, <1>2, <2>1, <3>3 DEF Numbered
  <2>2. CASE /\ sm1 # NoMail /\ Len(outq') = Len(outq) + 1 /\ outq'[1] = sm1
             /\ \A i \in DOMAIN outq' : i \in Nat
                   /\ (i = 1 \/ (i - 1 \in DOMAIN outq /\ outq'[i] = outq[i - 1]))
    <3>1. First = mails - Len(outq) /\ sm1.id = First
      BY <2>2, FirstIs, Numbers
    <3>2. First' = mails - (Len(outq) + 1)
      BY <1>0, <1>2, <2>2 DEF First
    <3>3. First' = First - 1 /\ 1 <= First' /\ sm1'.id = mails' - Len(outq')
      BY <1>0, <1>2, <2>0, <2>2, <3>1, <3>2
    <3>4. ASSUME NEW i \in DOMAIN outq'
          PROVE  outq'[i].id = mails' - Len(outq') + i
      <4>1. CASE i = 1
        BY <1>0, <2>2, <3>1, <4>1
      <4>2. CASE i - 1 \in DOMAIN outq /\ outq'[i] = outq[i - 1]
        <5>1. i \in Nat /\ outq'[i].id = mails - Len(outq) + (i - 1)
          BY <2>2, <4>2 DEF Numbered
        <5> QED BY <1>0, <2>2, <5>1
      <4> QED BY <2>2, <4>1, <4>2
    <3> QED BY <1>2, <3>3, <3>4 DEF Numbered
  <2> QED BY <1>2, <2>1, <2>2, PutBack
<1> QED BY <1>1, <1>2, PutBack

\* The steps by which no mail moves.
LEMMA MailsRest ==
  ASSUME BoxType, [MailboxNext]_mailboxVars
  PROVE  \/ ReadMail \/ (ReadFails /\ sm1 # NoMail /\ Emptied) \/ TakeOrder \/ SpeakUp \/ PutMail
         \/ Repeat \/ UNCHANGED <<sm1, outq, lastread, mails>>
BY Steps DEF Request, EmptyPoll, Write, WaitAvailable, ReadFails, Toggle, WaitAck, WaitRefill,
             Expire, mailboxVars, slave

LEMMA NumberedKept ==
  ASSUME BoxType, BoxType', Numbered, [MailboxNext]_mailboxVars
  PROVE  Numbered'
<1>1. CASE ReadMail \/ (ReadFails /\ sm1 # NoMail /\ Emptied)
  BY <1>1, NumbersEmptied DEF ReadMail, ReadFails
<1>2. CASE TakeOrder
  <2>1. UNCHANGED <<sm1, lastread>> /\ sm0.req \in Nat
    BY <1>2 DEF TakeOrder, BoxType, AnyOrder
  <2>2. CASE UNCHANGED <<outq, mails>>
    BY <2>1, <2>2, NumbersRest
  <2>3. CASE \E kind \in {"reply", "error"} : Produce(kind, sm0.req)
    BY <2>1, <2>3, NumbersProduced DEF Kinds
  <2> QED BY <1>2, <2>2, <2>3 DEF TakeOrder
<1>3. CASE SpeakUp
  BY <1>3, NumbersProduced DEF SpeakUp, Kinds
<1>4. CASE PutMail
  BY <1>4, NumbersPut
<1>5. CASE Repeat
  BY <1>5, NumbersBack
<1>6. CASE UNCHANGED <<sm1, outq, lastread, mails>>
  BY <1>6, NumbersRest
<1> QED BY <1>1, <1>2, <1>3, <1>4, <1>5, <1>6, MailsRest

-----------------------------------------------------------------------------
(* With one loss, and no haste, no mail is skipped.                        *)

Taken == handled \union forgone

\* NoneSkipped without its condition.
AllTaken ==
  /\ 1 .. latest \subseteq Taken
  /\ \A id \in 1 .. First - 1 : id \in Taken \/ (lastread # NoMail /\ id = lastread.id)
  /\ Unread(lastread) =>
       /\ losses = 1 /\ ~ expired /\ SMstat.repeat = repeat
       /\ \/ pc = "toggle" /\ repeat = ack
          \/ pc = "ack" /\ repeat # ack

LEMMA NoneSkippedIs == NoneSkipped <=> (losses <= 1 /\ ~ hurried => AllTaken)
BY DEF NoneSkipped, AllTaken, Taken

\* Nothing is taken, and the repeat that is asked for is as far as before.
LEMMA TakenRest ==
  ASSUME AllTaken, UNCHANGED <<handled, forgone, latest>>, lastread' = lastread,
         First' = First,
         Unread(lastread) =>
           UNCHANGED <<losses, expired, SMstat, repeat, ack, pc>>
  PROVE  AllTaken'
BY DEF AllTaken, Taken, Unread

LEMMA TakenRead ==
  ASSUME BoxType, Numbered, AllTaken, ReadMail
  PROVE  AllTaken'
<1>1. /\ pc = "read" /\ sm1 # NoMail /\ UNCHANGED <<outq, mails, forgone>>
      /\ handled' = handled \union {sm1.id} /\ latest' = sm1.id /\ Emptied
  BY DEF ReadMail
<1>2. First' = First + 1 /\ lastread' = sm1 /\ sm1.id = First /\ First \in Nat
  BY <1>1, NumbersEmptied
<1>3. \A id \in 1 .. First - 1 : id \in Taken
  BY <1>1 DEF AllTaken, Unread, Taken
<1>4. Taken' = Taken \union {First}
  BY <1>1, <1>2 DEF Taken
<1>5. \A id \in 1 .. First : id \in Taken'
  <2>1. \A id \in 1 .. First : id \in 1 .. First - 1 \/ id = First
    BY <1>2, SMT
  <2> QED BY <1>3, <1>4, <2>1
<1>6. First' - 1 = First
  BY <1>2, SMT
<1>7. ~ Unread(lastread)'
  BY <1>1, <1>2, <1>4 DEF Unread, Taken
<1> QED BY <1>1, <1>2, <1>5, <1>6, <1>7 DEF AllTaken

LEMMA TakenLost ==
  ASSUME BoxType, Handshake, Numbered, AllTaken, ReadFails, sm1 # NoMail, Emptied,
         losses' <= 1, ~ hurried
  PROVE  AllTaken'
<1>1. /\ pc = "read" /\ pc' = "toggle" /\ Lost
      /\ UNCHANGED <<outq, mails, handled, latest, SMstat, expired, repeat, ack>>
      /\ forgone' = IF expired THEN forgone \union {sm1.id} ELSE forgone
  <2>1. sm1' # sm1
    BY DEF Emptied
  <2> QED BY <2>1 DEF ReadFails
<1>2. First' = First + 1 /\ lastread' = sm1 /\ sm1.id = First /\ First \in Nat
  BY <1>1, NumbersEmptied
<1>3. \A id \in 1 .. First - 1 : id \in Taken
  BY <1>1 DEF AllTaken, Unread, Taken
<1>4. Taken \subseteq Taken' /\ (expired => First \in Taken')
  BY <1>1, <1>2 DEF Taken
<1>5. \A id \in 1 .. First' - 1 : id \in Taken' \/ (lastread' # NoMail /\ id = lastread'.id)
  <2>1. \A id \in 1 .. First' - 1 : id \in 1 .. First - 1 \/ id = First
    BY <1>2, SMT
  <2> QED BY <1>2, <1>3, <1>4, <2>1
<1>6. losses = 0 /\ losses' = 1
  <2>1. losses \in Nat /\ losses' = losses + 1
    BY <1>1, LostOne DEF BoxType
  <2> QED BY <2>1, SMT
<1>7. SMstat.repeat = repeat /\ repeat = ack
  BY <1>1, <1>6 DEF Handshake, Calm
<1>8. Unread(lastread)' => ~ expired
  BY <1>2, <1>4 DEF Unread, Taken
<1>9. 1 .. latest' \subseteq Taken'
  BY <1>1, <1>4 DEF AllTaken
<1> QED BY <1>1, <1>5, <1>6, <1>7, <1>8, <1>9 DEF AllTaken

LEMMA TakenBack ==
  ASSUME BoxType, Numbered, AllTaken, Repeat
  PROVE  AllTaken'
<1>1. UNCHANGED <<handled, forgone, latest>> /\ Taken' = Taken
  BY DEF Repeat, master, history, Taken
<1>2. CASE First' = First /\ lastread = NoMail /\ lastread' = NoMail
  BY <1>1, <1>2 DEF AllTaken, Unread
<1>3. CASE First' = First - 1 /\ lastread # NoMail /\ lastread' = NoMail
  <2>1. lastread.id = First - 1 /\ First \in Int
    BY <1>3, Numbers, FirstIs
  <2>2. \A id \in 1 .. First' - 1 : id \in 1 .. First - 1 /\ id # First - 1
    BY <1>3, <2>1, SMT
  <2>3. \A id \in 1 .. First' - 1 : id \in Taken'
    BY <1>1, <2>1, <2>2 DEF AllTaken
  <2> QED BY <1>1, <1>3, <2>3 DEF AllTaken, Unread
<1> QED BY <1>2, <1>3, NumbersBack

LEMMA NoneSkippedKept ==
  ASSUME BoxType, BoxType', Handshake, Numbered, NoneSkipped, [MailboxNext]_mailboxVars
  PROVE  NoneSkipped'
<1> SUFFICES ASSUME losses' <= 1, ~ hurried' PROVE AllTaken'
  BY NoneSkippedIs DEF NoneSkipped, AllTaken, Taken
<1>0. losses <= 1 /\ ~ hurried /\ AllTaken
  <2>1. losses \in Nat /\ losses' \in Nat /\ losses <= losses' /\ (hurried => hurried')
    BY WorseOnly DEF BoxType
  <2>2. losses <= 1
    BY <2>1, SMT
  <2> QED BY <2>1, <2>2, NoneSkippedIs
<1>l. Unread(lastread) => losses' = losses /\ ~ Lost
  <2>1. Unread(lastread) => losses = 1
    BY <1>0 DEF AllTaken
  <2>2. losses' # losses => losses' = losses + 1
    BY WorseOnly
  <2>3. Unread(lastread) => losses' = losses
    BY <2>1, <2>2, SMT
  <2>4. Unread(lastread) => ~ Lost
    BY <2>1, LostOne, SMT
  <2> QED BY <2>3, <2>4
<1>u. Unread(lastread) => pc \in {"toggle", "ack"}
  BY <1>0 DEF AllTaken
<1>f. UNCHANGED <<sm1, outq, lastread, mails>> => First' = First
  BY DEF First
<1>1. CASE Request
  <2>1. UNCHANGED <<handled, forgone, latest, sm1, outq, lastread, mails>> /\ pc = "idle"
    BY <1>1 DEF Request, history, slave
  <2> QED BY <1>0, <1>u, <1>f, <2>1, TakenRest
<1>2. CASE EmptyPoll \/ Write
  <2>1. UNCHANGED <<handled, forgone, latest, sm1, outq, lastread, mails>>
        /\ pc \in {"empty", "write"}
    BY <1>2 DEF EmptyPoll, Write, history, slave
  <2> QED BY <1>0, <1>u, <1>f, <2>1, TakenRest
<1>3. CASE WaitAvailable \/ WaitRefill
  <2>1. UNCHANGED <<handled, forgone, latest, sm1, outq, lastread, mails>>
        /\ pc \in {"wait", "refill"}
    BY <1>3 DEF WaitAvailable, WaitRefill, history, slave
  <2> QED BY <1>0, <1>u, <1>f, <2>1, TakenRest
<1>4. CASE ReadMail
  BY <1>0, <1>4, TakenRead
<1>5. CASE ReadFails /\ sm1 # NoMail /\ Emptied
  BY <1>0, <1>5, TakenLost
<1>6. CASE ReadFails /\ ~ (sm1 # NoMail /\ Emptied)
  <2>1. UNCHANGED <<handled, forgone, latest, sm1, outq, lastread, mails>> /\ pc = "read"
    BY <1>6 DEF ReadFails
  <2> QED BY <1>0, <1>u, <1>f, <2>1, TakenRest
<1>7. CASE Toggle
  <2>1. /\ UNCHANGED <<handled, forgone, latest, sm1, outq, lastread, mails, ack, expired>>
        /\ pc = "toggle" /\ pc' = "ack" /\ SMstat' = [SMstat EXCEPT !.repeat = ~ @]
        /\ SMstat \in [full : BOOLEAN, repeat : BOOLEAN] /\ ack \in BOOLEAN
        /\ ~ Lost => repeat' = ~ SMstat.repeat
    BY <1>7 DEF Toggle, history, BoxType
  <2>2. CASE ~ Unread(lastread)
    BY <1>0, <1>f, <2>1, <2>2, TakenRest
  <2>3. CASE Unread(lastread)
    <3>1. /\ losses' = 1 /\ ~ expired /\ SMstat.repeat = repeat /\ repeat = ack
          /\ repeat' = ~ SMstat.repeat
      BY <1>0, <1>l, <2>1, <2>3 DEF AllTaken
    <3>2. SMstat'.repeat = ~ SMstat.repeat
      BY <2>1
    <3>3. SMstat'.repeat = repeat' /\ repeat' # ack'
      BY <2>1, <3>1, <3>2
    <3>4. expired' = expired /\ lastread' = lastread /\ Taken' = Taken /\ latest' = latest
      BY <2>1 DEF Taken
    <3>5. 1 .. latest' \subseteq Taken'
          /\ \A id \in 1 .. First' - 1 :
               id \in Taken' \/ (lastread' # NoMail /\ id = lastread'.id)
      BY <1>0, <1>f, <2>1, <3>4 DEF AllTaken
    <3> QED BY <2>1, <3>1, <3>3, <3>4, <3>5 DEF AllTaken
  <2> QED BY <2>2, <2>3
<1>8. CASE WaitAck
  <2>1. /\ UNCHANGED <<handled, forgone, latest, sm1, outq, lastread, mails, SMstat, repeat, ack,
                       expired>>
        /\ pc = "ack"
        /\ ~ Lost => pc' = IF ack = SMstat.repeat \/ expired THEN "refill" ELSE "ack"
    BY <1>8 DEF WaitAck, history, slave
  <2>2. Unread(lastread) => pc' = pc /\ losses' = losses
    BY <1>0, <1>l, <2>1 DEF AllTaken
  <2> QED BY <1>0, <1>f, <2>1, <2>2, TakenRest
<1>9. CASE TakeOrder
  <2>1. UNCHANGED <<sm1, lastread, handled, forgone, latest, losses, expired, SMstat, repeat, ack,
                    pc>>
        /\ sm0.req \in Nat
    BY <1>9 DEF TakeOrder, master, history, BoxType, AnyOrder
  <2>2. First' = First
    <3>1. CASE UNCHANGED <<outq, mails>>
      BY <1>f, <2>1, <3>1
    <3>2. CASE \E kind \in {"reply", "error"} : Produce(kind, sm0.req)
      BY <2>1, <3>2, NumbersProduced DEF Kinds
    <3> QED BY <1>9, <3>1, <3>2 DEF TakeOrder
  <2> QED BY <1>0, <2>1, <2>2, TakenRest
<1>10. CASE SpeakUp
  <2>1. UNCHANGED <<sm1, lastread, handled, forgone, latest, losses, expired, SMstat, repeat, ack,
                    pc>>
    BY <1>10 DEF SpeakUp, master, history
  <2>2. First' = First
    BY <1>10, <2>1, NumbersProduced DEF SpeakUp, Kinds
  <2> QED BY <1>0, <2>1, <2>2, TakenRest
<1>11. CASE PutMail
  <2>1. UNCHANGED <<lastread, handled, forgone, latest, losses, expired, SMstat, repeat, ack, pc>>
    BY <1>11 DEF PutMail, master, history
  <2> QED BY <1>0, <1>11, <2>1, NumbersPut, TakenRest
<1>12. CASE Repeat
  BY <1>0, <1>12, TakenBack
<1>13. CASE Expire
  BY <1>13 DEF Expire
<1>14. CASE UNCHANGED mailboxVars
  <2>1. UNCHANGED <<sm1, outq, lastread, mails, handled, forgone, latest, losses, expired, SMstat,
                    repeat, ack, pc>>
    BY <1>14 DEF mailboxVars, master, slave
  <2> QED BY <1>0, <1>f, <2>1, TakenRest
<1> QED
  BY <1>1, <1>2, <1>3, <1>4, <1>5, <1>6, <1>7, <1>8, <1>9, <1>10, <1>11, <1>12, <1>13, <1>14,
     Steps

-----------------------------------------------------------------------------
(* The invariant and what follows from it.                                 *)

LEMMA BoxInvInitially == MailboxInit => BoxInv
<1> SUFFICES ASSUME MailboxInit PROVE BoxInv
  OBVIOUS
<1>0. << >> \in Seq(AnyMail) /\ << >> \in Seq(Nat) /\ Len(<< >>) = 0 /\ DOMAIN << >> = {}
  BY EmptySeq
<1>1. /\ sm0 = NoMail /\ sm1 = NoMail /\ lastread = NoMail /\ answer = NoMail
      /\ outq = << >> /\ Len(outq) = 0 /\ DOMAIN outq = {}
      /\ executed = << >> /\ Len(executed) = 0
      /\ pc = "idle" /\ call = "drain" /\ req = 0 /\ mbx_cnt = 0 /\ lastcnt = 0 /\ mails = 0
      /\ losses = 0 /\ latest = 0 /\ repeat = ack
  BY <1>0 DEF MailboxInit
<1>2. BoxType
  <2>1. SMstat \in [full : BOOLEAN, repeat : BOOLEAN] /\ expired = FALSE /\ hurried = FALSE
        /\ repeat = FALSE /\ ack = FALSE
    BY DEF MailboxInit
  <2> QED BY <1>0, <1>1, <2>1 DEF BoxType
<1>3. Orderly
  <2>1. Last = 0 /\ RequestOnce
    BY <1>1, SMT DEF Last, RequestOnce
  <2> QED BY <1>1, <2>1 DEF Orderly, Receiving
<1>4. Handshake
  BY <1>1 DEF Handshake, Repeating
<1>5. OwnReply
  BY <1>1 DEF OwnReply, Awaiting, IsReply, Receiving, Repeating
<1>6. First = 1
  BY <1>1 DEF First
<1>7. Numbered
  BY <1>1, <1>6 DEF Numbered
<1>8. NoneSkipped
  <2>1. 1 .. latest = {} /\ 1 .. First - 1 = {}
    BY <1>1, <1>6, SMT
  <2> QED BY <1>1, <2>1 DEF NoneSkipped, Unread
<1> QED BY <1>2, <1>3, <1>4, <1>5, <1>7, <1>8 DEF BoxInv

\* The inductive invariant of the mailbox holds, whatever is lost or late.
THEOREM BoxInvariant == MailboxSpec => []BoxInv
<1>1. MailboxInit => BoxInv
  BY BoxInvInitially
<1>2. BoxInv /\ [MailboxNext]_mailboxVars => BoxInv'
  BY MailTypes, OrderlyKept, HandshakeKept, OwnReplyKept, NumberedKept, NoneSkippedKept DEF BoxInv
<1> QED BY <1>1, <1>2, PTL DEF MailboxSpec

\* A slave carries out no request twice and none after a later one, whatever
\* datagrams of ecx_mbxsend and ecx_mbxreceive are lost or late and however
\* often the counter of ec_nextmbxcnt has wrapped.
THEOREM RequestOnceAlways == MailboxSpec => []RequestOnce
<1>1. BoxInv => RequestOnce
  BY DEF BoxInv, Orderly
<1> QED BY <1>1, BoxInvariant, PTL

\* Without loss or haste the client's answer is that to its own request, however
\* many emergencies, fragments and errors come between.
THEOREM AnswerIsOwnAlways == MailboxSpec => []AnswerIsOwn
<1>1. BoxInv => AnswerIsOwn
  BY DEF BoxInv, OwnReply, Calm, AnswerIsOwn
<1> QED BY <1>1, BoxInvariant, PTL

\* One lost datagram, where no timer runs out, makes the master skip no mail: the
\* repeat request brings back the mail whose read was lost before any other.
THEOREM NoMailSkippedAlways == MailboxSpec => []NoMailSkipped
<1>1. BoxInv => NoMailSkipped
  BY DEF BoxInv, NoneSkipped, NoMailSkipped
<1> QED BY <1>1, BoxInvariant, PTL

-----------------------------------------------------------------------------
(* The error list.                                                         *)

\* The invariant that the refinement rests on.
ListInv == TypeOK /\ SignalsPending /\ FlagCoversList

USE ListAssumption

\* Positions are indices of the ring, and at most EC_MAXELIST are in use.
LEMMA PositionsFit ==
  ASSUME TypeOK
  PROVE  /\ Count \in 0 .. MaxElist
         /\ \A i \in 1 .. Count : Slot(i) \in Indices
         /\ Count = 0 <=> head = tail
BY DEF TypeOK, Count, Slot, Indices

\* No position is in use when head and tail meet.
LEMMA CountZero == TypeOK => (Count = 0 <=> head = tail)
BY PositionsFit

\* The flag covers the list exactly when it is up while head and tail differ.
LEMMA EmptyPending ==
  TypeOK => (Pending = << >> <=> head = tail)
<1> SUFFICES ASSUME TypeOK PROVE Pending = << >> <=> head = tail
  OBVIOUS
<1>1. Count \in Nat /\ (Count = 0 <=> head = tail)
  BY PositionsFit
<1>2. Pending = << >> <=> Count = 0
  BY <1>1 DEF Pending
<1> QED
  BY <1>1, <1>2

\* The reports not yet read are a sequence of reports.
LEMMA PendingReports ==
  TypeOK /\ SignalsPending => Pending \in Seq(Reports) /\ Len(Pending) = Count
<1> SUFFICES ASSUME TypeOK, SignalsPending
             PROVE  Pending \in Seq(Reports) /\ Len(Pending) = Count
  OBVIOUS
<1>1. Count \in Nat
  BY PositionsFit
<1>2. \A i \in 1 .. Count : Error[Slot(i)] \in Reports
  BY PositionsFit DEF TypeOK, SignalsPending
<1> QED
  BY <1>1, <1>2 DEF Pending

\* Every reporter pushes a report.
LEMMA ReportPushes ==
  ASSUME NEW sl \in Slaves, Report(sl)
  PROVE  \E e \in Reports : ecx_pusherror(e)
BY DEF Report, ecx_packeterror, ecx_mbxerror, ecx_mbxemergencyerror,
       ecx_SDOerror, ecx_SDOinfoerror, ecx_SoEerror, Reports, Etypes

\* Every variable keeps its type.
LEMMA TypeStep ==
  ASSUME TypeOK, [Next]_vars
  PROVE  TypeOK'
<1>1. ASSUME NEW e \in Reports, ecx_pusherror(e)
      PROVE  TypeOK'
  BY <1>1 DEF TypeOK, ecx_pusherror, NextTail, Advance, Indices
<1>2. ASSUME ecx_poperror
      PROVE  TypeOK'
  BY <1>2 DEF TypeOK, ecx_poperror, ecx_iserror, Advance, Indices
<1>3. CASE UNCHANGED vars
  BY <1>3 DEF TypeOK, vars
<1> QED
  BY <1>1, <1>2, <1>3, ReportPushes DEF Next, ecx_elist2string

\* A push into a ring that is not full adds a position at the end.
LEMMA PushAdds ==
  ASSUME TypeOK, NEW e \in Reports, ecx_pusherror(e), Advance(head) # tail
  PROVE  /\ Count < MaxElist
         /\ Count' = Count + 1
         /\ \A i \in 1 .. Count : Slot(i)' = Slot(i) /\ Slot(i) # head
         /\ Slot(Count)' = head
<1> USE DEF Indices
<1>1. head \in Indices /\ tail \in Indices
  BY DEF TypeOK
<1>2. head' = Advance(head) /\ tail' = tail
  BY DEF ecx_pusherror, NextTail
<1> QED
  BY <1>1, <1>2 DEF Count, Slot, Advance

\* A push into a full ring takes one position from the front.
LEMMA PushDrops ==
  ASSUME TypeOK, NEW e \in Reports, ecx_pusherror(e), Advance(head) = tail
  PROVE  /\ Count = MaxElist
         /\ Count' = Count
         /\ \A i \in 1 .. Count - 1 : Slot(i)' = Slot(i + 1) /\ Slot(i + 1) # head
         /\ Slot(Count)' = head
<1> USE DEF Indices
<1>1. head \in Indices /\ tail \in Indices
  BY DEF TypeOK
<1>2. head' = tail /\ tail' = Advance(tail)
  BY DEF ecx_pusherror, NextTail
<1> QED
  BY <1>1, <1>2 DEF Count, Slot, Advance

\* A pop takes one position from the front.
LEMMA PopTakes ==
  ASSUME TypeOK, ecx_poperror, head # tail
  PROVE  /\ Count > 0
         /\ Count' = Count - 1
         /\ \A i \in 1 .. Count - 1 : Slot(i)' = Slot(i + 1) /\ Slot(i + 1) # tail
         /\ Slot(1) = tail
<1> USE DEF Indices
<1>1. head \in Indices /\ tail \in Indices
  BY DEF TypeOK
<1>2. head' = head /\ tail' = Advance(tail)
  BY DEF ecx_poperror, ecx_iserror
<1> QED
  BY <1>1, <1>2 DEF Count, Slot, Advance

\* Pushes and pops are steps of the list.
LEMMA PushIsStep ==
  ASSUME NEW e \in Reports, ecx_pusherror(e)
  PROVE  Next
<1>1. PICK et \in Etypes, sl \in Slaves : e = [Etype |-> et, Slave |-> sl]
  BY DEF Reports
<1>2. Report(sl)
  BY <1>1 DEF Report, ecx_packeterror, ecx_mbxerror, ecx_mbxemergencyerror,
              ecx_SDOerror, ecx_SDOinfoerror, ecx_SoEerror, Etypes
<1> QED
  BY <1>2 DEF Next

\* A push keeps the invariant.
LEMMA PushStep ==
  ASSUME ListInv, NEW e \in Reports, ecx_pusherror(e)
  PROVE  SignalsPending' /\ FlagCoversList'
<1>1. TypeOK /\ TypeOK'
  BY TypeStep, PushIsStep DEF ListInv
<1>2. FlagCoversList'
  BY DEF ecx_pusherror, FlagCoversList
<1>3. SignalsPending'
  <2>1. head \in Indices /\ e # None
    BY NoneAssumption DEF ListInv, TypeOK
  <2>2. Signal' = [Signal EXCEPT ![head] = TRUE] /\ Error' = [Error EXCEPT ![head] = e]
    BY DEF ecx_pusherror
  <2>3. Signal'[head] /\ Error'[head] # None
    BY <2>1, <2>2 DEF ListInv, TypeOK
  <2>4. ASSUME NEW i \in Indices, i # head, Signal[i], Error[i] # None
        PROVE  Signal'[i] /\ Error'[i] # None
    BY <2>2, <2>4 DEF ListInv, TypeOK
  <2>5. \A i \in 1 .. Count : Signal[Slot(i)] /\ Error[Slot(i)] # None /\ Slot(i) \in Indices
    BY PositionsFit DEF ListInv, SignalsPending
  <2>6. CASE Advance(head) # tail
    <3>1. \A i \in 1 .. Count : Slot(i)' = Slot(i) /\ Slot(i) # head
      BY <1>1, <2>6, PushAdds
    <3>2. Count \in Nat /\ Count' = Count + 1 /\ Slot(Count)' = head
      BY <1>1, <2>6, PushAdds, PositionsFit
    <3>3. ASSUME NEW i \in 1 .. Count'
          PROVE  (Signal[Slot(i)] /\ Error[Slot(i)] # None)'
      <4>1. CASE i = Count'
        BY <4>1, <3>2, <2>3
      <4>2. CASE i \in 1 .. Count
        BY <4>2, <3>1, <2>4, <2>5
      <4> QED
        BY <4>1, <4>2, <3>2
    <3> QED
      BY <3>3 DEF SignalsPending
  <2>7. CASE Advance(head) = tail
    <3>1. \A i \in 1 .. Count - 1 : Slot(i)' = Slot(i + 1) /\ Slot(i + 1) # head
      BY <1>1, <2>7, PushDrops
    <3>2. Count \in Nat /\ Count' = Count /\ Slot(Count)' = head
      BY <1>1, <2>7, PushDrops, PositionsFit
    <3>3. ASSUME NEW i \in 1 .. Count'
          PROVE  (Signal[Slot(i)] /\ Error[Slot(i)] # None)'
      <4>1. CASE i = Count'
        BY <4>1, <3>2, <2>3
      <4>2. CASE i \in 1 .. Count - 1
        <5>1. i + 1 \in 1 .. Count
          BY <4>2, <3>2
        <5> QED
          BY <4>2, <5>1, <3>1, <2>4, <2>5
      <4> QED
        BY <4>1, <4>2, <3>2
    <3> QED
      BY <3>3 DEF SignalsPending
  <2> QED
    BY <2>6, <2>7
<1> QED
  BY <1>2, <1>3

\* A pop keeps the invariant.
LEMMA PopStep ==
  ASSUME ListInv, ecx_poperror
  PROVE  SignalsPending' /\ FlagCoversList'
<1>1. TypeOK /\ TypeOK'
  BY TypeStep DEF ListInv, Next
<1>2. Signal' = [Signal EXCEPT ![tail] = FALSE] /\ Error' = Error
  BY DEF ecx_poperror
<1>3. CASE head = tail
  <2>1. head' = tail'
    BY <1>3 DEF ecx_poperror, ecx_iserror
  <2>2. Count' = 0
    <3>1. (TypeOK => (Count = 0 <=> head = tail))'
      BY CountZero, PTL
    <3> QED
      BY <1>1, <2>1, <3>1
  <2>3. Pending' = << >>
    BY <2>2 DEF Pending
  <2> QED
    BY <2>2, <2>3 DEF SignalsPending, FlagCoversList
<1>4. CASE head # tail
  <2>1. FlagCoversList'
    <3>1. ecaterror
      BY <1>4, EmptyPending DEF ListInv, FlagCoversList
    <3>2. ecaterror'
      BY <1>4, <3>1 DEF ecx_poperror, ecx_iserror
    <3> QED
      BY <3>2 DEF FlagCoversList
  <2>2. \A i \in 1 .. Count - 1 : Slot(i)' = Slot(i + 1) /\ Slot(i + 1) # tail
    BY <1>1, <1>4, PopTakes
  <2>3. Count \in Nat /\ Count' = Count - 1
    BY <1>1, <1>4, PopTakes, PositionsFit
  <2>4. \A i \in 1 .. Count : Signal[Slot(i)] /\ Error[Slot(i)] # None /\ Slot(i) \in Indices
    BY PositionsFit DEF ListInv, SignalsPending
  <2>5. ASSUME NEW i \in 1 .. Count'
        PROVE  (Signal[Slot(i)] /\ Error[Slot(i)] # None)'
    <3>1. i \in 1 .. Count - 1 /\ i + 1 \in 1 .. Count
      BY <2>3
    <3> QED
      BY <3>1, <2>2, <2>4, <1>2 DEF ListInv, TypeOK
  <2>6. SignalsPending'
    BY <2>5 DEF SignalsPending
  <2> QED
    BY <2>1, <2>6
<1> QED
  BY <1>3, <1>4

\* The invariant holds at first and is kept by every step.
THEOREM ListInvAlways == Spec => []ListInv
<1>1. Init => ListInv
  <2> SUFFICES ASSUME Init PROVE ListInv
    OBVIOUS
  <2>1. TypeOK
    <3>1. 0 \in Indices
      BY DEF Indices
    <3> QED
      BY <3>1 DEF Init, TypeOK
  <2>2. Count = 0
    BY DEF Init, Count
  <2>3. Pending = << >>
    BY <2>2 DEF Pending
  <2> QED
    BY <2>1, <2>2, <2>3 DEF ListInv, SignalsPending, FlagCoversList
<1>2. ListInv /\ [Next]_vars => ListInv'
  <2> SUFFICES ASSUME ListInv, [Next]_vars PROVE ListInv'
    OBVIOUS
  <2>1. TypeOK'
    BY TypeStep DEF ListInv
  <2>2. CASE UNCHANGED vars
    BY <2>1, <2>2 DEF vars, ListInv, SignalsPending, FlagCoversList, Pending, Count, Slot
  <2>3. CASE \E sl \in Slaves : Report(sl)
    BY <2>1, <2>3, ReportPushes, PushStep DEF ListInv
  <2>4. CASE ecx_poperror
    BY <2>1, <2>4, PopStep DEF ListInv
  <2> QED
    BY <2>2, <2>3, <2>4 DEF Next, ecx_elist2string
<1> QED
  BY <1>1, <1>2, PTL DEF Spec

\* Type correctness.
THEOREM ListTypes == Spec => []TypeOK
BY ListInvAlways, PTL DEF ListInv

\* Every report that was not read carries the signal "error set but not read".
THEOREM SignalsAlways == Spec => []SignalsPending
BY ListInvAlways, PTL DEF ListInv

\* EcatError is never down over a list that is not empty.
THEOREM FlagAlways == Spec => []FlagCoversList
BY ListInvAlways, PTL DEF ListInv

\* A push is a report of the log.
LEMMA PushReports ==
  ASSUME ListInv, ListInv', NEW e \in Reports, ecx_pusherror(e)
  PROVE  Log!Report(e)
<1>1. TypeOK /\ SignalsPending
  BY DEF ListInv
<1>2. Pending \in Seq(Reports) /\ Len(Pending) = Count /\ Count \in 0 .. MaxElist
  BY <1>1, PendingReports, PositionsFit
<1>3. Pending' \in Seq(Reports) /\ Len(Pending') = Count'
  <2>1. (TypeOK /\ SignalsPending)'
    BY DEF ListInv
  <2>2. (TypeOK /\ SignalsPending => Pending \in Seq(Reports) /\ Len(Pending) = Count)'
    BY PendingReports, PTL
  <2> QED
    BY <2>1, <2>2
<1>4. Error' = [Error EXCEPT ![head] = e] /\ head \in Indices
  BY <1>1 DEF ecx_pusherror, TypeOK
<1>5. Error'[head] = e /\ \A j \in Indices : j # head => Error'[j] = Error[j]
  BY <1>1, <1>4 DEF TypeOK
<1>6. \A i \in 1 .. Count : Slot(i) \in Indices /\ Pending[i] = Error[Slot(i)]
  BY <1>1, PositionsFit DEF Pending
<1>7. \A i \in 1 .. Count' : Pending'[i] = Error'[Slot(i)']
  BY DEF Pending
<1>8. CASE Advance(head) # tail
  <2>1. Count < MaxElist /\ Count' = Count + 1 /\ Slot(Count)' = head
    BY <1>1, <1>8, PushAdds
  <2>2. \A i \in 1 .. Count : Slot(i)' = Slot(i) /\ Slot(i) # head
    BY <1>1, <1>8, PushAdds
  <2>3. PICK s \in Seq(Reports) : s = Append(Pending, e)
    BY <1>2, AppendProperties
  <2>4. /\ Len(s) = Count + 1
        /\ \A i \in 1 .. Count : s[i] = Pending[i]
        /\ s[Count + 1] = e
    BY <1>2, <2>3, AppendProperties
  <2>5. ASSUME NEW i \in 1 .. Len(Pending')
        PROVE  Pending'[i] = s[i]
    <3>1. CASE i = Count + 1
      <4>1. Pending'[i] = Error'[Slot(Count)']
        BY <3>1, <2>1, <1>2, <1>3, <1>7
      <4> QED
        BY <3>1, <4>1, <2>1, <2>4, <1>5
    <3>2. CASE i \in 1 .. Count
      <4>1. Pending'[i] = Error'[Slot(i)']
        BY <3>2, <2>1, <1>2, <1>7
      <4> QED
        BY <3>2, <4>1, <2>2, <2>4, <1>5, <1>6
    <3> QED
      BY <3>1, <3>2, <2>1, <1>2, <1>3
  <2>6. Pending' = s
    <3>1. Len(Pending') = Len(s)
      BY <1>3, <2>1, <2>4
    <3> QED
      BY <3>1, <2>5, <1>3, SeqEqual
  <2> QED
    BY <2>1, <2>3, <2>6, <1>2 DEF Log!Report, ecx_pusherror
<1>9. CASE Advance(head) = tail
  <2>1. Count = MaxElist /\ Count' = Count /\ Slot(Count)' = head
    BY <1>1, <1>9, PushDrops
  <2>2. \A i \in 1 .. Count - 1 : Slot(i)' = Slot(i + 1) /\ Slot(i + 1) # head
    BY <1>1, <1>9, PushDrops
  <2>3. PICK r \in Seq(Reports) : r = Tail(Pending)
    BY <1>2, <2>1, EmptySeq, HeadTailProperties
  <2>4. Len(r) = Count - 1 /\ \A i \in 1 .. Count - 1 : r[i] = Pending[i + 1]
    BY <1>2, <2>1, <2>3, EmptySeq, HeadTailProperties
  <2>5. PICK s \in Seq(Reports) : s = Append(r, e)
    BY AppendProperties
  <2>6. /\ Len(s) = Count
        /\ \A i \in 1 .. Count - 1 : s[i] = Pending[i + 1]
        /\ s[Count] = e
    BY <1>2, <2>1, <2>4, <2>5, AppendProperties
  <2>7. ASSUME NEW i \in 1 .. Len(Pending')
        PROVE  Pending'[i] = s[i]
    <3>1. CASE i = Count
      <4>1. Pending'[i] = Error'[Slot(Count)']
        BY <3>1, <2>1, <1>3, <1>7
      <4> QED
        BY <3>1, <4>1, <2>1, <2>6, <1>5
    <3>2. CASE i \in 1 .. Count - 1
      <4>1. Pending'[i] = Error'[Slot(i)'] /\ i + 1 \in 1 .. Count
        BY <3>2, <2>1, <1>7
      <4> QED
        BY <3>2, <4>1, <2>2, <2>6, <1>5, <1>6
    <3> QED
      BY <3>1, <3>2, <2>1, <1>3
  <2>8. Pending' = s
    <3>1. Len(Pending') = Len(s)
      BY <1>3, <2>1, <2>6
    <3> QED
      BY <3>1, <2>7, <1>3, SeqEqual
  <2> QED
    BY <2>1, <2>3, <2>5, <2>8, <1>2 DEF Log!Report, ecx_pusherror
<1> QED
  BY <1>8, <1>9

\* A pop reads the oldest report of the log or finds the log empty.
LEMMA PopReads ==
  ASSUME ListInv, ListInv', ecx_poperror
  PROVE  Log!ReadOldest \/ Log!FindEmpty
<1>1. TypeOK /\ SignalsPending
  BY DEF ListInv
<1>2. Pending \in Seq(Reports) /\ Len(Pending) = Count /\ Count \in 0 .. MaxElist
  BY <1>1, PendingReports, PositionsFit
<1>3. Pending' \in Seq(Reports) /\ Len(Pending') = Count'
  <2>1. (TypeOK /\ SignalsPending)'
    BY DEF ListInv
  <2>2. (TypeOK /\ SignalsPending => Pending \in Seq(Reports) /\ Len(Pending) = Count)'
    BY PendingReports, PTL
  <2> QED
    BY <2>1, <2>2
<1>4. CASE head = tail
  <2>1. Pending = << >>
    BY <1>1, <1>4, EmptyPending
  <2>2. head' = tail' /\ Ec' = None /\ ecaterror' = FALSE
    BY <1>4 DEF ecx_poperror, ecx_iserror
  <2>3. Pending' = << >>
    <3>1. TypeOK'
      BY DEF ListInv
    <3>2. (TypeOK => (Pending = << >> <=> head = tail))'
      BY EmptyPending, PTL
    <3> QED
      BY <2>2, <3>1, <3>2
  <2> QED
    BY <2>1, <2>2, <2>3 DEF Log!FindEmpty
<1>5. CASE head # tail
  <2>1. Count > 0 /\ Count' = Count - 1 /\ Slot(1) = tail
    BY <1>1, <1>5, PopTakes
  <2>2. \A i \in 1 .. Count - 1 : Slot(i)' = Slot(i + 1)
    BY <1>1, <1>5, PopTakes
  <2>3. Pending # << >>
    BY <1>1, <1>5, EmptyPending
  <2>4. Error' = Error /\ Ec' = Error[tail] /\ (ecaterror' <=> ecaterror)
    BY <1>5 DEF ecx_poperror, ecx_iserror
  <2>5. Ec' = Head(Pending)
    BY <1>2, <2>1, <2>4 DEF Pending
  <2>6. PICK r \in Seq(Reports) : r = Tail(Pending)
    BY <1>2, <2>3, HeadTailProperties
  <2>7. Len(r) = Count - 1 /\ \A i \in 1 .. Count - 1 : r[i] = Pending[i + 1]
    BY <1>2, <2>3, <2>6, HeadTailProperties
  <2>8. ASSUME NEW i \in 1 .. Len(Pending')
        PROVE  Pending'[i] = r[i]
    <3>1. i \in 1 .. Count - 1 /\ i + 1 \in 1 .. Count
      BY <1>2, <1>3, <2>1
    <3>2. Pending'[i] = Error'[Slot(i)'] /\ Pending[i + 1] = Error[Slot(i + 1)]
      BY <3>1, <2>1 DEF Pending
    <3> QED
      BY <3>1, <3>2, <2>2, <2>4, <2>7
  <2>9. Pending' = r
    <3>1. Len(Pending') = Len(r)
      BY <1>3, <2>1, <2>7
    <3> QED
      BY <3>1, <2>8, <1>3, SeqEqual
  <2>10. ecaterror' = ecaterror
    BY <2>4, <1>1 DEF ListInv, TypeOK
  <2> QED
    BY <2>3, <2>5, <2>6, <2>9, <2>10 DEF Log!ReadOldest
<1> QED
  BY <1>4, <1>5

\* The ring of the error list implements the queue of the log: reports are
\* read once and in order, and only an overflow loses the oldest.
THEOREM RingImplementsLog == Spec => RingIsLog
<1>1. Init => Log!Init
  <2> SUFFICES ASSUME Init PROVE Log!Init
    OBVIOUS
  <2>1. Count = 0
    BY DEF Init, Count
  <2>2. Pending = << >>
    BY <2>1 DEF Pending
  <2> QED
    BY <2>2 DEF Init, Log!Init
<1>2. ListInv /\ ListInv' /\ [Next]_vars => [Log!Next]_(Log!vars)
  <2> SUFFICES ASSUME ListInv, ListInv', [Next]_vars
               PROVE  [Log!Next]_(Log!vars)
    OBVIOUS
  <2>1. CASE UNCHANGED vars
    BY <2>1 DEF vars, Log!vars, Pending, Count, Slot
  <2>2. CASE \E sl \in Slaves : Report(sl)
    BY <2>2, ReportPushes, PushReports DEF Log!Next
  <2>3. CASE ecx_poperror
    BY <2>3, PopReads DEF Log!Next
  <2> QED
    BY <2>1, <2>2, <2>3 DEF Next, ecx_elist2string
<1> QED
  BY <1>1, <1>2, ListInvAlways, PTL DEF Spec, RingIsLog, Log!Spec
=============================================================================
