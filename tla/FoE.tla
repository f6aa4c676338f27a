-------------------------------- MODULE FoE --------------------------------
(***************************************************************************)
(* File access over EtherCAT (ecx_FOEread and ecx_FOEwrite of              *)
(* soem/ethercatfoe.c): the master sends or fetches one file, a packet at  *)
(* a time, over the mailboxes of a slave.  A packet shorter than a full    *)
(* one ends the file.                                                      *)
(*                                                                         *)
(* The mailbox calls are what module Mailbox checks of them: a mail is     *)
(* delivered once and in order, or the call fails.  The slave is external: *)
(* it takes or gives the file in order, acknowledges packets by number,    *)
(* and may answer busy, repeat an answer or fail.                          *)
(* The bytes of the file are their positions 1 .. size.                    *)
(***************************************************************************)
EXTENDS Integers, Sequences

CONSTANTS
  MaxSize,    \* bound: bytes of the file and of the caller's read buffer
  MinSize,    \* smallest file
  DataL,      \* data bytes of a full mail to the slave: mbx_l - 12
  DataRl,     \* data bytes of a full mail from the slave: mbx_rl - 12
  MaxBusy,    \* bound: busy answers of the slave
  Faults,     \* may mails be lost or delayed, the slave report an error?
  None        \* empty mailbox

ASSUME FoEAssumption ==
  /\ MaxSize \in Nat
  /\ MinSize \in 0 .. MaxSize
  /\ DataL \in Nat \ {0}
  /\ DataRl \in Nat \ {0}
  /\ MaxBusy \in Nat
  /\ Faults \in BOOLEAN

\* Negative results: -EC_ERR_TYPE_FOE_...
BUF2SMALL    == -6
PACKETNUMBER == -7
FOE_ERROR    == -5
PACKET_ERROR == -3
FILE_NOTFOUND == -10

VARIABLES
  op,            \* "FOEread" or "FOEwrite"
  size,          \* length of the file
  buffersize,    \* FOEread: length of the caller's buffer
  pc,            \* "start", "wait" (in ecx_mbxreceive) or "done"
  wkc,           \* result, Workcounter from last slave response
  mbx_cnt,
  psize, p,      \* FOEwrite: bytes left, bytes before the pointer
  sendpacket, segmentdata, dofinalzero,
  prevpacket,    \* FOEread: number of the last packet
  copied,        \* bytes in the receiver's file or buffer, in order
  sm0, sm1,      \* mails on their way to and from the slave
  lastcnt,       \* slave: counter of the mail taken last
  expected,      \* slave: number of the packet it expects, or gave last
  given,         \* slave: bytes given (FOEread)
  closed,        \* slave: the file is complete
  busy           \* busy answers so far

transfer == <<op, size, buffersize>>
writing  == <<psize, p, sendpacket, segmentdata, dofinalzero>>
master   == <<pc, wkc, mbx_cnt, writing, prevpacket>>
slave    == <<lastcnt, expected, given, closed, busy>>
vars     == <<transfer, master, copied, sm0, sm1, slave>>

File   == [i \in 1 .. size |-> i]
\* The n bytes after the first k of the file.
Bytes(k, n) == SubSeq(File, k + 1, k + n)
Least(m, n) == IF m < n THEN m ELSE n

Init ==
  /\ op \in {"FOEread", "FOEwrite"}
  /\ size \in MinSize .. MaxSize
  /\ buffersize \in 0 .. MaxSize
  /\ pc = "start" /\ wkc = 0 /\ mbx_cnt = 0
  /\ psize = size /\ p = 0
  /\ sendpacket = 0 /\ segmentdata = 0 /\ dofinalzero = FALSE
  /\ prevpacket = 0
  /\ copied = << >>
  /\ sm0 = None /\ sm1 = None
  /\ lastcnt = 0 /\ expected = 0 /\ given = 0 /\ closed = FALSE /\ busy = 0

\* "wrap around to 1, not 0"
ec_nextmbxcnt(cnt) == IF cnt + 1 > 7 THEN 1 ELSE cnt + 1

\* ecx_mbxsend: the mail under a new mailbox counter, and whether it worked.
\* It may be delivered although the master does not learn of it.
Mbxsend(mail, ok) ==
  /\ mbx_cnt' = ec_nextmbxcnt(mbx_cnt)
  /\ ok \/ Faults
  /\ \/ sm0' = [mail EXCEPT !.cnt = ec_nextmbxcnt(mbx_cnt)]
     \/ ~ ok /\ sm0' = sm0

Mail(code, number, data) ==
  [OpCode |-> code, PacketNumber |-> number, Data |-> data, cnt |-> 0]

Finish(w) == pc' = "done" /\ wkc' = w

\* The loop goes on if the last mail was sent, and ends otherwise.
Continue(ok) == IF ok THEN pc' = "wait" /\ wkc' = 1 ELSE Finish(0)

-----------------------------------------------------------------------------
(* Both transfers: the request, and answers that end the loop.             *)

\* The mailbox was drained and the request with the file name is sent.
Start ==
  /\ pc = "start"
  /\ \E ok \in BOOLEAN :
       /\ Mbxsend(Mail(IF op = "FOEread" THEN "READ" ELSE "WRITE", 0, << >>), ok)
       /\ Continue(ok)
  /\ UNCHANGED <<transfer, writing, prevpacket, copied, sm1, slave>>

Received(codes) ==
  /\ pc = "wait"
  /\ sm1 # None
  /\ sm1.OpCode \in codes
  /\ sm1' = None

\* ecx_mbxreceive timed out or failed: the loop ends with its result.
NoResponse ==
  /\ pc = "wait"
  /\ Faults
  /\ Finish(0)
  /\ UNCHANGED <<transfer, mbx_cnt, writing, prevpacket, copied, sm0, sm1, slave>>

ErrorResponse ==
  /\ Received({"ERROR"})
  /\ \/ Finish(FOE_ERROR)
     \/ op = "FOEwrite" /\ Finish(FILE_NOTFOUND)
  /\ UNCHANGED <<transfer, mbx_cnt, writing, prevpacket, copied, sm0, slave>>

\* "unexpected mailbox received": another protocol or operation.
UnexpectedResponse ==
  /\ \/ Received({"OTHER"})
     \/ op = "FOEread" /\ Received({"BUSY"})
  /\ Finish(PACKET_ERROR)
  /\ UNCHANGED <<transfer, mbx_cnt, writing, prevpacket, copied, sm0, slave>>

-----------------------------------------------------------------------------
(* ecx_FOEwrite                                                            *)

\* Wrong: no packet of size zero follows a full last one.
FinalZero_Wrong(rest, segment) == FALSE

\* "if last packet was full size, add a zero size packet as final"
FinalZero(rest, segment) == rest = 0 /\ segment = DataL

\* The acknowledge of the last packet: the next one, or the end.
AckResponse ==
  /\ op = "FOEwrite"
  /\ Received({"ACK"})
  /\ sm1.PacketNumber = sendpacket
  /\ LET tsize == Least(psize, DataL)
     IN  IF tsize > 0 \/ dofinalzero
         THEN /\ segmentdata' = tsize
              /\ psize' = psize - tsize
              /\ p' = p + tsize
              /\ dofinalzero' = FinalZero(psize - tsize, tsize)
              /\ sendpacket' = sendpacket + 1
              /\ \E ok \in BOOLEAN :
                   /\ Mbxsend(Mail("DATA", sendpacket + 1, Bytes(p, tsize)), ok)
                   /\ Continue(ok)
         ELSE Finish(1) /\ UNCHANGED <<writing, mbx_cnt, sm0>>
  /\ UNCHANGED <<transfer, prevpacket, copied, slave>>

WrongAck ==
  /\ op = "FOEwrite"
  /\ Received({"ACK"})
  /\ sm1.PacketNumber # sendpacket
  /\ Finish(PACKETNUMBER)
  /\ UNCHANGED <<transfer, mbx_cnt, writing, prevpacket, copied, sm0, slave>>

\* "resend if data has been send before, otherwise ignore": the packet is taken
\* back, but worktodo is FALSE and the loop ends.
BusyResponse ==
  /\ op = "FOEwrite"
  /\ Received({"BUSY"})
  /\ IF sendpacket > 0
     THEN /\ dofinalzero' = (dofinalzero \/ psize = 0)
          /\ psize' = psize + segmentdata
          /\ p' = p - segmentdata
          /\ sendpacket' = sendpacket - 1
          /\ UNCHANGED segmentdata
     ELSE UNCHANGED writing
  /\ Finish(1)
  /\ UNCHANGED <<transfer, mbx_cnt, prevpacket, copied, sm0, slave>>

-----------------------------------------------------------------------------
(* ecx_FOEread                                                             *)

\* packetnumber == ++prevpacket
InOrder(number) == number = prevpacket + 1

\* if (segmentdata == maxdata) worktodo = TRUE;
MoreToRead(segment) == segment = DataL

DataResponse ==
  /\ op = "FOEread"
  /\ Received({"DATA"})
  /\ prevpacket' = prevpacket + 1
  /\ LET segment == Len(sm1.Data)
     IN  IF InOrder(sm1.PacketNumber) /\ Len(copied) + segment <= buffersize
         THEN /\ copied' = copied \o sm1.Data
              /\ \E ok \in BOOLEAN :
                   /\ Mbxsend(Mail("ACK", sm1.PacketNumber, << >>), ok)
                   /\ IF MoreToRead(segment) THEN Continue(ok)
                      ELSE Finish(IF ok THEN 1 ELSE 0)
         ELSE Finish(BUF2SMALL) /\ UNCHANGED <<copied, mbx_cnt, sm0>>
  /\ UNCHANGED <<transfer, writing, slave>>

-----------------------------------------------------------------------------
(* The slave (external)                                                    *)

\* The slave takes a mail, which carries a new counter.
Takes(codes) ==
  /\ sm0 # None /\ sm1 = None
  /\ sm0.cnt # lastcnt
  /\ sm0.OpCode \in codes
  /\ lastcnt' = sm0.cnt
  /\ sm0' = None

SlaveOpen ==
  /\ Takes({"WRITE"})
  /\ sm1' = Mail("ACK", 0, << >>)
  /\ expected' = 1
  /\ UNCHANGED <<transfer, master, copied, given, closed, busy>>

\* A packet in its turn is stored; a short one closes the file.
SlaveStore ==
  /\ Takes({"DATA"})
  /\ IF sm0.PacketNumber = expected /\ ~ closed
     THEN /\ copied' = copied \o sm0.Data
          /\ closed' = (Len(sm0.Data) < DataL)
          /\ expected' = expected + 1
          /\ sm1' = Mail("ACK", expected, << >>)
     ELSE /\ sm1' = Mail("ERROR", 0, << >>)
          /\ UNCHANGED <<copied, closed, expected>>
  /\ UNCHANGED <<transfer, master, given, busy>>

SlaveBusy ==
  /\ busy < MaxBusy
  /\ Takes({"READ", "WRITE", "DATA", "ACK"})
  /\ busy' = busy + 1
  /\ sm1' = Mail("BUSY", 0, << >>)
  /\ expected' = IF sm0.OpCode = "WRITE" THEN 1 ELSE expected
  /\ UNCHANGED <<transfer, master, copied, given, closed>>

\* The next packet of the file; a short one is the last.
SlaveGive ==
  /\ Takes({"READ", "ACK"})
  /\ IF closed THEN UNCHANGED <<sm1, given, expected, closed>>
     ELSE LET segment == Least(size - given, DataRl)
          IN  /\ sm1' = Mail("DATA", expected + 1, Bytes(given, segment))
              /\ given' = given + segment
              /\ closed' = (segment < DataRl)
              /\ expected' = expected + 1
  /\ UNCHANGED <<transfer, master, copied, busy>>

\* An answer given before comes again: the acknowledge of the packet before,
\* the packet before.
SlaveRepeats ==
  /\ Faults
  /\ \/ /\ Takes({"DATA"})
        /\ sm1' = Mail("ACK", sm0.PacketNumber - 1, << >>)
     \/ /\ ~ closed
        /\ Takes({"ACK"})
        /\ sm1' = Mail("DATA", expected, Bytes(given - DataRl, DataRl))
  /\ UNCHANGED <<transfer, master, copied, expected, given, closed, busy>>

SlaveFails ==
  /\ Faults
  /\ Takes({"READ", "WRITE", "DATA", "ACK"})
  /\ \E code \in {"ERROR", "OTHER"} : sm1' = Mail(code, 0, << >>)
  /\ UNCHANGED <<transfer, master, copied, expected, given, closed, busy>>

-----------------------------------------------------------------------------
FOEwrite == AckResponse \/ WrongAck \/ BusyResponse
FOEread  == DataResponse
Either   == Start \/ NoResponse \/ ErrorResponse \/ UnexpectedResponse
Slave    == \/ SlaveOpen \/ SlaveStore \/ SlaveBusy \/ SlaveGive
            \/ SlaveRepeats \/ SlaveFails

\* The call has returned.
Rest == pc = "done" /\ UNCHANGED vars

Next == FOEwrite \/ FOEread \/ Either \/ Slave \/ Rest

Spec == Init /\ [][Next]_vars

-----------------------------------------------------------------------------
(* Properties                                                              *)

\* Every variable has its type.
TypeOK ==
  /\ wkc \in {BUF2SMALL, PACKETNUMBER, FOE_ERROR, PACKET_ERROR, FILE_NOTFOUND, 0, 1}
  /\ mbx_cnt \in 0 .. 7 /\ lastcnt \in 0 .. 7
  /\ psize \in 0 .. size /\ p \in 0 .. size
  /\ segmentdata \in 0 .. DataL /\ dofinalzero \in BOOLEAN
  /\ sendpacket \in 0 .. MaxSize + 1 /\ prevpacket \in 0 .. MaxSize + 1
  /\ copied \in Seq(1 .. size)

\* A positive result of ecx_FOEwrite means that the slave has the whole file
\* and has seen its end: "EOF is defined as packetsize < full packetsize".
WriteComplete ==
  op = "FOEwrite" /\ pc = "done" /\ wkc > 0 => copied = File /\ closed

\* That holds unless the slave was ever busy, which ends the loop with the
\* positive result of the last mail, or the file is empty: then neither a
\* packet nor the final one is due, and the end is not sent.
WriteCompleteUnlessBusy == busy = 0 /\ size > 0 => WriteComplete

\* A positive result of ecx_FOEread means that the buffer holds the whole file.
ReadComplete ==
  op = "FOEread" /\ pc = "done" /\ wkc > 0 => copied = File

\* Whatever is lost, late, busy or refused, the receiver's copy is a beginning
\* of the file: no packet is left out, repeated or put out of order.
Prefix == Len(copied) <= size /\ \A i \in 1 .. Len(copied) : copied[i] = i

\* And a call that reports success has transferred all of it.
CopyIsPrefix == Prefix /\ WriteCompleteUnlessBusy /\ ReadComplete
=============================================================================
