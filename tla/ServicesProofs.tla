---------------------------- MODULE ServicesProofs ----------------------------
(***************************************************************************)
(* What is proved of the services of a slave.                              *)
(*                                                                         *)
(* What a file transfer copies is a beginning of the file, for files,      *)
(* mailboxes and buffers of any length, whatever is lost, late, busy or    *)
(* refused; and a transfer that reports success has copied all of it.      *)
(*                                                                         *)
(* At most one mail is under way.  The invariant says what it is: the      *)
(* packet behind what the receiver has, with the number both sides expect, *)
(* or one that ends the transfer.                                          *)
(*                                                                         *)
(* A frame of EoE that the master takes for complete is a frame the slave  *)
(* sent, whatever other services use the mailbox.  The invariant says that *)
(* the fragments in the mailbox are those of the frames sent, in order,    *)
(* and that what is put together is the beginning of the frame of the next *)
(* fragment; so few last fragments are lost that the four bits of a frame  *)
(* number tell the frames apart.                                           *)
(***************************************************************************)
EXTENDS FoE, Services, FiniteSetTheorems, SequenceTheorems, TLAPS

Numbers ==
  /\ op \in {"FOEread", "FOEwrite"} /\ pc \in {"start", "wait", "done"}
  /\ size \in Nat /\ copied \in Seq(Nat)
  /\ psize \in Int /\ p \in Int /\ sendpacket \in Int /\ segmentdata \in Nat
  /\ dofinalzero \in BOOLEAN /\ closed \in BOOLEAN
  /\ prevpacket \in Nat /\ expected \in Nat /\ given \in Nat /\ busy \in Nat

UnderWay == sm0 # None \/ sm1 # None
OneMail == sm0 # None => sm1 = None

AtStart ==
  pc = "start" =>
    /\ ~UnderWay /\ copied = <<>> /\ ~closed
    /\ p = 0 /\ psize = size /\ sendpacket = 0 /\ segmentdata = 0 /\ ~dofinalzero
    /\ prevpacket = 0 /\ expected = 0 /\ given = 0

\* ecx_FOEwrite: its file pointer, and when another packet is due.
Pointers ==
  op = "FOEwrite" /\ (pc = "wait" \/ UnderWay) =>
    /\ psize \in 0 .. size /\ p = size - psize
    /\ segmentdata <= DataL /\ segmentdata <= p
    /\ sendpacket >= 0
    /\ sendpacket = 0 => p = 0 /\ ~dofinalzero
    /\ sendpacket > 0 =>
         /\ dofinalzero <=> psize = 0 /\ segmentdata = DataL
         /\ psize > 0 => segmentdata = DataL

\* The packet that is under way to the slave, and the answer to it.
ToSlave ==
  op = "FOEwrite" /\ sm0 # None =>
    /\ ~closed
    /\ \/ sm0.OpCode = "WRITE" /\ sendpacket = 0 /\ copied = <<>>
       \/ /\ sm0.OpCode = "DATA" /\ sendpacket > 0
          /\ sm0.PacketNumber = sendpacket /\ expected = sendpacket
          /\ Len(copied) = p - segmentdata
          /\ sm0.Data = Bytes(Len(copied), segmentdata)
Acknowledged ==
  op = "FOEwrite" /\ sm1 # None =>
    /\ sm1.OpCode = "BUSY" => busy > 0
    /\ sm1.OpCode = "ACK" /\ sm1.PacketNumber = sendpacket =>
         /\ Len(copied) = p /\ expected = sendpacket + 1
         /\ closed <=> sendpacket > 0 /\ segmentdata < DataL

\* ecx_FOEread: the request under way, and the packet that answers it.
FromMaster ==
  op = "FOEread" /\ sm0 # None =>
    /\ sm0.OpCode \in {"READ", "ACK"}
    /\ expected = prevpacket /\ given = Len(copied)
FromSlave ==
  op = "FOEread" /\ sm1 # None /\ sm1.OpCode = "DATA" /\ sm1.PacketNumber = prevpacket + 1 =>
    /\ expected = prevpacket + 1
    /\ given >= Len(copied) /\ given - Len(copied) <= DataRl
    /\ sm1.Data = Bytes(Len(copied), given - Len(copied))
    /\ closed <=> given - Len(copied) < DataRl
Given == op = "FOEread" => given <= size /\ (closed => given = size)

Written ==
  op = "FOEwrite" /\ pc = "done" /\ wkc > 0 /\ busy = 0 /\ size > 0 =>
    Len(copied) = size /\ closed /\ ~UnderWay
Read ==
  DataL = DataRl /\ op = "FOEread" /\ pc = "done" /\ wkc > 0 => Len(copied) = size

IInv ==
  /\ Numbers /\ OneMail /\ AtStart /\ Prefix
  /\ Pointers /\ ToSlave /\ Acknowledged
  /\ FromMaster /\ FromSlave /\ Given
  /\ Written /\ Read

-----------------------------------------------------------------------------
(* Pieces of the file.                                                      *)

LEMMA FileType ==
  ASSUME size \in Nat
  PROVE  File \in Seq(Nat) /\ Len(File) = size /\ \A i \in 1 .. size : File[i] = i
<1>1. File \in [1 .. size -> Nat]  BY DEF File
<1>2. File \in Seq(Nat) /\ Len(File) = size  BY <1>1
<1> QED  BY <1>2 DEF File

LEMMA BytesOfFile ==
  ASSUME size \in Nat, NEW k \in Nat, NEW n \in Nat, k + n <= size
  PROVE  /\ Bytes(k, n) \in Seq(Nat) /\ Len(Bytes(k, n)) = n
         /\ \A i \in 1 .. n : Bytes(k, n)[i] = k + i
<1>1. Bytes(k, n) = SubSeq(File, k + 1, k + n)  BY DEF Bytes
<1>2. Bytes(k, n) \in Seq(Nat) /\ Len(Bytes(k, n)) = n  BY <1>1, FileType
<1>3. ASSUME NEW i \in 1 .. n PROVE Bytes(k, n)[i] = k + i
  <2>1. Bytes(k, n)[i] = File[k + 1 + i - 1]  BY <1>1, FileType
  <2>2. k + i \in 1 .. size /\ k + 1 + i - 1 = k + i  OBVIOUS
  <2> QED  BY <2>1, <2>2, FileType
<1> QED  BY <1>2, <1>3

\* The next piece of the file, put behind a beginning of it.
LEMMA NextPiece ==
  ASSUME size \in Nat, copied \in Seq(Nat), Prefix, NEW n \in Nat, Len(copied) + n <= size,
         NEW new, new = copied \o Bytes(Len(copied), n)
  PROVE  /\ new \in Seq(Nat) /\ Len(new) = Len(copied) + n
         /\ \A i \in 1 .. Len(new) : new[i] = i
<1> DEFINE m == Len(copied)
           piece == Bytes(m, n)
<1>1. m \in Nat  OBVIOUS
<1>2. piece \in Seq(Nat) /\ Len(piece) = n /\ \A i \in 1 .. n : piece[i] = m + i
  BY <1>1, BytesOfFile
<1> HIDE DEF piece
<1>3. new = copied \o piece  BY DEF piece
<1>4. new \in Seq(Nat) /\ Len(new) = m + n
  <2>1. copied \o piece \in Seq(Nat)  BY <1>2
  <2>2. \A a, b \in Seq(Nat) : Len(a \o b) = Len(a) + Len(b)  OBVIOUS
  <2>3. Len(copied \o piece) = Len(copied) + Len(piece)  BY <1>2, <2>2
  <2> QED  BY <1>2, <1>3, <2>1, <2>3
<1>5. ASSUME NEW i \in 1 .. m + n PROVE new[i] = i
  <2>1. CASE i <= m
    <3>1. new[i] = copied[i]  BY <1>2, <1>3, <2>1
    <3> QED  BY <2>1, <3>1 DEF Prefix
  <2>2. CASE i > m
    <3>1. new[i] = piece[i - m]  BY <1>2, <1>3, <2>2
    <3>2. i - m \in 1 .. n  BY <1>1, <2>2
    <3> QED  BY <1>1, <1>2, <3>1, <3>2
  <2>3. i <= m \/ i > m  BY <1>1
  <2> QED  BY <2>1, <2>2, <2>3
<1> QED  BY <1>4, <1>5

LEMMA WholeFile ==
  ASSUME size \in Nat, copied \in Seq(Nat), Prefix, Len(copied) = size
  PROVE  copied = File
<1>1. copied \in [1 .. size -> Nat]  OBVIOUS
<1>2. \A i \in 1 .. size : copied[i] = File[i]  BY FileType DEF Prefix
<1>3. File \in [1 .. size -> Nat]  BY DEF File
<1> QED  BY <1>1, <1>2, <1>3

LEMMA LeastIs ==
  ASSUME NEW m \in Nat, NEW n \in Nat
  PROVE  Least(m, n) \in Nat /\ Least(m, n) <= m /\ Least(m, n) <= n /\ Least(m, n) \in {m, n}
BY DEF Least

LEMMA InitHolds == Init => IInv
<1> SUFFICES ASSUME Init PROVE IInv  OBVIOUS
<1>1. size \in Nat  BY FoEAssumption DEF Init, FoEAssumption
<1>2. Numbers
  <2>1. copied \in Seq(Nat)  BY DEF Init
  <2>2. dofinalzero \in BOOLEAN /\ closed \in BOOLEAN  BY DEF Init
  <2>3. psize \in Int  BY <1>1 DEF Init
  <2>4. p \in Int /\ sendpacket \in Int /\ segmentdata \in Nat  BY DEF Init
  <2>5. prevpacket \in Nat /\ expected \in Nat /\ given \in Nat /\ busy \in Nat  BY DEF Init
  <2>6. op \in {"FOEread", "FOEwrite"} /\ pc \in {"start", "wait", "done"}  BY DEF Init
  <2> QED  BY <1>1, <2>1, <2>2, <2>3, <2>4, <2>5, <2>6, Zenon DEF Numbers
<1>3. AtStart /\ OneMail  BY DEF Init, AtStart, OneMail, UnderWay
<1>4. Prefix  BY <1>1 DEF Init, Prefix
<1>5. Pointers /\ ToSlave /\ Acknowledged /\ FromMaster /\ FromSlave /\ Written /\ Read
  BY DEF Init, Pointers, ToSlave, Acknowledged, FromMaster, FromSlave, Written, Read, UnderWay
<1>6. Given  BY <1>1 DEF Init, Given
<1> QED  BY <1>2, <1>3, <1>4, <1>5, <1>6 DEF IInv

-----------------------------------------------------------------------------
(* The master's steps.                                                      *)

\* What ecx_mbxsend leaves in the mailbox.
LEMMA PacketSent ==
  ASSUME NEW code, NEW number, NEW data, NEW ok \in BOOLEAN,
         Mbxsend(Mail(code, number, data), ok)
  PROVE  \/ ~ok /\ sm0' = sm0
         \/ sm0'.OpCode = code /\ sm0'.PacketNumber = number /\ sm0'.Data = data
BY DEF Mbxsend, Mail

LEMMA StartKeeps == ASSUME IInv, Start PROVE IInv'
<1>1. PICK ok \in BOOLEAN :
        /\ Mbxsend(Mail(IF op = "FOEread" THEN "READ" ELSE "WRITE", 0, << >>), ok)
        /\ Continue(ok)
  BY DEF Start
<1>2. /\ pc = "start" /\ pc' \in {"wait", "done"} /\ (pc' = "done" => wkc' = 0)
      /\ UNCHANGED <<op, size, psize, p, sendpacket, segmentdata, dofinalzero, prevpacket,
                     copied, sm1, expected, given, closed, busy>>
  BY <1>1 DEF Start, Continue, Finish, transfer, writing, slave
<1>3. /\ sm0 = None /\ sm1 = None /\ copied = <<>> /\ ~closed
      /\ p = 0 /\ psize = size /\ sendpacket = 0 /\ segmentdata = 0 /\ ~dofinalzero
      /\ prevpacket = 0 /\ expected = 0 /\ given = 0
  BY <1>2 DEF IInv, AtStart, UnderWay
<1>4. sm0' # None => sm0'.OpCode = IF op = "FOEread" THEN "READ" ELSE "WRITE"
  BY <1>1, <1>3, PacketSent
<1>5. Numbers' /\ Prefix' /\ OneMail' /\ AtStart'
  BY <1>2, <1>3 DEF IInv, Numbers, Prefix, OneMail, AtStart
<1>6. Pointers' /\ ToSlave' /\ Acknowledged'
  BY <1>2, <1>3, <1>4, FoEAssumption
     DEF IInv, Numbers, Pointers, ToSlave, Acknowledged, FoEAssumption
<1>7. FromMaster' /\ FromSlave' /\ Given'
  BY <1>2, <1>3, <1>4 DEF IInv, Numbers, FromMaster, FromSlave, Given
<1>8. Written' /\ Read'
  BY <1>2 DEF Written, Read
<1> QED  BY <1>5, <1>6, <1>7, <1>8 DEF IInv

\* The call ends without success; what was under way may still arrive.
LEMMA FailureKeeps ==
  ASSUME IInv, pc = "wait", pc' = "done", wkc' \in Int, ~(wkc' > 0),
         UNCHANGED <<transfer, writing, prevpacket, copied, slave, sm0>>,
         sm1' = sm1 \/ sm1' = None
  PROVE  IInv'
<1>1. UNCHANGED <<op, size, psize, p, sendpacket, segmentdata, dofinalzero, prevpacket,
                  copied, sm0, expected, given, closed, busy>>
  BY DEF transfer, writing, slave
<1>2. Numbers' /\ Prefix'  BY <1>1 DEF IInv, Numbers, Prefix
<1>3. OneMail' /\ AtStart'  BY <1>1 DEF IInv, OneMail, AtStart
<1>4. Pointers'  BY <1>1 DEF IInv, Pointers, UnderWay
<1>5. ToSlave' /\ Acknowledged'  BY <1>1 DEF IInv, ToSlave, Acknowledged, Bytes, File
<1>6. FromMaster' /\ FromSlave' /\ Given'
  BY <1>1 DEF IInv, FromMaster, FromSlave, Given, Bytes, File
<1>7. Written' /\ Read'  BY DEF Written, Read
<1> QED  BY <1>2, <1>3, <1>4, <1>5, <1>6, <1>7 DEF IInv

LEMMA Failures ==
  ASSUME IInv, NoResponse \/ ErrorResponse \/ UnexpectedResponse \/ WrongAck
  PROVE  IInv'
<1>1. CASE NoResponse  BY <1>1, FailureKeeps DEF NoResponse, Finish
<1>2. CASE ErrorResponse
  BY <1>2, FailureKeeps DEF ErrorResponse, Received, Finish, FOE_ERROR, FILE_NOTFOUND
<1>3. CASE UnexpectedResponse
  BY <1>3, FailureKeeps DEF UnexpectedResponse, Received, Finish, PACKET_ERROR
<1>4. CASE WrongAck
  BY <1>4, FailureKeeps DEF WrongAck, Received, Finish, PACKETNUMBER
<1> QED  BY <1>1, <1>2, <1>3, <1>4

\* The acknowledge of the last packet: another one, or the end of the file.
LEMMA AckKeeps == ASSUME IInv, AckResponse PROVE IInv'
<1> DEFINE tsize == Least(psize, DataL)
<1>1. /\ op = "FOEwrite" /\ pc = "wait" /\ sm1 # None /\ sm1' = None
      /\ sm1.OpCode = "ACK" /\ sm1.PacketNumber = sendpacket
      /\ UNCHANGED <<op, size, prevpacket, copied, expected, given, closed, busy>>
  BY DEF AckResponse, Received, transfer, slave
<1>2. sm0 = None  BY <1>1 DEF IInv, OneMail
<1>3. /\ psize \in Nat /\ psize <= size /\ p = size - psize
      /\ segmentdata <= DataL /\ sendpacket \in Nat
      /\ sendpacket = 0 => p = 0 /\ ~dofinalzero
      /\ sendpacket > 0 =>
           /\ dofinalzero <=> psize = 0 /\ segmentdata = DataL
           /\ psize > 0 => segmentdata = DataL
  BY <1>1 DEF IInv, Numbers, Pointers
<1>4. /\ Len(copied) = p /\ expected = sendpacket + 1
      /\ closed <=> sendpacket > 0 /\ segmentdata < DataL
  BY <1>1 DEF IInv, Acknowledged
<1>5. DataL \in Nat /\ DataL > 0 /\ size \in Nat /\ segmentdata \in Nat /\ p \in Int
  BY FoEAssumption DEF FoEAssumption, IInv, Numbers
<1>6. tsize \in Nat /\ tsize <= psize /\ tsize <= DataL /\ tsize \in {psize, DataL}
  BY <1>3, <1>5, LeastIs
<1> HIDE DEF tsize
<1>7. FromMaster' /\ FromSlave' /\ Given' /\ Read'
  BY <1>1 DEF IInv, FromMaster, FromSlave, Given, Read
<1>8. CASE tsize > 0 \/ dofinalzero
  <2>1. /\ segmentdata' = tsize /\ psize' = psize - tsize /\ p' = p + tsize
        /\ dofinalzero' = FinalZero(psize - tsize, tsize)
        /\ sendpacket' = sendpacket + 1
        /\ \E ok \in BOOLEAN :
             /\ Mbxsend(Mail("DATA", sendpacket + 1, Bytes(p, tsize)), ok)
             /\ Continue(ok)
    BY <1>8 DEF AckResponse, tsize
  <2>2. PICK ok \in BOOLEAN : /\ Mbxsend(Mail("DATA", sendpacket + 1, Bytes(p, tsize)), ok)
                              /\ Continue(ok)
    BY <2>1
  <2>3. sm0' # None => /\ sm0'.OpCode = "DATA" /\ sm0'.PacketNumber = sendpacket + 1
                       /\ sm0'.Data = Bytes(p, tsize)
    BY <1>2, <2>2, PacketSent
  <2>4. pc' \in {"wait", "done"} /\ (pc' = "done" => wkc' = 0)
    BY <2>2 DEF Continue, Finish
  <2>5. dofinalzero' <=> psize' = 0 /\ segmentdata' = DataL  BY <2>1 DEF FinalZero
  <2>6. ~closed
    <3>1. CASE tsize > 0  BY <1>3, <1>4, <1>5, <1>6, <3>1
    <3>2. CASE dofinalzero  BY <1>3, <1>4, <1>5, <3>2
    <3> QED  BY <1>8, <3>1, <3>2
  <2>7. Numbers'
    <3>1. psize' \in Int /\ p' \in Int /\ sendpacket' \in Int /\ segmentdata' \in Nat
      BY <1>3, <1>5, <1>6, <2>1
    <3>2. dofinalzero' \in BOOLEAN  BY <2>1 DEF FinalZero
    <3>3. pc' \in {"start", "wait", "done"}  BY <2>4
    <3> QED  BY <1>1, <3>1, <3>2, <3>3 DEF IInv, Numbers
  <2>8. Prefix' /\ OneMail' /\ AtStart'
    BY <1>1, <2>4 DEF IInv, Prefix, OneMail, AtStart
  <2>9. Pointers'
    <3>1. psize' \in 0 .. size /\ p' = size - psize'
      BY <1>3, <1>5, <1>6, <2>1
    <3>2. segmentdata' <= DataL /\ segmentdata' <= p' /\ sendpacket' > 0
      BY <1>3, <1>5, <1>6, <2>1
    <3>3. psize' > 0 => segmentdata' = DataL
      BY <1>3, <1>5, <1>6, <2>1
    <3> QED  BY <1>1, <1>3, <2>1, <2>5, <3>1, <3>2, <3>3 DEF Pointers
  <2>10. ToSlave'
    <3>1. p' - segmentdata' = p /\ sendpacket' > 0 /\ expected' = sendpacket'
      BY <1>1, <1>3, <1>4, <1>5, <1>6, <2>1
    <3>2. Len(copied') = p' - segmentdata'  BY <1>1, <1>4, <3>1
    <3>3. Bytes(Len(copied), segmentdata)' = Bytes(p, tsize)
      BY <1>1, <1>4, <2>1 DEF Bytes, File
    <3> QED  BY <1>1, <2>1, <2>3, <2>6, <3>1, <3>2, <3>3 DEF ToSlave
  <2>11. Acknowledged'  BY <1>1 DEF Acknowledged
  <2>12. Written'  BY <2>4 DEF Written
  <2> QED  BY <1>7, <2>7, <2>8, <2>9, <2>10, <2>11, <2>12 DEF IInv
<1>9. CASE ~(tsize > 0 \/ dofinalzero)
  <2>1. /\ pc' = "done" /\ UNCHANGED <<writing, sm0>>
    BY <1>9 DEF AckResponse, Finish, tsize
  <2>2. UNCHANGED <<psize, p, sendpacket, segmentdata, dofinalzero>>  BY <2>1 DEF writing
  <2>3. psize = 0  BY <1>3, <1>5, <1>6, <1>9
  <2>4. size > 0 => Len(copied) = size /\ closed
    BY <1>3, <1>4, <1>5, <1>9, <2>3
  <2>5. Numbers' /\ Prefix' /\ OneMail' /\ AtStart'
    BY <1>1, <2>1, <2>2 DEF IInv, Numbers, Prefix, OneMail, AtStart
  <2>6. Pointers' /\ ToSlave' /\ Acknowledged'
    BY <1>1, <1>2, <2>1 DEF Pointers, ToSlave, Acknowledged, UnderWay
  <2>7. Written'  BY <1>1, <1>2, <2>1, <2>4 DEF Written, UnderWay
  <2> QED  BY <1>7, <2>5, <2>6, <2>7 DEF IInv
<1> QED  BY <1>8, <1>9

\* A busy answer ends the call, its packet taken back.
LEMMA BusyKeeps == ASSUME IInv, BusyResponse PROVE IInv'
<1>1. /\ op = "FOEwrite" /\ pc = "wait" /\ sm1 # None /\ sm1.OpCode = "BUSY" /\ sm1' = None
      /\ pc' = "done" /\ sm0' = sm0
      /\ UNCHANGED <<op, size, prevpacket, copied, expected, given, closed, busy>>
  BY DEF BusyResponse, Received, Finish, transfer, slave
<1>2. sm0 = None /\ busy > 0  BY <1>1 DEF IInv, OneMail, Acknowledged
<1>3. Numbers'
  <2>1. psize' \in Int /\ p' \in Int /\ sendpacket' \in Int /\ segmentdata' \in Nat
    BY DEF BusyResponse, writing, IInv, Numbers
  <2>2. dofinalzero' \in BOOLEAN  BY DEF BusyResponse, writing, IInv, Numbers
  <2> QED  BY <1>1, <2>1, <2>2 DEF IInv, Numbers
<1>4. Prefix' /\ OneMail' /\ AtStart'  BY <1>1 DEF IInv, Prefix, OneMail, AtStart
<1>5. Pointers' /\ ToSlave' /\ Acknowledged'
  BY <1>1, <1>2 DEF Pointers, ToSlave, Acknowledged, UnderWay
<1>6. FromMaster' /\ FromSlave' /\ Given' /\ Read'
  BY <1>1 DEF FromMaster, FromSlave, Given, Read
<1>7. Written'  BY <1>1, <1>2 DEF Written, IInv, Numbers
<1> QED  BY <1>3, <1>4, <1>5, <1>6, <1>7 DEF IInv

\* A packet that is the next one and has room is put behind the others.
LEMMA DataKeeps == ASSUME IInv, DataResponse PROVE IInv'
<1> DEFINE segment == Len(sm1.Data)
           accepted == InOrder(sm1.PacketNumber) /\ Len(copied) + segment <= buffersize
<1>1. /\ op = "FOEread" /\ pc = "wait" /\ sm1 # None /\ sm1.OpCode = "DATA" /\ sm1' = None
      /\ prevpacket' = prevpacket + 1
      /\ UNCHANGED <<op, size, psize, p, sendpacket, segmentdata, dofinalzero, expected,
                     given, closed, busy>>
  BY DEF DataResponse, Received, transfer, slave, writing
<1>2. sm0 = None  BY <1>1 DEF IInv, OneMail
<1>3. Pointers' /\ ToSlave' /\ Acknowledged' /\ Written' /\ FromSlave'
  BY <1>1 DEF Pointers, ToSlave, Acknowledged, Written, FromSlave
<1>4. Given'  BY <1>1 DEF Given, IInv
<1>5. OneMail' BY <1>1 DEF OneMail
<1>6. size \in Nat /\ copied \in Seq(Nat) /\ given \in Nat /\ prevpacket \in Nat /\ Prefix
  BY DEF IInv, Numbers
<1>7. CASE accepted
  <2>1. /\ copied' = copied \o sm1.Data
        /\ \E ok \in BOOLEAN :
             /\ Mbxsend(Mail("ACK", sm1.PacketNumber, << >>), ok)
             /\ IF MoreToRead(segment) THEN Continue(ok)
                ELSE Finish(IF ok THEN 1 ELSE 0)
    BY <1>7 DEF DataResponse
  <2>2. PICK ok \in BOOLEAN :
             /\ Mbxsend(Mail("ACK", sm1.PacketNumber, << >>), ok)
             /\ IF MoreToRead(segment) THEN Continue(ok)
                ELSE Finish(IF ok THEN 1 ELSE 0)
    BY <2>1
  <2> DEFINE n == given - Len(copied)
  <2>3. /\ expected = prevpacket + 1 /\ n \in Nat /\ n <= DataRl
        /\ sm1.Data = Bytes(Len(copied), n) /\ (closed <=> n < DataRl)
        /\ given <= size /\ (closed => given = size)
    BY <1>1, <1>6, <1>7 DEF IInv, FromSlave, Given, InOrder
  <2> HIDE DEF n
  <2>4. Len(copied) \in Nat /\ Len(copied) + n = given  BY <1>6, <2>3 DEF n
  <2>5. segment = n  BY <1>6, <2>3, <2>4, BytesOfFile
  <2>6. copied' = copied \o Bytes(Len(copied), n)  BY <2>1, <2>3
  <2>7. Len(copied) + n <= size  BY <2>3, <2>4
  <2>8. /\ copied' \in Seq(Nat) /\ Len(copied') = given
        /\ \A i \in 1 .. Len(copied') : copied'[i] = i
    BY <1>6, <2>3, <2>4, <2>6, <2>7, NextPiece
  <2>9. sm0' # None => sm0'.OpCode = "ACK"  BY <1>2, <2>2, PacketSent
  <2>10. /\ pc' \in {"wait", "done"}
         /\ pc' = "done" /\ wkc' > 0 => ~MoreToRead(segment)
    BY <2>2 DEF Continue, Finish
  <2>11. Numbers'
    BY <1>1, <1>6, <2>8, <2>10 DEF IInv, Numbers
  <2>12. Prefix'  BY <1>1, <2>3, <2>8 DEF Prefix
  <2>13. AtStart'  BY <2>10 DEF AtStart
  <2>14. FromMaster'  BY <1>1, <2>3, <2>8, <2>9 DEF FromMaster
  <2>15. Read'
    <3>1. DataL = DataRl /\ ~MoreToRead(segment) => n < DataRl
      BY <2>3, <2>5, FoEAssumption DEF MoreToRead, FoEAssumption
    <3> QED  BY <1>1, <2>3, <2>8, <2>10, <3>1 DEF Read
  <2> QED  BY <1>3, <1>4, <1>5, <2>11, <2>12, <2>13, <2>14, <2>15 DEF IInv
<1>8. CASE ~accepted
  <2>1. pc' = "done" /\ wkc' = BUF2SMALL /\ UNCHANGED <<copied, sm0>>
    BY <1>8 DEF DataResponse, Finish
  <2>2. Numbers' /\ Prefix' /\ AtStart'
    BY <1>1, <2>1 DEF IInv, Numbers, Prefix, AtStart
  <2>3. FromMaster' /\ Read'  BY <1>2, <2>1 DEF FromMaster, Read, BUF2SMALL
  <2> QED  BY <1>3, <1>4, <1>5, <2>2, <2>3 DEF IInv
<1> QED  BY <1>7, <1>8
-----------------------------------------------------------------------------
(* The slave's steps.                                                       *)

\* A mail the slave has taken: the master stands where it stood.
LEMMA Taken ==
  ASSUME IInv, sm0 # None, sm0' = None, UNCHANGED <<transfer, master>>,
         busy' = busy \/ busy' = busy + 1
  PROVE  OneMail' /\ AtStart' /\ Pointers' /\ ToSlave' /\ FromMaster' /\ Written'
<1>1. UNCHANGED <<op, size, pc, wkc, psize, p, sendpacket, segmentdata, dofinalzero, prevpacket>>
  BY DEF transfer, master, writing
<1>2. UnderWay  BY DEF UnderWay
<1>3. OneMail' /\ ToSlave' /\ FromMaster'  BY DEF OneMail, ToSlave, FromMaster
<1>4. AtStart'  BY <1>1, <1>2 DEF IInv, AtStart
<1>5. Pointers'  BY <1>1, <1>2 DEF IInv, Pointers
<1>6. busy \in Nat  BY DEF IInv, Numbers
<1>7. busy' = 0 => busy = 0  BY <1>6
<1>8. Written'  BY <1>1, <1>2, <1>7 DEF IInv, Written
<1> QED  BY <1>3, <1>4, <1>5, <1>8

\* An answer without a packet of the file, and without a useful number.
LEMMA EmptyAnswer ==
  ASSUME IInv, sm0 # None, sm0' = None, UNCHANGED <<transfer, master, copied, given, closed>>,
         expected' \in Nat, busy' = busy \/ busy' = busy + 1,
         sm1'.OpCode = "BUSY" => busy' = busy + 1,
         ~(sm1'.OpCode = "ACK" /\ sm1'.PacketNumber = sendpacket),
         ~(sm1'.OpCode = "DATA" /\ sm1'.PacketNumber = prevpacket + 1)
  PROVE  IInv'
<1>1. UNCHANGED <<op, size, pc, wkc, psize, p, sendpacket, segmentdata, dofinalzero,
                  prevpacket, copied, given, closed>>
  BY DEF transfer, master, writing
<1>2. OneMail' /\ AtStart' /\ Pointers' /\ ToSlave' /\ FromMaster' /\ Written'  BY Taken
<1>3. busy \in Nat /\ busy' \in Nat  BY DEF IInv, Numbers
<1>4. Numbers' /\ Prefix'  BY <1>1, <1>3 DEF IInv, Numbers, Prefix
<1>5. Acknowledged' /\ FromSlave'  BY <1>1, <1>3 DEF Acknowledged, FromSlave
<1>6. Given' /\ Read'  BY <1>1 DEF IInv, Given, Read
<1> QED  BY <1>2, <1>4, <1>5, <1>6 DEF IInv

LEMMA Answers == ASSUME IInv, SlaveBusy \/ SlaveRepeats \/ SlaveFails PROVE IInv'
<1>1. expected \in Nat /\ busy \in Nat /\ sendpacket \in Int  BY DEF IInv, Numbers
<1>2. CASE SlaveBusy
  <2>1. /\ sm0 # None /\ sm0' = None /\ UNCHANGED <<transfer, master, copied, given, closed>>
        /\ busy' = busy + 1 /\ expected' \in {1, expected} /\ sm1'.OpCode = "BUSY"
    BY <1>2 DEF SlaveBusy, Takes, Mail
  <2> QED  BY <1>1, <2>1, EmptyAnswer
<1>3. CASE SlaveFails
  <2>1. /\ sm0 # None /\ sm0' = None /\ UNCHANGED <<transfer, master, copied, given, closed>>
        /\ busy' = busy /\ expected' = expected /\ sm1'.OpCode \in {"ERROR", "OTHER"}
    BY <1>3 DEF SlaveFails, Takes, Mail
  <2> QED  BY <1>1, <2>1, EmptyAnswer
<1>4. CASE SlaveRepeats
  <2>1. /\ sm0 # None /\ sm0' = None /\ UNCHANGED <<transfer, master, copied, given, closed>>
        /\ busy' = busy /\ expected' = expected
        /\ \/ /\ sm0.OpCode = "DATA"
              /\ sm1'.OpCode = "ACK" /\ sm1'.PacketNumber = sm0.PacketNumber - 1
           \/ /\ sm0.OpCode = "ACK"
              /\ sm1'.OpCode = "DATA" /\ sm1'.PacketNumber = expected
    BY <1>4 DEF SlaveRepeats, Takes, Mail
  <2>2. op = "FOEwrite" /\ sm0.OpCode = "DATA" => sm0.PacketNumber = sendpacket
    BY <2>1 DEF IInv, ToSlave
  <2>3. op = "FOEread" => sm0.OpCode # "DATA" /\ expected = prevpacket
    BY <2>1 DEF IInv, FromMaster
  <2>4. op = "FOEwrite" => sm0.OpCode # "ACK"  BY <2>1 DEF IInv, ToSlave
  <2>5. op \in {"FOEwrite", "FOEread"}  BY DEF IInv, Numbers
  <2>6. ~(sm1'.OpCode = "ACK" /\ sm1'.PacketNumber = sendpacket)
    BY <1>1, <2>1, <2>2, <2>3, <2>5
  <2>7. ~(sm1'.OpCode = "DATA" /\ sm1'.PacketNumber = prevpacket + 1)
    BY <1>1, <2>1, <2>3, <2>4, <2>5
  <2> QED  BY <1>1, <2>1, <2>6, <2>7, EmptyAnswer
<1> QED  BY <1>2, <1>3, <1>4

LEMMA OpenKeeps == ASSUME IInv, SlaveOpen PROVE IInv'
<1>1. /\ sm0 # None /\ sm0' = None /\ sm0.OpCode = "WRITE"
      /\ sm1'.OpCode = "ACK" /\ sm1'.PacketNumber = 0 /\ expected' = 1
      /\ UNCHANGED <<transfer, master, copied, given, closed, busy>>
  BY DEF SlaveOpen, Takes, Mail
<1>2. UNCHANGED <<op, size, pc, wkc, psize, p, sendpacket, segmentdata, dofinalzero, prevpacket>>
  BY <1>1 DEF transfer, master, writing
<1>3. OneMail' /\ AtStart' /\ Pointers' /\ ToSlave' /\ FromMaster' /\ Written'  BY <1>1, Taken
<1>4. Numbers' /\ Prefix'  BY <1>1, <1>2 DEF IInv, Numbers, Prefix
<1>5. op = "FOEwrite" => sendpacket = 0 /\ p = 0 /\ copied = <<>> /\ ~closed
  BY <1>1 DEF IInv, ToSlave, Pointers, UnderWay
<1>6. Acknowledged'  BY <1>1, <1>2, <1>5 DEF Acknowledged
<1>7. FromSlave' /\ Given' /\ Read'  BY <1>1, <1>2 DEF IInv, FromSlave, Given, Read
<1> QED  BY <1>3, <1>4, <1>6, <1>7 DEF IInv

\* The packet under way is the next one: it is stored behind the others.
LEMMA StoreKeeps == ASSUME IInv, SlaveStore PROVE IInv'
<1>1. /\ sm0 # None /\ sm0' = None /\ sm0.OpCode = "DATA"
      /\ UNCHANGED <<transfer, master, given, busy>>
  BY DEF SlaveStore, Takes
<1>2. UNCHANGED <<op, size, pc, wkc, psize, p, sendpacket, segmentdata, dofinalzero, prevpacket>>
  BY <1>1 DEF transfer, master, writing
<1>3. OneMail' /\ AtStart' /\ Pointers' /\ ToSlave' /\ FromMaster' /\ Written'  BY <1>1, Taken
<1>4. op = "FOEwrite"
  BY <1>1 DEF IInv, Numbers, FromMaster
<1>5. /\ ~closed /\ sendpacket > 0 /\ sm0.PacketNumber = sendpacket /\ expected = sendpacket
      /\ Len(copied) = p - segmentdata /\ sm0.Data = Bytes(Len(copied), segmentdata)
  BY <1>1, <1>4 DEF IInv, ToSlave
<1>6. psize \in 0 .. size /\ p = size - psize  BY <1>1, <1>4 DEF IInv, Pointers, UnderWay
<1>7. size \in Nat /\ copied \in Seq(Nat) /\ Prefix /\ segmentdata \in Nat /\ sendpacket \in Int
  BY DEF IInv, Numbers
<1>8. Len(copied) \in Nat /\ Len(copied) + segmentdata = p /\ p <= size  BY <1>5, <1>6, <1>7
<1>9. /\ copied' = copied \o Bytes(Len(copied), segmentdata)
      /\ closed' = (Len(sm0.Data) < DataL)
      /\ expected' = expected + 1
      /\ sm1'.OpCode = "ACK" /\ sm1'.PacketNumber = sendpacket
  BY <1>5 DEF SlaveStore, Mail
<1>10. Len(sm0.Data) = segmentdata  BY <1>5, <1>7, <1>8, BytesOfFile
<1>11. copied' \in Seq(Nat) /\ Len(copied') = p /\ \A i \in 1 .. Len(copied') : copied'[i] = i
  BY <1>7, <1>8, <1>9, NextPiece
<1>12. closed' <=> sendpacket > 0 /\ segmentdata < DataL  BY <1>5, <1>9, <1>10
<1>13. Numbers'
  <2>1. closed' \in BOOLEAN  BY <1>9
  <2>2. expected' \in Nat  BY <1>9 DEF IInv, Numbers
  <2> QED  BY <1>1, <1>2, <1>11, <2>1, <2>2 DEF IInv, Numbers
<1>14. Prefix'  BY <1>2, <1>8, <1>11 DEF Prefix
<1>15. Acknowledged'
  <2>1. expected' = sendpacket' + 1  BY <1>2, <1>5, <1>9
  <2> QED  BY <1>2, <1>9, <1>11, <1>12, <2>1 DEF Acknowledged
<1>16. FromSlave' /\ Given' /\ Read'  BY <1>2, <1>4 DEF FromSlave, Given, Read
<1> QED  BY <1>3, <1>13, <1>14, <1>15, <1>16 DEF IInv

\* The next packet of the file is given, or the last was before.
LEMMA GiveKeeps == ASSUME IInv, SlaveGive PROVE IInv'
<1> DEFINE segment == Least(size - given, DataRl)
<1>1. /\ sm0 # None /\ sm0' = None /\ sm1 = None /\ sm0.OpCode \in {"READ", "ACK"}
      /\ UNCHANGED <<transfer, master, copied, busy>>
  BY DEF SlaveGive, Takes
<1>2. UNCHANGED <<op, size, pc, wkc, psize, p, sendpacket, segmentdata, dofinalzero, prevpacket>>
  BY <1>1 DEF transfer, master, writing
<1>3. OneMail' /\ AtStart' /\ Pointers' /\ ToSlave' /\ FromMaster' /\ Written'  BY <1>1, Taken
<1>4. op = "FOEread"  BY <1>1 DEF IInv, Numbers, ToSlave
<1>5. expected = prevpacket /\ given = Len(copied) /\ given <= size
  BY <1>1, <1>4 DEF IInv, FromMaster, Given
<1>6. size \in Nat /\ given \in Nat /\ expected \in Nat /\ DataRl \in Nat
  BY FoEAssumption DEF IInv, Numbers, FoEAssumption
<1>7. Acknowledged' /\ Read' /\ Prefix'  BY <1>1, <1>2, <1>4 DEF IInv, Acknowledged, Read, Prefix
<1>8. CASE closed
  <2>1. UNCHANGED <<sm1, given, expected, closed>>  BY <1>8 DEF SlaveGive
  <2>2. Numbers' /\ FromSlave' /\ Given'
    BY <1>1, <1>2, <2>1 DEF IInv, Numbers, FromSlave, Given
  <2> QED  BY <1>3, <1>7, <2>2 DEF IInv
<1>9. CASE ~closed
  <2>1. /\ sm1'.PacketNumber = expected + 1 /\ sm1'.Data = Bytes(given, segment)
        /\ given' = given + segment /\ closed' = (segment < DataRl)
        /\ expected' = expected + 1
    BY <1>9 DEF SlaveGive, Mail
  <2>2. size - given \in Nat  BY <1>5, <1>6
  <2>3. /\ segment \in Nat /\ segment <= size - given /\ segment <= DataRl
        /\ segment \in {size - given, DataRl}
    BY <1>6, <2>2, LeastIs
  <2> HIDE DEF segment
  <2>4. given' \in Nat /\ given' <= size /\ given' - given = segment  BY <1>6, <2>1, <2>3
  <2>5. segment < DataRl => given' = size  BY <1>6, <2>1, <2>3
  <2>6. Numbers'
    <3>1. closed' \in BOOLEAN  BY <2>1
    <3>2. expected' \in Nat  BY <1>6, <2>1
    <3> QED  BY <1>1, <1>2, <2>4, <3>1, <3>2 DEF IInv, Numbers
  <2>7. Given'  BY <1>2, <2>1, <2>4, <2>5 DEF Given
  <2>8. FromSlave'
    <3>1. expected' = prevpacket' + 1  BY <1>2, <1>5, <2>1
    <3>2. given' >= Len(copied') /\ given' - Len(copied') = segment
      BY <1>1, <1>5, <1>6, <2>3, <2>4
    <3>3. sm1'.Data = Bytes(Len(copied), given - Len(copied))'
      BY <1>1, <1>2, <1>5, <2>1, <3>2 DEF Bytes, File
    <3>4. closed' <=> given' - Len(copied') < DataRl  BY <2>1, <3>2
    <3> QED  BY <2>3, <3>1, <3>2, <3>3, <3>4 DEF FromSlave
  <2> QED  BY <1>3, <1>7, <2>6, <2>7, <2>8 DEF IInv
<1> QED  BY <1>8, <1>9

-----------------------------------------------------------------------------
(* The theorems.                                                            *)

\* The state of a step that changes nothing.
LEMMA StutterKeeps == ASSUME IInv, UNCHANGED vars PROVE IInv'
<1>1. UNCHANGED <<op, size, pc, wkc, psize, p, sendpacket, segmentdata, dofinalzero,
                  prevpacket, copied, sm0, sm1, expected, given, closed, busy>>
  BY DEF vars, transfer, master, writing, slave
<1>2. Numbers' /\ Prefix'  BY <1>1 DEF IInv, Numbers, Prefix
<1>3. OneMail' /\ AtStart' /\ Pointers'
  BY <1>1 DEF IInv, OneMail, AtStart, Pointers, UnderWay
<1>4. ToSlave' /\ Acknowledged' /\ FromMaster' /\ FromSlave' /\ Given'
  BY <1>1 DEF IInv, ToSlave, Acknowledged, FromMaster, FromSlave, Given, Bytes, File
<1>5. Written' /\ Read'  BY <1>1 DEF IInv, Written, Read, UnderWay
<1> QED  BY <1>2, <1>3, <1>4, <1>5 DEF IInv

LEMMA StepKeeps == ASSUME IInv, [Next]_vars PROVE IInv'
<1>1. CASE FOEwrite  BY <1>1, AckKeeps, Failures, BusyKeeps DEF FOEwrite
<1>2. CASE FOEread  BY <1>2, DataKeeps DEF FOEread
<1>3. CASE Either  BY <1>3, StartKeeps, Failures DEF Either
<1>4. CASE Slave  BY <1>4, OpenKeeps, StoreKeeps, Answers, GiveKeeps DEF Slave
<1>5. CASE Rest \/ UNCHANGED vars  BY <1>5, StutterKeeps DEF Rest
<1> QED  BY <1>1, <1>2, <1>3, <1>4, <1>5 DEF Next

\* Where every mail under way stands, in every state.
THEOREM TransferHolds == Spec => []IInv
<1> QED  BY InitHolds, StepKeeps, PTL DEF Spec

\* Prefix of FoE: whatever ecx_FOEread and ecx_FOEwrite meet, and whatever the
\* sizes of the two mailboxes, the copy is a beginning of the file.
THEOREM PrefixAlways == Spec => []Prefix
<1>1. IInv => Prefix  BY DEF IInv
<1> QED  BY <1>1, TransferHolds, PTL

\* CopyIsPrefix of FoE: and a transfer that succeeds has copied all of the file,
\* if both mailboxes have one size, and if the slave was not busy.
THEOREM CopyIsPrefixAlways ==
  ASSUME DataL = DataRl PROVE Spec => []CopyIsPrefix
<1>1. ASSUME IInv PROVE CopyIsPrefix
  <2>1. size \in Nat /\ copied \in Seq(Nat) /\ Prefix /\ closed \in BOOLEAN
    BY <1>1 DEF IInv, Numbers
  <2>2. WriteCompleteUnlessBusy
    BY <1>1, <2>1, WholeFile DEF IInv, Written, WriteCompleteUnlessBusy, WriteComplete
  <2>3. ReadComplete  BY <1>1, <2>1, WholeFile DEF IInv, Read, ReadComplete
  <2> QED  BY <2>1, <2>2, <2>3 DEF CopyIsPrefix
<1> QED  BY <1>1, TransferHolds, PTL
-----------------------------------------------------------------------------
(***************************************************************************)
(* Frames (Eoe)                                                            *)
(***************************************************************************)

\* Octets of a frame; what is behind it as a time stamp.
Plain == Nat \X Nat
Octet == Plain \union {<<>>}

\* The octets before fragment i of a frame.
Before(i) == (i - 1) * Payload

\* What fragment i of frame k is.
IsNth(m, k, d, s, i) ==
  /\ m.cmd = "eoe" /\ m.k = k /\ m.fragno = i - 1 /\ m.frameno = k % 16
  /\ m.offset = IF i = 1 THEN Blocks(Len(d)) ELSE Before(i) \div Block
  /\ i < FragmentCount(Len(d)) =>
       /\ m.last = FALSE /\ m.stamped = FALSE
       /\ m.data = SubSeq(d, Before(i) + 1, Before(i) + Payload)
  /\ i = FragmentCount(Len(d)) =>
       /\ m.last = TRUE /\ m.stamped = s
       /\ m.data = SubSeq(d, Before(i) + 1, Len(d)) \o StampOf(s)
  /\ m.data \in Seq(Octet)

IsFragment(m) == m.cmd = "eoe"

\* The fragments in the mailbox, by their place there.
Fragmented == {i \in DOMAIN box : IsFragment(box[i])}

Assembly == [fragno : Nat, size : Nat, frameno : Nat, buf : Seq(Octet)]

FrameTypes ==
  /\ hook \in BOOLEAN /\ faults \in 0 .. MaxFaults
  /\ box \in Seq(Range(box))
  /\ rx \in Assembly
  /\ sent \in Seq([data : Seq(Plain), stamped : BOOLEAN])
  /\ \A k \in DOMAIN sent : Len(sent[k].data) \in Sizes
  /\ job.kind = "eoe_recv" => job.psize \in Sizes /\ at \in {"idle", "receive"}

\* A fragment that is not read yet is one of a frame that was sent, and they are
\* in the order they were sent in.
IsSent(m, frames) ==
  /\ m.k \in DOMAIN frames
  /\ m.fragno + 1 \in 1 .. FragmentCount(Len(frames[m.k].data))
  /\ m = FragmentsOf(m.k, frames[m.k].data, frames[m.k].stamped)[m.fragno + 1]
Precedes(m, n) == m.k < n.k \/ (m.k = n.k /\ m.fragno < n.fragno)

AreSent == \A i \in Fragmented : IsSent(box[i], sent)
InTurn  == \A i, j \in Fragmented : i < j => Precedes(box[i], box[j])

\* The frames from b on whose last fragment was lost.
Missing(b) ==
  {k \in b .. Len(sent) : ~ \E i \in Fragmented : box[i].k = k /\ box[i].last}

\* No fragment of a frame before b is there, and those from b on are missing by
\* faults only.
From(b) ==
  /\ b \in 1 .. Len(sent) + 1
  /\ \A i \in Fragmented : b <= box[i].k
  /\ Cardinality(Missing(b)) <= faults

\* Fragments are being put together, by the hook or a call.
Collecting == hook \/ (job.kind = "eoe_recv" /\ at = "receive")

\* A frame is put together as far as before fragment i.
Holds(r, k, d, i) ==
  /\ r.fragno = i - 1
  /\ r.size = Blocks(Len(d)) * Block
  /\ r.frameno = k % 16
  /\ r.buf = Take(d, Before(i))

\* What is put together is the beginning of frame b.
Begun(b) ==
  /\ b \in DOMAIN sent
  /\ rx.fragno < FragmentCount(Len(sent[b].data))
  /\ Holds(rx, b, sent[b].data, rx.fragno + 1)
  /\ ~ hook => \A i \in Fragmented : box[i].k = b => rx.fragno <= box[i].fragno

Whole == frame # NoFrame => frame.k \in DOMAIN sent /\ FrameWhole

FrameInv ==
  /\ FrameTypes /\ AreSent /\ InTurn /\ Whole
  /\ \E b \in 1 .. Len(sent) + 1 :
       From(b) /\ (Collecting /\ rx.fragno > 0 => Begun(b))

FewFaults  == MaxFaults < 16
FramesFit  == \A n \in Sizes : n + Stamp <= HookBuffer

-----------------------------------------------------------------------------
(* How a frame is divided.                                                 *)

LEMMA Parameters ==
  /\ Sizes \subseteq Nat /\ MailData \in Nat \ {0} /\ MaxCalls \in Nat /\ MaxFaults \in Nat
  /\ Block \in Nat \ {0} /\ Stamp \in Nat /\ Stamped \subseteq BOOLEAN /\ MaxFrames \in Nat
  /\ Block <= MailData + 6
BY ServicesAssumption DEF ServicesAssumption, ServiceParameters, EoeParameters

LEMMA Division ==
  ASSUME NEW a \in Nat, NEW b \in Nat \ {0}
  PROVE  /\ a \div b \in Nat /\ (a \div b) * b \in Nat
         /\ (a \div b) * b <= a /\ a < (a \div b) * b + b
OBVIOUS

LEMMA Monotonic ==
  ASSUME NEW a \in Nat, NEW b \in Nat, NEW c \in Nat, a <= b
  PROVE  a * c <= b * c /\ a * c \in Nat /\ b * c \in Nat
OBVIOUS

LEMMA Multiple ==
  ASSUME NEW a \in Nat, NEW b \in Nat \ {0}
  PROVE  (a * b) \div b = a
OBVIOUS

LEMMA Distributes ==
  ASSUME NEW a \in Int, NEW b \in Int, NEW c \in Int
  PROVE  (a + b) * c = a * c + b * c
OBVIOUS

\* A payload is a number of blocks that fits in a mail.
LEMMA PayloadFits ==
  /\ Payload \in Nat \ {0} /\ Payload <= MailData + 6
  /\ \A j \in Nat : ((j * Payload) \div Block) * Block = j * Payload
<1> DEFINE q == (MailData + 6) \div Block
<1>1. q \in Nat /\ q * Block \in Nat /\ q * Block <= MailData + 6
      /\ MailData + 6 < q * Block + Block
  <2>1. MailData + 6 \in Nat /\ Block \in Nat \ {0}  BY Parameters
  <2> QED BY <2>1, Division
<1>2. Payload = q * Block  BY DEF Payload
<1>3. q * Block # 0
  BY <1>1, Parameters
<1>4. ASSUME NEW j \in Nat PROVE ((j * Payload) \div Block) * Block = j * Payload
  <2> HIDE DEF q
  <2>1. j * Payload = (j * q) * Block  BY <1>1, <1>2, Parameters
  <2>2. j * q \in Nat  BY <1>1
  <2>3. (j * Payload) \div Block = j * q  BY <2>1, <2>2, Multiple, Parameters
  <2> QED BY <2>1, <2>3
<1> QED BY <1>1, <1>2, <1>3, <1>4

\* All fragments but the last are full.
LEMMA Counted ==
  ASSUME NEW total \in Nat
  PROVE  /\ FragmentCount(total) \in Nat \ {0}
         /\ (FragmentCount(total) - 1) * Payload \in Nat
         /\ (FragmentCount(total) - 1) * Payload <= total
         /\ total - (FragmentCount(total) - 1) * Payload <= MailData + 6
         /\ \A i \in Nat : i + 1 < FragmentCount(total) =>
              /\ i * Payload \in Nat /\ (i + 1) * Payload \in Nat
              /\ total - i * Payload > MailData + 6
              /\ (i + 1) * Payload = i * Payload + Payload /\ (i + 1) * Payload <= total
<1> DEFINE n == FragmentCount(total)
<1>0. /\ Payload \in Nat \ {0} /\ Payload <= MailData + 6 /\ MailData \in Nat
      /\ \A i \in Nat : i * Payload \in Nat /\ (i + 1) * Payload = i * Payload + Payload
  <2>1. /\ Payload \in Nat \ {0} /\ Payload <= MailData + 6 /\ MailData \in Nat
    BY PayloadFits, Parameters
  <2> HIDE DEF n
  <2> QED BY <2>1, Distributes
<1>1. CASE total <= MailData + 6
  <2>1. n = 1  BY <1>1 DEF FragmentCount
  <2>2. (n - 1) * Payload = 0  BY <2>1, <1>0
  <2> QED BY <2>1, <2>2, <1>1
<1>2. CASE ~ (total <= MailData + 6)
  <2> DEFINE x == total - (MailData + 6)
             q == (x + Payload - 1) \div Payload
  <2>1. n = 1 + q  BY <1>2 DEF FragmentCount
  <2>2. x \in Nat \ {0} /\ x + Payload - 1 \in Nat  BY <1>0, <1>2
  <2>3. /\ q \in Nat /\ q * Payload \in Nat
        /\ q * Payload <= x + Payload - 1 /\ x + Payload - 1 < q * Payload + Payload
    <3> HIDE DEF x
    <3> QED BY <1>0, <2>2, Division
  <2> HIDE DEF q
  <2>4. q # 0  BY <1>0, <2>2, <2>3
  <2>5. (q - 1) * Payload = q * Payload - Payload /\ q - 1 \in Nat
    BY <1>0, <2>3, <2>4
  <2>6. n \in Nat \ {0} /\ n - 1 = q  BY <2>1, <2>3
  <2>7. (n - 1) * Payload = q * Payload  BY <2>6
  <2> HIDE DEF n
  <2>8. ASSUME NEW i \in Nat, i + 1 < n
        PROVE  /\ total - i * Payload > MailData + 6 /\ (i + 1) * Payload <= total
               /\ (i + 1) * Payload \in Nat
    <3>1. i <= q - 1  BY <2>6, <2>8, <2>3
    <3>2. i * Payload <= (q - 1) * Payload  BY <3>1, <2>5, <1>0, Monotonic
    <3>3. (i + 1) * Payload = i * Payload + Payload /\ i * Payload \in Nat  BY <1>0
    <3> QED BY <3>2, <3>3, <2>5, <2>3, <2>2, <1>0
  <2>9. (n - 1) * Payload <= total /\ total - (n - 1) * Payload <= MailData + 6
    BY <2>7, <2>3, <2>2, <1>0
  <2> QED BY <2>6, <2>7, <2>3, <2>8, <2>9, <1>0 DEF n
<1> QED BY <1>1, <1>2

\* The octets from one place in a sequence to another.
LEMMA Between ==
  ASSUME NEW S, NEW d \in Seq(S), NEW a \in Nat, NEW b \in Nat, a <= b, b <= Len(d)
  PROVE  /\ SubSeq(d, a + 1, b) \in Seq(S) /\ Len(SubSeq(d, a + 1, b)) = b - a
         /\ \A j \in 1 .. b - a : SubSeq(d, a + 1, b)[j] = d[a + j]
<1>1. \A j \in a + 1 .. b : d[j] \in S  OBVIOUS
<1>2. a + 1 \in Int /\ b \in Int  OBVIOUS
<1>3. /\ SubSeq(d, a + 1, b) \in Seq(S)
      /\ Len(SubSeq(d, a + 1, b)) = IF a + 1 <= b THEN b - (a + 1) + 1 ELSE 0
      /\ \A j \in 1 .. b - (a + 1) + 1 : SubSeq(d, a + 1, b)[j] = d[a + 1 + j - 1]
  BY <1>1, <1>2, SubSeqProperties
<1>4. \A j \in 1 .. b - a : a + 1 + j - 1 = a + j  OBVIOUS
<1>5. b - (a + 1) + 1 = b - a  OBVIOUS
<1> QED BY <1>3, <1>4, <1>5

LEMMA StampIs ==
  ASSUME NEW s \in BOOLEAN
  PROVE  StampOf(s) \in Seq(Octet) /\ Len(StampOf(s)) = IF s = TRUE THEN Stamp ELSE 0
<1>1. CASE s = TRUE
  <2>1. StampOf(s) = [j \in 1 .. Stamp |-> <<>>]  BY <1>1 DEF StampOf
  <2> QED BY <2>1, <1>1, Parameters DEF Octet
<1>2. CASE s = FALSE
  <2>1. StampOf(s) = <<>>  BY <1>2 DEF StampOf
  <2> QED BY <2>1, <1>2
<1> QED BY <1>1, <1>2

\* Of a fragment from offset o on: the rest, if it fits, and a payload if not.
LEMMA FragmentFrom ==
  ASSUME NEW d \in Seq(Plain), NEW f \in Nat, NEW o \in Nat, NEW k \in Nat, o <= Len(d)
  PROVE  LET m == EoeFragment(d, f, o, k)
         IN  /\ m.offset = IF f = 0 THEN Blocks(Len(d)) ELSE o \div Block
             /\ Len(d) - o <= MailData + 6 =>
                  m.last = TRUE /\ m.data = SubSeq(d, o + 1, Len(d))
             /\ Len(d) - o > MailData + 6 =>
                  m.last = FALSE /\ m.data = SubSeq(d, o + 1, o + Payload)
<1> DEFINE m == EoeFragment(d, f, o, k)
<1>1. m.offset = IF f = 0 THEN Blocks(Len(d)) ELSE o \div Block
  BY Zenon DEF EoeFragment
<1>2. ASSUME Len(d) - o <= MailData + 6
      PROVE  m.last = TRUE /\ m.data = SubSeq(d, o + 1, Len(d))
  BY <1>2, Zenon DEF EoeFragment, Skip
<1>3. ASSUME Len(d) - o > MailData + 6
      PROVE  m.last = FALSE /\ m.data = SubSeq(d, o + 1, o + Payload)
  <2>1. ~ (Len(d) - o <= MailData + 6)  BY <1>3, Parameters
  <2>2. m.last = (Len(d) - o <= MailData + 6) /\ m.data = IF Len(d) - o <= MailData + 6
          THEN SubSeq(d, o + 1, Len(d)) ELSE Take(SubSeq(d, o + 1, Len(d)), Payload)
    BY Zenon DEF EoeFragment, Skip
  <2>3. Payload \in Nat \ {0} /\ o + Payload < Len(d)
    BY <1>3, PayloadFits, Parameters
  <2>4. Len(SubSeq(d, o + 1, Len(d))) = Len(d) - o
    BY Between
  <2>5. Payload < Len(SubSeq(d, o + 1, Len(d)))
    BY <2>3, <2>4
  <2>6. Take(SubSeq(d, o + 1, Len(d)), Payload) = SubSeq(SubSeq(d, o + 1, Len(d)), 1, Payload)
    BY <2>5, Zenon DEF Take
  <2>7. SubSeq(SubSeq(d, o + 1, Len(d)), 1, Payload) = SubSeq(d, o + 1 + 1 - 1, o + 1 + Payload - 1)
    BY <2>3, SubSeqOfSubSeq
  <2>8. o + 1 + 1 - 1 = o + 1 /\ o + 1 + Payload - 1 = o + Payload
    BY <2>3
  <2>11. (Len(d) - o <= MailData + 6) = FALSE  BY <2>1, Parameters
  <2>9. m.last = FALSE  BY <2>11, <2>2, Zenon
  <2>10. m.data = Take(SubSeq(d, o + 1, Len(d)), Payload)  BY <2>1, <2>2, Zenon
  <2> QED BY <2>6, <2>7, <2>8, <2>9, <2>10, Zenon
<1> QED BY <1>1, <1>2, <1>3, Parameters

\* Where the fragments of a frame begin and end.
LEMMA Places ==
  ASSUME NEW d \in Seq(Plain), NEW i \in 1 .. FragmentCount(Len(d))
  PROVE  /\ Before(i) \in Nat /\ Before(i) <= Len(d)
         /\ i < FragmentCount(Len(d)) =>
              /\ Len(d) - Before(i) > MailData + 6
              /\ Before(i + 1) = Before(i) + Payload /\ Before(i) + Payload <= Len(d)
         /\ i = FragmentCount(Len(d)) => Len(d) - Before(i) <= MailData + 6
<1> DEFINE n == FragmentCount(Len(d))
<1>0. Len(d) \in Nat /\ Payload \in Nat \ {0} /\ Payload <= MailData + 6 /\ MailData \in Nat
  BY PayloadFits, Parameters
<1>1. /\ n \in Nat \ {0} /\ (n - 1) * Payload \in Nat /\ (n - 1) * Payload <= Len(d)
      /\ Len(d) - (n - 1) * Payload <= MailData + 6
  BY <1>0, Counted
<1>2. \A j \in Nat : j + 1 < n =>
            /\ j * Payload \in Nat /\ (j + 1) * Payload \in Nat
            /\ Len(d) - j * Payload > MailData + 6
            /\ (j + 1) * Payload = j * Payload + Payload /\ (j + 1) * Payload <= Len(d)
  BY <1>0, Counted
<1> HIDE DEF n
<1>3. i - 1 \in Nat /\ (i - 1) + 1 = i /\ i \in 1 .. n /\ (i + 1) - 1 = i
  BY <1>1 DEF n
<1>4. CASE i < n
  <2>1. /\ (i - 1) * Payload \in Nat /\ i * Payload \in Nat
        /\ Len(d) - (i - 1) * Payload > MailData + 6
        /\ i * Payload = (i - 1) * Payload + Payload /\ i * Payload <= Len(d)
    BY <1>2, <1>3, <1>4
  <2>2. Before(i) = (i - 1) * Payload /\ Before(i + 1) = i * Payload
    BY <1>3 DEF Before
  <2>3. Before(i) \in Nat /\ Before(i) <= Len(d)
    BY <2>1, <2>2, <1>0
  <2>4. i # n  BY <1>4, <1>3
  <2> QED BY <2>1, <2>2, <2>3, <2>4 DEF n
<1>5. CASE i = n
  <2>1. Before(i) = (n - 1) * Payload  BY <1>5 DEF Before
  <2>2. ~ (i < n)  BY <1>5, <1>1
  <2> QED BY <2>1, <2>2, <1>1, <1>5 DEF n
<1>6. i < n \/ i = n  BY <1>1, <1>3
<1> QED BY <1>4, <1>5, <1>6, Zenon

\* What the fragments of a frame are.
LEMMA FragmentIs ==
  ASSUME NEW k \in Nat, NEW d \in Seq(Plain), NEW s \in BOOLEAN,
         NEW i \in 1 .. FragmentCount(Len(d))
  PROVE  IsNth(FragmentsOf(k, d, s)[i], k, d, s, i)
<1> DEFINE n == FragmentCount(Len(d))
           o == Before(i)
           m == FragmentsOf(k, d, s)[i]
           e == EoeFragment(d, i - 1, o, k % 16)
<1>0. Len(d) \in Nat /\ Payload \in Nat \ {0} /\ MailData \in Nat /\ n \in Nat \ {0} /\ i \in 1 .. n
  BY PayloadFits, Parameters, Counted
<1>1. /\ o \in Nat /\ o <= Len(d)
      /\ i < n => Len(d) - o > MailData + 6 /\ o + Payload <= Len(d)
      /\ i = n => Len(d) - o <= MailData + 6
  BY Places
<1>2. m = NthFragment(k, d, s, i)  BY DEF FragmentsOf
<1>3. /\ NthFragment(k, d, s, i).cmd = "eoe" /\ NthFragment(k, d, s, i).k = k
      /\ NthFragment(k, d, s, i).fragno = i - 1 /\ NthFragment(k, d, s, i).frameno = k % 16
      /\ NthFragment(k, d, s, i).offset = e.offset /\ NthFragment(k, d, s, i).last = e.last
      /\ NthFragment(k, d, s, i).stamped = IF i = n THEN s ELSE FALSE
      /\ NthFragment(k, d, s, i).data = IF i = n THEN e.data \o StampOf(s) ELSE e.data
  BY Zenon DEF NthFragment, Before
<1>4. /\ m.cmd = "eoe" /\ m.k = k /\ m.fragno = i - 1 /\ m.frameno = k % 16
      /\ m.offset = e.offset /\ m.last = e.last
      /\ i = n => m.stamped = s /\ m.data = e.data \o StampOf(s)
      /\ i # n => m.stamped = FALSE /\ m.data = e.data
  BY <1>2, <1>3, Zenon
<1>5. i - 1 \in Nat /\ k % 16 \in Nat  BY <1>0
<1> HIDE DEF m, n, o
<1>6. /\ e.offset = IF i - 1 = 0 THEN Blocks(Len(d)) ELSE o \div Block
      /\ Len(d) - o <= MailData + 6 => e.last = TRUE /\ e.data = SubSeq(d, o + 1, Len(d))
      /\ Len(d) - o > MailData + 6 => e.last = FALSE /\ e.data = SubSeq(d, o + 1, o + Payload)
  BY <1>1, <1>5, FragmentFrom, Zenon
<1> HIDE DEF e
<1>7. (i - 1 = 0) <=> (i = 1)  BY <1>0
<1>8. m.offset = IF i = 1 THEN Blocks(Len(d)) ELSE o \div Block
  BY <1>4, <1>6, <1>7, Zenon
<1>9. ASSUME i < n
      PROVE  m.last = FALSE /\ m.stamped = FALSE /\ m.data = SubSeq(d, o + 1, o + Payload)
  <2>1. i # n  BY <1>9, <1>0
  <2> QED BY <2>1, <1>9, <1>1, <1>4, <1>6, Zenon
<1>10. ASSUME i = n
       PROVE  /\ m.last = TRUE /\ m.stamped = s
              /\ m.data = SubSeq(d, o + 1, Len(d)) \o StampOf(s)
  BY <1>10, <1>1, <1>4, <1>6, Zenon
<1>11. \A b \in Nat : o <= b /\ b <= Len(d) => SubSeq(d, o + 1, b) \in Seq(Octet)
  <2> SUFFICES ASSUME NEW b \in Nat, o <= b, b <= Len(d) PROVE SubSeq(d, o + 1, b) \in Seq(Octet)
    OBVIOUS
  <2>1. SubSeq(d, o + 1, b) \in Seq(Plain)  BY <1>1, Between
  <2>2. Plain \subseteq Octet  BY DEF Octet
  <2> QED BY <2>1, <2>2, SeqMonotonic
<1>12. m.data \in Seq(Octet)
  <2>1. CASE i < n
    <3>1. o + Payload \in Nat /\ o <= o + Payload /\ o + Payload <= Len(d)  BY <2>1, <1>0, <1>1
    <3> QED BY <3>1, <1>9, <1>11, <2>1
  <2>2. CASE i = n
    <3>1. SubSeq(d, o + 1, Len(d)) \in Seq(Octet)  BY <1>0, <1>1, <1>11
    <3>2. StampOf(s) \in Seq(Octet)  BY StampIs
    <3>3. SubSeq(d, o + 1, Len(d)) \o StampOf(s) \in Seq(Octet)
      BY <3>1, <3>2, ConcatProperties
    <3> QED BY <3>3, <1>10, <2>2
  <2> QED BY <2>1, <2>2, <1>0
<1> QED BY <1>4, <1>8, <1>9, <1>10, <1>12, Zenon DEF IsNth, m, n, o

\* They are a sequence.
LEMMA FragmentsAre ==
  ASSUME NEW k \in Nat, NEW d \in Seq(Plain), NEW s \in BOOLEAN
  PROVE  /\ DOMAIN FragmentsOf(k, d, s) = 1 .. FragmentCount(Len(d))
         /\ Len(FragmentsOf(k, d, s)) = FragmentCount(Len(d))
         /\ \E S : FragmentsOf(k, d, s) \in Seq(S)
<1> DEFINE F == FragmentsOf(k, d, s)
           n == FragmentCount(Len(d))
           S == {F[i] : i \in 1 .. n}
<1>1. n \in Nat  BY Counted
<1>2. DOMAIN F = 1 .. n /\ F = [i \in 1 .. n |-> F[i]]  BY Zenon DEF FragmentsOf
<1> HIDE DEF F, n
<1>3. F \in [1 .. n -> S]  BY <1>2
<1> HIDE DEF S
<1>4. F \in Seq(S) /\ Len(F) = n  BY <1>1, <1>2, <1>3
<1> QED BY <1>2, <1>4 DEF F, n

\* A number of blocks that is told holds the frame.
LEMMA BlocksHold ==
  ASSUME NEW total \in Nat
  PROVE  Blocks(total) \in Nat /\ Blocks(total) * Block \in Nat /\ total <= Blocks(total) * Block
<1> DEFINE x == total + Block - 1
<1>1. x \in Nat /\ Block \in Nat \ {0}  BY Parameters
<1>2. /\ x \div Block \in Nat /\ (x \div Block) * Block \in Nat
      /\ x < (x \div Block) * Block + Block
  <2> HIDE DEF x
  <2> QED BY <1>1, Division
<1>3. Blocks(total) = x \div Block  BY DEF Blocks
<1> DEFINE y == (x \div Block) * Block
<1>4. y \in Nat /\ x < y + Block  BY <1>2
<1> HIDE DEF y
<1>5. total <= y  BY <1>1, <1>4, Parameters
<1> QED BY <1>2, <1>3, <1>5 DEF y

\* The beginning of a frame and its next fragment.
LEMMA Grown ==
  ASSUME NEW d \in Seq(Plain), NEW i \in 1 .. FragmentCount(Len(d)), i < FragmentCount(Len(d))
  PROVE  /\ Take(d, Before(i)) \o SubSeq(d, Before(i) + 1, Before(i) + Payload)
              = Take(d, Before(i + 1))
         /\ Len(Take(d, Before(i))) = Before(i) /\ Take(d, Before(i)) \in Seq(Octet)
         /\ Len(SubSeq(d, Before(i) + 1, Before(i) + Payload)) = Payload
<1> DEFINE o == Before(i)
           q == o + Payload
<1>1. /\ o \in Nat /\ o <= Len(d) /\ q \in Nat /\ o <= q /\ q <= Len(d)
      /\ Before(i + 1) = q /\ Len(d) \in Nat
      /\ Payload \in Nat
  BY Places, PayloadFits
<1> HIDE DEF o
<1>2. Take(d, o) = SubSeq(d, 1, o) /\ Take(d, q) = SubSeq(d, 1, q)
  <2>1. (IF o < Len(d) THEN o ELSE Len(d)) = o  BY <1>1
  <2>2. (IF q < Len(d) THEN q ELSE Len(d)) = q  BY <1>1
  <2> QED BY <2>1, <2>2, Zenon DEF Take
<1>6. q = o + Payload  OBVIOUS
<1> HIDE DEF q
<1>3. SubSeq(d, 1, o) \o SubSeq(d, o + 1, q) = SubSeq(d, 1, q)
  <2>1. /\ 1 \in 1 .. Len(d) + 1 /\ o \in 1 - 1 .. Len(d) /\ q \in o .. Len(d)
    BY <1>1
  <2> QED BY <2>1, ConcatAdjacentSubSeq
<1>4. SubSeq(d, 0 + 1, o) \in Seq(Plain) /\ Len(SubSeq(d, 0 + 1, o)) = o - 0
  BY <1>1, Between
<1>5. SubSeq(d, 1, o) \in Seq(Octet)
  <2>1. Plain \subseteq Octet  BY DEF Octet
  <2> QED BY <2>1, <1>4, SeqMonotonic
<1>7. Len(SubSeq(d, o + 1, q)) = q - o  BY <1>1, Between
<1>8. Len(SubSeq(d, 1, o)) = o  BY <1>1, <1>4
<1>9. Len(SubSeq(d, o + 1, q)) = Payload  BY <1>1, <1>6, <1>7
<1> QED BY <1>1, <1>2, <1>3, <1>5, <1>6, <1>8, <1>9, Zenon DEF o

LEMMA Joined ==
  \A a, b, c \in Seq(Octet) : (a \o b) \o c = a \o (b \o c)
BY ConcatAssociative

\* The beginning of a frame and its last fragment.
LEMMA Finished ==
  ASSUME NEW d \in Seq(Plain), NEW i \in 1 .. FragmentCount(Len(d)),
         i = FragmentCount(Len(d)), NEW s \in BOOLEAN
  PROVE  /\ Take(d, Before(i)) \o (SubSeq(d, Before(i) + 1, Len(d)) \o StampOf(s))
              = d \o StampOf(s)
         /\ Take(d, Before(i)) \in Seq(Octet) /\ Len(Take(d, Before(i))) = Before(i)
         /\ Len(SubSeq(d, Before(i) + 1, Len(d)) \o StampOf(s))
              = Len(d) - Before(i) + Len(StampOf(s))
         /\ d \o StampOf(s) \in Seq(Octet)
         /\ Len(d \o StampOf(s)) = Len(d) + Len(StampOf(s))
         /\ Take(d \o StampOf(s), Len(d)) = d
<1> DEFINE o == Before(i)
           q == Len(d)
           t == StampOf(s)
<1>1. o \in Nat /\ o <= q /\ q \in Nat  BY Places
<1>2. t \in Seq(Octet) /\ Len(t) \in Nat
  <2>1. t \in Seq(Octet)  BY StampIs, Zenon
  <2> QED BY <2>1, LenProperties
<1>3. d \in Seq(Octet)
  <2>1. Plain \subseteq Octet  BY DEF Octet
  <2> QED BY <2>1, SeqMonotonic
<1> HIDE DEF o, q, t
<1>4. Take(d, o) = SubSeq(d, 1, o)
  <2>1. (IF o < Len(d) THEN o ELSE Len(d)) = o  BY <1>1 DEF q
  <2> QED BY <2>1, Zenon DEF Take
<1>5. SubSeq(d, 1, o) \o SubSeq(d, o + 1, q) = SubSeq(d, 1, q)
  <2>1. /\ 1 \in 1 .. Len(d) + 1 /\ o \in 1 - 1 .. Len(d) /\ q \in o .. Len(d)
    BY <1>1 DEF q
  <2> QED BY <2>1, <1>3, ConcatAdjacentSubSeq
<1>6. SubSeq(d, 1, q) = d  BY <1>3, SubSeqFull DEF q
<1>7. /\ SubSeq(d, 0 + 1, o) \in Seq(Octet) /\ Len(SubSeq(d, 0 + 1, o)) = o - 0
      /\ SubSeq(d, o + 1, q) \in Seq(Octet) /\ Len(SubSeq(d, o + 1, q)) = q - o
  BY <1>1, <1>3, Between DEF q
<1>8. SubSeq(d, 1, o) \in Seq(Octet) /\ Len(SubSeq(d, 1, o)) = o
  BY <1>7, <1>1
<1>9. SubSeq(d, 1, o) \o (SubSeq(d, o + 1, q) \o t) = d \o t
  <2>1. SubSeq(d, 1, o) \in Seq(Octet) /\ SubSeq(d, o + 1, q) \in Seq(Octet) /\ t \in Seq(Octet)
    BY <1>2, <1>7, <1>8
  <2>2. (SubSeq(d, 1, o) \o SubSeq(d, o + 1, q)) \o t
          = SubSeq(d, 1, o) \o (SubSeq(d, o + 1, q) \o t)
    BY <2>1, Joined, Zenon
  <2> QED BY <2>2, <1>5, <1>6, Zenon
<1>10. Len(SubSeq(d, o + 1, q) \o t) = q - o + Len(t)
  BY <1>2, <1>7, ConcatProperties
<1>11. d \o t \in Seq(Octet) /\ Len(d \o t) = q + Len(t)
  BY <1>2, <1>3, ConcatProperties DEF q
<1>12. Take(d \o t, q) = d
  <2>1. (IF q < Len(d \o t) THEN q ELSE Len(d \o t)) = q  BY <1>1, <1>2, <1>11
  <2>2. Take(d \o t, q) = SubSeq(d \o t, 1, q)  BY <2>1, Zenon DEF Take
  <2>3. CASE q = 0
    <3>1. d = <<>>  BY <2>3, <1>3 DEF q
    <3>2. SubSeq(d \o t, 1, q) = <<>>  BY <2>3, SubSeqEmpty
    <3> QED BY <2>2, <3>1, <3>2
  <2>4. CASE q # 0
    <3>1. 1 \in 1 .. Len(d) /\ q \in 1 .. Len(d)  BY <2>4, <1>1 DEF q
    <3>2. SubSeq(d \o t, 1, q) = SubSeq(d, 1, q)  BY <3>1, <1>2, <1>3, SubSeqOfConcat1
    <3> QED BY <2>2, <3>2, <1>6
  <2> QED BY <2>3, <2>4
<1> QED BY <1>4, <1>8, <1>9, <1>10, <1>11, <1>12, Zenon DEF o, q, t

LEMMA SmallRest ==
  ASSUME NEW a \in Nat, NEW b \in Nat, a < b
  PROVE  a % b = a
OBVIOUS

LEMMA Index ==
  ASSUME NEW d \in Seq(Plain), NEW i \in 1 .. FragmentCount(Len(d))
  PROVE  i \in Nat \ {0} /\ Len(d) \in Nat /\ FragmentCount(Len(d)) \in Nat \ {0}
<1>1. Len(d) \in Nat  OBVIOUS
<1>2. FragmentCount(Len(d)) \in Nat \ {0}  BY <1>1, Counted
<1> QED BY <1>1, <1>2

\* The first fragment opens the frame, the others find it open.
LEMMA Opens ==
  ASSUME NEW k \in Nat, NEW d \in Seq(Plain), NEW s \in BOOLEAN,
         NEW i \in 1 .. FragmentCount(Len(d)), NEW m, IsNth(m, k, d, s, i),
         NEW r \in Assembly, r.fragno = i - 1,
         r.fragno > 0 => Holds(r, k, d, i)
  PROVE  Opened(r, m) \in Assembly /\ Holds(Opened(r, m), k, d, i)
<1>0. i \in Nat \ {0} /\ Len(d) \in Nat  BY Index, Zenon
<1>1. CASE r.fragno = 0
  <2> DEFINE z == [fragno |-> 0, size |-> m.offset * Block, frameno |-> m.frameno, buf |-> <<>>]
  <2>1. i = 1  BY <1>0, <1>1
  <2>2. Opened(r, m) = z  BY <1>1, Zenon DEF Opened
  <2>3. m.offset = Blocks(Len(d)) /\ m.frameno = k % 16
    BY <2>1, Zenon DEF IsNth
  <2>4. m.offset * Block \in Nat /\ m.frameno \in Nat
    BY <2>3, <1>0, BlocksHold
  <2>5. <<>> \in Seq(Octet)  OBVIOUS
  <2>6. z \in Assembly  BY <2>4, <2>5 DEF Assembly
  <2>7. Take(d, Before(i)) = <<>>
    <3>1. Before(i) = 0  BY <2>1, PayloadFits DEF Before
    <3>2. (IF 0 < Len(d) THEN 0 ELSE Len(d)) = 0  BY <1>0
    <3>3. SubSeq(d, 1, 0) = <<>>  BY SubSeqEmpty
    <3> QED BY <3>1, <3>2, <3>3, Zenon DEF Take
  <2>8. z.fragno = 0 /\ z.size = m.offset * Block /\ z.frameno = m.frameno /\ z.buf = <<>>
    OBVIOUS
  <2>9. i - 1 = 0  BY <2>1
  <2> HIDE DEF z
  <2>10. Holds(z, k, d, i)  BY <2>3, <2>7, <2>8, <2>9, Zenon DEF Holds
  <2> QED BY <2>2, <2>6, <2>10, Zenon
<1>2. CASE r.fragno # 0
  <2>1. r.fragno > 0  BY <1>0, <1>2
  <2>2. Opened(r, m) = r  BY <1>2, Zenon DEF Opened
  <2> QED BY <2>1, <2>2, Zenon
<1> QED BY <1>1, <1>2

\* A fragment that fits is put behind what is there.
LEMMA Copies ==
  ASSUME NEW k \in Nat, NEW d \in Seq(Plain), NEW s \in BOOLEAN,
         NEW i \in 1 .. FragmentCount(Len(d)), NEW m, IsNth(m, k, d, s, i),
         NEW r \in Assembly, Holds(r, k, d, i), NEW room \in Nat
  PROVE  /\ Copied(r, m, room) \in Assembly
         /\ i < FragmentCount(Len(d)) /\ Len(d) <= room => Holds(Copied(r, m, room), k, d, i + 1)
         /\ i = FragmentCount(Len(d)) /\ Len(d) + Len(StampOf(s)) <= room =>
              Copied(r, m, room).buf = d \o StampOf(s)
<1> DEFINE n == FragmentCount(Len(d))
           z == [r EXCEPT !.buf = @ \o m.data, !.fragno = @ + 1]
<1>0. i \in Nat \ {0} /\ Len(d) \in Nat /\ n \in Nat \ {0}  BY Index, Zenon
<1>1. m.data \in Seq(Octet)  BY Zenon DEF IsNth
<1>2. /\ r.fragno \in Nat /\ r.size \in Nat /\ r.frameno \in Nat /\ r.buf \in Seq(Octet)
      /\ DOMAIN r = {"fragno", "size", "frameno", "buf"}
  BY DEF Assembly
<1>3. r.buf \o m.data \in Seq(Octet)  BY <1>1, <1>2, ConcatProperties
<1>4. z \in Assembly
  <2> DEFINE y == [r EXCEPT !.buf = r.buf \o m.data]
  <2>1. y \in Assembly /\ y.fragno = r.fragno  BY <1>2, <1>3 DEF Assembly
  <2>2. z = [y EXCEPT !.fragno = r.fragno + 1]  OBVIOUS
  <2>3. r.fragno + 1 \in Nat  BY <1>2
  <2> HIDE DEF y, z
  <2> QED BY <2>1, <2>2, <2>3 DEF Assembly
<1>5. /\ z.fragno = r.fragno + 1 /\ z.size = r.size /\ z.frameno = r.frameno
      /\ z.buf = r.buf \o m.data
  BY <1>2 DEF Assembly
<1>6. Copied(r, m, room) = IF Len(r.buf) + Len(m.data) <= room THEN z ELSE r
  BY DEF Copied
<1> HIDE DEF z, n
<1>7. Copied(r, m, room) \in Assembly  BY <1>4, <1>6
<1>8. /\ r.fragno = i - 1 /\ r.size = Blocks(Len(d)) * Block
      /\ r.frameno = k % 16 /\ r.buf = Take(d, Before(i))
  BY Zenon DEF Holds
<1>9. ASSUME i < n, Len(d) <= room PROVE Holds(Copied(r, m, room), k, d, i + 1)
  <2>1. m.data = SubSeq(d, Before(i) + 1, Before(i) + Payload)
    BY <1>9, Zenon DEF IsNth, n
  <2>2. /\ r.buf \o m.data = Take(d, Before(i + 1))
        /\ Len(r.buf) = Before(i) /\ Len(m.data) = Payload
    BY <1>9, <2>1, <1>8, Grown, Zenon DEF n
  <2>3. Before(i) + Payload <= Len(d) /\ Before(i) \in Nat /\ Payload \in Nat
    BY <1>9, Places, PayloadFits DEF n
  <2>4. Len(r.buf) + Len(m.data) <= room  BY <2>2, <2>3, <1>9, <1>0
  <2>5. Copied(r, m, room) = z  BY <2>4, <1>6, Zenon
  <2>6. z.fragno = (i + 1) - 1  BY <1>5, <1>8, <1>0
  <2> QED BY <2>2, <2>5, <2>6, <1>5, <1>8, Zenon DEF Holds
<1>10. ASSUME i = n, Len(d) + Len(StampOf(s)) <= room
       PROVE  Copied(r, m, room).buf = d \o StampOf(s)
  <2>1. m.data = SubSeq(d, Before(i) + 1, Len(d)) \o StampOf(s)
    BY <1>10, Zenon DEF IsNth, n
  <2>2. /\ r.buf \o m.data = d \o StampOf(s) /\ Len(r.buf) = Before(i)
        /\ Len(m.data) = Len(d) - Before(i) + Len(StampOf(s))
    <3>1. i = FragmentCount(Len(d))  BY <1>10, Zenon DEF n
    <3>2. /\ Take(d, Before(i)) \o (SubSeq(d, Before(i) + 1, Len(d)) \o StampOf(s))
               = d \o StampOf(s)
          /\ Len(Take(d, Before(i))) = Before(i)
          /\ Len(SubSeq(d, Before(i) + 1, Len(d)) \o StampOf(s))
               = Len(d) - Before(i) + Len(StampOf(s))
      BY <3>1, Finished
    <3>3. r.buf = Take(d, Before(i))  BY <1>8
    <3> QED BY <2>1, <3>2, <3>3
  <2>3. Before(i) \in Nat /\ Before(i) <= Len(d)  BY Places
  <2>4. Len(StampOf(s)) \in Nat
    <3>1. StampOf(s) \in Seq(Octet)  BY StampIs, Zenon
    <3> QED BY <3>1, LenProperties
  <2>5. Len(r.buf) + Len(m.data) <= room  BY <2>2, <2>3, <2>4, <1>10, <1>0
  <2> QED BY <2>2, <2>5, <1>5, <1>6, Zenon
<1> QED BY <1>7, <1>9, <1>10 DEF n

\* A frame that is told complete.
LEMMA Completes ==
  ASSUME NEW k \in Nat, NEW d \in Seq(Plain), NEW s \in BOOLEAN,
         NEW i \in 1 .. FragmentCount(Len(d)), i = FragmentCount(Len(d)),
         NEW m, IsNth(m, k, d, s, i),
         NEW r, r.buf = d \o StampOf(s), Len(d) <= HookBuffer
  PROVE  LET c == Completed(r, m)
         IN  c.k = k /\ c.size = Len(d) /\ c.data = d
<1>1. m.k = k /\ m.stamped = s  BY Zenon DEF IsNth
<1>2. Len(r.buf) = Len(d) + Len(StampOf(s)) /\ Take(r.buf, Len(d)) = d
  BY Finished, Zenon
<1>3. Len(StampOf(s)) = IF s THEN Stamp ELSE 0
  <2>1. CASE s = TRUE   BY <2>1, StampIs, Zenon
  <2>2. CASE s = FALSE  BY <2>2, StampIs, Zenon
  <2> QED BY <2>1, <2>2
<1>4. Len(StampOf(s)) \in Nat
  <2>1. StampOf(s) \in Seq(Octet)  BY StampIs, Zenon
  <2> QED BY <2>1, LenProperties
<1>5. FrameSize(r, m) = (Len(r.buf) - Len(StampOf(s))) % 2^16
  BY <1>1, <1>3, Zenon DEF FrameSize
<1>6. Len(r.buf) - Len(StampOf(s)) = Len(d)  BY <1>2, <1>4, LenProperties
<1>7. Len(d) % 2^16 = Len(d)
  <2>1. Len(d) \in Nat  BY LenProperties
  <2>2. HookBuffer < 2^16 /\ 2^16 \in Nat /\ HookBuffer \in Nat  BY SMT DEF HookBuffer
  <2>3. Len(d) < 2^16  BY <2>1, <2>2, SMT
  <2> QED BY <2>1, <2>2, <2>3, SmallRest, SMT
<1>8. FrameSize(r, m) = Len(d)  BY <1>5, <1>6, <1>7, Zenon
<1>9. /\ Completed(r, m).k = m.k /\ Completed(r, m).size = FrameSize(r, m)
      /\ Completed(r, m).data = Take(r.buf, FrameSize(r, m))
  BY Zenon DEF Completed
<1> QED BY <1>1, <1>2, <1>8, <1>9, Zenon

-----------------------------------------------------------------------------
(* What is in the mailbox.                                                 *)

LEMMA SentIs ==
  ASSUME FrameTypes, NEW k \in DOMAIN sent
  PROVE  /\ k \in Nat \ {0} /\ k <= Len(sent) /\ Len(sent) \in Nat
         /\ sent[k].data \in Seq(Plain) /\ sent[k].stamped \in BOOLEAN
         /\ Len(sent[k].data) \in Sizes
<1>1. sent \in Seq([data : Seq(Plain), stamped : BOOLEAN])  BY DEF FrameTypes
<1>2. Len(sent) \in Nat /\ DOMAIN sent = 1 .. Len(sent)  BY <1>1, LenProperties
<1>3. sent[k] \in [data : Seq(Plain), stamped : BOOLEAN]  BY <1>1, <1>2, ElementOfSeq
<1>4. k \in Nat \ {0} /\ k <= Len(sent)  BY <1>2
<1>5. sent[k].data \in Seq(Plain) /\ sent[k].stamped \in BOOLEAN  BY <1>3
<1>6. Len(sent[k].data) \in Sizes  BY DEF FrameTypes
<1> QED BY <1>2, <1>4, <1>5, <1>6

LEMMA Known ==
  ASSUME FrameTypes, AreSent, NEW i \in Fragmented
  PROVE  LET m == box[i]
             k == m.k
             d == sent[k].data
         IN  /\ i \in Nat \ {0} /\ i <= Len(box) /\ k \in DOMAIN sent
             /\ m.fragno \in Nat /\ m.fragno + 1 \in 1 .. FragmentCount(Len(d))
             /\ IsNth(m, k, d, sent[k].stamped, m.fragno + 1)
<1> DEFINE m == box[i]
           k == m.k
           d == sent[k].data
           s == sent[k].stamped
<1>1. /\ k \in DOMAIN sent /\ m.fragno + 1 \in 1 .. FragmentCount(Len(d))
      /\ m = FragmentsOf(k, d, s)[m.fragno + 1]
  BY Zenon DEF AreSent, IsSent
<1>2. i \in DOMAIN box /\ box \in Seq(Range(box))  BY DEF Fragmented, FrameTypes
<1>3. i \in Nat \ {0} /\ i <= Len(box)  BY <1>2, LenProperties
<1>4. k \in Nat /\ d \in Seq(Plain) /\ s \in BOOLEAN  BY <1>1, SentIs
<1> HIDE DEF m, k, d, s
<1> DEFINE j == m.fragno + 1
<1>7. IsNth(FragmentsOf(k, d, s)[j], k, d, s, j)
  BY <1>1, <1>4, FragmentIs, Zenon
<1>9. IsNth(m, k, d, s, j)  BY <1>1, <1>7, Zenon
<1>10. m.fragno = j - 1  BY <1>9, Zenon DEF IsNth
<1>11. m.fragno \in Nat
  <2> HIDE DEF j
  <2>1. j \in Nat \ {0}  BY <1>1, <1>4, Index, Zenon DEF j
  <2> QED BY <2>1, <1>10
<1> QED BY <1>1, <1>3, <1>9, <1>11 DEF m, k, d, s

\* The last fragment of a frame is the one with the highest number.
LEMMA LastIs ==
  ASSUME FrameTypes, AreSent, NEW i \in Fragmented
  PROVE  /\ box[i].last \in BOOLEAN
         /\ box[i].last <=> box[i].fragno + 1 = FragmentCount(Len(sent[box[i].k].data))
<1> DEFINE m == box[i]
           k == m.k
           d == sent[k].data
           n == FragmentCount(Len(d))
           j == m.fragno + 1
<1>1. m.fragno \in Nat /\ j \in 1 .. n /\ IsNth(m, k, d, sent[k].stamped, j) /\ k \in DOMAIN sent
  BY Known, Zenon
<1>2. d \in Seq(Plain)  BY <1>1, SentIs
<1>3. j \in Nat /\ n \in Nat  BY <1>1, <1>2, Index
<1> HIDE DEF m, k, d, n, j
<1>4. j < n => m.last = FALSE  BY <1>1, Zenon DEF IsNth, n
<1>5. j = n => m.last = TRUE   BY <1>1, Zenon DEF IsNth, n
<1>6. j < n \/ j = n  BY <1>1, <1>3
<1>7. ~ (j < n /\ j = n)  BY <1>3
<1> QED BY <1>4, <1>5, <1>6, <1>7, Zenon DEF m, k, d, n, j

\* The fragments of a new mailbox are some of the old one, in the same order.
Thinned(g) ==
  /\ \A i \in Fragmented' : g[i] \in Fragmented /\ box'[i] = box[g[i]]
  /\ \A i, j \in Fragmented' : i < j => g[i] < g[j]

LEMMA StayInTurn ==
  ASSUME AreSent, InTurn, sent' = sent, NEW g, Thinned(g)
  PROVE  AreSent' /\ InTurn'
<1>1. \A i \in Fragmented' : IsSent(box'[i], sent')
  BY Zenon DEF AreSent, Thinned
<1>2. \A i, j \in Fragmented' : i < j => Precedes(box'[i], box'[j])
  BY Zenon DEF InTurn, Thinned
<1> QED BY <1>1, <1>2, Zenon DEF AreSent, InTurn

LEMMA HeadIs ==
  ASSUME FrameTypes, box # <<>>
  PROVE  /\ 1 \in DOMAIN box /\ Head(box) = box[1]
         /\ IsFragment(Head(box)) => 1 \in Fragmented
<1>1. box \in Seq(Range(box))  BY DEF FrameTypes
<1>2. Len(box) \in Nat \ {0} /\ DOMAIN box = 1 .. Len(box)  BY <1>1, EmptySeq, LenProperties
<1>3. 1 \in DOMAIN box /\ Head(box) = box[1]  BY <1>1, <1>2
<1> QED BY <1>3, Zenon DEF Fragmented

LEMMA Shifted ==
  ASSUME FrameTypes, box # <<>>, box' = Tail(box)
  PROVE  /\ box' \in Seq(Range(box'))
         /\ \A i \in Fragmented' :
              i \in Nat \ {0} /\ i + 1 \in Fragmented /\ box'[i] = box[i + 1]
         /\ \A j \in Fragmented : j # 1 => j - 1 \in Fragmented' /\ box'[j - 1] = box[j]
<1> DEFINE S == Range(box)
<1>1. box \in Seq(S)  BY DEF FrameTypes
<1> HIDE DEF S
<1>2. Len(box) \in Nat \ {0} /\ DOMAIN box = 1 .. Len(box)  BY <1>1, EmptySeq, LenProperties
<1>3. /\ Tail(box) \in Seq(S) /\ Len(Tail(box)) = Len(box) - 1
      /\ \A i \in 1 .. Len(Tail(box)) : Tail(box)[i] = box[i + 1]
  BY <1>1, HeadTailProperties
<1>4. box' \in Seq(Range(box'))  BY <1>3, SeqOfRange
<1>5. DOMAIN box' = 1 .. Len(box) - 1
  <2>1. DOMAIN Tail(box) = 1 .. Len(Tail(box))  BY <1>3, LenProperties
  <2> QED BY <2>1, <1>3
<1>6. ASSUME NEW i \in Fragmented'
      PROVE  i \in Nat \ {0} /\ i + 1 \in Fragmented /\ box'[i] = box[i + 1]
  <2>1. i \in DOMAIN box' /\ IsFragment(box'[i])  BY Zenon DEF Fragmented, IsFragment
  <2>2. i \in Nat \ {0} /\ i + 1 \in DOMAIN box /\ i \in 1 .. Len(Tail(box))
    BY <2>1, <1>2, <1>3, <1>5
  <2>3. box'[i] = box[i + 1]  BY <2>2, <1>3
  <2> QED BY <2>1, <2>2, <2>3, Zenon DEF Fragmented
<1>7. ASSUME NEW j \in Fragmented, j # 1
      PROVE  j - 1 \in Fragmented' /\ box'[j - 1] = box[j]
  <2>1. j \in DOMAIN box /\ IsFragment(box[j])  BY Zenon DEF Fragmented
  <2>2. j - 1 \in DOMAIN box' /\ j - 1 \in 1 .. Len(Tail(box)) /\ (j - 1) + 1 = j
    BY <2>1, <1>2, <1>3, <1>5, <1>7
  <2>3. box'[j - 1] = box[(j - 1) + 1]  BY <2>2, <1>3
  <2>4. box'[j - 1] = box[j]  BY <2>2, <2>3
  <2>5. IsFragment(box'[j - 1])  BY <2>1, <2>4, Zenon
  <2> QED BY <2>2, <2>4, <2>5, Zenon DEF Fragmented, IsFragment
<1> QED BY <1>4, <1>6, <1>7

LEMMA Extended ==
  ASSUME FrameTypes, NEW T, NEW s \in Seq(T), box' = box \o s
  PROVE  /\ box' \in Seq(Range(box')) /\ Len(box) \in Nat
         /\ \A i \in Fragmented : i \in Fragmented' /\ box'[i] = box[i]
         /\ \A i \in Fragmented' :
              \/ i \in Fragmented /\ box'[i] = box[i]
              \/ /\ i - Len(box) \in 1 .. Len(s) /\ i \in Nat /\ i > Len(box)
                 /\ box'[i] = s[i - Len(box)] /\ IsFragment(s[i - Len(box)])
         /\ \A j \in 1 .. Len(s) : IsFragment(s[j]) =>
              Len(box) + j \in Fragmented' /\ box'[Len(box) + j] = s[j]
<1> DEFINE S == Range(box) \union T
<1>1. box \in Seq(Range(box))  BY DEF FrameTypes
<1>2. Range(box) \subseteq S /\ T \subseteq S  OBVIOUS
<1> HIDE DEF S
<1>3. box \in Seq(S) /\ s \in Seq(S)  BY <1>1, <1>2, SeqMonotonic
<1>4. Len(box) \in Nat /\ DOMAIN box = 1 .. Len(box) /\ Len(s) \in Nat /\ DOMAIN s = 1 .. Len(s)
  BY <1>3, LenProperties
<1>5. /\ box \o s \in Seq(S) /\ Len(box \o s) = Len(box) + Len(s)
      /\ \A i \in 1 .. Len(box) + Len(s) : (box \o s)[i] =
           IF i <= Len(box) THEN box[i] ELSE s[i - Len(box)]
  BY <1>3, ConcatProperties
<1>6. box' \in Seq(Range(box'))  BY <1>5, SeqOfRange
<1>7. DOMAIN box' = 1 .. Len(box) + Len(s)
  <2>1. DOMAIN (box \o s) = 1 .. Len(box \o s)  BY <1>5, LenProperties
  <2> QED BY <2>1, <1>5
<1>8. ASSUME NEW i \in Fragmented PROVE i \in Fragmented' /\ box'[i] = box[i]
  <2>1. i \in DOMAIN box /\ IsFragment(box[i])  BY Zenon DEF Fragmented
  <2>2. i \in DOMAIN box' /\ i \in 1 .. Len(box) + Len(s) /\ i <= Len(box)
    BY <2>1, <1>4, <1>7
  <2>3. box'[i] = box[i]  BY <2>2, <1>5
  <2>4. IsFragment(box'[i])  BY <2>1, <2>3, Zenon
  <2> QED BY <2>2, <2>3, <2>4, Zenon DEF Fragmented, IsFragment
<1>9. ASSUME NEW i \in Fragmented'
      PROVE  \/ i \in Fragmented /\ box'[i] = box[i]
             \/ /\ i - Len(box) \in 1 .. Len(s) /\ i \in Nat /\ i > Len(box)
                /\ box'[i] = s[i - Len(box)] /\ IsFragment(s[i - Len(box)])
  <2>1. i \in DOMAIN box' /\ IsFragment(box'[i])  BY Zenon DEF Fragmented, IsFragment
  <2>2. CASE i <= Len(box)
    <3>1. i \in DOMAIN box /\ i \in 1 .. Len(box) + Len(s)  BY <2>1, <2>2, <1>4, <1>7
    <3>2. box'[i] = box[i]  BY <3>1, <2>2, <1>5
    <3>3. IsFragment(box[i])  BY <2>1, <3>2, Zenon
    <3> QED BY <3>1, <3>2, <3>3, Zenon DEF Fragmented
  <2>3. CASE ~ (i <= Len(box))
    <3>1. i \in 1 .. Len(box) + Len(s)  BY <2>1, <1>7
    <3>2. i - Len(box) \in 1 .. Len(s) /\ i \in Nat /\ i > Len(box)  BY <3>1, <2>3, <1>4
    <3>3. box'[i] = s[i - Len(box)]  BY <3>1, <2>3, <1>5
    <3>4. IsFragment(s[i - Len(box)])  BY <2>1, <3>3, Zenon
    <3> QED BY <3>2, <3>3, <3>4
  <2> QED BY <2>2, <2>3
<1>10. ASSUME NEW j \in 1 .. Len(s), IsFragment(s[j])
       PROVE  Len(box) + j \in Fragmented' /\ box'[Len(box) + j] = s[j]
  <2> DEFINE i == Len(box) + j
  <2>1. i \in 1 .. Len(box) + Len(s) /\ ~ (i <= Len(box)) /\ i - Len(box) = j
    BY <1>4
  <2>2. box'[i] = s[i - Len(box)]
    <3> HIDE DEF i
    <3> QED BY <2>1, <1>5
  <2>3. box'[i] = s[j]  BY <2>1, <2>2
  <2>4. i \in DOMAIN box'  BY <2>1, <1>7
  <2> HIDE DEF i
  <2>5. IsFragment(box'[i])  BY <2>3, <1>10, Zenon
  <2>6. i \in Fragmented'  BY <2>4, <2>5, Zenon DEF Fragmented, IsFragment
  <2> QED BY <2>3, <2>6 DEF i
<1> QED BY <1>4, <1>6, <1>8, <1>9, <1>10

LEMMA Removed ==
  ASSUME FrameTypes, NEW x \in DOMAIN box, box' = RemoveAt(box, x)
  PROVE  /\ box' \in Seq(Range(box'))
         /\ \A i \in Fragmented' :
              LET j == IF i < x THEN i ELSE i + 1
              IN  i \in Nat /\ j \in Fragmented /\ box'[i] = box[j]
         /\ \A j \in Fragmented : j # x => \E i \in Fragmented' : box'[i] = box[j]
<1> DEFINE S == Range(box)
           head == SubSeq(box, 1, x - 1)
           q == SubSeq(box, x + 1, Len(box))
<1>1. box \in Seq(S)  BY DEF FrameTypes
<1> HIDE DEF S
<1>2. Len(box) \in Nat /\ DOMAIN box = 1 .. Len(box) /\ x \in 1 .. Len(box)
  BY <1>1, LenProperties
<1>3. /\ head \in Seq(S) /\ Len(head) = x - 1 /\ \A i \in 1 .. x - 1 : head[i] = box[i]
  <2>1. 0 \in Nat /\ x - 1 \in Nat /\ 0 <= x - 1 /\ x - 1 <= Len(box)  BY <1>2
  <2>2. /\ SubSeq(box, 0 + 1, x - 1) \in Seq(S) /\ Len(SubSeq(box, 0 + 1, x - 1)) = x - 1 - 0
        /\ \A i \in 1 .. x - 1 - 0 : SubSeq(box, 0 + 1, x - 1)[i] = box[0 + i]
    BY <2>1, <1>1, Between
  <2>3. 0 + 1 = 1 /\ x - 1 - 0 = x - 1 /\ \A i \in 1 .. x - 1 : 0 + i = i  BY <2>1
  <2> QED BY <2>2, <2>3
<1>4. /\ q \in Seq(S) /\ Len(q) = Len(box) - x /\ \A i \in 1 .. Len(box) - x : q[i] = box[x + i]
  <2>1. x \in Nat /\ Len(box) \in Nat /\ x <= Len(box) /\ Len(box) <= Len(box)  BY <1>2
  <2> QED BY <2>1, <1>1, Between
<1>5. box' = head \o q  BY DEF RemoveAt
<1> HIDE DEF head, q
<1>6. /\ head \o q \in Seq(S) /\ Len(head \o q) = Len(head) + Len(q)
      /\ \A i \in 1 .. Len(head) + Len(q) :
           (head \o q)[i] = IF i <= Len(head) THEN head[i] ELSE q[i - Len(head)]
  BY <1>3, <1>4, ConcatProperties
<1>7. box' \in Seq(Range(box'))  BY <1>5, <1>6, SeqOfRange
<1>8. Len(head) + Len(q) = Len(box) - 1  BY <1>2, <1>3, <1>4
<1>9. DOMAIN box' = 1 .. Len(box) - 1
  <2>1. DOMAIN (head \o q) = 1 .. Len(head \o q)  BY <1>6, LenProperties
  <2> QED BY <2>1, <1>5, <1>6, <1>8
<1>10. \A i \in 1 .. Len(box) - 1 : box'[i] = box[IF i < x THEN i ELSE i + 1]
  <2> SUFFICES ASSUME NEW i \in 1 .. Len(box) - 1
               PROVE box'[i] = box[IF i < x THEN i ELSE i + 1]
    OBVIOUS
  <2>1. box'[i] = IF i <= Len(head) THEN head[i] ELSE q[i - Len(head)]  BY <1>5, <1>6, <1>8
  <2>2. CASE i < x
    <3>1. i <= Len(head) /\ i \in 1 .. x - 1  BY <2>2, <1>2, <1>3
    <3>2. box'[i] = box[i]  BY <3>1, <2>1, <1>3
    <3> QED BY <3>2, <2>2
  <2>3. CASE ~ (i < x)
    <3>1. /\ ~ (i <= Len(head))
          /\ i - Len(head) \in 1 .. Len(box) - x /\ x + (i - Len(head)) = i + 1
      BY <2>3, <1>2, <1>3
    <3>2. box'[i] = box[x + (i - Len(head))]  BY <3>1, <2>1, <1>4
    <3> QED BY <3>1, <3>2, <2>3
  <2> QED BY <2>2, <2>3
<1>11. ASSUME NEW i \in Fragmented'
       PROVE  LET j == IF i < x THEN i ELSE i + 1
              IN  i \in Nat /\ j \in Fragmented /\ box'[i] = box[j]
  <2> DEFINE j == IF i < x THEN i ELSE i + 1
  <2>1. i \in DOMAIN box' /\ IsFragment(box'[i])  BY Zenon DEF Fragmented, IsFragment
  <2>2. i \in 1 .. Len(box) - 1 /\ i \in Nat  BY <2>1, <1>2, <1>9
  <2>3. j \in DOMAIN box  BY <2>2, <1>2
  <2>4. box'[i] = box[j]  BY <2>2, <1>10
  <2> HIDE DEF j
  <2>5. j \in Fragmented  BY <2>1, <2>3, <2>4, Zenon DEF Fragmented
  <2> QED BY <2>2, <2>4, <2>5 DEF j
<1>12. ASSUME NEW j \in Fragmented, j # x
       PROVE  \E i \in Fragmented' : box'[i] = box[j]
  <2> DEFINE i == IF j < x THEN j ELSE j - 1
  <2>1. j \in DOMAIN box /\ IsFragment(box[j])  BY Zenon DEF Fragmented
  <2>2. i \in 1 .. Len(box) - 1 /\ (IF i < x THEN i ELSE i + 1) = j
    BY <2>1, <1>2, <1>12
  <2> HIDE DEF i
  <2>3. i \in DOMAIN box' /\ box'[i] = box[j]
    BY <2>2, <1>9, <1>10
  <2>4. IsFragment(box'[i])  BY <2>1, <2>3, Zenon
  <2>5. i \in Fragmented'  BY <2>3, <2>4, Zenon DEF Fragmented, IsFragment
  <2> QED BY <2>3, <2>5
<1> QED BY <1>7, <1>11, <1>12

\* Frames that are missing are counted.
LEMMA Lacking ==
  ASSUME FrameTypes, NEW b \in Nat
  PROVE  IsFiniteSet(Missing(b)) /\ Cardinality(Missing(b)) \in Nat
<1>1. Len(sent) \in Nat
  <2>1. sent \in Seq([data : Seq(Plain), stamped : BOOLEAN])  BY DEF FrameTypes
  <2> QED BY <2>1, LenProperties
<1>2. IsFiniteSet(b .. Len(sent))  BY <1>1, FS_Interval
<1>3. Missing(b) \in SUBSET (b .. Len(sent))  BY DEF Missing
<1>4. IsFiniteSet(Missing(b))  BY <1>2, <1>3, FS_Subset
<1> QED BY <1>4, FS_CardinalityType

LEMMA NoneMore ==
  ASSUME FrameTypes, NEW b \in Nat, NEW c \in Nat, Missing(c)' \subseteq Missing(b),
         Cardinality(Missing(b)) <= faults, faults' \in Nat, faults <= faults'
  PROVE  Cardinality(Missing(c)') <= faults'
<1>1. IsFiniteSet(Missing(b)) /\ Cardinality(Missing(b)) \in Nat  BY Lacking
<1>2. Missing(c)' \in SUBSET Missing(b)  OBVIOUS
<1>3. Cardinality(Missing(c)') <= Cardinality(Missing(b)) /\ IsFiniteSet(Missing(c)')
  BY <1>1, <1>2, FS_Subset
<1>4. Cardinality(Missing(c)') \in Nat  BY <1>3, FS_CardinalityType
<1>5. faults \in Nat  BY Parameters DEF FrameTypes
<1> QED BY <1>1, <1>3, <1>4, <1>5

\* What is being put together is not touched when others leave the mailbox.
LEMMA StillBegun ==
  ASSUME sent' = sent, rx' = rx, hook' = hook, NEW g, Thinned(g), NEW b, Begun(b)
  PROVE  Begun(b)'
<1>1. ASSUME ~ hook, NEW i \in Fragmented', box'[i].k = b
      PROVE  rx.fragno <= box'[i].fragno
  BY <1>1, Zenon DEF Thinned, Begun
<1> QED BY <1>1, Zenon DEF Begun

\* The mailbox keeps all its fragments.
LEMMA Kept ==
  ASSUME FrameTypes, AreSent, InTurn, sent' = sent, rx' = rx, hook' = hook,
         faults' \in Nat, faults <= faults', Collecting' => Collecting,
         NEW g, Thinned(g), \A j \in Fragmented : \E i \in Fragmented' : box'[i] = box[j],
         NEW b, From(b), Collecting /\ rx.fragno > 0 => Begun(b)
  PROVE  /\ AreSent' /\ InTurn' /\ From(b)'
         /\ Collecting' /\ rx'.fragno > 0 => Begun(b)'
<1>1. AreSent' /\ InTurn'  BY StayInTurn
<1>2. b \in 1 .. Len(sent) + 1 /\ b \in Nat
  <2>1. b \in 1 .. Len(sent) + 1  BY DEF From
  <2>2. Len(sent) \in Nat
    <3>1. sent \in Seq([data : Seq(Plain), stamped : BOOLEAN])  BY DEF FrameTypes
    <3> QED BY <3>1, LenProperties
  <2> QED BY <2>1, <2>2
<1>3. \A i \in Fragmented' : b <= box'[i].k
  BY Zenon DEF From, Thinned
<1>4. Missing(b)' \subseteq Missing(b)
  <2> SUFFICES ASSUME NEW k \in Missing(b)' PROVE k \in Missing(b)
    OBVIOUS
  <2>1. /\ k \in b .. Len(sent)
        /\ ~ \E i \in Fragmented' : box'[i].k = k /\ box'[i].last
    BY Zenon DEF Missing
  <2>2. ~ \E i \in Fragmented : box[i].k = k /\ box[i].last
    BY <2>1, Zenon
  <2> QED BY <2>1, <2>2, Zenon DEF Missing
<1>5. Cardinality(Missing(b)) <= faults  BY DEF From
<1>6. Cardinality(Missing(b)') <= faults'  BY <1>2, <1>4, <1>5, NoneMore
<1>7. From(b)'  BY <1>2, <1>3, <1>6, Zenon DEF From
<1>8. Collecting' /\ rx'.fragno > 0 => Begun(b)'  BY StillBegun, Zenon
<1> QED BY <1>1, <1>7, <1>8

LEMMA HeadFirst ==
  ASSUME FrameTypes, AreSent, InTurn, box # <<>>, IsFragment(Head(box))
  PROVE  /\ 1 \in Fragmented /\ Head(box) = box[1]
         /\ \A i \in Fragmented : i # 1 => Precedes(box[1], box[i])
         /\ \A i \in Fragmented : box[1].k <= box[i].k
<1>1. 1 \in Fragmented /\ Head(box) = box[1]  BY HeadIs
<1>2. \A i \in Fragmented : i # 1 => 1 < i
  <2> SUFFICES ASSUME NEW i \in Fragmented, i # 1 PROVE 1 < i  OBVIOUS
  <2>1. i \in Nat \ {0}  BY Known, Zenon
  <2> QED BY <2>1
<1>3. \A i \in Fragmented : i # 1 => Precedes(box[1], box[i])
  BY <1>1, <1>2, Zenon DEF InTurn
<1>4. ASSUME NEW i \in Fragmented PROVE box[1].k <= box[i].k
  <2>1. box[1].k \in DOMAIN sent /\ box[i].k \in DOMAIN sent  BY <1>1, Known, Zenon
  <2>2. box[1].k \in Nat /\ box[i].k \in Nat  BY <2>1, SentIs, Zenon
  <2>3. i # 1 => box[1].k < box[i].k \/ box[1].k = box[i].k  BY <1>3, Zenon DEF Precedes
  <2> QED BY <2>2, <2>3
<1> QED BY <1>1, <1>3, <1>4

\* The frame of the next fragment: the one after it, if this is its last.
Onward(m) == IF m.last THEN m.k + 1 ELSE m.k

\* When the next fragment is taken, none of an earlier frame is left.
LEMMA Gone ==
  ASSUME FrameTypes, AreSent, InTurn, box # <<>>, IsFragment(Head(box)), box' = Tail(box),
         sent' = sent, faults' \in Nat, faults <= faults', NEW b, From(b),
         NEW c, c = Onward(Head(box))
  PROVE  AreSent' /\ InTurn' /\ From(c)' /\ box' \in Seq(Range(box'))
<1> DEFINE m == box[1]
           k == m.k
<1>1. /\ 1 \in Fragmented /\ Head(box) = m
      /\ \A i \in Fragmented : i # 1 => Precedes(m, box[i])
  BY HeadFirst, Zenon
<1>2. /\ box' \in Seq(Range(box'))
      /\ \A i \in Fragmented' : i \in Nat \ {0} /\ i + 1 \in Fragmented /\ box'[i] = box[i + 1]
      /\ \A j \in Fragmented : j # 1 => j - 1 \in Fragmented' /\ box'[j - 1] = box[j]
  BY Shifted, Zenon
<1>3. AreSent' /\ InTurn'
  <2> DEFINE g == [i \in Fragmented' |-> i + 1]
  <2>1. \A i \in Fragmented' : g[i] = i + 1  OBVIOUS
  <2> HIDE DEF g
  <2>2. \A i, j \in Fragmented' : i < j => g[i] < g[j]
    <3> SUFFICES ASSUME NEW i \in Fragmented', NEW j \in Fragmented', i < j PROVE g[i] < g[j]
      OBVIOUS
    <3>1. i \in Nat /\ j \in Nat  BY <1>2, Zenon
    <3>2. i + 1 < j + 1  BY <3>1
    <3> QED BY <3>2, <2>1, Zenon
  <2>3. Thinned(g)  BY <1>2, <2>1, <2>2, Zenon DEF Thinned
  <2> QED BY <2>3, StayInTurn, Zenon
<1>4. k \in DOMAIN sent /\ m.fragno \in Nat  BY <1>1, Known, Zenon
<1>5. k \in Nat \ {0} /\ k <= Len(sent) /\ Len(sent) \in Nat  BY <1>4, SentIs, Zenon
<1>6. m.last \in BOOLEAN /\ (m.last <=> m.fragno + 1 = FragmentCount(Len(sent[k].data)))
  BY <1>1, LastIs, Zenon
<1>7. c = (IF m.last THEN k + 1 ELSE k)  BY <1>1, Zenon DEF Onward
<1>8. b \in Nat /\ b <= k
  <2>1. b \in 1 .. Len(sent) + 1  BY DEF From
  <2>2. b <= m.k  BY <1>1, Zenon DEF From
  <2> QED BY <1>5, <2>1, <2>2
<1> HIDE DEF m, k
<1>9. c \in Nat \ {0} /\ c \in 1 .. Len(sent) + 1 /\ k <= c /\ b <= c /\ (m.last => c = k + 1)
      /\ (~ m.last => c = k)
  <2>1. CASE m.last   BY <2>1, <1>5, <1>7, <1>8
  <2>2. CASE ~ m.last  BY <2>2, <1>5, <1>7, <1>8
  <2> QED BY <2>1, <2>2
<1>10. \A i \in Fragmented : i # 1 => c <= box[i].k
  <2> SUFFICES ASSUME NEW i \in Fragmented, i # 1 PROVE c <= box[i].k  OBVIOUS
  <2> DEFINE l == box[i].k
  <2>1. /\ l \in DOMAIN sent /\ box[i].fragno \in Nat
        /\ box[i].fragno + 1 \in 1 .. FragmentCount(Len(sent[l].data))
    BY Known, Zenon
  <2>2. l \in Nat /\ sent[l].data \in Seq(Plain)  BY <2>1, SentIs, Zenon
  <2>3. k < l \/ (k = l /\ m.fragno < box[i].fragno)  BY <1>1, Zenon DEF Precedes, k
  <2>4. CASE k < l
    <3> HIDE DEF l
    <3>1. k + 1 <= l  BY <2>2, <2>4, <1>5
    <3>2. c <= k + 1  BY <1>5, <1>9
    <3> QED BY <3>1, <3>2, <2>2, <1>5, <1>9 DEF l
  <2>5. CASE k = l /\ m.fragno < box[i].fragno
    <3>1. box[i].fragno + 1 \in 1 .. FragmentCount(Len(sent[k].data))  BY <2>1, <2>5, Zenon
    <3>2. sent[k].data \in Seq(Plain)  BY <2>2, <2>5
    <3>3. FragmentCount(Len(sent[k].data)) \in Nat  BY <3>1, <3>2, Index, Zenon
    <3>4. m.fragno + 1 # FragmentCount(Len(sent[k].data))
      BY <3>1, <3>3, <2>1, <2>5, <1>4
    <3>5. c = k  BY <3>4, <1>6, <1>9, Zenon
    <3> QED BY <3>5, <2>5, <1>5
  <2> QED BY <2>3, <2>4, <2>5
<1>11. \A i \in Fragmented' : c <= box'[i].k
  <2> SUFFICES ASSUME NEW i \in Fragmented' PROVE c <= box'[i].k  OBVIOUS
  <2>1. i \in Nat \ {0} /\ i + 1 \in Fragmented /\ box'[i] = box[i + 1]  BY <1>2, Zenon
  <2>2. i + 1 # 1  BY <2>1
  <2> QED BY <2>1, <2>2, <1>10, Zenon
<1>12. Missing(c)' \subseteq Missing(b)
  <2> SUFFICES ASSUME NEW l \in Missing(c)' PROVE l \in Missing(b)  OBVIOUS
  <2>1. l \in c .. Len(sent) /\ ~ \E i \in Fragmented' : box'[i].k = l /\ box'[i].last
    BY Zenon DEF Missing
  <2>2. l \in b .. Len(sent) /\ l \in Nat /\ c <= l  BY <2>1, <1>5, <1>8, <1>9
  <2>3. ASSUME NEW i \in Fragmented, box[i].k = l, box[i].last PROVE FALSE
    <3>1. CASE i = 1
      <4>1. m.last /\ k = l  BY <3>1, <2>3, Zenon DEF m, k
      <4> QED BY <4>1, <2>2, <1>5, <1>9
    <3>2. CASE i # 1
      BY <3>2, <2>1, <2>3, <1>2, Zenon
    <3> QED BY <3>1, <3>2
  <2> QED BY <2>2, <2>3, Zenon DEF Missing
<1>13. Cardinality(Missing(b)) <= faults  BY DEF From
<1>14. Cardinality(Missing(c)') <= faults'  BY <1>8, <1>9, <1>12, <1>13, NoneMore
<1>15. From(c)'  BY <1>9, <1>11, <1>14, Zenon DEF From
<1> QED BY <1>2, <1>3, <1>15

LEMMA Congruent ==
  ASSUME NEW a \in Nat, NEW b \in Nat, a < b, a % 16 = b % 16
  PROVE  a + 16 <= b
OBVIOUS

\* The number of a frame tells it, as there are too few faults to lose sixteen.
LEMMA SameFrame ==
  ASSUME FewFaults, FrameTypes, AreSent, InTurn, box # <<>>, IsFragment(Head(box)),
         NEW b, From(b), Head(box).k % 16 = b % 16
  PROVE  Head(box).k = b
<1> DEFINE k == box[1].k
<1>1. /\ 1 \in Fragmented /\ Head(box) = box[1]
      /\ \A i \in Fragmented : k <= box[i].k
  BY HeadFirst, Zenon
<1>2. k \in DOMAIN sent  BY <1>1, Known, Zenon
<1>3. k \in Nat \ {0} /\ k <= Len(sent) /\ Len(sent) \in Nat  BY <1>2, SentIs, Zenon
<1>4. b \in Nat /\ b <= k
  <2>1. b \in 1 .. Len(sent) + 1  BY DEF From
  <2>2. b <= k  BY <1>1, Zenon DEF From
  <2> QED BY <1>3, <2>1, <2>2
<1>5. k % 16 = b % 16  BY <1>1, Zenon
<1>6. \A i \in Fragmented : box[i].k \in Nat
  <2> SUFFICES ASSUME NEW i \in Fragmented PROVE box[i].k \in Nat  OBVIOUS
  <2>1. box[i].k \in DOMAIN sent  BY Known, Zenon
  <2> QED BY <2>1, SentIs, Zenon
<1> HIDE DEF k
<1>7. ASSUME b < k PROVE FALSE
  <2>1. b + 16 <= k  BY <1>3, <1>4, <1>5, <1>7, Congruent
  <2>2. b .. k - 1 \subseteq Missing(b)
    <3> SUFFICES ASSUME NEW l \in b .. k - 1 PROVE l \in Missing(b)  OBVIOUS
    <3>1. l \in b .. Len(sent) /\ l < k /\ l \in Nat  BY <1>3, <1>4
    <3>2. ~ \E i \in Fragmented : box[i].k = l /\ box[i].last
      <4> SUFFICES ASSUME NEW i \in Fragmented, box[i].k = l PROVE FALSE
        BY Zenon
      <4>1. k <= box[i].k  BY <1>1
      <4> QED BY <3>1, <4>1, <1>3
    <3> QED BY <3>1, <3>2, Zenon DEF Missing
  <2>3. IsFiniteSet(Missing(b)) /\ Cardinality(Missing(b)) \in Nat  BY <1>4, Lacking
  <2>4. Cardinality(b .. k - 1) = k - b
    <3>1. k - 1 \in Int /\ b \in Int /\ ~ (b > k - 1) /\ (k - 1) - b + 1 = k - b
      BY <1>3, <1>4, <1>7
    <3>2. Cardinality(b .. k - 1) = IF b > k - 1 THEN 0 ELSE (k - 1) - b + 1
      BY <3>1, FS_Interval
    <3> QED BY <3>1, <3>2
  <2>5. Cardinality(b .. k - 1) <= Cardinality(Missing(b))
    <3>1. b .. k - 1 \in SUBSET Missing(b)  BY <2>2
    <3> QED BY <2>3, <3>1, FS_Subset
  <2>6. Cardinality(Missing(b)) <= faults /\ faults \in 0 .. MaxFaults
    BY DEF From, FrameTypes
  <2>7. MaxFaults < 16 /\ MaxFaults \in Nat  BY Parameters DEF FewFaults
  <2> QED BY <2>1, <2>3, <2>4, <2>5, <2>6, <2>7, <1>3, <1>4
<1> QED BY <1>1, <1>3, <1>4, <1>7 DEF k

-----------------------------------------------------------------------------
(* Steps that are about other mails.                                       *)

\* Mails that are no fragments.
OtherMail(s) == s \in Seq(Range(s)) /\ \A j \in DOMAIN s : ~ IsFragment(s[j])

\* Such mails come, or a mail is taken, a fragment only if none are collected.
Apart ==
  /\ hook' = hook /\ rx' = rx /\ frame' = frame /\ sent' = sent
  /\ faults' \in 0 .. MaxFaults /\ faults <= faults'
  /\ Collecting' => Collecting
  /\ job'.kind = "eoe_recv" => job'.psize \in Sizes /\ at' \in {"idle", "receive"}
  /\ \/ \E s : OtherMail(s) /\ box' = box \o s
     \/ /\ box # <<>> /\ box' = Tail(box)
        /\ IsFragment(Head(box)) => ~ Collecting'

LEMMA ApartKeeps ==
  ASSUME FrameInv, Apart
  PROVE  FrameInv'
<1>1. FrameTypes /\ AreSent /\ InTurn /\ Whole  BY Zenon DEF FrameInv
<1>2. PICK b \in 1 .. Len(sent) + 1 : From(b) /\ (Collecting /\ rx.fragno > 0 => Begun(b))
  BY Zenon DEF FrameInv
<1>3. /\ hook' = hook /\ rx' = rx /\ frame' = frame /\ sent' = sent
      /\ faults' \in 0 .. MaxFaults /\ faults <= faults' /\ (Collecting' => Collecting)
      /\ job'.kind = "eoe_recv" => job'.psize \in Sizes /\ at' \in {"idle", "receive"}
  BY Zenon DEF Apart
<1>4. faults' \in Nat  BY <1>3, Parameters
<1>5. box' \in Seq(Range(box')) => FrameTypes'
  BY <1>1, <1>3, Zenon DEF FrameTypes
<1>6. Whole'
  BY <1>1, <1>3, Zenon DEF Whole, FrameWhole
<1>7. ASSUME NEW s, OtherMail(s), box' = box \o s PROVE FrameInv'
  <2>1. s \in Seq(Range(s)) /\ \A j \in DOMAIN s : ~ IsFragment(s[j])
    BY <1>7, Zenon DEF OtherMail
  <2>2. DOMAIN s = 1 .. Len(s)  BY <2>1, LenProperties
  <2>3. /\ box' \in Seq(Range(box'))
        /\ \A i \in Fragmented : i \in Fragmented' /\ box'[i] = box[i]
        /\ \A i \in Fragmented' :
              \/ i \in Fragmented /\ box'[i] = box[i]
              \/ /\ i - Len(box) \in 1 .. Len(s) /\ i \in Nat /\ i > Len(box)
                 /\ box'[i] = s[i - Len(box)] /\ IsFragment(s[i - Len(box)])
    BY <1>1, <1>7, <2>1, Extended, Zenon
  <2>4. \A i \in Fragmented' : i \in Fragmented /\ box'[i] = box[i]
    BY <2>1, <2>2, <2>3, Zenon
  <2> DEFINE g == [i \in Fragmented' |-> i]
  <2>5. \A i \in Fragmented' : g[i] = i  OBVIOUS
  <2> HIDE DEF g
  <2>6. Thinned(g)  BY <2>4, <2>5, Zenon DEF Thinned
  <2>7. /\ AreSent' /\ InTurn' /\ From(b)'
        /\ Collecting' /\ rx'.fragno > 0 => Begun(b)'
    BY <1>1, <1>2, <1>3, <1>4, <2>3, <2>6, Kept, Zenon
  <2>8. b \in 1 .. Len(sent') + 1  BY <1>2, <1>3
  <2> QED BY <1>5, <1>6, <2>3, <2>7, <2>8, Zenon DEF FrameInv
<1>8. ASSUME box # <<>>, box' = Tail(box), IsFragment(Head(box)) => ~ Collecting'
      PROVE  FrameInv'
  <2>1. /\ box' \in Seq(Range(box'))
        /\ \A i \in Fragmented' : i \in Nat \ {0} /\ i + 1 \in Fragmented /\ box'[i] = box[i + 1]
        /\ \A j \in Fragmented : j # 1 => j - 1 \in Fragmented' /\ box'[j - 1] = box[j]
    BY <1>1, <1>8, Shifted, Zenon
  <2>2. CASE IsFragment(Head(box))
    <3>1. PICK c : c = Onward(Head(box))  OBVIOUS
    <3>2. AreSent' /\ InTurn' /\ From(c)'
      BY <1>1, <1>2, <1>3, <1>4, <1>8, <2>2, <3>1, Gone, Zenon
    <3>3. c \in 1 .. Len(sent') + 1  BY <3>2, Zenon DEF From
    <3> QED BY <1>5, <1>6, <1>8, <2>1, <2>2, <3>2, <3>3, Zenon DEF FrameInv
  <2>3. CASE ~ IsFragment(Head(box))
    <3> DEFINE g == [i \in Fragmented' |-> i + 1]
    <3>1. \A i \in Fragmented' : g[i] = i + 1  OBVIOUS
    <3> HIDE DEF g
    <3>2. \A i, j \in Fragmented' : i < j => g[i] < g[j]
      <4> SUFFICES ASSUME NEW i \in Fragmented', NEW j \in Fragmented', i < j PROVE g[i] < g[j]
        OBVIOUS
      <4>1. i \in Nat /\ j \in Nat  BY <2>1, Zenon
      <4>2. i + 1 < j + 1  BY <4>1, <3>1
      <4> QED BY <4>2, <3>1, Zenon
    <3>3. Thinned(g)  BY <2>1, <3>1, <3>2, Zenon DEF Thinned
    <3>4. Head(box) = box[1]  BY <1>1, <1>8, HeadIs, Zenon
    <3>5. \A j \in Fragmented : \E i \in Fragmented' : box'[i] = box[j]
      <4> SUFFICES ASSUME NEW j \in Fragmented PROVE \E i \in Fragmented' : box'[i] = box[j]
        OBVIOUS
      <4>1. IsFragment(box[j])  BY Zenon DEF Fragmented
      <4>2. j # 1  BY <2>3, <3>4, <4>1, Zenon
      <4> QED BY <4>2, <2>1, Zenon
    <3>6. /\ AreSent' /\ InTurn' /\ From(b)'
          /\ Collecting' /\ rx'.fragno > 0 => Begun(b)'
      BY <1>1, <1>2, <1>3, <1>4, <3>3, <3>5, Kept, Zenon
    <3>7. b \in 1 .. Len(sent') + 1  BY <1>2, <1>3
    <3> QED BY <1>5, <1>6, <2>1, <3>6, <3>7, Zenon DEF FrameInv
  <2> QED BY <2>2, <2>3
<1> QED BY <1>7, <1>8, Zenon DEF Apart

-----------------------------------------------------------------------------
(* Steps that are about fragments.                                         *)

LEMMA OctetsAre ==
  ASSUME NEW w \in Nat, NEW n \in Nat
  PROVE  Octets(w, n) \in Seq(Plain) /\ Len(Octets(w, n)) = n
<1>1. Octets(w, n) = [i \in 1 .. n |-> <<w, i>>]  BY DEF Octets
<1>2. \A i \in 1 .. n : <<w, i>> \in Plain  BY DEF Plain
<1>3. Octets(w, n) \in [1 .. n -> Plain]  BY <1>1, <1>2
<1> QED BY <1>3

LEMMA SlaveSendsKeeps ==
  ASSUME FrameInv, SlaveSends
  PROVE  FrameInv'
<1>1. FrameTypes /\ AreSent /\ InTurn /\ Whole  BY Zenon DEF FrameInv
<1>2. PICK b \in 1 .. Len(sent) + 1 : From(b) /\ (Collecting /\ rx.fragno > 0 => Begun(b))
  BY Zenon DEF FrameInv
<1> DEFINE K == Len(sent) + 1
<1>3. PICK n \in Sizes, s \in Stamped :
        /\ sent' = Append(sent, [data |-> Octets(MaxCalls + K, n), stamped |-> s])
        /\ box' = box \o FragmentsOf(K, Octets(MaxCalls + K, n), s)
  BY Zenon DEF SlaveSends
<1>4. PICK k : k = K  OBVIOUS
<1>5. PICK d : d = Octets(MaxCalls + k, n)  OBVIOUS
<1>6. /\ hook' = hook /\ faults' = faults /\ rx' = rx /\ frame' = frame
      /\ job' = job /\ at' = at
  BY Zenon DEF SlaveSends, locals
<1>7. sent \in Seq([data : Seq(Plain), stamped : BOOLEAN]) /\ Len(sent) \in Nat
      /\ DOMAIN sent = 1 .. Len(sent)
  <2>1. sent \in Seq([data : Seq(Plain), stamped : BOOLEAN])  BY <1>1 DEF FrameTypes
  <2> QED BY <2>1, LenProperties
<1>8. k \in Nat \ {0} /\ k = Len(sent) + 1  BY <1>4, <1>7
<1>9. d \in Seq(Plain) /\ Len(d) = n /\ s \in BOOLEAN /\ n \in Nat
  <2>1. MaxCalls + k \in Nat /\ n \in Nat /\ s \in BOOLEAN  BY <1>8, Parameters
  <2> QED BY <2>1, <1>5, OctetsAre
<1> DEFINE r == [data |-> d, stamped |-> s]
           F == FragmentsOf(k, d, s)
<1>10. sent' = Append(sent, r) /\ box' = box \o F
  BY <1>3, <1>4, <1>5, Zenon
<1> HIDE DEF K
<1>11. r \in [data : Seq(Plain), stamped : BOOLEAN]  BY <1>9
<1>12. /\ sent' \in Seq([data : Seq(Plain), stamped : BOOLEAN]) /\ Len(sent') = k
       /\ \A l \in 1 .. Len(sent) : sent'[l] = sent[l]
       /\ sent'[k] = r
  BY <1>7, <1>8, <1>10, <1>11, AppendProperties
<1>13. r.data = d /\ r.stamped = s  OBVIOUS
<1> HIDE DEF r
<1>14. DOMAIN sent' = 1 .. k /\ \A l \in DOMAIN sent : l \in DOMAIN sent' /\ sent'[l] = sent[l]
  <2>1. DOMAIN sent' = 1 .. Len(sent')  BY <1>12, LenProperties
  <2> QED BY <2>1, <1>7, <1>8, <1>12
<1>15. /\ DOMAIN F = 1 .. FragmentCount(Len(d)) /\ Len(F) = FragmentCount(Len(d))
       /\ \E S : F \in Seq(S)
  BY <1>8, <1>9, FragmentsAre
<1>16. PICK S : F \in Seq(S)  BY <1>15
<1> HIDE DEF F
<1>17. FragmentCount(Len(d)) \in Nat \ {0}
  <2>1. Len(d) \in Nat  BY <1>9
  <2> QED BY <2>1, Counted
<1>18. /\ box' \in Seq(Range(box')) /\ Len(box) \in Nat
       /\ \A i \in Fragmented : i \in Fragmented' /\ box'[i] = box[i]
       /\ \A i \in Fragmented' :
              \/ i \in Fragmented /\ box'[i] = box[i]
              \/ /\ i - Len(box) \in 1 .. Len(F) /\ i \in Nat /\ i > Len(box)
                 /\ box'[i] = F[i - Len(box)] /\ IsFragment(F[i - Len(box)])
       /\ \A j \in 1 .. Len(F) : IsFragment(F[j]) =>
              Len(box) + j \in Fragmented' /\ box'[Len(box) + j] = F[j]
  BY <1>1, <1>10, <1>16, Extended, Zenon
<1>19. ASSUME NEW j \in 1 .. Len(F)
       PROVE  IsNth(F[j], k, d, s, j) /\ IsFragment(F[j]) /\ F[j].k = k /\ F[j].fragno = j - 1
  <2>1. IsNth(F[j], k, d, s, j)
    BY <1>8, <1>9, <1>15, FragmentIs, Zenon DEF F
  <2> QED BY <2>1, Zenon DEF IsNth, IsFragment
\* What is at a place of the mailbox, old and new.
<1>20. ASSUME NEW i \in Fragmented'
       PROVE  \/ i \in Fragmented /\ box'[i] = box[i]
              \/ \E j \in 1 .. Len(F) :
                   /\ i = Len(box) + j /\ box'[i] = F[j]
                   /\ box'[i].k = k /\ box'[i].fragno = j - 1
  <2>1. CASE i \in Fragmented /\ box'[i] = box[i]
    BY <2>1
  <2>2. CASE /\ i - Len(box) \in 1 .. Len(F) /\ i \in Nat /\ i > Len(box)
             /\ box'[i] = F[i - Len(box)]
    <3> DEFINE j == i - Len(box)
    <3>1. j \in 1 .. Len(F) /\ box'[i] = F[j]  BY <2>2
    <3>2. i = Len(box) + j  BY <2>2, <1>18
    <3> HIDE DEF j
    <3>3. F[j].k = k /\ F[j].fragno = j - 1  BY <3>1, <1>19
    <3> QED BY <3>1, <3>2, <3>3, Zenon
  <2> QED BY <2>1, <2>2, <1>18, Zenon
<1>21. ASSUME NEW i \in Fragmented
       PROVE  /\ IsSent(box[i], sent) /\ box[i].k \in DOMAIN sent
              /\ box[i].k \in Nat /\ box[i].k < k /\ i \in Nat /\ i <= Len(box)
  <2>1. box[i].k \in DOMAIN sent /\ i \in Nat /\ i <= Len(box)  BY <1>1, Known, Zenon
  <2>2. box[i].k \in Nat /\ box[i].k < k  BY <2>1, <1>7, <1>8
  <2> QED BY <2>1, <2>2, <1>1, Zenon DEF AreSent
<1>22. AreSent'
  <2> SUFFICES ASSUME NEW i \in Fragmented' PROVE IsSent(box'[i], sent')
    BY Zenon DEF AreSent
  <2>1. CASE i \in Fragmented /\ box'[i] = box[i]
    <3>1. IsSent(box[i], sent) /\ box[i].k \in DOMAIN sent  BY <2>1, <1>21
    <3>2. box[i].k \in DOMAIN sent' /\ sent'[box[i].k] = sent[box[i].k]  BY <3>1, <1>14
    <3> QED BY <2>1, <3>1, <3>2, Zenon DEF IsSent
  <2>2. ASSUME NEW j \in 1 .. Len(F), box'[i] = F[j], box'[i].k = k, box'[i].fragno = j - 1
        PROVE  IsSent(box'[i], sent')
    <3>1. k \in DOMAIN sent' /\ sent'[k].data = d /\ sent'[k].stamped = s
      BY <1>8, <1>12, <1>13, <1>14
    <3>2. (j - 1) + 1 = j /\ j \in 1 .. FragmentCount(Len(d))
      BY <1>15, <1>17
    <3>3. box'[i].fragno + 1 = j  BY <2>2, <3>2, Zenon
    <3>4. F[j] = FragmentsOf(k, d, s)[j]  BY DEF F
    <3> QED BY <2>2, <3>1, <3>2, <3>3, <3>4, Zenon DEF IsSent
  <2> QED BY <2>1, <2>2, <1>20, Zenon
<1>23. InTurn'
  <2> SUFFICES ASSUME NEW i \in Fragmented', NEW l \in Fragmented', i < l
               PROVE  Precedes(box'[i], box'[l])
    BY Zenon DEF InTurn
  <2>1. CASE i \in Fragmented /\ box'[i] = box[i]
    <3>1. CASE l \in Fragmented /\ box'[l] = box[l]
      BY <2>1, <3>1, <1>1, Zenon DEF InTurn
    <3>2. ASSUME box'[l].k = k PROVE Precedes(box'[i], box'[l])
      <4>1. box[i].k < k  BY <2>1, <1>21
      <4> QED BY <4>1, <2>1, <3>2, Zenon DEF Precedes
    <3> QED BY <3>1, <3>2, <1>20, Zenon
  <2>2. ASSUME NEW j \in 1 .. Len(F), i = Len(box) + j, box'[i].k = k, box'[i].fragno = j - 1
        PROVE  Precedes(box'[i], box'[l])
    <3>1. CASE l \in Fragmented
      <4>1. l \in Nat /\ l <= Len(box)  BY <3>1, <1>21
      <4>2. j \in Nat /\ j > 0  BY <1>15, <1>17
      <4> QED BY <4>1, <4>2, <2>2, <1>18
    <3>2. ASSUME NEW h \in 1 .. Len(F), l = Len(box) + h, box'[l].k = k, box'[l].fragno = h - 1
          PROVE  Precedes(box'[i], box'[l])
      <4>1. j \in Nat /\ h \in Nat  BY <1>15, <1>17
      <4>2. j - 1 < h - 1  BY <4>1, <2>2, <3>2, <1>18
      <4> QED BY <4>2, <2>2, <3>2, Zenon DEF Precedes
    <3> QED BY <3>1, <3>2, <1>20, Zenon
  <2> QED BY <2>1, <2>2, <1>20, Zenon
<1>24. b \in Nat /\ b <= k /\ b \in 1 .. Len(sent') + 1
  BY <1>2, <1>7, <1>8, <1>12
<1>25. \A i \in Fragmented' : b <= box'[i].k
  <2> SUFFICES ASSUME NEW i \in Fragmented' PROVE b <= box'[i].k  OBVIOUS
  <2>1. CASE i \in Fragmented /\ box'[i] = box[i]
    BY <2>1, <1>2, Zenon DEF From
  <2> QED BY <2>1, <1>20, <1>24
<1>26. Missing(b)' \subseteq Missing(b)
  <2> SUFFICES ASSUME NEW l \in Missing(b)' PROVE l \in Missing(b)  OBVIOUS
  <2>1. l \in b .. Len(sent') /\ ~ \E i \in Fragmented' : box'[i].k = l /\ box'[i].last
    BY Zenon DEF Missing
  <2>2. l # k
    <3> SUFFICES ASSUME l = k PROVE FALSE  OBVIOUS
    <3> DEFINE h == Len(F)
    <3>1. h \in 1 .. Len(F) /\ h = FragmentCount(Len(d))  BY <1>15, <1>17
    <3> HIDE DEF h
    <3>2. /\ IsNth(F[h], k, d, s, h) /\ F[h].k = k
          /\ Len(box) + h \in Fragmented' /\ box'[Len(box) + h] = F[h]
      BY <3>1, <1>18, <1>19, Zenon
    <3>3. F[h].last = TRUE  BY <3>1, <3>2, Zenon DEF IsNth
    <3> QED BY <3>2, <3>3, <2>1, Zenon
  <2>3. l \in b .. Len(sent)  BY <2>1, <2>2, <1>7, <1>8, <1>12, <1>24
  <2>4. ~ \E i \in Fragmented : box[i].k = l /\ box[i].last
    BY <2>1, <1>18, Zenon
  <2> QED BY <2>3, <2>4, Zenon DEF Missing
<1>27. From(b)'
  <2>1. Cardinality(Missing(b)) <= faults  BY <1>2 DEF From
  <2>2. faults \in Nat  BY <1>1, Parameters DEF FrameTypes
  <2>3. Cardinality(Missing(b)') <= faults'
    <3>1. faults' \in Nat /\ faults <= faults'  BY <2>2, <1>6
    <3> QED BY <1>1, <1>24, <1>26, <2>1, <3>1, NoneMore
  <2> QED BY <1>24, <1>25, <2>3, Zenon DEF From
<1>28. ASSUME Collecting', rx'.fragno > 0 PROVE Begun(b)'
  <2>1. Collecting  BY <1>28, <1>6, Zenon DEF Collecting
  <2>2. Begun(b)  BY <2>1, <1>28, <1>6, <1>2, Zenon
  <2>3. b \in DOMAIN sent /\ sent'[b] = sent[b] /\ b \in DOMAIN sent'
    BY <2>2, <1>14, Zenon DEF Begun
  <2>4. b # k  BY <2>3, <1>7, <1>8
  <2>5. ASSUME ~ hook, NEW i \in Fragmented', box'[i].k = b
        PROVE  rx.fragno <= box'[i].fragno
    <3>1. i \in Fragmented /\ box'[i] = box[i]  BY <2>4, <2>5, <1>20, Zenon
    <3> QED BY <3>1, <2>2, <2>5, Zenon DEF Begun
  <2> QED BY <2>2, <2>3, <2>5, <1>6, Zenon DEF Begun
<1>29. FrameTypes'
  <2>1. \A l \in DOMAIN sent' : Len(sent'[l].data) \in Sizes
    <3> SUFFICES ASSUME NEW l \in DOMAIN sent' PROVE Len(sent'[l].data) \in Sizes  OBVIOUS
    <3>1. CASE l = k
      <4>1. Len(d) \in Sizes  BY <1>9
      <4> QED BY <3>1, <4>1, <1>12, <1>13, Zenon
    <3>2. CASE l # k
      <4>1. l \in DOMAIN sent  BY <3>2, <1>7, <1>8, <1>14
      <4> QED BY <4>1, <1>1, <1>14, Zenon DEF FrameTypes
    <3> QED BY <3>1, <3>2
  <2> QED BY <2>1, <1>1, <1>6, <1>12, <1>18, Zenon DEF FrameTypes
<1>30. Whole'
  <2>1. ASSUME frame # NoFrame
        PROVE  frame.k \in DOMAIN sent /\ frame.k \in DOMAIN sent'
               /\ sent'[frame.k] = sent[frame.k] /\ FrameWhole
    <3>1. frame.k \in DOMAIN sent /\ FrameWhole  BY <1>1, <2>1, Zenon DEF Whole
    <3> QED BY <3>1, <1>14
  <2>2. ASSUME frame # NoFrame PROVE FrameWhole'
    BY <2>1, <2>2, <1>6, Zenon DEF FrameWhole
  <2> QED BY <2>1, <2>2, <1>6, Zenon DEF Whole
<1> QED BY <1>22, <1>23, <1>24, <1>27, <1>28, <1>29, <1>30, Zenon DEF FrameInv

LEMMA FragmentLostKeeps ==
  ASSUME FrameInv, FragmentLost
  PROVE  FrameInv'
<1>1. FrameTypes /\ AreSent /\ InTurn /\ Whole  BY Zenon DEF FrameInv
<1>2. PICK b \in 1 .. Len(sent) + 1 : From(b) /\ (Collecting /\ rx.fragno > 0 => Begun(b))
  BY Zenon DEF FrameInv
<1>3. PICK x \in DOMAIN box : box[x].cmd = "eoe" /\ box' = RemoveAt(box, x)
  BY Zenon DEF FragmentLost
<1>4. /\ hook' = hook /\ rx' = rx /\ frame' = frame /\ sent' = sent
      /\ job' = job /\ at' = at /\ faults < MaxFaults /\ faults' = faults + 1
  BY Zenon DEF FragmentLost, locals, eoeVars
<1>5. faults \in Nat /\ faults' \in Nat /\ faults' \in 0 .. MaxFaults
  BY <1>1, <1>4, Parameters DEF FrameTypes
<1>6. /\ box' \in Seq(Range(box'))
      /\ \A i \in Fragmented' :
              i \in Nat /\ (IF i < x THEN i ELSE i + 1) \in Fragmented
              /\ box'[i] = box[IF i < x THEN i ELSE i + 1]
      /\ \A j \in Fragmented : j # x => \E i \in Fragmented' : box'[i] = box[j]
  BY <1>1, <1>3, Removed, Zenon
<1> DEFINE g == [i \in Fragmented' |-> IF i < x THEN i ELSE i + 1]
<1>7. \A i \in Fragmented' : g[i] = IF i < x THEN i ELSE i + 1  OBVIOUS
<1> HIDE DEF g
<1>8. Thinned(g)
  <2>1. \A i, j \in Fragmented' : i < j => g[i] < g[j]
    <3> SUFFICES ASSUME NEW i \in Fragmented', NEW j \in Fragmented', i < j PROVE g[i] < g[j]
      OBVIOUS
    <3>1. i \in Nat /\ j \in Nat  BY <1>6, Zenon
    <3>2. x \in Nat
      <4>1. box \in Seq(Range(box))  BY <1>1 DEF FrameTypes
      <4>2. DOMAIN box = 1 .. Len(box) /\ Len(box) \in Nat  BY <4>1, LenProperties
      <4> QED BY <4>2, <1>3
    <3>3. (IF i < x THEN i ELSE i + 1) < (IF j < x THEN j ELSE j + 1)  BY <3>1, <3>2
    <3> QED BY <3>3, <1>7, Zenon
  <2> QED BY <2>1, <1>6, <1>7, Zenon DEF Thinned
<1>9. AreSent' /\ InTurn'  BY <1>1, <1>4, <1>8, StayInTurn, Zenon
<1>10. Missing(b)' \subseteq Missing(b) \union {box[x].k}
  <2> SUFFICES ASSUME NEW l \in Missing(b)', l # box[x].k PROVE l \in Missing(b)  OBVIOUS
  <2>1. l \in b .. Len(sent) /\ ~ \E i \in Fragmented' : box'[i].k = l /\ box'[i].last
    BY <1>4, Zenon DEF Missing
  <2>2. ~ \E i \in Fragmented : box[i].k = l /\ box[i].last
    BY <2>1, <1>6, Zenon
  <2> QED BY <2>1, <2>2, Zenon DEF Missing
<1>11. b \in Nat
  <2>1. sent \in Seq([data : Seq(Plain), stamped : BOOLEAN])  BY <1>1 DEF FrameTypes
  <2>2. Len(sent) \in Nat  BY <2>1, LenProperties
  <2> QED BY <2>2, <1>2
<1>12. Cardinality(Missing(b)') <= faults'
  <2> DEFINE M == Missing(b)
             z == box[x].k
  <2>1. IsFiniteSet(M) /\ Cardinality(M) \in Nat  BY <1>1, <1>11, Lacking
  <2>2. Cardinality(M) <= faults  BY <1>2 DEF From
  <2> HIDE DEF M, z
  <2>3. /\ IsFiniteSet(M \union {z})
        /\ Cardinality(M \union {z}) = IF z \in M THEN Cardinality(M) ELSE Cardinality(M) + 1
    BY <2>1, FS_AddElement
  <2>4. Missing(b)' \in SUBSET (M \union {z})  BY <1>10 DEF M, z
  <2>5. Cardinality(Missing(b)') <= Cardinality(M \union {z}) /\ IsFiniteSet(Missing(b)')
    BY <2>3, <2>4, FS_Subset
  <2>6. Cardinality(Missing(b)') \in Nat  BY <2>5, FS_CardinalityType
  <2> QED BY <2>1, <2>2, <2>3, <2>5, <2>6, <1>4, <1>5
<1>13. From(b)'
  <2>1. \A i \in Fragmented' : b <= box'[i].k  BY <1>2, <1>8, Zenon DEF From, Thinned
  <2> QED BY <2>1, <1>2, <1>4, <1>12, Zenon DEF From
<1>14. ASSUME Collecting', rx'.fragno > 0 PROVE Begun(b)'
  <2>1. Collecting  BY <1>14, <1>4, Zenon DEF Collecting
  <2>2. Begun(b)  BY <2>1, <1>14, <1>4, <1>2, Zenon
  <2> QED BY <2>2, <1>4, <1>8, StillBegun, Zenon
<1>15. FrameTypes'  BY <1>1, <1>4, <1>5, <1>6, Zenon DEF FrameTypes
<1>16. Whole'  BY <1>1, <1>4, Zenon DEF Whole, FrameWhole
<1>17. b \in 1 .. Len(sent') + 1  BY <1>2, <1>4
<1> QED BY <1>9, <1>13, <1>14, <1>15, <1>16, <1>17, Zenon DEF FrameInv

\* What is told complete is frame k: unless its time stamp is longer than told.
FrameIs(f, k, d, s) ==
  /\ f.k = k
  /\ ~ (s /\ Len(d) + Stamp > Blocks(Len(d)) * Block) => f.size = Len(d) /\ f.data = d

\* What becomes of a fragment that continues what is put together.
LEMMA Assembles ==
  ASSUME NEW k \in Nat, NEW d \in Seq(Plain), NEW s \in BOOLEAN,
         NEW i \in 1 .. FragmentCount(Len(d)), NEW m, IsNth(m, k, d, s, i),
         NEW r \in Assembly, r.fragno = i - 1, r.fragno > 0 => Holds(r, k, d, i),
         Len(d) + Stamp <= HookBuffer
  PROVE  /\ Opened(r, m).size = Blocks(Len(d)) * Block
         /\ Opened(r, m).fragno = i - 1
         /\ \A room \in Nat :
              room = Smaller(Opened(r, m).size, HookBuffer) \/ Opened(r, m).size <= room =>
                LET more == Copied(Opened(r, m), m, room)
                IN  /\ more \in Assembly
                    /\ i < FragmentCount(Len(d)) => Holds(more, k, d, i + 1)
                    /\ i = FragmentCount(Len(d)) => FrameIs(Completed(more, m), k, d, s)
<1> DEFINE n == FragmentCount(Len(d))
           new == Opened(r, m)
<1>1. i \in Nat \ {0} /\ Len(d) \in Nat /\ n \in Nat \ {0}  BY Index, Zenon
<1>2. new \in Assembly /\ Holds(new, k, d, i)  BY Opens, Zenon
<1> HIDE DEF new, n
<1>3. new.size = Blocks(Len(d)) * Block /\ new.fragno = i - 1
  BY <1>2, Zenon DEF Holds
<1>4. Len(d) <= new.size /\ new.size \in Nat
  BY <1>1, <1>3, BlocksHold
<1>5. Stamp \in Nat /\ HookBuffer \in Nat  BY Parameters DEF HookBuffer
<1>6. Len(StampOf(s)) \in Nat
  <2>1. StampOf(s) \in Seq(Octet)  BY StampIs, Zenon
  <2> QED BY <2>1, LenProperties
<1>7. Len(StampOf(s)) = IF s = TRUE THEN Stamp ELSE 0
  BY StampIs, Zenon
<1>8. Len(StampOf(s)) <= Stamp
  <2>1. Len(StampOf(s)) = Stamp \/ Len(StampOf(s)) = 0  BY <1>7, Zenon
  <2> QED BY <2>1, <1>5
<1>9. ASSUME NEW room \in Nat, room = Smaller(new.size, HookBuffer) \/ new.size <= room
      PROVE  LET more == Copied(new, m, room)
             IN  /\ more \in Assembly
                 /\ i < n => Holds(more, k, d, i + 1)
                 /\ i = n => FrameIs(Completed(more, m), k, d, s)
  <2> DEFINE more == Copied(new, m, room)
  <2>1. /\ more \in Assembly
        /\ i < n /\ Len(d) <= room => Holds(more, k, d, i + 1)
        /\ i = n /\ Len(d) + Len(StampOf(s)) <= room => more.buf = d \o StampOf(s)
    BY <1>2, Copies DEF n
  <2> HIDE DEF more
  <2>2. new.size <= room \/ room = HookBuffer
    <3>1. Smaller(new.size, HookBuffer) = new.size \/ Smaller(new.size, HookBuffer) = HookBuffer
      BY Zenon DEF Smaller
    <3> QED BY <3>1, <1>4, <1>9
  <2>3. Len(d) <= room  BY <2>2, <1>1, <1>4, <1>5
  <2>4. ASSUME i = n PROVE FrameIs(Completed(more, m), k, d, s)
    <3>1. Completed(more, m).k = k  BY Zenon DEF Completed, IsNth
    <3>2. ASSUME ~ (s /\ Len(d) + Stamp > Blocks(Len(d)) * Block)
          PROVE  Completed(more, m).size = Len(d) /\ Completed(more, m).data = d
      <4>1. Len(d) + Len(StampOf(s)) <= new.size
        <5>1. CASE s = TRUE
          <6>1. ~ (Len(d) + Stamp > new.size)  BY <3>2, <5>1, <1>3, Zenon
          <6>2. Len(StampOf(s)) = Stamp  BY <5>1, <1>7, Zenon
          <6> QED BY <6>1, <6>2, <1>1, <1>4, <1>5
        <5>2. CASE s = FALSE
          <6>1. Len(StampOf(s)) = 0  BY <5>2, <1>7, Zenon
          <6> QED BY <6>1, <1>1, <1>4
        <5> QED BY <5>1, <5>2, Zenon
      <4>2. Len(d) + Len(StampOf(s)) <= HookBuffer  BY <1>1, <1>5, <1>6, <1>8
      <4>3. Len(d) + Len(StampOf(s)) <= room
        BY <4>1, <4>2, <2>2, <1>1, <1>4, <1>6
      <4>4. more.buf = d \o StampOf(s)  BY <4>3, <2>1, <2>4, Zenon
      <4>5. Len(d) <= HookBuffer  BY <1>1, <1>5
      <4> QED BY <4>4, <4>5, <2>4, Completes DEF n
    <3> QED BY <3>1, <3>2, Zenon DEF FrameIs
  <2> QED BY <2>1, <2>3, <2>4 DEF more
<1> QED BY <1>3, <1>9, Zenon DEF new, n

\* Reading a fragment, which may come again.
LEMMA FragmentRead ==
  ASSUME FrameTypes, AreSent, InTurn, box # <<>>, IsFragment(Head(box)), sent' = sent,
         \/ box' = Tail(box) /\ faults' = faults
         \/ box' = box /\ faults < MaxFaults /\ faults' = faults + 1,
         NEW b, From(b), NEW m, m = Head(box)
  PROVE  /\ AreSent' /\ InTurn' /\ box' \in Seq(Range(box')) /\ faults' \in 0 .. MaxFaults
         /\ \E c \in 1 .. Len(sent) + 1 : From(c)' /\ (m.last = FALSE => c = m.k)
<1>1. faults \in Nat /\ faults \in 0 .. MaxFaults /\ MaxFaults \in Nat
  BY Parameters DEF FrameTypes
<1>2. faults' \in Nat /\ faults <= faults' /\ faults' \in 0 .. MaxFaults
  BY <1>1
<1>3. CASE box' = Tail(box)
  <2>1. PICK c : c = Onward(m)  OBVIOUS
  <2>2. c = Onward(Head(box))  BY <2>1, Zenon
  <2>3. AreSent' /\ InTurn' /\ From(c)' /\ box' \in Seq(Range(box'))
    BY <1>2, <1>3, <2>2, Gone, Zenon
  <2>4. c \in 1 .. Len(sent) + 1  BY <2>3, Zenon DEF From
  <2>5. m.last = FALSE => c = m.k  BY <2>1, Zenon DEF Onward
  <2> QED BY <1>2, <2>3, <2>4, <2>5
<1>4. CASE box' = box
  <2> DEFINE g == [i \in Fragmented |-> i]
  <2>1. Fragmented' = Fragmented  BY <1>4, Zenon DEF Fragmented, IsFragment
  <2>2. \A i \in Fragmented : g[i] = i  OBVIOUS
  <2> HIDE DEF g
  <2>3. Thinned(g)  BY <1>4, <2>1, <2>2, Zenon DEF Thinned
  <2>4. AreSent' /\ InTurn'  BY <2>3, StayInTurn, Zenon
  <2>5. PICK k : k = m.k  OBVIOUS
  <2>6. 1 \in Fragmented /\ Head(box) = box[1] /\ \A i \in Fragmented : box[1].k <= box[i].k
    BY HeadFirst, Zenon
  <2>7. k = box[1].k  BY <2>5, <2>6, Zenon
  <2>8. k \in DOMAIN sent  BY <2>6, <2>7, Known, Zenon
  <2>9. k \in Nat \ {0} /\ k <= Len(sent) /\ Len(sent) \in Nat  BY <2>8, SentIs, Zenon
  <2>10. b \in Nat /\ b <= k
    <3>1. b \in 1 .. Len(sent) + 1  BY DEF From
    <3>2. b <= k  BY <2>6, <2>7, Zenon DEF From
    <3> QED BY <2>9, <3>1, <3>2
  <2>11. Missing(k)' \subseteq Missing(b)
    <3> SUFFICES ASSUME NEW l \in Missing(k)' PROVE l \in Missing(b)  OBVIOUS
    <3>1. l \in k .. Len(sent) /\ ~ \E i \in Fragmented : box[i].k = l /\ box[i].last
      BY <1>4, <2>1, Zenon DEF Missing
    <3>2. l \in b .. Len(sent)  BY <3>1, <2>9, <2>10
    <3> QED BY <3>1, <3>2, Zenon DEF Missing
  <2>12. Cardinality(Missing(b)) <= faults  BY DEF From
  <2>13. Cardinality(Missing(k)') <= faults'
    BY <1>2, <2>9, <2>10, <2>11, <2>12, NoneMore
  <2>14. k \in 1 .. Len(sent) + 1  BY <2>9
  <2>15. From(k)'  BY <1>4, <2>1, <2>6, <2>7, <2>13, <2>14, Zenon DEF From
  <2>16. box' \in Seq(Range(box'))  BY <1>4, Zenon DEF FrameTypes
  <2> QED BY <1>2, <2>4, <2>5, <2>14, <2>15, <2>16
<1> QED BY <1>3, <1>4

\* A frame is told complete.
LEMMA WholeNow ==
  ASSUME FrameTypes, sent' = sent, NEW k \in DOMAIN sent,
         FrameIs(frame', k, sent[k].data, sent[k].stamped)
  PROVE  Whole'
BY Zenon DEF Whole, FrameWhole, FrameIs

\* What is put together is the beginning of the frame of the fragment read.
LEMMA BegunNow ==
  ASSUME sent' = sent, NEW k \in DOMAIN sent, NEW i \in Nat,
         i < FragmentCount(Len(sent[k].data)),
         Holds(rx', k, sent[k].data, i + 1), rx'.fragno = i,
         ~ hook' => \A j \in Fragmented' : box'[j].k = k => i <= box'[j].fragno
  PROVE  Begun(k)'
BY Zenon DEF Begun

LEMMA HookedKeeps ==
  ASSUME FewFaults, FramesFit, FrameInv, Hooked
  PROVE  FrameInv'
<1>1. FrameTypes /\ AreSent /\ InTurn /\ Whole  BY Zenon DEF FrameInv
<1>2. PICK b \in 1 .. Len(sent) + 1 : From(b) /\ (Collecting /\ rx.fragno > 0 => Begun(b))
  BY Zenon DEF FrameInv
<1>3. /\ hook /\ hook' = hook /\ job' = job /\ sent' = sent
      /\ box # <<>> /\ Head(box).cmd = "eoe" /\ ecx_EOEreadfragment(Head(box)) /\ TakenOff
      /\ at' = IF at = "drain" THEN "send" ELSE at
  BY Zenon DEF Hooked, locals
<1>4. PICK m : m = Head(box)  OBVIOUS
<1>5. IsFragment(Head(box))  BY <1>3, Zenon DEF IsFragment
<1>6. /\ AreSent' /\ InTurn' /\ box' \in Seq(Range(box')) /\ faults' \in 0 .. MaxFaults
      /\ \E c \in 1 .. Len(sent) + 1 : From(c)' /\ (m.last = FALSE => c = m.k)
  <2>1. \/ box' = Tail(box) /\ faults' = faults
        \/ box' = box /\ faults < MaxFaults /\ faults' = faults + 1
    BY <1>3, Zenon DEF TakenOff
  <2> QED BY <1>1, <1>2, <1>3, <1>4, <1>5, <2>1, FragmentRead, Zenon
<1>7. PICK c \in 1 .. Len(sent) + 1 : From(c)' /\ (m.last = FALSE => c = m.k)
  BY <1>6
<1>8. rx' \in Assembly => FrameTypes'
  <2>1. job'.kind = "eoe_recv" => job'.psize \in Sizes /\ at' \in {"idle", "receive"}
    <3>1. ASSUME job.kind = "eoe_recv"
          PROVE  job.psize \in Sizes /\ at \in {"idle", "receive"} /\ at # "drain"
      BY <1>1, <3>1 DEF FrameTypes
    <3> QED BY <3>1, <1>3, Zenon
  <2> QED BY <2>1, <1>1, <1>3, <1>6, Zenon DEF FrameTypes
<1>9. Idle \in Assembly /\ Idle.fragno = 0
  <2>1. <<>> \in Seq(Octet)  OBVIOUS
  <2> QED BY <2>1 DEF Idle, Assembly
<1>10. Collecting  BY <1>3, Zenon DEF Collecting
<1> DEFINE r    == Within(rx, m)
           new  == Opened(r, m)
           room == Smaller(new.size, HookBuffer)
           more == Copied(new, m, room)
           lost == (new.fragno = 0 /\ m.fragno > 0) \/ ~ Continues(new, m)
<1>11. /\ rx' = IF lost \/ m.last THEN Idle ELSE more
       /\ frame' = IF m.last /\ ~ lost THEN Completed(more, m) ELSE frame
  BY <1>3, <1>4, Zenon DEF ecx_EOEreadfragment
<1>12. CASE lost
  <2>1. rx' = Idle /\ frame' = frame  BY <1>11, <1>12, Zenon
  <2>2. FrameTypes'  BY <2>1, <1>8, <1>9, Zenon
  <2>3. Whole'  BY <2>1, <1>1, <1>3, Zenon DEF Whole, FrameWhole
  <2>4. ~ (rx'.fragno > 0)  BY <2>1, <1>9
  <2>5. c \in 1 .. Len(sent') + 1  BY <1>3
  <2> QED BY <1>6, <1>7, <2>2, <2>3, <2>4, <2>5, Zenon DEF FrameInv
<1>13. CASE ~ lost
  <2>1. Continues(new, m) /\ ~ (new.fragno = 0 /\ m.fragno > 0)  BY <1>13, Zenon
  <2>2. m.fragno \in Nat
    <3>1. 1 \in Fragmented /\ m = box[1]  BY <1>1, <1>3, <1>4, <1>5, HeadFirst, Zenon
    <3> QED BY <3>1, <1>1, Known, Zenon
  <2>3. /\ r \in Assembly /\ r.fragno = m.fragno
        /\ r.fragno > 0 => Holds(r, b, sent[b].data, r.fragno + 1)
    <3>1. CASE m.fragno = rx.fragno
      <4>1. r = rx  BY <3>1, Zenon DEF Within
      <4>2. rx \in Assembly  BY <1>1, Zenon DEF FrameTypes
      <4>3. rx.fragno > 0 => Holds(rx, b, sent[b].data, rx.fragno + 1)
        BY <1>2, <1>10, Zenon DEF Begun
      <4> QED BY <3>1, <4>1, <4>2, <4>3, Zenon
    <3>2. CASE m.fragno # rx.fragno
      <4>1. r = Idle  BY <3>2, Zenon DEF Within
      <4>2. Opened(Idle, m).fragno = 0  BY <1>9, Zenon DEF Opened
      <4>3. ~ (m.fragno > 0)  BY <2>1, <4>1, <4>2, Zenon
      <4>4. m.fragno = 0  BY <2>2, <4>3
      <4>5. ~ (Idle.fragno > 0)  BY <1>9
      <4> QED BY <4>1, <4>4, <4>5, <1>9, Zenon
    <3> QED BY <3>1, <3>2
  <2> HIDE DEF r
  <2>4. PICK k : k = m.k  OBVIOUS
  <2>5. PICK d : d = sent[k].data  OBVIOUS
  <2>6. PICK s : s = sent[k].stamped  OBVIOUS
  <2>7. PICK i : i = m.fragno + 1  OBVIOUS
  <2>8. /\ k \in DOMAIN sent /\ k \in Nat /\ d \in Seq(Plain) /\ s \in BOOLEAN
        /\ i \in 1 .. FragmentCount(Len(d)) /\ IsNth(m, k, d, s, i)
        /\ m.last \in BOOLEAN /\ (m.last <=> i = FragmentCount(Len(d)))
        /\ m.fragno = i - 1 /\ r.fragno = i - 1
        /\ r.fragno > 0 => Holds(r, k, d, i) /\ k = b
        /\ Len(d) + Stamp <= HookBuffer
    <3>1. FrameTypes /\ AreSent /\ InTurn /\ box # <<>> /\ From(b)  BY <1>1, <1>2, <1>3
    <3>2. 1 \in Fragmented /\ m = box[1]  BY <1>4, <1>5, <3>1, HeadFirst, Zenon
    <3>3. /\ k \in DOMAIN sent /\ m.fragno \in Nat /\ i \in 1 .. FragmentCount(Len(d))
          /\ IsNth(m, k, d, s, i)
      BY <2>4, <2>5, <2>6, <2>7, <3>1, <3>2, Known, Zenon
    <3>4. /\ k \in Nat /\ d \in Seq(Plain) /\ s \in BOOLEAN /\ Len(d) \in Sizes
      BY <2>5, <2>6, <3>1, <3>3, SentIs, Zenon
    <3>5. m.last \in BOOLEAN /\ (m.last <=> i = FragmentCount(Len(d)))
      BY <2>4, <2>5, <2>7, <3>1, <3>2, LastIs, Zenon
    <3>6. r.fragno = i - 1 /\ m.fragno = i - 1 /\ r.fragno + 1 = i
      BY <2>3, <2>7, <3>3
    <3>7. ASSUME r.fragno > 0 PROVE Holds(r, k, d, i) /\ k = b
      <4>1. Holds(r, b, sent[b].data, i)  BY <2>3, <3>6, <3>7, Zenon
      <4>2. r.fragno # 0  BY <3>3, <3>6, <3>7
      <4>3. Opened(r, m) = r  BY <4>2, Zenon DEF Opened
      <4>4. r.frameno = m.frameno  BY <2>1, <3>7, <4>3, Zenon DEF Continues
      <4>5. m.k % 16 = b % 16  BY <2>4, <3>3, <4>1, <4>4, Zenon DEF Holds, IsNth
      <4>6. k = b  BY <1>4, <1>5, <2>4, <3>1, <4>5, SameFrame, Zenon
      <4> QED BY <2>5, <4>1, <4>6, Zenon
    <3>8. Len(d) + Stamp <= HookBuffer  BY <3>4 DEF FramesFit
    <3> QED BY <3>3, <3>4, <3>5, <3>6, <3>7, <3>8
  <2>9. new.size \in Nat /\ HookBuffer \in Nat
    <3>1. new \in Assembly  BY <2>3, <2>8, Opens, Zenon
    <3> HIDE DEF new
    <3> QED BY <3>1 DEF Assembly, HookBuffer
  <2>10. room \in Nat  BY <2>9 DEF Smaller
  <2>11. /\ more \in Assembly
         /\ i < FragmentCount(Len(d)) => Holds(more, k, d, i + 1)
         /\ i = FragmentCount(Len(d)) => FrameIs(Completed(more, m), k, d, s)
    BY <2>3, <2>8, <2>10, Assembles
  <2> HIDE DEF new, more, room, lost
  <2>12. CASE m.last = TRUE
    <3>1. rx' = Idle /\ frame' = Completed(more, m)  BY <2>12, <1>11, <1>13, Zenon
    <3>2. FrameTypes'  BY <3>1, <1>8, <1>9, Zenon
    <3>3. FrameIs(frame', k, sent[k].data, sent[k].stamped)
      BY <3>1, <2>5, <2>6, <2>8, <2>11, <2>12, Zenon
    <3>4. Whole'  BY <3>3, <2>8, <1>1, <1>3, WholeNow, Zenon
    <3>5. ~ (rx'.fragno > 0)  BY <3>1, <1>9
    <3>6. c \in 1 .. Len(sent') + 1  BY <1>3
    <3> QED BY <1>6, <1>7, <3>2, <3>4, <3>5, <3>6, Zenon DEF FrameInv
  <2>13. CASE m.last = FALSE
    <3>1. rx' = more /\ frame' = frame  BY <2>13, <1>11, <1>13, Zenon
    <3>2. FrameTypes'  BY <3>1, <2>11, <1>8, Zenon
    <3>3. Whole'  BY <3>1, <1>1, <1>3, Zenon DEF Whole, FrameWhole
    <3>4. i < FragmentCount(Len(d)) /\ i \in Nat /\ (i + 1) - 1 = i
      <4>1. i \in Nat \ {0} /\ FragmentCount(Len(d)) \in Nat  BY <2>8, Index, Zenon
      <4>2. i # FragmentCount(Len(d))  BY <2>8, <2>13, Zenon
      <4> QED BY <4>1, <4>2, <2>8
    <3>5. Holds(rx', k, sent[k].data, i + 1)  BY <3>1, <3>4, <2>5, <2>11, Zenon
    <3>6. rx'.fragno = i  BY <3>4, <3>5, Zenon DEF Holds
    <3>7. Begun(k)'
      <4>1. hook'  BY <1>3, Zenon
      <4>2. i < FragmentCount(Len(sent[k].data))  BY <3>4, <2>5, Zenon
      <4> QED BY <4>1, <4>2, <3>4, <3>5, <3>6, <2>8, <1>3, BegunNow, Zenon
    <3>8. c = k /\ c \in 1 .. Len(sent') + 1  BY <1>3, <1>7, <2>4, <2>13
    <3> QED BY <1>6, <1>7, <3>2, <3>3, <3>7, <3>8, Zenon DEF FrameInv
  <2> QED BY <2>8, <2>12, <2>13, Zenon
<1> QED BY <1>12, <1>13

\* A call reads a fragment.
FragmentReceived ==
  /\ MailRead /\ job.kind = "eoe_recv" /\ Head(box).cmd = "eoe"
  /\ RecvFragment(Head(box)) /\ sent' = sent

LEMMA RecvKeeps ==
  ASSUME FewFaults, FramesFit, FrameInv, FragmentReceived
  PROVE  FrameInv'
<1>1. FrameTypes /\ AreSent /\ InTurn /\ Whole  BY Zenon DEF FrameInv
<1>2. PICK b \in 1 .. Len(sent) + 1 : From(b) /\ (Collecting /\ rx.fragno > 0 => Begun(b))
  BY Zenon DEF FrameInv
<1>3. /\ at = "receive" /\ ForCall /\ box # <<>> /\ box' = Tail(box)
      /\ hook' = hook /\ job' = job /\ faults' = faults /\ sent' = sent
      /\ Head(box).cmd = "eoe" /\ RecvFragment(Head(box)) /\ job.kind = "eoe_recv"
  BY Zenon DEF MailRead, FragmentReceived
<1>4. PICK m : m = Head(box)  OBVIOUS
<1>5. IsFragment(Head(box)) /\ ~ hook
  BY <1>3, Zenon DEF IsFragment, ForCall
<1>6. Collecting  BY <1>3, Zenon DEF Collecting
<1>7. /\ AreSent' /\ InTurn' /\ box' \in Seq(Range(box')) /\ faults' \in 0 .. MaxFaults
      /\ \E c \in 1 .. Len(sent) + 1 : From(c)' /\ (m.last = FALSE => c = m.k)
  BY <1>1, <1>2, <1>3, <1>4, <1>5, FragmentRead, Zenon
<1>8. PICK c \in 1 .. Len(sent) + 1 : From(c)' /\ (m.last = FALSE => c = m.k)
  BY <1>7
<1>9. rx' \in Assembly /\ at' \in {"idle", "receive"} => FrameTypes'
  BY <1>1, <1>3, <1>7, Zenon DEF FrameTypes
<1>10. c \in 1 .. Len(sent') + 1  BY <1>3
<1> DEFINE new  == Opened(rx, m)
           more == Copied(new, m, job.psize)
           bad  == \/ m.fragno # rx.fragno /\ m.fragno > 0
                   \/ new.size > job.psize
                   \/ ~ Continues(new, m)
<1>11. ASSUME at' = "idle", rx' \in Assembly, Whole' PROVE FrameInv'
  <2>1. ~ Collecting'
    <3>1. at' # "receive"  BY <1>11
    <3> QED BY <3>1, <1>3, <1>5, Zenon DEF Collecting
  <2>2. FrameTypes'  BY <1>9, <1>11, Zenon
  <2> QED BY <2>1, <2>2, <1>7, <1>8, <1>10, <1>11, Zenon DEF FrameInv
<1>12. CASE bad
  <2>1. at' = "idle" /\ rx' = rx /\ frame' = frame
    BY <1>3, <1>4, <1>12, Zenon DEF RecvFragment, Return
  <2>2. rx' \in Assembly  BY <2>1, <1>1, Zenon DEF FrameTypes
  <2>3. Whole'  BY <2>1, <1>1, <1>3, Zenon DEF Whole, FrameWhole
  <2> QED BY <1>11, <2>1, <2>2, <2>3
<1>13. CASE ~ bad
  <2>1. /\ ~ (m.fragno # rx.fragno /\ m.fragno > 0)
        /\ ~ (new.size > job.psize) /\ Continues(new, m)
    BY <1>13, Zenon
  <2>2. PICK k : k = m.k  OBVIOUS
  <2>3. PICK d : d = sent[k].data  OBVIOUS
  <2>4. PICK s : s = sent[k].stamped  OBVIOUS
  <2>5. PICK i : i = m.fragno + 1  OBVIOUS
  <2>6. /\ 1 \in Fragmented /\ m = box[1]
        /\ \A j \in Fragmented : j # 1 => Precedes(m, box[j])
    BY <1>1, <1>3, <1>4, <1>5, HeadFirst, Zenon
  <2>7. m.fragno \in Nat  BY <2>6, <1>1, Known, Zenon
  <2>8. rx \in Assembly /\ rx.fragno \in Nat  BY <1>1 DEF FrameTypes, Assembly
  <2>9. rx.fragno > 0 => Begun(b)  BY <1>2, <1>6
  <2>10. rx.fragno > 0 => Holds(rx, b, sent[b].data, rx.fragno + 1)  BY <2>9, Zenon DEF Begun
  <2>11. ASSUME rx.fragno > 0 PROVE k = b
    <3>1. rx.fragno # 0  BY <2>8, <2>11
    <3>2. new = rx  BY <3>1, Zenon DEF Opened
    <3>3. rx.frameno = m.frameno  BY <2>11, <3>2, <2>1, Zenon DEF Continues
    <3>4. m.frameno = m.k % 16
      <4>1. IsNth(box[1], box[1].k, sent[box[1].k].data, sent[box[1].k].stamped, box[1].fragno + 1)
        BY <1>1, <2>6, Known, Zenon
      <4> QED BY <4>1, <2>6, Zenon DEF IsNth
    <3>5. rx.frameno = b % 16  BY <2>10, <2>11, Zenon DEF Holds
    <3>6. Head(box).k % 16 = b % 16  BY <3>3, <3>4, <3>5, <1>4, Zenon
    <3> QED BY <1>1, <1>2, <1>3, <1>4, <1>5, <2>2, <3>6, SameFrame, Zenon
  <2>12. rx.fragno = m.fragno
    <3>1. ASSUME rx.fragno > 0 PROVE m.fragno > 0
      <4>1. m.k = b  BY <3>1, <2>2, <2>11
      <4>2. rx.fragno <= m.fragno  BY <3>1, <4>1, <2>6, <2>9, <1>5, Zenon DEF Begun
      <4> QED BY <4>2, <3>1, <2>7, <2>8
    <3> QED BY <3>1, <2>1, <2>7, <2>8
  <2>13. /\ k \in DOMAIN sent /\ k \in Nat /\ d \in Seq(Plain) /\ s \in BOOLEAN
         /\ i \in 1 .. FragmentCount(Len(d)) /\ IsNth(m, k, d, s, i)
         /\ m.last \in BOOLEAN /\ (m.last <=> i = FragmentCount(Len(d)))
         /\ m.fragno = i - 1 /\ rx.fragno = i - 1
         /\ rx.fragno > 0 => Holds(rx, k, d, i) /\ k = b
         /\ Len(d) + Stamp <= HookBuffer
    <3>1. k \in DOMAIN sent /\ i \in 1 .. FragmentCount(Len(d)) /\ IsNth(m, k, d, s, i)
      BY <1>1, <2>2, <2>3, <2>4, <2>5, <2>6, Known, Zenon
    <3>2. k \in Nat /\ d \in Seq(Plain) /\ s \in BOOLEAN /\ Len(d) \in Sizes
      BY <1>1, <2>3, <2>4, <3>1, SentIs, Zenon
    <3>3. m.last \in BOOLEAN /\ (m.last <=> i = FragmentCount(Len(d)))
      BY <1>1, <2>2, <2>3, <2>5, <2>6, LastIs, Zenon
    <3>4. m.fragno = i - 1 /\ rx.fragno = i - 1 /\ rx.fragno + 1 = i
      BY <2>5, <2>7, <2>12
    <3>5. ASSUME rx.fragno > 0 PROVE Holds(rx, k, d, i) /\ k = b
      <4>1. k = b  BY <3>5, <2>11, Zenon
      <4> QED BY <4>1, <3>4, <3>5, <2>3, <2>10, Zenon
    <3>6. Len(d) + Stamp <= HookBuffer  BY <3>2 DEF FramesFit
    <3> QED BY <3>1, <3>2, <3>3, <3>4, <3>5, <3>6
  <2>14. job.psize \in Nat  BY <1>1, <1>3, Parameters DEF FrameTypes
  <2>15. new.size <= job.psize
    <3>1. new \in Assembly  BY <2>8, <2>13, Opens, Zenon
    <3> HIDE DEF new
    <3>2. new.size \in Nat  BY <3>1 DEF Assembly
    <3> QED BY <3>2, <2>1, <2>14
  <2>16. /\ more \in Assembly
         /\ i < FragmentCount(Len(d)) => Holds(more, k, d, i + 1)
         /\ i = FragmentCount(Len(d)) => FrameIs(Completed(more, m), k, d, s)
    BY <2>8, <2>13, <2>14, <2>15, Assembles
  <2>17. CASE m.last = TRUE
    <3>1. at' = "idle" /\ rx' = more /\ frame' = Completed(more, m)
      BY <1>3, <1>4, <1>13, <2>17, Zenon DEF RecvFragment, Return
    <3> HIDE DEF more
    <3>2. FrameIs(frame', k, sent[k].data, sent[k].stamped)
      BY <3>1, <2>3, <2>4, <2>13, <2>16, <2>17, Zenon
    <3>3. Whole'  BY <3>2, <2>13, <1>1, <1>3, WholeNow, Zenon
    <3> QED BY <3>1, <3>3, <2>16, <1>11, Zenon
  <2>18. CASE m.last = FALSE
    <3>1. at' = at /\ rx' = more /\ frame' = frame
      BY <1>3, <1>4, <1>13, <2>18, Zenon DEF RecvFragment
    <3> HIDE DEF more, new, bad
    <3>2. FrameTypes'
      <4>1. at' \in {"idle", "receive"}  BY <3>1, <1>3
      <4> QED BY <4>1, <3>1, <2>16, <1>9, Zenon
    <3>3. Whole'  BY <3>1, <1>1, <1>3, Zenon DEF Whole, FrameWhole
    <3>4. i < FragmentCount(Len(d)) /\ i \in Nat /\ (i + 1) - 1 = i
      <4>1. i \in Nat \ {0} /\ FragmentCount(Len(d)) \in Nat  BY <2>13, Index, Zenon
      <4>2. i # FragmentCount(Len(d))  BY <2>13, <2>18, Zenon
      <4> QED BY <4>1, <4>2, <2>13
    <3>5. Holds(rx', k, sent[k].data, i + 1)  BY <3>1, <3>4, <2>3, <2>16, Zenon
    <3>6. rx'.fragno = i  BY <3>4, <3>5, Zenon DEF Holds
    <3>7. ASSUME NEW j \in Fragmented', box'[j].k = k PROVE i <= box'[j].fragno
      <4>1. j \in Nat \ {0} /\ j + 1 \in Fragmented /\ box'[j] = box[j + 1]
        BY <1>1, <1>3, Shifted, Zenon
      <4>2. j + 1 # 1  BY <4>1
      <4>3. Precedes(m, box[j + 1]) /\ box[j + 1].k = k  BY <4>1, <4>2, <3>7, <2>6, Zenon
      <4>4. box[j + 1].fragno \in Nat  BY <4>1, <1>1, Known, Zenon
      <4>5. k < k \/ m.fragno < box[j + 1].fragno  BY <4>3, <2>2, Zenon DEF Precedes
      <4>6. m.fragno < box[j + 1].fragno  BY <4>5, <2>13
      <4>7. i <= box[j + 1].fragno  BY <4>4, <4>6, <2>7, <2>5
      <4> QED BY <4>1, <4>7
    <3>8. Begun(k)'
      <4>1. i < FragmentCount(Len(sent[k].data))  BY <3>4, <2>3, Zenon
      <4> QED BY <4>1, <3>4, <3>5, <3>6, <3>7, <2>13, <1>3, BegunNow, Zenon
    <3>9. c = k  BY <1>8, <2>2, <2>18
    <3> QED BY <1>7, <1>8, <1>10, <3>2, <3>3, <3>8, <3>9, Zenon DEF FrameInv
  <2> QED BY <2>13, <2>17, <2>18, Zenon
<1> QED BY <1>12, <1>13

-----------------------------------------------------------------------------
(* What requests, calls and the slave hold.                                *)

Text == Seq(Octet)

Requests ==
       [cmd : {"none", "get_list", "get_txpdo", "get_ip"}]
  \cup [cmd : {"upload", "get_description"}, idx : Indexes]
  \cup [cmd : {"upload_segment"}, toggle : BOOLEAN]
  \cup [cmd : {"download"}, idx : Indexes, size : Nat, data : Text]
  \cup [cmd : {"download_segment"}, toggle : BOOLEAN, last : BOOLEAN, data : Text, unused : Nat]
  \cup [cmd : {"get_entry"}, idx : Indexes, sub : Nat]
  \cup [cmd : {"rxpdo", "set_ip"}, data : Text]
  \cup [cmd : {"soe_readreq"}, idn : Idns]
  \cup [cmd : {"soe_writereq"}, data : Text, incomplete : {TRUE}, fragmentsleft : Nat]
  \cup [cmd : {"soe_writereq"}, data : Text, incomplete : {FALSE}, idn : Idns]
  \cup [cmd : {"eoe"}, last : BOOLEAN, fragno : Nat, frameno : Nat, offset : Nat, data : Text]

Servers ==
       [mode : {"none"}]
  \cup [mode : {"upload"}, rest : Text, toggle : BOOLEAN]
  \cup [mode : {"download"}, idx : Indexes, size : Nat, data : Text, toggle : BOOLEAN]
  \cup [mode : {"soe", "eoe"}, data : Text]

\* The slave's data, and what the call has of its own.
SlaveTypes == objects \in [Stored -> Text] /\ server \in Servers

CallTypes ==
  /\ rest \in Text
  /\ MbxOut \in Requests
  /\ job.kind \in {"soe_read", "soe_write"} => job.idx \in Idns
  /\ job.kind = "eoe_send" => job.data \in Text
  /\ MbxOut.cmd = "eoe" => job.kind = "eoe_send"

LEMMA TextIs ==
  ASSUME NEW d \in Text
  PROVE  /\ <<>> \in Text /\ Len(d) \in Nat
         /\ \A n \in Int : Take(d, n) \in Text
         /\ \A n \in Nat : Skip(d, n) \in Text
         /\ \A e \in Text : d \o e \in Text
         /\ Pad(d) \in Text /\ Unused(d) \in Nat
<1>1. d \in Seq(Octet) /\ Len(d) \in Nat  BY DEF Text
<1>2. ASSUME NEW n \in Int, NEW m \in Nat \ {0}, n <= Len(d)
      PROVE  SubSeq(d, m, n) \in Seq(Octet)
  <2>1. \A j \in m .. n : d[j] \in Octet  BY <1>1, <1>2
  <2>2. m \in Int /\ n \in Int  OBVIOUS
  <2> QED BY <2>1, <2>2, SubSeqProperties
<1>3. ASSUME NEW n \in Int PROVE Take(d, n) \in Seq(Octet)
  <2> DEFINE k == IF n < Len(d) THEN n ELSE Len(d)
  <2>1. k \in Int /\ k <= Len(d)  BY <1>1
  <2>2. Take(d, n) = SubSeq(d, 1, k)  BY Zenon DEF Take
  <2> HIDE DEF k
  <2> QED BY <1>2, <2>1, <2>2
<1>4. ASSUME NEW n \in Nat PROVE Skip(d, n) \in Seq(Octet)
  <2>1. n + 1 \in Nat \ {0} /\ Len(d) \in Int /\ Len(d) <= Len(d)  BY <1>1
  <2> QED BY <1>2, <2>1 DEF Skip
<1>5. \A e \in Seq(Octet) : d \o e \in Seq(Octet)  BY <1>1, ConcatProperties
<1>6. Pad(d) \in Seq(Octet)
  <2> DEFINE e == [i \in 1 .. MinSegment - Len(d) |-> <<>>]
  <2>1. e \in Seq(Octet)
    <3> DEFINE n == MinSegment - Len(d)
    <3>1. n \in Int  BY <1>1 DEF MinSegment
    <3>2. <<>> \in Octet  BY DEF Octet
    <3> HIDE DEF n
    <3>3. CASE n \in Nat
      <4>1. e = [i \in 1 .. n |-> <<>>]  BY DEF n
      <4>2. [i \in 1 .. n |-> <<>>] \in Seq(Octet)  BY <3>2, <3>3
      <4> QED BY <4>1, <4>2, Zenon
    <3>4. CASE n \notin Nat
      <4>1. 1 .. n = {}  BY <3>1, <3>4
      <4>2. 1 .. n = 1 .. 0  BY <4>1
      <4>3. e = [i \in 1 .. 0 |-> <<>>]  BY <4>2 DEF n
      <4>4. [i \in 1 .. 0 |-> <<>>] \in Seq(Octet)  BY <3>2
      <4> QED BY <4>3, <4>4, Zenon
    <3> QED BY <3>3, <3>4
  <2> HIDE DEF e
  <2>2. Pad(d) = d \o e  BY Zenon DEF Pad, e
  <2> QED BY <1>5, <2>1, <2>2
<1>7. Unused(d) \in Nat  BY <1>1 DEF Unused, MinSegment
<1>8. <<>> \in Seq(Octet)  OBVIOUS
<1> QED BY <1>1, <1>3, <1>4, <1>5, <1>6, <1>7, <1>8 DEF Text

LEMMA OctetsAreText ==
  ASSUME NEW w \in Nat, NEW n \in Nat
  PROVE  Octets(w, n) \in Text
<1>1. \A i \in 1 .. n : <<w, i>> \in Octet  BY DEF Octet, Plain
<1>2. Octets(w, n) = [i \in 1 .. n |-> <<w, i>>]  BY DEF Octets
<1> QED BY <1>1, <1>2 DEF Text

LEMMA RequestIs ==
  ASSUME NEW r \in Requests
  PROVE  /\ r.cmd \in {"download", "download_segment", "rxpdo", "set_ip", "soe_writereq", "eoe"}
              => r.data \in Text
         /\ r.cmd \in {"upload", "download"} => r.idx \in Indexes
         /\ r.cmd = "download" => r.size \in Nat
         /\ r.cmd = "download_segment" => r.unused \in Nat
         /\ r.cmd = "soe_readreq" => r.idn \in Idns
         /\ r.cmd = "eoe" => r.fragno \in Nat /\ r.frameno \in Nat
<1> USE DEF Requests
<1>1. CASE r \in [cmd : {"none", "get_list", "get_txpdo", "get_ip"}]  BY <1>1
<1>2. CASE r \in [cmd : {"upload", "get_description"}, idx : Indexes]  BY <1>2
<1>3. CASE r \in [cmd : {"upload_segment"}, toggle : BOOLEAN]  BY <1>3
<1>4. CASE r \in [cmd : {"download"}, idx : Indexes, size : Nat, data : Text]  BY <1>4
<1>5. CASE r \in [cmd : {"download_segment"}, toggle : BOOLEAN, last : BOOLEAN, data : Text,
                  unused : Nat]
  BY <1>5
<1>6. CASE r \in [cmd : {"get_entry"}, idx : Indexes, sub : Nat]  BY <1>6
<1>7. CASE r \in [cmd : {"rxpdo", "set_ip"}, data : Text]  BY <1>7
<1>8. CASE r \in [cmd : {"soe_readreq"}, idn : Idns]  BY <1>8
<1>9. CASE r \in [cmd : {"soe_writereq"}, data : Text, incomplete : {TRUE}, fragmentsleft : Nat]
  BY <1>9
<1>10. CASE r \in [cmd : {"soe_writereq"}, data : Text, incomplete : {FALSE}, idn : Idns]
  BY <1>10
<1>11. CASE r \in [cmd : {"eoe"}, last : BOOLEAN, fragno : Nat, frameno : Nat, offset : Nat,
                   data : Text]
  BY <1>11
<1> QED BY <1>1, <1>2, <1>3, <1>4, <1>5, <1>6, <1>7, <1>8, <1>9, <1>10, <1>11, Zenon

\* The subindex alone changes.
LEMMA NextSub ==
  ASSUME NEW r \in Requests
  PROVE  /\ [r EXCEPT !.sub = @ + 1] \in Requests
         /\ [r EXCEPT !.sub = @ + 1].cmd = r.cmd
<1> DEFINE q == [r EXCEPT !.sub = @ + 1]
<1>1. CASE r \in [cmd : {"get_entry"}, idx : Indexes, sub : Nat]
  <2>1. q \in [cmd : {"get_entry"}, idx : Indexes, sub : Nat]  BY <1>1
  <2>2. q.cmd = r.cmd  BY <1>1
  <2> QED BY <2>1, <2>2, Zenon DEF Requests
<1>2. CASE r \notin [cmd : {"get_entry"}, idx : Indexes, sub : Nat]
  <2>1. "sub" \notin DOMAIN r /\ r = [x \in DOMAIN r |-> r[x]]
    <3> USE <1>2 DEF Requests
    <3>1. CASE r \in [cmd : {"none", "get_list", "get_txpdo", "get_ip"}]  BY <3>1
    <3>2. CASE r \in [cmd : {"upload", "get_description"}, idx : Indexes]  BY <3>2
    <3>3. CASE r \in [cmd : {"upload_segment"}, toggle : BOOLEAN]  BY <3>3
    <3>4. CASE r \in [cmd : {"download"}, idx : Indexes, size : Nat, data : Text]  BY <3>4
    <3>5. CASE r \in [cmd : {"download_segment"}, toggle : BOOLEAN, last : BOOLEAN, data : Text,
                      unused : Nat]
      BY <3>5
    <3>7. CASE r \in [cmd : {"rxpdo", "set_ip"}, data : Text]  BY <3>7
    <3>8. CASE r \in [cmd : {"soe_readreq"}, idn : Idns]  BY <3>8
    <3>9. CASE r \in [cmd : {"soe_writereq"}, data : Text, incomplete : {TRUE},
                      fragmentsleft : Nat]
      BY <3>9
    <3>10. CASE r \in [cmd : {"soe_writereq"}, data : Text, incomplete : {FALSE}, idn : Idns]
      BY <3>10
    <3>11. CASE r \in [cmd : {"eoe"}, last : BOOLEAN, fragno : Nat, frameno : Nat, offset : Nat,
                       data : Text]
      BY <3>11
    <3> QED BY <3>1, <3>2, <3>3, <3>4, <3>5, <3>7, <3>8, <3>9, <3>10, <3>11, Zenon
  <2>2. q = r  BY <2>1
  <2> QED BY <2>2, Zenon
<1> QED BY <1>1, <1>2

\* The slave serves a request.
LEMMA ServerIs ==
  ASSUME NEW s \in Servers
  PROVE  /\ s.mode = "upload" => s \in [mode : {"upload"}, rest : Text, toggle : BOOLEAN]
         /\ s.mode = "download" =>
              s \in [mode : {"download"}, idx : Indexes, size : Nat, data : Text,
                     toggle : BOOLEAN]
         /\ s.mode \in {"soe", "eoe"} => s.data \in Text
BY DEF Servers

LEMMA ServerNew ==
  /\ NoTransfer \in Servers
  /\ \A d \in Text, t \in BOOLEAN : [mode |-> "upload", rest |-> d, toggle |-> t] \in Servers
  /\ \A i \in Indexes, n \in Nat, d \in Text, t \in BOOLEAN :
       [mode |-> "download", idx |-> i, size |-> n, data |-> d, toggle |-> t] \in Servers
  /\ \A d \in Text : [mode |-> "soe", data |-> d] \in Servers
  /\ \A d \in Text : [mode |-> "eoe", data |-> d] \in Servers
<1>1. NoTransfer \in Servers  BY DEF NoTransfer, Servers
<1>2. ASSUME NEW d \in Text, NEW t \in BOOLEAN
      PROVE  [mode |-> "upload", rest |-> d, toggle |-> t] \in Servers
  BY DEF Servers
<1>3. ASSUME NEW i \in Indexes, NEW n \in Nat, NEW d \in Text, NEW t \in BOOLEAN
      PROVE  [mode |-> "download", idx |-> i, size |-> n, data |-> d, toggle |-> t] \in Servers
  BY DEF Servers
<1>4. ASSUME NEW d \in Text
      PROVE  [mode |-> "soe", data |-> d] \in Servers /\ [mode |-> "eoe", data |-> d] \in Servers
  BY DEF Servers
<1> QED BY <1>1, <1>2, <1>3, <1>4

LEMMA ObjectIs ==
  ASSUME SlaveTypes
  PROVE  /\ \A i \in Indexes : objects[i] \in Text
         /\ \A i \in Idns : objects[i] \in Text
         /\ objects["list"] \in Text
BY DEF SlaveTypes, Stored

LEMMA Accepted ==
  ASSUME SlaveTypes, NEW i, NEW d \in Text, Accept(i, d)
  PROVE  SlaveTypes'
<1>1. server' \in Servers  BY ServerNew, Zenon DEF Accept
<1>2. objects' = [objects EXCEPT ![i] = d] /\ objects \in [Stored -> Text]
  BY Zenon DEF Accept, SlaveTypes
<1>3. objects' \in [Stored -> Text]  BY <1>2
<1> QED BY <1>1, <1>3, Zenon DEF SlaveTypes

LEMMA ServedNew ==
  ASSUME SlaveTypes, objects' = objects, server' \in Servers
  PROVE  SlaveTypes'
BY Zenon DEF SlaveTypes

LEMMA SdoServeTypes ==
  ASSUME SlaveTypes, NEW r \in Requests, SdoServe(r)
  PROVE  SlaveTypes'
<1>1. server \in Servers  BY Zenon DEF SlaveTypes
<1>2. MailData \in Nat /\ SegmentData \in Nat /\ MinSegment \in Nat
  BY Parameters DEF SegmentData, MinSegment
<1>3. CASE Upload(r)
  <2>1. r.idx \in Indexes  BY <1>3, RequestIs DEF Upload
  <2>2. Skip(objects[r.idx], MailData) \in Text  BY <2>1, <1>2, ObjectIs, TextIs
  <2>3. [mode |-> "upload", rest |-> Skip(objects[r.idx], MailData), toggle |-> FALSE] \in Servers
    BY <2>2, ServerNew
  <2>4. objects' = objects /\ server' \in Servers
    BY <1>3, <2>3, ServerNew, Zenon DEF Upload
  <2> QED BY <2>4, ServedNew, Zenon
<1>4. CASE UploadSegment(r)
  <2>1. CASE server' = NoTransfer
    BY <1>4, <2>1, ServerNew, ServedNew, Zenon DEF UploadSegment
  <2>2. CASE /\ server.mode = "upload"
             /\ server' = [server EXCEPT !.rest = Skip(@, SegmentData), !.toggle = ~ @]
    <3>1. server \in [mode : {"upload"}, rest : Text, toggle : BOOLEAN]
      BY <1>1, <2>2, ServerIs
    <3>2. Skip(server.rest, SegmentData) \in Text  BY <3>1, <1>2, TextIs
    <3>3. server' \in [mode : {"upload"}, rest : Text, toggle : BOOLEAN]
      BY <2>2, <3>1, <3>2
    <3>4. server' \in Servers  BY <3>3, Zenon DEF Servers
    <3> QED BY <1>4, <3>4, ServedNew, Zenon DEF UploadSegment
  <2> QED BY <1>4, <2>1, <2>2, Zenon DEF UploadSegment
<1>5. CASE Download(r)
  <2>1. r.idx \in Indexes /\ r.size \in Nat /\ r.data \in Text  BY <1>5, RequestIs DEF Download
  <2>2. CASE Accept(r.idx, r.data)  BY <2>1, <2>2, Accepted
  <2>3. CASE objects' = objects /\ server' = NoTransfer
    BY <2>3, ServerNew, ServedNew, Zenon
  <2>4. CASE /\ objects' = objects
             /\ server' = [mode |-> "download", idx |-> r.idx, size |-> r.size,
                           data |-> r.data, toggle |-> FALSE]
    <3>1. server' \in Servers  BY <2>1, <2>4, ServerNew
    <3> QED BY <2>4, <3>1, ServedNew
  <2> QED BY <1>5, <2>2, <2>3, <2>4, Zenon DEF Download
<1>6. CASE DownloadSegment(r)
  <2> DEFINE data == server.data \o Unpad(r)
  <2>1. r.data \in Text /\ r.unused \in Nat  BY <1>6, RequestIs DEF DownloadSegment
  <2>2. Unpad(r) \in Text
    <3>1. MinSegment - r.unused \in Int  BY <2>1, <1>2
    <3>2. Take(r.data, MinSegment - r.unused) \in Text  BY <2>1, <3>1, TextIs
    <3> QED BY <2>1, <3>2, Zenon DEF Unpad
  <2>3. CASE objects' = objects /\ server' = NoTransfer
    BY <2>3, ServerNew, ServedNew, Zenon
  <2>4. ASSUME server.mode = "download" PROVE data \in Text
    <3>1. server.data \in Text  BY <1>1, <2>4, ServerIs
    <3> QED BY <3>1, <2>2, TextIs
  <2>5. CASE server.mode = "download" /\ Accept(server.idx, data)
    BY <2>4, <2>5, Accepted
  <2>6. CASE /\ server.mode = "download" /\ objects' = objects
             /\ server' = [server EXCEPT !.data = data, !.toggle = ~ @]
    <3>1. server \in [mode : {"download"}, idx : Indexes, size : Nat, data : Text,
                      toggle : BOOLEAN]
      BY <1>1, <2>6, ServerIs
    <3>2. data \in Text  BY <2>4, <2>6
    <3> HIDE DEF data
    <3>3. server' \in [mode : {"download"}, idx : Indexes, size : Nat, data : Text,
                       toggle : BOOLEAN]
      BY <2>6, <3>1, <3>2
    <3>4. server' \in Servers  BY <3>3, Zenon DEF Servers
    <3> QED BY <2>6, <3>4, ServedNew, Zenon
  <2> QED BY <1>6, <2>3, <2>5, <2>6, Zenon DEF DownloadSegment
<1> QED BY <1>3, <1>4, <1>5, <1>6, Zenon DEF SdoServe

LEMMA InfoServeTypes ==
  ASSUME SlaveTypes, NEW r \in Requests, InfoServe(r)
  PROVE  SlaveTypes'
<1>1. server' \in Servers /\ objects \in [Stored -> Text]  BY Zenon DEF SlaveTypes, InfoServe
<1>2. CASE r.cmd = "rxpdo"
  <2>1. r.data \in Text  BY <1>2, RequestIs
  <2>2. objects' = [objects EXCEPT !["rxpdo"] = r.data]  BY <1>2, Zenon DEF InfoServe
  <2>3. objects' \in [Stored -> Text]  BY <2>1, <2>2, <1>1
  <2> QED BY <1>1, <2>3, Zenon DEF SlaveTypes
<1>3. CASE r.cmd # "rxpdo"
  <2>1. objects' = objects  BY <1>3, Zenon DEF InfoServe
  <2> QED BY <1>1, <2>1, ServedNew, Zenon
<1> QED BY <1>2, <1>3

LEMMA SoeServeTypes ==
  ASSUME SlaveTypes, NEW r \in Requests, SoeServe(r)
  PROVE  SlaveTypes'
<1>1. CASE objects' = objects /\ server' = NoTransfer
  BY <1>1, ServerNew, ServedNew, Zenon
<1>2. CASE GiveValue(r)
  BY <1>1, <1>2, Zenon DEF GiveValue, Refuse
<1>3. CASE TakeFragment(r)
  <2> DEFINE data == IF server.mode = "soe" THEN server.data \o r.data ELSE r.data
  <2>1. data \in Text
    <3>1. r.data \in Text  BY <1>3, RequestIs DEF TakeFragment
    <3>2. ASSUME server.mode = "soe" PROVE server.data \o r.data \in Text
      <4>1. server.data \in Text  BY <3>2, ServerIs DEF SlaveTypes
      <4> QED BY <3>1, <4>1, TextIs
    <3> QED BY <3>1, <3>2, Zenon
  <2> HIDE DEF data
  <2>2. CASE objects' = objects /\ server' = [mode |-> "soe", data |-> data]
    <3>1. server' \in Servers  BY <2>1, <2>2, ServerNew
    <3> QED BY <2>2, <3>1, ServedNew
  <2>3. CASE Accept(r.idn, data)  BY <2>1, <2>3, Accepted
  <2> QED BY <1>3, <1>1, <2>2, <2>3, Zenon DEF TakeFragment, Refuse, data
<1> QED BY <1>2, <1>3, Zenon DEF SoeServe

LEMMA EoeServeTypes ==
  ASSUME SlaveTypes, NEW r \in Requests, EoeServe(r)
  PROVE  SlaveTypes'
<1>1. CASE r.cmd = "eoe"
  <2> DEFINE begun == server.mode = "eoe" /\ r.fragno > 0
             data == (IF begun THEN server.data ELSE <<>>) \o r.data
  <2>1. data \in Text
    <3>1. r.data \in Text  BY <1>1, RequestIs
    <3>2. (IF begun THEN server.data ELSE <<>>) \in Text
      <4>1. ASSUME server.mode = "eoe" PROVE server.data \in Text
        BY <4>1, ServerIs DEF SlaveTypes
      <4>2. <<>> \in Text  BY <3>1, TextIs
      <4> QED BY <4>1, <4>2, Zenon
    <3> HIDE DEF begun
    <3> QED BY <3>1, <3>2, TextIs
  <2> HIDE DEF data
  <2>2. CASE objects' = objects /\ server' = [mode |-> "eoe", data |-> data]
    <3>1. server' \in Servers  BY <2>1, <2>2, ServerNew
    <3> QED BY <2>2, <3>1, ServedNew
  <2>3. CASE Accept("frame", data)  BY <2>1, <2>3, Accepted
  <2>4. r.cmd # "set_ip" /\ r.cmd # "get_ip"  BY <1>1
  <2> QED BY <1>1, <2>2, <2>3, <2>4, Zenon DEF EoeServe, data, begun
<1>2. CASE r.cmd = "set_ip"
  <2>1. r.data \in Text  BY <1>2, RequestIs
  <2>2. CASE Accept("ip", r.data)  BY <2>1, <2>2, Accepted
  <2>3. CASE objects' = objects /\ server' = server  BY <2>3, Zenon DEF SlaveTypes
  <2>4. r.cmd # "eoe" /\ r.cmd # "get_ip"  BY <1>2
  <2> QED BY <1>2, <2>2, <2>3, <2>4, Zenon DEF EoeServe
<1>3. CASE r.cmd = "get_ip"
  <2>1. r.cmd # "eoe" /\ r.cmd # "set_ip"  BY <1>3
  <2>2. objects' = objects /\ server' = server  BY <1>3, <2>1, Zenon DEF EoeServe
  <2> QED BY <2>2, Zenon DEF SlaveTypes
<1> QED BY <1>1, <1>2, <1>3, Zenon DEF EoeServe

-----------------------------------------------------------------------------
(* The other steps.                                                        *)

\* The slave says nothing, or answers with mails that are no fragments.
Replied == \E s : OtherMail(s) /\ box' = box \o s

LEMMA Silence ==
  ASSUME FrameTypes, box' = box
  PROVE  Replied
<1>1. box \in Seq(Range(box))  BY Zenon DEF FrameTypes
<1>2. box \o <<>> = box  BY <1>1, ConcatEmptySeq
<1>3. OtherMail(<<>>)
  <2>1. <<>> \in Seq(Range(<<>>)) /\ DOMAIN <<>> = {}  OBVIOUS
  <2> QED BY <2>1, Zenon DEF OtherMail
<1> QED BY <1>2, <1>3, Zenon DEF Replied

LEMMA SingleMail ==
  ASSUME FrameTypes, NEW m, m.cmd # "eoe", Answer(m)
  PROVE  Replied
<1>1. box' = Append(box, m)  BY Zenon DEF Answer
<1>2. box \in Seq(Range(box))  BY Zenon DEF FrameTypes
<1>3. box \in Seq(Range(box) \union {m}) /\ m \in Range(box) \union {m}
  BY <1>2
<1>4. box' = box \o <<m>>
  BY <1>1, <1>3, AppendIsConcat
<1>5. OtherMail(<<m>>)
  <2>1. <<m>>[1] = m /\ DOMAIN <<m>> = {1} /\ Len(<<m>>) = 1  OBVIOUS
  <2>2. m \in Range(<<m>>)  BY <2>1, Zenon DEF Range
  <2>3. <<m>> \in Seq(Range(<<m>>))  BY <2>2
  <2>4. \A j \in DOMAIN <<m>> : ~ IsFragment(<<m>>[j])  BY <2>1, Zenon DEF IsFragment
  <2> QED BY <2>3, <2>4, Zenon DEF OtherMail
<1> QED BY <1>4, <1>5, Zenon DEF Replied

LEMMA Aborted ==
  ASSUME FrameTypes, Abort
  PROVE  Replied
<1>1. [cmd |-> "abort", idx |-> "none"].cmd # "eoe"  OBVIOUS
<1> QED BY <1>1, SingleMail DEF Abort

LEMMA SdoReplies ==
  ASSUME FrameTypes, NEW r, SdoServe(r)
  PROVE  Replied
<1>1. CASE Upload(r)
  <2>1. \/ Answer([cmd |-> "expedited", idx |-> r.idx, data |-> objects[r.idx]])
        \/ Answer([cmd |-> "normal", idx |-> r.idx, size |-> Len(objects[r.idx]),
                   data |-> Take(objects[r.idx], MailData)])
    BY <1>1, Zenon DEF Upload
  <2>2. \A i, d : [cmd |-> "expedited", idx |-> i, data |-> d].cmd # "eoe"  OBVIOUS
  <2>3. \A i, n, d : [cmd |-> "normal", idx |-> i, size |-> n, data |-> d].cmd # "eoe"  OBVIOUS
  <2> QED BY <2>1, <2>2, <2>3, SingleMail, Zenon
<1>2. CASE UploadSegment(r)
  <2>1. \/ \E t, d, l : Answer(Segment("segment", t, d, l))
        \/ Abort
    BY <1>2, Zenon DEF UploadSegment
  <2>2. \A t, d, l : Segment("segment", t, d, l).cmd # "eoe"  BY DEF Segment
  <2> QED BY <2>1, <2>2, SingleMail, Aborted, Zenon
<1>3. CASE Download(r)
  <2>1. \/ Answer([cmd |-> "written", idx |-> r.idx, size |-> 0, data |-> <<>>])
        \/ Abort
    BY <1>3, Zenon DEF Download
  <2>2. \A i : [cmd |-> "written", idx |-> i, size |-> 0, data |-> <<>>].cmd # "eoe"  OBVIOUS
  <2> QED BY <2>1, <2>2, SingleMail, Aborted, Zenon
<1>4. CASE DownloadSegment(r)
  <2>1. \/ Answer([cmd |-> "segment_written", idx |-> "none"])
        \/ Abort
    BY <1>4, Zenon DEF DownloadSegment
  <2>2. [cmd |-> "segment_written", idx |-> "none"].cmd # "eoe"  OBVIOUS
  <2> QED BY <2>1, <2>2, SingleMail, Aborted, Zenon
<1> QED BY <1>1, <1>2, <1>3, <1>4, Zenon DEF SdoServe

\* Several mails.
LEMMA ManyMails ==
  ASSUME NEW n \in Nat, NEW s, s = [j \in 1 .. n |-> s[j]],
         \A j \in 1 .. n : s[j].cmd # "eoe", box' = box \o s
  PROVE  Replied
<1>1. DOMAIN s = 1 .. n  BY Zenon
<1>2. \A j \in 1 .. n : s[j] \in Range(s)  BY <1>1, Zenon DEF Range
<1>3. s \in [1 .. n -> Range(s)]  BY <1>2, Zenon
<1>4. s \in Seq(Range(s))  BY <1>3
<1>5. \A j \in DOMAIN s : ~ IsFragment(s[j])  BY <1>1, Zenon DEF IsFragment
<1> QED BY <1>4, <1>5, Zenon DEF Replied, OtherMail

LEMMA InfoReplies ==
  ASSUME FrameTypes, SlaveTypes, NEW r, InfoServe(r)
  PROVE  Replied
<1>1. CASE \E w : box' = box \o Mails(<<w>> \o objects["list"])
  <2>1. PICK v : box' = box \o Mails(<<v>> \o objects["list"])  BY <1>1
  <2>0. PICK w : w = <<v>> \o objects["list"]  OBVIOUS
  <2> DEFINE n == (Len(w) + ListData - 1) \div ListData
             s == Mails(w)
  <2>2. /\ DOMAIN s = 1 .. n /\ s = [j \in 1 .. n |-> s[j]]
        /\ \A j \in 1 .. n : s[j].cmd # "eoe"
    BY DEF Mails
  <2>3. n \in Nat
    <3>1. objects["list"] \in Seq(Octet)  BY ObjectIs DEF Text
    <3>2. Len(w) \in Nat /\ ListData \in Nat \ {0} /\ Len(w) >= 1
      <4>1. <<v>> \in Seq({v}) /\ Len(<<v>>) = 1  OBVIOUS
      <4>2. <<v>> \in Seq(Octet \union {v})  OBVIOUS
      <4>3. objects["list"] \in Seq(Octet \union {v})  BY <3>1
      <4>4. Len(w) = Len(<<v>>) + Len(objects["list"])  BY <2>0, <4>2, <4>3, ConcatProperties
      <4>5. Len(objects["list"]) \in Nat  BY <3>1
      <4> QED BY <4>1, <4>4, <4>5, Parameters DEF ListData
    <3>3. Len(w) + ListData - 1 \in Nat  BY <3>2
    <3> QED BY <3>2, <3>3, Division
  <2>4. box' = box \o s  BY <2>0, <2>1, Zenon
  <2> HIDE DEF n, s
  <2> QED BY <2>2, <2>3, <2>4, ManyMails
<1>2. CASE \E d : Answer([cmd |-> "txpdo", data |-> d])
  <2>1. \A d : [cmd |-> "txpdo", data |-> d].cmd # "eoe"  OBVIOUS
  <2> QED BY <1>2, <2>1, SingleMail, Zenon
<1>3. CASE \E i : Answer([cmd |-> "description", of |-> i])
  <2>1. \A i : [cmd |-> "description", of |-> i].cmd # "eoe"  OBVIOUS
  <2> QED BY <1>3, <2>1, SingleMail, Zenon
<1>4. CASE \E i : Answer([cmd |-> "entry", of |-> i])
  <2>1. \A i : [cmd |-> "entry", of |-> i].cmd # "eoe"  OBVIOUS
  <2> QED BY <1>4, <2>1, SingleMail, Zenon
<1>5. CASE Abort  BY <1>5, Aborted, Zenon
<1>6. CASE Silent
  <2>1. box' = box  BY <1>6, Zenon DEF Silent
  <2> QED BY <2>1, Silence, Zenon
<1> QED BY <1>1, <1>2, <1>3, <1>4, <1>5, <1>6, Zenon DEF InfoServe

LEMMA SoeReplies ==
  ASSUME FrameTypes, SlaveTypes, NEW r \in Requests, SoeServe(r)
  PROVE  Replied
<1>1. CASE \E d \in Text : box' = box \o ReadFragments(d)
  <2>1. PICK d \in Text : box' = box \o ReadFragments(d)  BY <1>1
  <2> DEFINE n == IF d = <<>> THEN 1 ELSE Fragments(Len(d))
             s == ReadFragments(d)
  <2>2. /\ DOMAIN s = 1 .. n /\ s = [j \in 1 .. n |-> s[j]]
        /\ \A j \in 1 .. n : s[j].cmd # "eoe"
    BY DEF ReadFragments
  <2>3. n \in Nat
    <3>1. Len(d) \in Nat /\ SoeData \in Nat \ {0}  BY TextIs, Parameters DEF SoeData
    <3>2. Len(d) + SoeData - 1 \in Nat  BY <3>1
    <3>3. Fragments(Len(d)) \in Nat  BY <3>1, <3>2, Division DEF Fragments
    <3> QED BY <3>3
  <2> HIDE DEF n, s
  <2>4. box' = box \o s  BY <2>1 DEF s
  <2> QED BY <2>2, <2>3, <2>4, ManyMails
<1>2. CASE Refuse
  <2>1. [cmd |-> "soe_error"].cmd # "eoe"  OBVIOUS
  <2> QED BY <1>2, <2>1, SingleMail, Zenon DEF Refuse
<1>3. CASE Answer([cmd |-> "soe_written"])
  <2>1. [cmd |-> "soe_written"].cmd # "eoe"  OBVIOUS
  <2> QED BY <1>3, <2>1, SingleMail, Zenon
<1>4. CASE Silent
  <2>1. box' = box  BY <1>4, Zenon DEF Silent
  <2> QED BY <2>1, Silence, Zenon
<1>5. ASSUME r.cmd = "soe_readreq" PROVE objects[r.idn] \in Text
  BY <1>5, RequestIs, ObjectIs
<1> QED BY <1>1, <1>2, <1>3, <1>4, <1>5, Zenon DEF SoeServe, GiveValue, TakeFragment

LEMMA EoeReplies ==
  ASSUME FrameTypes, NEW r, EoeServe(r)
  PROVE  Replied
<1>1. CASE Silent
  <2>1. box' = box  BY <1>1, Zenon DEF Silent
  <2> QED BY <2>1, Silence, Zenon
<1>2. CASE \E b : Answer([cmd |-> "ip_set", success |-> b])
  <2>1. \A b : [cmd |-> "ip_set", success |-> b].cmd # "eoe"  OBVIOUS
  <2> QED BY <1>2, <2>1, SingleMail, Zenon
<1>3. CASE \E d : Answer([cmd |-> "ip", data |-> d])
  <2>1. \A d : [cmd |-> "ip", data |-> d].cmd # "eoe"  OBVIOUS
  <2> QED BY <1>3, <2>1, SingleMail, Zenon
<1> QED BY <1>1, <1>2, <1>3, Zenon DEF EoeServe

\* What a call does next.
LEMMA NextRequest ==
  ASSUME CallTypes, job' = job, rest' \in Text, MbxOut' \in Requests,
         MbxOut'.cmd = "eoe" => job.kind = "eoe_send"
  PROVE  CallTypes'
BY Zenon DEF CallTypes

LEMMA CallSame ==
  ASSUME CallTypes, job' = job, rest' = rest, MbxOut' = MbxOut
  PROVE  CallTypes'
BY Zenon DEF CallTypes

LEMMA Returned ==
  ASSUME CallTypes, job' = job, NEW x, Return(x)
  PROVE  CallTypes'
<1>1. rest' = <<>> /\ MbxOut' = [cmd |-> "none"]  BY Zenon DEF Return
<1>2. <<>> \in Text  BY DEF Text
<1>3. [cmd |-> "none"] \in Requests /\ [cmd |-> "none"].cmd # "eoe"
  <2>1. [cmd |-> "none"] \in [cmd : {"none", "get_list", "get_txpdo", "get_ip"}]  OBVIOUS
  <2> QED BY <2>1, Zenon DEF Requests
<1> QED BY <1>1, <1>2, <1>3, NextRequest, Zenon

LEMMA UploadNext ==
  ASSUME CallTypes, job' = job, NEW t \in BOOLEAN, NextUpload(t)
  PROVE  CallTypes'
<1>1. rest' = rest /\ MbxOut' = [cmd |-> "upload_segment", toggle |-> t]
  BY Zenon DEF NextUpload
<1>2. [cmd |-> "upload_segment", toggle |-> t] \in [cmd : {"upload_segment"}, toggle : BOOLEAN]
  OBVIOUS
<1>3. [cmd |-> "upload_segment", toggle |-> t].cmd # "eoe"  OBVIOUS
<1>4. MbxOut' \in Requests  BY <1>1, <1>2, Zenon DEF Requests
<1>5. rest' \in Text  BY <1>1, Zenon DEF CallTypes
<1> QED BY <1>1, <1>3, <1>4, <1>5, NextRequest, Zenon

LEMMA DownloadNext ==
  ASSUME CallTypes, job' = job, NEW t \in BOOLEAN, NextDownload(t)
  PROVE  CallTypes'
<1> DEFINE d == Take(rest, SegmentData)
           last == Len(rest) <= SegmentData
<1>1. MbxOut' = Segment("download_segment", t, d, last) /\ rest' = Skip(rest, SegmentData)
  BY Zenon DEF NextDownload
<1>2. rest \in Text  BY Zenon DEF CallTypes
<1>3. SegmentData \in Nat  BY Parameters DEF SegmentData, MinSegment
<1>4. d \in Text /\ rest' \in Text  BY <1>1, <1>2, <1>3, TextIs
<1>5. last \in BOOLEAN  OBVIOUS
<1> HIDE DEF d, last
<1>6. Pad(d) \in Text /\ Unused(d) \in Nat  BY <1>4, TextIs
<1>7. MbxOut' = [cmd |-> "download_segment", toggle |-> t, last |-> last, data |-> Pad(d),
                 unused |-> Unused(d)]
  BY <1>1, Zenon DEF Segment
<1>8. MbxOut' \in [cmd : {"download_segment"}, toggle : BOOLEAN, last : BOOLEAN, data : Text,
                   unused : Nat]
  BY <1>5, <1>6, <1>7
<1>9. MbxOut'.cmd # "eoe"  BY <1>7
<1>10. MbxOut' \in Requests  BY <1>8, Zenon DEF Requests
<1> QED BY <1>4, <1>9, <1>10, NextRequest, Zenon

LEMMA FragmentNext ==
  ASSUME CallTypes, job' = job, SoeCall, NextFragment
  PROVE  CallTypes'
<1>1. MbxOut' = Fragment(job.idx, rest) /\ rest' = Skip(rest, SoeData)
  BY Zenon DEF NextFragment
<1>2. rest \in Text /\ job.idx \in Idns  BY Zenon DEF CallTypes, SoeCall
<1>3. SoeData \in Nat \ {0} /\ Len(rest) \in Nat  BY <1>2, TextIs, Parameters DEF SoeData
<1>4. rest' \in Text /\ Take(rest, SoeData) \in Text  BY <1>1, <1>2, <1>3, TextIs
<1>5. MbxOut' \in Requests /\ MbxOut'.cmd # "eoe"
  <2>1. CASE Divided(Len(rest))
    <3>1. MbxOut' = [cmd |-> "soe_writereq", data |-> Take(rest, SoeData), incomplete |-> TRUE,
                     fragmentsleft |-> FragmentsLeft(Len(rest))]
      BY <1>1, <2>1, Zenon DEF Fragment
    <3>2. FragmentsLeft(Len(rest)) \in Nat  BY <1>3, Division DEF FragmentsLeft
    <3>3. MbxOut' \in [cmd : {"soe_writereq"}, data : Text, incomplete : {TRUE},
                       fragmentsleft : Nat]
      BY <1>4, <3>1, <3>2
    <3>4. MbxOut'.cmd # "eoe"  BY <3>1
    <3> QED BY <3>3, <3>4, Zenon DEF Requests
  <2>2. CASE ~ Divided(Len(rest))
    <3>1. MbxOut' = [cmd |-> "soe_writereq", data |-> rest, incomplete |-> FALSE, idn |-> job.idx]
      BY <1>1, <2>2, Zenon DEF Fragment
    <3>2. MbxOut' \in [cmd : {"soe_writereq"}, data : Text, incomplete : {FALSE}, idn : Idns]
      BY <1>2, <3>1
    <3>3. MbxOut'.cmd # "eoe"  BY <3>1
    <3> QED BY <3>2, <3>3, Zenon DEF Requests
  <2> QED BY <2>1, <2>2
<1> QED BY <1>4, <1>5, NextRequest, Zenon

LEMMA ConcludedTypes ==
  ASSUME CallTypes, job' = job, NEW x, Concluded(x)
  PROVE  CallTypes'
<1>1. CASE Return(x)  BY <1>1, Returned, Zenon
<1>2. CASE NextEntry
  <2>1. MbxOut' = [MbxOut EXCEPT !.sub = @ + 1] /\ rest' = rest  BY <1>2, Zenon DEF NextEntry
  <2>2. MbxOut \in Requests /\ rest \in Text /\ (MbxOut.cmd = "eoe" => job.kind = "eoe_send")
    BY Zenon DEF CallTypes
  <2>3. MbxOut' \in Requests /\ MbxOut'.cmd = MbxOut.cmd  BY <2>1, <2>2, NextSub, Zenon
  <2> QED BY <2>1, <2>2, <2>3, NextRequest, Zenon
<1> QED BY <1>1, <1>2, Zenon DEF Concluded

\* A fragment of EOEsend from the data from octet o on.
LEMMA FragmentNew ==
  ASSUME NEW d \in Text, NEW f \in Nat, NEW o \in Nat, NEW k \in Nat
  PROVE  EoeFragment(d, f, o, k) \in Requests /\ EoeFragment(d, f, o, k).cmd = "eoe"
<1> DEFINE m == EoeFragment(d, f, o, k)
           last == Len(d) - o <= MailData + 6
           at0 == IF f = 0 THEN Blocks(Len(d)) ELSE o \div Block
           data == IF last THEN Skip(d, o) ELSE Take(Skip(d, o), Payload)
<1>1. m = [cmd |-> "eoe", last |-> last, fragno |-> f, frameno |-> k, offset |-> at0,
           data |-> data]
  BY Zenon DEF EoeFragment
<1>2. Len(d) \in Nat /\ Block \in Nat \ {0} /\ Len(d) + Block - 1 \in Nat
  BY TextIs, Parameters
<1>3. at0 \in Nat  BY <1>2, Division DEF Blocks
<1>4. data \in Text
  <2>1. Skip(d, o) \in Text  BY TextIs
  <2>2. Payload \in Int  BY PayloadFits
  <2> HIDE DEF last
  <2> QED BY <2>1, <2>2, TextIs
<1>5. last \in BOOLEAN  OBVIOUS
<1> HIDE DEF m, last, at0, data
<1>6. m \in [cmd : {"eoe"}, last : BOOLEAN, fragno : Nat, frameno : Nat, offset : Nat,
             data : Text]
  BY <1>1, <1>3, <1>4, <1>5
<1>7. m.cmd = "eoe"  BY <1>1
<1> QED BY <1>6, <1>7, Zenon DEF Requests, m

LEMMA EoeFragmentNext ==
  ASSUME CallTypes, job' = job, rest' = rest \/ rest' = <<>>, MbxOut.cmd = "eoe", NextEoeFragment
  PROVE  CallTypes'
<1>1. CASE Return("ok")  BY <1>1, Returned, Zenon
<1>2. CASE MbxOut' = EoeFragment(job.data, MbxOut.fragno + 1, (MbxOut.fragno + 1) * Payload,
                                 MbxOut.frameno)
  <2>1. MbxOut \in Requests /\ job.kind = "eoe_send" /\ job.data \in Text /\ rest \in Text
    BY Zenon DEF CallTypes
  <2>2. MbxOut.fragno \in Nat /\ MbxOut.frameno \in Nat  BY <2>1, RequestIs
  <2>3. MbxOut.fragno + 1 \in Nat /\ (MbxOut.fragno + 1) * Payload \in Nat
    <3>1. Payload \in Nat  BY PayloadFits
    <3> QED BY <2>2, <3>1
  <2>4. MbxOut' \in Requests  BY <1>2, <2>1, <2>2, <2>3, FragmentNew
  <2>5. rest' \in Text  BY <2>1, TextIs
  <2> QED BY <2>1, <2>4, <2>5, NextRequest, Zenon
<1> QED BY <1>1, <1>2, Zenon DEF NextEoeFragment

\* A step of a call that puts no fragments together.
Aside ==
  /\ hook' = hook /\ job' = job /\ calls' = calls /\ rx' = rx /\ frame' = frame /\ sent' = sent
  /\ job.kind # "eoe_recv"
  /\ faults' = faults \/ (faults < MaxFaults /\ faults' = faults + 1)
  /\ Replied \/ (box # <<>> /\ box' = Tail(box) /\ ForCall)

LEMMA FaultsStay ==
  ASSUME FrameTypes, faults' = faults \/ (faults < MaxFaults /\ faults' = faults + 1)
  PROVE  faults' \in 0 .. MaxFaults /\ faults <= faults'
<1>1. faults \in 0 .. MaxFaults /\ MaxFaults \in Nat  BY Parameters DEF FrameTypes
<1> QED BY <1>1

LEMMA ForOthers ==
  ASSUME FrameTypes, box # <<>>, box' = Tail(box), ForCall, hook' = hook,
         Collecting' => hook'
  PROVE  IsFragment(Head(box)) => ~ Collecting'
BY Zenon DEF ForCall, IsFragment

LEMMA AsideApart ==
  ASSUME FrameTypes, Aside
  PROVE  Apart
<1>1. /\ hook' = hook /\ job' = job /\ calls' = calls /\ rx' = rx /\ frame' = frame /\ sent' = sent
      /\ job.kind # "eoe_recv"
      /\ faults' = faults \/ (faults < MaxFaults /\ faults' = faults + 1)
      /\ Replied \/ (box # <<>> /\ box' = Tail(box) /\ ForCall)
  BY Zenon DEF Aside
<1>2. faults' \in 0 .. MaxFaults /\ faults <= faults'  BY <1>1, FaultsStay, Zenon
<1>3. Collecting' => hook'  BY <1>1, Zenon DEF Collecting
<1>4. Collecting' => Collecting  BY <1>1, <1>3, Zenon DEF Collecting
<1>5. ASSUME box # <<>>, box' = Tail(box), ForCall
      PROVE  IsFragment(Head(box)) => ~ Collecting'
  BY <1>1, <1>3, <1>5, ForOthers, Zenon
<1> QED BY <1>1, <1>2, <1>4, <1>5, Zenon DEF Apart, Replied

LEMMA ByFault ==
  ASSUME Fault
  PROVE  faults' = faults \/ (faults < MaxFaults /\ faults' = faults + 1)
BY Zenon DEF Fault

\* The slave has not got the request.
LEMMA NotServed ==
  ASSUME FrameTypes, SlaveTypes, UNCHANGED slaveState
  PROVE  SlaveTypes' /\ Replied
<1>1. objects' = objects /\ server' = server /\ box' = box  BY Zenon DEF slaveState
<1> QED BY <1>1, Silence, Zenon DEF SlaveTypes

LEMMA ReadOnly ==
  ASSUME SlaveTypes, MailRead
  PROVE  /\ SlaveTypes' /\ hook' = hook /\ job' = job /\ calls' = calls /\ faults' = faults
         /\ box # <<>> /\ box' = Tail(box) /\ ForCall
BY Zenon DEF MailRead, SlaveTypes

LEMMA SdoStepAside ==
  ASSUME FrameTypes, SlaveTypes, CallTypes, SdoStep, UNCHANGED eoeVars
  PROVE  SlaveTypes' /\ CallTypes' /\ Aside
<1>1. rx' = rx /\ frame' = frame /\ sent' = sent  BY Zenon DEF eoeVars
<1>2. MbxOut \in Requests  BY Zenon DEF CallTypes
<1>3. SdoCall  BY Zenon DEF SdoStep, SdoSend, SdoSendFails, SdoTimesOut, SdoReceive
<1>4. job.kind # "eoe_recv"  BY <1>3 DEF SdoCall
<1>5. SdoServe(MbxOut) => SlaveTypes' /\ Replied  BY <1>2, SdoServeTypes, SdoReplies, Zenon
<1>6. FALSE \in BOOLEAN /\ Flip(toggle) \in BOOLEAN  BY DEF Flip
<1>7. CASE SdoSend
  <2>1. /\ hook' = hook /\ job' = job /\ calls' = calls /\ faults' = faults
        /\ rest' = rest /\ MbxOut' = MbxOut
        /\ SdoServe(MbxOut)
    BY <1>7, Zenon DEF SdoSend, Sent, locals
  <2> QED BY <2>1, <1>1, <1>4, <1>5, CallSame, Zenon DEF Aside
<1>8. CASE SdoSendFails \/ SdoTimesOut
  <2>1. /\ hook' = hook /\ job' = job /\ calls' = calls /\ Fault /\ Failed
        /\ SdoServe(MbxOut) \/ UNCHANGED slaveState
    BY <1>8, Zenon DEF SdoSendFails, SdoTimesOut, Failing
  <2>2. SlaveTypes' /\ Replied  BY <2>1, <1>5, NotServed, Zenon
  <2>3. CallTypes'
    BY <2>1, <1>6, Returned, UploadNext, DownloadNext, Zenon DEF Failed
  <2> QED BY <2>1, <2>2, <2>3, <1>1, <1>4, ByFault, Zenon DEF Aside
<1>9. CASE SdoReceive
  <2>1. MailRead  BY <1>9, Zenon DEF SdoReceive
  <2>2. /\ SlaveTypes' /\ hook' = hook /\ job' = job /\ calls' = calls /\ faults' = faults
        /\ box # <<>> /\ box' = Tail(box) /\ ForCall
    BY <2>1, ReadOnly, Zenon
  <2>3. \/ \E x : Return(x)
        \/ NextUpload(FALSE) \/ NextUpload(Flip(toggle))
        \/ NextDownload(FALSE) \/ NextDownload(Flip(toggle))
    BY <1>9, Zenon DEF SdoReceive, Uploaded, SegmentUploaded, Downloaded, SegmentDownloaded,
       Unexpected
  <2>4. CallTypes'  BY <2>2, <2>3, <1>6, Returned, UploadNext, DownloadNext, Zenon
  <2> QED BY <2>2, <2>4, <1>1, <1>4, Zenon DEF Aside
<1> QED BY <1>7, <1>8, <1>9, Zenon DEF SdoStep

LEMMA InfoStepAside ==
  ASSUME FrameTypes, SlaveTypes, CallTypes, InfoStep, UNCHANGED eoeVars
  PROVE  SlaveTypes' /\ CallTypes' /\ Aside
<1>1. rx' = rx /\ frame' = frame /\ sent' = sent  BY Zenon DEF eoeVars
<1>2. MbxOut \in Requests  BY Zenon DEF CallTypes
<1>3. job.kind # "eoe_recv"
  <2>1. InfoCall \/ job.kind = "rxpdo"
    BY Zenon DEF InfoStep, InfoSend, RxPdoSend, InfoSendFails, InfoTimesOut, InfoReceive
  <2> QED BY <2>1 DEF InfoCall
<1>4. InfoServe(MbxOut) => SlaveTypes' /\ Replied
  BY <1>2, InfoServeTypes, InfoReplies, Zenon
<1>5. CASE InfoSend
  <2>1. /\ hook' = hook /\ job' = job /\ calls' = calls /\ faults' = faults
        /\ rest' = rest /\ MbxOut' = MbxOut
        /\ InfoServe(MbxOut)
    BY <1>5, Zenon DEF InfoSend, Sent, locals
  <2> QED BY <2>1, <1>1, <1>3, <1>4, CallSame, Zenon DEF Aside
<1>6. CASE RxPdoSend
  <2>1. /\ hook' = hook /\ job' = job /\ calls' = calls /\ faults' = faults
        /\ InfoServe(MbxOut) /\ Return("ok")
    BY <1>6, Zenon DEF RxPdoSend
  <2> QED BY <2>1, <1>1, <1>3, <1>4, Returned, Zenon DEF Aside
<1>7. CASE InfoSendFails \/ InfoTimesOut
  <2>1. /\ hook' = hook /\ job' = job /\ calls' = calls /\ Fault /\ Concluded("failed")
        /\ InfoServe(MbxOut) \/ UNCHANGED slaveState
    BY <1>7, Zenon DEF InfoSendFails, InfoTimesOut, Failing
  <2>2. SlaveTypes' /\ Replied  BY <2>1, <1>4, NotServed, Zenon
  <2> QED BY <2>1, <2>2, <1>1, <1>3, ConcludedTypes, ByFault, Zenon DEF Aside
<1>8. CASE InfoReceive
  <2>1. MailRead  BY <1>8, Zenon DEF InfoReceive
  <2>2. /\ SlaveTypes' /\ hook' = hook /\ job' = job /\ calls' = calls /\ faults' = faults
        /\ box # <<>> /\ box' = Tail(box) /\ ForCall
    BY <2>1, ReadOnly, Zenon
  <2>3. \/ \E x : Return(x)
        \/ \E x : Concluded(x)
        \/ rest' = rest /\ MbxOut' = MbxOut
    BY <1>8, Zenon DEF InfoReceive, ListRead, DescriptionRead, EntryRead, TxPdoRead,
       InfoUnexpected
  <2>4. CallTypes'  BY <2>2, <2>3, Returned, ConcludedTypes, CallSame, Zenon
  <2> QED BY <2>2, <2>4, <1>1, <1>3, Zenon DEF Aside
<1> QED BY <1>5, <1>6, <1>7, <1>8, Zenon DEF InfoStep

LEMMA SoeStepAside ==
  ASSUME FrameTypes, SlaveTypes, CallTypes, SoeStep, UNCHANGED eoeVars
  PROVE  SlaveTypes' /\ CallTypes' /\ Aside
<1>1. rx' = rx /\ frame' = frame /\ sent' = sent  BY Zenon DEF eoeVars
<1>2. MbxOut \in Requests  BY Zenon DEF CallTypes
<1>3. SoeCall
  BY Zenon DEF SoeStep, SoeSend, SoeTaken, SoeNotTaken, SoeSendFails, SoeTimesOut, SoeReceive
<1>4. job.kind # "eoe_recv"  BY <1>3 DEF SoeCall
<1>5. SoeServe(MbxOut) => SlaveTypes' /\ Replied  BY <1>2, SoeServeTypes, SoeReplies, Zenon
<1>6. CASE SoeSend
  <2>1. /\ hook' = hook /\ job' = job /\ calls' = calls /\ faults' = faults
        /\ rest' = rest /\ MbxOut' = MbxOut
        /\ SoeServe(MbxOut)
    BY <1>6, Zenon DEF SoeSend, Sent, locals
  <2> QED BY <2>1, <1>1, <1>4, <1>5, CallSame, Zenon DEF Aside
<1>7. CASE SoeTaken
  <2>1. /\ hook' = hook /\ job' = job /\ calls' = calls /\ faults' = faults
        /\ NextFragment /\ UNCHANGED slaveState
    BY <1>7, Zenon DEF SoeTaken
  <2> QED BY <2>1, <1>1, <1>3, <1>4, NotServed, FragmentNext, Zenon DEF Aside
<1>8. CASE SoeNotTaken
  <2>1. /\ hook' = hook /\ job' = job /\ calls' = calls /\ Fault /\ UNCHANGED slaveState
        /\ rest' = rest /\ MbxOut' = MbxOut
    BY <1>8, Zenon DEF SoeNotTaken, Failing
  <2> QED BY <2>1, <1>1, <1>4, NotServed, ByFault, CallSame, Zenon DEF Aside
<1>9. CASE SoeSendFails \/ SoeTimesOut
  <2>1. /\ hook' = hook /\ job' = job /\ calls' = calls /\ Fault /\ SoeFailed
        /\ SoeServe(MbxOut) \/ UNCHANGED slaveState
    BY <1>9, Zenon DEF SoeSendFails, SoeTimesOut, Failing
  <2>2. SlaveTypes' /\ Replied  BY <2>1, <1>5, NotServed, Zenon
  <2>3. CallTypes'  BY <2>1, <1>3, Returned, FragmentNext, Zenon DEF SoeFailed
  <2> QED BY <2>1, <2>2, <2>3, <1>1, <1>4, ByFault, Zenon DEF Aside
<1>10. CASE SoeReceive
  <2>1. MailRead  BY <1>10, Zenon DEF SoeReceive
  <2>2. /\ SlaveTypes' /\ hook' = hook /\ job' = job /\ calls' = calls /\ faults' = faults
        /\ box # <<>> /\ box' = Tail(box) /\ ForCall
    BY <2>1, ReadOnly, Zenon
  <2>3. \/ \E x : Return(x)
        \/ rest' = rest /\ MbxOut' = MbxOut
    BY <1>10, Zenon DEF SoeReceive, SoeValue, SoeWritten, SoeUnexpected
  <2>4. CallTypes'  BY <2>2, <2>3, Returned, CallSame, Zenon
  <2> QED BY <2>2, <2>4, <1>1, <1>4, Zenon DEF Aside
<1> QED BY <1>6, <1>7, <1>8, <1>9, <1>10, Zenon DEF SoeStep

\* A call begins.
LEMMA BeginApart ==
  ASSUME FrameTypes, SlaveTypes, NEW j, NEW q, Begin(j, q), j.kind # "eoe_recv",
         rx' = rx, frame' = frame, sent' = sent
  PROVE  Apart /\ SlaveTypes' /\ calls' = calls + 1
<1>1. /\ hook' = hook /\ job' = j /\ faults' = faults /\ calls' = calls + 1
      /\ UNCHANGED slaveState
  BY Zenon DEF Begin
<1>2. SlaveTypes' /\ Replied  BY <1>1, NotServed, Zenon
<1>3. faults' \in 0 .. MaxFaults /\ faults <= faults'  BY <1>1, FaultsStay, Zenon
<1>4. Collecting' => Collecting  BY <1>1, Zenon DEF Collecting
<1> QED BY <1>1, <1>2, <1>3, <1>4, Zenon DEF Apart, Replied

LEMMA BeginTypes ==
  ASSUME NEW j, NEW q, Begin(j, q), rest' \in Text, q \in Requests,
         q.cmd = "eoe" => j.kind = "eoe_send",
         j.kind \in {"soe_read", "soe_write"} => j.idx \in Idns,
         j.kind = "eoe_send" => j.data \in Text
  PROVE  CallTypes'
<1>1. job' = j /\ MbxOut' = q  BY Zenon DEF Begin
<1> QED BY <1>1, Zenon DEF CallTypes

\* Its requests.
LEMMA RequestNew ==
  /\ \A c \in {"none", "get_list", "get_txpdo", "get_ip"} : [cmd |-> c] \in Requests
  /\ \A c \in {"upload", "get_description"}, i \in Indexes : [cmd |-> c, idx |-> i] \in Requests
  /\ \A i \in Indexes, n \in Nat, d \in Text :
       [cmd |-> "download", idx |-> i, size |-> n, data |-> d] \in Requests
  /\ \A i \in Indexes : [cmd |-> "get_entry", idx |-> i, sub |-> 0] \in Requests
  /\ \A c \in {"rxpdo", "set_ip"}, d \in Text : [cmd |-> c, data |-> d] \in Requests
  /\ \A i \in Idns : [cmd |-> "soe_readreq", idn |-> i] \in Requests
<1>1. ASSUME NEW c \in {"none", "get_list", "get_txpdo", "get_ip"} PROVE [cmd |-> c] \in Requests
  <2>1. [cmd |-> c] \in [cmd : {"none", "get_list", "get_txpdo", "get_ip"}]  OBVIOUS
  <2> QED BY <2>1, Zenon DEF Requests
<1>2. ASSUME NEW c \in {"upload", "get_description"}, NEW i \in Indexes
      PROVE  [cmd |-> c, idx |-> i] \in Requests
  <2>1. [cmd |-> c, idx |-> i] \in [cmd : {"upload", "get_description"}, idx : Indexes]  OBVIOUS
  <2> QED BY <2>1, Zenon DEF Requests
<1>3. ASSUME NEW i \in Indexes, NEW n \in Nat, NEW d \in Text
      PROVE  [cmd |-> "download", idx |-> i, size |-> n, data |-> d] \in Requests
  <2>1. [cmd |-> "download", idx |-> i, size |-> n, data |-> d]
          \in [cmd : {"download"}, idx : Indexes, size : Nat, data : Text]
    OBVIOUS
  <2> QED BY <2>1, Zenon DEF Requests
<1>4. ASSUME NEW i \in Indexes PROVE [cmd |-> "get_entry", idx |-> i, sub |-> 0] \in Requests
  <2>1. [cmd |-> "get_entry", idx |-> i, sub |-> 0]
          \in [cmd : {"get_entry"}, idx : Indexes, sub : Nat]
    OBVIOUS
  <2> QED BY <2>1, Zenon DEF Requests
<1>5. ASSUME NEW c \in {"rxpdo", "set_ip"}, NEW d \in Text
      PROVE  [cmd |-> c, data |-> d] \in Requests
  <2>1. [cmd |-> c, data |-> d] \in [cmd : {"rxpdo", "set_ip"}, data : Text]  OBVIOUS
  <2> QED BY <2>1, Zenon DEF Requests
<1>6. ASSUME NEW i \in Idns PROVE [cmd |-> "soe_readreq", idn |-> i] \in Requests
  <2>1. [cmd |-> "soe_readreq", idn |-> i] \in [cmd : {"soe_readreq"}, idn : Idns]  OBVIOUS
  <2> QED BY <2>1, Zenon DEF Requests
<1> QED BY <1>1, <1>2, <1>3, <1>4, <1>5, <1>6

\* The first fragment of an SoE write.
LEMMA SoeFirst ==
  ASSUME NEW i \in Idns, NEW d \in Text
  PROVE  Fragment(i, d) \in Requests /\ Fragment(i, d).cmd # "eoe"
<1>1. SoeData \in Nat \ {0} /\ Len(d) \in Nat  BY TextIs, Parameters DEF SoeData
<1>2. CASE Divided(Len(d))
  <2>1. Fragment(i, d) = [cmd |-> "soe_writereq", data |-> Take(d, SoeData), incomplete |-> TRUE,
                          fragmentsleft |-> FragmentsLeft(Len(d))]
    BY <1>2, Zenon DEF Fragment
  <2>2. FragmentsLeft(Len(d)) \in Nat  BY <1>1, Division DEF FragmentsLeft
  <2>3. Take(d, SoeData) \in Text  BY <1>1, TextIs
  <2>4. Fragment(i, d) \in [cmd : {"soe_writereq"}, data : Text, incomplete : {TRUE},
                            fragmentsleft : Nat]
    BY <2>1, <2>2, <2>3
  <2>5. Fragment(i, d).cmd # "eoe"  BY <2>1
  <2> QED BY <2>4, <2>5, Zenon DEF Requests
<1>3. CASE ~ Divided(Len(d))
  <2>1. Fragment(i, d) = [cmd |-> "soe_writereq", data |-> d, incomplete |-> FALSE, idn |-> i]
    BY <1>3, Zenon DEF Fragment
  <2>2. Fragment(i, d) \in [cmd : {"soe_writereq"}, data : Text, incomplete : {FALSE},
                            idn : Idns]
    BY <2>1
  <2>3. Fragment(i, d).cmd # "eoe"  BY <2>1
  <2> QED BY <2>2, <2>3, Zenon DEF Requests
<1> QED BY <1>2, <1>3

LEMMA CallBegins ==
  ASSUME FrameTypes, SlaveTypes, calls \in Nat, SdoBegin \/ InfoStart \/ SoeBegin,
         UNCHANGED eoeVars
  PROVE  Apart /\ SlaveTypes' /\ CallTypes' /\ calls' = calls + 1
<1>1. rx' = rx /\ frame' = frame /\ sent' = sent  BY Zenon DEF eoeVars
<1>2. <<>> \in Text /\ Sizes \subseteq Nat  BY Parameters DEF Text
<1>3. ASSUME NEW n \in Sizes PROVE Octets(calls + 1, n) \in Text /\ n \in Nat
  <2>1. calls + 1 \in Nat /\ n \in Nat  BY <1>2
  <2> QED BY <2>1, OctetsAreText
<1>4. CASE ecx_SDOread
  <2>1. PICK i \in Indexes, n \in Sizes :
          /\ Begin([kind |-> "read", idx |-> i, psize |-> n], [cmd |-> "upload", idx |-> i])
          /\ rest' = <<>>
    BY <1>4, Zenon DEF ecx_SDOread
  <2> DEFINE j == [kind |-> "read", idx |-> i, psize |-> n]
             q == [cmd |-> "upload", idx |-> i]
  <2>2. /\ j.kind # "eoe_recv" /\ j.kind \notin {"soe_read", "soe_write"}
        /\ j.kind # "eoe_send" /\ q.cmd # "eoe"
    OBVIOUS
  <2>3. q \in Requests  BY RequestNew
  <2> HIDE DEF j, q
  <2>4. Begin(j, q)  BY <2>1 DEF j, q
  <2> QED BY <1>1, <1>2, <2>1, <2>2, <2>3, <2>4, BeginApart, BeginTypes, Zenon
<1>5. CASE ecx_SDOwrite
  <2>1. PICK i \in Indexes, n \in Sizes :
          LET d == Octets(calls + 1, n)
              first == IF n <= Expedited THEN d ELSE Take(d, MailData)
          IN  /\ Begin([kind |-> "write", idx |-> i, data |-> d],
                       [cmd |-> "download", idx |-> i, size |-> n, data |-> first])
              /\ rest' = Skip(d, Len(first))
    BY <1>5, Zenon DEF ecx_SDOwrite
  <2> DEFINE d == Octets(calls + 1, n)
             first == IF n <= Expedited THEN d ELSE Take(d, MailData)
             j == [kind |-> "write", idx |-> i, data |-> d]
             q == [cmd |-> "download", idx |-> i, size |-> n, data |-> first]
  <2>2. /\ j.kind # "eoe_recv" /\ j.kind \notin {"soe_read", "soe_write"}
        /\ j.kind # "eoe_send" /\ q.cmd # "eoe"
    OBVIOUS
  <2>3. d \in Text /\ n \in Nat  BY <1>3
  <2> HIDE DEF d
  <2>4. first \in Text  BY <2>3, TextIs, Parameters
  <2> HIDE DEF first
  <2>5. q \in Requests  BY <2>3, <2>4, RequestNew
  <2>6. Skip(d, Len(first)) \in Text
    <3>1. Len(first) \in Nat  BY <2>4, TextIs
    <3> QED BY <2>3, <3>1, TextIs
  <2> HIDE DEF j, q
  <2>7. Begin(j, q) /\ rest' = Skip(d, Len(first))  BY <2>1 DEF j, q, d, first
  <2>8. rest' \in Text  BY <2>6, <2>7, Zenon
  <2> QED BY <1>1, <2>2, <2>5, <2>7, <2>8, BeginApart, BeginTypes, Zenon
<1>6. CASE InfoStart
  <2>1. ASSUME NEW j, NEW q, InfoBegin(j, q), q \in Requests, q.cmd # "eoe",
               j.kind \notin {"eoe_recv", "eoe_send", "soe_read", "soe_write"}
        PROVE  Apart /\ SlaveTypes' /\ CallTypes' /\ calls' = calls + 1
    <3>1. Begin(j, q) /\ rest' \in Text  BY <2>1, <1>2, Zenon DEF InfoBegin
    <3>2. /\ j.kind # "eoe_recv" /\ j.kind \notin {"soe_read", "soe_write"}
          /\ j.kind # "eoe_send"
      BY <2>1
    <3> QED BY <1>1, <2>1, <3>1, <3>2, BeginApart, BeginTypes, Zenon
  <2>2. CASE ecx_RxPDO
    <3>1. PICK n \in Sizes :
            InfoBegin([kind |-> "rxpdo", idx |-> "rxpdo", data |-> Octets(calls + 1, n)],
                      [cmd |-> "rxpdo", data |-> Take(Octets(calls + 1, n), PdoData)])
      BY <2>2, Zenon DEF ecx_RxPDO
    <3> DEFINE d == Octets(calls + 1, n)
               e == Take(d, PdoData)
    <3>2. d \in Text  BY <1>3
    <3> HIDE DEF d
    <3>3. PdoData \in Int  BY Parameters DEF PdoData
    <3>4. e \in Text  BY <3>2, <3>3, TextIs
    <3> HIDE DEF e
    <3>5. [cmd |-> "rxpdo", data |-> e] \in Requests  BY <3>4, RequestNew
    <3>6. InfoBegin([kind |-> "rxpdo", idx |-> "rxpdo", data |-> d],
                    [cmd |-> "rxpdo", data |-> e])
      BY <3>1 DEF d, e
    <3> QED BY <2>1, <3>5, <3>6
  <2>3. CASE ecx_TxPDO
    <3>1. PICK n \in Sizes :
            InfoBegin([kind |-> "txpdo", idx |-> "txpdo", psize |-> n], [cmd |-> "get_txpdo"])
      BY <2>3, Zenon DEF ecx_TxPDO
    <3>2. [cmd |-> "get_txpdo"] \in Requests  BY RequestNew
    <3> QED BY <2>1, <3>1, <3>2
  <2>4. CASE ecx_readODlist
    <3>1. InfoBegin([kind |-> "list", idx |-> "list"], [cmd |-> "get_list"])
      BY <2>4, Zenon DEF ecx_readODlist
    <3>2. [cmd |-> "get_list"] \in Requests  BY RequestNew
    <3> QED BY <2>1, <3>1, <3>2
  <2>5. CASE ecx_readODdescription
    <3>1. PICK i \in Indexes :
            InfoBegin([kind |-> "description", idx |-> i],
                      [cmd |-> "get_description", idx |-> i])
      BY <2>5, Zenon DEF ecx_readODdescription
    <3>2. [cmd |-> "get_description", idx |-> i] \in Requests  BY RequestNew
    <3> QED BY <2>1, <3>1, <3>2
  <2>6. CASE ecx_readOE
    <3>1. PICK i \in Indexes :
            InfoBegin([kind |-> "entries", idx |-> i],
                      [cmd |-> "get_entry", idx |-> i, sub |-> 0])
      BY <2>6, Zenon DEF ecx_readOE
    <3>2. [cmd |-> "get_entry", idx |-> i, sub |-> 0] \in Requests  BY RequestNew
    <3> QED BY <2>1, <3>1, <3>2
  <2> QED BY <1>6, <2>2, <2>3, <2>4, <2>5, <2>6, Zenon DEF InfoStart
<1>7. CASE ecx_SoEread
  <2>1. PICK i \in Idns, n \in Sizes :
          /\ Begin([kind |-> "soe_read", idx |-> i, psize |-> n],
                   [cmd |-> "soe_readreq", idn |-> i])
          /\ rest' = <<>>
    BY <1>7, Zenon DEF ecx_SoEread
  <2> DEFINE j == [kind |-> "soe_read", idx |-> i, psize |-> n]
             q == [cmd |-> "soe_readreq", idn |-> i]
  <2>2. j.kind # "eoe_recv" /\ j.idx \in Idns /\ j.kind # "eoe_send" /\ q.cmd # "eoe"
    OBVIOUS
  <2>3. q \in Requests  BY RequestNew
  <2> HIDE DEF j, q
  <2>4. Begin(j, q)  BY <2>1 DEF j, q
  <2> QED BY <1>1, <1>2, <2>1, <2>2, <2>3, <2>4, BeginApart, BeginTypes, Zenon
<1>8. CASE ecx_SoEwrite
  <2>1. PICK i \in Idns, n \in Sizes :
          LET d == Octets(calls + 1, n)
          IN  /\ Begin([kind |-> "soe_write", idx |-> i, data |-> d], Fragment(i, d))
              /\ rest' = Skip(d, SoeData)
    BY <1>8, Zenon DEF ecx_SoEwrite
  <2> DEFINE d == Octets(calls + 1, n)
             j == [kind |-> "soe_write", idx |-> i, data |-> d]
             q == Fragment(i, d)
  <2>2. j.kind # "eoe_recv" /\ j.idx \in Idns /\ j.kind # "eoe_send"
    OBVIOUS
  <2>3. d \in Text  BY <1>3
  <2> HIDE DEF d
  <2>4. q \in Requests /\ q.cmd # "eoe"  BY <2>3, SoeFirst, Zenon
  <2>5. Skip(d, SoeData) \in Text
    <3>1. SoeData \in Nat  BY Parameters DEF SoeData
    <3> QED BY <2>3, <3>1, TextIs
  <2> HIDE DEF j, q
  <2>6. Begin(j, q) /\ rest' = Skip(d, SoeData)  BY <2>1 DEF j, q, d
  <2>7. rest' \in Text  BY <2>5, <2>6, Zenon
  <2> QED BY <1>1, <2>2, <2>4, <2>6, <2>7, BeginApart, BeginTypes, Zenon
<1> QED BY <1>4, <1>5, <1>6, <1>7, <1>8, Zenon DEF SdoBegin, SoeBegin

LEMMA EoeBegins ==
  ASSUME FrameTypes, SlaveTypes, calls \in Nat, ecx_EOEsend \/ ecx_EOEsetIp \/ ecx_EOEgetIp
  PROVE  Apart /\ SlaveTypes' /\ CallTypes' /\ calls' = calls + 1
<1>1. <<>> \in Text /\ Sizes \subseteq Nat /\ calls + 1 \in Nat  BY Parameters DEF Text
<1>2. ASSUME NEW n \in Nat PROVE Octets(calls + 1, n) \in Text
  BY <1>1, OctetsAreText
<1>3. CASE ecx_EOEsend
  <2>1. PICK n \in Sizes :
          LET d == Octets(calls + 1, n)
          IN  /\ Begin([kind |-> "eoe_send", idx |-> "frame", data |-> d],
                       EoeFragment(d, 0, 0, (calls + 1) % 16))
              /\ rest' = <<>> /\ UNCHANGED eoeVars
    BY <1>3, Zenon DEF ecx_EOEsend
  <2> DEFINE d == Octets(calls + 1, n)
             j == [kind |-> "eoe_send", idx |-> "frame", data |-> d]
             q == EoeFragment(d, 0, 0, (calls + 1) % 16)
  <2>2. d \in Text  BY <1>1, <1>2
  <2> HIDE DEF d
  <2>3. /\ j.kind # "eoe_recv" /\ j.kind = "eoe_send" /\ j.data \in Text
        /\ j.kind \notin {"soe_read", "soe_write"}
    BY <2>2
  <2>4. q \in Requests
    <3>1. (calls + 1) % 16 \in Nat  BY <1>1
    <3> QED BY <2>2, <3>1, FragmentNew
  <2> HIDE DEF j, q
  <2>5. Begin(j, q) /\ rest' = <<>> /\ rx' = rx /\ frame' = frame /\ sent' = sent
    BY <2>1 DEF j, q, d, eoeVars
  <2> QED BY <1>1, <2>3, <2>4, <2>5, BeginApart, BeginTypes, Zenon
<1>4. CASE ecx_EOEsetIp
  <2> DEFINE d == Octets(calls + 1, 1)
             j == [kind |-> "set_ip", idx |-> "ip", data |-> d]
             q == [cmd |-> "set_ip", data |-> d]
  <2>1. d \in Text  BY <1>2
  <2>2. Begin(j, q) /\ rest' = <<>> /\ rx' = rx /\ frame' = frame /\ sent' = sent
    BY <1>4, Zenon DEF ecx_EOEsetIp, eoeVars
  <2> HIDE DEF d
  <2>3. /\ j.kind # "eoe_recv" /\ j.kind # "eoe_send" /\ q.cmd # "eoe"
        /\ j.kind \notin {"soe_read", "soe_write"}
    OBVIOUS
  <2>4. q \in Requests  BY <2>1, RequestNew
  <2> HIDE DEF j, q
  <2> QED BY <1>1, <2>2, <2>3, <2>4, BeginApart, BeginTypes, Zenon
<1>5. CASE ecx_EOEgetIp
  <2> DEFINE j == [kind |-> "get_ip", idx |-> "ip", psize |-> 99]
             q == [cmd |-> "get_ip"]
  <2>1. Begin(j, q) /\ rest' = <<>> /\ rx' = rx /\ frame' = frame /\ sent' = sent
    BY <1>5, Zenon DEF ecx_EOEgetIp, eoeVars
  <2>2. /\ j.kind # "eoe_recv" /\ j.kind # "eoe_send" /\ q.cmd # "eoe"
        /\ j.kind \notin {"soe_read", "soe_write"}
    OBVIOUS
  <2>3. q \in Requests  BY RequestNew
  <2> HIDE DEF j, q
  <2> QED BY <1>1, <2>1, <2>2, <2>3, BeginApart, BeginTypes, Zenon
<1> QED BY <1>3, <1>4, <1>5

\* A call that puts a frame together begins with none.
LEMMA RecvBegins ==
  ASSUME FrameInv, SlaveTypes, ecx_EOErecv
  PROVE  FrameInv' /\ SlaveTypes' /\ CallTypes' /\ calls' = calls + 1
<1>1. FrameTypes /\ AreSent /\ InTurn /\ Whole  BY Zenon DEF FrameInv
<1>2. PICK b \in 1 .. Len(sent) + 1 : From(b)  BY Zenon DEF FrameInv
<1>3. PICK n \in Sizes :
        Begin([kind |-> "eoe_recv", idx |-> "frame", psize |-> n], [cmd |-> "none"])
  BY Zenon DEF ecx_EOErecv
<1>4. rest' = <<>> /\ rx' = Idle /\ at' = "receive" /\ frame' = frame /\ sent' = sent
  BY Zenon DEF ecx_EOErecv
<1> DEFINE j == [kind |-> "eoe_recv", idx |-> "frame", psize |-> n]
           q == [cmd |-> "none"]
<1>5. /\ j.psize \in Sizes /\ j.kind # "eoe_send" /\ q.cmd # "eoe"
      /\ j.kind \notin {"soe_read", "soe_write"}
  OBVIOUS
<1>6. q \in Requests  BY RequestNew
<1>7. <<>> \in Text  BY DEF Text
<1> HIDE DEF j, q
<1>8. Begin(j, q)  BY <1>3 DEF j, q
<1>9. /\ hook' = hook /\ job' = j /\ faults' = faults /\ calls' = calls + 1
      /\ objects' = objects /\ server' = server /\ box' = box
  BY <1>8, Zenon DEF Begin, slaveState
<1>10. CallTypes'  BY <1>4, <1>5, <1>6, <1>7, <1>8, BeginTypes, Zenon
<1>11. SlaveTypes'  BY <1>9, Zenon DEF SlaveTypes
<1>12. Idle \in Assembly /\ ~ (Idle.fragno > 0)
  <2>1. <<>> \in Seq(Octet)  OBVIOUS
  <2> QED BY <2>1 DEF Idle, Assembly
<1>13. FrameTypes'
  <2>1. at' \in {"idle", "receive"}  BY <1>4
  <2> QED BY <2>1, <1>1, <1>4, <1>5, <1>9, <1>12, Zenon DEF FrameTypes
<1>14. Fragmented' = Fragmented  BY <1>9, Zenon DEF Fragmented, IsFragment
<1>15. AreSent' /\ InTurn'  BY <1>1, <1>4, <1>9, <1>14, Zenon DEF AreSent, InTurn
<1>16. Missing(b)' = Missing(b)  BY <1>4, <1>9, <1>14, Zenon DEF Missing
<1>17. From(b)'  BY <1>2, <1>4, <1>9, <1>14, <1>16, Zenon DEF From
<1>18. Whole'  BY <1>1, <1>4, Zenon DEF Whole, FrameWhole
<1>19. b \in 1 .. Len(sent') + 1 /\ ~ (rx'.fragno > 0)  BY <1>2, <1>4, <1>12
<1> QED BY <1>9, <1>10, <1>11, <1>13, <1>15, <1>17, <1>18, <1>19, Zenon DEF FrameInv

LEMMA DrainedAside ==
  ASSUME FrameTypes, SlaveTypes, CallTypes, Drained, UNCHANGED eoeVars
  PROVE  SlaveTypes' /\ CallTypes' /\ Aside
<1>1. /\ rx' = rx /\ frame' = frame /\ sent' = sent /\ hook' = hook /\ job' = job
      /\ calls' = calls /\ rest' = rest /\ MbxOut' = MbxOut /\ objects' = objects
      /\ server' = server /\ at = "drain"
  BY Zenon DEF eoeVars, Drained, locals
<1>2. job.kind # "eoe_recv"  BY <1>1 DEF FrameTypes
<1>3. \/ box' = box /\ faults' = faults
      \/ box # <<>> /\ box' = Tail(box) /\ faults' = faults /\ ForCall
      \/ box' = box /\ Fault
  BY Zenon DEF Drained
<1>4. faults' = faults \/ (faults < MaxFaults /\ faults' = faults + 1)
  BY <1>3, ByFault, Zenon
<1>5. box' = box => Replied  BY Silence, Zenon
<1>6. SlaveTypes'  BY <1>1, Zenon DEF SlaveTypes
<1> QED BY <1>1, <1>2, <1>3, <1>4, <1>5, <1>6, CallSame, Zenon DEF Aside

LEMMA EoeSendAside ==
  ASSUME FrameTypes, SlaveTypes, CallTypes, EoeSend
  PROVE  SlaveTypes' /\ CallTypes' /\ Aside
<1>1. /\ rx' = rx /\ frame' = frame /\ sent' = sent /\ hook' = hook /\ job' = job
      /\ calls' = calls /\ rest' = rest /\ faults' = faults /\ at = "send"
      /\ EoeServe(MbxOut)
      /\ MbxOut.cmd = "eoe" => NextEoeFragment
      /\ MbxOut.cmd # "eoe" => MbxOut' = MbxOut
  BY Zenon DEF EoeSend, eoeVars
<1>2. job.kind # "eoe_recv"  BY <1>1 DEF FrameTypes
<1>3. MbxOut \in Requests  BY Zenon DEF CallTypes
<1>4. SlaveTypes' /\ Replied  BY <1>1, <1>3, EoeServeTypes, EoeReplies, Zenon
<1>5. CallTypes'  BY <1>1, EoeFragmentNext, CallSame, Zenon
<1> QED BY <1>1, <1>2, <1>4, <1>5, Zenon DEF Aside

\* A call that puts fragments together ends.
LEMMA EndsApart ==
  ASSUME FrameTypes, hook' = hook, job' = job, rx' = rx, frame' = frame, sent' = sent,
         at' = "idle", faults' = faults \/ (faults < MaxFaults /\ faults' = faults + 1),
         Replied \/ (box # <<>> /\ box' = Tail(box) /\ ForCall)
  PROVE  Apart
<1>1. faults' \in 0 .. MaxFaults /\ faults <= faults'  BY FaultsStay, Zenon
<1>2. at' # "receive" /\ at' \in {"idle", "receive"}  OBVIOUS
<1>3. Collecting' => hook'  BY <1>2, Zenon DEF Collecting
<1>4. Collecting' => Collecting  BY <1>3, Zenon DEF Collecting
<1>5. ASSUME box # <<>>, box' = Tail(box), ForCall
      PROVE  IsFragment(Head(box)) => ~ Collecting'
  BY <1>3, <1>5, ForOthers, Zenon
<1>6. job'.kind = "eoe_recv" => job'.psize \in Sizes  BY Zenon DEF FrameTypes
<1> QED BY <1>1, <1>2, <1>4, <1>5, <1>6, Zenon DEF Apart, Replied

LEMMA EoeFailsApart ==
  ASSUME FrameTypes, SlaveTypes, CallTypes, EoeFails
  PROVE  SlaveTypes' /\ CallTypes' /\ Apart /\ calls' = calls
<1>1. /\ rx' = rx /\ frame' = frame /\ sent' = sent /\ hook' = hook /\ job' = job
      /\ calls' = calls /\ Return("failed") /\ at' = "idle" /\ Fault
      /\ EoeServe(MbxOut) \/ UNCHANGED slaveState
  BY Zenon DEF EoeFails, eoeVars, Failing, Return
<1>2. MbxOut \in Requests  BY Zenon DEF CallTypes
<1>3. SlaveTypes' /\ Replied  BY <1>1, <1>2, EoeServeTypes, EoeReplies, NotServed, Zenon
<1>4. CallTypes'  BY <1>1, Returned, Zenon
<1> QED BY <1>1, <1>3, <1>4, ByFault, EndsApart, Zenon

LEMMA EoeReceiveKeeps ==
  ASSUME FewFaults, FramesFit, FrameInv, SlaveTypes, CallTypes, EoeReceive
  PROVE  FrameInv' /\ SlaveTypes' /\ CallTypes' /\ calls' = calls
<1>1. MailRead /\ rest' = rest /\ sent' = sent  BY Zenon DEF EoeReceive
<1>2. /\ SlaveTypes' /\ hook' = hook /\ job' = job /\ calls' = calls /\ faults' = faults
      /\ box # <<>> /\ box' = Tail(box) /\ ForCall
  BY <1>1, ReadOnly, Zenon
<1>3. FrameTypes  BY Zenon DEF FrameInv
<1>4. CASE job.kind = "eoe_recv" /\ Head(box).cmd = "eoe" /\ RecvFragment(Head(box))
  <2>1. FragmentReceived  BY <1>1, <1>4, Zenon DEF FragmentReceived
  <2>2. (\E x : Return(x)) \/ MbxOut' = MbxOut  BY <1>4, Zenon DEF RecvFragment
  <2>3. CallTypes'  BY <1>1, <1>2, <2>2, Returned, CallSame, Zenon
  <2> QED BY <1>2, <2>1, <2>3, RecvKeeps, Zenon
<1>5. CASE (\E x : Return(x)) /\ rx' = rx /\ frame' = frame
  <2>1. CallTypes'  BY <1>2, <1>5, Returned, Zenon
  <2>2. at' = "idle"  BY <1>5, Zenon DEF Return
  <2>3. Apart  BY <1>1, <1>2, <1>3, <1>5, <2>2, EndsApart, Zenon
  <2> QED BY <1>2, <2>1, <2>3, ApartKeeps, Zenon
<1> QED BY <1>4, <1>5, Zenon DEF EoeReceive

LEMMA Rests ==
  ASSUME FrameTypes, SlaveTypes, CallTypes, UNCHANGED <<locals, at, slaveState, faults, eoeVars>>
  PROVE  SlaveTypes' /\ CallTypes' /\ Apart
<1>1. /\ rx' = rx /\ frame' = frame /\ sent' = sent /\ hook' = hook /\ job' = job /\ at' = at
      /\ rest' = rest /\ MbxOut' = MbxOut /\ UNCHANGED slaveState /\ faults' = faults
  BY Zenon DEF eoeVars, locals
<1>2. SlaveTypes' /\ Replied  BY <1>1, NotServed, Zenon
<1>3. faults' \in 0 .. MaxFaults /\ faults <= faults'  BY <1>1, FaultsStay, Zenon
<1>4. Collecting' => Collecting  BY <1>1, Zenon DEF Collecting
<1>5. job'.kind = "eoe_recv" => job'.psize \in Sizes /\ at' \in {"idle", "receive"}
  BY <1>1, Zenon DEF FrameTypes
<1> QED BY <1>1, <1>2, <1>3, <1>4, <1>5, CallSame, Zenon DEF Apart, Replied

LEMMA ReaderApart ==
  ASSUME FrameTypes, mailbox_reader
  PROVE  Apart
<1>1. /\ rx' = rx /\ frame' = frame /\ sent' = sent /\ hook' = hook /\ job' = job
      /\ at = "idle" /\ at' = at /\ faults' = faults
      /\ box # <<>> /\ box' = Tail(box) /\ ForCall
  BY Zenon DEF mailbox_reader, eoeVars, locals
<1>2. at' = "idle"  BY <1>1
<1> QED BY <1>1, <1>2, EndsApart, Zenon

-----------------------------------------------------------------------------
(* The services together.                                                  *)

ServicesInv == FrameInv /\ SlaveTypes /\ CallTypes /\ calls \in Nat

LEMMA AtFirst ==
  ASSUME CallsInit
  PROVE  ServicesInv
<1>1. /\ hook \in BOOLEAN /\ calls = 0 /\ job = [kind |-> "none"] /\ MbxOut = [cmd |-> "none"]
      /\ rest = <<>> /\ server = NoTransfer /\ box = <<>> /\ faults = 0
      /\ \E n \in Sizes : objects = [i \in Stored |-> Octets(0, n)]
      /\ rx = Idle /\ frame = NoFrame /\ sent = <<>>
  BY Zenon DEF CallsInit, ServiceInit, EoeInit
<1>2. SlaveTypes
  <2>1. PICK n \in Sizes : objects = [i \in Stored |-> Octets(0, n)]  BY <1>1
  <2>2. Octets(0, n) \in Text
    <3>1. n \in Nat /\ 0 \in Nat  BY Parameters
    <3> QED BY <3>1, OctetsAreText
  <2>3. objects \in [Stored -> Text]  BY <2>1, <2>2
  <2> QED BY <1>1, <2>3, ServerNew, Zenon DEF SlaveTypes
<1>3. CallTypes
  <2>1. <<>> \in Text  BY DEF Text
  <2>2. [cmd |-> "none"] \in Requests  BY RequestNew
  <2>3. [cmd |-> "none"].cmd # "eoe" /\ [kind |-> "none"].kind # "eoe_send"
        /\ [kind |-> "none"].kind \notin {"soe_read", "soe_write"}
    OBVIOUS
  <2> QED BY <1>1, <2>1, <2>2, <2>3, Zenon DEF CallTypes
<1>4. FrameTypes
  <2>1. Idle \in Assembly
    <3>1. <<>> \in Seq(Octet)  OBVIOUS
    <3> QED BY <3>1 DEF Idle, Assembly
  <2>2. faults \in 0 .. MaxFaults  BY <1>1, Parameters
  <2>3. /\ <<>> \in Seq(Range(<<>>)) /\ <<>> \in Seq([data : Seq(Plain), stamped : BOOLEAN])
        /\ DOMAIN <<>> = {}
    OBVIOUS
  <2>4. [kind |-> "none"].kind # "eoe_recv"  OBVIOUS
  <2> QED BY <1>1, <2>1, <2>2, <2>3, <2>4, Zenon DEF FrameTypes
<1>5. Fragmented = {}
  <2>1. DOMAIN box = {}  BY <1>1
  <2> QED BY <2>1, Zenon DEF Fragmented
<1>6. AreSent /\ InTurn  BY <1>5, Zenon DEF AreSent, InTurn
<1>7. Whole  BY <1>1, Zenon DEF Whole
<1>8. Len(sent) = 0  BY <1>1
<1>9. From(1)
  <2>1. 1 .. Len(sent) = {}  BY <1>8
  <2>2. Missing(1) = {}  BY <2>1, Zenon DEF Missing
  <2>3. Cardinality(Missing(1)) <= faults
    <3>1. Cardinality({}) = 0  BY FS_EmptySet
    <3>2. Cardinality(Missing(1)) = 0  BY <2>2, <3>1, Zenon
    <3>3. faults = 0  BY <1>1
    <3> QED BY <3>2, <3>3
  <2>4. 1 \in 1 .. Len(sent) + 1  BY <1>8
  <2> QED BY <2>3, <2>4, <1>5, Zenon DEF From
<1>10. 1 \in 1 .. Len(sent) + 1 /\ ~ (rx.fragno > 0)
  BY <1>1, <1>8 DEF Idle
<1> QED BY <1>1, <1>2, <1>3, <1>4, <1>6, <1>7, <1>9, <1>10 DEF FrameInv, ServicesInv

LEMMA NextKeeps ==
  ASSUME FewFaults, FramesFit, ServicesInv, [CallsNext]_callsVars
  PROVE  ServicesInv'
<1>1. FrameInv /\ SlaveTypes /\ CallTypes /\ calls \in Nat /\ FrameTypes
  BY Zenon DEF ServicesInv, FrameInv
<1>2. calls + 1 \in Nat  BY <1>1
<1>3. ASSUME Aside, SlaveTypes', CallTypes' PROVE ServicesInv'
  <2>1. calls' = calls  BY <1>3, Zenon DEF Aside
  <2> QED BY <1>1, <1>3, <2>1, AsideApart, ApartKeeps, Zenon DEF ServicesInv
<1>4. CASE (SdoBegin \/ InfoStart \/ SoeBegin) /\ UNCHANGED eoeVars
  BY <1>1, <1>2, <1>4, CallBegins, ApartKeeps, Zenon DEF ServicesInv
<1>5. CASE EoeBegin
  <2>1. CASE ecx_EOErecv
    BY <1>1, <1>2, <2>1, RecvBegins, Zenon DEF ServicesInv
  <2>2. CASE ecx_EOEsend \/ ecx_EOEsetIp \/ ecx_EOEgetIp
    BY <1>1, <1>2, <2>2, EoeBegins, ApartKeeps, Zenon DEF ServicesInv
  <2> QED BY <1>5, <2>1, <2>2, Zenon DEF EoeBegin
<1>6. CASE Calling
  <2>1. CASE Drained /\ UNCHANGED eoeVars  BY <1>1, <1>3, <2>1, DrainedAside, Zenon
  <2>2. CASE SdoStep /\ UNCHANGED eoeVars  BY <1>1, <1>3, <2>2, SdoStepAside, Zenon
  <2>3. CASE InfoStep /\ UNCHANGED eoeVars  BY <1>1, <1>3, <2>3, InfoStepAside, Zenon
  <2>4. CASE SoeStep /\ UNCHANGED eoeVars  BY <1>1, <1>3, <2>4, SoeStepAside, Zenon
  <2>5. CASE EoeSend  BY <1>1, <1>3, <2>5, EoeSendAside, Zenon
  <2>6. CASE EoeFails
    BY <1>1, <2>6, EoeFailsApart, ApartKeeps, Zenon DEF ServicesInv
  <2>7. CASE EoeReceive
    BY <1>1, <2>7, EoeReceiveKeeps, Zenon DEF ServicesInv
  <2>8. CASE Hooked
    <3>1. /\ job' = job /\ rest' = rest /\ MbxOut' = MbxOut /\ calls' = calls
          /\ objects' = objects /\ server' = server
      BY <2>8, Zenon DEF Hooked, locals
    <3>2. SlaveTypes'  BY <1>1, <3>1, Zenon DEF SlaveTypes
    <3> QED BY <1>1, <2>8, <3>1, <3>2, CallSame, HookedKeeps, Zenon DEF ServicesInv
  <2> QED BY <1>6, <2>1, <2>2, <2>3, <2>4, <2>5, <2>6, <2>7, <2>8, Zenon DEF Calling, EoeStep
<1>7. CASE SlaveSends
  <2>1. /\ job' = job /\ rest' = rest /\ MbxOut' = MbxOut /\ calls' = calls + 1
        /\ objects' = objects /\ server' = server
    BY <1>7, Zenon DEF SlaveSends, locals
  <2>2. SlaveTypes'  BY <1>1, <2>1, Zenon DEF SlaveTypes
  <2> QED BY <1>1, <1>2, <1>7, <2>1, <2>2, CallSame, SlaveSendsKeeps, Zenon DEF ServicesInv
<1>8. CASE FragmentLost
  <2>1. /\ job' = job /\ rest' = rest /\ MbxOut' = MbxOut /\ calls' = calls
        /\ objects' = objects /\ server' = server
    BY <1>8, Zenon DEF FragmentLost, locals
  <2>2. SlaveTypes'  BY <1>1, <2>1, Zenon DEF SlaveTypes
  <2> QED BY <1>1, <1>8, <2>1, <2>2, CallSame, FragmentLostKeeps, Zenon DEF ServicesInv
<1>9. CASE mailbox_reader
  <2>1. /\ job' = job /\ rest' = rest /\ MbxOut' = MbxOut /\ calls' = calls
        /\ objects' = objects /\ server' = server
    BY <1>9, Zenon DEF mailbox_reader, locals
  <2>2. SlaveTypes'  BY <1>1, <2>1, Zenon DEF SlaveTypes
  <2> QED BY <1>1, <1>9, <2>1, <2>2, CallSame, ReaderApart, ApartKeeps, Zenon DEF ServicesInv
<1>10. CASE Stop /\ UNCHANGED eoeVars
  <2>1. UNCHANGED <<locals, at, slaveState, faults, eoeVars>> /\ calls' = calls
    BY <1>10, Zenon DEF Stop
  <2> QED BY <1>1, <2>1, Rests, ApartKeeps, Zenon DEF ServicesInv
<1>11. CASE UNCHANGED callsVars
  <2>1. UNCHANGED <<locals, at, slaveState, faults, eoeVars>> /\ calls' = calls
    BY <1>11, Zenon DEF callsVars, serviceVars
  <2> QED BY <1>1, <2>1, Rests, ApartKeeps, Zenon DEF ServicesInv
<1> QED BY <1>4, <1>5, <1>6, <1>7, <1>8, <1>9, <1>10, <1>11, Zenon DEF CallsNext

\* What holds of the services in every state: what a slave, its requests and calls
\* hold has the right form, the fragments in the mailbox are those of the frames that
\* were sent, in order, and what is put together is the beginning of the frame of the
\* next fragment: frames are told apart by four bits, which is enough for less than
\* sixteen faults.
THEOREM ServicesInvariant ==
  ASSUME FewFaults, FramesFit
  PROVE  CallsSpec => []ServicesInv
<1>1. CallsInit => ServicesInv  BY AtFirst
<1>2. ServicesInv /\ [CallsNext]_callsVars => ServicesInv'  BY NextKeeps
<1> QED BY <1>1, <1>2, PTL DEF CallsSpec

\* A frame the master takes for complete is one the slave sent, octet for octet
\* (ecx_EOEreadfragment, ecx_EOErecv).
THEOREM FrameWholeAlways ==
  ASSUME FewFaults, FramesFit
  PROVE  CallsSpec => []FrameWhole
<1>1. ServicesInv => FrameWhole
  <2>1. ASSUME ServicesInv, frame # NoFrame PROVE FrameWhole
    BY <2>1, Zenon DEF ServicesInv, FrameInv, Whole
  <2>2. ASSUME frame = NoFrame PROVE FrameWhole
    BY <2>2, Zenon DEF FrameWhole
  <2> QED BY <2>1, <2>2
<1> QED BY <1>1, ServicesInvariant, PTL
===============================================================================
