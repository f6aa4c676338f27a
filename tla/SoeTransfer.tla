---------------------------- MODULE SoeTransfer ----------------------------
(***************************************************************************)
(* ecx_SoEread and ecx_SoEwrite of soem/ethercatsoe.c: a value of a drive  *)
(* (IDN) is read or written in fragments.  A fragment that is not the last *)
(* carries the number of fragments left in the place of the IDN.           *)
(* The slave (external) takes and gives fragments in order.                *)
(***************************************************************************)
EXTENDS MailboxService

\* mbx_l - sizeof(ec_SoEt): the header of SoE is shorter than that of an SDO.
SoeData == MailData + 6

Fragments(size) == (size + SoeData - 1) \div SoeData

-----------------------------------------------------------------------------
(* The slave answers a read with all fragments, one after the other, and a *)
(* write when the last fragment is there.  It may refuse either.           *)

Refuse == Answer([cmd |-> "soe_error"]) /\ server' = NoTransfer

ReadFragments(data) ==
  LET n == IF data = <<>> THEN 1 ELSE Fragments(Len(data))
  IN  [k \in 1 .. n |-> [cmd |-> "soe_read",
                         data |-> Take(Skip(data, (k - 1) * SoeData), SoeData),
                         incomplete |-> k < n]]

GiveValue(r) ==
  /\ r.cmd = "soe_readreq"
  /\ \/ box' = box \o ReadFragments(objects[r.idn]) /\ server' = NoTransfer
     \/ Refuse
  /\ UNCHANGED objects

TakeFragment(r) ==
  /\ r.cmd = "soe_writereq"
  /\ LET data == IF server.mode = "soe" THEN server.data \o r.data ELSE r.data
     IN  \/ /\ r.incomplete
            /\ Silent
            /\ server' = [mode |-> "soe", data |-> data]
            /\ UNCHANGED objects
         \/ /\ ~ r.incomplete
            /\ Answer([cmd |-> "soe_written"])
            /\ Accept(r.idn, data)
         \/ Refuse /\ UNCHANGED objects

SoeServe(r) == GiveValue(r) \/ TakeFragment(r)

-----------------------------------------------------------------------------
(* The calls.                                                              *)

ecx_SoEread ==
  \E i \in Idns, psize \in Sizes :
    /\ Begin([kind |-> "soe_read", idx |-> i, psize |-> psize],
             [cmd |-> "soe_readreq", idn |-> i])
    /\ rest' = <<>>
    /\ at' = "drain"
    /\ UNCHANGED clean

\* fragmentsleft = psize / maxdata
FragmentsLeft(left) == left \div SoeData

\* framedatasize > maxdata: "segmented transfer needed"
Divided(left) == left > SoeData

Fragment(i, data) ==
  IF Divided(Len(data))
  THEN [cmd |-> "soe_writereq", data |-> Take(data, SoeData),
        incomplete |-> TRUE, fragmentsleft |-> FragmentsLeft(Len(data))]
  ELSE [cmd |-> "soe_writereq", data |-> data, incomplete |-> FALSE, idn |-> i]

ecx_SoEwrite ==
  \E i \in Idns, psize \in Sizes :
    LET data == Octets(calls + 1, psize)
    IN  /\ Begin([kind |-> "soe_write", idx |-> i, data |-> data], Fragment(i, data))
        /\ rest' = Skip(data, SoeData)
        /\ at' = "drain"
        /\ UNCHANGED clean

SoeCall == job.kind \in {"soe_read", "soe_write"}
NotLast == MbxOut.cmd = "soe_writereq" /\ MbxOut.incomplete

NextFragment ==
  /\ MbxOut' = Fragment(job.idx, rest)
  /\ rest' = Skip(rest, SoeData)
  /\ at' = "send"
  /\ UNCHANGED <<stage, toggle, result>>

SoeSend ==
  /\ SoeCall
  /\ Sent(IF NotLast THEN "empty" ELSE "receive")
  /\ SoeServe(MbxOut)

\* ecx_mbxempty: the slave has taken the fragment.
SoeTaken ==
  /\ SoeCall /\ at = "empty" /\ running
  /\ NextFragment
  /\ UNCHANGED <<hook, calls, job, bytes, clean, slaveState, running, faults, mishaps>>

\* It has not, in time: perhaps there is an answer.
SoeNotTaken ==
  /\ SoeCall
  /\ Failing("empty")
  /\ at' = "receive"
  /\ UNCHANGED <<slaveState, stage, MbxOut, rest, toggle, result>>

\* wkc <= 0: the next turn of the loop, if a fragment is left.
SoeFailed ==
  IF NotLast THEN NextFragment ELSE Return("failed")

SoeSendFails ==
  /\ SoeCall
  /\ Failing("send")
  /\ \/ running /\ SoeServe(MbxOut)
     \/ UNCHANGED slaveState
  /\ SoeFailed

SoeTimesOut == SoeCall /\ Failing("receive") /\ UNCHANGED slaveState /\ SoeFailed

\* What does not fit in the parameter buffer is cut off.
CopyFragment(data) == Take(bytes \o data, job.psize)

\* "slave response should be SoE, ReadRes"
SoeValue(m) ==
  /\ job.kind = "soe_read" /\ m.cmd = "soe_read"
  /\ bytes' = CopyFragment(m.data)
  /\ IF m.incomplete THEN UNCHANGED <<at, stage, MbxOut, toggle, rest, result>>
                     ELSE Return("ok")

\* "slave response should be SoE, WriteRes"
SoeWritten(m) ==
  /\ job.kind = "soe_write" /\ m.cmd = "soe_written"
  /\ Return("ok")
  /\ UNCHANGED bytes

\* "other slave response"
SoeUnexpected(m) ==
  /\ m.cmd # (IF job.kind = "soe_read" THEN "soe_read" ELSE "soe_written")
  /\ Return("failed")
  /\ UNCHANGED bytes

SoeReceive ==
  /\ SoeCall
  /\ MailRead
  /\ LET m == Head(box) IN SoeValue(m) \/ SoeWritten(m) \/ SoeUnexpected(m)

SoeBegin == ecx_SoEread \/ ecx_SoEwrite
SoeStep  == \/ SoeSend \/ SoeTaken \/ SoeNotTaken \/ SoeSendFails
            \/ SoeTimesOut \/ SoeReceive
=============================================================================
