-------------------------------- MODULE Eoe --------------------------------
(***************************************************************************)
(* Ethernet over EtherCAT (soem/ethercateoe.c): frames in fragments, from  *)
(* the master (ecx_EOEsend), to it by a call (ecx_EOErecv) or by a hook of *)
(* ecx_mbxreceive that puts together what arrives between other mails      *)
(* (ecx_EOEreadfragment), and the IP parameters of the slave.              *)
(* The slave (external) sends frames whenever it wants; fragments can be   *)
(* lost, and handed over twice: after the hook has taken one,              *)
(* ecx_mbxreceive reads the mailbox again and may ask for a repeat.        *)
(***************************************************************************)
EXTENDS MailboxService

CONSTANTS
  Block,       \* octets of a block: sizes and offsets are told in blocks
  Stamp,       \* octets of a time stamp behind the last fragment
  Stamped,     \* may frames of the slave carry one?
  MaxFrames    \* bound: frames the slave sends

EoeParameters ==
  /\ Block \in Nat \ {0}
  /\ Stamp \in Nat
  /\ Stamped \subseteq BOOLEAN
  /\ MaxFrames \in Nat
  /\ Block <= MailData + 6   \* EOEsend would send empty fragments for ever

VARIABLES
  rx,          \* what the hook, or the call, has of a frame
  frame,       \* frame completed last
  sent         \* frames the slave has sent

eoeVars == <<rx, frame, sent>>

NoFrame == [k |-> 0]
Idle    == [fragno |-> 0, size |-> 0, frameno |-> 0, buf |-> <<>>]

EoeInit ==
  /\ rx = Idle
  /\ frame = NoFrame
  /\ sent = <<>>

\* "Adjust to even 32-octect blocks"
Payload == ((MailData + 6) \div Block) * Block

Blocks(size) == (size + Block - 1) \div Block

\* The fragment with the octets of data behind the first offset ones.
EoeFragment(data, fragno, offset, frameno) ==
  LET last == Len(data) - offset <= MailData + 6
  IN  [cmd |-> "eoe", last |-> last, fragno |-> fragno, frameno |-> frameno,
       offset |-> IF fragno = 0 THEN Blocks(Len(data)) ELSE offset \div Block,
       data |-> IF last THEN Skip(data, offset) ELSE Take(Skip(data, offset), Payload)]

-----------------------------------------------------------------------------
(* The slave.                                                              *)

\* So many fragments: the last one may be longer than the others.
FragmentCount(size) ==
  IF size <= MailData + 6 THEN 1
  ELSE 1 + (size - (MailData + 6) + Payload - 1) \div Payload

\* The fragments of frame k; a time stamp may be behind the last.
StampOf(stamped) == IF stamped THEN [j \in 1 .. Stamp |-> <<>>] ELSE <<>>

NthFragment(k, data, stamped, i) ==
  LET n == FragmentCount(Len(data))
      m == EoeFragment(data, i - 1, (i - 1) * Payload, k % 16)
  IN  [cmd |-> "eoe", last |-> m.last, fragno |-> i - 1, frameno |-> k % 16,
       offset |-> m.offset, data |-> IF i = n THEN m.data \o StampOf(stamped) ELSE m.data,
       k |-> k, stamped |-> IF i = n THEN stamped ELSE FALSE]

FragmentsOf(k, data, stamped) ==
  [i \in 1 .. FragmentCount(Len(data)) |-> NthFragment(k, data, stamped, i)]

SlaveSends ==
  /\ running
  /\ Len(sent) < MaxFrames
  /\ calls < MaxCalls
  /\ calls' = calls + 1
  /\ \E n \in Sizes, s \in Stamped :
       LET k == Len(sent) + 1
           data == Octets(MaxCalls + k, n)
       IN  /\ sent' = Append(sent, [data |-> data, stamped |-> s])
           /\ box' = box \o FragmentsOf(k, data, s)
  /\ UNCHANGED <<locals, at, result, clean, objects, server, running, faults,
                 mishaps, rx, frame>>

FragmentLost ==
  /\ running /\ faults < MaxFaults
  /\ \E i \in DOMAIN box : box[i].cmd = "eoe" /\ box' = RemoveAt(box, i)
  /\ faults' = faults + 1
  /\ UNCHANGED <<calls, locals, at, result, clean, objects, server, running, mishaps,
                 eoeVars>>

\* The slave puts a frame together from the fragments of EOEsend, and serves
\* the requests for IP parameters.
EoeServe(r) ==
  \/ /\ r.cmd = "eoe"
     /\ Silent
     /\ LET begun == server.mode = "eoe" /\ r.fragno > 0
            data == (IF begun THEN server.data ELSE <<>>) \o r.data
        IN  IF r.last THEN Accept("frame", data)
            ELSE /\ server' = [mode |-> "eoe", data |-> data]
                 /\ UNCHANGED objects
  \/ /\ r.cmd = "set_ip"
     /\ \/ Answer([cmd |-> "ip_set", success |-> TRUE]) /\ Accept("ip", r.data)
        \/ /\ Answer([cmd |-> "ip_set", success |-> FALSE])
           /\ UNCHANGED <<objects, server>>
  \/ /\ r.cmd = "get_ip"
     /\ Answer([cmd |-> "ip", data |-> objects["ip"]])
     /\ UNCHANGED <<objects, server>>

-----------------------------------------------------------------------------
(* Fragments that come in.                                                 *)

\* The frame the fragment continues: none, if it is not the one expected.
Within(r, m) == IF m.fragno = r.fragno THEN r ELSE Idle

\* "Is it a new frame?": its first fragment tells the size.
Opened(r, m) ==
  IF r.fragno = 0
  THEN [fragno |-> 0, size |-> m.offset * Block, frameno |-> m.frameno, buf |-> <<>>]
  ELSE r

\* Wrong: the number of the frame is not compared.
Continues_Wrong(r, m) == r.fragno > 0 => Len(r.buf) = m.offset * Block

\* "If we're inside a frame, make sure it is the same", and the offset is right.
Continues(r, m) ==
  r.fragno > 0 => r.frameno = m.frameno /\ Len(r.buf) = m.offset * Block

\* A fragment that fits is copied behind the others.
Copied(r, m, room) ==
  IF Len(r.buf) + Len(m.data) <= room
  THEN [r EXCEPT !.buf = @ \o m.data, !.fragno = @ + 1]
  ELSE r

\* *psize of a complete frame, 16 bits wide.
FrameSize(r, m) == (Len(r.buf) - (IF m.stamped THEN Stamp ELSE 0)) % 2^16
Completed(r, m) ==
  [k |-> m.k, size |-> FrameSize(r, m), data |-> Take(r.buf, FrameSize(r, m))]

HookBuffer == 1024   \* sizeof(rxbuf)
Smaller(m, n) == IF m < n THEN m ELSE n

ecx_EOEreadfragment(m) ==
  LET new  == Opened(Within(rx, m), m)
      more == Copied(new, m, Smaller(new.size, HookBuffer))
      lost == \/ new.fragno = 0 /\ m.fragno > 0
              \/ ~ Continues(new, m)
  IN  /\ rx' = IF lost \/ m.last THEN Idle ELSE more
      /\ frame' = IF m.last /\ ~ lost THEN Completed(more, m) ELSE frame

\* Reading a mail takes it off the box, or brings it again (a repeat).
TakenOff ==
  \/ box' = Tail(box) /\ UNCHANGED faults
  \/ UNCHANGED box /\ faults < MaxFaults /\ faults' = faults + 1

\* A fragment is at the head: "Fragment handled by EoE hook", wkc = 0, and
\* ecx_mbxreceive goes on until its time is over, which at once is the case
\* in a call that empties the mailbox.
Hooked ==
  /\ hook
  /\ running
  /\ at \in {"idle", "drain", "receive"}
  /\ box # <<>> /\ Head(box).cmd = "eoe"
  /\ ecx_EOEreadfragment(Head(box))
  /\ TakenOff
  /\ at' = IF at = "drain" THEN "send" ELSE at
  /\ clean' = IF at = "drain" THEN box' = <<>> /\ server.mode # "soe" ELSE clean
  /\ UNCHANGED <<calls, locals, result, objects, server, running, mishaps, sent>>

-----------------------------------------------------------------------------
(* Calls.                                                                  *)

ecx_EOEsend ==
  \E n \in Sizes :
    LET data == Octets(calls + 1, n)
    IN  /\ Begin([kind |-> "eoe_send", idx |-> "frame", data |-> data],
                 EoeFragment(data, 0, 0, (calls + 1) % 16))
        /\ rest' = <<>>
        /\ at' = "send"
        /\ UNCHANGED <<clean, eoeVars>>

\* No mailbox is emptied first: what is there may belong to the frame.
ecx_EOErecv ==
  /\ ~ hook
  /\ \E n \in Sizes :
       Begin([kind |-> "eoe_recv", idx |-> "frame", psize |-> n], [cmd |-> "none"])
  /\ rest' = <<>>
  /\ rx' = Idle
  /\ at' = "receive"
  /\ UNCHANGED <<clean, frame, sent>>

ecx_EOEsetIp ==
  LET data == Octets(calls + 1, 1)
  IN  /\ Begin([kind |-> "set_ip", idx |-> "ip", data |-> data],
               [cmd |-> "set_ip", data |-> data])
      /\ rest' = <<>>
      /\ at' = "drain"
      /\ UNCHANGED <<clean, eoeVars>>

ecx_EOEgetIp ==
  /\ Begin([kind |-> "get_ip", idx |-> "ip", psize |-> 99], [cmd |-> "get_ip"])
  /\ rest' = <<>>
  /\ at' = "drain"
  /\ UNCHANGED <<clean, eoeVars>>

EoeCall == job.kind \in {"eoe_send", "eoe_recv", "set_ip", "get_ip"}

\* The next fragment of EOEsend, or the end.
NextEoeFragment ==
  IF MbxOut.last
  THEN Return("ok")
  ELSE /\ MbxOut' = EoeFragment(job.data, MbxOut.fragno + 1,
                                (MbxOut.fragno + 1) * Payload, MbxOut.frameno)
       /\ at' = "send"
       /\ UNCHANGED <<stage, toggle, result>>

EoeSend ==
  /\ EoeCall /\ at = "send" /\ running
  /\ EoeServe(MbxOut)
  /\ IF MbxOut.cmd = "eoe" THEN NextEoeFragment
     ELSE at' = "receive" /\ UNCHANGED <<stage, MbxOut, toggle, result>>
  /\ UNCHANGED <<hook, calls, job, bytes, rest, clean, running, faults, mishaps, eoeVars>>

EoeFails ==
  /\ EoeCall
  /\ \/ /\ Failing("send")
        /\ (running /\ EoeServe(MbxOut)) \/ UNCHANGED slaveState
     \/ Failing("receive") /\ UNCHANGED slaveState
  /\ Return("failed")
  /\ UNCHANGED <<rest, eoeVars>>

\* ecx_EOErecv: the loop body, for fragment m.
RecvFragment(m) ==
  LET new  == Opened(rx, m)
      more == Copied(new, m, job.psize)
      bad  == \/ m.fragno # rx.fragno /\ m.fragno > 0
              \/ new.size > job.psize
              \/ ~ Continues(new, m)
  IN  CASE bad           -> /\ Return("failed")
                            /\ UNCHANGED <<bytes, rx, frame>>
        [] ~ bad /\ m.last ->
                            /\ Return("ok")
                            /\ frame' = Completed(more, m)
                            /\ bytes' = Completed(more, m).data
                            /\ rx' = more
        [] OTHER         -> /\ rx' = more
                            /\ UNCHANGED <<bytes, at, stage, MbxOut, toggle, result, frame>>

EoeReceive ==
  /\ EoeCall
  /\ MailRead
  /\ LET m == Head(box)
     IN  \/ job.kind = "eoe_recv" /\ m.cmd = "eoe" /\ RecvFragment(m)
         \/ /\ job.kind = "get_ip" /\ m.cmd = "ip"
            /\ bytes' = m.data
            /\ Return("ok")
            /\ UNCHANGED <<rx, frame>>
         \/ /\ job.kind = "set_ip" /\ m.cmd = "ip_set"
            /\ Return(IF m.success THEN "ok" ELSE "failed")
            /\ UNCHANGED <<bytes, rx, frame>>
         \/ /\ <<job.kind, m.cmd>> \notin
                 {<<"eoe_recv", "eoe">>, <<"get_ip", "ip">>, <<"set_ip", "ip_set">>}
            /\ Return("failed")
            /\ UNCHANGED <<bytes, rx, frame>>
  /\ UNCHANGED <<rest, sent>>

\* The reading thread of eoe_test.c, between calls: other mails are thrown away.
mailbox_reader ==
  /\ at = "idle" /\ running /\ ForCall
  /\ box # <<>>
  /\ box' = Tail(box)
  /\ UNCHANGED <<calls, locals, at, result, clean, objects, server, running, faults,
                 mishaps, eoeVars>>

EoeBegin == ecx_EOEsend \/ ecx_EOErecv \/ ecx_EOEsetIp \/ ecx_EOEgetIp
EoeStep  == EoeSend \/ EoeFails \/ EoeReceive \/ Hooked
=============================================================================
