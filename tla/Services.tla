------------------------------ MODULE Services ------------------------------
(***************************************************************************)
(* The services of one slave together: calls of SDO, CoE information, SoE  *)
(* and EoE functions in any order over the same mailbox, which keeps what  *)
(* a call that failed has left, while the slave sends Ethernet frames when *)
(* it wants.                                                               *)
(***************************************************************************)
EXTENDS SdoTransfer, ObjectInfo, SoeTransfer, Eoe

ASSUME ServicesAssumption == ServiceParameters /\ EoeParameters /\ MaxODList \in Nat

callsVars == <<serviceVars, eoeVars>>

CallsInit == ServiceInit /\ EoeInit

Calling ==
  \/ (Drained \/ SdoStep \/ InfoStep \/ SoeStep) /\ UNCHANGED eoeVars
  \/ EoeStep

CallsNext ==
  \/ (SdoBegin \/ InfoStart \/ SoeBegin) /\ UNCHANGED <<clean, eoeVars>>
  \/ EoeBegin
  \/ Calling
  \/ SlaveSends
  \/ FragmentLost
  \/ mailbox_reader
  \/ Stop /\ UNCHANGED eoeVars
  \/ at = "idle" /\ calls = MaxCalls /\ UNCHANGED callsVars

CallsSpec == CallsInit /\ [][CallsNext]_callsVars

\* The calling thread runs, and mailbox calls return within their timeouts.
CallsFairSpec == CallsSpec /\ WF_callsVars(Calling)

-----------------------------------------------------------------------------
(* Properties                                                              *)

CallsTypeOK ==
  /\ at \in {"idle", "drain", "send", "receive", "empty"}
  /\ stage \in {"first", "segments"}
  /\ result \in {"none", "ok", "failed"}
  /\ toggle \in BOOLEAN
  /\ faults \in 0 .. MaxFaults
  /\ job.kind \in {"read", "soe_read"} => Len(bytes) <= job.psize
  /\ job.kind = "write" => Len(rest) <= Len(job.data)
  /\ Len(rx.buf) <= rx.size \/ rx.fragno = 0 \/ ~ hook

Success == at = "idle" /\ result = "ok"

\* What a call returns as read is the data of the slave, every byte once, in order,
\* of one version, although requests and answers failed, and mails of other calls
\* and services came between, provided that the slave held no mails of earlier
\* calls; ecx_SoEread cuts off what does not fit in the caller's buffer, and the
\* list of objects ends where the master's is full.  A description is that of the
\* object or entry asked for.
ReadIsObject ==
  /\ Success /\ clean =>
       /\ job.kind \in {"read", "get_ip"} => bytes = objects[job.idx]
       /\ job.kind = "soe_read" => bytes = Take(objects[job.idx], job.psize)
       /\ job.kind = "list" => bytes = Take(objects["list"], MaxODList)
       /\ job.kind = "txpdo" => bytes = Take(objects["txpdo"], PdoData)
       /\ job.kind = "description" => bytes = <<job.idx>>
  /\ job.kind = "entries" => \A s \in DOMAIN bytes : bytes[s].clean => bytes[s].of = <<job.idx, s>>

\* Failures after which a call still knows what it has done: one of a download
\* (the late answer to one segment confirms the next), none of the fragments of
\* ecx_SoEwrite, which go on without the one that failed.
Harmless == mishaps <= (IF job.kind = "write" THEN 1 ELSE 0)

\* When a call reports that data is written, the slave has it, all of it; of a PDO
\* what fits in its mailbox.
WriteIsStored ==
  Success /\ clean /\ Harmless =>
    /\ job.kind \in {"write", "soe_write", "eoe_send", "set_ip"} =>
         objects[job.idx] = job.data
    /\ job.kind = "rxpdo" => objects["rxpdo"] = Take(job.data, PdoData)

\* A frame the master takes for complete is a frame the slave sent, octet for octet,
\* whatever fragments were lost or came twice; unless a time stamp makes its last
\* fragment longer than the blocks announced.
FrameWhole ==
  LET of == sent[frame.k]
      Overhangs == of.stamped /\ Len(of.data) + Stamp > Blocks(Len(of.data)) * Block
  IN  frame # NoFrame /\ ~ Overhangs =>
        frame.size = Len(of.data) /\ frame.data = of.data

\* Every call returns: "blocking", with a timeout.
CallEnds == at # "idle" ~> at = "idle"
=============================================================================
