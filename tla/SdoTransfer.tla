---------------------------- MODULE SdoTransfer ----------------------------
(***************************************************************************)
(* ecx_SDOread and ecx_SDOwrite of soem/ethercatcoe.c: upload and download *)
(* of an object, expedited, in one mail or in segments with a toggle bit.  *)
(* The slave's side is a server of the CANopen protocol (external) that    *)
(* checks the toggle bit and the announced size.                           *)
(***************************************************************************)
EXTENDS MailboxService

Expedited  == 4     \* bytes an expedited transfer carries
MinSegment == 7     \* a shorter segment is padded

\* "minimum size": a short last segment is padded and tells the unused octets.
Pad(data) == data \o [i \in 1 .. MinSegment - Len(data) |-> <<>>]
Unused(data) == IF Len(data) < MinSegment THEN MinSegment - Len(data) ELSE 0
Segment(cmd, t, data, last) ==
  [cmd |-> cmd, toggle |-> t, last |-> last, data |-> Pad(data), unused |-> Unused(data)]

\* Wrong: the unused octets are taken for data.
Unpad_Wrong(m) == m.data

\* "subtract unused bytes from frame"
Unpad(m) == IF m.last /\ Len(m.data) = MinSegment
            THEN Take(m.data, MinSegment - m.unused) ELSE m.data

-----------------------------------------------------------------------------
(* The slave serves one request and puts its answer behind the others.     *)

SegmentData == MailData + MinSegment   \* maxdata of a segment

Upload(r) ==
  /\ r.cmd = "upload"
  /\ LET data == objects[r.idx]
     IN  IF Len(data) <= Expedited
         THEN /\ Answer([cmd |-> "expedited", idx |-> r.idx, data |-> data])
              /\ server' = NoTransfer
         ELSE /\ Answer([cmd |-> "normal", idx |-> r.idx, size |-> Len(data),
                         data |-> Take(data, MailData)])
              /\ server' = [mode |-> "upload", rest |-> Skip(data, MailData),
                            toggle |-> FALSE]
  /\ UNCHANGED objects

UploadSegment(r) ==
  /\ r.cmd = "upload_segment"
  /\ IF server.mode = "upload" /\ server.toggle = r.toggle /\ server.rest # <<>>
     THEN LET last == Len(server.rest) <= SegmentData
          IN  /\ Answer(Segment("segment", r.toggle, Take(server.rest, SegmentData), last))
              /\ server' = [server EXCEPT !.rest = Skip(@, SegmentData),
                                          !.toggle = ~ @]
     ELSE Abort /\ server' = NoTransfer
  /\ UNCHANGED objects

\* A download in one mail, or its first one; the slave may refuse it.
Download(r) ==
  /\ r.cmd = "download"
  /\ \/ /\ Answer([cmd |-> "written", idx |-> r.idx, size |-> 0, data |-> <<>>])
        /\ IF Len(r.data) = r.size
           THEN Accept(r.idx, r.data)
           ELSE /\ server' = [mode |-> "download", idx |-> r.idx, size |-> r.size,
                              data |-> r.data, toggle |-> FALSE]
                /\ UNCHANGED objects
     \/ Abort /\ server' = NoTransfer /\ UNCHANGED objects

DownloadSegment(r) ==
  /\ r.cmd = "download_segment"
  /\ LET data == server.data \o Unpad(r)
         good == /\ server.mode = "download"
                 /\ server.toggle = r.toggle
                 /\ (r.last <=> Len(data) = server.size)
     IN  IF good
         THEN /\ Answer([cmd |-> "segment_written", idx |-> "none"])
              /\ IF r.last
                 THEN Accept(server.idx, data)
                 ELSE /\ server' = [server EXCEPT !.data = data, !.toggle = ~ @]
                      /\ UNCHANGED objects
         ELSE Abort /\ server' = NoTransfer /\ UNCHANGED objects

SdoServe(r) == Upload(r) \/ UploadSegment(r) \/ Download(r) \/ DownloadSegment(r)

-----------------------------------------------------------------------------
(* The calls.                                                              *)

ecx_SDOread ==
  \E i \in Indexes, psize \in Sizes :
    /\ Begin([kind |-> "read", idx |-> i, psize |-> psize],
             [cmd |-> "upload", idx |-> i])
    /\ rest' = <<>>
    /\ at' = "drain"
    /\ UNCHANGED clean

\* Small data goes expedited, other data announces its size.
ecx_SDOwrite ==
  \E i \in Indexes, psize \in Sizes :
    LET data  == Octets(calls + 1, psize)
        first == IF psize <= Expedited THEN data ELSE Take(data, MailData)
    IN  /\ Begin([kind |-> "write", idx |-> i, data |-> data],
                 [cmd |-> "download", idx |-> i, size |-> psize, data |-> first])
        /\ rest' = Skip(data, Len(first))
        /\ at' = "drain"
        /\ UNCHANGED clean

-----------------------------------------------------------------------------
(* Requests and answers.                                                   *)

SdoCall == job.kind \in {"read", "write"}

SdoSend == SdoCall /\ Sent("receive") /\ SdoServe(MbxOut)

\* The next turn of the loop: "toggle = toggle ^ 0x10".
NextUpload(t) ==
  /\ MbxOut' = [cmd |-> "upload_segment", toggle |-> t]
  /\ toggle' = t
  /\ stage' = "segments"
  /\ at' = "send"
  /\ UNCHANGED <<rest, result>>

NextDownload(t) ==
  /\ MbxOut' = Segment("download_segment", t, Take(rest, SegmentData), Len(rest) <= SegmentData)
  /\ rest' = Skip(rest, SegmentData)
  /\ toggle' = t
  /\ stage' = "segments"
  /\ at' = "send"
  /\ UNCHANGED result

Flip(t) == ~ t

\* wkc <= 0: a call ends that has no segments left to write, the loops go on.
Failed ==
  \/ stage = "first" /\ Return("failed")
  \/ stage = "segments" /\ job.kind = "read" /\ NextUpload(Flip(toggle))
  \/ /\ stage = "segments" /\ job.kind = "write" /\ rest # <<>>
     /\ NextDownload(Flip(toggle))
  \/ /\ stage = "segments" /\ job.kind = "write" /\ rest = <<>>
     /\ Return("failed")

\* The mail does not get there, or its confirmation does not get back.
SdoSendFails ==
  /\ SdoCall
  /\ Failing("send")
  /\ \/ running /\ SdoServe(MbxOut)
     \/ UNCHANGED slaveState
  /\ Failed

SdoTimesOut == SdoCall /\ Failing("receive") /\ UNCHANGED slaveState /\ Failed

\* "slave response should be CoE, SDO response and the correct index"
Expected(m) ==
  m.cmd \in {"expedited", "normal", "written"} /\ m.idx = job.idx

Fits(n) == n <= job.psize

\* Answer to an upload request: anything of that index.
Uploaded(m) ==
  /\ stage = "first" /\ job.kind = "read" /\ Expected(m)
  /\ \/ m.cmd = "expedited" /\ Fits(Len(m.data)) /\ bytes' = m.data /\ Return("ok")
     \/ m.cmd = "expedited" /\ ~ Fits(Len(m.data)) /\ UNCHANGED bytes /\ Return("failed")
     \/ /\ m.cmd # "expedited" /\ Fits(m.size)
        /\ bytes' = Take(m.data, m.size)
        /\ IF Len(m.data) < m.size THEN NextUpload(FALSE) ELSE Return("ok")
     \/ m.cmd # "expedited" /\ ~ Fits(m.size) /\ UNCHANGED bytes /\ Return("failed")

SegmentUploaded(m) ==
  /\ stage = "segments" /\ job.kind = "read" /\ m.cmd = "segment"
  /\ bytes' = bytes \o Unpad(m)
  /\ IF m.last THEN Return("ok") ELSE NextUpload(Flip(toggle))

Downloaded(m) ==
  /\ stage = "first" /\ job.kind = "write" /\ Expected(m)
  /\ IF rest = <<>> THEN Return("ok") ELSE NextDownload(FALSE)
  /\ UNCHANGED bytes

\* Wrong: any answer confirms a segment.
SegmentDownloaded_Wrong(m) ==
  /\ stage = "segments" /\ job.kind = "write"
  /\ IF rest = <<>> THEN Return("ok")
                    ELSE NextDownload(Flip(toggle))
  /\ UNCHANGED bytes

SegmentDownloaded(m) ==
  /\ stage = "segments" /\ job.kind = "write" /\ m.cmd = "segment_written"
  /\ IF rest = <<>> THEN Return("ok")
                    ELSE NextDownload(Flip(toggle))
  /\ UNCHANGED bytes

\* Wrong: NotLast stays TRUE.
Unexpected_Wrong(m) ==
  /\ CASE stage = "first"     -> ~ Expected(m) /\ Return("failed")
       [] stage # "first" /\ job.kind = "read" -> m.cmd # "segment" /\ NextUpload(Flip(toggle))
       [] OTHER               -> m.cmd # "segment_written" /\ Return("failed")
  /\ UNCHANGED bytes

\* "unexpected frame returned from slave", or an abort.
Unexpected(m) ==
  /\ CASE stage = "first"     -> ~ Expected(m)
       [] stage # "first" /\ job.kind = "read" -> m.cmd # "segment"
       [] OTHER               -> m.cmd # "segment_written"
  /\ Return("failed")
  /\ UNCHANGED bytes

SdoReceive ==
  /\ SdoCall
  /\ MailRead
  /\ LET m == Head(box)
     IN  \/ Uploaded(m) \/ SegmentUploaded(m) \/ Downloaded(m)
         \/ SegmentDownloaded(m) \/ Unexpected(m)

SdoBegin == ecx_SDOread \/ ecx_SDOwrite
SdoStep  == SdoSend \/ SdoSendFails \/ SdoTimesOut \/ SdoReceive
=============================================================================
