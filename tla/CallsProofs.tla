----------------------------- MODULE CallsProofs -----------------------------
(***************************************************************************)
(* What is proved of the calls that read and write what a slave holds: the *)
(* objects and the lists of CoE, the elements of SoE, the settings of EoE. *)
(*                                                                         *)
(* What a call returns as read is what the slave holds, and what it        *)
(* reports as written the slave has, for objects, mailboxes and lists of   *)
(* any length, whatever fragments of frames come in between.               *)
(*                                                                         *)
(* The invariant (TalkInv) says, for each kind of call, how the request,   *)
(* the octets had so far, the transfer of the slave and the mails that     *)
(* wait beside the fragments fit together: what was asked last is answered *)
(* by what waits or by what the slave does next, from where the octets had *)
(* so far end.  A call is followed as long as what it gets is sure: the    *)
(* slave held no mails of earlier calls, and few of its mailbox calls have *)
(* failed, none of those that write fragments.                             *)
(***************************************************************************)
EXTENDS ServicesProofs

\* q is what mailbox b holds besides fragments, in its order: mail i of q is mail g[i].
Embeds(g, b, q) ==
  /\ \A i, j \in 1 .. Len(q) : i < j => g[i] < g[j]
  /\ \A i \in 1 .. Len(q) : b[g[i]] = q[i]
  /\ \A x \in 1 .. Len(b) : ~ IsFragment(b[x]) <=> \E i \in 1 .. Len(q) : g[i] = x

Waiting(b, q) ==
  /\ b \in Seq(Range(b)) /\ q \in Seq(Range(q))
  /\ \E g \in [1 .. Len(q) -> 1 .. Len(b)] : Embeds(g, b, q)

\* The first request of a call; of the entries of an object, any request.
FirstRequest ==
  /\ job.kind = "read" => MbxOut = [cmd |-> "upload", idx |-> job.idx]
  /\ job.kind = "write" =>
       /\ MbxOut = [cmd |-> "download", idx |-> job.idx, size |-> Len(job.data),
                    data |-> MbxOut.data]
       /\ MbxOut.data \o rest = job.data
  /\ job.kind = "list" => MbxOut = [cmd |-> "get_list"] /\ job.idx = "list"
  /\ job.kind = "txpdo" => MbxOut = [cmd |-> "get_txpdo"]
  /\ job.kind = "rxpdo" => MbxOut = [cmd |-> "rxpdo", data |-> Take(job.data, PdoData)]
  /\ job.kind = "description" => MbxOut = [cmd |-> "get_description", idx |-> job.idx]
  /\ job.kind = "entries" => MbxOut.cmd = "get_entry" /\ MbxOut.idx = job.idx
  /\ job.kind = "soe_read" => MbxOut = [cmd |-> "soe_readreq", idn |-> job.idx]
  /\ job.kind = "soe_write" =>
       MbxOut = Fragment(job.idx, job.data) /\ rest = Skip(job.data, SoeData)
  /\ job.kind = "get_ip" => MbxOut = [cmd |-> "get_ip"] /\ job.idx = "ip"
  /\ job.kind = "set_ip" => MbxOut = [cmd |-> "set_ip", data |-> job.data] /\ job.idx = "ip"

\* A call before the mailbox is emptied.
Ready ==
  /\ FirstRequest /\ stage = "first" /\ job.kind # "eoe_send"
  /\ job.kind # "entries" => bytes = <<>> /\ mishaps = 0

\* Answers to an upload: after b octets each has the next piece of the object, until
\* the slave has given up.
UploadPart(o, n, m) ==
  /\ n < Len(o)
  /\ \E t \in BOOLEAN :
       m = Segment("segment", t, Take(Skip(o, n), SegmentData), Len(o) <= n + SegmentData)
UploadParts(o, b, q) ==
  \A k \in 1 .. Len(q) : q[k].cmd = "abort" \/ UploadPart(o, b + (k - 1) * SegmentData, q[k])

\* The answer to the first request of an upload: the object, or its beginning.
AtOnce(i, o, q) == q = << [cmd |-> "expedited", idx |-> i, data |-> o] >>
Beginning(i, o, q) ==
  q = << [cmd |-> "normal", idx |-> i, size |-> Len(o), data |-> Take(o, MailData)] >>

ReadTalk(q) ==
  /\ at \in {"send", "receive"}
  /\ at = "send" /\ stage = "first" => q = <<>> /\ FirstRequest
  /\ at = "receive" /\ stage = "first" =>
       \/ AtOnce(job.idx, objects[job.idx], q)
       \/ /\ Beginning(job.idx, objects[job.idx], q)
          /\ server = [mode |-> "upload", rest |-> Skip(objects[job.idx], MailData),
                       toggle |-> FALSE]
  /\ stage # "first" =>
       /\ MbxOut.cmd = "upload_segment"
       /\ \E b \in Nat :
            /\ bytes = Take(objects[job.idx], b) /\ b < Len(objects[job.idx])
            /\ UploadParts(objects[job.idx], b, q)
            /\ server.mode = "upload" =>
                 server.rest = Skip(objects[job.idx], b + Len(q) * SegmentData)

\* The slave takes a download and has the beginning of the data.
Awaits(t) ==
  /\ server.mode = "download" /\ server.idx = job.idx /\ server.size = Len(job.data)
  /\ server.toggle = t
Confirmed(q) == \A k \in 1 .. Len(q) : q[k].cmd = "segment_written"

\* A download: what the slave has, the request and what is left make up the data, and
\* every answer confirms a segment; or a segment was lost, and the slave aborts.
DownloadBegun(q) ==
  /\ Len(q) = 1
  /\ \/ q[1].cmd = "abort"
     \/ rest = <<>> /\ objects[job.idx] = job.data
     \/ rest # <<>> /\ Awaits(FALSE) /\ server.data \o rest = job.data
SegmentReady(q) ==
  /\ MbxOut.cmd = "download_segment" /\ MbxOut.toggle = toggle
  /\ \/ /\ Awaits(toggle) /\ (server.data \o Unpad(MbxOut)) \o rest = job.data
        /\ MbxOut.last <=> rest = <<>>
        /\ Confirmed(q) /\ (mishaps = 0 => q = <<>>)
     \/ /\ mishaps = 1 /\ q = <<>>
        /\ ~ (server.mode = "download" /\ server.toggle = toggle)
SegmentGiven(q) ==
  \/ /\ q # <<>> /\ Confirmed(q) /\ (mishaps = 0 => Len(q) = 1)
     /\ \/ rest = <<>> /\ objects[job.idx] = job.data
        \/ rest # <<>> /\ Awaits(~ toggle) /\ server.data \o rest = job.data
  \/ mishaps = 1 /\ q # <<>> /\ q[1].cmd = "abort"
WriteTalk(q) ==
  /\ at \in {"send", "receive"}
  /\ at = "send" /\ stage = "first" => q = <<>> /\ FirstRequest
  /\ at = "receive" /\ stage = "first" => DownloadBegun(q)
  /\ at = "send" /\ stage # "first" => SegmentReady(q)
  /\ at = "receive" /\ stage # "first" => SegmentGiven(q)

\* The words of the list, and the octets of a value, in pieces, of which b have been
\* taken.
AllWords == << <<"all_objects">> >> \o objects["list"]
ListParts(w, b, q) ==
  /\ q # <<>> /\ Len(w) <= b + Len(q) * ListData
  /\ \A k \in 1 .. Len(q) :
       q[k] = [cmd |-> "list", words |-> Take(Skip(w, b + (k - 1) * ListData), ListData),
               fragments |-> Len(q) - k]
WordsTaken(w, b) == IF b = 0 THEN <<>> ELSE Tail(Take(w, b))
ListTalk(q) ==
  /\ at \in {"send", "receive"} /\ job.idx = "list"
  /\ at = "send" => q = <<>> /\ FirstRequest /\ bytes = <<>> /\ stage = "first"
  /\ at = "receive" =>
       \E b \in Nat : /\ bytes = Take(WordsTaken(AllWords, b), MaxODList)
                      /\ b = 0 <=> stage = "first"
                      /\ ListParts(AllWords, b, q)

SoeParts(o, b, q) ==
  /\ q # <<>> /\ Len(o) <= b + Len(q) * SoeData
  /\ \A k \in 1 .. Len(q) :
       q[k] = [cmd |-> "soe_read", data |-> Take(Skip(o, b + (k - 1) * SoeData), SoeData),
               incomplete |-> k < Len(q)]
SoeReadTalk(q) ==
  /\ at \in {"send", "receive"} /\ FirstRequest
  /\ at = "send" => q = <<>> /\ bytes = <<>>
  /\ at = "receive" =>
       \/ q # <<>> /\ q[1].cmd = "soe_error"
       \/ \E b \in Nat : /\ bytes = Take(Take(objects[job.idx], b), job.psize)
                         /\ SoeParts(objects[job.idx], b, q)

\* What the slave has of a value, the request and what is left make up the data; or
\* the slave has refused it.
Gathered == IF server.mode = "soe" THEN server.data ELSE <<>>
SoeWriteTalk(q) ==
  /\ at \in {"send", "receive", "empty"} /\ MbxOut.cmd = "soe_writereq"
  /\ \/ q # <<>> /\ q[1].cmd = "soe_error"
     \/ /\ at = "send" /\ q = <<>> /\ (Gathered \o MbxOut.data) \o rest = job.data
        /\ MbxOut.incomplete \/ (rest = <<>> /\ MbxOut.idn = job.idx)
     \/ at = "empty" /\ q = <<>> /\ Gathered \o rest = job.data
     \/ at = "receive" /\ q = << [cmd |-> "soe_written"] >> /\ objects[job.idx] = job.data

\* The requests with one answer.
SingleTalk(q) ==
  /\ at \in {"send", "receive"} /\ FirstRequest
  /\ at = "send" => q = <<>>
  /\ at = "receive" =>
       /\ Len(q) = 1
       /\ job.kind = "txpdo" =>
            q[1] = [cmd |-> "txpdo", data |-> Take(objects["txpdo"], PdoData)]
       /\ job.kind = "description" =>
            q[1].cmd = "abort" \/ q[1] = [cmd |-> "description", of |-> job.idx]
       /\ job.kind = "entries" =>
            q[1].cmd = "abort" \/ q[1] = [cmd |-> "entry", of |-> <<job.idx, MbxOut.sub>>]
       /\ job.kind = "get_ip" => q[1] = [cmd |-> "ip", data |-> objects["ip"]]
       /\ job.kind = "set_ip" =>
            /\ q[1].cmd = "ip_set"
            /\ q[1].success => objects["ip"] = job.data

Singles == {"txpdo", "description", "entries", "get_ip", "set_ip"}
Talk(q) ==
  /\ job.kind = "read" => ReadTalk(q)
  /\ job.kind = "write" => WriteTalk(q)
  /\ job.kind = "list" => ListTalk(q)
  /\ job.kind = "soe_read" => SoeReadTalk(q)
  /\ job.kind = "soe_write" => SoeWriteTalk(q)
  /\ job.kind \in Singles => SingleTalk(q)

\* A frame that is sent: the slave has the fragments in front of the request.
SendTalk ==
  LET f == MbxOut.fragno
  IN  /\ f \in Nat /\ MbxOut = EoeFragment(job.data, f, f * Payload, MbxOut.frameno)
      /\ f > 0 => server.mode = "eoe" /\ server.data = Take(job.data, f * Payload)

\* A call is followed as long as what it gets is sure: the slave held no mails of
\* earlier calls, and few of its mailbox calls have failed.
Followed ==
  /\ job.kind \in {"read", "write", "list", "soe_read", "soe_write"} \cup Singles
  /\ clean /\ running
  /\ job.kind = "write" => mishaps <= 1
  /\ job.kind = "soe_write" => mishaps = 0

TalkInv ==
  /\ ReadIsObject /\ WriteIsStored
  /\ at = "drain" => Ready
  /\ job.kind = "entries" /\ at # "idle" => FirstRequest /\ stage = "first"
  /\ job.kind = "rxpdo" /\ at = "send" => FirstRequest
  /\ job.kind = "eoe_send" /\ at = "send" => SendTalk
  /\ Followed /\ at \in {"send", "receive", "empty"} =>
       \E q : Waiting(box, q) /\ Talk(q)
-----------------------------------------------------------------------------
(* Pieces of data.                                                         *)

LEMMA Pieces ==
  ASSUME NEW S, NEW d \in Seq(S), NEW n \in Nat
  PROVE  /\ Take(d, n) \in Seq(S) /\ Skip(d, n) \in Seq(S) /\ Len(d) \in Nat
         /\ Len(Take(d, n)) = (IF n < Len(d) THEN n ELSE Len(d))
         /\ Len(Skip(d, n)) = (IF n < Len(d) THEN Len(d) - n ELSE 0)
         /\ \A i \in 1 .. Len(Take(d, n)) : Take(d, n)[i] = d[i]
         /\ \A i \in 1 .. Len(Skip(d, n)) : Skip(d, n)[i] = d[n + i]
<1>1. Len(d) \in Nat /\ \A i \in 1 .. Len(d) : d[i] \in S  OBVIOUS
<1>2. PICK k : k = (IF n < Len(d) THEN n ELSE Len(d))  OBVIOUS
<1>3. k \in Nat /\ k <= Len(d)  BY <1>1, <1>2
<1>4. Take(d, n) = SubSeq(d, 1, k)  BY <1>2, Zenon DEF Take
<1>5. Skip(d, n) = SubSeq(d, n + 1, Len(d))  BY Zenon DEF Skip
<1>6. /\ SubSeq(d, 1, k) \in Seq(S)
      /\ Len(SubSeq(d, 1, k)) = IF 1 <= k THEN k - 1 + 1 ELSE 0
      /\ \A i \in 1 .. k - 1 + 1 : SubSeq(d, 1, k)[i] = d[1 + i - 1]
  <2>1. 1 \in Int /\ k \in Int /\ \A i \in 1 .. k : d[i] \in S  BY <1>1, <1>3
  <2> QED BY <2>1, SubSeqProperties
<1>7. /\ SubSeq(d, n + 1, Len(d)) \in Seq(S)
      /\ Len(SubSeq(d, n + 1, Len(d))) = IF n + 1 <= Len(d) THEN Len(d) - (n + 1) + 1 ELSE 0
      /\ \A i \in 1 .. Len(d) - (n + 1) + 1 : SubSeq(d, n + 1, Len(d))[i] = d[n + 1 + i - 1]
  <2>1. n + 1 \in Int /\ Len(d) \in Int /\ \A i \in n + 1 .. Len(d) : d[i] \in S  BY <1>1
  <2> QED BY <2>1, SubSeqProperties
<1>8. Len(Take(d, n)) = k  BY <1>3, <1>4, <1>6
<1>9. Len(Skip(d, n)) = (IF n < Len(d) THEN Len(d) - n ELSE 0)  BY <1>1, <1>5, <1>7
<1>10. \A i \in 1 .. Len(Take(d, n)) : Take(d, n)[i] = d[i]  BY <1>3, <1>4, <1>6, <1>8
<1>11. \A i \in 1 .. Len(Skip(d, n)) : Skip(d, n)[i] = d[n + i]
  BY <1>1, <1>5, <1>7, <1>9
<1> QED BY <1>1, <1>2, <1>4, <1>5, <1>6, <1>7, <1>8, <1>9, <1>10, <1>11

LEMMA TakeAll ==
  ASSUME NEW S, NEW d \in Seq(S), NEW n \in Nat, Len(d) <= n
  PROVE  Take(d, n) = d /\ Skip(d, n) = <<>>
<1>1. /\ Take(d, n) \in Seq(S) /\ Skip(d, n) \in Seq(S) /\ Len(d) \in Nat
      /\ Len(Take(d, n)) = (IF n < Len(d) THEN n ELSE Len(d))
      /\ Len(Skip(d, n)) = (IF n < Len(d) THEN Len(d) - n ELSE 0)
      /\ \A i \in 1 .. Len(Take(d, n)) : Take(d, n)[i] = d[i]
  BY Pieces
<1>2. Len(Take(d, n)) = Len(d) /\ Len(Skip(d, n)) = 0  BY <1>1
<1>3. Take(d, n) = d  BY <1>1, <1>2, SeqEqual
<1>4. Skip(d, n) = <<>>  BY <1>1, <1>2, EmptySeq
<1> QED BY <1>3, <1>4

LEMMA TakeNone ==
  ASSUME NEW S, NEW d \in Seq(S)
  PROVE  Take(d, 0) = <<>> /\ Skip(d, 0) = d
<1>1. /\ Take(d, 0) \in Seq(S) /\ Skip(d, 0) \in Seq(S) /\ Len(d) \in Nat
      /\ Len(Take(d, 0)) = (IF 0 < Len(d) THEN 0 ELSE Len(d))
      /\ Len(Skip(d, 0)) = (IF 0 < Len(d) THEN Len(d) - 0 ELSE 0)
      /\ \A i \in 1 .. Len(Skip(d, 0)) : Skip(d, 0)[i] = d[0 + i]
  BY Pieces
<1>2. Len(Skip(d, 0)) = Len(d) /\ Len(Take(d, 0)) = 0  BY <1>1
<1>3. \A i \in 1 .. Len(Skip(d, 0)) : Skip(d, 0)[i] = d[i]  BY <1>1
<1>4. Skip(d, 0) = d  BY <1>1, <1>2, <1>3, SeqEqual
<1>5. Take(d, 0) = <<>>  BY <1>1, <1>2, EmptySeq
<1> QED BY <1>4, <1>5

LEMMA TakeMore ==
  ASSUME NEW S, NEW d \in Seq(S), NEW n \in Nat, NEW k \in Nat
  PROVE  /\ Take(d, n) \o Take(Skip(d, n), k) = Take(d, n + k)
         /\ Skip(Skip(d, n), k) = Skip(d, n + k)
<1>1. n + k \in Nat /\ Len(d) \in Nat  OBVIOUS
<1>2. PICK a : a = Take(d, n)  OBVIOUS
<1>3. PICK r : r = Skip(d, n)  OBVIOUS
<1>4. PICK b : b = Take(r, k)  OBVIOUS
<1>5. PICK s : s = Skip(r, k)  OBVIOUS
<1>6. PICK c : c = Take(d, n + k)  OBVIOUS
<1>7. PICK e : e = Skip(d, n + k)  OBVIOUS
<1>8. /\ a \in Seq(S) /\ r \in Seq(S)
      /\ Len(a) = (IF n < Len(d) THEN n ELSE Len(d))
      /\ Len(r) = (IF n < Len(d) THEN Len(d) - n ELSE 0)
      /\ \A i \in 1 .. Len(a) : a[i] = d[i]
      /\ \A i \in 1 .. Len(r) : r[i] = d[n + i]
  BY <1>2, <1>3, Pieces
<1>9. /\ b \in Seq(S) /\ s \in Seq(S) /\ Len(r) \in Nat
      /\ Len(b) = (IF k < Len(r) THEN k ELSE Len(r))
      /\ Len(s) = (IF k < Len(r) THEN Len(r) - k ELSE 0)
      /\ \A i \in 1 .. Len(b) : b[i] = r[i]
      /\ \A i \in 1 .. Len(s) : s[i] = r[k + i]
  BY <1>4, <1>5, <1>8, Pieces
<1>10. /\ c \in Seq(S) /\ e \in Seq(S)
       /\ Len(c) = (IF n + k < Len(d) THEN n + k ELSE Len(d))
       /\ Len(e) = (IF n + k < Len(d) THEN Len(d) - (n + k) ELSE 0)
       /\ \A i \in 1 .. Len(c) : c[i] = d[i]
       /\ \A i \in 1 .. Len(e) : e[i] = d[n + k + i]
  <2>1. PICK t : t = n + k  OBVIOUS
  <2>2. t \in Nat /\ c = Take(d, t) /\ e = Skip(d, t)  BY <1>6, <1>7, <2>1
  <2>3. /\ c \in Seq(S) /\ e \in Seq(S)
        /\ Len(c) = (IF t < Len(d) THEN t ELSE Len(d))
        /\ Len(e) = (IF t < Len(d) THEN Len(d) - t ELSE 0)
        /\ \A i \in 1 .. Len(c) : c[i] = d[i]
        /\ \A i \in 1 .. Len(e) : e[i] = d[t + i]
    BY <1>1, <2>2, Pieces
  <2> QED BY <2>1, <2>3
<1>11. a \o b = c
  <2>1. /\ a \o b \in Seq(S) /\ Len(a \o b) = Len(a) + Len(b)
        /\ \A i \in 1 .. Len(a) + Len(b) :
             (a \o b)[i] = IF i <= Len(a) THEN a[i] ELSE b[i - Len(a)]
    <3>1. a \in Seq(S) /\ b \in Seq(S)  BY <1>8, <1>9, Zenon
    <3> QED BY <3>1, ConcatProperties
  <2>2. /\ Len(a) \in Nat /\ Len(b) \in Nat /\ Len(c) \in Nat /\ Len(a) + Len(b) = Len(c)
        /\ Len(b) <= Len(r) /\ (Len(b) > 0 => Len(a) = n)
    <3>1. /\ Len(a) = (IF n < Len(d) THEN n ELSE Len(d))
          /\ Len(r) = (IF n < Len(d) THEN Len(d) - n ELSE 0)
          /\ Len(b) = (IF k < Len(r) THEN k ELSE Len(r))
          /\ Len(c) = (IF n + k < Len(d) THEN n + k ELSE Len(d))
      BY <1>8, <1>9, <1>10, Zenon
    <3>2. Len(a) \in Nat /\ Len(r) \in Nat /\ Len(c) \in Nat  BY <1>1, <3>1
    <3>3. Len(b) \in Nat /\ Len(b) <= Len(r)  BY <3>1, <3>2
    <3>4. CASE n < Len(d)
      <4>1. Len(a) = n /\ Len(r) = Len(d) - n  BY <3>1, <3>4
      <4>2. CASE k < Len(r)  BY <1>1, <3>1, <3>4, <4>1, <4>2
      <4>3. CASE ~ (k < Len(r))  BY <1>1, <3>1, <3>4, <4>1, <4>3
      <4> QED BY <3>2, <3>3, <4>1, <4>2, <4>3
    <3>5. CASE ~ (n < Len(d))
      <4>1. Len(a) = Len(d) /\ Len(r) = 0 /\ Len(c) = Len(d)  BY <1>1, <3>1, <3>5
      <4>2. Len(b) = 0  BY <3>1, <3>3, <4>1
      <4> QED BY <1>1, <3>2, <3>3, <4>1, <4>2
    <3> QED BY <3>4, <3>5
  <2>3. ASSUME NEW i \in 1 .. Len(c) PROVE (a \o b)[i] = c[i]
    <3>1. c[i] = d[i]  BY <1>10
    <3>2. CASE i <= Len(a)  BY <1>8, <2>1, <2>2, <3>1, <3>2
    <3>3. CASE ~ (i <= Len(a))
      <4>1. i - Len(a) \in 1 .. Len(b) /\ i - Len(a) \in 1 .. Len(r) /\ Len(a) = n
        <5>1. Len(r) \in Nat  BY <1>9, Zenon
        <5> QED BY <2>2, <3>3, <5>1
      <4>2. (a \o b)[i] = b[i - Len(a)]  BY <2>1, <2>2, <3>3
      <4>3. b[i - Len(a)] = r[i - Len(a)]  BY <1>9, <4>1
      <4>4. r[i - Len(a)] = d[n + (i - Len(a))]  BY <1>8, <4>1
      <4>5. n + (i - Len(a)) = i  BY <4>1, <2>2
      <4> QED BY <3>1, <4>2, <4>3, <4>4, <4>5
    <3> QED BY <3>2, <3>3
  <2>4. Len(a \o b) = Len(c)  BY <2>1, <2>2
  <2>5. \A i \in 1 .. Len(a \o b) : (a \o b)[i] = c[i]  BY <2>3, <2>4
  <2> QED BY <2>1, <2>4, <2>5, <1>10, SeqEqual, Zenon
<1>12. s = e
  <2>1. Len(s) = Len(e) /\ Len(s) \in Nat  BY <1>1, <1>8, <1>9, <1>10
  <2>2. ASSUME NEW i \in 1 .. Len(s) PROVE s[i] = e[i]
    <3>1. k + i \in 1 .. Len(r)  BY <1>1, <1>8, <1>9, <2>1
    <3>2. s[i] = r[k + i]  BY <1>9
    <3>3. r[k + i] = d[n + (k + i)]  BY <1>8, <3>1
    <3>4. e[i] = d[n + k + i]  BY <1>10, <2>1
    <3>5. n + (k + i) = n + k + i  BY <2>1
    <3> QED BY <3>2, <3>3, <3>4, <3>5
  <2> QED BY <2>1, <2>2, <1>9, <1>10, SeqEqual, Zenon
<1> QED BY <1>2, <1>3, <1>4, <1>5, <1>6, <1>7, <1>11, <1>12

LEMMA Rejoined ==
  ASSUME NEW S, NEW d \in Seq(S), NEW n \in Nat
  PROVE  Take(d, n) \o Skip(d, n) = d
<1>1. Take(d, n) \in Seq(S) /\ Skip(d, n) \in Seq(S) /\ Len(d) \in Nat /\ Len(Skip(d, n)) <= Len(d)
  <2>1. /\ Take(d, n) \in Seq(S) /\ Skip(d, n) \in Seq(S) /\ Len(d) \in Nat
        /\ Len(Skip(d, n)) = (IF n < Len(d) THEN Len(d) - n ELSE 0)
    BY Pieces
  <2> QED BY <2>1
<1>2. n + Len(d) \in Nat /\ Len(d) <= n + Len(d)  BY <1>1
<1>3. Take(Skip(d, n), Len(d)) = Skip(d, n)  BY <1>1, TakeAll
<1>4. Take(d, n + Len(d)) = d  BY <1>2, TakeAll
<1>5. Take(d, n) \o Take(Skip(d, n), Len(d)) = Take(d, n + Len(d))  BY <1>1, TakeMore
<1> QED BY <1>3, <1>4, <1>5

\* What does not fit is cut off, at once or in the end.
LEMMA CutOff ==
  ASSUME NEW S, NEW d \in Seq(S), NEW e \in Seq(S), NEW n \in Nat
  PROVE  Take(Take(d, n) \o e, n) = Take(d \o e, n)
<1>1. PICK a : a = Take(d, n)  OBVIOUS
<1>2. /\ a \in Seq(S) /\ Len(d) \in Nat /\ Len(a) = (IF n < Len(d) THEN n ELSE Len(d))
      /\ \A i \in 1 .. Len(a) : a[i] = d[i]
  BY <1>1, Pieces
<1>3. Len(e) \in Nat  OBVIOUS
<1>4. /\ a \o e \in Seq(S) /\ Len(a \o e) = Len(a) + Len(e)
      /\ \A i \in 1 .. Len(a) + Len(e) : (a \o e)[i] = IF i <= Len(a) THEN a[i] ELSE e[i - Len(a)]
  BY <1>2, ConcatProperties
<1>5. /\ d \o e \in Seq(S) /\ Len(d \o e) = Len(d) + Len(e)
      /\ \A i \in 1 .. Len(d) + Len(e) : (d \o e)[i] = IF i <= Len(d) THEN d[i] ELSE e[i - Len(d)]
  BY ConcatProperties
<1>6. PICK s : s = Take(a \o e, n)  OBVIOUS
<1>7. PICK t : t = Take(d \o e, n)  OBVIOUS
<1>8. /\ s \in Seq(S) /\ Len(s) = (IF n < Len(a \o e) THEN n ELSE Len(a \o e))
      /\ \A i \in 1 .. Len(s) : s[i] = (a \o e)[i]
  BY <1>4, <1>6, Pieces
<1>9. /\ t \in Seq(S) /\ Len(t) = (IF n < Len(d \o e) THEN n ELSE Len(d \o e))
      /\ \A i \in 1 .. Len(t) : t[i] = (d \o e)[i]
  BY <1>5, <1>7, Pieces
<1>10. Len(s) = Len(t) /\ Len(s) \in Nat  BY <1>2, <1>3, <1>4, <1>5, <1>8, <1>9
<1>11. ASSUME NEW i \in 1 .. Len(s) PROVE s[i] = t[i]
  <2>1. s[i] = (a \o e)[i] /\ t[i] = (d \o e)[i]  BY <1>8, <1>9, <1>10
  <2>2. /\ i \in 1 .. Len(a) + Len(e) /\ i \in 1 .. Len(d) + Len(e) /\ i <= n
        /\ i <= Len(a) <=> i <= Len(d)
    BY <1>2, <1>3, <1>4, <1>5, <1>8, <1>9, <1>10
  <2>3. CASE i <= Len(a)
    <3>1. i \in 1 .. Len(a)  BY <1>2, <2>2, <2>3
    <3>2. (a \o e)[i] = a[i] /\ a[i] = d[i] /\ (d \o e)[i] = d[i]
      BY <1>2, <1>4, <1>5, <2>2, <2>3, <3>1
    <3> QED BY <2>1, <3>2
  <2>4. CASE ~ (i <= Len(a))
    <3>1. (a \o e)[i] = e[i - Len(a)] /\ (d \o e)[i] = e[i - Len(d)]
      BY <1>4, <1>5, <2>2, <2>4
    <3>2. Len(a) = Len(d)  BY <1>2, <2>2, <2>4
    <3> QED BY <2>1, <3>1, <3>2
  <2> QED BY <2>3, <2>4
<1>12. s = t  BY <1>8, <1>9, <1>10, <1>11, SeqEqual, Zenon
<1> QED BY <1>1, <1>6, <1>7, <1>12
-----------------------------------------------------------------------------
(* What is in the mailbox besides fragments.                               *)

LEMMA Arranged ==
  ASSUME NEW S, NEW b \in Seq(S), NEW q \in Seq(S), NEW g \in [1 .. Len(q) -> 1 .. Len(b)],
         Embeds(g, b, q)
  PROVE  Waiting(b, q)
BY SeqOfRange, Zenon DEF Waiting

LEMMA Arrangement ==
  ASSUME NEW b, NEW q, Waiting(b, q)
  PROVE  /\ b \in Seq(Range(b)) /\ q \in Seq(Range(q)) /\ Len(b) \in Nat /\ Len(q) \in Nat
         /\ \E g \in [1 .. Len(q) -> 1 .. Len(b)] : Embeds(g, b, q)
<1>1. b \in Seq(Range(b)) /\ q \in Seq(Range(q))  BY Zenon DEF Waiting
<1>2. Len(b) \in Nat /\ Len(q) \in Nat  BY <1>1, LenProperties
<1> QED BY <1>1, <1>2, Zenon DEF Waiting

LEMMA NoneWaits ==
  Waiting(<<>>, <<>>)
<1>1. <<>> \in Seq({}) /\ Len(<<>>) = 0  OBVIOUS
<1>2. [i \in 1 .. 0 |-> 0] \in [1 .. 0 -> 1 .. 0] /\ 1 .. 0 = {}  OBVIOUS
<1>3. Embeds([i \in 1 .. 0 |-> 0], <<>>, <<>>)  BY <1>1, <1>2 DEF Embeds
<1> QED BY <1>1, <1>2, <1>3, Arranged

\* Fragments come.
LEMMA FragmentsCome ==
  ASSUME NEW b, NEW q, Waiting(b, q), NEW T, NEW s \in Seq(T),
         \A i \in 1 .. Len(s) : IsFragment(s[i])
  PROVE  Waiting(b \o s, q)
<1> DEFINE S == (Range(b) \union Range(q)) \union T
<1>1. /\ b \in Seq(Range(b)) /\ q \in Seq(Range(q)) /\ Len(b) \in Nat /\ Len(q) \in Nat
  BY Arrangement
<1>0. PICK g \in [1 .. Len(q) -> 1 .. Len(b)] : Embeds(g, b, q)
  BY Arrangement
<1>2. /\ \A i, j \in 1 .. Len(q) : i < j => g[i] < g[j]
      /\ \A i \in 1 .. Len(q) : b[g[i]] = q[i]
      /\ \A x \in 1 .. Len(b) : ~ IsFragment(b[x]) <=> \E i \in 1 .. Len(q) : g[i] = x
  BY <1>0, Zenon DEF Embeds
<1>3. Range(b) \subseteq S /\ Range(q) \subseteq S /\ T \subseteq S  OBVIOUS
<1> HIDE DEF S
<1>4. b \in Seq(S) /\ s \in Seq(S) /\ q \in Seq(S) /\ Len(s) \in Nat
  BY <1>1, <1>3, SeqMonotonic
<1>5. PICK c : c = b \o s  OBVIOUS
<1>6. /\ c \in Seq(S) /\ Len(c) = Len(b) + Len(s)
      /\ \A i \in 1 .. Len(b) + Len(s) : c[i] = IF i <= Len(b) THEN b[i] ELSE s[i - Len(b)]
  BY <1>4, <1>5, ConcatProperties
<1>7. g \in [1 .. Len(q) -> 1 .. Len(c)]
  <2>1. 1 .. Len(b) \subseteq 1 .. Len(c)  BY <1>1, <1>4, <1>6
  <2> QED BY <2>1
<1>8. ASSUME NEW i \in 1 .. Len(q) PROVE c[g[i]] = q[i]
  <2>1. g[i] \in 1 .. Len(b) + Len(s) /\ g[i] <= Len(b)  BY <1>1, <1>4
  <2> QED BY <2>1, <1>2, <1>6
<1>9. ASSUME NEW x \in 1 .. Len(c)
      PROVE  ~ IsFragment(c[x]) <=> \E i \in 1 .. Len(q) : g[i] = x
  <2>1. CASE x <= Len(b)
    <3>1. x \in 1 .. Len(b) /\ c[x] = b[x]  BY <2>1, <1>1, <1>4, <1>6
    <3> QED BY <3>1, <1>2, Zenon
  <2>2. CASE ~ (x <= Len(b))
    <3>1. x - Len(b) \in 1 .. Len(s) /\ c[x] = s[x - Len(b)]  BY <2>2, <1>1, <1>4, <1>6
    <3>2. IsFragment(c[x])  BY <3>1, Zenon
    <3>3. \A i \in 1 .. Len(q) : g[i] # x  BY <2>2
    <3> QED BY <3>2, <3>3
  <2> QED BY <2>1, <2>2
<1>11. Embeds(g, c, q)  BY <1>2, <1>8, <1>9, Zenon DEF Embeds
<1>10. Waiting(c, q)  BY <1>4, <1>6, <1>7, <1>11, Arranged
<1> QED BY <1>5, <1>10

\* Other mails come.
LEMMA MailsCome ==
  ASSUME NEW b, NEW q, Waiting(b, q), NEW T, NEW s \in Seq(T),
         \A i \in 1 .. Len(s) : ~ IsFragment(s[i])
  PROVE  Waiting(b \o s, q \o s)
<1> DEFINE S == (Range(b) \union Range(q)) \union T
<1>1. /\ b \in Seq(Range(b)) /\ q \in Seq(Range(q)) /\ Len(b) \in Nat /\ Len(q) \in Nat
  BY Arrangement
<1>0. PICK g \in [1 .. Len(q) -> 1 .. Len(b)] : Embeds(g, b, q)
  BY Arrangement
<1>2. /\ \A i, j \in 1 .. Len(q) : i < j => g[i] < g[j]
      /\ \A i \in 1 .. Len(q) : b[g[i]] = q[i]
      /\ \A x \in 1 .. Len(b) : ~ IsFragment(b[x]) <=> \E i \in 1 .. Len(q) : g[i] = x
  BY <1>0, Zenon DEF Embeds
<1>3. Range(b) \subseteq S /\ Range(q) \subseteq S /\ T \subseteq S  OBVIOUS
<1> HIDE DEF S
<1>4. b \in Seq(S) /\ s \in Seq(S) /\ q \in Seq(S) /\ Len(s) \in Nat
  BY <1>1, <1>3, SeqMonotonic
<1>5. PICK c : c = b \o s  OBVIOUS
<1>6. PICK r : r = q \o s  OBVIOUS
<1>7. /\ c \in Seq(S) /\ Len(c) = Len(b) + Len(s)
      /\ \A i \in 1 .. Len(b) + Len(s) : c[i] = IF i <= Len(b) THEN b[i] ELSE s[i - Len(b)]
  BY <1>4, <1>5, ConcatProperties
<1>8. /\ r \in Seq(S) /\ Len(r) = Len(q) + Len(s)
      /\ \A i \in 1 .. Len(q) + Len(s) : r[i] = IF i <= Len(q) THEN q[i] ELSE s[i - Len(q)]
  BY <1>4, <1>6, ConcatProperties
<1>9. PICK h : h = [i \in 1 .. Len(r) |-> IF i <= Len(q) THEN g[i] ELSE Len(b) + (i - Len(q))]
  OBVIOUS
<1>10. ASSUME NEW i \in 1 .. Len(r)
       PROVE  \/ i \in 1 .. Len(q) /\ h[i] = g[i] /\ g[i] \in 1 .. Len(b) /\ r[i] = q[i]
              \/ /\ i > Len(q) /\ i - Len(q) \in 1 .. Len(s) /\ h[i] = Len(b) + (i - Len(q))
                 /\ r[i] = s[i - Len(q)]
  <2>1. CASE i <= Len(q)
    <3>1. i \in 1 .. Len(q)  BY <2>1, <1>1, <1>4, <1>8
    <3>2. i \in 1 .. Len(q) + Len(s)  BY <1>8
    <3>3. h[i] = g[i]  BY <1>9, <2>1
    <3>4. r[i] = q[i]  BY <3>2, <2>1, <1>8
    <3> QED BY <3>1, <3>3, <3>4
  <2>2. CASE ~ (i <= Len(q))
    <3>1. i > Len(q) /\ i - Len(q) \in 1 .. Len(s)  BY <2>2, <1>1, <1>4, <1>8
    <3>2. i \in 1 .. Len(q) + Len(s)  BY <1>8
    <3>3. h[i] = Len(b) + (i - Len(q))  BY <1>9, <2>2
    <3>4. r[i] = s[i - Len(q)]  BY <3>2, <2>2, <1>8
    <3> QED BY <3>1, <3>3, <3>4
  <2> QED BY <2>1, <2>2
<1>11. h \in [1 .. Len(r) -> 1 .. Len(c)]
  <2>1. ASSUME NEW i \in 1 .. Len(r) PROVE h[i] \in 1 .. Len(c)
    <3>1. \/ h[i] = g[i] /\ g[i] \in 1 .. Len(b)
          \/ i - Len(q) \in 1 .. Len(s) /\ h[i] = Len(b) + (i - Len(q))
      BY <1>10
    <3> QED BY <3>1, <1>1, <1>4, <1>7
  <2> QED BY <2>1, <1>9
<1>12. ASSUME NEW i \in 1 .. Len(r), NEW j \in 1 .. Len(r), i < j PROVE h[i] < h[j]
  <2>1. \/ i \in 1 .. Len(q) /\ h[i] = g[i] /\ g[i] \in 1 .. Len(b)
        \/ i > Len(q) /\ i - Len(q) \in 1 .. Len(s) /\ h[i] = Len(b) + (i - Len(q))
    BY <1>10
  <2>2. \/ j \in 1 .. Len(q) /\ h[j] = g[j] /\ g[j] \in 1 .. Len(b)
        \/ j > Len(q) /\ j - Len(q) \in 1 .. Len(s) /\ h[j] = Len(b) + (j - Len(q))
    BY <1>10
  <2> QED BY <2>1, <2>2, <1>1, <1>2, <1>4, <1>12
<1>13. ASSUME NEW i \in 1 .. Len(r) PROVE c[h[i]] = r[i]
  <2>1. CASE i \in 1 .. Len(q) /\ h[i] = g[i] /\ g[i] \in 1 .. Len(b) /\ r[i] = q[i]
    <3>1. g[i] \in 1 .. Len(b) + Len(s) /\ g[i] <= Len(b)  BY <2>1, <1>1, <1>4
    <3> QED BY <3>1, <2>1, <1>2, <1>7
  <2>2. CASE /\ i > Len(q) /\ i - Len(q) \in 1 .. Len(s) /\ h[i] = Len(b) + (i - Len(q))
             /\ r[i] = s[i - Len(q)]
    <3>1. PICK k : k = h[i]  OBVIOUS
    <3>2. k \in 1 .. Len(b) + Len(s) /\ ~ (k <= Len(b)) /\ k - Len(b) = i - Len(q)
      BY <3>1, <2>2, <1>1, <1>4
    <3>3. c[k] = s[k - Len(b)]  BY <3>2, <1>7
    <3> QED BY <3>1, <3>2, <3>3, <2>2
  <2> QED BY <2>1, <2>2, <1>10
<1>14. ASSUME NEW x \in 1 .. Len(c)
       PROVE  ~ IsFragment(c[x]) <=> \E i \in 1 .. Len(r) : h[i] = x
  <2>1. CASE x <= Len(b)
    <3>1. x \in 1 .. Len(b) /\ c[x] = b[x]  BY <2>1, <1>1, <1>4, <1>7
    <3>2. ~ IsFragment(c[x]) <=> \E i \in 1 .. Len(q) : g[i] = x  BY <3>1, <1>2, Zenon
    <3>3. ASSUME NEW i \in 1 .. Len(q) PROVE i \in 1 .. Len(r) /\ h[i] = g[i]
      <4>1. i \in 1 .. Len(r) /\ i <= Len(q)  BY <1>1, <1>4, <1>8
      <4> QED BY <4>1, <1>9
    <3>4. ASSUME NEW i \in 1 .. Len(r), h[i] = x PROVE i \in 1 .. Len(q) /\ g[i] = x
      <4>1. \/ i \in 1 .. Len(q) /\ h[i] = g[i]
            \/ i - Len(q) \in 1 .. Len(s) /\ h[i] = Len(b) + (i - Len(q))
        BY <1>10
      <4> QED BY <4>1, <3>4, <2>1, <1>1, <1>4
    <3> QED BY <3>2, <3>3, <3>4, Zenon
  <2>2. CASE ~ (x <= Len(b))
    <3>1. x - Len(b) \in 1 .. Len(s) /\ c[x] = s[x - Len(b)]  BY <2>2, <1>1, <1>4, <1>7
    <3>2. ~ IsFragment(c[x])  BY <3>1, Zenon
    <3>3. PICK i : i = x - Len(b) + Len(q)  OBVIOUS
    <3>4. i \in 1 .. Len(r) /\ ~ (i <= Len(q)) /\ Len(b) + (i - Len(q)) = x
      BY <3>1, <3>3, <1>1, <1>4, <1>8
    <3>5. h[i] = x  BY <3>4, <1>9
    <3> QED BY <3>2, <3>4, <3>5
  <2> QED BY <2>1, <2>2
<1>16. Embeds(h, c, r)  BY <1>12, <1>13, <1>14, Zenon DEF Embeds
<1>15. Waiting(c, r)  BY <1>7, <1>8, <1>11, <1>16, Arranged
<1> QED BY <1>5, <1>6, <1>15

\* A fragment goes: mail y is taken out of b.
LEMMA FragmentGoes ==
  ASSUME NEW b, NEW q, Waiting(b, q), NEW y \in 1 .. Len(b), IsFragment(b[y]),
         NEW S, NEW c \in Seq(S), Len(c) = Len(b) - 1,
         \A i \in 1 .. Len(c) : c[i] = b[IF i < y THEN i ELSE i + 1]
  PROVE  Waiting(c, q)
<1> DEFINE U == S \union Range(q)
<1>1. /\ b \in Seq(Range(b)) /\ q \in Seq(Range(q)) /\ Len(b) \in Nat /\ Len(q) \in Nat
  BY Arrangement
<1>0. PICK g \in [1 .. Len(q) -> 1 .. Len(b)] : Embeds(g, b, q)
  BY Arrangement
<1>2. /\ \A i, j \in 1 .. Len(q) : i < j => g[i] < g[j]
      /\ \A i \in 1 .. Len(q) : b[g[i]] = q[i]
      /\ \A x \in 1 .. Len(b) : ~ IsFragment(b[x]) <=> \E i \in 1 .. Len(q) : g[i] = x
  BY <1>0, Zenon DEF Embeds
<1>3. S \subseteq U /\ Range(q) \subseteq U  OBVIOUS
<1> HIDE DEF U
<1>4. c \in Seq(U) /\ q \in Seq(U)  BY <1>1, <1>3, SeqMonotonic
<1>5. PICK h : h = [i \in 1 .. Len(q) |-> IF g[i] < y THEN g[i] ELSE g[i] - 1]  OBVIOUS
<1>6. ASSUME NEW i \in 1 .. Len(q)
      PROVE  /\ g[i] \in 1 .. Len(b) /\ g[i] # y /\ h[i] = IF g[i] < y THEN g[i] ELSE g[i] - 1
             /\ h[i] \in 1 .. Len(c) /\ (IF h[i] < y THEN h[i] ELSE h[i] + 1) = g[i]
  <2>1. g[i] \in 1 .. Len(b) /\ h[i] = IF g[i] < y THEN g[i] ELSE g[i] - 1  BY <1>5
  <2>2. g[i] # y  BY <1>2, Zenon
  <2> QED BY <2>1, <2>2, <1>1
<1>7. h \in [1 .. Len(q) -> 1 .. Len(c)]  BY <1>5, <1>6
<1>8. ASSUME NEW i \in 1 .. Len(q), NEW j \in 1 .. Len(q), i < j PROVE h[i] < h[j]
  <2>1. g[i] < g[j]  BY <1>2, <1>8
  <2>2. /\ g[i] \in 1 .. Len(b) /\ g[i] # y /\ h[i] = IF g[i] < y THEN g[i] ELSE g[i] - 1
        /\ g[j] \in 1 .. Len(b) /\ g[j] # y /\ h[j] = IF g[j] < y THEN g[j] ELSE g[j] - 1
    BY <1>6
  <2> QED BY <2>1, <2>2
<1>9. ASSUME NEW i \in 1 .. Len(q) PROVE c[h[i]] = q[i]
  <2>1. h[i] \in 1 .. Len(c) /\ (IF h[i] < y THEN h[i] ELSE h[i] + 1) = g[i]  BY <1>6
  <2>2. c[h[i]] = b[IF h[i] < y THEN h[i] ELSE h[i] + 1]  BY <2>1
  <2>3. c[h[i]] = b[g[i]]  BY <2>1, <2>2
  <2> QED BY <2>3, <1>2, Zenon
<1>10. ASSUME NEW x \in 1 .. Len(c)
       PROVE  ~ IsFragment(c[x]) <=> \E i \in 1 .. Len(q) : h[i] = x
  <2>1. PICK z : z = IF x < y THEN x ELSE x + 1  OBVIOUS
  <2>2. z \in 1 .. Len(b) /\ c[x] = b[z]
    <3>1. PICK n : n = Len(b)  OBVIOUS
    <3>2. n \in Nat /\ y \in 1 .. n /\ x \in 1 .. n - 1  BY <3>1, <1>1
    <3>3. z \in 1 .. n  BY <3>2, <2>1
    <3>4. c[x] = b[IF x < y THEN x ELSE x + 1]  OBVIOUS
    <3> QED BY <3>1, <3>3, <3>4, <2>1
  <2>3. ~ IsFragment(c[x]) <=> \E i \in 1 .. Len(q) : g[i] = z  BY <2>2, <1>2, Zenon
  <2>4. ASSUME NEW i \in 1 .. Len(q) PROVE g[i] = z <=> h[i] = x
    <3>1. /\ g[i] \in 1 .. Len(b) /\ g[i] # y /\ h[i] = IF g[i] < y THEN g[i] ELSE g[i] - 1
      BY <1>6
    <3>2. PICK v : v = g[i]  OBVIOUS
    <3>3. v \in Nat /\ x \in Nat /\ y \in Nat /\ v # y  BY <3>1, <3>2, <1>1
    <3>4. h[i] = IF v < y THEN v ELSE v - 1  BY <3>1, <3>2
    <3>5. v = z <=> (IF v < y THEN v ELSE v - 1) = x  BY <3>3, <2>1
    <3> QED BY <3>2, <3>4, <3>5
  <2> QED BY <2>3, <2>4, Zenon
<1>11. Embeds(h, c, q)  BY <1>8, <1>9, <1>10, Zenon DEF Embeds
<1> QED BY <1>4, <1>7, <1>11, Arranged

\* The oldest mail is read.
LEMMA MailGoes ==
  ASSUME NEW b, NEW q, Waiting(b, q), b # <<>>
  PROVE  /\ IsFragment(Head(b)) => Waiting(Tail(b), q)
         /\ ~ IsFragment(Head(b)) =>
              q # <<>> /\ Head(b) = q[1] /\ Waiting(Tail(b), Tail(q))
<1> DEFINE S == Range(b) \union Range(q)
<1>1. /\ b \in Seq(Range(b)) /\ q \in Seq(Range(q)) /\ Len(b) \in Nat /\ Len(q) \in Nat
  BY Arrangement
<1>0. PICK g \in [1 .. Len(q) -> 1 .. Len(b)] : Embeds(g, b, q)
  BY Arrangement
<1>2. /\ \A i, j \in 1 .. Len(q) : i < j => g[i] < g[j]
      /\ \A i \in 1 .. Len(q) : b[g[i]] = q[i]
      /\ \A x \in 1 .. Len(b) : ~ IsFragment(b[x]) <=> \E i \in 1 .. Len(q) : g[i] = x
  BY <1>0, Zenon DEF Embeds
<1>3. Range(b) \subseteq S /\ Range(q) \subseteq S  OBVIOUS
<1> HIDE DEF S
<1>4. b \in Seq(S) /\ q \in Seq(S)  BY <1>1, <1>3, SeqMonotonic
<1>5. PICK c : c = Tail(b)  OBVIOUS
<1>6. /\ c \in Seq(S) /\ Len(c) = Len(b) - 1 /\ Len(b) > 0
      /\ \A i \in 1 .. Len(c) : c[i] = b[i + 1]
  <2>1. /\ Tail(b) \in Seq(S) /\ Len(Tail(b)) = Len(b) - 1
        /\ \A i \in 1 .. Len(Tail(b)) : Tail(b)[i] = b[i + 1]
    BY <1>4, HeadTailProperties
  <2>2. Len(b) > 0  BY <1>1, <1>4, EmptySeq
  <2> QED BY <1>5, <2>1, <2>2
<1>7. Head(b) = b[1] /\ 1 \in 1 .. Len(b)  BY <1>1, <1>4, <1>6
<1>8. ASSUME IsFragment(Head(b)) PROVE Waiting(c, q)
  <2>1. IsFragment(b[1])  BY <1>7, <1>8, Zenon
  <2>2. \A i \in 1 .. Len(c) : c[i] = b[IF i < 1 THEN i ELSE i + 1]  BY <1>6
  <2> QED BY <2>1, <2>2, <1>6, <1>7, FragmentGoes
<1>9. ASSUME ~ IsFragment(Head(b)) PROVE q # <<>> /\ Head(b) = q[1] /\ Waiting(c, Tail(q))
  <2>1. PICK j \in 1 .. Len(q) : g[j] = 1  BY <1>2, <1>7, <1>9, Zenon
  <2>2. 1 \in 1 .. Len(q) /\ Len(q) > 0  BY <1>1
  <2>3. j = 1
    <3>1. g[1] \in 1 .. Len(b)  BY <2>2
    <3>2. 1 < j => g[1] < g[j]  BY <1>2, <2>2
    <3> QED BY <2>1, <3>1, <3>2, <1>1
  <2>4. g[1] = 1 /\ Head(b) = q[1]  BY <2>1, <2>2, <2>3, <1>2, <1>7
  <2>5. q # <<>>  BY <2>2, <1>4, EmptySeq
  <2>6. PICK r : r = Tail(q)  OBVIOUS
  <2>7. /\ r \in Seq(S) /\ Len(r) = Len(q) - 1
        /\ \A i \in 1 .. Len(r) : r[i] = q[i + 1]
    BY <2>5, <2>6, <1>4, HeadTailProperties
  <2>8. PICK h : h = [i \in 1 .. Len(r) |-> g[i + 1] - 1]  OBVIOUS
  <2>9. ASSUME NEW i \in 1 .. Len(r)
        PROVE  /\ i + 1 \in 1 .. Len(q) /\ h[i] = g[i + 1] - 1 /\ g[i + 1] \in 1 .. Len(b)
               /\ h[i] \in 1 .. Len(c) /\ h[i] + 1 = g[i + 1]
    <3>1. i + 1 \in 1 .. Len(q) /\ 1 < i + 1  BY <2>7, <1>1
    <3>2. h[i] = g[i + 1] - 1  BY <2>8
    <3>3. g[i + 1] \in 1 .. Len(b)  BY <3>1
    <3>4. 1 < g[i + 1]  BY <3>1, <2>2, <2>4, <1>2
    <3>5. PICK v : v = g[i + 1]  OBVIOUS
    <3>6. v \in 1 .. Len(b) /\ 1 < v  BY <3>3, <3>4, <3>5, Zenon
    <3>7. v - 1 \in 1 .. Len(c) /\ (v - 1) + 1 = v
      <4>1. Len(c) = Len(b) - 1  BY <1>6
      <4> QED BY <3>6, <4>1, <1>1
    <3>8. h[i] = v - 1  BY <3>2, <3>5, Zenon
    <3>9. h[i] \in 1 .. Len(c) /\ h[i] + 1 = v  BY <3>7, <3>8, Zenon
    <3> QED BY <3>1, <3>2, <3>3, <3>5, <3>9, Zenon
  <2>10. h \in [1 .. Len(r) -> 1 .. Len(c)]  BY <2>8, <2>9
  <2>11. ASSUME NEW i \in 1 .. Len(r), NEW k \in 1 .. Len(r), i < k PROVE h[i] < h[k]
    <3>1. /\ i + 1 \in 1 .. Len(q) /\ h[i] = g[i + 1] - 1 /\ g[i + 1] \in 1 .. Len(b)
          /\ k + 1 \in 1 .. Len(q) /\ h[k] = g[k + 1] - 1 /\ g[k + 1] \in 1 .. Len(b)
      BY <2>9
    <3>2. i + 1 < k + 1  BY <2>11
    <3>3. g[i + 1] < g[k + 1]  BY <3>1, <3>2, <1>2
    <3> QED BY <3>1, <3>3
  <2>12. ASSUME NEW i \in 1 .. Len(r) PROVE c[h[i]] = r[i]
    <3>1. /\ i + 1 \in 1 .. Len(q) /\ h[i] \in 1 .. Len(c) /\ h[i] + 1 = g[i + 1]  BY <2>9
    <3>2. c[h[i]] = b[h[i] + 1]  BY <3>1, <1>6
    <3>3. c[h[i]] = b[g[i + 1]]  BY <3>1, <3>2
    <3>4. b[g[i + 1]] = q[i + 1]  BY <3>1, <1>2
    <3>5. r[i] = q[i + 1]  BY <2>7
    <3> QED BY <3>3, <3>4, <3>5
  <2>13. ASSUME NEW x \in 1 .. Len(c)
         PROVE  ~ IsFragment(c[x]) <=> \E i \in 1 .. Len(r) : h[i] = x
    <3>1. x + 1 \in 1 .. Len(b) /\ c[x] = b[x + 1]  BY <1>1, <1>6
    <3>2. ~ IsFragment(c[x]) <=> \E i \in 1 .. Len(q) : g[i] = x + 1
      BY <3>1, <1>2, Zenon
    <3>3. ASSUME NEW i \in 1 .. Len(r), h[i] = x
          PROVE  i + 1 \in 1 .. Len(q) /\ g[i + 1] = x + 1
      <4>1. i + 1 \in 1 .. Len(q) /\ h[i] + 1 = g[i + 1]  BY <2>9
      <4> QED BY <4>1, <3>3
    <3>4. ASSUME NEW i \in 1 .. Len(q), g[i] = x + 1
          PROVE  i - 1 \in 1 .. Len(r) /\ h[i - 1] = x
      <4>1. i # 1  BY <3>4, <2>4
      <4>2. i - 1 \in 1 .. Len(r) /\ (i - 1) + 1 = i  BY <4>1, <2>7, <1>1
      <4>3. h[i - 1] + 1 = g[(i - 1) + 1] /\ h[i - 1] \in 1 .. Len(c)  BY <4>2, <2>9
      <4>4. h[i - 1] + 1 = x + 1  BY <4>2, <4>3, <3>4
      <4> QED BY <4>2, <4>3, <4>4
    <3>5. (\E i \in 1 .. Len(r) : h[i] = x) <=> (\E i \in 1 .. Len(q) : g[i] = x + 1)
      BY <3>3, <3>4, Zenon
    <3> QED BY <3>2, <3>5
  <2>15. Embeds(h, c, r)  BY <2>11, <2>12, <2>13, Zenon DEF Embeds
  <2>14. Waiting(c, r)  BY <1>6, <2>7, <2>10, <2>15, Arranged
  <2> QED BY <2>4, <2>5, <2>6, <2>14
<1> QED BY <1>5, <1>8, <1>9

\* A fragment is lost.
LEMMA FragmentLeaves ==
  ASSUME NEW b, NEW q, Waiting(b, q), NEW y \in DOMAIN b, IsFragment(b[y])
  PROVE  Waiting(RemoveAt(b, y), q)
<1> DEFINE S == Range(b)
           head == SubSeq(b, 1, y - 1)
           s == SubSeq(b, y + 1, Len(b))
<1>1. b \in Seq(S)  BY Zenon DEF Waiting
<1> HIDE DEF S
<1>2. Len(b) \in Nat /\ DOMAIN b = 1 .. Len(b) /\ y \in 1 .. Len(b)
  BY <1>1, LenProperties
<1>3. /\ head \in Seq(S) /\ Len(head) = y - 1 /\ \A i \in 1 .. y - 1 : head[i] = b[i]
  <2>1. 1 \in Int /\ y - 1 \in Int /\ \A i \in 1 .. y - 1 : b[i] \in S
    BY <1>1, <1>2
  <2>2. /\ SubSeq(b, 1, y - 1) \in Seq(S)
        /\ Len(SubSeq(b, 1, y - 1)) = IF 1 <= y - 1 THEN y - 1 - 1 + 1 ELSE 0
        /\ \A i \in 1 .. y - 1 - 1 + 1 : SubSeq(b, 1, y - 1)[i] = b[1 + i - 1]
    BY <2>1, SubSeqProperties
  <2> QED BY <2>2, <1>2
<1>4. /\ s \in Seq(S) /\ Len(s) = Len(b) - y /\ \A i \in 1 .. Len(b) - y : s[i] = b[y + i]
  <2>1. y + 1 \in Int /\ Len(b) \in Int /\ \A i \in y + 1 .. Len(b) : b[i] \in S
    BY <1>1, <1>2
  <2>2. /\ SubSeq(b, y + 1, Len(b)) \in Seq(S)
        /\ Len(SubSeq(b, y + 1, Len(b))) = IF y + 1 <= Len(b) THEN Len(b) - (y + 1) + 1 ELSE 0
        /\ \A i \in 1 .. Len(b) - (y + 1) + 1 : SubSeq(b, y + 1, Len(b))[i] = b[y + 1 + i - 1]
    BY <2>1, SubSeqProperties
  <2> QED BY <2>2, <1>2
<1>5. PICK c : c = head \o s  OBVIOUS
<1>6. RemoveAt(b, y) = c  BY <1>5 DEF RemoveAt
<1> HIDE DEF head, s
<1>7. /\ c \in Seq(S) /\ Len(c) = Len(head) + Len(s)
      /\ \A i \in 1 .. Len(head) + Len(s) :
           c[i] = IF i <= Len(head) THEN head[i] ELSE s[i - Len(head)]
  BY <1>3, <1>4, <1>5, ConcatProperties
<1>8. Len(c) = Len(b) - 1  BY <1>2, <1>3, <1>4, <1>7
<1>9. ASSUME NEW i \in 1 .. Len(c) PROVE c[i] = b[IF i < y THEN i ELSE i + 1]
  <2>1. c[i] = IF i <= Len(head) THEN head[i] ELSE s[i - Len(head)]  BY <1>7
  <2>2. CASE i < y
    <3>1. i <= Len(head) /\ i \in 1 .. y - 1  BY <2>2, <1>2, <1>3
    <3> QED BY <2>1, <2>2, <3>1, <1>3
  <2>3. CASE ~ (i < y)
    <3>1. /\ ~ (i <= Len(head))
          /\ i - Len(head) \in 1 .. Len(b) - y /\ y + (i - Len(head)) = i + 1
      BY <2>3, <1>2, <1>3, <1>8
    <3>2. c[i] = b[y + (i - Len(head))]  BY <3>1, <2>1, <1>4
    <3> QED BY <3>1, <3>2, <2>3
  <2> QED BY <2>2, <2>3
<1> QED BY <1>2, <1>6, <1>7, <1>8, <1>9, FragmentGoes
-----------------------------------------------------------------------------
(* Calls begin.                                                            *)

JobIs(j) ==
  /\ j.kind \in {"write", "soe_write", "rxpdo", "set_ip", "eoe_send"} => j.data \in Text
  /\ j.kind \in {"read", "write", "description", "entries"} => j.idx \in Indexes
  /\ j.kind \in {"soe_read", "soe_write"} => j.idx \in Idns
  /\ j.kind = "soe_read" => j.psize \in Nat
  /\ j.kind = "eoe_send" => j.idx = "frame"

Started(j, q) ==
  /\ Begin(j, q) /\ q \in Requests /\ (q.cmd = "eoe" => j.kind = "eoe_send")
  /\ JobIs(j) /\ rest' \in Text /\ j.kind # "eoe_recv"

LEMMA OctetsOf ==
  ASSUME calls \in Nat, NEW n \in Nat
  PROVE  Octets(calls + 1, n) \in Text /\ Len(Octets(calls + 1, n)) = n
<1>1. calls + 1 \in Nat  OBVIOUS
<1>2. Octets(calls + 1, n) \in Text  BY <1>1, OctetsAreText
<1>3. Octets(calls + 1, n) = [i \in 1 .. n |-> <<calls + 1, i>>]  BY Zenon DEF Octets
<1>4. DOMAIN Octets(calls + 1, n) = 1 .. n  BY <1>3
<1>5. Len(Octets(calls + 1, n)) = n
  <2>1. PICK d : d = Octets(calls + 1, n)  OBVIOUS
  <2>2. d \in Seq(Octet) /\ DOMAIN d = 1 .. n  BY <1>2, <1>4, <2>1 DEF Text
  <2>3. Len(d) = n  BY <2>2, LenProperties
  <2> QED BY <2>1, <2>3
<1> QED BY <1>2, <1>5

LEMMA ReadStarts ==
  ASSUME calls \in Nat, ecx_SDOread
  PROVE  FirstRequest' /\ \E j, q : Started(j, q)
<1>1. PICK i \in Indexes, n \in Sizes :
        /\ Begin([kind |-> "read", idx |-> i, psize |-> n], [cmd |-> "upload", idx |-> i])
        /\ rest' = <<>>
  BY Zenon DEF ecx_SDOread
<1>2. PICK j : j = [kind |-> "read", idx |-> i, psize |-> n]  OBVIOUS
<1>3. PICK q : q = [cmd |-> "upload", idx |-> i]  OBVIOUS
<1>4. Begin(j, q) /\ job' = j /\ MbxOut' = q  BY <1>1, <1>2, <1>3, Zenon DEF Begin
<1>5. q \in Requests /\ q.cmd # "eoe" /\ j.kind # "eoe_recv"
  <2>1. q \in Requests  BY <1>3, RequestNew, Zenon
  <2> QED BY <2>1, <1>2, <1>3
<1>6. JobIs(j)  BY <1>2 DEF JobIs
<1>7. rest' \in Text  BY <1>1 DEF Text
<1>8. FirstRequest'  BY <1>2, <1>3, <1>4 DEF FirstRequest
<1> QED BY <1>4, <1>5, <1>6, <1>7, <1>8, Zenon DEF Started

LEMMA WriteStarts ==
  ASSUME calls \in Nat, ecx_SDOwrite
  PROVE  FirstRequest' /\ \E j, q : Started(j, q)
<1>1. PICK i \in Indexes, n \in Sizes :
        LET d == Octets(calls + 1, n)
            first == IF n <= Expedited THEN d ELSE Take(d, MailData)
        IN  /\ Begin([kind |-> "write", idx |-> i, data |-> d],
                     [cmd |-> "download", idx |-> i, size |-> n, data |-> first])
            /\ rest' = Skip(d, Len(first))
  BY Zenon DEF ecx_SDOwrite
<1>2. PICK d : d = Octets(calls + 1, n)  OBVIOUS
<1>3. PICK first : first = IF n <= Expedited THEN d ELSE Take(d, MailData)  OBVIOUS
<1>4. PICK j : j = [kind |-> "write", idx |-> i, data |-> d]  OBVIOUS
<1>5. PICK q : q = [cmd |-> "download", idx |-> i, size |-> n, data |-> first]  OBVIOUS
<1>6. /\ Begin(j, q) /\ job' = j /\ MbxOut' = q /\ rest' = Skip(d, Len(first))
  <2>1. Begin(j, q) /\ rest' = Skip(d, Len(first))  BY <1>1, <1>2, <1>3, <1>4, <1>5
  <2> QED BY <2>1, Zenon DEF Begin
<1>7. n \in Nat /\ d \in Text /\ Len(d) = n  BY <1>2, Parameters, OctetsOf
<1>8. MailData \in Nat  BY Parameters
<1>9. first \in Text /\ Len(first) \in Nat /\ first = Take(d, Len(first))
  <2>1. Take(d, MailData) \in Text /\ d \in Seq(Octet)  BY <1>7, <1>8, TextIs DEF Text
  <2>2. Take(d, Len(d)) = d  BY <1>7, <2>1, TakeAll
  <2>3. CASE first = d  BY <1>7, <2>2, <2>3
  <2>4. CASE first = Take(d, MailData)
    <3>1. Len(first) = IF MailData < Len(d) THEN MailData ELSE Len(d)
      BY <1>8, <2>1, <2>4, Pieces, Zenon
    <3>2. CASE MailData < Len(d)  BY <1>8, <2>1, <2>4, <3>1, <3>2
    <3>3. CASE ~ (MailData < Len(d))
      <4>1. Len(d) <= MailData  BY <1>7, <1>8, <3>3
      <4>2. first = d  BY <1>8, <2>1, <2>4, <4>1, TakeAll
      <4> QED BY <1>7, <2>2, <4>2
    <3> QED BY <3>2, <3>3
  <2> QED BY <1>3, <2>3, <2>4
<1>10. rest' \in Text  BY <1>6, <1>7, <1>9, TextIs
<1>11. first \o rest' = d
  <2>1. d \in Seq(Octet)  BY <1>7 DEF Text
  <2>2. Take(d, Len(first)) \o Skip(d, Len(first)) = d  BY <1>9, <2>1, Rejoined
  <2> QED BY <1>6, <1>9, <2>2
<1>12. q \in Requests /\ q.cmd # "eoe" /\ j.kind # "eoe_recv"
  <2>1. q \in Requests  BY <1>5, <1>7, <1>9, RequestNew, Zenon
  <2> QED BY <2>1, <1>4, <1>5
<1>13. JobIs(j)  BY <1>4, <1>7 DEF JobIs
<1>14. FirstRequest'
  <2>1. /\ q = [cmd |-> "download", idx |-> j.idx, size |-> Len(j.data), data |-> q.data]
        /\ q.data \o rest' = j.data /\ j.kind = "write"
    BY <1>4, <1>5, <1>7, <1>11
  <2> QED BY <1>6, <2>1 DEF FirstRequest
<1> QED BY <1>6, <1>10, <1>12, <1>13, <1>14, Zenon DEF Started

LEMMA InfoStarts ==
  ASSUME calls \in Nat, InfoStart
  PROVE  FirstRequest' /\ at' = "drain" /\ \E j, q : Started(j, q)
<1>1. ASSUME NEW j, NEW q, InfoBegin(j, q), q \in Requests, q.cmd # "eoe", JobIs(j),
             j.kind # "eoe_recv", (job' = j /\ MbxOut' = q) => FirstRequest'
      PROVE  FirstRequest' /\ at' = "drain" /\ \E jj, qq : Started(jj, qq)
  <2>1. Begin(j, q) /\ rest' = <<>> /\ job' = j /\ MbxOut' = q /\ at' = "drain"
    BY <1>1, Zenon DEF InfoBegin, Begin
  <2>2. rest' \in Text  BY <2>1 DEF Text
  <2> QED BY <1>1, <2>1, <2>2, Zenon DEF Started
<1>2. CASE ecx_RxPDO
  <2>1. PICK n \in Sizes :
          InfoBegin([kind |-> "rxpdo", idx |-> "rxpdo", data |-> Octets(calls + 1, n)],
                    [cmd |-> "rxpdo", data |-> Take(Octets(calls + 1, n), PdoData)])
    BY <1>2, Zenon DEF ecx_RxPDO
  <2>2. PICK d : d = Octets(calls + 1, n)  OBVIOUS
  <2>3. PICK e : e = Take(d, PdoData)  OBVIOUS
  <2>4. d \in Text  BY <2>2, Parameters, OctetsOf
  <2>5. PdoData \in Int  BY Parameters DEF PdoData
  <2>6. e \in Text  BY <2>3, <2>4, <2>5, TextIs
  <2>7. PICK j : j = [kind |-> "rxpdo", idx |-> "rxpdo", data |-> d]  OBVIOUS
  <2>8. PICK q : q = [cmd |-> "rxpdo", data |-> e]  OBVIOUS
  <2>9. InfoBegin(j, q)  BY <2>1, <2>2, <2>3, <2>7, <2>8
  <2>10. q \in Requests  BY <2>6, <2>8, RequestNew
  <2>11. q.cmd # "eoe" /\ j.kind # "eoe_recv" /\ JobIs(j)  BY <2>4, <2>7, <2>8 DEF JobIs
  <2>12. (job' = j /\ MbxOut' = q) => FirstRequest'
    <3>1. q = [cmd |-> "rxpdo", data |-> Take(j.data, PdoData)] /\ j.kind = "rxpdo"
      BY <2>3, <2>7, <2>8
    <3> QED BY <3>1 DEF FirstRequest
  <2> QED BY <1>1, <2>9, <2>10, <2>11, <2>12, Zenon
<1>3. CASE ecx_TxPDO
  <2>1. PICK n \in Sizes :
          InfoBegin([kind |-> "txpdo", idx |-> "txpdo", psize |-> n], [cmd |-> "get_txpdo"])
    BY <1>3, Zenon DEF ecx_TxPDO
  <2>2. PICK j : j = [kind |-> "txpdo", idx |-> "txpdo", psize |-> n]  OBVIOUS
  <2>3. PICK q : q = [cmd |-> "get_txpdo"]  OBVIOUS
  <2>4. q \in Requests  BY <2>3, RequestNew
  <2>5. q.cmd # "eoe" /\ j.kind # "eoe_recv" /\ JobIs(j)  BY <2>2, <2>3 DEF JobIs
  <2>6. (job' = j /\ MbxOut' = q) => FirstRequest'  BY <2>2, <2>3 DEF FirstRequest
  <2> QED BY <1>1, <2>1, <2>2, <2>3, <2>4, <2>5, <2>6, Zenon
<1>4. CASE ecx_readODlist
  <2>1. InfoBegin([kind |-> "list", idx |-> "list"], [cmd |-> "get_list"])
    BY <1>4, Zenon DEF ecx_readODlist
  <2>2. PICK j : j = [kind |-> "list", idx |-> "list"]  OBVIOUS
  <2>3. PICK q : q = [cmd |-> "get_list"]  OBVIOUS
  <2>4. q \in Requests  BY <2>3, RequestNew
  <2>5. q.cmd # "eoe" /\ j.kind # "eoe_recv" /\ JobIs(j)  BY <2>2, <2>3 DEF JobIs
  <2>6. (job' = j /\ MbxOut' = q) => FirstRequest'  BY <2>2, <2>3 DEF FirstRequest
  <2> QED BY <1>1, <2>1, <2>2, <2>3, <2>4, <2>5, <2>6, Zenon
<1>5. CASE ecx_readODdescription
  <2>1. PICK i \in Indexes :
          InfoBegin([kind |-> "description", idx |-> i], [cmd |-> "get_description", idx |-> i])
    BY <1>5, Zenon DEF ecx_readODdescription
  <2>2. PICK j : j = [kind |-> "description", idx |-> i]  OBVIOUS
  <2>3. PICK q : q = [cmd |-> "get_description", idx |-> i]  OBVIOUS
  <2>4. q \in Requests  BY <2>3, RequestNew
  <2>5. q.cmd # "eoe" /\ j.kind # "eoe_recv" /\ JobIs(j)  BY <2>2, <2>3 DEF JobIs
  <2>6. (job' = j /\ MbxOut' = q) => FirstRequest'  BY <2>2, <2>3 DEF FirstRequest
  <2> QED BY <1>1, <2>1, <2>2, <2>3, <2>4, <2>5, <2>6, Zenon
<1>6. CASE ecx_readOE
  <2>1. PICK i \in Indexes :
          InfoBegin([kind |-> "entries", idx |-> i], [cmd |-> "get_entry", idx |-> i, sub |-> 0])
    BY <1>6, Zenon DEF ecx_readOE
  <2>2. PICK j : j = [kind |-> "entries", idx |-> i]  OBVIOUS
  <2>3. PICK q : q = [cmd |-> "get_entry", idx |-> i, sub |-> 0]  OBVIOUS
  <2>4. q \in Requests  BY <2>3, RequestNew
  <2>5. q.cmd # "eoe" /\ j.kind # "eoe_recv" /\ JobIs(j)  BY <2>2, <2>3 DEF JobIs
  <2>6. (job' = j /\ MbxOut' = q) => FirstRequest'  BY <2>2, <2>3 DEF FirstRequest
  <2> QED BY <1>1, <2>1, <2>2, <2>3, <2>4, <2>5, <2>6, Zenon
<1> QED BY <1>2, <1>3, <1>4, <1>5, <1>6, Zenon DEF InfoStart

LEMMA SoeStarts ==
  ASSUME calls \in Nat, SoeBegin
  PROVE  FirstRequest' /\ at' = "drain" /\ \E j, q : Started(j, q)
<1>1. CASE ecx_SoEread
  <2>1. PICK i \in Idns, n \in Sizes :
          /\ Begin([kind |-> "soe_read", idx |-> i, psize |-> n],
                   [cmd |-> "soe_readreq", idn |-> i])
          /\ rest' = <<>> /\ at' = "drain"
    BY <1>1, Zenon DEF ecx_SoEread
  <2>2. PICK j : j = [kind |-> "soe_read", idx |-> i, psize |-> n]  OBVIOUS
  <2>3. PICK q : q = [cmd |-> "soe_readreq", idn |-> i]  OBVIOUS
  <2>4. Begin(j, q) /\ job' = j /\ MbxOut' = q  BY <2>1, <2>2, <2>3, Zenon DEF Begin
  <2>5. q \in Requests  BY <2>3, RequestNew
  <2>6. n \in Nat  BY Parameters
  <2>7. q.cmd # "eoe" /\ j.kind # "eoe_recv" /\ JobIs(j)  BY <2>2, <2>3, <2>6 DEF JobIs
  <2>8. FirstRequest'  BY <2>2, <2>3, <2>4 DEF FirstRequest
  <2>9. rest' \in Text  BY <2>1 DEF Text
  <2> QED BY <2>1, <2>4, <2>5, <2>7, <2>8, <2>9, Zenon DEF Started
<1>2. CASE ecx_SoEwrite
  <2>1. PICK i \in Idns, n \in Sizes :
          LET d == Octets(calls + 1, n)
          IN  /\ Begin([kind |-> "soe_write", idx |-> i, data |-> d], Fragment(i, d))
              /\ rest' = Skip(d, SoeData) /\ at' = "drain"
    BY <1>2, Zenon DEF ecx_SoEwrite
  <2>2. PICK d : d = Octets(calls + 1, n)  OBVIOUS
  <2>3. PICK j : j = [kind |-> "soe_write", idx |-> i, data |-> d]  OBVIOUS
  <2>4. PICK q : q = Fragment(i, d)  OBVIOUS
  <2>5. Begin(j, q) /\ rest' = Skip(d, SoeData) /\ at' = "drain"
    BY <2>1, <2>2, <2>3, <2>4
  <2>6. job' = j /\ MbxOut' = q  BY <2>5, Zenon DEF Begin
  <2>7. d \in Text  BY <2>2, Parameters, OctetsOf
  <2>8. q \in Requests /\ q.cmd # "eoe"  BY <2>4, <2>7, SoeFirst, Zenon
  <2>9. j.kind # "eoe_recv" /\ JobIs(j)  BY <2>3, <2>7 DEF JobIs
  <2>10. FirstRequest'
    <3>1. q = Fragment(j.idx, j.data) /\ rest' = Skip(j.data, SoeData) /\ j.kind = "soe_write"
      BY <2>3, <2>4, <2>5
    <3> QED BY <2>6, <3>1 DEF FirstRequest
  <2>11. rest' \in Text
    <3>1. SoeData \in Nat  BY Parameters DEF SoeData
    <3> QED BY <2>5, <2>7, <3>1, TextIs
  <2> QED BY <2>5, <2>8, <2>9, <2>10, <2>11, Zenon DEF Started
<1> QED BY <1>1, <1>2, Zenon DEF SoeBegin

LEMMA IpStarts ==
  ASSUME calls \in Nat, ecx_EOEsetIp \/ ecx_EOEgetIp
  PROVE  FirstRequest' /\ at' = "drain" /\ \E j, q : Started(j, q)
<1>1. CASE ecx_EOEsetIp
  <2>1. PICK d : d = Octets(calls + 1, 1)  OBVIOUS
  <2>2. PICK j : j = [kind |-> "set_ip", idx |-> "ip", data |-> d]  OBVIOUS
  <2>3. PICK q : q = [cmd |-> "set_ip", data |-> d]  OBVIOUS
  <2>4. Begin(j, q) /\ rest' = <<>> /\ at' = "drain"
    BY <1>1, <2>1, <2>2, <2>3, Zenon DEF ecx_EOEsetIp
  <2>5. job' = j /\ MbxOut' = q  BY <2>4, Zenon DEF Begin
  <2>6. d \in Text  BY <2>1, OctetsOf
  <2>7. q \in Requests  BY <2>3, <2>6, RequestNew
  <2>8. q.cmd # "eoe" /\ j.kind # "eoe_recv" /\ JobIs(j)  BY <2>2, <2>3, <2>6 DEF JobIs
  <2>9. FirstRequest'
    <3>1. q = [cmd |-> "set_ip", data |-> j.data] /\ j.kind = "set_ip" /\ j.idx = "ip"
      BY <2>2, <2>3
    <3> QED BY <2>5, <3>1 DEF FirstRequest
  <2>10. rest' \in Text  BY <2>4 DEF Text
  <2> QED BY <2>4, <2>7, <2>8, <2>9, <2>10, Zenon DEF Started
<1>2. CASE ecx_EOEgetIp
  <2>1. PICK j : j = [kind |-> "get_ip", idx |-> "ip", psize |-> 99]  OBVIOUS
  <2>2. PICK q : q = [cmd |-> "get_ip"]  OBVIOUS
  <2>3. Begin(j, q) /\ rest' = <<>> /\ at' = "drain"
    BY <1>2, <2>1, <2>2, Zenon DEF ecx_EOEgetIp
  <2>4. job' = j /\ MbxOut' = q  BY <2>3, Zenon DEF Begin
  <2>5. q \in Requests  BY <2>2, RequestNew
  <2>6. q.cmd # "eoe" /\ j.kind # "eoe_recv" /\ JobIs(j)  BY <2>1, <2>2 DEF JobIs
  <2>7. FirstRequest'  BY <2>1, <2>2, <2>4 DEF FirstRequest
  <2>8. rest' \in Text  BY <2>3 DEF Text
  <2> QED BY <2>3, <2>5, <2>6, <2>7, <2>8, Zenon DEF Started
<1> QED BY <1>1, <1>2

LEMMA SendStarts ==
  ASSUME calls \in Nat, ecx_EOEsend
  PROVE  SendTalk' /\ job'.kind = "eoe_send" /\ at' = "send" /\ \E j, q : Started(j, q)
<1>1. PICK n \in Sizes :
        LET d == Octets(calls + 1, n)
        IN  /\ Begin([kind |-> "eoe_send", idx |-> "frame", data |-> d],
                     EoeFragment(d, 0, 0, (calls + 1) % 16))
            /\ rest' = <<>> /\ at' = "send"
  BY Zenon DEF ecx_EOEsend
<1>2. PICK d : d = Octets(calls + 1, n)  OBVIOUS
<1>3. PICK k : k = (calls + 1) % 16  OBVIOUS
<1>4. PICK j : j = [kind |-> "eoe_send", idx |-> "frame", data |-> d]  OBVIOUS
<1>5. PICK q : q = EoeFragment(d, 0, 0, k)  OBVIOUS
<1>6. Begin(j, q) /\ rest' = <<>> /\ at' = "send"  BY <1>1, <1>2, <1>3, <1>4, <1>5
<1>7. job' = j /\ MbxOut' = q  BY <1>6, Zenon DEF Begin
<1>8. d \in Text  BY <1>2, Parameters, OctetsOf
<1>9. k \in Nat  BY <1>3
<1>10. q \in Requests  BY <1>5, <1>8, <1>9, FragmentNew
<1>11. j.kind = "eoe_send" /\ j.kind # "eoe_recv" /\ JobIs(j)  BY <1>4, <1>8 DEF JobIs
<1>12. SendTalk'
  <2>1. q.fragno = 0 /\ q.frameno = k  BY <1>5 DEF EoeFragment
  <2>2. 0 * Payload = 0
    <3>1. Payload \in Int  BY Parameters, Division DEF Payload
    <3> QED BY <3>1
  <2>3. q = EoeFragment(j.data, q.fragno, q.fragno * Payload, q.frameno)
    BY <1>4, <1>5, <2>1, <2>2
  <2>4. q.fragno \in Nat /\ ~ (q.fragno > 0)  BY <2>1
  <2> QED BY <1>7, <2>3, <2>4, Zenon DEF SendTalk
<1>13. rest' \in Text  BY <1>6 DEF Text
<1> QED BY <1>6, <1>7, <1>10, <1>11, <1>12, <1>13, Zenon DEF Started
-----------------------------------------------------------------------------
(* What calls and the slave hold has the right form.                       *)

TalkTypes ==
  /\ SlaveTypes /\ CallTypes /\ JobIs(job)
  /\ calls \in Nat /\ toggle \in BOOLEAN /\ mishaps \in Nat

\* A step of a call.
Steady == UNCHANGED <<hook, calls, job, clean, running>>

LEMMA StartedTypes ==
  ASSUME TalkTypes, NEW j, NEW q, Started(j, q)
  PROVE  TalkTypes'
<1>1. /\ SlaveTypes /\ calls \in Nat /\ Begin(j, q) /\ q \in Requests
      /\ q.cmd = "eoe" => j.kind = "eoe_send"
      /\ JobIs(j) /\ rest' \in Text
  BY Zenon DEF TalkTypes, Started
<1>2. /\ job' = j /\ calls' = calls + 1 /\ toggle' = FALSE /\ mishaps' = 0
      /\ objects' = objects /\ server' = server
  BY <1>1, Zenon DEF Begin, slaveState
<1>3. SlaveTypes'  BY <1>1, <1>2, Zenon DEF SlaveTypes
<1>4. CallTypes'
  <2>1. /\ j.kind \in {"soe_read", "soe_write"} => j.idx \in Idns
        /\ j.kind = "eoe_send" => j.data \in Text
    BY <1>1 DEF JobIs
  <2> QED BY <1>1, <2>1, BeginTypes, Zenon
<1>5. JobIs(job')  BY <1>1, <1>2, Zenon
<1>6. calls' \in Nat /\ mishaps' \in Nat
  <2>1. calls' = calls + 1 /\ mishaps' = 0 /\ calls \in Nat  BY <1>1, <1>2, Zenon
  <2> QED BY <2>1
<1>7. toggle' \in BOOLEAN
  <2>1. toggle' = FALSE  BY <1>2, Zenon
  <2> QED BY <2>1, Zenon
<1> QED BY <1>3, <1>4, <1>5, <1>6, <1>7, Zenon DEF TalkTypes

LEMMA RecvTypes ==
  ASSUME TalkTypes, ecx_EOErecv
  PROVE  TalkTypes' /\ at' = "receive" /\ job'.kind = "eoe_recv" /\ result' = "none"
<1>1. PICK n \in Sizes :
        Begin([kind |-> "eoe_recv", idx |-> "frame", psize |-> n], [cmd |-> "none"])
  BY Zenon DEF ecx_EOErecv
<1>2. PICK j : j = [kind |-> "eoe_recv", idx |-> "frame", psize |-> n]  OBVIOUS
<1>3. PICK q : q = [cmd |-> "none"]  OBVIOUS
<1>4. Begin(j, q)  BY <1>1, <1>2, <1>3
<1>5. /\ job' = j /\ MbxOut' = q /\ calls' = calls + 1 /\ toggle' = FALSE /\ mishaps' = 0
      /\ objects' = objects /\ server' = server /\ result' = "none"
  BY <1>4, Zenon DEF Begin, slaveState
<1>6. rest' = <<>> /\ at' = "receive"  BY Zenon DEF ecx_EOErecv
<1>7. rest' \in Text  BY <1>6 DEF Text
<1>8. q \in Requests  BY <1>3, RequestNew
<1>9. /\ q.cmd # "eoe" /\ JobIs(j) /\ j.kind \notin {"soe_read", "soe_write"}
      /\ j.kind # "eoe_send" /\ j.kind = "eoe_recv"
  BY <1>2, <1>3 DEF JobIs
<1>10. CallTypes'  BY <1>4, <1>7, <1>8, <1>9, BeginTypes, Zenon
<1>11. SlaveTypes'  BY <1>5, Zenon DEF SlaveTypes, TalkTypes
<1>12. JobIs(job')  BY <1>5, <1>9, Zenon
<1>13. calls' \in Nat /\ mishaps' \in Nat
  <2>1. calls' = calls + 1 /\ mishaps' = 0 /\ calls \in Nat  BY <1>5, Zenon DEF TalkTypes
  <2> QED BY <2>1
<1>14. toggle' \in BOOLEAN
  <2>1. toggle' = FALSE  BY <1>5, Zenon
  <2> QED BY <2>1, Zenon
<1> QED BY <1>5, <1>6, <1>9, <1>10, <1>11, <1>12, <1>13, <1>14, Zenon DEF TalkTypes

LEMMA TypesKept ==
  ASSUME TalkTypes, Steady, SlaveTypes', CallTypes', toggle' \in BOOLEAN,
         mishaps' = mishaps \/ mishaps' = mishaps + 1
  PROVE  TalkTypes'
<1>1. job' = job /\ calls' = calls /\ JobIs(job) /\ calls \in Nat /\ mishaps \in Nat
  BY Zenon DEF Steady, TalkTypes
<1>2. mishaps' \in Nat  BY <1>1
<1>3. JobIs(job')  BY <1>1, Zenon
<1>4. calls' \in Nat  BY <1>1, Zenon
<1> QED BY <1>2, <1>3, <1>4, Zenon DEF TalkTypes

LEMMA Unserved ==
  ASSUME SlaveTypes, UNCHANGED slaveState
  PROVE  SlaveTypes'
BY Zenon DEF SlaveTypes, slaveState

LEMMA SdoStepTypes ==
  ASSUME TalkTypes, SdoStep
  PROVE  TalkTypes' /\ Steady
<1>1. SlaveTypes /\ CallTypes /\ toggle \in BOOLEAN /\ MbxOut \in Requests
  BY Zenon DEF TalkTypes, CallTypes
<1>2. SdoServe(MbxOut) => SlaveTypes'  BY <1>1, SdoServeTypes, Zenon
<1>3. FALSE \in BOOLEAN /\ Flip(toggle) \in BOOLEAN  BY DEF Flip
<1>4. ASSUME job' = job,
             \/ \E x : Return(x)
             \/ NextUpload(FALSE) \/ NextUpload(Flip(toggle))
             \/ NextDownload(FALSE) \/ NextDownload(Flip(toggle))
      PROVE  CallTypes' /\ toggle' \in BOOLEAN
  <2>1. CallTypes'  BY <1>1, <1>3, <1>4, Returned, UploadNext, DownloadNext, Zenon
  <2>2. toggle' = FALSE \/ toggle' = Flip(toggle)
    BY <1>4, Zenon DEF Return, NextUpload, NextDownload
  <2> QED BY <2>1, <2>2, <1>3, Zenon
<1>5. CASE SdoSend
  <2>1. /\ Steady /\ toggle' = toggle /\ mishaps' = mishaps /\ rest' = rest
        /\ MbxOut' = MbxOut /\ SdoServe(MbxOut) /\ job' = job
    BY <1>5, Zenon DEF SdoSend, Sent, locals, Steady
  <2>2. CallTypes'  BY <1>1, <2>1, CallSame, Zenon
  <2> QED BY <2>1, <2>2, <1>1, <1>2, TypesKept, Zenon
<1>6. CASE SdoSendFails \/ SdoTimesOut
  <2>1. /\ Steady /\ job' = job /\ Fault /\ Failed
        /\ SdoServe(MbxOut) \/ UNCHANGED slaveState
    BY <1>6, Zenon DEF SdoSendFails, SdoTimesOut, Failing, Steady
  <2>2. SlaveTypes'  BY <2>1, <1>1, <1>2, Unserved, Zenon
  <2>3. CallTypes' /\ toggle' \in BOOLEAN  BY <2>1, <1>4, Zenon DEF Failed
  <2>4. mishaps' = mishaps \/ mishaps' = mishaps + 1  BY <2>1, Zenon DEF Fault
  <2> QED BY <2>1, <2>2, <2>3, <2>4, TypesKept, Zenon
<1>7. CASE SdoReceive
  <2>1. MailRead  BY <1>7, Zenon DEF SdoReceive
  <2>2. /\ Steady /\ job' = job /\ mishaps' = mishaps /\ objects' = objects /\ server' = server
    BY <2>1, Zenon DEF MailRead, Steady
  <2>3. \/ \E x : Return(x)
        \/ NextUpload(FALSE) \/ NextUpload(Flip(toggle))
        \/ NextDownload(FALSE) \/ NextDownload(Flip(toggle))
    BY <1>7, Zenon DEF SdoReceive, Uploaded, SegmentUploaded, Downloaded, SegmentDownloaded,
       Unexpected
  <2>4. CallTypes' /\ toggle' \in BOOLEAN  BY <2>2, <2>3, <1>4, Zenon
  <2>5. SlaveTypes'  BY <2>2, <1>1, Zenon DEF SlaveTypes
  <2> QED BY <2>2, <2>4, <2>5, TypesKept, Zenon
<1> QED BY <1>5, <1>6, <1>7, Zenon DEF SdoStep

LEMMA InfoStepTypes ==
  ASSUME TalkTypes, InfoStep
  PROVE  TalkTypes' /\ Steady
<1>1. SlaveTypes /\ CallTypes /\ toggle \in BOOLEAN /\ MbxOut \in Requests
  BY Zenon DEF TalkTypes, CallTypes
<1>2. InfoServe(MbxOut) => SlaveTypes'  BY <1>1, InfoServeTypes, Zenon
<1>3. ASSUME job' = job, (\E x : Concluded(x)) \/ (\E x : Return(x))
      PROVE  CallTypes' /\ toggle' \in BOOLEAN
  <2>1. CallTypes'  BY <1>1, <1>3, Returned, ConcludedTypes, Zenon
  <2>2. toggle' = FALSE \/ toggle' = toggle
    BY <1>3, Zenon DEF Return, Concluded, NextEntry
  <2> QED BY <2>1, <2>2, <1>1
<1>4. CASE InfoSend
  <2>1. /\ Steady /\ toggle' = toggle /\ mishaps' = mishaps /\ rest' = rest
        /\ MbxOut' = MbxOut /\ InfoServe(MbxOut) /\ job' = job
    BY <1>4, Zenon DEF InfoSend, Sent, locals, Steady
  <2>2. CallTypes'  BY <1>1, <2>1, CallSame, Zenon
  <2> QED BY <2>1, <2>2, <1>1, <1>2, TypesKept, Zenon
<1>5. CASE RxPdoSend
  <2>1. /\ Steady /\ mishaps' = mishaps /\ InfoServe(MbxOut) /\ job' = job /\ Return("ok")
    BY <1>5, Zenon DEF RxPdoSend, Steady
  <2> QED BY <2>1, <1>1, <1>2, <1>3, TypesKept, Zenon
<1>6. CASE InfoSendFails \/ InfoTimesOut
  <2>1. /\ Steady /\ job' = job /\ Fault /\ Concluded("failed")
        /\ InfoServe(MbxOut) \/ UNCHANGED slaveState
    BY <1>6, Zenon DEF InfoSendFails, InfoTimesOut, Failing, Steady
  <2>2. SlaveTypes'  BY <2>1, <1>1, <1>2, Unserved, Zenon
  <2>3. CallTypes' /\ toggle' \in BOOLEAN  BY <2>1, <1>3, Zenon
  <2>4. mishaps' = mishaps \/ mishaps' = mishaps + 1  BY <2>1, Zenon DEF Fault
  <2> QED BY <2>1, <2>2, <2>3, <2>4, TypesKept, Zenon
<1>7. CASE InfoReceive
  <2>1. MailRead  BY <1>7, Zenon DEF InfoReceive
  <2>2. /\ Steady /\ job' = job /\ mishaps' = mishaps /\ objects' = objects /\ server' = server
    BY <2>1, Zenon DEF MailRead, Steady
  <2>3. \/ \E x : Return(x)
        \/ \E x : Concluded(x)
        \/ rest' = rest /\ MbxOut' = MbxOut /\ toggle' = toggle
    BY <1>7, Zenon DEF InfoReceive, ListRead, DescriptionRead, EntryRead, TxPdoRead,
       InfoUnexpected
  <2>4. CallTypes' /\ toggle' \in BOOLEAN  BY <2>2, <2>3, <1>1, <1>3, CallSame, Zenon
  <2>5. SlaveTypes'  BY <2>2, <1>1, Zenon DEF SlaveTypes
  <2> QED BY <2>2, <2>4, <2>5, TypesKept, Zenon
<1> QED BY <1>4, <1>5, <1>6, <1>7, Zenon DEF InfoStep

LEMMA SoeStepTypes ==
  ASSUME TalkTypes, SoeStep
  PROVE  TalkTypes' /\ Steady
<1>1. SlaveTypes /\ CallTypes /\ toggle \in BOOLEAN /\ MbxOut \in Requests
  BY Zenon DEF TalkTypes, CallTypes
<1>2. SoeServe(MbxOut) => SlaveTypes'  BY <1>1, SoeServeTypes, Zenon
<1>3. SoeCall
  BY Zenon DEF SoeStep, SoeSend, SoeTaken, SoeNotTaken, SoeSendFails, SoeTimesOut, SoeReceive
<1>4. ASSUME job' = job, NextFragment \/ (\E x : Return(x))
      PROVE  CallTypes' /\ toggle' \in BOOLEAN
  <2>1. CallTypes'  BY <1>1, <1>3, <1>4, Returned, FragmentNext, Zenon
  <2>2. toggle' = FALSE \/ toggle' = toggle
    BY <1>4, Zenon DEF Return, NextFragment
  <2> QED BY <2>1, <2>2, <1>1
<1>5. CASE SoeSend
  <2>1. /\ Steady /\ toggle' = toggle /\ mishaps' = mishaps /\ rest' = rest
        /\ MbxOut' = MbxOut /\ SoeServe(MbxOut) /\ job' = job
    BY <1>5, Zenon DEF SoeSend, Sent, locals, Steady
  <2>2. CallTypes'  BY <1>1, <2>1, CallSame, Zenon
  <2> QED BY <2>1, <2>2, <1>1, <1>2, TypesKept, Zenon
<1>6. CASE SoeTaken
  <2>1. /\ Steady /\ mishaps' = mishaps /\ UNCHANGED slaveState /\ job' = job /\ NextFragment
    BY <1>6, Zenon DEF SoeTaken, Steady
  <2> QED BY <2>1, <1>1, <1>4, Unserved, TypesKept, Zenon
<1>7. CASE SoeNotTaken
  <2>1. /\ Steady /\ Fault /\ UNCHANGED slaveState /\ job' = job
        /\ rest' = rest /\ MbxOut' = MbxOut /\ toggle' = toggle
    BY <1>7, Zenon DEF SoeNotTaken, Failing, Steady
  <2>2. mishaps' = mishaps \/ mishaps' = mishaps + 1  BY <2>1, Zenon DEF Fault
  <2> QED BY <2>1, <2>2, <1>1, CallSame, Unserved, TypesKept, Zenon
<1>8. CASE SoeSendFails \/ SoeTimesOut
  <2>1. /\ Steady /\ job' = job /\ Fault /\ SoeFailed
        /\ SoeServe(MbxOut) \/ UNCHANGED slaveState
    BY <1>8, Zenon DEF SoeSendFails, SoeTimesOut, Failing, Steady
  <2>2. SlaveTypes'  BY <2>1, <1>1, <1>2, Unserved, Zenon
  <2>3. CallTypes' /\ toggle' \in BOOLEAN  BY <2>1, <1>4, Zenon DEF SoeFailed
  <2>4. mishaps' = mishaps \/ mishaps' = mishaps + 1  BY <2>1, Zenon DEF Fault
  <2> QED BY <2>1, <2>2, <2>3, <2>4, TypesKept, Zenon
<1>9. CASE SoeReceive
  <2>1. MailRead  BY <1>9, Zenon DEF SoeReceive
  <2>2. /\ Steady /\ job' = job /\ mishaps' = mishaps /\ objects' = objects /\ server' = server
    BY <2>1, Zenon DEF MailRead, Steady
  <2>3. \/ \E x : Return(x)
        \/ rest' = rest /\ MbxOut' = MbxOut /\ toggle' = toggle
    BY <1>9, Zenon DEF SoeReceive, SoeValue, SoeWritten, SoeUnexpected
  <2>4. CallTypes' /\ toggle' \in BOOLEAN  BY <2>2, <2>3, <1>1, <1>4, CallSame, Zenon
  <2>5. SlaveTypes'  BY <2>2, <1>1, Zenon DEF SlaveTypes
  <2> QED BY <2>2, <2>4, <2>5, TypesKept, Zenon
<1> QED BY <1>5, <1>6, <1>7, <1>8, <1>9, Zenon DEF SoeStep

LEMMA EoeStepTypes ==
  ASSUME TalkTypes, EoeSend \/ EoeFails \/ EoeReceive
  PROVE  TalkTypes' /\ Steady
<1>1. SlaveTypes /\ CallTypes /\ toggle \in BOOLEAN /\ MbxOut \in Requests
  BY Zenon DEF TalkTypes, CallTypes
<1>2. EoeServe(MbxOut) => SlaveTypes'  BY <1>1, EoeServeTypes, Zenon
<1>3. ASSUME job' = job, NEW x, Return(x)
      PROVE  CallTypes' /\ toggle' \in BOOLEAN
  <2>1. CallTypes'  BY <1>1, <1>3, Returned, Zenon
  <2>2. toggle' = FALSE  BY <1>3, Zenon DEF Return
  <2> QED BY <2>1, <2>2
<1>4. CASE EoeSend
  <2>1. /\ Steady /\ job' = job /\ rest' = rest /\ mishaps' = mishaps /\ EoeServe(MbxOut)
        /\ MbxOut.cmd = "eoe" => NextEoeFragment
        /\ MbxOut.cmd # "eoe" => MbxOut' = MbxOut /\ toggle' = toggle
    BY <1>4, Zenon DEF EoeSend, Steady
  <2>2. CallTypes'  BY <1>1, <2>1, EoeFragmentNext, CallSame, Zenon
  <2>3. toggle' = FALSE \/ toggle' = toggle  BY <2>1, Zenon DEF NextEoeFragment, Return
  <2>4. toggle' \in BOOLEAN  BY <1>1, <2>3
  <2> QED BY <2>1, <2>2, <2>4, <1>2, TypesKept, Zenon
<1>5. CASE EoeFails
  <2>1. /\ Steady /\ job' = job /\ Fault /\ Return("failed")
        /\ EoeServe(MbxOut) \/ UNCHANGED slaveState
    BY <1>5, Zenon DEF EoeFails, Failing, Steady
  <2>2. SlaveTypes'  BY <2>1, <1>1, <1>2, Unserved, Zenon
  <2>3. CallTypes' /\ toggle' \in BOOLEAN  BY <2>1, <1>3, Zenon
  <2>4. mishaps' = mishaps \/ mishaps' = mishaps + 1  BY <2>1, Zenon DEF Fault
  <2> QED BY <2>1, <2>2, <2>3, <2>4, TypesKept, Zenon
<1>6. CASE EoeReceive
  <2>1. MailRead /\ rest' = rest  BY <1>6, Zenon DEF EoeReceive
  <2>2. /\ Steady /\ job' = job /\ mishaps' = mishaps /\ objects' = objects /\ server' = server
    BY <2>1, Zenon DEF MailRead, Steady
  <2>3. (\E x : Return(x)) \/ (MbxOut' = MbxOut /\ toggle' = toggle)
    BY <1>6, Zenon DEF EoeReceive, RecvFragment
  <2>4. CallTypes' /\ toggle' \in BOOLEAN  BY <2>1, <2>2, <2>3, <1>1, <1>3, CallSame, Zenon
  <2>5. SlaveTypes'  BY <2>2, <1>1, Zenon DEF SlaveTypes
  <2> QED BY <2>2, <2>4, <2>5, TypesKept, Zenon
<1> QED BY <1>4, <1>5, <1>6

\* Steps that leave the call where it is.
LEMMA RestTypes ==
  ASSUME TalkTypes, UNCHANGED <<locals, objects, server, mishaps>>, calls' \in Nat
  PROVE  TalkTypes'
<1>1. /\ job' = job /\ rest' = rest /\ MbxOut' = MbxOut /\ toggle' = toggle
      /\ objects' = objects /\ server' = server /\ mishaps' = mishaps
  BY Zenon DEF locals
<1>2. SlaveTypes' /\ CallTypes'  BY <1>1, CallSame, Zenon DEF TalkTypes, SlaveTypes
<1>3. JobIs(job')  BY <1>1, Zenon DEF TalkTypes
<1>4. toggle' \in BOOLEAN /\ mishaps' \in Nat  BY <1>1, Zenon DEF TalkTypes
<1> QED BY <1>2, <1>3, <1>4, Zenon DEF TalkTypes
-----------------------------------------------------------------------------
(* Uploads.                                                                *)

LEMMA Longer ==
  ASSUME NEW q, q \in Seq(Range(q)), NEW m
  PROVE  /\ q \o <<m>> \in Seq(Range(q) \union {m}) /\ Len(q) \in Nat
         /\ Len(q \o <<m>>) = Len(q) + 1 /\ q \o <<m>> # <<>>
         /\ \A i \in 1 .. Len(q) : (q \o <<m>>)[i] = q[i]
         /\ (q \o <<m>>)[Len(q) + 1] = m
<1> DEFINE S == Range(q) \union {m}
<1>1. Range(q) \subseteq S /\ m \in S  OBVIOUS
<1> HIDE DEF S
<1>2. q \in Seq(S) /\ <<m>> \in Seq(S) /\ Len(q) \in Nat /\ Len(<<m>>) = 1 /\ <<m>>[1] = m
  BY <1>1, SeqMonotonic
<1>3. PICK r : r = q \o <<m>>  OBVIOUS
<1>4. /\ r \in Seq(S) /\ Len(r) = Len(q) + Len(<<m>>)
      /\ \A i \in 1 .. Len(q) + Len(<<m>>) :
           r[i] = IF i <= Len(q) THEN q[i] ELSE <<m>>[i - Len(q)]
  BY <1>2, <1>3, ConcatProperties
<1>5. Len(r) = Len(q) + 1  BY <1>2, <1>4
<1>6. r # <<>>  BY <1>2, <1>4, <1>5, EmptySeq
<1>7. \A i \in 1 .. Len(q) : r[i] = q[i]  BY <1>2, <1>4
<1>8. r[Len(q) + 1] = m
  <2>1. PICK i : i = Len(q) + 1  OBVIOUS
  <2>2. i \in 1 .. Len(q) + Len(<<m>>) /\ ~ (i <= Len(q)) /\ i - Len(q) = 1  BY <1>2, <2>1
  <2>3. r[i] = <<m>>[i - Len(q)]  BY <1>4, <2>2
  <2> QED BY <1>2, <2>1, <2>2, <2>3
<1> QED BY <1>2, <1>3, <1>4, <1>5, <1>6, <1>7, <1>8 DEF S

LEMMA Shorter ==
  ASSUME NEW q, q \in Seq(Range(q)), q # <<>>
  PROVE  /\ Len(q) \in Nat \ {0} /\ Len(Tail(q)) = Len(q) - 1
         /\ \A i \in 1 .. Len(Tail(q)) : Tail(q)[i] = q[i + 1]
         /\ Len(q) = 1 => Tail(q) = <<>>
<1>1. /\ Tail(q) \in Seq(Range(q)) /\ Len(Tail(q)) = Len(q) - 1
      /\ \A i \in 1 .. Len(Tail(q)) : Tail(q)[i] = q[i + 1]
  BY HeadTailProperties
<1>2. Len(q) \in Nat \ {0}  BY EmptySeq, LenProperties
<1>3. ASSUME Len(q) = 1 PROVE Tail(q) = <<>>
  <2>1. Len(Tail(q)) = 0  BY <1>1, <1>3
  <2> QED BY <1>1, <2>1, EmptySeq
<1> QED BY <1>1, <1>2, <1>3

LEMMA Answered ==
  ASSUME NEW q, Waiting(box, q), NEW m, Answer(m), m.cmd # "eoe"
  PROVE  Waiting(box', q \o <<m>>)
<1>1. box' = Append(box, m)  BY Zenon DEF Answer
<1>2. box \in Seq(Range(box))  BY Zenon DEF Waiting
<1>3. Append(box, m) = box \o <<m>>
  <2> DEFINE S == Range(box) \union {m}
  <2>1. Range(box) \subseteq S /\ m \in S  OBVIOUS
  <2> HIDE DEF S
  <2>2. box \in Seq(S)  BY <1>2, <2>1, SeqMonotonic
  <2> QED BY <2>1, <2>2, AppendIsConcat
<1>4. <<m>> \in Seq({m}) /\ Len(<<m>>) = 1 /\ <<m>>[1] = m  OBVIOUS
<1>5. \A i \in 1 .. Len(<<m>>) : ~ IsFragment(<<m>>[i])  BY <1>4 DEF IsFragment
<1>6. Waiting(box \o <<m>>, q \o <<m>>)  BY <1>4, <1>5, MailsCome
<1> QED BY <1>1, <1>3, <1>6

LEMMA AnsweredFirst ==
  ASSUME Waiting(box, <<>>), NEW m, Answer(m), m.cmd # "eoe"
  PROVE  Waiting(box', <<m>>)
<1>1. Waiting(box', <<>> \o <<m>>)  BY Answered
<1>2. <<>> \o <<m>> = <<m>>
  <2>1. <<m>> \in Seq({m})  OBVIOUS
  <2> QED BY <2>1, ConcatEmptySeq
<1> QED BY <1>1, <1>2

\* No mails wait in an empty mailbox.
LEMMA SomeWait ==
  ASSUME NEW b, NEW q, Waiting(b, q), q # <<>>
  PROVE  b # <<>>
<1>1. b \in Seq(Range(b)) /\ q \in Seq(Range(q)) /\ Len(q) \in Nat /\ Len(b) \in Nat
  BY Arrangement
<1>2. PICK g \in [1 .. Len(q) -> 1 .. Len(b)] : Embeds(g, b, q)  BY Arrangement
<1>3. Len(q) # 0  BY <1>1, EmptySeq
<1>4. 1 \in 1 .. Len(q)  BY <1>1, <1>3
<1>5. g[1] \in 1 .. Len(b)  BY <1>4
<1>6. Len(b) # 0  BY <1>1, <1>5
<1> QED BY <1>6

\* A mail that is read is a fragment or the first of those that wait.
LEMMA ReadMail ==
  ASSUME MailRead, NEW q, Waiting(box, q)
  PROVE  \/ Head(box).cmd = "eoe"
         \/ q # <<>> /\ Head(box) = q[1] /\ Waiting(box', Tail(q))
<1>1. box # <<>> /\ box' = Tail(box)  BY Zenon DEF MailRead
<1>2. CASE IsFragment(Head(box))  BY <1>2, Zenon DEF IsFragment
<1>3. CASE ~ IsFragment(Head(box))  BY <1>1, <1>3, MailGoes, Zenon
<1> QED BY <1>2, <1>3

\* The master takes off what the slave has padded.
LEMMA Unpadded ==
  ASSUME NEW d \in Text, NEW c, NEW t, NEW last \in BOOLEAN, last \/ MinSegment <= Len(d)
  PROVE  Unpad(Segment(c, t, d, last)) = d
<1>1. d \in Seq(Octet) /\ Len(d) \in Nat /\ MinSegment = 7  BY DEF Text, MinSegment
<1>2. PICK n : n = (IF Len(d) < 7 THEN 7 - Len(d) ELSE 0)  OBVIOUS
<1>3. n \in Nat /\ Unused(d) = n  BY <1>1, <1>2 DEF Unused
<1>4. PICK e : e = [i \in 1 .. MinSegment - Len(d) |-> <<>>]  OBVIOUS
<1>5. e \in Seq(Octet) /\ Len(e) = n
  <2>1. <<>> \in Octet  BY DEF Octet
  <2>2. 1 .. MinSegment - Len(d) = 1 .. n  BY <1>1, <1>2
  <2>3. e = [i \in 1 .. n |-> <<>>]  BY <1>4, <2>2, Zenon
  <2> QED BY <1>3, <2>1, <2>3
<1>6. PICK z : z = d \o e  OBVIOUS
<1>7. Pad(d) = z  BY <1>4, <1>6, Zenon DEF Pad
<1>8. /\ z \in Seq(Octet) /\ Len(z) = Len(d) + n
      /\ \A i \in 1 .. Len(d) : z[i] = d[i]
  <2>1. /\ z \in Seq(Octet) /\ Len(z) = Len(d) + Len(e)
        /\ \A i \in 1 .. Len(d) + Len(e) : z[i] = IF i <= Len(d) THEN d[i] ELSE e[i - Len(d)]
    BY <1>1, <1>5, <1>6, ConcatProperties
  <2> QED BY <2>1, <1>1, <1>3, <1>5
<1>9. PICK m : m = Segment(c, t, d, last)  OBVIOUS
<1>10. m.last = last /\ m.data = z /\ m.unused = n  BY <1>3, <1>7, <1>9 DEF Segment
<1>11. Unpad(m) = IF last /\ Len(z) = 7 THEN Take(z, 7 - n) ELSE z
  BY <1>1, <1>10 DEF Unpad
<1>12. CASE Len(d) < 7
  <2>1. last /\ Len(z) = 7 /\ 7 - n = Len(d)  BY <1>1, <1>2, <1>8, <1>12
  <2>2. Unpad(m) = Take(z, Len(d))  BY <1>11, <2>1
  <2>3. /\ Take(z, Len(d)) \in Seq(Octet)
        /\ Len(Take(z, Len(d))) = (IF Len(d) < Len(z) THEN Len(d) ELSE Len(z))
        /\ \A i \in 1 .. Len(Take(z, Len(d))) : Take(z, Len(d))[i] = z[i]
    BY <1>1, <1>8, Pieces
  <2>4. Len(Take(z, Len(d))) = Len(d)  BY <1>1, <1>12, <2>1, <2>3
  <2>5. \A i \in 1 .. Len(Take(z, Len(d))) : Take(z, Len(d))[i] = d[i]  BY <1>8, <2>3, <2>4
  <2>6. Take(z, Len(d)) = d  BY <1>1, <2>3, <2>4, <2>5, SeqEqual, Zenon
  <2> QED BY <1>9, <2>2, <2>6
<1>13. CASE ~ (Len(d) < 7)
  <2>1. n = 0  BY <1>2, <1>13
  <2>2. Len(z) = Len(d)  BY <1>1, <1>8, <2>1
  <2>3. z = d
    <3>1. \A i \in 1 .. Len(z) : z[i] = d[i]  BY <1>8, <2>2
    <3> QED BY <1>1, <1>8, <2>2, <3>1, SeqEqual, Zenon
  <2>4. Len(z) = 7 => Take(z, 7 - n) = z
    <3>1. ASSUME Len(z) = 7 PROVE Take(z, 7) = z
      <4>1. z \in Seq(Octet)  BY <1>8, Zenon
      <4>2. 7 \in Nat  OBVIOUS
      <4>3. Len(z) <= 7  BY <3>1
      <4> QED BY <4>1, <4>2, <4>3, TakeAll
    <3> QED BY <3>1, <2>1
  <2> QED BY <1>9, <1>11, <2>3, <2>4
<1> QED BY <1>12, <1>13

LEMMA UploadNone ==
  ASSUME NEW o, NEW b
  PROVE  UploadParts(o, b, <<>>)
<1>1. 1 .. Len(<<>>) = {}  OBVIOUS
<1> QED BY <1>1, Zenon DEF UploadParts

LEMMA UploadMore ==
  ASSUME NEW o, NEW b, NEW q, q \in Seq(Range(q)), UploadParts(o, b, q), NEW m,
         m.cmd = "abort" \/ UploadPart(o, b + Len(q) * SegmentData, m)
  PROVE  UploadParts(o, b, q \o <<m>>)
<1>1. PICK r : r = q \o <<m>>  OBVIOUS
<1>2. /\ Len(q) \in Nat /\ Len(r) = Len(q) + 1
      /\ \A i \in 1 .. Len(q) : r[i] = q[i]
      /\ r[Len(q) + 1] = m
  BY <1>1, Longer
<1>3. ASSUME NEW k \in 1 .. Len(r)
      PROVE  r[k].cmd = "abort" \/ UploadPart(o, b + (k - 1) * SegmentData, r[k])
  <2>1. CASE k \in 1 .. Len(q)
    <3>1. r[k] = q[k]  BY <1>2, <2>1
    <3> QED BY <2>1, <3>1, Zenon DEF UploadParts
  <2>2. CASE k = Len(q) + 1
    <3>1. k - 1 = Len(q)  BY <1>2, <2>2
    <3>2. r[k] = m  BY <1>2, <2>2
    <3> QED BY <3>1, <3>2
  <2> QED BY <1>2, <2>1, <2>2
<1> QED BY <1>1, <1>3, Zenon DEF UploadParts

LEMMA UploadLess ==
  ASSUME NEW o, NEW b \in Nat, NEW q, q \in Seq(Range(q)), q # <<>>, UploadParts(o, b, q)
  PROVE  /\ UploadParts(o, b + SegmentData, Tail(q))
         /\ q[1].cmd = "abort" \/ UploadPart(o, b, q[1])
         /\ b + Len(q) * SegmentData = (b + SegmentData) + Len(Tail(q)) * SegmentData
<1>1. SegmentData \in Nat  BY Parameters DEF SegmentData, MinSegment
<1>2. PICK s \in Nat : s = SegmentData  BY <1>1
<1>3. PICK r : r = Tail(q)  OBVIOUS
<1>4. /\ Len(q) \in Nat \ {0} /\ Len(r) = Len(q) - 1 /\ \A i \in 1 .. Len(r) : r[i] = q[i + 1]
  BY <1>3, Shorter
<1>8. \A k \in 1 .. Len(q) : q[k].cmd = "abort" \/ UploadPart(o, b + (k - 1) * s, q[k])
  BY <1>2 DEF UploadParts
<1>5. ASSUME NEW k \in 1 .. Len(r)
      PROVE  r[k].cmd = "abort" \/ UploadPart(o, (b + s) + (k - 1) * s, r[k])
  <2>1. k + 1 \in 1 .. Len(q) /\ r[k] = q[k + 1] /\ k \in Nat  BY <1>4
  <2>2. q[k + 1].cmd = "abort" \/ UploadPart(o, b + (k + 1 - 1) * s, q[k + 1])
    <3>1. PICK j : j = k + 1  OBVIOUS
    <3>2. j \in 1 .. Len(q)  BY <2>1, <3>1, Zenon
    <3>3. q[j].cmd = "abort" \/ UploadPart(o, b + (j - 1) * s, q[j])  BY <1>8, <3>2, Zenon
    <3> QED BY <3>1, <3>3
  <2>3. b + (k + 1 - 1) * s = (b + s) + (k - 1) * s
    <3>1. k + 1 - 1 = k  BY <2>1
    <3>2. k * s = (k - 1) * s + s  BY <2>1
    <3>3. (k - 1) * s \in Int /\ k * s \in Int  BY <2>1
    <3> QED BY <3>1, <3>2, <3>3
  <2> QED BY <2>1, <2>2, <2>3
<1>6. q[1].cmd = "abort" \/ UploadPart(o, b, q[1])
  <2>1. 1 \in 1 .. Len(q)  BY <1>4
  <2>2. q[1].cmd = "abort" \/ UploadPart(o, b + (1 - 1) * s, q[1])
    BY <1>8, <2>1, Zenon
  <2>3. b + (1 - 1) * s = b  OBVIOUS
  <2> QED BY <2>2, <2>3
<1>7. b + Len(q) * s = (b + s) + Len(r) * s
  <2>1. Len(q) * s = (Len(q) - 1) * s + s  BY <1>4
  <2>2. Len(q) * s \in Int /\ (Len(q) - 1) * s \in Int  BY <1>4
  <2> QED BY <1>4, <2>1, <2>2
<1> QED BY <1>2, <1>3, <1>5, <1>6, <1>7, Zenon DEF UploadParts

\* The slave serves a request for a segment.
LEMMA SegmentServed ==
  ASSUME TalkTypes, NEW o \in Text, NEW b \in Nat, NEW q, Waiting(box, q),
         UploadParts(o, b, q),
         server.mode = "upload" => server.rest = Skip(o, b + Len(q) * SegmentData),
         MbxOut.cmd = "upload_segment", SdoServe(MbxOut)
  PROVE  /\ objects' = objects
         /\ \E r : /\ Waiting(box', r) /\ UploadParts(o, b, r)
                   /\ server'.mode = "upload" =>
                        server'.rest = Skip(o, b + Len(r) * SegmentData)
<1>1. UploadSegment(MbxOut)
  BY DEF SdoServe, Upload, Download, DownloadSegment
<1>2. objects' = objects  BY <1>1, Zenon DEF UploadSegment
<1>3. q \in Seq(Range(q)) /\ Len(q) \in Nat  BY Arrangement
<1>4. PICK s \in Nat : s = SegmentData  BY Parameters DEF SegmentData, MinSegment
<1>5. o \in Seq(Octet)  BY DEF Text
<1>6. PICK n : n = b + Len(q) * s  OBVIOUS
<1>7. n \in Nat
  <2>1. Len(q) * s \in Nat  BY <1>3
  <2> QED BY <1>6, <2>1
<1>8. CASE Abort /\ server' = NoTransfer
  <2>1. PICK m : m = [cmd |-> "abort", idx |-> "none"]  OBVIOUS
  <2>2. Answer(m) /\ m.cmd = "abort" /\ m.cmd # "eoe"  BY <1>8, <2>1 DEF Abort
  <2>3. Waiting(box', q \o <<m>>)  BY <2>2, Answered
  <2>4. UploadParts(o, b, q \o <<m>>)  BY <1>3, <2>2, UploadMore
  <2>5. server'.mode # "upload"  BY <1>8 DEF NoTransfer
  <2> QED BY <1>2, <2>3, <2>4, <2>5
<1>9. ASSUME server.mode = "upload", server.rest # <<>>,
             Answer(Segment("segment", MbxOut.toggle, Take(server.rest, SegmentData),
                            Len(server.rest) <= SegmentData)),
             server' = [server EXCEPT !.rest = Skip(@, SegmentData), !.toggle = ~ @]
      PROVE  \E r : /\ Waiting(box', r) /\ UploadParts(o, b, r)
                    /\ server'.mode = "upload" =>
                         server'.rest = Skip(o, b + Len(r) * SegmentData)
  <2>1. PICK e : e = Skip(o, n)  OBVIOUS
  <2>2. server.rest = e  BY <1>4, <1>6, <1>9, <2>1
  <2>3. /\ e \in Seq(Octet) /\ Len(o) \in Nat
        /\ Len(e) = (IF n < Len(o) THEN Len(o) - n ELSE 0)
    BY <1>5, <1>7, <2>1, Pieces
  <2>4. Len(e) # 0  BY <1>9, <2>2, <2>3, EmptySeq
  <2>5. n < Len(o) /\ (Len(e) <= s <=> Len(o) <= n + s)
    <3>1. n < Len(o)  BY <2>3, <2>4
    <3>2. Len(e) = Len(o) - n  BY <2>3, <3>1
    <3> QED BY <1>7, <2>3, <3>1, <3>2
  <2>6. MbxOut.toggle \in BOOLEAN
    <3>1. MbxOut \in Requests  BY Zenon DEF TalkTypes, CallTypes
    <3> QED BY <3>1 DEF Requests
  <2>7. PICK m : m = Segment("segment", MbxOut.toggle, Take(e, s), Len(o) <= n + s)  OBVIOUS
  <2>8. Answer(m)
    <3>1. (Len(e) <= s) = (Len(o) <= n + s)  BY <2>5
    <3> QED BY <1>4, <1>9, <2>2, <2>7, <3>1
  <2>9. m.cmd = "segment" /\ m.cmd # "eoe"  BY <2>7 DEF Segment
  <2>10. Waiting(box', q \o <<m>>)  BY <2>8, <2>9, Answered
  <2>11. UploadPart(o, b + Len(q) * SegmentData, m)
    <3>1. UploadPart(o, n, m)  BY <1>4, <2>1, <2>5, <2>6, <2>7, Zenon DEF UploadPart
    <3> QED BY <1>4, <1>6, <3>1
  <2>12. UploadParts(o, b, q \o <<m>>)  BY <1>3, <2>11, UploadMore
  <2>13. server'.rest = Skip(o, b + Len(q \o <<m>>) * SegmentData)
    <3>1. server.rest = e /\ server' = [server EXCEPT !.rest = Skip(@, s), !.toggle = ~ @]
      BY <1>4, <1>9, <2>2
    <3>2. server'.rest = Skip(e, s)
      <4>1. server \in [mode : {"upload"}, rest : Text, toggle : BOOLEAN]
        BY <1>9, ServerIs DEF TalkTypes, SlaveTypes
      <4> QED BY <3>1, <4>1
    <3>3. Skip(e, s) = Skip(o, n + s)  BY <1>5, <1>7, <2>1, TakeMore
    <3>4. Len(q \o <<m>>) = Len(q) + 1  BY <1>3, Longer
    <3>5. b + (Len(q) + 1) * s = n + s
      <4>1. (Len(q) + 1) * s = Len(q) * s + s  BY <1>3
      <4>2. Len(q) * s \in Int  BY <1>3
      <4> QED BY <1>6, <4>1, <4>2
    <3> QED BY <1>4, <3>2, <3>3, <3>4, <3>5
  <2> QED BY <2>10, <2>12, <2>13
<1> QED BY <1>1, <1>2, <1>8, <1>9, Zenon DEF UploadSegment

\* A segment that is read continues the data.
LEMMA SegmentRead ==
  ASSUME NEW o \in Text, NEW b \in Nat, NEW m, UploadPart(o, b, m)
  PROVE  /\ m.cmd = "segment" /\ Take(o, b) \o Unpad(m) = Take(o, b + SegmentData)
         /\ m.last => Take(o, b + SegmentData) = o
         /\ ~ m.last => b + SegmentData < Len(o)
<1>1. PICK s \in Nat : s = SegmentData /\ 7 <= s
  BY Parameters DEF SegmentData, MinSegment
<1>2. o \in Seq(Octet) /\ Len(o) \in Nat  BY DEF Text
<1>3. PICK t \in BOOLEAN : m = Segment("segment", t, Take(Skip(o, b), s), Len(o) <= b + s)
  BY <1>1 DEF UploadPart
<1>4. b < Len(o)  BY DEF UploadPart
<1>5. PICK e : e = Skip(o, b)  OBVIOUS
<1>6. e \in Seq(Octet) /\ Len(e) = Len(o) - b /\ Len(e) \in Nat
  BY <1>2, <1>4, <1>5, Pieces
<1>7. PICK d : d = Take(e, s)  OBVIOUS
<1>8. d \in Seq(Octet) /\ Len(d) = (IF s < Len(e) THEN s ELSE Len(e))
  BY <1>1, <1>6, <1>7, Pieces
<1>9. PICK last \in BOOLEAN :
        m = Segment("segment", t, d, last) /\ (last <=> Len(o) <= b + s)
  <2>1. CASE Len(o) <= b + s
    <3>1. (Len(o) <= b + s) = TRUE  BY <2>1
    <3>2. m = Segment("segment", t, d, TRUE)  BY <1>3, <1>5, <1>7, <3>1, Zenon
    <3> QED BY <2>1, <3>2
  <2>2. CASE ~ (Len(o) <= b + s)
    <3>1. (Len(o) <= b + s) = FALSE  BY <2>2
    <3>2. m = Segment("segment", t, d, FALSE)  BY <1>3, <1>5, <1>7, <3>1, Zenon
    <3> QED BY <2>2, <3>2
  <2> QED BY <2>1, <2>2
<1>10. m = Segment("segment", t, d, last)  BY <1>9, Zenon
<1>11. m.cmd = "segment" /\ m.last = last  BY <1>10 DEF Segment
<1>12. last \/ 7 <= Len(d)
  <2>1. CASE Len(o) <= b + s  BY <1>9, <2>1
  <2>2. CASE ~ (Len(o) <= b + s)  BY <1>1, <1>2, <1>6, <1>8, <2>2
  <2> QED BY <2>1, <2>2
<1>13. Unpad(m) = d
  <2>1. d \in Text /\ (last \/ MinSegment <= Len(d))  BY <1>8, <1>12 DEF Text, MinSegment
  <2> QED BY <1>10, <2>1, Unpadded
<1>14. Take(o, b) \o d = Take(o, b + s)  BY <1>1, <1>2, <1>5, <1>7, TakeMore
<1>15. last => Take(o, b + s) = o
  <2>1. b + s \in Nat  BY <1>1
  <2> QED BY <1>2, <1>9, <2>1, TakeAll
<1>16. ~ last => b + s < Len(o)  BY <1>1, <1>2, <1>9
<1> QED BY <1>1, <1>11, <1>13, <1>14, <1>15, <1>16

LEMMA ReadSent ==
  ASSUME TalkTypes, job.kind = "read", running, NEW q, Waiting(box, q), ReadTalk(q),
         SdoSend \/ SdoSendFails
  PROVE  \/ at' = "idle" /\ result' = "failed"
         \/ \E r : Waiting(box', r) /\ ReadTalk(r)'
<1>1. at = "send" /\ job' = job
  BY DEF SdoSend, SdoSendFails, Sent, Failing, locals
<1> DEFINE o == objects[job.idx]
<1>2. o \in Text  BY ObjectIs DEF TalkTypes, JobIs
<1>3. CASE stage = "first"
  <2>1. q = <<>> /\ MbxOut = [cmd |-> "upload", idx |-> job.idx]
    BY <1>1, <1>3 DEF ReadTalk, FirstRequest
  <2>2. CASE SdoSendFails  BY <1>3, <2>2 DEF SdoSendFails, Failed, Return
  <2>3. CASE SdoSend
    <3>1. at' = "receive" /\ stage' = "first"  BY <1>3, <2>3 DEF SdoSend, Sent, locals
    <3>2. Upload(MbxOut) /\ MbxOut.idx = job.idx
      BY <2>1, <2>3 DEF SdoSend, SdoServe, UploadSegment, Download, DownloadSegment
    <3>3. objects' = objects  BY <3>2 DEF Upload
    <3>4. CASE Answer([cmd |-> "expedited", idx |-> job.idx, data |-> o])
      <4>1. PICK m : m = [cmd |-> "expedited", idx |-> job.idx, data |-> o]  OBVIOUS
      <4>2. Waiting(box', <<m>>)  BY <2>1, <3>4, <4>1, AnsweredFirst
      <4>3. AtOnce(job.idx, o, <<m>>)'  BY <1>1, <3>3, <4>1 DEF AtOnce
      <4>4. ReadTalk(<<m>>)'  BY <1>1, <3>1, <3>3, <4>3 DEF ReadTalk
      <4> QED BY <4>2, <4>4
    <3>5. CASE /\ Answer([cmd |-> "normal", idx |-> job.idx, size |-> Len(o),
                          data |-> Take(o, MailData)])
               /\ server' = [mode |-> "upload", rest |-> Skip(o, MailData), toggle |-> FALSE]
      <4>1. PICK m : m = [cmd |-> "normal", idx |-> job.idx, size |-> Len(o),
                          data |-> Take(o, MailData)]  OBVIOUS
      <4>2. Waiting(box', <<m>>)  BY <2>1, <3>5, <4>1, AnsweredFirst
      <4>3. Beginning(job.idx, o, <<m>>)'  BY <1>1, <3>3, <4>1 DEF Beginning
      <4>4. ReadTalk(<<m>>)'  BY <1>1, <3>1, <3>3, <3>5, <4>3 DEF ReadTalk
      <4> QED BY <4>2, <4>4
    <3> QED BY <3>2, <3>4, <3>5 DEF Upload
  <2> QED BY <2>2, <2>3
<1>4. CASE stage # "first"
  <2>1. /\ MbxOut.cmd = "upload_segment"
        /\ \E b \in Nat :
             /\ bytes = Take(o, b) /\ b < Len(o) /\ UploadParts(o, b, q)
             /\ server.mode = "upload" => server.rest = Skip(o, b + Len(q) * SegmentData)
    BY <1>4 DEF ReadTalk
  <2>2. PICK b \in Nat :
          /\ bytes = Take(o, b) /\ b < Len(o) /\ UploadParts(o, b, q)
          /\ server.mode = "upload" => server.rest = Skip(o, b + Len(q) * SegmentData)
    BY <2>1
  <2>3. PICK r : /\ Waiting(box', r) /\ UploadParts(o, b, r) /\ objects' = objects
                 /\ server'.mode = "upload" => server'.rest = Skip(o, b + Len(r) * SegmentData)
    <3>1. CASE SdoServe(MbxOut)  BY <1>2, <2>1, <2>2, <3>1, SegmentServed
    <3>2. CASE UNCHANGED slaveState  BY <2>2, <3>2 DEF slaveState
    <3> QED BY <3>1, <3>2 DEF SdoSend, SdoSendFails
  <2>4. /\ at' \in {"send", "receive"} /\ stage' # "first"
        /\ MbxOut'.cmd = "upload_segment" /\ bytes' = bytes
    <3>1. CASE SdoSend  BY <1>4, <2>1, <3>1 DEF SdoSend, Sent, locals
    <3>2. CASE SdoSendFails
      BY <1>4, <2>1, <3>2 DEF SdoSendFails, Failing, Failed, NextUpload
    <3> QED BY <3>1, <3>2
  <2>5. ReadTalk(r)'
    <3>1. o' = o  BY <1>1, <2>3
    <3> HIDE DEF o
    <3>2. /\ bytes' = Take(o, b) /\ b < Len(o) /\ UploadParts(o, b, r)
          /\ server'.mode = "upload" => server'.rest = Skip(o, b + Len(r) * SegmentData)
      BY <2>2, <2>3, <2>4
    <3> QED BY <2>4, <3>1, <3>2 DEF ReadTalk, o
  <2> QED BY <2>3, <2>5
<1> QED BY <1>3, <1>4

\* The next request of an upload, which has begun.
LEMMA UploadGoesOn ==
  ASSUME job.kind = "read", job' = job, objects' = objects, server' = server, NEW t,
         NextUpload(t), NEW r, NEW o, o = objects[job.idx], NEW b \in Nat,
         bytes' = Take(o, b), b < Len(o), UploadParts(o, b, r),
         server.mode = "upload" => server.rest = Skip(o, b + Len(r) * SegmentData)
  PROVE  ReadTalk(r)'
<1>1. at' = "send" /\ stage' # "first" /\ MbxOut'.cmd = "upload_segment"  BY DEF NextUpload
<1>2. o = objects[job.idx]' /\ server'.mode = server.mode /\ server'.rest = server.rest
  OBVIOUS
<1>3. /\ bytes' = Take(o, b) /\ b < Len(o) /\ UploadParts(o, b, r)
      /\ server'.mode = "upload" => server'.rest = Skip(o, b + Len(r) * SegmentData)
  BY <1>2
<1> QED BY <1>1, <1>2, <1>3 DEF ReadTalk

LEMMA ReadReceived ==
  ASSUME TalkTypes, job.kind = "read", running, NEW q, Waiting(box, q), ReadTalk(q),
         SdoReceive
  PROVE  \/ at' = "idle" /\ result' = "failed"
         \/ at' = "idle" /\ bytes' = objects[job.idx]'
         \/ \E r : Waiting(box', r) /\ ReadTalk(r)'
<1> PICK m : m = Head(box)  OBVIOUS
<1>1. /\ at = "receive" /\ MailRead /\ job' = job /\ objects' = objects /\ server' = server
      /\ Uploaded(m) \/ SegmentUploaded(m) \/ Downloaded(m) \/ SegmentDownloaded(m)
         \/ Unexpected(m)
  BY DEF SdoReceive, MailRead
<1>2. ~ Downloaded(m) /\ ~ SegmentDownloaded(m)  BY DEF Downloaded, SegmentDownloaded
<1>3. CASE Unexpected(m)  BY <1>3 DEF Unexpected, Return
<1>4. CASE m.cmd = "eoe"
  BY <1>1, <1>2, <1>3, <1>4 DEF Uploaded, SegmentUploaded, Expected
<1>5. CASE q # <<>> /\ m = q[1] /\ Waiting(box', Tail(q)) /\ ~ Unexpected(m)
  <2> PICK o : o = objects[job.idx]  OBVIOUS
  <2>1. o \in Text /\ o \in Seq(Octet) /\ Len(o) \in Nat /\ o = objects[job.idx]'
    <3>1. o \in Text  BY ObjectIs DEF TalkTypes, JobIs
    <3> QED BY <3>1, <1>1 DEF Text
  <2>2. MailData \in Nat /\ SegmentData \in Nat
    BY Parameters DEF SegmentData, MinSegment
  <2>3. CASE Uploaded(m)
    <3>1. stage = "first"  BY <2>3 DEF Uploaded
    <3>2. \/ AtOnce(job.idx, o, q)
          \/ /\ Beginning(job.idx, o, q)
             /\ server = [mode |-> "upload", rest |-> Skip(o, MailData), toggle |-> FALSE]
      BY <1>1, <3>1 DEF ReadTalk
    <3>3. CASE AtOnce(job.idx, o, q)
      <4>1. m = [cmd |-> "expedited", idx |-> job.idx, data |-> o]  BY <1>5, <3>3 DEF AtOnce
      <4>2. m.cmd = "expedited" /\ m.data = o  BY <4>1
      <4>3. \/ bytes' = m.data /\ Return("ok")
            \/ Return("failed")
        BY <2>3, <4>2, Zenon DEF Uploaded
      <4> QED BY <2>1, <4>2, <4>3, Zenon DEF Return
    <3>4. CASE /\ Beginning(job.idx, o, q)
               /\ server = [mode |-> "upload", rest |-> Skip(o, MailData), toggle |-> FALSE]
      <4>1. PICK d : d = Take(o, MailData)  OBVIOUS
      <4>2. m = [cmd |-> "normal", idx |-> job.idx, size |-> Len(o), data |-> d] /\ Len(q) = 1
        BY <1>5, <3>4, <4>1 DEF Beginning
      <4>3. /\ d \in Seq(Octet) /\ Len(d) = (IF MailData < Len(o) THEN MailData ELSE Len(o))
        BY <2>1, <2>2, <4>1, Pieces
      <4>4. Len(d) <= Len(o) /\ Take(d, Len(o)) = d
        <5>1. Len(d) <= Len(o)  BY <2>1, <2>2, <4>3
        <5> QED BY <2>1, <4>3, <5>1, TakeAll
      <4>5. \/ at' = "idle" /\ result' = "failed"
            \/ bytes' = d /\ Len(d) < Len(o) /\ NextUpload(FALSE)
            \/ bytes' = d /\ ~ (Len(d) < Len(o)) /\ Return("ok")
        <5>1. m.cmd = "normal" /\ m.size = Len(o) /\ m.data = d  BY <4>2
        <5>2. \/ /\ bytes' = Take(m.data, m.size)
                 /\ IF Len(m.data) < m.size THEN NextUpload(FALSE) ELSE Return("ok")
              \/ Return("failed")
          BY <2>3, <5>1, Zenon DEF Uploaded
        <5>3. Return("failed") => at' = "idle" /\ result' = "failed"  BY DEF Return
        <5> QED BY <4>4, <5>1, <5>2, <5>3, Zenon
      <4>6. CASE bytes' = d /\ ~ (Len(d) < Len(o)) /\ Return("ok")
        <5>1. Len(o) <= MailData  BY <2>1, <2>2, <4>3, <4>6
        <5>2. d = o  BY <2>1, <2>2, <4>1, <5>1, TakeAll
        <5> QED BY <2>1, <4>6, <5>2 DEF Return
      <4>7. CASE bytes' = d /\ Len(d) < Len(o) /\ NextUpload(FALSE)
        <5>1. MailData < Len(o)  BY <2>1, <2>2, <4>3, <4>7
        <5>2. Waiting(box', <<>>)
          <6>1. q \in Seq(Range(q)) /\ q # <<>>  BY <1>5, Arrangement
          <6>2. Tail(q) = <<>>  BY <4>2, <6>1, Shorter
          <6> QED BY <1>5, <6>2
        <5>3. UploadParts(o, MailData, <<>>)  BY UploadNone
        <5>4. MailData + Len(<<>>) * SegmentData = MailData
          <6>1. Len(<<>>) = 0 /\ 0 * SegmentData = 0 /\ MailData + 0 = MailData  BY <2>2
          <6> QED BY <6>1
        <5>5. server.rest = Skip(o, MailData + Len(<<>>) * SegmentData)  BY <3>4, <5>4
        <5>6. ReadTalk(<<>>)'
          BY <1>1, <2>1, <2>2, <4>1, <4>7, <5>1, <5>3, <5>5, UploadGoesOn
        <5> QED BY <5>2, <5>6
      <4> QED BY <4>5, <4>6, <4>7
    <3> QED BY <3>2, <3>3, <3>4
  <2>4. CASE SegmentUploaded(m)
    <3>1. stage # "first" /\ m.cmd = "segment"  BY <2>4 DEF SegmentUploaded
    <3>2. PICK b \in Nat :
            /\ bytes = Take(o, b) /\ b < Len(o) /\ UploadParts(o, b, q)
            /\ server.mode = "upload" => server.rest = Skip(o, b + Len(q) * SegmentData)
      BY <3>1 DEF ReadTalk
    <3>3. q \in Seq(Range(q)) /\ q # <<>>  BY <1>5, Arrangement
    <3>4. /\ UploadParts(o, b + SegmentData, Tail(q)) /\ UploadPart(o, b, m)
          /\ b + Len(q) * SegmentData = (b + SegmentData) + Len(Tail(q)) * SegmentData
      BY <1>5, <3>1, <3>2, <3>3, UploadLess
    <3>5. PICK c \in Nat : c = b + SegmentData  BY <2>2
    <3>6. /\ bytes \o Unpad(m) = Take(o, c)
          /\ m.last => Take(o, c) = o
          /\ ~ m.last => c < Len(o)
      BY <2>1, <3>2, <3>4, <3>5, SegmentRead
    <3>7. bytes' = Take(o, c)  BY <2>4, <3>6 DEF SegmentUploaded
    <3>8. CASE m.last
      <4>1. at' = "idle"  BY <2>4, <3>8 DEF SegmentUploaded, Return
      <4> QED BY <2>1, <3>6, <3>7, <3>8, <4>1
    <3>9. CASE ~ m.last
      <4>1. NextUpload(Flip(toggle))  BY <2>4, <3>9 DEF SegmentUploaded
      <4>2. server.mode = "upload" => server.rest = Skip(o, c + Len(Tail(q)) * SegmentData)
        BY <3>2, <3>4, <3>5
      <4>3. UploadParts(o, c, Tail(q))  BY <3>4, <3>5
      <4>4. ReadTalk(Tail(q))'
        BY <1>1, <2>1, <3>5, <3>6, <3>7, <3>9, <4>1, <4>2, <4>3, UploadGoesOn
      <4> QED BY <1>5, <4>4
    <3> QED BY <3>8, <3>9
  <2> QED BY <1>1, <1>2, <1>5, <2>3, <2>4
<1> QED BY <1>1, <1>3, <1>4, <1>5, ReadMail

LEMMA ReadGivesUp ==
  ASSUME TalkTypes, job.kind = "read", running, NEW q, Waiting(box, q), ReadTalk(q),
         SdoTimesOut
  PROVE  \/ at' = "idle" /\ result' = "failed"
         \/ \E r : Waiting(box', r) /\ ReadTalk(r)'
<1>1. /\ job' = job /\ objects' = objects /\ server' = server /\ bytes' = bytes /\ box' = box
      /\ Failed
  BY DEF SdoTimesOut, Failing, slaveState
<1>2. CASE Return("failed")  BY <1>2 DEF Return
<1>3. CASE stage # "first" /\ NextUpload(Flip(toggle))
  <2> PICK o : o = objects[job.idx]  OBVIOUS
  <2>1. PICK b \in Nat :
          /\ bytes = Take(o, b) /\ b < Len(o) /\ UploadParts(o, b, q)
          /\ server.mode = "upload" => server.rest = Skip(o, b + Len(q) * SegmentData)
    BY <1>3 DEF ReadTalk
  <2>2. ReadTalk(q)'  BY <1>1, <1>3, <2>1, UploadGoesOn
  <2> QED BY <1>1, <2>2
<1> QED BY <1>1, <1>2, <1>3 DEF Failed
-----------------------------------------------------------------------------
(* Downloads.                                                              *)

\* Data in two parts: the first is all of it as soon as nothing is left.
LEMMA NothingLeft ==
  ASSUME NEW a \in Text, NEW r \in Text, NEW d, a \o r = d
  PROVE  /\ r = <<>> => a = d
         /\ Len(a) = Len(d) <=> r = <<>>
<1>1. a \in Seq(Octet) /\ r \in Seq(Octet) /\ Len(a) \in Nat /\ Len(r) \in Nat  BY DEF Text
<1>2. Len(d) = Len(a) + Len(r)  BY <1>1, ConcatProperties
<1>3. r = <<>> => a = d  BY <1>1, ConcatEmptySeq
<1>4. Len(r) = 0 <=> r = <<>>  BY <1>1, EmptySeq
<1> QED BY <1>1, <1>2, <1>3, <1>4

\* A request of a segment and what is left after it make up what was left.
FirstSegment(t, r) ==
  Segment("download_segment", t, Take(r, SegmentData), Len(r) <= SegmentData)

LEMMA SegmentCut ==
  ASSUME NEW a \in Text, NEW r \in Text, NEW t
  PROVE  /\ FirstSegment(t, r).cmd = "download_segment" /\ FirstSegment(t, r).toggle = t
         /\ (a \o Unpad(FirstSegment(t, r))) \o Skip(r, SegmentData) = a \o r
         /\ FirstSegment(t, r).last <=> Skip(r, SegmentData) = <<>>
<1> PICK m : m = FirstSegment(t, r)  OBVIOUS
<1>0. m = Segment("download_segment", t, Take(r, SegmentData), Len(r) <= SegmentData)
  BY Zenon DEF FirstSegment
<1>1. PICK s \in Nat : s = SegmentData /\ 7 <= s
  BY Parameters DEF SegmentData, MinSegment
<1>2. a \in Seq(Octet) /\ r \in Seq(Octet) /\ Len(r) \in Nat  BY DEF Text
<1>3. PICK d : d = Take(r, s)  OBVIOUS
<1>4. PICK e : e = Skip(r, s)  OBVIOUS
<1>5. /\ d \in Seq(Octet) /\ Len(d) = (IF s < Len(r) THEN s ELSE Len(r))
      /\ e \in Seq(Octet) /\ Len(e) = (IF s < Len(r) THEN Len(r) - s ELSE 0)
  BY <1>1, <1>2, <1>3, <1>4, Pieces
<1>6. PICK last \in BOOLEAN :
        m = Segment("download_segment", t, d, last) /\ (last <=> Len(r) <= s)
  <2>1. CASE Len(r) <= s
    <3>1. (Len(r) <= s) = TRUE  BY <2>1
    <3>2. m = Segment("download_segment", t, d, TRUE)  BY <1>0, <1>1, <1>3, <3>1, Zenon
    <3> QED BY <2>1, <3>2
  <2>2. CASE ~ (Len(r) <= s)
    <3>1. (Len(r) <= s) = FALSE  BY <2>2
    <3>2. m = Segment("download_segment", t, d, FALSE)  BY <1>0, <1>1, <1>3, <3>1, Zenon
    <3> QED BY <2>2, <3>2
  <2> QED BY <2>1, <2>2
<1>7. m.cmd = "download_segment" /\ m.toggle = t /\ m.last = last  BY <1>6 DEF Segment
<1>8. last \/ MinSegment <= Len(d)
  <2>1. CASE Len(r) <= s  BY <1>6, <2>1
  <2>2. CASE ~ (Len(r) <= s)  BY <1>1, <1>2, <1>5, <2>2 DEF MinSegment
  <2> QED BY <2>1, <2>2
<1>9. Unpad(m) = d  BY <1>5, <1>6, <1>8, Unpadded DEF Text
<1>10. (a \o d) \o e = a \o r
  <2>1. d \o e = r  BY <1>1, <1>2, <1>3, <1>4, Rejoined
  <2>2. (a \o d) \o e = a \o (d \o e)
    <3>1. a \in Seq(Octet) /\ d \in Seq(Octet) /\ e \in Seq(Octet)  BY <1>2, <1>5
    <3> QED BY <3>1, Joined
  <2> QED BY <2>1, <2>2
<1>11. e = <<>> <=> Len(r) <= s
  <2>1. e = <<>> <=> Len(e) = 0  BY <1>5, EmptySeq
  <2>2. Len(e) = 0 <=> Len(r) <= s  BY <1>1, <1>2, <1>5
  <2> QED BY <2>1, <2>2
<1> QED BY <1>1, <1>4, <1>6, <1>7, <1>9, <1>10, <1>11

\* Confirmations that come and go.
LEMMA Confirmations ==
  /\ Confirmed(<<>>)
  /\ \A q : q \in Seq(Range(q)) /\ Confirmed(q) =>
       /\ \A m : m.cmd = "segment_written" => Confirmed(q \o <<m>>)
       /\ q # <<>> => Confirmed(Tail(q)) /\ q[1].cmd = "segment_written"
<1>1. Confirmed(<<>>)
  <2>1. 1 .. Len(<<>>) = {}  OBVIOUS
  <2> QED BY <2>1, Zenon DEF Confirmed
<1>2. ASSUME NEW q, q \in Seq(Range(q)), Confirmed(q), NEW m, m.cmd = "segment_written"
      PROVE  Confirmed(q \o <<m>>)
  <2>1. PICK r : r = q \o <<m>>  OBVIOUS
  <2>2. /\ Len(q) \in Nat /\ Len(r) = Len(q) + 1
        /\ \A i \in 1 .. Len(q) : r[i] = q[i]
        /\ r[Len(q) + 1] = m
    BY <1>2, <2>1, Longer
  <2>3. ASSUME NEW k \in 1 .. Len(r) PROVE r[k].cmd = "segment_written"
    <3>1. k \in 1 .. Len(q) \/ k = Len(q) + 1  BY <2>2
    <3> QED BY <1>2, <2>2, <3>1 DEF Confirmed
  <2> QED BY <2>1, <2>3, Zenon DEF Confirmed
<1>3. ASSUME NEW q, q \in Seq(Range(q)), Confirmed(q), q # <<>>
      PROVE  Confirmed(Tail(q)) /\ q[1].cmd = "segment_written"
  <2>1. PICK r : r = Tail(q)  OBVIOUS
  <2>2. /\ Len(q) \in Nat \ {0} /\ Len(r) = Len(q) - 1
        /\ \A i \in 1 .. Len(r) : r[i] = q[i + 1]
    BY <1>3, <2>1, Shorter
  <2>3. ASSUME NEW k \in 1 .. Len(r) PROVE r[k].cmd = "segment_written"
    <3>1. k + 1 \in 1 .. Len(q)  BY <2>2
    <3> QED BY <1>3, <2>2, <3>1 DEF Confirmed
  <2>4. 1 \in 1 .. Len(q)  BY <2>2
  <2> QED BY <1>3, <2>1, <2>3, <2>4, Zenon DEF Confirmed
<1> QED BY <1>1, <1>2, <1>3

\* The next segment of a download.
LEMMA DownloadGoesOn ==
  ASSUME TalkTypes, job.kind = "write", job' = job, NEW t, NextDownload(t), NEW r,
         \/ /\ Awaits(t)' /\ Confirmed(r) /\ (mishaps' = 0 => r = <<>>)
            /\ server'.data \in Text /\ server'.data \o rest = job.data
         \/ /\ mishaps' = 1 /\ r = <<>>
            /\ ~ (server'.mode = "download" /\ server'.toggle = t)
  PROVE  WriteTalk(r)'
<1>1. /\ at' = "send" /\ stage' = "segments" /\ toggle' = t /\ rest' = Skip(rest, SegmentData)
      /\ MbxOut' = Segment("download_segment", t, Take(rest, SegmentData),
                           Len(rest) <= SegmentData)
  BY DEF NextDownload
<1>2. rest \in Text  BY DEF TalkTypes, CallTypes
<1>3. SegmentReady(r)'
  <2>1. MbxOut'.cmd = "download_segment" /\ MbxOut'.toggle = toggle'
    BY <1>1 DEF Segment
  <2>2. CASE /\ Awaits(t)' /\ Confirmed(r) /\ (mishaps' = 0 => r = <<>>)
             /\ server'.data \in Text /\ server'.data \o rest = job.data
    <3>1. PICK a : a = server'.data  OBVIOUS
    <3>2. /\ (a \o Unpad(MbxOut)') \o rest' = a \o rest
          /\ MbxOut'.last <=> rest' = <<>>
      <4>1. PICK m, e : m = MbxOut' /\ e = rest  OBVIOUS
      <4>2. /\ (a \o Unpad(m)) \o Skip(e, SegmentData) = a \o e
            /\ m.last <=> Skip(e, SegmentData) = <<>>
        <5>1. a \in Text /\ e \in Text  BY <1>2, <2>2, <3>1, <4>1
        <5>2. m = FirstSegment(t, e)  BY <1>1, <4>1, Zenon DEF FirstSegment
        <5>3. a \in Text  BY <5>1
        <5>4. e \in Text  BY <5>1
        <5>5. /\ (a \o Unpad(FirstSegment(t, e))) \o Skip(e, SegmentData) = a \o e
              /\ FirstSegment(t, e).last <=> Skip(e, SegmentData) = <<>>
          <6>1. (a \o Unpad(FirstSegment(t, e))) \o Skip(e, SegmentData) = a \o e
            BY <5>3, <5>4, SegmentCut
          <6>2. FirstSegment(t, e).last <=> Skip(e, SegmentData) = <<>>
            BY <5>3, <5>4, SegmentCut, Zenon
          <6> QED BY <6>1, <6>2
        <5> QED BY <5>2, <5>5, Zenon
      <4>3. Unpad(m) = Unpad(MbxOut)'  BY <4>1 DEF Unpad
      <4> QED BY <1>1, <4>1, <4>2, <4>3
    <3>3. Awaits(toggle)'  BY <1>1, <2>2 DEF Awaits
    <3> QED BY <2>1, <2>2, <3>1, <3>2, <3>3 DEF SegmentReady
  <2>3. CASE /\ mishaps' = 1 /\ r = <<>>
             /\ ~ (server'.mode = "download" /\ server'.toggle = t)
    BY <1>1, <2>1, <2>3 DEF SegmentReady
  <2> QED BY <2>2, <2>3
<1> QED BY <1>1, <1>3, Zenon DEF WriteTalk

\* The slave has the beginning of the data, and with the request more of it.
LEMMA ServedSegment ==
  ASSUME TalkTypes, job.kind = "write", NEW t \in BOOLEAN, Awaits(t), NEW q, Waiting(box, q),
         Confirmed(q), MbxOut.cmd = "download_segment", MbxOut.toggle = t,
         (server.data \o Unpad(MbxOut)) \o rest = job.data, MbxOut.last <=> rest = <<>>,
         SdoServe(MbxOut)
  PROVE  /\ \E m : Waiting(box', q \o <<m>>) /\ Confirmed(q \o <<m>>)
         /\ rest = <<>> => objects'[job.idx] = job.data
         /\ rest # <<>> =>
              /\ server' = [server EXCEPT !.data = server'.data, !.toggle = ~ t]
              /\ server'.data \in Text /\ server'.data \o rest = job.data
<1>1. DownloadSegment(MbxOut)
  BY DEF SdoServe, Upload, UploadSegment, Download
<1>2. /\ server \in [mode : {"download"}, idx : Indexes, size : Nat, data : Text,
                     toggle : BOOLEAN]
      /\ rest \in Text /\ MbxOut \in Requests /\ objects \in [Stored -> Text]
      /\ job.idx \in Indexes
  BY ServerIs DEF Awaits, TalkTypes, SlaveTypes, CallTypes, JobIs
<1>3. PICK d : d = server.data \o Unpad(MbxOut)  OBVIOUS
<1>4. d \in Text
  <2>1. MbxOut.data \in Text /\ MbxOut.unused \in Nat  BY <1>2, RequestIs
  <2>2. Unpad(MbxOut) \in Text
    <3>1. MinSegment - MbxOut.unused \in Int  BY <2>1 DEF MinSegment
    <3>2. Take(MbxOut.data, MinSegment - MbxOut.unused) \in Text  BY <2>1, <3>1, TextIs
    <3> QED BY <2>1, <3>2 DEF Unpad
  <2>3. server.data \in Text  BY <1>2
  <2> QED BY <1>3, <2>2, <2>3, TextIs
<1>5. /\ rest = <<>> => d = job.data
      /\ Len(d) = Len(job.data) <=> rest = <<>>
  BY <1>2, <1>3, <1>4, NothingLeft
<1>6. /\ server.mode = "download" /\ server.toggle = MbxOut.toggle
      /\ MbxOut.last <=> Len(d) = server.size
  BY <1>5 DEF Awaits
<1>7. /\ Answer([cmd |-> "segment_written", idx |-> "none"])
      /\ IF MbxOut.last
         THEN Accept(server.idx, d)
         ELSE /\ server' = [server EXCEPT !.data = d, !.toggle = ~ @]
              /\ UNCHANGED objects
  BY <1>1, <1>3, <1>6, Zenon DEF DownloadSegment
<1>8. PICK m : m = [cmd |-> "segment_written", idx |-> "none"]  OBVIOUS
<1>9. m.cmd = "segment_written" /\ m.cmd # "eoe"  BY <1>8
<1>10. Waiting(box', q \o <<m>>)  BY <1>7, <1>8, <1>9, Answered
<1>11. Confirmed(q \o <<m>>)
  <2>1. q \in Seq(Range(q))  BY Arrangement
  <2> QED BY <1>9, <2>1, Confirmations
<1>12. ASSUME rest = <<>> PROVE objects'[job.idx] = job.data
  <2>1. objects' = [objects EXCEPT ![job.idx] = d]  BY <1>7, <1>12 DEF Accept, Awaits
  <2>2. job.idx \in Stored  BY <1>2 DEF Stored
  <2> QED BY <1>2, <1>5, <1>12, <2>1, <2>2
<1>13. ASSUME rest # <<>>
       PROVE  /\ server' = [server EXCEPT !.data = server'.data, !.toggle = ~ t]
              /\ server'.data = d
  <2>1. server' = [server EXCEPT !.data = d, !.toggle = ~ @]  BY <1>7, <1>13
  <2>2. server.toggle = t  BY DEF Awaits
  <2> QED BY <1>2, <2>1, <2>2
<1> QED BY <1>3, <1>4, <1>10, <1>11, <1>12, <1>13

LEMMA WriteFirst ==
  ASSUME TalkTypes, job.kind = "write", running, NEW q, Waiting(box, q), WriteTalk(q),
         stage = "first", SdoSend
  PROVE  \E r : Waiting(box', r) /\ WriteTalk(r)'
<1>1. /\ at = "send" /\ at' = "receive" /\ stage' = "first"
      /\ UNCHANGED <<job, rest, MbxOut, toggle>> /\ SdoServe(MbxOut)
  BY DEF SdoSend, Sent, locals
<1>2. /\ q = <<>>
      /\ MbxOut = [cmd |-> "download", idx |-> job.idx, size |-> Len(job.data),
                   data |-> MbxOut.data]
      /\ MbxOut.data \o rest = job.data
  BY <1>1 DEF WriteTalk, FirstRequest
<1>3. PICK e : e = MbxOut.data  OBVIOUS
<1>4. /\ MbxOut.cmd = "download" /\ MbxOut.idx = job.idx /\ MbxOut.size = Len(job.data)
      /\ e \o rest = job.data
  BY <1>2, <1>3
<1>5. /\ e \in Text /\ rest \in Text /\ job.idx \in Indexes /\ objects \in [Stored -> Text]
  BY <1>3, <1>4, RequestIs DEF TalkTypes, CallTypes, SlaveTypes, JobIs
<1>6. /\ rest = <<>> => e = job.data
      /\ Len(e) = Len(job.data) <=> rest = <<>>
  BY <1>4, <1>5, NothingLeft
<1>7. Download(MbxOut)
  BY <1>1, <1>4 DEF SdoServe, Upload, UploadSegment, DownloadSegment
<1>8. ASSUME NEW m, Answer(m), m.cmd # "eoe", DownloadBegun(<<m>>)'
      PROVE  \E r : Waiting(box', r) /\ WriteTalk(r)'
  <2>1. Waiting(box', <<m>>)  BY <1>2, <1>8, AnsweredFirst
  <2>2. WriteTalk(<<m>>)'  BY <1>1, <1>8, Zenon DEF WriteTalk
  <2> QED BY <2>1, <2>2
<1>9. CASE Abort
  <2>1. PICK m : m = [cmd |-> "abort", idx |-> "none"]  OBVIOUS
  <2>2. m.cmd = "abort" /\ Len(<<m>>) = 1 /\ <<m>>[1] = m  BY <2>1
  <2>3. DownloadBegun(<<m>>)'  BY <2>2 DEF DownloadBegun
  <2> QED BY <1>8, <1>9, <2>1, <2>2, <2>3 DEF Abort
<1>10. CASE /\ Answer([cmd |-> "written", idx |-> MbxOut.idx, size |-> 0, data |-> <<>>])
            /\ IF Len(e) = MbxOut.size
               THEN Accept(MbxOut.idx, e)
               ELSE /\ server' = [mode |-> "download", idx |-> MbxOut.idx,
                                  size |-> MbxOut.size, data |-> e, toggle |-> FALSE]
                    /\ UNCHANGED objects
  <2>1. PICK m : m = [cmd |-> "written", idx |-> MbxOut.idx, size |-> 0, data |-> <<>>]
    OBVIOUS
  <2>2. m.cmd # "eoe" /\ Len(<<m>>) = 1 /\ Answer(m)  BY <1>10, <2>1
  <2>3. CASE rest = <<>>
    <3>1. objects' = [objects EXCEPT ![job.idx] = e]  BY <1>4, <1>6, <1>10, <2>3 DEF Accept
    <3>2. job.idx \in Stored  BY <1>5 DEF Stored
    <3>3. objects'[job.idx] = job.data  BY <1>5, <1>6, <2>3, <3>1, <3>2
    <3>4. DownloadBegun(<<m>>)'  BY <1>1, <2>2, <2>3, <3>3 DEF DownloadBegun
    <3> QED BY <1>8, <2>2, <3>4
  <2>4. CASE rest # <<>>
    <3>1. server' = [mode |-> "download", idx |-> job.idx, size |-> Len(job.data),
                     data |-> e, toggle |-> FALSE]
      BY <1>4, <1>6, <1>10, <2>4
    <3>2. Awaits(FALSE)' /\ server'.data = e  BY <1>1, <3>1 DEF Awaits
    <3>3. DownloadBegun(<<m>>)'  BY <1>1, <1>4, <2>2, <2>4, <3>2 DEF DownloadBegun
    <3> QED BY <1>8, <2>2, <3>3
  <2> QED BY <2>3, <2>4
<1> QED BY <1>3, <1>7, <1>9, <1>10 DEF Download

LEMMA WriteSegment ==
  ASSUME TalkTypes, job.kind = "write", running, NEW q, Waiting(box, q), WriteTalk(q),
         stage # "first", SdoSend
  PROVE  \E r : Waiting(box', r) /\ WriteTalk(r)'
<1>1. /\ at = "send" /\ at' = "receive" /\ stage' # "first" /\ mishaps' = mishaps
      /\ UNCHANGED <<job, rest, MbxOut, toggle>> /\ SdoServe(MbxOut)
  BY DEF SdoSend, Sent, locals
<1>2. SegmentReady(q)  BY <1>1 DEF WriteTalk
<1>3. MbxOut.cmd = "download_segment" /\ MbxOut.toggle = toggle /\ toggle \in BOOLEAN
  BY <1>2 DEF SegmentReady, TalkTypes
<1>4. ASSUME NEW r, SegmentGiven(r)'
      PROVE  WriteTalk(r)'
  BY <1>1, <1>4, Zenon DEF WriteTalk
<1>5. CASE /\ Awaits(toggle) /\ (server.data \o Unpad(MbxOut)) \o rest = job.data
           /\ MbxOut.last <=> rest = <<>>
           /\ Confirmed(q) /\ (mishaps = 0 => q = <<>>)
  <2>1. /\ \E m : Waiting(box', q \o <<m>>) /\ Confirmed(q \o <<m>>)
        /\ rest = <<>> => objects'[job.idx] = job.data
        /\ rest # <<>> =>
             /\ server' = [server EXCEPT !.data = server'.data, !.toggle = ~ toggle]
             /\ server'.data \in Text /\ server'.data \o rest = job.data
    BY <1>1, <1>3, <1>5, ServedSegment
  <2>2. PICK m : Waiting(box', q \o <<m>>) /\ Confirmed(q \o <<m>>)  BY <2>1, Zenon
  <2>3. PICK r : r = q \o <<m>>  OBVIOUS
  <2>4. r # <<>> /\ Confirmed(r) /\ (mishaps' = 0 => Len(r) = 1)
    <3>1. q \in Seq(Range(q))  BY Arrangement
    <3>2. Len(r) = Len(q) + 1 /\ r # <<>> /\ Len(q) \in Nat  BY <2>3, <3>1, Longer
    <3>3. q = <<>> => Len(r) = 1  BY <3>2
    <3> QED BY <1>1, <1>5, <2>2, <2>3, <3>2, <3>3
  <2>5. rest # <<>> => Awaits(~ toggle)'
    <3>1. server \in [mode : {"download"}, idx : Indexes, size : Nat, data : Text,
                      toggle : BOOLEAN]
      BY <1>5, ServerIs DEF Awaits, TalkTypes, SlaveTypes
    <3>2. ASSUME rest # <<>>
          PROVE  /\ server'.mode = "download" /\ server'.idx = job'.idx
                 /\ server'.size = Len(job'.data) /\ server'.toggle = ~ toggle'
      <4>1. server' = [server EXCEPT !.data = server'.data, !.toggle = ~ toggle]
        BY <2>1, <3>2
      <4>2. /\ server'.mode = server.mode /\ server'.idx = server.idx
            /\ server'.size = server.size /\ server'.toggle = ~ toggle
        BY <3>1, <4>1
      <4> QED BY <1>1, <1>5, <4>2 DEF Awaits
    <3> QED BY <3>2 DEF Awaits
  <2>6. SegmentGiven(r)'
    <3>1. CASE rest = <<>>  BY <1>1, <2>1, <2>4, <3>1 DEF SegmentGiven
    <3>2. CASE rest # <<>>  BY <1>1, <2>1, <2>4, <2>5, <3>2 DEF SegmentGiven
    <3> QED BY <3>1, <3>2
  <2> QED BY <1>4, <2>2, <2>3, <2>6
<1>6. CASE /\ mishaps = 1 /\ q = <<>>
           /\ ~ (server.mode = "download" /\ server.toggle = toggle)
  <2>1. DownloadSegment(MbxOut)
    BY <1>1, <1>3 DEF SdoServe, Upload, UploadSegment, Download
  <2>2. Abort  BY <1>3, <1>6, <2>1, Zenon DEF DownloadSegment
  <2>3. PICK m : m = [cmd |-> "abort", idx |-> "none"]  OBVIOUS
  <2>4. m.cmd = "abort" /\ <<m>>[1] = m /\ <<m>> # <<>> /\ Answer(m)
    BY <2>2, <2>3 DEF Abort
  <2>5. Waiting(box', <<m>>)  BY <1>6, <2>4, AnsweredFirst
  <2>6. SegmentGiven(<<m>>)'  BY <1>1, <1>6, <2>4 DEF SegmentGiven
  <2> QED BY <1>4, <2>5, <2>6
<1> QED BY <1>2, <1>5, <1>6 DEF SegmentReady

\* A failure of a followed download is its first one.
LEMMA FirstMishap ==
  ASSUME TalkTypes, running, Fault, mishaps' <= 1, ~ (at = "receive" /\ box = <<>>)
  PROVE  mishaps = 0 /\ mishaps' = 1
BY DEF Fault, TalkTypes

LEMMA WriteSendFails ==
  ASSUME TalkTypes, job.kind = "write", running, NEW q, Waiting(box, q), WriteTalk(q),
         SdoSendFails, mishaps' <= 1
  PROVE  \/ at' = "idle" /\ result' = "failed"
         \/ \E r : Waiting(box', r) /\ WriteTalk(r)'
<1>1. at = "send" /\ job' = job /\ Fault /\ Failed
  BY DEF SdoSendFails, Failing
<1>2. CASE Return("failed")  BY <1>2 DEF Return
<1>3. CASE stage # "first" /\ rest # <<>> /\ NextDownload(Flip(toggle))
  <2>1. mishaps = 0 /\ mishaps' = 1  BY <1>1, FirstMishap
  <2>2. SegmentReady(q)  BY <1>1, <1>3, Zenon DEF WriteTalk
  <2>3. MbxOut.cmd = "download_segment" /\ MbxOut.toggle = toggle /\ toggle \in BOOLEAN
    BY <2>2 DEF SegmentReady, TalkTypes
  <2>4. /\ Awaits(toggle) /\ (server.data \o Unpad(MbxOut)) \o rest = job.data
        /\ MbxOut.last <=> rest = <<>>
        /\ Confirmed(q) /\ q = <<>>
    BY <2>1, <2>2 DEF SegmentReady
  <2>5. server \in [mode : {"download"}, idx : Indexes, size : Nat, data : Text,
                    toggle : BOOLEAN]
    BY <2>4, ServerIs DEF Awaits, TalkTypes, SlaveTypes
  <2>6. CASE SdoServe(MbxOut)
    <3>1. /\ \E m : Waiting(box', q \o <<m>>) /\ Confirmed(q \o <<m>>)
          /\ server' = [server EXCEPT !.data = server'.data, !.toggle = ~ toggle]
          /\ server'.data \in Text /\ server'.data \o rest = job.data
      BY <1>3, <2>3, <2>4, <2>6, ServedSegment
    <3>2. PICK m : Waiting(box', q \o <<m>>) /\ Confirmed(q \o <<m>>)  BY <3>1, Zenon
    <3>3. PICK r : r = q \o <<m>>  OBVIOUS
    <3>4. PICK t : t = Flip(toggle)  OBVIOUS
    <3>5. Awaits(t)'
      <4>1. /\ server'.mode = server.mode /\ server'.idx = server.idx
            /\ server'.size = server.size /\ server'.toggle = ~ toggle
        BY <2>5, <3>1
      <4> QED BY <1>1, <2>4, <3>4, <4>1 DEF Awaits, Flip
    <3>6. WriteTalk(r)'
      BY <1>1, <1>3, <2>1, <3>1, <3>2, <3>3, <3>4, <3>5, DownloadGoesOn
    <3> QED BY <3>2, <3>3, <3>6
  <2>7. CASE UNCHANGED slaveState
    <3>1. server' = server /\ box' = box  BY <2>7 DEF slaveState
    <3>2. PICK t : t = Flip(toggle)  OBVIOUS
    <3>3. server.toggle = toggle /\ t # toggle  BY <2>3, <2>4, <3>2 DEF Awaits, Flip
    <3>4. mishaps' = 1 /\ q = <<>> /\ ~ (server'.mode = "download" /\ server'.toggle = t)
      BY <2>1, <2>4, <3>1, <3>3
    <3>5. WriteTalk(q)'  BY <1>1, <1>3, <3>2, <3>4, DownloadGoesOn
    <3> QED BY <3>1, <3>5
  <2> QED BY <2>6, <2>7 DEF SdoSendFails
<1> QED BY <1>1, <1>2, <1>3 DEF Failed

LEMMA WriteGivesUp ==
  ASSUME TalkTypes, job.kind = "write", running, NEW q, Waiting(box, q), WriteTalk(q),
         SdoTimesOut, mishaps' <= 1
  PROVE  \/ at' = "idle" /\ result' = "failed"
         \/ \E r : Waiting(box', r) /\ WriteTalk(r)'
<1>1. /\ at = "receive" /\ job' = job /\ Fault /\ Failed
      /\ server' = server /\ box' = box
  BY DEF SdoTimesOut, Failing, slaveState
<1>2. CASE Return("failed")  BY <1>2 DEF Return
<1>3. CASE stage # "first" /\ rest # <<>> /\ NextDownload(Flip(toggle))
  <2>1. SegmentGiven(q)  BY <1>1, <1>3, Zenon DEF WriteTalk
  <2>2. q # <<>>  BY <2>1 DEF SegmentGiven
  <2>3. box # <<>>  BY <2>2, SomeWait
  <2>4. mishaps = 0 /\ mishaps' = 1  BY <1>1, <2>3, FirstMishap
  <2>5. Confirmed(q) /\ Awaits(~ toggle) /\ server.data \o rest = job.data
    BY <1>3, <2>1, <2>4 DEF SegmentGiven
  <2>6. PICK t : t = Flip(toggle)  OBVIOUS
  <2>7. Awaits(t)' /\ server'.data \in Text /\ server'.data \o rest = job.data
    <3>1. server \in [mode : {"download"}, idx : Indexes, size : Nat, data : Text,
                      toggle : BOOLEAN]
      BY <2>5, ServerIs DEF Awaits, TalkTypes, SlaveTypes
    <3>2. Awaits(t)'  BY <1>1, <2>5, <2>6 DEF Awaits, Flip
    <3> QED BY <1>1, <2>5, <3>1, <3>2
  <2>8. WriteTalk(q)'  BY <1>1, <1>3, <2>4, <2>5, <2>6, <2>7, DownloadGoesOn
  <2> QED BY <1>1, <2>8
<1> QED BY <1>1, <1>2, <1>3 DEF Failed

LEMMA WriteReceived ==
  ASSUME TalkTypes, job.kind = "write", running, NEW q, Waiting(box, q), WriteTalk(q),
         SdoReceive
  PROVE  \/ at' = "idle" /\ result' = "failed"
         \/ at' = "idle" /\ objects'[job.idx] = job.data
         \/ \E r : Waiting(box', r) /\ WriteTalk(r)'
<1> PICK m : m = Head(box)  OBVIOUS
<1>1. /\ at = "receive" /\ MailRead /\ job' = job /\ objects' = objects /\ server' = server
      /\ mishaps' = mishaps
      /\ Uploaded(m) \/ SegmentUploaded(m) \/ Downloaded(m) \/ SegmentDownloaded(m)
         \/ Unexpected(m)
  BY DEF SdoReceive, MailRead
<1>2. ~ Uploaded(m) /\ ~ SegmentUploaded(m)  BY DEF Uploaded, SegmentUploaded
<1>3. CASE Unexpected(m)  BY <1>3 DEF Unexpected, Return
<1>4. CASE m.cmd = "eoe" \/ m.cmd = "abort"
  BY <1>1, <1>2, <1>3, <1>4 DEF Downloaded, SegmentDownloaded, Expected
<1>5. CASE q # <<>> /\ m = q[1] /\ Waiting(box', Tail(q)) /\ m.cmd # "abort"
  <2>1. q \in Seq(Range(q)) /\ toggle \in BOOLEAN  BY Arrangement DEF TalkTypes
  <2>2. ASSUME rest # <<>>, NEW t, Awaits(t), server.data \o rest = job.data,
               Confirmed(Tail(q)), mishaps = 0 => Tail(q) = <<>>, NextDownload(t)
        PROVE  WriteTalk(Tail(q))'
    <3>1. server \in [mode : {"download"}, idx : Indexes, size : Nat, data : Text,
                      toggle : BOOLEAN]
      BY <2>2, ServerIs DEF Awaits, TalkTypes, SlaveTypes
    <3>2. Awaits(t)'  BY <1>1, <2>2 DEF Awaits
    <3>3. PICK r : r = Tail(q)  OBVIOUS
    <3>4. /\ Awaits(t)' /\ Confirmed(r) /\ (mishaps' = 0 => r = <<>>)
          /\ server'.data \in Text /\ server'.data \o rest = job.data
      BY <1>1, <2>2, <3>1, <3>2, <3>3
    <3> QED BY <1>1, <2>2, <3>3, <3>4, DownloadGoesOn
  <2>3. CASE Downloaded(m)
    <3>1. stage = "first" /\ IF rest = <<>> THEN Return("ok") ELSE NextDownload(FALSE)
      BY <2>3 DEF Downloaded
    <3>2. DownloadBegun(q)  BY <1>1, <3>1, Zenon DEF WriteTalk
    <3>3. Tail(q) = <<>>  BY <1>5, <2>1, <3>2, Shorter DEF DownloadBegun
    <3>4. CASE rest = <<>>
      <4>1. objects[job.idx] = job.data  BY <1>5, <3>2, <3>4 DEF DownloadBegun
      <4> QED BY <1>1, <3>1, <3>4, <4>1 DEF Return
    <3>5. CASE rest # <<>>
      <4>1. Awaits(FALSE) /\ server.data \o rest = job.data
        BY <1>5, <3>2, <3>5 DEF DownloadBegun
      <4>2. Confirmed(Tail(q))  BY <3>3, Confirmations
      <4>3. WriteTalk(Tail(q))'  BY <2>2, <3>1, <3>3, <3>5, <4>1, <4>2
      <4> QED BY <1>5, <4>3
    <3> QED BY <3>4, <3>5
  <2>4. CASE SegmentDownloaded(m)
    <3>1. stage # "first" /\ IF rest = <<>> THEN Return("ok") ELSE NextDownload(Flip(toggle))
      BY <2>4 DEF SegmentDownloaded
    <3>2. SegmentGiven(q)  BY <1>1, <3>1, Zenon DEF WriteTalk
    <3>3. /\ Confirmed(q) /\ (mishaps = 0 => Len(q) = 1)
          /\ \/ rest = <<>> /\ objects[job.idx] = job.data
             \/ rest # <<>> /\ Awaits(~ toggle) /\ server.data \o rest = job.data
      BY <1>5, <3>2 DEF SegmentGiven
    <3>4. CASE rest = <<>>  BY <1>1, <3>1, <3>3, <3>4 DEF Return
    <3>5. CASE rest # <<>>
      <4>1. Confirmed(Tail(q))  BY <1>5, <2>1, <3>3, Confirmations
      <4>2. mishaps = 0 => Tail(q) = <<>>  BY <1>5, <2>1, <3>3, Shorter
      <4>3. NextDownload(~ toggle)  BY <3>1, <3>5 DEF Flip
      <4>4. WriteTalk(Tail(q))'  BY <2>2, <3>3, <3>5, <4>1, <4>2, <4>3
      <4> QED BY <1>5, <4>4
    <3> QED BY <3>4, <3>5
  <2> QED BY <1>1, <1>2, <1>3, <2>3, <2>4
<1> QED BY <1>1, <1>4, <1>5, ReadMail
-----------------------------------------------------------------------------
(* The list of objects, and values in fragments.                           *)

\* As many pieces as it takes.
LEMMA Ceiling ==
  ASSUME NEW n \in Nat, NEW s \in Nat \ {0}, NEW c, c = (n + s - 1) \div s
  PROVE  c \in Nat /\ n <= c * s /\ (n > 0 => c > 0)
<1>1. PICK a \in Nat : a = n + s - 1  OBVIOUS
<1>2. c = a \div s  BY <1>1
<1>3. c \in Nat /\ c * s \in Nat /\ c * s <= a /\ a < c * s + s  BY <1>2, Division
<1>4. PICK z \in Nat : z = c * s  BY <1>3
<1>5. n <= z  BY <1>1, <1>3, <1>4
<1>6. ASSUME n > 0 PROVE c > 0
  <2>1. SUFFICES ASSUME c = 0 PROVE FALSE  BY <1>3
  <2>2. z = 0  BY <1>4, <2>1
  <2> QED BY <1>5, <1>6, <2>2
<1> QED BY <1>3, <1>4, <1>5, <1>6

LEMMA ListMailsAre ==
  ListData \in Nat \ {0} /\ SoeData \in Nat \ {0} /\ MaxODList \in Nat
BY Parameters, ServicesAssumption DEF ListData, SoeData

LEMMA ListBegins ==
  ASSUME NEW S, NEW w \in Seq(S), w # <<>>
  PROVE  /\ ListParts(w, 0, Mails(w))
         /\ \E T : Mails(w) \in Seq(T)
         /\ \A i \in 1 .. Len(Mails(w)) : ~ IsFragment(Mails(w)[i])
<1>1. PICK s \in Nat \ {0} : s = ListData  BY ListMailsAre
<1>2. Len(w) \in Nat /\ Len(w) > 0  BY EmptySeq
<1>3. PICK c : c = (Len(w) + s - 1) \div s  OBVIOUS
<1>4. c \in Nat /\ Len(w) <= c * s /\ c > 0  BY <1>2, <1>3, Ceiling
<1> DEFINE Part(k) == [cmd |-> "list", words |-> Take(Skip(w, (k - 1) * ListData), ListData),
                       fragments |-> c - k]
<1>5. PICK q : q = Mails(w)  OBVIOUS
<1>6. q = [k \in 1 .. c |-> Part(k)]  BY <1>1, <1>3, <1>5, Zenon DEF Mails
<1>7. PICK T : T = {Part(k) : k \in 1 .. c}  OBVIOUS
<1>8. q \in Seq(T) /\ Len(q) = c
  <2>1. q \in [1 .. c -> T]  BY <1>6, <1>7
  <2> QED BY <1>4, <2>1
<1>9. \A k \in 1 .. c :
        q[k] = [cmd |-> "list", words |-> Take(Skip(w, (k - 1) * ListData), ListData),
                fragments |-> c - k]
  BY <1>6, Zenon
<1>10. \A i \in 1 .. Len(q) : ~ IsFragment(q[i])
  <2>1. ASSUME NEW k \in 1 .. c PROVE q[k].cmd = "list"
    <3>1. PICK v, f : q[k] = [cmd |-> "list", words |-> v, fragments |-> f]  BY <1>9, Zenon
    <3> QED BY <3>1
  <2> QED BY <1>8, <2>1 DEF IsFragment
<1>11. ListParts(w, 0, q)
  <2>1. q # <<>>  BY <1>4, <1>8, EmptySeq
  <2>2. Len(w) <= 0 + Len(q) * ListData
    <3>1. 0 + Len(q) * ListData = c * s
      <4>1. c * s \in Nat  BY <1>4
      <4> QED BY <1>1, <1>8, <4>1
    <3> QED BY <1>4, <3>1
  <2>3. ASSUME NEW k \in 1 .. Len(q)
        PROVE  q[k] = [cmd |-> "list",
                       words |-> Take(Skip(w, 0 + (k - 1) * ListData), ListData),
                       fragments |-> Len(q) - k]
    <3>1. 0 + (k - 1) * ListData = (k - 1) * ListData
      <4>1. (k - 1) * s \in Int  BY <1>8, <1>4
      <4> QED BY <1>1, <4>1
    <3> QED BY <1>8, <1>9, <3>1
  <2> QED BY <2>1, <2>2, <2>3, Zenon DEF ListParts
<1> QED BY <1>5, <1>8, <1>10, <1>11

LEMMA ListLess ==
  ASSUME NEW w, Len(w) \in Nat, NEW b \in Nat, NEW q, q \in Seq(Range(q)), ListParts(w, b, q)
  PROVE  /\ Len(q) \in Nat \ {0}
         /\ q[1] = [cmd |-> "list", words |-> Take(Skip(w, b), ListData),
                    fragments |-> Len(q) - 1]
         /\ Len(q) = 1 => Len(w) <= b + ListData
         /\ Len(q) # 1 => ListParts(w, b + ListData, Tail(q))
<1>1. PICK s \in Nat \ {0} : s = ListData  BY ListMailsAre
<1>2. q # <<>> /\ Len(w) <= b + Len(q) * s  BY <1>1 DEF ListParts
<1>3. PICK n : n = Len(q)  OBVIOUS
<1>4. \A k \in 1 .. n :
        q[k] = [cmd |-> "list", words |-> Take(Skip(w, b + (k - 1) * s), s), fragments |-> n - k]
  BY <1>1, <1>3 DEF ListParts
<1>5. PICK r : r = Tail(q)  OBVIOUS
<1>6. n \in Nat \ {0} /\ Len(r) = n - 1 /\ \A i \in 1 .. Len(r) : r[i] = q[i + 1]
  BY <1>2, <1>3, <1>5, Shorter
<1>7. q[1] = [cmd |-> "list", words |-> Take(Skip(w, b), s), fragments |-> n - 1]
  <2>1. 1 \in 1 .. n /\ b + (1 - 1) * s = b  BY <1>6
  <2> QED BY <1>4, <2>1
<1>8. n = 1 => Len(w) <= b + s
  <2>1. ASSUME n = 1 PROVE n * s = s  BY <2>1
  <2> QED BY <1>2, <1>3, <2>1
<1>9. ASSUME n # 1 PROVE ListParts(w, b + s, r)
  <2>1. r # <<>>  BY <1>6, <1>9
  <2>2. Len(w) <= (b + s) + Len(r) * s
    <3>1. n * s = (n - 1) * s + s  BY <1>6
    <3>2. n * s \in Int /\ (n - 1) * s \in Int  BY <1>6
    <3>3. b + n * s = (b + s) + (n - 1) * s  BY <3>1, <3>2
    <3> QED BY <1>2, <1>3, <1>6, <3>3
  <2>3. ASSUME NEW k \in 1 .. Len(r)
        PROVE  r[k] = [cmd |-> "list", words |-> Take(Skip(w, (b + s) + (k - 1) * s), s),
                       fragments |-> Len(r) - k]
    <3>1. PICK j : j = k + 1  OBVIOUS
    <3>2. j \in 1 .. n /\ r[k] = q[j] /\ k \in Nat /\ n - j = Len(r) - k  BY <1>6, <3>1
    <3>3. b + (j - 1) * s = (b + s) + (k - 1) * s
      <4>1. j - 1 = k  BY <3>1, <3>2
      <4>2. k * s = (k - 1) * s + s  BY <3>2
      <4>3. (k - 1) * s \in Int /\ k * s \in Int  BY <3>2
      <4> QED BY <4>1, <4>2, <4>3
    <3>4. q[j] = [cmd |-> "list", words |-> Take(Skip(w, b + (j - 1) * s), s),
                  fragments |-> n - j]
      BY <1>4, <3>2
    <3> QED BY <3>2, <3>3, <3>4
  <2> QED BY <1>1, <2>1, <2>2, <2>3, Zenon DEF ListParts
<1> QED BY <1>1, <1>3, <1>5, <1>6, <1>7, <1>8, <1>9

LEMMA TailConcat ==
  ASSUME NEW S, NEW a \in Seq(S), NEW e \in Seq(S), a # <<>>
  PROVE  Tail(a \o e) = Tail(a) \o e
<1>1. PICK c : c = a \o e  OBVIOUS
<1>2. PICK t : t = Tail(a)  OBVIOUS
<1>3. /\ c \in Seq(S) /\ Len(c) = Len(a) + Len(e) /\ Len(a) \in Nat /\ Len(e) \in Nat
      /\ \A i \in 1 .. Len(a) + Len(e) : c[i] = IF i <= Len(a) THEN a[i] ELSE e[i - Len(a)]
  BY <1>1, ConcatProperties
<1>4. t \in Seq(S) /\ Len(t) = Len(a) - 1 /\ \A i \in 1 .. Len(t) : t[i] = a[i + 1]
  BY <1>2, HeadTailProperties
<1>5. Len(a) # 0  BY EmptySeq
<1>6. c # <<>>
  <2>1. Len(c) # 0  BY <1>3, <1>5
  <2> QED BY <1>3, <2>1, EmptySeq
<1>7. PICK u : u = Tail(c)  OBVIOUS
<1>8. u \in Seq(S) /\ Len(u) = Len(c) - 1 /\ \A i \in 1 .. Len(u) : u[i] = c[i + 1]
  BY <1>3, <1>6, <1>7, HeadTailProperties
<1>9. PICK v : v = t \o e  OBVIOUS
<1>10. /\ v \in Seq(S) /\ Len(v) = Len(t) + Len(e)
       /\ \A i \in 1 .. Len(t) + Len(e) : v[i] = IF i <= Len(t) THEN t[i] ELSE e[i - Len(t)]
  BY <1>4, <1>9, ConcatProperties
<1>11. Len(u) = Len(v)  BY <1>3, <1>4, <1>8, <1>10
<1>12. ASSUME NEW i \in 1 .. Len(u) PROVE u[i] = v[i]
  <2>1. PICK j : j = i + 1  OBVIOUS
  <2>2. i \in 1 .. Len(t) + Len(e) /\ j \in 1 .. Len(a) + Len(e) /\ u[i] = c[j]
    BY <1>3, <1>4, <1>8, <2>1
  <2>3. CASE i <= Len(t)
    <3>1. j <= Len(a) /\ i \in 1 .. Len(t)  BY <1>3, <1>4, <2>1, <2>2, <2>3
    <3>2. c[j] = a[j] /\ v[i] = t[i]  BY <1>3, <1>10, <2>2, <2>3, <3>1
    <3> QED BY <1>4, <2>1, <2>2, <3>1, <3>2
  <2>4. CASE ~ (i <= Len(t))
    <3>1. ~ (j <= Len(a)) /\ j - Len(a) = i - Len(t)  BY <1>3, <1>4, <2>1, <2>2, <2>4
    <3>2. c[j] = e[j - Len(a)] /\ v[i] = e[i - Len(t)]  BY <1>3, <1>10, <2>2, <2>4, <3>1
    <3> QED BY <2>2, <3>1, <3>2
  <2> QED BY <2>3, <2>4
<1>13. u = v  BY <1>8, <1>10, <1>11, <1>12, SeqEqual
<1> QED BY <1>1, <1>2, <1>7, <1>9, <1>13

\* The first word of the first mail is not of the list.
LEMMA WordsGoOn ==
  ASSUME NEW S, NEW w \in Seq(S), w # <<>>, NEW b \in Nat
  PROVE  /\ WordsTaken(w, b + ListData) = WordsTaken(w, b) \o
              (IF b = 0 THEN Tail(Take(Skip(w, b), ListData)) ELSE Take(Skip(w, b), ListData))
         /\ WordsTaken(w, b) \in Seq(S)
         /\ Len(w) <= b + ListData => WordsTaken(w, b + ListData) = Tail(w)
         /\ (IF b = 0 THEN Tail(Take(Skip(w, b), ListData))
             ELSE Take(Skip(w, b), ListData)) \in Seq(S)
<1>1. PICK s \in Nat \ {0} : s = ListData  BY ListMailsAre
<1>2. Len(w) \in Nat \ {0}  BY EmptySeq
<1>3. PICK e : e = Take(Skip(w, b), s)  OBVIOUS
<1>4. PICK a : a = Take(w, b)  OBVIOUS
<1>5. PICK f : f = Take(w, b + s)  OBVIOUS
<1>6. a \in Seq(S) /\ f \in Seq(S) /\ e \in Seq(S) /\ f = a \o e
  <2>1. Skip(w, b) \in Seq(S)  BY Pieces
  <2>2. e \in Seq(S)  BY <1>1, <1>3, <2>1, Pieces
  <2>3. a \in Seq(S) /\ f \in Seq(S)  BY <1>1, <1>4, <1>5, Pieces
  <2>4. f = a \o e  BY <1>1, <1>3, <1>4, <1>5, TakeMore
  <2> QED BY <2>2, <2>3, <2>4
<1>7. f # <<>>
  <2>1. Len(f) = (IF b + s < Len(w) THEN b + s ELSE Len(w))  BY <1>1, <1>5, Pieces
  <2>2. Len(f) # 0  BY <1>1, <1>2, <2>1
  <2> QED BY <1>6, <2>2
<1>8. WordsTaken(w, b + s) = Tail(f)  BY <1>1, <1>5 DEF WordsTaken
<1>9. Len(w) <= b + s => f = w  BY <1>1, <1>5, TakeAll
<1>10. CASE b = 0
  <2>1. a = <<>> /\ WordsTaken(w, b) = <<>>  BY <1>4, <1>10, TakeNone DEF WordsTaken
  <2>2. f = e  BY <1>6, <2>1, ConcatEmptySeq
  <2>3. Tail(f) \in Seq(S)  BY <1>6, <1>7, HeadTailProperties
  <2>4. <<>> \o Tail(f) = Tail(f)  BY <2>3, ConcatEmptySeq
  <2>5. (IF b = 0 THEN Tail(e) ELSE e) = Tail(f)  BY <1>10, <2>2
  <2>6. WordsTaken(w, b) \in Seq(S)  BY <2>1
  <2>7. Len(w) <= b + s => Tail(f) = Tail(w)  BY <1>9
  <2> QED BY <1>1, <1>3, <1>8, <2>1, <2>3, <2>4, <2>5, <2>6, <2>7
<1>11. CASE b # 0
  <2>1. WordsTaken(w, b) = Tail(a)  BY <1>4, <1>11 DEF WordsTaken
  <2>2. a # <<>>
    <3>1. Len(a) = (IF b < Len(w) THEN b ELSE Len(w))  BY <1>4, Pieces
    <3>2. Len(a) # 0  BY <1>2, <1>11, <3>1
    <3> QED BY <1>6, <3>2
  <2>3. Tail(a) \in Seq(S)  BY <1>6, <2>2, HeadTailProperties
  <2>4. Tail(a \o e) = Tail(a) \o e  BY <1>6, <2>2, TailConcat
  <2> QED BY <1>1, <1>3, <1>6, <1>8, <1>9, <1>11, <2>1, <2>3, <2>4
<1> QED BY <1>10, <1>11

LEMMA AllWordsAre ==
  ASSUME TalkTypes
  PROVE  \E S : AllWords \in Seq(S) /\ AllWords # <<>> /\ Tail(AllWords) = objects["list"]
<1> PICK o : o = objects["list"]  OBVIOUS
<1> PICK h : h = <<"all_objects">>  OBVIOUS
<1>1. o \in Seq(Octet)  BY ObjectIs DEF TalkTypes, Text
<1>2. PICK S : S = Octet \union {h}  OBVIOUS
<1>3. Octet \subseteq S /\ h \in S  BY <1>2
<1>4. o \in Seq(S)  BY <1>1, <1>3, SeqMonotonic
<1>5. <<h>> \in Seq(S) /\ Len(<<h>>) = 1 /\ <<h>> # <<>>  BY <1>3
<1>6. PICK w : w = <<h>> \o o  OBVIOUS
<1>7. AllWords = w  BY <1>6 DEF AllWords
<1>8. w \in Seq(S) /\ Len(w) = Len(<<h>>) + Len(o) /\ Len(o) \in Nat
  BY <1>4, <1>5, <1>6, ConcatProperties
<1>9. w # <<>>
  <2>1. Len(w) # 0  BY <1>5, <1>8
  <2> QED BY <1>8, <2>1, EmptySeq
<1>10. Tail(w) = o
  <2>1. Tail(<<h>> \o o) = Tail(<<h>>) \o o  BY <1>4, <1>5, TailConcat
  <2>2. Tail(<<h>>) = <<>>
    <3>1. Tail(<<h>>) \in Seq(S) /\ Len(Tail(<<h>>)) = Len(<<h>>) - 1
      BY <1>5, HeadTailProperties
    <3>2. Len(Tail(<<h>>)) = 0  BY <1>5, <3>1
    <3> QED BY <3>1, <3>2, EmptySeq
  <2>3. <<>> \o o = o  BY <1>4, ConcatEmptySeq
  <2> QED BY <1>6, <2>1, <2>2, <2>3
<1> QED BY <1>7, <1>8, <1>9, <1>10

LEMMA ListSent ==
  ASSUME TalkTypes, job.kind = "list", running, NEW q, Waiting(box, q), ListTalk(q), InfoSend
  PROVE  \E r : Waiting(box', r) /\ ListTalk(r)'
<1>1. /\ at = "send" /\ at' = "receive"
      /\ UNCHANGED <<job, stage, bytes, MbxOut>> /\ InfoServe(MbxOut)
  BY DEF InfoSend, Sent, locals
<1>2. q = <<>> /\ MbxOut.cmd = "get_list" /\ bytes = <<>> /\ stage = "first" /\ job.idx = "list"
  BY <1>1 DEF ListTalk, FirstRequest
<1>3. box' = box \o Mails(AllWords) /\ objects' = objects
  <2>1. MbxOut.cmd # "rxpdo"  BY <1>2
  <2> QED BY <1>1, <1>2, <2>1 DEF InfoServe, AllWords
<1>4. PICK w : w = AllWords  OBVIOUS
<1>5. PICK S : w \in Seq(S) /\ w # <<>>  BY <1>4, AllWordsAre
<1>6. PICK r : r = Mails(w)  OBVIOUS
<1>7. /\ ListParts(w, 0, r) /\ \E T : r \in Seq(T)
      /\ \A i \in 1 .. Len(r) : ~ IsFragment(r[i])
  BY <1>5, <1>6, ListBegins
<1>8. PICK T : r \in Seq(T)  BY <1>7
<1>9. Waiting(box', r)
  <2>1. Waiting(box \o r, q \o r)  BY <1>7, <1>8, MailsCome
  <2>2. <<>> \o r = r  BY <1>8, ConcatEmptySeq
  <2> QED BY <1>2, <1>3, <1>4, <1>6, <2>1, <2>2
<1>10. ListTalk(r)'
  <2>1. w = AllWords'  BY <1>3, <1>4 DEF AllWords
  <2>2. Take(WordsTaken(w, 0), MaxODList) = <<>>
    <3>1. WordsTaken(w, 0) = <<>>  BY DEF WordsTaken
    <3>2. <<>> \in Seq({}) /\ Len(<<>>) = 0 /\ MaxODList \in Nat /\ 0 <= MaxODList
      BY ListMailsAre
    <3> QED BY <3>1, <3>2, TakeAll
  <2>3. /\ 0 \in Nat /\ bytes' = Take(WordsTaken(w, 0), MaxODList) /\ stage' = "first"
        /\ ListParts(w, 0, r)
    BY <1>1, <1>2, <1>7, <2>2
  <2>4. \E b \in Nat : /\ bytes' = Take(WordsTaken(w, b), MaxODList)
                       /\ b = 0 <=> stage' = "first"
                       /\ ListParts(w, b, r)
    BY <2>3
  <2> QED BY <1>1, <1>2, <2>1, <2>4 DEF ListTalk
<1> QED BY <1>9, <1>10

LEMMA ListMailRead ==
  ASSUME TalkTypes, job.kind = "list", running, NEW q, Waiting(box, q), ListTalk(q), MailRead,
         NEW m, m = Head(box), ListRead(m)
  PROVE  \/ at' = "idle" /\ bytes' = Take(objects["list"]', MaxODList)
         \/ \E r : Waiting(box', r) /\ ListTalk(r)'
<1>1. at = "receive" /\ job' = job /\ objects' = objects  BY DEF MailRead
<1>2. q # <<>> /\ m = q[1] /\ Waiting(box', Tail(q)) /\ q \in Seq(Range(q))
  <2>1. m.cmd = "list"  BY DEF ListRead
  <2> QED BY <2>1, ReadMail, Arrangement
<1>3. PICK w : w = AllWords  OBVIOUS
<1>4. job.idx = "list" /\ \E b \in Nat : /\ bytes = Take(WordsTaken(w, b), MaxODList)
                                         /\ b = 0 <=> stage = "first"
                                         /\ ListParts(w, b, q)
  BY <1>1, <1>3 DEF ListTalk
<1>5. PICK b \in Nat : /\ bytes = Take(WordsTaken(w, b), MaxODList)
                       /\ b = 0 <=> stage = "first"
                       /\ ListParts(w, b, q)
  BY <1>4
<1>6. PICK S : w \in Seq(S) /\ w # <<>> /\ Tail(w) = objects["list"]
  BY <1>3, AllWordsAre
<1>7. Len(w) \in Nat  BY <1>6
<1>8. PICK s \in Nat \ {0} : s = ListData  BY ListMailsAre
<1>9. PICK x : x = Take(Skip(w, b), s)  OBVIOUS
<1>10. /\ Len(q) \in Nat \ {0}
       /\ q[1] = [cmd |-> "list", words |-> x, fragments |-> Len(q) - 1]
       /\ Len(q) = 1 => Len(w) <= b + s
       /\ Len(q) # 1 => ListParts(w, b + s, Tail(q))
  BY <1>2, <1>5, <1>7, <1>8, <1>9, ListLess
<1>11. m.words = x /\ m.fragments = Len(q) - 1  BY <1>2, <1>10
<1>12. PICK c \in Nat : c = b + s /\ c # 0  BY <1>8
<1>13. PICK y : y = IF b = 0 THEN Tail(x) ELSE x  OBVIOUS
<1>14. PICK a : a = WordsTaken(w, b)  OBVIOUS
<1>15. /\ WordsTaken(w, c) = a \o y /\ a \in Seq(S) /\ y \in Seq(S)
       /\ Len(w) <= c => WordsTaken(w, c) = Tail(w)
  BY <1>6, <1>8, <1>9, <1>12, <1>13, <1>14, WordsGoOn
<1>16. bytes' = Take(WordsTaken(w, c), MaxODList)
  <2>1. Words(m) = y  BY <1>5, <1>11, <1>13 DEF Words
  <2>2. bytes' = Take(bytes \o Words(m), MaxODList)  BY DEF ListRead
  <2>3. bytes' = Take(Take(a, MaxODList) \o y, MaxODList)  BY <1>5, <1>14, <2>1, <2>2
  <2>4. MaxODList \in Nat  BY ListMailsAre
  <2>5. Take(Take(a, MaxODList) \o y, MaxODList) = Take(a \o y, MaxODList)
    BY <1>15, <2>4, CutOff
  <2> QED BY <1>15, <2>3, <2>5
<1>17. CASE Len(q) = 1
  <2>1. m.fragments = 0  BY <1>11, <1>17
  <2>2. Return("ok")  BY <2>1 DEF ListRead
  <2>3. WordsTaken(w, c) = objects["list"]  BY <1>6, <1>10, <1>12, <1>15, <1>17
  <2> QED BY <1>1, <1>16, <2>2, <2>3 DEF Return
<1>18. CASE Len(q) # 1
  <2>1. m.fragments # 0
    <3>1. PICK n : n = Len(q)  OBVIOUS
    <3>2. n \in Nat /\ n # 1  BY <1>10, <1>18, <3>1
    <3>3. n - 1 # 0  BY <3>2
    <3> QED BY <1>11, <3>1, <3>3, Zenon
  <2>2. stage' = "segments" /\ at' = at  BY <2>1 DEF ListRead
  <2>3. w = AllWords'  BY <1>1, <1>3 DEF AllWords
  <2>4. \E d \in Nat : /\ bytes' = Take(WordsTaken(w, d), MaxODList)
                       /\ d = 0 <=> stage' = "first"
                       /\ ListParts(w, d, Tail(q))
    <3>1. /\ bytes' = Take(WordsTaken(w, c), MaxODList) /\ (c = 0 <=> stage' = "first")
          /\ ListParts(w, c, Tail(q))
      BY <1>10, <1>12, <1>16, <1>18, <2>2
    <3> QED BY <3>1
  <2>5. at' = "receive" /\ job'.idx = "list"  BY <1>1, <1>4, <2>2
  <2>6. ListTalk(Tail(q))'  BY <2>3, <2>4, <2>5 DEF ListTalk
  <2> QED BY <1>2, <2>6
<1> QED BY <1>17, <1>18

LEMMA ListStep ==
  ASSUME TalkTypes, job.kind = "list", running, NEW q, Waiting(box, q), ListTalk(q), InfoStep
  PROVE  \/ at' = "idle" /\ result' = "failed"
         \/ at' = "idle" /\ bytes' = Take(objects["list"]', MaxODList)
         \/ \E r : Waiting(box', r) /\ ListTalk(r)'
<1>1. ASSUME NEW x, Concluded(x) PROVE Return(x)
  BY <1>1 DEF Concluded, NextEntry
<1>2. CASE Return("failed")  BY <1>2 DEF Return
<1>3. CASE InfoSend  BY <1>3, ListSent
<1>4. CASE InfoSendFails \/ InfoTimesOut  BY <1>1, <1>2, <1>4 DEF InfoSendFails, InfoTimesOut
<1>5. CASE InfoReceive
  <2> PICK m : m = Head(box)  OBVIOUS
  <2>1. /\ MailRead
        /\ ListRead(m) \/ DescriptionRead(m) \/ EntryRead(m) \/ TxPdoRead(m)
           \/ InfoUnexpected(m)
    BY <1>5 DEF InfoReceive
  <2>2. ~ DescriptionRead(m) /\ ~ EntryRead(m) /\ ~ TxPdoRead(m)
    BY DEF DescriptionRead, EntryRead, TxPdoRead
  <2>3. CASE InfoUnexpected(m)  BY <1>1, <1>2, <2>3 DEF InfoUnexpected
  <2>4. CASE ListRead(m)  BY <2>1, <2>4, ListMailRead
  <2> QED BY <2>1, <2>2, <2>3, <2>4
<1>6. ~ RxPdoSend  BY DEF RxPdoSend
<1> QED BY <1>3, <1>4, <1>5, <1>6 DEF InfoStep

LEMMA ValueBegins ==
  ASSUME NEW S, NEW w \in Seq(S)
  PROVE  /\ SoeParts(w, 0, ReadFragments(w))
         /\ \E T : ReadFragments(w) \in Seq(T)
         /\ \A i \in 1 .. Len(ReadFragments(w)) : ~ IsFragment(ReadFragments(w)[i])
<1>1. PICK s \in Nat \ {0} : s = SoeData  BY ListMailsAre
<1>2. Len(w) \in Nat /\ (Len(w) = 0 <=> w = <<>>)  BY EmptySeq
<1>3. PICK c : c = IF w = <<>> THEN 1 ELSE Fragments(Len(w))  OBVIOUS
<1>4. c \in Nat /\ Len(w) <= c * s /\ c > 0
  <2>1. CASE w = <<>>
    <3>1. c = 1 /\ Len(w) = 0 /\ 1 * s = s  BY <1>2, <1>3, <2>1
    <3> QED BY <3>1
  <2>2. CASE w # <<>>
    <3>1. c = (Len(w) + s - 1) \div s  BY <1>1, <1>3, <2>2 DEF Fragments
    <3>2. Len(w) > 0  BY <1>2, <2>2
    <3> QED BY <1>2, <3>1, <3>2, Ceiling
  <2> QED BY <2>1, <2>2
<1> DEFINE Part(k) == [cmd |-> "soe_read", data |-> Take(Skip(w, (k - 1) * SoeData), SoeData),
                       incomplete |-> k < c]
<1>5. PICK q : q = ReadFragments(w)  OBVIOUS
<1>6. q = [k \in 1 .. c |-> Part(k)]  BY <1>3, <1>5, Zenon DEF ReadFragments
<1>7. PICK T : T = {Part(k) : k \in 1 .. c}  OBVIOUS
<1>8. q \in Seq(T) /\ Len(q) = c
  <2>1. q \in [1 .. c -> T]  BY <1>6, <1>7
  <2> QED BY <1>4, <2>1
<1>9. \A k \in 1 .. c :
        q[k] = [cmd |-> "soe_read", data |-> Take(Skip(w, (k - 1) * SoeData), SoeData),
                incomplete |-> k < c]
  BY <1>6, Zenon
<1>10. \A i \in 1 .. Len(q) : ~ IsFragment(q[i])
  <2>1. ASSUME NEW k \in 1 .. c PROVE q[k].cmd = "soe_read"
    <3>1. PICK v, f : q[k] = [cmd |-> "soe_read", data |-> v, incomplete |-> f]  BY <1>9, Zenon
    <3> QED BY <3>1
  <2> QED BY <1>8, <2>1 DEF IsFragment
<1>11. SoeParts(w, 0, q)
  <2>1. q # <<>>  BY <1>4, <1>8, EmptySeq
  <2>2. Len(w) <= 0 + Len(q) * SoeData
    <3>1. 0 + Len(q) * SoeData = c * s
      <4>1. c * s \in Nat  BY <1>4
      <4> QED BY <1>1, <1>8, <4>1
    <3> QED BY <1>4, <3>1
  <2>3. ASSUME NEW k \in 1 .. Len(q)
        PROVE  q[k] = [cmd |-> "soe_read",
                       data |-> Take(Skip(w, 0 + (k - 1) * SoeData), SoeData),
                       incomplete |-> k < Len(q)]
    <3>1. 0 + (k - 1) * SoeData = (k - 1) * SoeData
      <4>1. (k - 1) * s \in Int  BY <1>8, <1>4
      <4> QED BY <1>1, <4>1
    <3> QED BY <1>8, <1>9, <3>1
  <2> QED BY <2>1, <2>2, <2>3, Zenon DEF SoeParts
<1> QED BY <1>5, <1>8, <1>10, <1>11

LEMMA ValueLess ==
  ASSUME NEW w, Len(w) \in Nat, NEW b \in Nat, NEW q, q \in Seq(Range(q)), SoeParts(w, b, q)
  PROVE  /\ Len(q) \in Nat \ {0}
         /\ q[1] = [cmd |-> "soe_read", data |-> Take(Skip(w, b), SoeData),
                    incomplete |-> 1 < Len(q)]
         /\ Len(q) = 1 => Len(w) <= b + SoeData
         /\ Len(q) # 1 => SoeParts(w, b + SoeData, Tail(q))
<1>1. PICK s \in Nat \ {0} : s = SoeData  BY ListMailsAre
<1>2. q # <<>> /\ Len(w) <= b + Len(q) * s  BY <1>1 DEF SoeParts
<1>3. PICK n : n = Len(q)  OBVIOUS
<1>4. \A k \in 1 .. n :
        q[k] = [cmd |-> "soe_read", data |-> Take(Skip(w, b + (k - 1) * s), s),
                incomplete |-> k < n]
  BY <1>1, <1>3 DEF SoeParts
<1>5. PICK r : r = Tail(q)  OBVIOUS
<1>6. n \in Nat \ {0} /\ Len(r) = n - 1 /\ \A i \in 1 .. Len(r) : r[i] = q[i + 1]
  BY <1>2, <1>3, <1>5, Shorter
<1>7. q[1] = [cmd |-> "soe_read", data |-> Take(Skip(w, b), s), incomplete |-> 1 < n]
  <2>1. 1 \in 1 .. n /\ b + (1 - 1) * s = b  BY <1>6
  <2> QED BY <1>4, <2>1
<1>8. n = 1 => Len(w) <= b + s
  <2>1. ASSUME n = 1 PROVE n * s = s  BY <2>1
  <2> QED BY <1>2, <1>3, <2>1
<1>9. ASSUME n # 1 PROVE SoeParts(w, b + s, r)
  <2>1. r # <<>>  BY <1>6, <1>9
  <2>2. Len(w) <= (b + s) + Len(r) * s
    <3>1. n * s = (n - 1) * s + s  BY <1>6
    <3>2. n * s \in Int /\ (n - 1) * s \in Int  BY <1>6
    <3>3. b + n * s = (b + s) + (n - 1) * s  BY <3>1, <3>2
    <3> QED BY <1>2, <1>3, <1>6, <3>3
  <2>3. ASSUME NEW k \in 1 .. Len(r)
        PROVE  r[k] = [cmd |-> "soe_read", data |-> Take(Skip(w, (b + s) + (k - 1) * s), s),
                       incomplete |-> k < Len(r)]
    <3>1. PICK j : j = k + 1  OBVIOUS
    <3>2. j \in 1 .. n /\ r[k] = q[j] /\ k \in Nat /\ (j < n <=> k < Len(r))
      BY <1>6, <3>1
    <3>5. (j < n) = (k < Len(r))  BY <3>2
    <3>3. b + (j - 1) * s = (b + s) + (k - 1) * s
      <4>1. j - 1 = k  BY <3>1, <3>2
      <4>2. k * s = (k - 1) * s + s  BY <3>2
      <4>3. (k - 1) * s \in Int /\ k * s \in Int  BY <3>2
      <4> QED BY <4>1, <4>2, <4>3
    <3>4. q[j] = [cmd |-> "soe_read", data |-> Take(Skip(w, b + (j - 1) * s), s),
                  incomplete |-> j < n]
      BY <1>4, <3>2
    <3> QED BY <3>2, <3>3, <3>4, <3>5, Zenon
  <2> QED BY <1>1, <2>1, <2>2, <2>3, Zenon DEF SoeParts
<1> QED BY <1>1, <1>3, <1>5, <1>6, <1>7, <1>8, <1>9

LEMMA ValueSent ==
  ASSUME TalkTypes, job.kind = "soe_read", running, NEW q, Waiting(box, q), SoeReadTalk(q),
         SoeSend
  PROVE  \E r : Waiting(box', r) /\ SoeReadTalk(r)'
<1>1. /\ at = "send" /\ UNCHANGED <<job, MbxOut, bytes>> /\ SoeServe(MbxOut)
      /\ at' = IF NotLast THEN "empty" ELSE "receive"
  BY DEF SoeSend, Sent, locals
<1>2. q = <<>> /\ bytes = <<>> /\ MbxOut = [cmd |-> "soe_readreq", idn |-> job.idx]
  BY <1>1 DEF SoeReadTalk, FirstRequest
<1>3. at' = "receive" /\ GiveValue(MbxOut) /\ MbxOut.idn = job.idx
  BY <1>1, <1>2 DEF NotLast, SoeServe, TakeFragment
<1>4. FirstRequest'
  BY <1>1, <1>2 DEF FirstRequest
<1>5. CASE Refuse
  <2>1. PICK m : m = [cmd |-> "soe_error"]  OBVIOUS
  <2>2. Answer(m) /\ m.cmd = "soe_error" /\ <<m>> # <<>> /\ <<m>>[1] = m
    BY <1>5, <2>1 DEF Refuse
  <2>3. Waiting(box', <<m>>)  BY <1>2, <2>2, AnsweredFirst
  <2>4. SoeReadTalk(<<m>>)'  BY <1>3, <1>4, <2>2 DEF SoeReadTalk
  <2> QED BY <2>3, <2>4
<1>6. CASE box' = box \o ReadFragments(objects[job.idx])
  <2>1. PICK o : o = objects[job.idx]  OBVIOUS
  <2>2. o \in Seq(Octet) /\ o = objects[job.idx]'
    <3>1. objects' = objects  BY <1>3 DEF GiveValue
    <3> QED BY <1>1, <2>1, <3>1, ObjectIs DEF TalkTypes, JobIs, Text
  <2>3. PICK r : r = ReadFragments(o)  OBVIOUS
  <2>4. /\ SoeParts(o, 0, r) /\ \E T : r \in Seq(T)
        /\ \A i \in 1 .. Len(r) : ~ IsFragment(r[i])
    BY <2>2, <2>3, ValueBegins
  <2>5. PICK T : r \in Seq(T)  BY <2>4
  <2>6. Waiting(box', r)
    <3>1. Waiting(box \o r, q \o r)  BY <2>4, <2>5, MailsCome
    <3>2. <<>> \o r = r  BY <2>5, ConcatEmptySeq
    <3> QED BY <1>2, <1>6, <2>1, <2>3, <3>1, <3>2
  <2>7. \E b \in Nat : /\ bytes' = Take(Take(o, b), job.psize)
                       /\ SoeParts(o, b, r)
    <3>1. Take(o, 0) = <<>>  BY <2>2, TakeNone
    <3>2. Take(<<>>, job.psize) = <<>>
      <4>1. <<>> \in Seq({}) /\ Len(<<>>) = 0 /\ job.psize \in Nat /\ 0 <= job.psize
        BY DEF TalkTypes, JobIs
      <4> QED BY <4>1, TakeAll
    <3>3. bytes' = Take(Take(o, 0), job.psize)  BY <1>1, <1>2, <3>1, <3>2
    <3> QED BY <2>4, <3>3
  <2>8. SoeReadTalk(r)'  BY <1>1, <1>3, <1>4, <2>2, <2>7 DEF SoeReadTalk
  <2> QED BY <2>6, <2>8
<1> QED BY <1>3, <1>5, <1>6 DEF GiveValue

LEMMA ValueRead ==
  ASSUME TalkTypes, job.kind = "soe_read", running, NEW q, Waiting(box, q), SoeReadTalk(q),
         MailRead, NEW m, m = Head(box), SoeValue(m)
  PROVE  \/ at' = "idle" /\ bytes' = Take(objects'[job.idx], job.psize)
         \/ \E r : Waiting(box', r) /\ SoeReadTalk(r)'
<1>1. at = "receive" /\ job' = job /\ objects' = objects  BY DEF MailRead
<1>2. q # <<>> /\ m = q[1] /\ Waiting(box', Tail(q)) /\ q \in Seq(Range(q))
  <2>1. m.cmd = "soe_read"  BY DEF SoeValue
  <2> QED BY <2>1, ReadMail, Arrangement
<1>3. PICK o : o = objects[job.idx]  OBVIOUS
<1>4. FirstRequest /\ \E b \in Nat : bytes = Take(Take(o, b), job.psize) /\ SoeParts(o, b, q)
  <2>1. q[1].cmd # "soe_error"  BY <1>2 DEF SoeValue
  <2> QED BY <1>1, <1>3, <2>1 DEF SoeReadTalk
<1>5. PICK b \in Nat : bytes = Take(Take(o, b), job.psize) /\ SoeParts(o, b, q)  BY <1>4
<1>6. o \in Seq(Octet) /\ Len(o) \in Nat /\ o = objects'[job.idx]
  <2>1. o \in Text  BY <1>3, ObjectIs DEF TalkTypes, JobIs
  <2> QED BY <1>1, <1>3, <2>1 DEF Text
<1>7. PICK s \in Nat \ {0} : s = SoeData  BY ListMailsAre
<1>8. PICK x : x = Take(Skip(o, b), s)  OBVIOUS
<1>9. /\ q[1] = [cmd |-> "soe_read", data |-> x, incomplete |-> 1 < Len(q)]
      /\ Len(q) \in Nat \ {0}
      /\ Len(q) = 1 => Len(o) <= b + s
      /\ Len(q) # 1 => SoeParts(o, b + s, Tail(q))
  BY <1>2, <1>5, <1>6, <1>7, <1>8, ValueLess
<1>10. m.data = x /\ (m.incomplete <=> 1 < Len(q))
  <2>1. PICK t : t = (1 < Len(q))  OBVIOUS
  <2>2. m = [cmd |-> "soe_read", data |-> x, incomplete |-> t]  BY <1>2, <1>9, <2>1, Zenon
  <2>3. m.data = x /\ m.incomplete = t  BY <2>2
  <2> QED BY <2>1, <2>3, Zenon
<1>11. PICK c \in Nat : c = b + s  BY <1>7
<1>12. PICK z \in Nat : z = job.psize  BY DEF TalkTypes, JobIs
<1>13. bytes' = Take(Take(o, c), z)
  <2>1. PICK a : a = Take(o, b)  OBVIOUS
  <2>2. a \in Seq(Octet) /\ x \in Seq(Octet) /\ a \o x = Take(o, c)
    <3>1. Skip(o, b) \in Seq(Octet)  BY <1>6, Pieces
    <3>2. a \in Seq(Octet) /\ x \in Seq(Octet)  BY <1>6, <1>7, <1>8, <2>1, <3>1, Pieces
    <3> QED BY <1>6, <1>7, <1>8, <1>11, <2>1, <3>2, TakeMore
  <2>3. bytes' = Take(Take(a, z) \o x, z)
    BY <1>5, <1>10, <1>12, <2>1 DEF SoeValue, CopyFragment
  <2>4. Take(Take(a, z) \o x, z) = Take(a \o x, z)  BY <2>2, CutOff
  <2> QED BY <2>2, <2>3, <2>4
<1>14. CASE Len(q) = 1
  <2>1. ~ m.incomplete  BY <1>10, <1>14
  <2>2. at' = "idle"  BY <2>1 DEF SoeValue, Return
  <2>3. Take(o, c) = o  BY <1>6, <1>9, <1>11, <1>14, TakeAll
  <2> QED BY <1>6, <1>12, <1>13, <2>2, <2>3
<1>15. CASE Len(q) # 1
  <2>1. m.incomplete
    <3>1. PICK n : n = Len(q)  OBVIOUS
    <3>2. n \in Nat \ {0} /\ n # 1  BY <1>9, <1>15, <3>1
    <3>3. 1 < n  BY <3>2
    <3> QED BY <1>10, <3>1, <3>3
  <2>2. at' = "receive" /\ MbxOut' = MbxOut /\ rest' = rest  BY <1>1, <2>1 DEF SoeValue
  <2>3. FirstRequest'  BY <1>1, <1>4, <2>2 DEF FirstRequest
  <2>4. \E d \in Nat : bytes' = Take(Take(o, d), z) /\ SoeParts(o, d, Tail(q))
    BY <1>9, <1>11, <1>13, <1>15
  <2>5. PICK r : r = Tail(q)  OBVIOUS
  <2>6. \E d \in Nat : /\ bytes' = Take(Take(objects[job.idx]', d), job'.psize)
                       /\ SoeParts(objects[job.idx]', d, r)
    BY <1>1, <1>6, <1>12, <2>4, <2>5
  <2>7. SoeReadTalk(r)'  BY <2>2, <2>3, <2>6, Zenon DEF SoeReadTalk
  <2> QED BY <1>2, <2>5, <2>7
<1> QED BY <1>14, <1>15

LEMMA SoeReadStep ==
  ASSUME TalkTypes, job.kind = "soe_read", running, NEW q, Waiting(box, q), SoeReadTalk(q),
         SoeStep
  PROVE  \/ at' = "idle" /\ result' = "failed"
         \/ at' = "idle" /\ bytes' = Take(objects'[job.idx], job.psize)
         \/ \E r : Waiting(box', r) /\ SoeReadTalk(r)'
<1>1. at \in {"send", "receive"} /\ MbxOut = [cmd |-> "soe_readreq", idn |-> job.idx]
  BY DEF SoeReadTalk, FirstRequest
<1>2. ~ NotLast  BY <1>1 DEF NotLast
<1>3. CASE Return("failed")  BY <1>3 DEF Return
<1>4. CASE SoeSend  BY <1>4, ValueSent
<1>5. ~ SoeTaken /\ ~ SoeNotTaken  BY <1>1 DEF SoeTaken, SoeNotTaken, Failing
<1>6. CASE SoeSendFails \/ SoeTimesOut
  BY <1>2, <1>3, <1>6 DEF SoeSendFails, SoeTimesOut, SoeFailed
<1>7. CASE SoeReceive
  <2> PICK m : m = Head(box)  OBVIOUS
  <2>1. MailRead /\ (SoeValue(m) \/ SoeWritten(m) \/ SoeUnexpected(m))
    BY <1>7 DEF SoeReceive
  <2>2. ~ SoeWritten(m)  BY DEF SoeWritten
  <2>3. CASE SoeUnexpected(m)  BY <1>3, <2>3 DEF SoeUnexpected
  <2>4. CASE SoeValue(m)  BY <2>1, <2>4, ValueRead
  <2> QED BY <2>1, <2>2, <2>3, <2>4
<1> QED BY <1>4, <1>5, <1>6, <1>7 DEF SoeStep

LEMMA FragmentCut ==
  ASSUME NEW a \in Text, NEW r \in Text, NEW i
  PROVE  /\ Fragment(i, r).cmd = "soe_writereq"
         /\ (a \o Fragment(i, r).data) \o Skip(r, SoeData) = a \o r
         /\ \/ Fragment(i, r).incomplete
            \/ Skip(r, SoeData) = <<>> /\ Fragment(i, r).idn = i
<1> PICK m : m = Fragment(i, r)  OBVIOUS
<1>1. a \in Seq(Octet) /\ r \in Seq(Octet) /\ Len(r) \in Nat  BY DEF Text
<1>2. PICK s \in Nat : s = SoeData  BY ListMailsAre
<1>3. PICK e : e = Skip(r, s)  OBVIOUS
<1>4. PICK d : d = Take(r, s)  OBVIOUS
<1>5. d \in Seq(Octet) /\ e \in Seq(Octet)  BY <1>1, <1>3, <1>4, Pieces
<1>6. CASE Divided(Len(r))
  <2>1. m = [cmd |-> "soe_writereq", data |-> d, incomplete |-> TRUE,
             fragmentsleft |-> FragmentsLeft(Len(r))]
    BY <1>2, <1>4, <1>6 DEF Fragment
  <2>2. m.cmd = "soe_writereq" /\ m.data = d /\ m.incomplete  BY <2>1
  <2>3. (a \o d) \o e = a \o r
    <3>1. d \o e = r  BY <1>1, <1>3, <1>4, Rejoined
    <3>2. (a \o d) \o e = a \o (d \o e)  BY <1>1, <1>5, Joined
    <3> QED BY <3>1, <3>2
  <2> QED BY <1>2, <1>3, <2>2, <2>3
<1>7. CASE ~ Divided(Len(r))
  <2>1. m = [cmd |-> "soe_writereq", data |-> r, incomplete |-> FALSE, idn |-> i]
    BY <1>7 DEF Fragment
  <2>2. m.cmd = "soe_writereq" /\ m.data = r /\ m.idn = i  BY <2>1
  <2>3. Len(r) <= s  BY <1>1, <1>2, <1>7 DEF Divided
  <2>4. e = <<>>  BY <1>1, <1>3, <2>3, TakeAll
  <2>5. (a \o r) \o e = a \o r
    <3>1. a \o r \in Seq(Octet)  BY <1>1, ConcatProperties
    <3> QED BY <2>4, <3>1, ConcatEmptySeq
  <2> QED BY <1>2, <1>3, <2>2, <2>4, <2>5
<1> QED BY <1>6, <1>7

\* An error of the slave that waits comes first.
LEMMA RefusalStays ==
  ASSUME TalkTypes, NEW q, Waiting(box, q), q # <<>>, q[1].cmd = "soe_error",
         SoeServe(MbxOut), MbxOut.cmd = "soe_writereq"
  PROVE  \E r : Waiting(box', r) /\ r # <<>> /\ r[1].cmd = "soe_error"
<1>1. q \in Seq(Range(q)) /\ Len(q) \in Nat /\ Len(q) # 0  BY Arrangement, EmptySeq
<1>2. CASE box' = box  BY <1>2
<1>3. ASSUME NEW m, Answer(m), m.cmd # "eoe"
      PROVE  \E r : Waiting(box', r) /\ r # <<>> /\ r[1].cmd = "soe_error"
  <2>1. PICK r : r = q \o <<m>>  OBVIOUS
  <2>2. r # <<>> /\ \A i \in 1 .. Len(q) : r[i] = q[i]  BY <1>1, <2>1, Longer
  <2>3. 1 \in 1 .. Len(q)  BY <1>1
  <2>4. r[1] = q[1]  BY <2>2, <2>3
  <2> QED BY <1>3, <2>1, <2>2, <2>4, Answered
<1>4. TakeFragment(MbxOut)  BY DEF SoeServe, GiveValue
<1>5. PICK w, e : w = [cmd |-> "soe_written"] /\ e = [cmd |-> "soe_error"]  OBVIOUS
<1>6. w.cmd # "eoe" /\ e.cmd # "eoe"  BY <1>5
<1>7. box' = box \/ Answer(w) \/ Answer(e)
  BY <1>4, <1>5, Zenon DEF TakeFragment, Silent, Refuse
<1> QED BY <1>2, <1>3, <1>6, <1>7

LEMMA FragmentJoins ==
  \A a, r \in Text : \A i : (a \o Fragment(i, r).data) \o Skip(r, SoeData) = a \o r
BY FragmentCut

LEMMA GatheredIs ==
  ASSUME TalkTypes
  PROVE  Gathered \in Text /\ rest \in Text /\ (job.kind = "soe_write" => job.idx \in Stored)
<1>1. server \in Servers /\ rest \in Text  BY DEF TalkTypes, SlaveTypes, CallTypes
<1>2. server.mode = "soe" => server.data \in Text  BY <1>1, ServerIs
<1>3. <<>> \in Text  BY DEF Text
<1>4. job.kind = "soe_write" => job.idx \in Stored  BY DEF TalkTypes, JobIs, Stored
<1> QED BY <1>1, <1>2, <1>3, <1>4 DEF Gathered

LEMMA FragmentSent ==
  ASSUME TalkTypes, job.kind = "soe_write", running, NEW q, Waiting(box, q), SoeWriteTalk(q),
         SoeSend
  PROVE  \E r : Waiting(box', r) /\ SoeWriteTalk(r)'
<1>1. /\ at = "send" /\ UNCHANGED <<job, MbxOut, rest>> /\ SoeServe(MbxOut)
      /\ at' = IF NotLast THEN "empty" ELSE "receive"
  BY DEF SoeSend, Sent, locals
<1>2. MbxOut.cmd = "soe_writereq"  BY DEF SoeWriteTalk
<1>3. CASE q # <<>> /\ q[1].cmd = "soe_error"
  <2>1. PICK r : Waiting(box', r) /\ r # <<>> /\ r[1].cmd = "soe_error"
    BY <1>1, <1>2, <1>3, RefusalStays
  <2>2. SoeWriteTalk(r)'  BY <1>1, <1>2, <2>1 DEF SoeWriteTalk
  <2> QED BY <2>1, <2>2
<1>4. CASE /\ q = <<>> /\ (Gathered \o MbxOut.data) \o rest = job.data
           /\ MbxOut.incomplete \/ (rest = <<>> /\ MbxOut.idn = job.idx)
  <2>1. PICK d : d = Gathered \o MbxOut.data  OBVIOUS
  <2>2. d \in Text
    <3>1. MbxOut.data \in Text  BY <1>2, RequestIs DEF TalkTypes, CallTypes
    <3> QED BY <2>1, <3>1, GatheredIs, TextIs
  <2>3. \/ MbxOut.incomplete /\ box' = box /\ server' = [mode |-> "soe", data |-> d]
        \/ /\ ~ MbxOut.incomplete /\ Answer([cmd |-> "soe_written"])
           /\ objects' = [objects EXCEPT ![MbxOut.idn] = d]
        \/ Refuse
    <3>1. TakeFragment(MbxOut)  BY <1>1, <1>2 DEF SoeServe, GiveValue
    <3>2. (IF server.mode = "soe" THEN server.data \o MbxOut.data ELSE MbxOut.data) = d
      <4>1. MbxOut.data \in Seq(Octet)
        BY <1>2, RequestIs DEF TalkTypes, CallTypes, Text
      <4>2. <<>> \o MbxOut.data = MbxOut.data  BY <4>1, ConcatEmptySeq
      <4> QED BY <2>1, <4>2 DEF Gathered
    <3> QED BY <3>1, <3>2, Zenon DEF TakeFragment, Silent, Accept
  <2>4. CASE MbxOut.incomplete /\ box' = box /\ server' = [mode |-> "soe", data |-> d]
    <3>1. at' = "empty"  BY <1>1, <1>2, <2>4 DEF NotLast
    <3>2. Gathered' = d  BY <2>4 DEF Gathered
    <3>3. SoeWriteTalk(<<>>)'  BY <1>1, <1>2, <1>4, <2>1, <3>1, <3>2 DEF SoeWriteTalk
    <3> QED BY <1>4, <2>4, <3>3
  <2>5. CASE /\ ~ MbxOut.incomplete /\ Answer([cmd |-> "soe_written"])
             /\ objects' = [objects EXCEPT ![MbxOut.idn] = d]
    <3>1. at' = "receive"  BY <1>1, <2>5 DEF NotLast
    <3>2. rest = <<>> /\ MbxOut.idn = job.idx  BY <1>4, <2>5
    <3>3. d = job.data  BY <1>4, <2>1, <2>2, <3>2, NothingLeft, GatheredIs
    <3>4. objects'[job.idx] = job.data
      <4>1. objects \in [Stored -> Text] /\ job.idx \in Stored
        BY GatheredIs DEF TalkTypes, SlaveTypes
      <4> QED BY <2>5, <3>2, <3>3, <4>1
    <3>5. PICK m : m = [cmd |-> "soe_written"]  OBVIOUS
    <3>6. Waiting(box', <<m>>)
      <4>1. m.cmd # "eoe" /\ Answer(m)  BY <2>5, <3>5
      <4> QED BY <1>4, <4>1, AnsweredFirst
    <3>7. SoeWriteTalk(<<m>>)'  BY <1>1, <1>2, <3>1, <3>4, <3>5 DEF SoeWriteTalk
    <3> QED BY <3>6, <3>7
  <2>6. CASE Refuse
    <3>1. PICK m : m = [cmd |-> "soe_error"]  OBVIOUS
    <3>2. m.cmd = "soe_error" /\ <<m>> # <<>> /\ <<m>>[1] = m /\ Answer(m)
      BY <2>6, <3>1 DEF Refuse
    <3>3. Waiting(box', <<m>>)  BY <1>4, <3>2, AnsweredFirst
    <3>4. SoeWriteTalk(<<m>>)'  BY <1>1, <1>2, <3>2 DEF SoeWriteTalk
    <3> QED BY <3>3, <3>4
  <2> QED BY <2>3, <2>4, <2>5, <2>6
<1> QED BY <1>1, <1>3, <1>4 DEF SoeWriteTalk

LEMMA FragmentTaken ==
  ASSUME TalkTypes, job.kind = "soe_write", running, NEW q, Waiting(box, q), SoeWriteTalk(q),
         SoeTaken
  PROVE  Waiting(box', q) /\ SoeWriteTalk(q)'
<1>1. /\ at = "empty" /\ at' = "send" /\ job' = job /\ server' = server /\ box' = box
      /\ MbxOut' = Fragment(job.idx, rest) /\ rest' = Skip(rest, SoeData)
  BY DEF SoeTaken, NextFragment, slaveState
<1>2. PICK a, r, m : a = Gathered /\ r = rest /\ m = MbxOut'  OBVIOUS
<1>3. a \in Text /\ r \in Text  BY <1>2, GatheredIs
<1>4. /\ m.cmd = "soe_writereq" /\ (a \o m.data) \o Skip(r, SoeData) = a \o r
      /\ m.incomplete \/ (Skip(r, SoeData) = <<>> /\ m.idn = job.idx)
  <2>1. PICK i : i = job.idx  OBVIOUS
  <2>2. m = Fragment(i, r)  BY <1>1, <1>2, <2>1, Zenon
  <2>3. Fragment(i, r).cmd = "soe_writereq"  BY <1>3, FragmentCut, Zenon
  <2>4. (a \o Fragment(i, r).data) \o Skip(r, SoeData) = a \o r
    <3>1. a \in Text  BY <1>3
    <3>2. r \in Text  BY <1>3
    <3> QED BY <3>1, <3>2, FragmentJoins, Zenon
  <2>5. \/ Fragment(i, r).incomplete
        \/ Skip(r, SoeData) = <<>> /\ Fragment(i, r).idn = i
    BY <1>3, FragmentCut, ZenonT(60)
  <2> QED BY <2>1, <2>2, <2>3, <2>4, <2>5, Zenon
<1>5. Gathered' = a  BY <1>1, <1>2 DEF Gathered
<1>6. CASE q # <<>> /\ q[1].cmd = "soe_error"
  BY <1>1, <1>2, <1>4, <1>6 DEF SoeWriteTalk
<1>7. CASE q = <<>> /\ Gathered \o rest = job.data
  BY <1>1, <1>2, <1>4, <1>5, <1>7 DEF SoeWriteTalk
<1> QED BY <1>1, <1>6, <1>7 DEF SoeWriteTalk

LEMMA SoeWriteStep ==
  ASSUME TalkTypes, job.kind = "soe_write", running, NEW q, Waiting(box, q), SoeWriteTalk(q),
         SoeStep, mishaps' = 0
  PROVE  \/ at' = "idle" /\ result' = "failed"
         \/ at' = "idle" /\ objects'[job.idx] = job.data
         \/ \E r : Waiting(box', r) /\ SoeWriteTalk(r)'
<1>1. CASE Return("failed")  BY <1>1 DEF Return
<1>2. CASE SoeSend  BY <1>2, FragmentSent
<1>3. CASE SoeTaken  BY <1>3, FragmentTaken
<1>8. ASSUME Fault PROVE at = "receive" /\ box = <<>>
  <2>1. ASSUME ~ (at = "receive" /\ box = <<>>) PROVE FALSE
    <3>1. mishaps' <= 1  OBVIOUS
    <3>2. mishaps' = 1  BY <1>8, <2>1, <3>1, FirstMishap
    <3> QED BY <3>2
  <2> QED BY <2>1
<1>4. ~ SoeNotTaken /\ ~ SoeSendFails
  BY <1>8 DEF SoeNotTaken, SoeSendFails, Failing
<1>5. ASSUME at = "receive"
      PROVE  /\ q # <<>> /\ box # <<>>
             /\ \/ q[1].cmd = "soe_error"
                \/ q[1].cmd = "soe_written" /\ objects[job.idx] = job.data
  <2>1. \/ q # <<>> /\ q[1].cmd = "soe_error"
        \/ q = << [cmd |-> "soe_written"] >> /\ objects[job.idx] = job.data
    BY <1>5 DEF SoeWriteTalk
  <2>2. PICK m : m = [cmd |-> "soe_written"]  OBVIOUS
  <2>3. <<m>> # <<>> /\ <<m>>[1] = m /\ m.cmd = "soe_written"  BY <2>2
  <2>4. /\ q # <<>>
        /\ \/ q[1].cmd = "soe_error"
           \/ q[1].cmd = "soe_written" /\ objects[job.idx] = job.data
    BY <2>1, <2>2, <2>3
  <2> QED BY <2>4, SomeWait
<1>6. ~ SoeTimesOut  BY <1>5, <1>8 DEF SoeTimesOut, Failing
<1>7. CASE SoeReceive
  <2> PICK m : m = Head(box)  OBVIOUS
  <2>1. MailRead /\ at = "receive" /\ objects' = objects
        /\ (SoeValue(m) \/ SoeWritten(m) \/ SoeUnexpected(m))
    BY <1>7 DEF SoeReceive, MailRead
  <2>2. ~ SoeValue(m)  BY DEF SoeValue
  <2>3. CASE SoeUnexpected(m)  BY <1>1, <2>3 DEF SoeUnexpected
  <2>4. CASE SoeWritten(m)
    <3>1. m.cmd = "soe_written" /\ at' = "idle"  BY <2>4 DEF SoeWritten, Return
    <3>2. m = q[1]  BY <2>1, <3>1, ReadMail
    <3>3. objects[job.idx] = job.data  BY <1>5, <2>1, <3>1, <3>2
    <3> QED BY <2>1, <3>1, <3>3
  <2> QED BY <2>1, <2>2, <2>3, <2>4
<1> QED BY <1>2, <1>3, <1>4, <1>6, <1>7 DEF SoeStep
-----------------------------------------------------------------------------
(* Requests with one answer.                                               *)

Informed == {"txpdo", "description", "entries"}

LEMMA InfoSent ==
  ASSUME TalkTypes, job.kind \in Informed, running, NEW q, Waiting(box, q), SingleTalk(q),
         InfoSend
  PROVE  \E r : Waiting(box', r) /\ SingleTalk(r)'
<1>1. /\ at = "send" /\ at' = "receive" /\ job' = job /\ MbxOut' = MbxOut /\ rest' = rest
      /\ InfoServe(MbxOut)
  BY DEF InfoSend, Sent, locals
<1>2. q = <<>> /\ FirstRequest  BY <1>1 DEF SingleTalk
<1>3. FirstRequest'  BY <1>1, <1>2 DEF FirstRequest
<1>4. ASSUME NEW m, Answer(m), m.cmd # "eoe",
             /\ job.kind = "txpdo" =>
                  m = [cmd |-> "txpdo", data |-> Take(objects'["txpdo"], PdoData)]
             /\ job.kind = "description" =>
                  m.cmd = "abort" \/ m = [cmd |-> "description", of |-> job.idx]
             /\ job.kind = "entries" =>
                  m.cmd = "abort" \/ m = [cmd |-> "entry", of |-> <<job.idx, MbxOut.sub>>]
      PROVE  \E r : Waiting(box', r) /\ SingleTalk(r)'
  <2>1. Waiting(box', <<m>>)  BY <1>2, <1>4, AnsweredFirst
  <2>2. Len(<<m>>) = 1 /\ <<m>>[1] = m  OBVIOUS
  <2>3. job'.kind # "get_ip" /\ job'.kind # "set_ip"  BY <1>1 DEF Informed
  <2>4. SingleTalk(<<m>>)'  BY <1>1, <1>3, <1>4, <2>2, <2>3 DEF SingleTalk
  <2> QED BY <2>1, <2>4
<1>5. CASE job.kind = "txpdo"
  <2>1. MbxOut.cmd = "get_txpdo"  BY <1>2, <1>5 DEF FirstRequest
  <2>2. PICK m : m = [cmd |-> "txpdo", data |-> Take(objects["txpdo"], PdoData)]  OBVIOUS
  <2>3. Answer(m) /\ objects' = objects  BY <1>1, <2>1, <2>2, Zenon DEF InfoServe
  <2>4. m.cmd # "eoe"  BY <2>2
  <2> QED BY <1>4, <1>5, <2>2, <2>3, <2>4
<1>6. PICK a : a = [cmd |-> "abort", idx |-> "none"]  OBVIOUS
<1>7. a.cmd = "abort" /\ a.cmd # "eoe" /\ (Abort => Answer(a))  BY <1>6 DEF Abort
<1>8. CASE job.kind = "description"
  <2>1. MbxOut.cmd = "get_description" /\ MbxOut.idx = job.idx
    BY <1>2, <1>8 DEF FirstRequest
  <2>2. PICK m : m = [cmd |-> "description", of |-> job.idx]  OBVIOUS
  <2>3. Answer(m) \/ Answer(a)  BY <1>1, <1>7, <2>1, <2>2, Zenon DEF InfoServe
  <2>4. m.cmd # "eoe"  BY <2>2
  <2>5. CASE Answer(m)  BY <1>4, <1>8, <2>2, <2>4, <2>5
  <2>6. CASE Answer(a)  BY <1>4, <1>7, <1>8, <2>6
  <2> QED BY <2>3, <2>5, <2>6
<1>9. CASE job.kind = "entries"
  <2>1. MbxOut.cmd = "get_entry" /\ MbxOut.idx = job.idx
    BY <1>2, <1>9 DEF FirstRequest
  <2>2. PICK m : m = [cmd |-> "entry", of |-> <<job.idx, MbxOut.sub>>]  OBVIOUS
  <2>3. Answer(m) \/ Answer(a)  BY <1>1, <1>7, <2>1, <2>2, Zenon DEF InfoServe
  <2>4. m.cmd # "eoe"  BY <2>2
  <2>5. CASE Answer(m)  BY <1>4, <1>9, <2>2, <2>4, <2>5
  <2>6. CASE Answer(a)  BY <1>4, <1>7, <1>9, <2>6
  <2> QED BY <2>3, <2>5, <2>6
<1> QED BY <1>5, <1>8, <1>9 DEF Informed

\* What a call that is told something returns.
Told ==
  /\ job.kind = "txpdo" => bytes = Take(objects["txpdo"], PdoData)
  /\ job.kind = "description" => bytes = <<job.idx>>

LEMMA InfoConcluded ==
  ASSUME NEW x, Concluded(x)
  PROVE  \/ Return(x) /\ at' = "idle" /\ result' = x
         \/ job.kind = "entries" /\ NextEntry /\ at' = "drain"
BY DEF Concluded, NextEntry, Return

LEMMA InfoSingleStep ==
  ASSUME TalkTypes, job.kind \in Informed, running, NEW q, Waiting(box, q), SingleTalk(q),
         InfoStep
  PROVE  \/ at' = "idle" /\ result' = "failed"
         \/ at' = "idle" /\ Told'
         \/ at' = "drain"
         \/ \E r : Waiting(box', r) /\ SingleTalk(r)'
<1>1. CASE InfoSend  BY <1>1, InfoSent
<1>2. ~ RxPdoSend  BY DEF RxPdoSend, Informed
<1>3. CASE InfoSendFails \/ InfoTimesOut
  BY <1>3, InfoConcluded DEF InfoSendFails, InfoTimesOut
<1>4. CASE InfoReceive
  <2> PICK m : m = Head(box)  OBVIOUS
  <2>1. /\ MailRead /\ at = "receive" /\ objects' = objects /\ job' = job
        /\ ListRead(m) \/ DescriptionRead(m) \/ EntryRead(m) \/ TxPdoRead(m)
           \/ InfoUnexpected(m)
    BY <1>4 DEF InfoReceive, MailRead
  <2>2. ~ ListRead(m)  BY DEF ListRead, Informed
  <2>3. CASE InfoUnexpected(m)  BY <2>3, InfoConcluded DEF InfoUnexpected
  <2>4. CASE EntryRead(m)
    <3>1. job.kind = "entries" /\ Concluded("ok")  BY <2>4 DEF EntryRead
    <3>2. job'.kind = "entries"  BY <2>1, <3>1
    <3>3. Told'  BY <3>2 DEF Told
    <3> QED BY <3>1, <3>3, InfoConcluded
  <2>5. CASE TxPdoRead(m) /\ ~ Return("failed")
    <3>1. job.kind = "txpdo" /\ m.cmd = "txpdo" /\ bytes' = m.data /\ Return("ok")
      BY <2>5 DEF TxPdoRead
    <3>2. m = q[1]  BY <2>1, <3>1, ReadMail
    <3>3. m = [cmd |-> "txpdo", data |-> Take(objects["txpdo"], PdoData)]
      BY <2>1, <3>1, <3>2 DEF SingleTalk
    <3>4. bytes' = Take(objects["txpdo"], PdoData)  BY <3>1, <3>3
    <3> QED BY <2>1, <3>1, <3>4 DEF Told, Return
  <2>6. CASE DescriptionRead(m)
    <3>1. job.kind = "description" /\ m.cmd = "description" /\ bytes' = <<m.of>> /\ Return("ok")
      BY <2>6 DEF DescriptionRead
    <3>2. m = q[1]  BY <2>1, <3>1, ReadMail
    <3>3. m = [cmd |-> "description", of |-> job.idx]
      BY <2>1, <3>1, <3>2 DEF SingleTalk
    <3>4. bytes' = <<job.idx>>  BY <3>1, <3>3
    <3> QED BY <2>1, <3>1, <3>4 DEF Told, Return
  <2>7. Return("failed") => at' = "idle" /\ result' = "failed"  BY DEF Return
  <2> QED BY <2>1, <2>2, <2>3, <2>4, <2>5, <2>6, <2>7
<1> QED BY <1>1, <1>2, <1>3, <1>4 DEF InfoStep

\* What is known of the entries of an object.
EntriesRight ==
  job.kind = "entries" => \A s \in DOMAIN bytes : bytes[s].clean => bytes[s].of = <<job.idx, s>>

LEMMA EntriesStep ==
  ASSUME TalkTypes, job.kind = "entries", EntriesRight, InfoStep,
         clean /\ running /\ at = "receive" => \E q : Waiting(box, q) /\ SingleTalk(q)
  PROVE  EntriesRight'
<1>1. job' = job  BY InfoStepTypes DEF Steady
<1>2. CASE bytes' = bytes  BY <1>1, <1>2 DEF EntriesRight
<1>3. ASSUME NEW m, m = Head(box), MailRead, EntryRead(m)
      PROVE  EntriesRight'
  <2>1. at = "receive" /\ running /\ m.cmd = "entry"  BY <1>3 DEF MailRead, EntryRead
  <2>2. PICK n, e : n = MbxOut.sub /\ e = [of |-> m.of, clean |-> clean]  OBVIOUS
  <2>3. bytes' = [s \in DOMAIN bytes \cup {n} |-> IF s = n THEN e ELSE bytes[s]]
    BY <1>3, <2>2, Zenon DEF EntryRead
  <2>4. e.clean => e.of = <<job.idx, n>>
    <3>1. ASSUME clean PROVE m.of = <<job.idx, n>>
      <4>1. PICK q : Waiting(box, q) /\ SingleTalk(q)  BY <2>1, <3>1
      <4>2. m = q[1]  BY <1>3, <2>1, <4>1, ReadMail
      <4>3. m = [cmd |-> "entry", of |-> <<job.idx, n>>]
        BY <2>1, <2>2, <4>1, <4>2 DEF SingleTalk
      <4> QED BY <4>3
    <3>2. e.clean = clean /\ e.of = m.of  BY <2>2
    <3> QED BY <3>1, <3>2, Zenon
  <2>5. ASSUME NEW s \in DOMAIN bytes'
        PROVE  bytes'[s].clean => bytes'[s].of = <<job.idx, s>>
    <3>1. s \in DOMAIN bytes \cup {n}  BY <2>3
    <3>2. CASE s = n  BY <2>3, <2>4, <3>1, <3>2, Zenon
    <3>3. CASE s # n
      <4>1. s \in DOMAIN bytes /\ bytes'[s] = bytes[s]  BY <2>3, <3>1, <3>3
      <4> QED BY <4>1, Zenon DEF EntriesRight
    <3> QED BY <3>2, <3>3
  <2> QED BY <1>1, <2>5, Zenon DEF EntriesRight
<1>4. CASE InfoSend \/ RxPdoSend \/ InfoSendFails \/ InfoTimesOut
  BY <1>2, <1>4 DEF InfoSend, Sent, locals, RxPdoSend, InfoSendFails, InfoTimesOut, Failing
<1>5. CASE InfoReceive
  <2> PICK m : m = Head(box)  OBVIOUS
  <2>1. MailRead /\ (EntryRead(m) \/ InfoUnexpected(m))
    BY <1>5 DEF InfoReceive, ListRead, DescriptionRead, TxPdoRead
  <2>2. CASE InfoUnexpected(m)  BY <1>2, <2>2 DEF InfoUnexpected
  <2> QED BY <1>3, <2>1, <2>2
<1> QED BY <1>4, <1>5 DEF InfoStep

LEMMA IpSent ==
  ASSUME TalkTypes, job.kind \in {"get_ip", "set_ip"}, running, NEW q, Waiting(box, q),
         SingleTalk(q), EoeSend
  PROVE  \E r : Waiting(box', r) /\ SingleTalk(r)'
<1>1. at = "send" /\ job' = job /\ EoeServe(MbxOut)  BY DEF EoeSend
<1>2. q = <<>> /\ FirstRequest  BY <1>1 DEF SingleTalk
<1>3. /\ job.idx = "ip"
      /\ job.kind = "get_ip" => MbxOut.cmd = "get_ip"
      /\ job.kind = "set_ip" => MbxOut.cmd = "set_ip" /\ MbxOut.data = job.data
  BY <1>2 DEF FirstRequest
<1>4. at' = "receive" /\ MbxOut' = MbxOut  BY <1>3 DEF EoeSend
<1>5. FirstRequest'  BY <1>1, <1>2, <1>4 DEF FirstRequest
<1>6. ASSUME NEW m, Answer(m), m.cmd # "eoe",
             /\ job.kind = "get_ip" => m = [cmd |-> "ip", data |-> objects'["ip"]]
             /\ job.kind = "set_ip" =>
                  m.cmd = "ip_set" /\ (m.success => objects'["ip"] = job.data)
      PROVE  \E r : Waiting(box', r) /\ SingleTalk(r)'
  <2>1. Waiting(box', <<m>>)  BY <1>2, <1>6, AnsweredFirst
  <2>2. Len(<<m>>) = 1 /\ <<m>>[1] = m  OBVIOUS
  <2>3. SingleTalk(<<m>>)'  BY <1>1, <1>4, <1>5, <1>6, <2>2 DEF SingleTalk
  <2> QED BY <2>1, <2>3
<1>7. CASE job.kind = "get_ip"
  <2>1. PICK m : m = [cmd |-> "ip", data |-> objects["ip"]]  OBVIOUS
  <2>2. Answer(m) /\ objects' = objects  BY <1>1, <1>3, <1>7, <2>1 DEF EoeServe
  <2>3. m.cmd # "eoe"  BY <2>1
  <2> QED BY <1>6, <1>7, <2>1, <2>2, <2>3
<1>8. CASE job.kind = "set_ip"
  <2>1. PICK m, n : /\ m = [cmd |-> "ip_set", success |-> TRUE]
                    /\ n = [cmd |-> "ip_set", success |-> FALSE]
    OBVIOUS
  <2>2. \/ Answer(m) /\ objects' = [objects EXCEPT !["ip"] = job.data]
        \/ Answer(n)
    BY <1>1, <1>3, <1>8, <2>1 DEF EoeServe, Accept
  <2>3. m.cmd = "ip_set" /\ n.cmd = "ip_set" /\ ~ n.success  BY <2>1
  <2>4. CASE Answer(n)  BY <1>6, <1>8, <2>3, <2>4
  <2>5. CASE Answer(m) /\ objects' = [objects EXCEPT !["ip"] = job.data]
    <3>1. objects \in [Stored -> Text] /\ "ip" \in Stored
      BY DEF TalkTypes, SlaveTypes, Stored
    <3>2. objects'["ip"] = job.data  BY <2>5, <3>1
    <3> QED BY <1>6, <1>8, <2>3, <2>5, <3>2
  <2> QED BY <2>2, <2>4, <2>5
<1> QED BY <1>7, <1>8

LEMMA IpStep ==
  ASSUME TalkTypes, job.kind \in {"get_ip", "set_ip"}, running, NEW q, Waiting(box, q),
         SingleTalk(q), EoeSend \/ EoeFails \/ EoeReceive
  PROVE  \/ at' = "idle" /\ result' = "failed"
         \/ /\ at' = "idle"
            /\ job.kind = "get_ip" => bytes' = objects'[job.idx]
            /\ job.kind = "set_ip" => objects'[job.idx] = job.data
         \/ \E r : Waiting(box', r) /\ SingleTalk(r)'
<1>1. CASE EoeSend  BY <1>1, IpSent
<1>2. CASE EoeFails  BY <1>2 DEF EoeFails, Return
<1>3. CASE EoeReceive
  <2> PICK m : m = Head(box)  OBVIOUS
  <2>1. MailRead /\ at = "receive" /\ objects' = objects  BY <1>3 DEF EoeReceive, MailRead
  <2>2. job.idx = "ip"  BY DEF SingleTalk, FirstRequest
  <2>3. \/ job.kind = "get_ip" /\ m.cmd = "ip" /\ bytes' = m.data /\ Return("ok")
        \/ /\ job.kind = "set_ip" /\ m.cmd = "ip_set"
           /\ Return(IF m.success THEN "ok" ELSE "failed")
        \/ Return("failed")
    BY <1>3, Zenon DEF EoeReceive
  <2>4. CASE Return("failed")  BY <2>4 DEF Return
  <2>5. CASE job.kind = "get_ip" /\ m.cmd = "ip" /\ bytes' = m.data /\ Return("ok")
    <3>1. m = q[1]  BY <2>1, <2>5, ReadMail
    <3>2. m = [cmd |-> "ip", data |-> objects["ip"]]  BY <2>1, <2>5, <3>1 DEF SingleTalk
    <3>3. bytes' = objects["ip"]  BY <2>5, <3>2
    <3> QED BY <2>1, <2>2, <2>5, <3>3 DEF Return
  <2>6. CASE /\ job.kind = "set_ip" /\ m.cmd = "ip_set" /\ m.success /\ Return("ok")
    <3>1. m = q[1]  BY <2>1, <2>6, ReadMail
    <3>2. objects["ip"] = job.data  BY <2>1, <2>6, <3>1 DEF SingleTalk
    <3> QED BY <2>1, <2>2, <2>6, <3>2 DEF Return
  <2> QED BY <2>3, <2>4, <2>5, <2>6
<1> QED BY <1>1, <1>2, <1>3

-----------------------------------------------------------------------------
(* PDOs and frames that are sent.                                          *)

LEMMA RxPdoStep ==
  ASSUME TalkTypes, job.kind = "rxpdo", at = "send" => FirstRequest, InfoStep
  PROVE  /\ at' = "idle"
         /\ result' = "failed" \/ objects'["rxpdo"] = Take(job.data, PdoData)
<1>1. ASSUME NEW x, Concluded(x) PROVE at' = "idle" /\ result' = x
  BY <1>1 DEF Concluded, NextEntry, Return
<1>2. CASE RxPdoSend
  <2>1. MbxOut = [cmd |-> "rxpdo", data |-> Take(job.data, PdoData)]
    BY <1>2 DEF RxPdoSend, FirstRequest
  <2>2. objects' = [objects EXCEPT !["rxpdo"] = Take(job.data, PdoData)]
    BY <1>2, <2>1 DEF RxPdoSend, InfoServe
  <2>3. objects \in [Stored -> Text] /\ "rxpdo" \in Stored
    BY DEF TalkTypes, SlaveTypes, Stored
  <2> QED BY <1>2, <2>2, <2>3 DEF RxPdoSend, Return
<1>3. CASE InfoSendFails \/ InfoTimesOut  BY <1>1, <1>3 DEF InfoSendFails, InfoTimesOut
<1>4. CASE InfoReceive
  BY <1>1, <1>4 DEF InfoReceive, ListRead, DescriptionRead, EntryRead, TxPdoRead, InfoUnexpected
<1>5. ~ InfoSend  BY DEF InfoSend
<1> QED BY <1>2, <1>3, <1>4, <1>5 DEF InfoStep

LEMMA FrameStep ==
  ASSUME TalkTypes, job.kind = "eoe_send", at = "send" => SendTalk,
         EoeSend \/ EoeFails \/ EoeReceive
  PROVE  \/ at' = "idle" /\ result' = "failed"
         \/ at' = "idle" /\ objects'[job.idx] = job.data
         \/ at' = "send" /\ SendTalk'
<1>1. CASE EoeFails  BY <1>1 DEF EoeFails, Return
<1>2. CASE EoeReceive
  <2>1. Return("failed")  BY <1>2 DEF EoeReceive
  <2> QED BY <2>1 DEF Return
<1>3. CASE EoeSend
  <2> PICK f, d, z, n : f = MbxOut.fragno /\ d = job.data /\ z = Payload /\ n = MbxOut.frameno
    OBVIOUS
  <2>1. /\ f \in Nat /\ MbxOut = EoeFragment(d, f, f * z, n)
        /\ f > 0 => server.mode = "eoe" /\ server.data = Take(d, f * z)
    BY <1>3 DEF EoeSend, SendTalk
  <2>2. d \in Seq(Octet) /\ d \in Text /\ job.idx = "frame" /\ z \in Nat
    BY PayloadFits DEF TalkTypes, JobIs, Text
  <2>3. PICK o \in Nat : o = f * z
    <3>1. f * z \in Nat  BY <2>1, <2>2
    <3> QED BY <3>1
  <2>4. PICK a : a = Take(d, o)  OBVIOUS
  <2>5. PICK b : b = MbxOut.data  OBVIOUS
  <2>6. /\ MbxOut.cmd = "eoe"
        /\ b = (IF MbxOut.last THEN Skip(d, o) ELSE Take(Skip(d, o), z))
    <3>1. PICK t : t = (Len(d) - f * z <= MailData + 6)  OBVIOUS
    <3>2. PICK u : u = (IF t THEN Skip(d, f * z) ELSE Take(Skip(d, f * z), z))  OBVIOUS
    <3>5. PICK c : c = (IF f = 0 THEN Blocks(Len(d)) ELSE (f * z) \div Block)  OBVIOUS
    <3>3. MbxOut = [cmd |-> "eoe", last |-> t, fragno |-> f, frameno |-> n, offset |-> c,
                    data |-> u]
      <4>1. MbxOut = EoeFragment(d, f, f * z, n) /\ z = Payload  BY <2>1
      <4>2. MbxOut = [cmd |-> "eoe", last |-> Len(d) - f * z <= MailData + 6, fragno |-> f,
                      frameno |-> n,
                      offset |-> IF f = 0 THEN Blocks(Len(d)) ELSE (f * z) \div Block,
                      data |-> IF Len(d) - f * z <= MailData + 6 THEN Skip(d, f * z)
                               ELSE Take(Skip(d, f * z), z)]
        BY <4>1, Zenon DEF EoeFragment
      <4> QED BY <3>1, <3>2, <3>5, <4>2, Zenon
    <3>4. MbxOut.cmd = "eoe" /\ MbxOut.data = u /\ (MbxOut.last <=> t)
      BY <3>3
    <3> QED BY <2>3, <2>5, <3>2, <3>4
  <2>7. (IF server.mode = "eoe" /\ f > 0 THEN server.data ELSE <<>>) = a
    <3>1. CASE f > 0  BY <2>1, <2>3, <2>4, <3>1
    <3>2. CASE ~ (f > 0)
      <4>1. f = 0 /\ z \in Nat  BY <2>1, <2>2, <3>2
      <4>2. 0 * z = 0  BY <4>1
      <4>3. o = 0  BY <2>3, <4>1, <4>2
      <4>4. a = <<>>  BY <2>2, <2>4, <4>3, TakeNone
      <4> QED BY <3>2, <4>4
    <3> QED BY <3>1, <3>2
  <2>8. IF MbxOut.last THEN Accept("frame", a \o b)
        ELSE server' = [mode |-> "eoe", data |-> a \o b] /\ objects' = objects
    BY <1>3, <2>5, <2>6, <2>7 DEF EoeSend, EoeServe
  <2>9. NextEoeFragment /\ job' = job  BY <1>3, <2>6 DEF EoeSend
  <2>10. CASE MbxOut.last
    <3>1. a \o b = d  BY <2>2, <2>4, <2>6, <2>10, Rejoined
    <3>2. objects' = [objects EXCEPT !["frame"] = d]  BY <2>8, <2>10, <3>1 DEF Accept
    <3>3. objects \in [Stored -> Text] /\ "frame" \in Stored
      BY DEF TalkTypes, SlaveTypes, Stored
    <3>4. objects'[job.idx] = job.data  BY <2>2, <3>2, <3>3
    <3>5. at' = "idle"  BY <2>9, <2>10 DEF NextEoeFragment, Return
    <3> QED BY <3>4, <3>5
  <2>11. CASE ~ MbxOut.last
    <3>1. a \o b = Take(d, o + z)  BY <2>2, <2>4, <2>6, <2>11, TakeMore
    <3>2. at' = "send" /\ MbxOut' = EoeFragment(d, f + 1, (f + 1) * z, n)
      BY <2>9, <2>11 DEF NextEoeFragment
    <3>3. MbxOut'.fragno = f + 1 /\ MbxOut'.frameno = n
      BY <3>2 DEF EoeFragment
    <3>4. (f + 1) * z = o + z
      <4>1. f \in Nat /\ z \in Nat  BY <2>1, <2>2
      <4>2. (f + 1) * z = f * z + z  BY <4>1
      <4> QED BY <2>3, <4>2
    <3>5. server'.mode = "eoe" /\ server'.data = Take(d, (f + 1) * z)
      BY <2>8, <2>11, <3>1, <3>4
    <3>6. f + 1 \in Nat  BY <2>1
    <3>7. PICK g : g = f + 1  OBVIOUS
    <3>8. /\ g \in Nat /\ g = MbxOut'.fragno
          /\ MbxOut' = EoeFragment(job'.data, g, g * Payload, MbxOut'.frameno)
          /\ server'.mode = "eoe" /\ server'.data = Take(job'.data, g * Payload)
      BY <2>9, <3>2, <3>3, <3>5, <3>6, <3>7
    <3>9. SendTalk'
      <4>1. EoeFragment(job'.data, g, g * Payload, MbxOut'.frameno)
            = EoeFragment(job.data, g, g * Payload, MbxOut.frameno)'
        <5>1. MbxOut.frameno' = MbxOut'.frameno /\ job.data' = job'.data /\ g = MbxOut'.fragno
          BY <3>8
        <5> QED BY <3>8 DEF EoeFragment
      <4> QED BY <3>8, <4>1 DEF SendTalk
    <3> QED BY <3>2, <3>9
  <2> QED BY <2>10, <2>11
<1> QED BY <1>1, <1>2, <1>3
-----------------------------------------------------------------------------
(* What a call has done when it returns.                                   *)

\* What is promised of the calls that return with success.
Done ==
  /\ job.kind \in {"read", "get_ip"} => bytes = objects[job.idx]
  /\ job.kind = "soe_read" => bytes = Take(objects[job.idx], job.psize)
  /\ job.kind = "list" => bytes = Take(objects["list"], MaxODList)
  /\ job.kind = "txpdo" => bytes = Take(objects["txpdo"], PdoData)
  /\ job.kind = "description" => bytes = <<job.idx>>
  /\ job.kind \in {"write", "soe_write", "eoe_send", "set_ip"} => objects[job.idx] = job.data
  /\ job.kind = "rxpdo" => objects["rxpdo"] = Take(job.data, PdoData)

LEMMA Promised ==
  ASSUME EntriesRight',
         Success' /\ clean' /\ (job'.kind \in {"write", "soe_write"} => Harmless') => Done'
  PROVE  ReadIsObject' /\ WriteIsStored'
<1>1. ReadIsObject'
  BY DEF EntriesRight, Done, ReadIsObject
<1>2. WriteIsStored'
  BY DEF Done, WriteIsStored
<1> QED BY <1>1, <1>2

\* What becomes of a followed call.
GoesOn ==
  \/ at' = "idle" /\ result' = "failed"
  \/ at' = "idle" /\ Done'
  \/ at' = "drain"
  \/ \E r : Waiting(box', r) /\ Talk(r)'

CallStep == SdoStep \/ InfoStep \/ SoeStep \/ EoeSend \/ EoeFails \/ EoeReceive

LEMMA CallStepTypes ==
  ASSUME TalkTypes, CallStep
  PROVE  TalkTypes' /\ Steady
BY SdoStepTypes, InfoStepTypes, SoeStepTypes, EoeStepTypes, Zenon DEF CallStep

\* A call is served by the functions of its kind.
LEMMA OfItsKind ==
  ASSUME CallStep
  PROVE  /\ SdoCall => SdoStep
         /\ InfoCall => InfoStep
         /\ SoeCall => SoeStep
         /\ EoeCall => EoeSend \/ EoeFails \/ EoeReceive
         /\ SdoCall \/ InfoCall \/ SoeCall \/ EoeCall
<1>1. SdoStep => SdoCall
  BY Zenon DEF SdoStep, SdoSend, SdoSendFails, SdoTimesOut, SdoReceive
<1>2. InfoStep => InfoCall
  BY DEF InfoStep, InfoSend, RxPdoSend, InfoSendFails, InfoTimesOut, InfoReceive, InfoCall
<1>3. SoeStep => SoeCall
  BY Zenon DEF SoeStep, SoeSend, SoeTaken, SoeNotTaken, SoeSendFails, SoeTimesOut, SoeReceive
<1>4. EoeSend \/ EoeFails \/ EoeReceive => EoeCall
  BY Zenon DEF EoeSend, EoeFails, EoeReceive
<1>5. /\ SdoCall => ~ InfoCall /\ ~ SoeCall /\ ~ EoeCall
      /\ InfoCall => ~ SoeCall /\ ~ EoeCall
      /\ SoeCall => ~ EoeCall
  BY DEF SdoCall, InfoCall, SoeCall, EoeCall
<1> QED BY <1>1, <1>2, <1>3, <1>4, <1>5, Zenon DEF CallStep

LEMMA ReadGoesOn ==
  ASSUME TalkTypes, job.kind = "read", running, NEW q, Waiting(box, q), ReadTalk(q), SdoStep
  PROVE  GoesOn
<1>1. job'.kind = "read"  BY SdoStepTypes DEF Steady
<1>2. \/ at' = "idle" /\ result' = "failed"
      \/ at' = "idle" /\ bytes' = objects[job.idx]'
      \/ \E r : Waiting(box', r) /\ ReadTalk(r)'
  BY ReadSent, ReadReceived, ReadGivesUp, Zenon DEF SdoStep
<1>3. CASE at' = "idle" /\ bytes' = objects[job.idx]'
  <2>1. Done'  BY <1>1, <1>3 DEF Done
  <2> QED BY <1>3, <2>1, Zenon DEF GoesOn
<1>4. CASE \E r : Waiting(box', r) /\ ReadTalk(r)'
  <2>1. PICK r : Waiting(box', r) /\ ReadTalk(r)'  BY <1>4
  <2>2. Talk(r)'  BY <1>1, <2>1 DEF Talk, Singles
  <2> QED BY <2>1, <2>2, Zenon DEF GoesOn
<1> QED BY <1>2, <1>3, <1>4, Zenon DEF GoesOn

LEMMA WriteGoesOn ==
  ASSUME TalkTypes, job.kind = "write", running, NEW q, Waiting(box, q), WriteTalk(q), SdoStep,
         mishaps' <= 1
  PROVE  GoesOn
<1>1. job' = job /\ job'.kind = "write"  BY SdoStepTypes DEF Steady
<1>2. \/ at' = "idle" /\ result' = "failed"
      \/ at' = "idle" /\ objects'[job.idx] = job.data
      \/ \E r : Waiting(box', r) /\ WriteTalk(r)'
  <2>1. CASE SdoSend  BY <2>1, WriteFirst, WriteSegment, Zenon
  <2>2. CASE SdoSendFails  BY <2>2, WriteSendFails, Zenon
  <2>3. CASE SdoTimesOut  BY <2>3, WriteGivesUp, Zenon
  <2>4. CASE SdoReceive  BY <2>4, WriteReceived, Zenon
  <2> QED BY <2>1, <2>2, <2>3, <2>4, Zenon DEF SdoStep
<1>3. CASE at' = "idle" /\ objects'[job.idx] = job.data
  <2>1. Done'  BY <1>1, <1>3 DEF Done
  <2> QED BY <1>3, <2>1, Zenon DEF GoesOn
<1>4. CASE \E r : Waiting(box', r) /\ WriteTalk(r)'
  <2>1. PICK r : Waiting(box', r) /\ WriteTalk(r)'  BY <1>4
  <2>2. Talk(r)'  BY <1>1, <2>1 DEF Talk, Singles
  <2> QED BY <2>1, <2>2, Zenon DEF GoesOn
<1> QED BY <1>2, <1>3, <1>4, Zenon DEF GoesOn

LEMMA ListGoesOn ==
  ASSUME TalkTypes, job.kind = "list", running, NEW q, Waiting(box, q), ListTalk(q), InfoStep
  PROVE  GoesOn
<1>1. job'.kind = "list"  BY InfoStepTypes DEF Steady
<1>2. \/ at' = "idle" /\ result' = "failed"
      \/ at' = "idle" /\ bytes' = Take(objects["list"]', MaxODList)
      \/ \E r : Waiting(box', r) /\ ListTalk(r)'
  BY ListStep, Zenon
<1>3. CASE at' = "idle" /\ bytes' = Take(objects["list"]', MaxODList)
  <2>1. Done'  BY <1>1, <1>3 DEF Done
  <2> QED BY <1>3, <2>1, Zenon DEF GoesOn
<1>4. CASE \E r : Waiting(box', r) /\ ListTalk(r)'
  <2>1. PICK r : Waiting(box', r) /\ ListTalk(r)'  BY <1>4
  <2>2. Talk(r)'  BY <1>1, <2>1 DEF Talk, Singles
  <2> QED BY <2>1, <2>2, Zenon DEF GoesOn
<1> QED BY <1>2, <1>3, <1>4, Zenon DEF GoesOn

LEMMA SoeReadGoesOn ==
  ASSUME TalkTypes, job.kind = "soe_read", running, NEW q, Waiting(box, q), SoeReadTalk(q),
         SoeStep
  PROVE  GoesOn
<1>1. job' = job /\ job'.kind = "soe_read"  BY SoeStepTypes DEF Steady
<1>2. \/ at' = "idle" /\ result' = "failed"
      \/ at' = "idle" /\ bytes' = Take(objects'[job.idx], job.psize)
      \/ \E r : Waiting(box', r) /\ SoeReadTalk(r)'
  BY SoeReadStep, Zenon
<1>3. CASE at' = "idle" /\ bytes' = Take(objects'[job.idx], job.psize)
  <2>1. Done'  BY <1>1, <1>3 DEF Done
  <2> QED BY <1>3, <2>1, Zenon DEF GoesOn
<1>4. CASE \E r : Waiting(box', r) /\ SoeReadTalk(r)'
  <2>1. PICK r : Waiting(box', r) /\ SoeReadTalk(r)'  BY <1>4
  <2>2. Talk(r)'  BY <1>1, <2>1 DEF Talk, Singles
  <2> QED BY <2>1, <2>2, Zenon DEF GoesOn
<1> QED BY <1>2, <1>3, <1>4, Zenon DEF GoesOn

LEMMA SoeWriteGoesOn ==
  ASSUME TalkTypes, job.kind = "soe_write", running, NEW q, Waiting(box, q), SoeWriteTalk(q),
         SoeStep, mishaps' = 0
  PROVE  GoesOn
<1>1. job' = job /\ job'.kind = "soe_write"  BY SoeStepTypes DEF Steady
<1>2. \/ at' = "idle" /\ result' = "failed"
      \/ at' = "idle" /\ objects'[job.idx] = job.data
      \/ \E r : Waiting(box', r) /\ SoeWriteTalk(r)'
  BY SoeWriteStep, Zenon
<1>3. CASE at' = "idle" /\ objects'[job.idx] = job.data
  <2>1. Done'  BY <1>1, <1>3 DEF Done
  <2> QED BY <1>3, <2>1, Zenon DEF GoesOn
<1>4. CASE \E r : Waiting(box', r) /\ SoeWriteTalk(r)'
  <2>1. PICK r : Waiting(box', r) /\ SoeWriteTalk(r)'  BY <1>4
  <2>2. Talk(r)'  BY <1>1, <2>1 DEF Talk, Singles
  <2> QED BY <2>1, <2>2, Zenon DEF GoesOn
<1> QED BY <1>2, <1>3, <1>4, Zenon DEF GoesOn

LEMMA InfoGoesOn ==
  ASSUME TalkTypes, job.kind \in Informed, running, NEW q, Waiting(box, q), SingleTalk(q),
         InfoStep
  PROVE  GoesOn
<1>1. job' = job /\ job'.kind \in Informed  BY InfoStepTypes DEF Steady
<1>2. \/ at' = "idle" /\ result' = "failed"
      \/ at' = "idle" /\ Told'
      \/ at' = "drain"
      \/ \E r : Waiting(box', r) /\ SingleTalk(r)'
  BY InfoSingleStep, Zenon
<1>3. CASE at' = "idle" /\ Told'
  <2>1. Done'  BY <1>1, <1>3 DEF Done, Told, Informed
  <2> QED BY <1>3, <2>1, Zenon DEF GoesOn
<1>4. CASE \E r : Waiting(box', r) /\ SingleTalk(r)'
  <2>1. PICK r : Waiting(box', r) /\ SingleTalk(r)'  BY <1>4
  <2>2. Talk(r)'  BY <1>1, <2>1 DEF Talk, Informed
  <2> QED BY <2>1, <2>2, Zenon DEF GoesOn
<1> QED BY <1>2, <1>3, <1>4, Zenon DEF GoesOn

LEMMA IpGoesOn ==
  ASSUME TalkTypes, job.kind \in {"get_ip", "set_ip"}, running, NEW q, Waiting(box, q),
         SingleTalk(q), EoeSend \/ EoeFails \/ EoeReceive
  PROVE  GoesOn
<1>1. job' = job /\ job'.kind \in {"get_ip", "set_ip"}  BY EoeStepTypes DEF Steady
<1>2. \/ at' = "idle" /\ result' = "failed"
      \/ /\ at' = "idle"
         /\ job.kind = "get_ip" => bytes' = objects'[job.idx]
         /\ job.kind = "set_ip" => objects'[job.idx] = job.data
      \/ \E r : Waiting(box', r) /\ SingleTalk(r)'
  BY IpStep, Zenon
<1>3. CASE /\ at' = "idle"
           /\ job.kind = "get_ip" => bytes' = objects'[job.idx]
           /\ job.kind = "set_ip" => objects'[job.idx] = job.data
  <2>1. Done'  BY <1>1, <1>3 DEF Done
  <2> QED BY <1>3, <2>1, Zenon DEF GoesOn
<1>4. CASE \E r : Waiting(box', r) /\ SingleTalk(r)'
  <2>1. PICK r : Waiting(box', r) /\ SingleTalk(r)'  BY <1>4
  <2>2. Talk(r)'  BY <1>1, <2>1 DEF Talk
  <2> QED BY <2>1, <2>2, Zenon DEF GoesOn
<1> QED BY <1>2, <1>3, <1>4, Zenon DEF GoesOn

\* Where calls take steps, and that failures are counted.
LEMMA InACall ==
  ASSUME TalkTypes, CallStep
  PROVE  /\ at \in {"send", "receive", "empty"}
         /\ mishaps' = mishaps \/ mishaps' = mishaps + 1
         /\ mishaps <= mishaps'
<1>1. SUFFICES /\ at \in {"send", "receive", "empty"}
               /\ mishaps' = mishaps \/ mishaps' = mishaps + 1
  <2>1. mishaps \in Nat  BY Zenon DEF TalkTypes
  <2> QED BY <2>1
<1>2. ASSUME NEW w \in {"send", "receive", "empty"}, Failing(w)
      PROVE  at \in {"send", "receive", "empty"} /\ (mishaps' = mishaps \/ mishaps' = mishaps + 1)
  BY <1>2 DEF Failing, Fault
<1>3. ASSUME NEW w, Sent(w)
      PROVE  at \in {"send", "receive", "empty"} /\ mishaps' = mishaps
  BY <1>3 DEF Sent
<1>4. ASSUME MailRead
      PROVE  at \in {"send", "receive", "empty"} /\ mishaps' = mishaps
  BY <1>4 DEF MailRead
<1>5. CASE SdoStep
  BY <1>2, <1>3, <1>4, <1>5 DEF SdoStep, SdoSend, SdoSendFails, SdoTimesOut, SdoReceive
<1>6. CASE InfoStep
  BY <1>2, <1>3, <1>4, <1>6
  DEF InfoStep, InfoSend, RxPdoSend, InfoSendFails, InfoTimesOut, InfoReceive
<1>7. CASE SoeStep
  BY <1>2, <1>3, <1>4, <1>7
  DEF SoeStep, SoeSend, SoeTaken, SoeNotTaken, SoeSendFails, SoeTimesOut, SoeReceive
<1>8. CASE EoeSend \/ EoeFails \/ EoeReceive
  BY <1>2, <1>4, <1>8 DEF EoeSend, EoeFails, EoeReceive
<1> QED BY <1>5, <1>6, <1>7, <1>8 DEF CallStep

LEMMA FollowedOn ==
  ASSUME TalkTypes, TalkInv, CallStep, Followed'
  PROVE  GoesOn
<1>1. TalkTypes' /\ Steady  BY CallStepTypes
<1>2. job' = job /\ clean' = clean /\ running' = running  BY <1>1 DEF Steady
<1>3. /\ at \in {"send", "receive", "empty"} /\ mishaps <= mishaps' /\ mishaps \in Nat
      /\ mishaps' = mishaps \/ mishaps' = mishaps + 1
  BY InACall DEF TalkTypes
<1>4. /\ job.kind \in {"read", "write", "list", "soe_read", "soe_write"} \cup Singles
      /\ clean /\ running
      /\ job.kind = "write" => mishaps' <= 1
      /\ job.kind = "soe_write" => mishaps' = 0
  BY <1>2 DEF Followed
<1>5. Followed  BY <1>3, <1>4 DEF Followed
<1>6. PICK q : Waiting(box, q) /\ Talk(q)  BY <1>3, <1>5 DEF TalkInv
<1>7. CASE job.kind = "read"
  <2>1. ReadTalk(q)  BY <1>6, <1>7 DEF Talk
  <2>2. SdoStep  BY <1>7, OfItsKind DEF SdoCall
  <2> QED BY <1>4, <1>6, <1>7, <2>1, <2>2, ReadGoesOn
<1>8. CASE job.kind = "write"
  <2>1. WriteTalk(q)  BY <1>6, <1>8 DEF Talk
  <2>2. SdoStep  BY <1>8, OfItsKind DEF SdoCall
  <2> QED BY <1>4, <1>6, <1>8, <2>1, <2>2, WriteGoesOn
<1>9. CASE job.kind = "list"
  <2>1. ListTalk(q)  BY <1>6, <1>9 DEF Talk
  <2>2. InfoStep  BY <1>9, OfItsKind DEF InfoCall
  <2> QED BY <1>4, <1>6, <1>9, <2>1, <2>2, ListGoesOn
<1>10. CASE job.kind = "soe_read"
  <2>1. SoeReadTalk(q)  BY <1>6, <1>10 DEF Talk
  <2>2. SoeStep  BY <1>10, OfItsKind DEF SoeCall
  <2> QED BY <1>4, <1>6, <1>10, <2>1, <2>2, SoeReadGoesOn
<1>11. CASE job.kind = "soe_write"
  <2>1. SoeWriteTalk(q)  BY <1>6, <1>11 DEF Talk
  <2>2. SoeStep  BY <1>11, OfItsKind DEF SoeCall
  <2> QED BY <1>4, <1>6, <1>11, <2>1, <2>2, SoeWriteGoesOn
<1>12. CASE job.kind \in Informed
  <2>1. SingleTalk(q)  BY <1>6, <1>12 DEF Talk, Singles, Informed
  <2>2. InfoStep  BY <1>12, OfItsKind DEF InfoCall, Informed
  <2> QED BY <1>4, <1>6, <1>12, <2>1, <2>2, InfoGoesOn
<1>13. CASE job.kind \in {"get_ip", "set_ip"}
  <2>1. SingleTalk(q)  BY <1>6, <1>13 DEF Talk, Singles
  <2>2. EoeSend \/ EoeFails \/ EoeReceive  BY <1>13, OfItsKind DEF EoeCall
  <2> QED BY <1>4, <1>6, <1>13, <2>1, <2>2, IpGoesOn
<1> QED BY <1>4, <1>7, <1>8, <1>9, <1>10, <1>11, <1>12, <1>13 DEF Singles, Informed

\* No call returns with success from a slave that has stopped.
LEMMA StoppedFails ==
  ASSUME CallStep, ~ running
  PROVE  at' # "idle" \/ result' = "failed"
<1>1. ~ (\E w : Sent(w)) /\ ~ MailRead  BY DEF Sent, MailRead
<1>2. CASE SdoStep
  BY <1>1, <1>2
  DEF SdoStep, SdoSend, SdoSendFails, SdoTimesOut, SdoReceive, Failed, Return, NextUpload,
      NextDownload
<1>3. CASE InfoStep
  BY <1>1, <1>3
  DEF InfoStep, InfoSend, RxPdoSend, InfoSendFails, InfoTimesOut, InfoReceive, Concluded,
      NextEntry, Return
<1>4. CASE SoeStep
  BY <1>1, <1>4
  DEF SoeStep, SoeSend, SoeTaken, SoeNotTaken, SoeSendFails, SoeTimesOut, SoeReceive,
      SoeFailed, NextFragment, Return
<1>5. CASE EoeSend \/ EoeFails \/ EoeReceive
  BY <1>1, <1>5 DEF EoeSend, EoeFails, EoeReceive, Return
<1> QED BY <1>2, <1>3, <1>4, <1>5 DEF CallStep

\* Only the entries of an object are asked for one after the other.
LEMMA DrainedAgain ==
  ASSUME CallStep, at' = "drain"
  PROVE  InfoStep /\ job.kind = "entries" /\ NextEntry
<1>1. ~ SdoStep
  BY DEF SdoStep, SdoSend, SdoSendFails, SdoTimesOut, SdoReceive, Sent, Failed, Return,
         NextUpload, NextDownload, Uploaded, SegmentUploaded, Downloaded, SegmentDownloaded,
         Unexpected
<1>2. ~ SoeStep
  <2>1. at # "drain" \/ ~ SoeReceive  BY DEF SoeReceive, MailRead
  <2> QED
    BY <2>1 DEF SoeStep, SoeSend, SoeTaken, SoeNotTaken, SoeSendFails, SoeTimesOut, SoeReceive,
         Sent, SoeFailed, NextFragment, Return, SoeValue, SoeWritten, SoeUnexpected
<1>3. ~ (EoeSend \/ EoeFails \/ EoeReceive)
  <2>1. at # "drain" \/ ~ EoeReceive  BY DEF EoeReceive, MailRead
  <2> QED
    BY <2>1 DEF EoeSend, EoeFails, EoeReceive, NextEoeFragment, Return, RecvFragment
<1>4. InfoStep  BY <1>1, <1>2, <1>3 DEF CallStep
<1>5. CASE InfoSend  BY <1>5 DEF InfoSend, Sent
<1>6. CASE RxPdoSend  BY <1>6 DEF RxPdoSend, Return
<1>7. CASE InfoSendFails \/ InfoTimesOut
  BY <1>4, <1>7 DEF InfoSendFails, InfoTimesOut, Concluded, Return, NextEntry
<1>8. CASE InfoReceive
  <2>1. at = "receive"  BY <1>8 DEF InfoReceive, MailRead
  <2> QED
    BY <1>4, <1>8, <2>1
    DEF InfoReceive, ListRead, DescriptionRead, EntryRead, TxPdoRead, InfoUnexpected, Concluded,
        Return, NextEntry
<1> QED BY <1>4, <1>5, <1>6, <1>7, <1>8 DEF InfoStep

\* The entries of an object: every request is for one of its entries.
LEMMA EntriesAgain ==
  ASSUME TalkTypes, job.kind = "entries", FirstRequest, stage = "first", InfoStep,
         at' # "idle"
  PROVE  FirstRequest' /\ stage' = "first"
<1>1. job' = job  BY InfoStepTypes DEF Steady
<1>2. MbxOut.cmd = "get_entry" /\ MbxOut.idx = job.idx  BY DEF FirstRequest
<1>3. ASSUME NEW x, Concluded(x) PROVE NextEntry
  BY <1>3 DEF Concluded, Return
<1>4. CASE NextEntry
  <2>1. MbxOut' = [MbxOut EXCEPT !.sub = @ + 1] /\ stage' = stage  BY <1>4 DEF NextEntry
  <2>2. MbxOut \in [cmd : {"get_entry"}, idx : Indexes, sub : Nat]
    <3>1. MbxOut \in Requests  BY DEF TalkTypes, CallTypes
    <3> QED BY <1>2, <3>1 DEF Requests
  <2>3. MbxOut'.cmd = "get_entry" /\ MbxOut'.idx = MbxOut.idx  BY <2>1, <2>2
  <2> QED BY <1>1, <1>2, <2>1, <2>3 DEF FirstRequest
<1>5. CASE MbxOut' = MbxOut /\ stage' = stage
  BY <1>1, <1>2, <1>5 DEF FirstRequest
<1>6. CASE InfoSend  BY <1>5, <1>6 DEF InfoSend, Sent, locals
<1>7. CASE InfoReceive
  BY <1>3, <1>4, <1>7
  DEF InfoReceive, ListRead, DescriptionRead, EntryRead, TxPdoRead, InfoUnexpected
<1>8. CASE InfoSendFails \/ InfoTimesOut
  BY <1>3, <1>4, <1>8 DEF InfoSendFails, InfoTimesOut
<1>9. ~ RxPdoSend  BY DEF RxPdoSend
<1> QED BY <1>6, <1>7, <1>8, <1>9 DEF InfoStep

LEMMA CallStepTalks ==
  ASSUME TalkTypes, TalkInv, CallStep
  PROVE  TalkInv'
<1>1. TalkTypes' /\ Steady  BY CallStepTypes
<1>2. job' = job /\ clean' = clean /\ running' = running  BY <1>1 DEF Steady
<1>3. at \in {"send", "receive", "empty"}  BY InACall
<1>4. /\ EntriesRight
      /\ job.kind = "entries" => FirstRequest /\ stage = "first"
      /\ job.kind = "rxpdo" /\ at = "send" => FirstRequest
      /\ job.kind = "eoe_send" /\ at = "send" => SendTalk
      /\ Followed => \E q : Waiting(box, q) /\ Talk(q)
  BY <1>3 DEF TalkInv, ReadIsObject, EntriesRight
<1>5. EntriesRight'
  <2>1. CASE job.kind = "entries"
    <3>1. InfoStep  BY <2>1, OfItsKind DEF InfoCall
    <3>2. ASSUME clean, running PROVE \E q : Waiting(box, q) /\ SingleTalk(q)
      <4>1. Followed  BY <2>1, <3>2 DEF Followed, Singles
      <4>2. PICK q : Waiting(box, q) /\ Talk(q)  BY <1>4, <4>1
      <4>3. SingleTalk(q)  BY <2>1, <4>2 DEF Talk, Singles
      <4> QED BY <4>2, <4>3
    <3> QED BY <1>4, <2>1, <3>1, <3>2, EntriesStep
  <2>2. CASE job.kind # "entries"  BY <1>2, <2>2 DEF EntriesRight
  <2> QED BY <2>1, <2>2
<1>6. at' = "drain" => job.kind = "entries"  BY DrainedAgain
<1>7. job.kind = "entries" /\ at' # "idle" => FirstRequest' /\ stage' = "first"
  <2>1. job.kind = "entries" => InfoStep  BY OfItsKind DEF InfoCall
  <2> QED BY <1>4, <2>1, EntriesAgain
<1>8. job.kind = "rxpdo" => at' = "idle" /\ (result' = "failed" \/ Done')
  <2>1. ASSUME job.kind = "rxpdo"
        PROVE  at' = "idle" /\ (result' = "failed" \/ Done')
    <3>1. InfoStep  BY <2>1, OfItsKind DEF InfoCall
    <3>2. /\ at' = "idle"
          /\ result' = "failed" \/ objects'["rxpdo"] = Take(job.data, PdoData)
      BY <1>4, <2>1, <3>1, RxPdoStep
    <3> QED BY <1>2, <2>1, <3>2 DEF Done
  <2> QED BY <2>1
<1>9. job.kind = "eoe_send" =>
        \/ at' = "idle" /\ (result' = "failed" \/ Done')
        \/ at' = "send" /\ SendTalk'
  <2>1. ASSUME job.kind = "eoe_send"
        PROVE  \/ at' = "idle" /\ (result' = "failed" \/ Done')
               \/ at' = "send" /\ SendTalk'
    <3>1. EoeSend \/ EoeFails \/ EoeReceive  BY <2>1, OfItsKind DEF EoeCall
    <3>2. \/ at' = "idle" /\ result' = "failed"
          \/ at' = "idle" /\ objects'[job.idx] = job.data
          \/ at' = "send" /\ SendTalk'
      BY <1>4, <2>1, <3>1, FrameStep
    <3> QED BY <1>2, <2>1, <3>2 DEF Done
  <2> QED BY <2>1
<1>10. ASSUME Success', clean', job'.kind \in {"write", "soe_write"} => Harmless'
       PROVE  Done'
  <2>1. at' = "idle" /\ result' = "ok"  BY <1>10 DEF Success
  <2>2. running  BY <2>1, StoppedFails
  <2>3. CASE job.kind \in {"rxpdo", "eoe_send"}  BY <1>8, <1>9, <2>1, <2>3
  <2>4. CASE job.kind \in {"read", "write", "list", "soe_read", "soe_write"} \cup Singles
    <3>1. job.kind = "write" => mishaps' <= 1
      BY <1>2, <1>10 DEF Harmless
    <3>2. job.kind = "soe_write" => mishaps' = 0
      <4>1. mishaps' \in Nat  BY <1>1, Zenon DEF TalkTypes
      <4> QED BY <1>2, <1>10, <4>1 DEF Harmless
    <3>3. Followed'  BY <1>2, <1>10, <2>2, <2>4, <3>1, <3>2 DEF Followed
    <3>4. GoesOn  BY <3>3, FollowedOn
    <3>5. ASSUME NEW r, Talk(r)' PROVE FALSE
      <4>1. job'.kind \in {"read", "write", "list", "soe_read", "soe_write"} \cup Singles
        BY <1>2, <2>4
      <4>2. ~ ReadTalk(r)' /\ ~ WriteTalk(r)' /\ ~ ListTalk(r)'
        BY <2>1 DEF ReadTalk, WriteTalk, ListTalk
      <4>3. ~ SoeReadTalk(r)' /\ ~ SoeWriteTalk(r)' /\ ~ SingleTalk(r)'
        BY <2>1 DEF SoeReadTalk, SoeWriteTalk, SingleTalk
      <4> QED BY <3>5, <4>1, <4>2, <4>3 DEF Talk
    <3> QED BY <2>1, <3>4, <3>5 DEF GoesOn
  <2>5. CASE job.kind \notin {"rxpdo", "eoe_send"} \cup
               ({"read", "write", "list", "soe_read", "soe_write"} \cup Singles)
    BY <1>2, <2>5 DEF Done, Singles
  <2> QED BY <2>3, <2>4, <2>5
<1>11. ReadIsObject' /\ WriteIsStored'  BY <1>5, <1>10, Promised
<1>12. at' = "drain" => Ready'  BY <1>2, <1>6, <1>7 DEF Ready
<1>13. Followed' /\ at' \in {"send", "receive", "empty"} =>
         \E r : Waiting(box', r) /\ Talk(r)'
  BY FollowedOn DEF GoesOn
<1> QED BY <1>2, <1>7, <1>8, <1>9, <1>11, <1>12, <1>13 DEF TalkInv

\* A call begins.
LEMMA StartTalks ==
  ASSUME TalkTypes, NEW j, NEW q, Started(j, q), at' = "drain", FirstRequest',
         job'.kind # "eoe_send"
  PROVE  TalkInv'
<1>1. stage' = "first" /\ bytes' = <<>> /\ mishaps' = 0
  BY Zenon DEF Started, Begin
<1>2. EntriesRight'
  <2>1. DOMAIN bytes' = {}  BY <1>1
  <2> QED BY <2>1 DEF EntriesRight
<1>3. ~ Success'  BY DEF Success
<1>4. ReadIsObject' /\ WriteIsStored'  BY <1>2, <1>3, Promised
<1>5. Ready'  BY <1>1 DEF Ready
<1> QED BY <1>1, <1>4, <1>5 DEF TalkInv

LEMMA SendStartTalks ==
  ASSUME at' = "send", SendTalk', job'.kind = "eoe_send"
  PROVE  TalkInv'
<1>1. EntriesRight' /\ ~ Success'  BY DEF EntriesRight, Success
<1>2. ReadIsObject' /\ WriteIsStored'  BY <1>1, Promised
<1>3. ~ Followed'  BY DEF Followed, Singles
<1> QED BY <1>2, <1>3 DEF TalkInv

LEMMA RecvStartTalks ==
  ASSUME at' = "receive", job'.kind = "eoe_recv"
  PROVE  TalkInv'
<1>1. EntriesRight' /\ ~ Success'  BY DEF EntriesRight, Success
<1>2. ReadIsObject' /\ WriteIsStored'  BY <1>1, Promised
<1>3. ~ Followed'  BY DEF Followed, Singles
<1> QED BY <1>2, <1>3 DEF TalkInv

\* The mailbox has been emptied, or not.
LEMMA DrainTalks ==
  ASSUME TalkTypes, TalkInv, at = "drain", at' = "send",
         UNCHANGED <<locals, result, objects, server, running>>,
         clean' = (box' = <<>> /\ server.mode # "soe")
  PROVE  TalkInv'
<1>1. /\ job' = job /\ stage' = stage /\ MbxOut' = MbxOut /\ bytes' = bytes /\ rest' = rest
      /\ toggle' = toggle /\ objects' = objects /\ server' = server
  BY DEF locals
<1>2. Ready /\ EntriesRight  BY DEF TalkInv, ReadIsObject, EntriesRight
<1>3. FirstRequest' /\ stage' = "first" /\ job'.kind # "eoe_send"
  BY <1>1, <1>2 DEF Ready, FirstRequest
<1>4. EntriesRight' /\ ~ Success'  BY <1>1, <1>2 DEF EntriesRight, Success
<1>5. ReadIsObject' /\ WriteIsStored'  BY <1>4, Promised
<1>6. ASSUME Followed' PROVE \E q : Waiting(box', q) /\ Talk(q)'
  <2>1. box' = <<>> /\ server.mode # "soe"  BY <1>6 DEF Followed
  <2>2. Waiting(box', <<>>)  BY <2>1, NoneWaits
  <2>3. job'.kind # "entries" => bytes' = <<>>  BY <1>1, <1>2 DEF Ready
  <2>4. CASE job.kind = "soe_write"
    <3>1. Gathered' = <<>>  BY <1>1, <2>1 DEF Gathered
    <3>2. /\ MbxOut' = Fragment(job.idx, job.data) /\ rest' = Skip(job.data, SoeData)
      BY <1>1, <1>3, <2>4 DEF FirstRequest
    <3>3. job.data \in Text /\ <<>> \in Text  BY <2>4, TextIs DEF TalkTypes, JobIs
    <3>4. /\ MbxOut'.cmd = "soe_writereq"
          /\ (<<>> \o MbxOut'.data) \o rest' = <<>> \o job.data
          /\ MbxOut'.incomplete \/ (rest' = <<>> /\ MbxOut'.idn = job.idx)
      <4>1. PICK a, d, m, i : a = <<>> /\ d = job.data /\ m = MbxOut' /\ i = job.idx
        OBVIOUS
      <4>2. a \in Text  BY <3>3, <4>1
      <4>3. d \in Text  BY <3>3, <4>1
      <4>4. m = Fragment(i, d)  BY <3>2, <4>1, Zenon
      <4>5. Fragment(i, d).cmd = "soe_writereq"  BY <4>2, <4>3, FragmentCut, Zenon
      <4>6. (a \o Fragment(i, d).data) \o Skip(d, SoeData) = a \o d
        BY <4>2, <4>3, FragmentJoins, Zenon
      <4>7. \/ Fragment(i, d).incomplete
            \/ Skip(d, SoeData) = <<>> /\ Fragment(i, d).idn = i
        BY <4>2, <4>3, FragmentCut, Zenon
      <4> QED BY <3>2, <4>1, <4>4, <4>5, <4>6, <4>7, Zenon
    <3>5. <<>> \o job.data = job.data
      <4>1. job.data \in Seq(Octet)  BY <3>3 DEF Text
      <4> QED BY <4>1, ConcatEmptySeq
    <3>6. SoeWriteTalk(<<>>)'  BY <1>1, <3>1, <3>4, <3>5 DEF SoeWriteTalk
    <3>7. Talk(<<>>)'  BY <1>1, <2>4, <3>6 DEF Talk, Singles
    <3> QED BY <2>2, <3>7
  <2>5. CASE job.kind # "soe_write"
    <3>1. Talk(<<>>)'
      BY <1>1, <1>3, <2>3, <2>5
      DEF Talk, ReadTalk, WriteTalk, ListTalk, SoeReadTalk, SingleTalk, Singles, FirstRequest
    <3> QED BY <2>2, <3>1
  <2> QED BY <2>4, <2>5
<1> QED BY <1>3, <1>5, <1>6 DEF TalkInv

\* What happens between the steps of a call.
LEMMA TalkStays ==
  ASSUME TalkInv, UNCHANGED <<locals, at, result, clean, objects, server, mishaps>>,
         running' => running,
         at # "idle" => \A q : Waiting(box, q) => Waiting(box', q)
  PROVE  TalkInv'
<1>1. /\ job' = job /\ stage' = stage /\ MbxOut' = MbxOut /\ bytes' = bytes /\ rest' = rest
      /\ toggle' = toggle /\ objects' = objects /\ server' = server /\ at' = at
      /\ result' = result /\ clean' = clean /\ mishaps' = mishaps
  BY DEF locals
<1>2. ReadIsObject' /\ WriteIsStored'
  <2>1. ReadIsObject /\ WriteIsStored  BY DEF TalkInv
  <2> QED BY <1>1, <2>1 DEF ReadIsObject, WriteIsStored, Success, Harmless
<1>3. FirstRequest => FirstRequest'  BY <1>1 DEF FirstRequest
<1>4. Ready => Ready'  BY <1>1, <1>3 DEF Ready
<1>5. SendTalk => SendTalk'  BY <1>1 DEF SendTalk, EoeFragment
<1>6. Followed' => Followed  BY <1>1 DEF Followed
<1>7. ASSUME NEW q, Talk(q) PROVE Talk(q)'
  <2>1. ReadTalk(q) => ReadTalk(q)'  BY <1>1, <1>3 DEF ReadTalk
  <2>2. WriteTalk(q) => WriteTalk(q)'
    <3>1. DownloadBegun(q) => DownloadBegun(q)'  BY <1>1 DEF DownloadBegun, Awaits
    <3>2. SegmentReady(q) => SegmentReady(q)'  BY <1>1 DEF SegmentReady, Awaits
    <3>3. SegmentGiven(q) => SegmentGiven(q)'  BY <1>1 DEF SegmentGiven, Awaits
    <3> QED BY <1>1, <1>3, <3>1, <3>2, <3>3 DEF WriteTalk
  <2>3. ListTalk(q) => ListTalk(q)'  BY <1>1, <1>3 DEF ListTalk, AllWords
  <2>4. SoeReadTalk(q) => SoeReadTalk(q)'  BY <1>1, <1>3 DEF SoeReadTalk
  <2>5. SoeWriteTalk(q) => SoeWriteTalk(q)'  BY <1>1 DEF SoeWriteTalk, Gathered
  <2>6. SingleTalk(q) => SingleTalk(q)'  BY <1>1, <1>3 DEF SingleTalk
  <2> QED BY <1>1, <1>7, <2>1, <2>2, <2>3, <2>4, <2>5, <2>6 DEF Talk
<1>8. ASSUME Followed', at' \in {"send", "receive", "empty"}
      PROVE  \E q : Waiting(box', q) /\ Talk(q)'
  <2>1. PICK q : Waiting(box, q) /\ Talk(q)  BY <1>1, <1>6, <1>8 DEF TalkInv
  <2>2. Waiting(box', q) /\ Talk(q)'  BY <1>1, <1>7, <1>8, <2>1
  <2> QED BY <2>2
<1> QED BY <1>1, <1>2, <1>3, <1>4, <1>5, <1>8 DEF TalkInv

LEMMA DrainedTalks ==
  ASSUME TalkTypes, TalkInv, Drained
  PROVE  TalkTypes' /\ TalkInv'
<1>1. /\ at = "drain" /\ at' = "send" /\ calls' = calls
      /\ UNCHANGED <<locals, result, objects, server, running>>
      /\ clean' = (box' = <<>> /\ server.mode # "soe")
  BY Zenon DEF Drained
<1>2. mishaps' = mishaps \/ mishaps' = mishaps + 1
  BY DEF Drained, Fault
<1>3. TalkInv'  BY <1>1, DrainTalks
<1>4. TalkTypes'
  <2>1. calls' \in Nat  BY <1>1 DEF TalkTypes
  <2>2. /\ job' = job /\ rest' = rest /\ MbxOut' = MbxOut /\ toggle' = toggle
        /\ objects' = objects /\ server' = server
    BY <1>1 DEF locals
  <2>3. SlaveTypes' /\ CallTypes'  BY <2>2, CallSame, Zenon DEF TalkTypes, SlaveTypes
  <2>4. JobIs(job')  BY <2>2, Zenon DEF TalkTypes
  <2>5. mishaps' \in Nat  BY <1>2 DEF TalkTypes
  <2>6. toggle' \in BOOLEAN  BY <2>2, Zenon DEF TalkTypes
  <2> QED BY <2>1, <2>3, <2>4, <2>5, <2>6, Zenon DEF TalkTypes
<1> QED BY <1>3, <1>4

LEMMA HookedTalks ==
  ASSUME TalkTypes, TalkInv, Hooked
  PROVE  TalkTypes' /\ TalkInv'
<1>1. /\ box # <<>> /\ Head(box).cmd = "eoe" /\ at \in {"idle", "drain", "receive"}
      /\ at' = (IF at = "drain" THEN "send" ELSE at)
      /\ clean' = (IF at = "drain" THEN box' = <<>> /\ server.mode # "soe" ELSE clean)
      /\ box' = box \/ box' = Tail(box)
      /\ UNCHANGED <<calls, locals, result, objects, server, running, mishaps>>
  BY Zenon DEF Hooked, TakenOff
<1>2. TalkTypes'
  <2>1. calls' \in Nat  BY <1>1 DEF TalkTypes
  <2> QED BY <1>1, <2>1, RestTypes
<1>3. CASE at = "drain"
  <2>1. at' = "send" /\ clean' = (box' = <<>> /\ server.mode # "soe")  BY <1>1, <1>3, Zenon
  <2>2. TalkInv'  BY <1>1, <1>3, <2>1, DrainTalks
  <2> QED BY <1>2, <2>2
<1>4. CASE at # "drain"
  <2>1. at' = at /\ clean' = clean  BY <1>1, <1>4
  <2>2. ASSUME NEW q, Waiting(box, q) PROVE Waiting(box', q)
    <3>1. Waiting(Tail(box), q)  BY <1>1, <2>2, MailGoes, Zenon DEF IsFragment
    <3> QED BY <1>1, <2>2, <3>1
  <2>3. TalkInv'  BY <1>1, <2>1, <2>2, TalkStays
  <2> QED BY <1>2, <2>3
<1> QED BY <1>3, <1>4

LEMMA LostTalks ==
  ASSUME TalkTypes, TalkInv, FragmentLost
  PROVE  TalkTypes' /\ TalkInv'
<1>1. UNCHANGED <<calls, locals, at, result, clean, objects, server, running, mishaps>>
  BY Zenon DEF FragmentLost
<1>2. PICK i \in DOMAIN box : box[i].cmd = "eoe" /\ box' = RemoveAt(box, i)
  BY Zenon DEF FragmentLost
<1>3. ASSUME NEW q, Waiting(box, q) PROVE Waiting(box', q)
  <2>1. IsFragment(box[i])  BY <1>2 DEF IsFragment
  <2>2. Waiting(RemoveAt(box, i), q)  BY <1>3, <2>1, FragmentLeaves
  <2> QED BY <1>2, <2>2
<1>4. calls' \in Nat  BY <1>1 DEF TalkTypes
<1>5. TalkTypes'  BY <1>1, <1>4, RestTypes
<1>6. TalkInv'  BY <1>1, <1>3, TalkStays
<1> QED BY <1>5, <1>6

LEMMA FragmentsAreThose ==
  ASSUME NEW k, NEW d, NEW s, Len(d) \in Nat
  PROVE  /\ \E T : FragmentsOf(k, d, s) \in Seq(T)
         /\ \A i \in 1 .. Len(FragmentsOf(k, d, s)) : IsFragment(FragmentsOf(k, d, s)[i])
<1> PICK c, f : c = FragmentCount(Len(d)) /\ f = FragmentsOf(k, d, s)  OBVIOUS
<1>1. c \in Nat  BY Counted
<1>2. f = [i \in 1 .. c |-> NthFragment(k, d, s, i)]  BY Zenon DEF FragmentsOf
<1>3. PICK T : T = {f[i] : i \in 1 .. c}  OBVIOUS
<1>4. DOMAIN f = 1 .. c /\ f = [i \in 1 .. c |-> f[i]]  BY <1>2
<1>5. f \in [1 .. c -> T]  BY <1>3, <1>4
<1>6. f \in Seq(T) /\ Len(f) = c  BY <1>1, <1>4, <1>5
<1>7. ASSUME NEW i \in 1 .. Len(f) PROVE IsFragment(f[i])
  <2>1. f[i] = NthFragment(k, d, s, i)  BY <1>2, <1>6
  <2>2. NthFragment(k, d, s, i).cmd = "eoe"  BY DEF NthFragment
  <2> QED BY <2>1, <2>2 DEF IsFragment
<1> QED BY <1>6, <1>7

LEMMA SlaveSendsTalks ==
  ASSUME TalkTypes, TalkInv, SlaveSends
  PROVE  TalkTypes' /\ TalkInv'
<1>1. /\ UNCHANGED <<locals, at, result, clean, objects, server, running, mishaps>>
      /\ calls' = calls + 1
  BY Zenon DEF SlaveSends
<1>2. PICK n \in Sizes, s \in Stamped :
        box' = box \o FragmentsOf(Len(sent) + 1, Octets(MaxCalls + (Len(sent) + 1), n), s)
  BY Zenon DEF SlaveSends
<1>3. PICK k, d : k = Len(sent) + 1 /\ d = Octets(MaxCalls + (Len(sent) + 1), n)  OBVIOUS
<1>4. PICK f : f = FragmentsOf(k, d, s)  OBVIOUS
<1>5. Len(d) \in Nat
  <2>1. n \in Nat  BY Parameters
  <2>2. PICK w : w = MaxCalls + (Len(sent) + 1)  OBVIOUS
  <2>3. d = [i \in 1 .. n |-> <<w, i>>]  BY <1>3, <2>2, Zenon DEF Octets
  <2>4. PICK T : T = {<<w, i>> : i \in 1 .. n}  OBVIOUS
  <2>5. d \in Seq(T)  BY <2>1, <2>3, <2>4
  <2> QED BY <2>5, LenProperties
<1>6. PICK T : f \in Seq(T)  BY <1>4, <1>5, FragmentsAreThose
<1>7. \A i \in 1 .. Len(f) : IsFragment(f[i])  BY <1>4, <1>5, FragmentsAreThose
<1>8. ASSUME NEW q, Waiting(box, q) PROVE Waiting(box', q)
  <2>1. Waiting(box \o f, q)  BY <1>6, <1>7, <1>8, FragmentsCome
  <2> QED BY <1>2, <1>3, <1>4, <2>1
<1>9. calls' \in Nat  BY <1>1 DEF TalkTypes
<1>10. TalkTypes'  BY <1>1, <1>9, RestTypes
<1>11. TalkInv'  BY <1>1, <1>8, TalkStays
<1> QED BY <1>10, <1>11

LEMMA BeginTalks ==
  ASSUME TalkTypes, TalkInv, SdoBegin \/ InfoStart \/ SoeBegin \/ EoeBegin
  PROVE  TalkTypes' /\ TalkInv'
<1>1. calls \in Nat  BY Zenon DEF TalkTypes
<1>2. ASSUME FirstRequest', at' = "drain", job'.kind # "eoe_send", NEW j, NEW q, Started(j, q)
      PROVE  TalkTypes' /\ TalkInv'
  BY <1>2, StartedTypes, StartTalks
<1>3. CASE SdoBegin
  <2>1. at' = "drain" /\ job'.kind # "eoe_send"
    BY <1>3 DEF SdoBegin, ecx_SDOread, ecx_SDOwrite, Begin
  <2>2. FirstRequest' /\ \E j, q : Started(j, q)
    BY <1>1, <1>3, ReadStarts, WriteStarts, Zenon DEF SdoBegin
  <2> QED BY <1>2, <2>1, <2>2
<1>4. CASE InfoStart
  <2>1. job'.kind # "eoe_send"
    BY <1>4
    DEF InfoStart, InfoBegin, ecx_RxPDO, ecx_TxPDO, ecx_readODlist, ecx_readODdescription,
        ecx_readOE, Begin
  <2>2. FirstRequest' /\ at' = "drain" /\ \E j, q : Started(j, q)
    BY <1>1, <1>4, InfoStarts, Zenon
  <2> QED BY <1>2, <2>1, <2>2
<1>5. CASE SoeBegin
  <2>1. job'.kind # "eoe_send"  BY <1>5 DEF SoeBegin, ecx_SoEread, ecx_SoEwrite, Begin
  <2>2. FirstRequest' /\ at' = "drain" /\ \E j, q : Started(j, q)
    BY <1>1, <1>5, SoeStarts, Zenon
  <2> QED BY <1>2, <2>1, <2>2
<1>6. CASE ecx_EOEsetIp \/ ecx_EOEgetIp
  <2>1. job'.kind # "eoe_send"  BY <1>6 DEF ecx_EOEsetIp, ecx_EOEgetIp, Begin
  <2>2. FirstRequest' /\ at' = "drain" /\ \E j, q : Started(j, q)
    BY <1>1, <1>6, IpStarts, Zenon
  <2> QED BY <1>2, <2>1, <2>2
<1>7. CASE ecx_EOEsend
  <2>1. SendTalk' /\ job'.kind = "eoe_send" /\ at' = "send" /\ \E j, q : Started(j, q)
    BY <1>1, <1>7, SendStarts, Zenon
  <2> QED BY <2>1, StartedTypes, SendStartTalks
<1>8. CASE ecx_EOErecv
  <2>1. TalkTypes' /\ at' = "receive" /\ job'.kind = "eoe_recv"  BY <1>8, RecvTypes, Zenon
  <2> QED BY <2>1, RecvStartTalks
<1> QED BY <1>3, <1>4, <1>5, <1>6, <1>7, <1>8, Zenon DEF EoeBegin

LEMMA NextTalks ==
  ASSUME TalkTypes, TalkInv, [CallsNext]_callsVars
  PROVE  TalkTypes' /\ TalkInv'
<1>1. calls \in Nat  BY Zenon DEF TalkTypes
<1>2. ASSUME UNCHANGED <<calls, locals, at, result, clean, objects, server, mishaps>>,
             running' => running,
             at # "idle" => box' = box
      PROVE  TalkTypes' /\ TalkInv'
  <2>1. calls' \in Nat  BY <1>1, <1>2
  <2>2. TalkTypes'  BY <1>2, <2>1, RestTypes
  <2>3. at # "idle" => \A q : Waiting(box, q) => Waiting(box', q)  BY <1>2
  <2>4. TalkInv'  BY <1>2, <2>3, TalkStays
  <2> QED BY <2>2, <2>4
<1>3. CASE SdoBegin \/ InfoStart \/ SoeBegin \/ EoeBegin  BY <1>3, BeginTalks
<1>4. CASE Drained  BY <1>4, DrainedTalks
<1>5. CASE CallStep  BY <1>5, CallStepTypes, CallStepTalks
<1>6. CASE Hooked  BY <1>6, HookedTalks
<1>7. CASE SlaveSends  BY <1>7, SlaveSendsTalks
<1>8. CASE FragmentLost  BY <1>8, LostTalks
<1>9. CASE mailbox_reader
  <2>1. at = "idle" /\ UNCHANGED <<calls, locals, at, result, clean, objects, server, mishaps>>
        /\ running' = running
    BY <1>9, Zenon DEF mailbox_reader
  <2> QED BY <1>2, <2>1
<1>10. CASE Stop
  <2>1. /\ UNCHANGED <<calls, locals, at, result, clean, objects, server, mishaps, box>>
        /\ running' = FALSE
    BY <1>10, Zenon DEF Stop, slaveState
  <2> QED BY <1>2, <2>1
<1>11. CASE UNCHANGED callsVars
  <2>1. /\ UNCHANGED <<calls, locals, at, result, clean, objects, server, mishaps, box>>
        /\ running' = running
    BY <1>11, Zenon DEF callsVars, serviceVars, slaveState
  <2> QED BY <1>2, <2>1
<1> QED
  BY <1>3, <1>4, <1>5, <1>6, <1>7, <1>8, <1>9, <1>10, <1>11, Zenon
  DEF CallsNext, Calling, EoeStep, CallStep

LEMMA TalkAtFirst ==
  ASSUME CallsInit
  PROVE  TalkTypes /\ TalkInv
<1>1. /\ calls = 0 /\ job = [kind |-> "none"] /\ MbxOut = [cmd |-> "none"] /\ at = "idle"
      /\ rest = <<>> /\ server = NoTransfer /\ toggle = FALSE /\ mishaps = 0
      /\ result = "none"
  BY Zenon DEF CallsInit, ServiceInit
<1>2. PICK n \in Sizes : objects = [i \in Stored |-> Octets(0, n)]
  BY Zenon DEF CallsInit, ServiceInit
<1>3. SlaveTypes
  <2>1. Octets(0, n) \in Text
    <3>1. n \in Nat /\ 0 \in Nat  BY Parameters
    <3> QED BY <3>1, OctetsAreText
  <2>2. objects \in [Stored -> Text]  BY <1>2, <2>1
  <2> QED BY <1>1, <2>2, ServerNew, Zenon DEF SlaveTypes
<1>4. CallTypes
  <2>1. <<>> \in Text  BY DEF Text
  <2>2. [cmd |-> "none"] \in Requests  BY RequestNew
  <2>3. [cmd |-> "none"].cmd # "eoe" /\ [kind |-> "none"].kind # "eoe_send"
        /\ [kind |-> "none"].kind \notin {"soe_read", "soe_write"}
    OBVIOUS
  <2> QED BY <1>1, <2>1, <2>2, <2>3, Zenon DEF CallTypes
<1>5. TalkTypes  BY <1>1, <1>3, <1>4 DEF TalkTypes, JobIs
<1>6. ReadIsObject /\ WriteIsStored  BY <1>1 DEF ReadIsObject, WriteIsStored, Success
<1> QED BY <1>1, <1>5, <1>6 DEF TalkInv

\* In every state the call under way, what the slave holds and the mails that wait fit
\* together, whatever faults there are, and whatever fragments come between.
THEOREM TalkAlways == CallsSpec => [](TalkTypes /\ TalkInv)
<1>1. CallsInit => TalkTypes /\ TalkInv  BY TalkAtFirst
<1>2. TalkTypes /\ TalkInv /\ [CallsNext]_callsVars => TalkTypes' /\ TalkInv'  BY NextTalks
<1> QED BY <1>1, <1>2, PTL DEF CallsSpec

\* What a call returns as read is what the slave holds, every octet once and in order
\* (ecx_SDOread, ecx_TxPDO, ecx_readODlist, ecx_readODdescription, ecx_readOE,
\* ecx_SoEread, ecx_EOEgetIp).
THEOREM ReadIsObjectAlways == CallsSpec => []ReadIsObject
<1>1. TalkInv => ReadIsObject  BY DEF TalkInv
<1> QED BY <1>1, TalkAlways, PTL

\* When a call reports that data is written, the slave has it, all of it (ecx_SDOwrite,
\* ecx_RxPDO, ecx_SoEwrite, ecx_EOEsend, ecx_EOEsetIp).
THEOREM WriteIsStoredAlways == CallsSpec => []WriteIsStored
<1>1. TalkInv => WriteIsStored  BY DEF TalkInv
<1> QED BY <1>1, TalkAlways, PTL
===============================================================================
