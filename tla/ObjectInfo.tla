----------------------------- MODULE ObjectInfo -----------------------------
(***************************************************************************)
(* The other CoE services of soem/ethercatcoe.c: PDOs by mailbox           *)
(* (ecx_RxPDO, ecx_TxPDO) and the slave's object dictionary: the list of   *)
(* its objects, in as many mails as it takes, the description of an        *)
(* object, and the descriptions of its entries one by one.                 *)
(*                                                                         *)
(* No answer is compared with the number that was asked for.  A            *)
(* description is abstracted to what it describes.                         *)
(***************************************************************************)
EXTENDS MailboxService

CONSTANT MaxODList     \* EC_MAXODLIST: entries of the master's list

MaxSub   == 1              \* the highest subindex of every object
PdoData  == MailData + 8   \* what fits in a mail as a PDO
ListData == MailData + 2   \* words that fit in a mail of the list

InfoCall == job.kind \in {"list", "description", "entries", "rxpdo", "txpdo"}

-----------------------------------------------------------------------------
(* The slave serves one request; it may refuse to tell of its dictionary.   *)

\* The words of the list: what list it is, and the objects.
Mails(words) ==
  LET count == (Len(words) + ListData - 1) \div ListData
  IN  [k \in 1 .. count |->
         [cmd |-> "list", words |-> Take(Skip(words, (k - 1) * ListData), ListData),
          fragments |-> count - k]]

InfoServe(r) ==
  /\ \/ /\ r.cmd = "get_list"
        /\ box' = box \o Mails(<< <<"all_objects">> >> \o objects["list"])
     \/ /\ r.cmd = "get_txpdo"
        /\ Answer([cmd |-> "txpdo", data |-> Take(objects["txpdo"], PdoData)])
     \/ /\ r.cmd = "get_description"
        /\ Answer([cmd |-> "description", of |-> r.idx]) \/ Abort
     \/ /\ r.cmd = "get_entry"
        /\ Answer([cmd |-> "entry", of |-> <<r.idx, r.sub>>]) \/ Abort
     \/ r.cmd = "rxpdo" /\ Silent
  /\ objects' = IF r.cmd = "rxpdo" THEN [objects EXCEPT !["rxpdo"] = r.data] ELSE objects
  /\ UNCHANGED server

-----------------------------------------------------------------------------
(* The calls.                                                              *)

InfoBegin(j, request) ==
  /\ Begin(j, request)
  /\ rest' = <<>>
  /\ at' = "drain"

\* "limit transfer"
ecx_RxPDO ==
  \E psize \in Sizes :
    LET data == Octets(calls + 1, psize)
    IN  InfoBegin([kind |-> "rxpdo", idx |-> "rxpdo", data |-> data],
                  [cmd |-> "rxpdo", data |-> Take(data, PdoData)])

ecx_TxPDO ==
  \E psize \in Sizes :
    InfoBegin([kind |-> "txpdo", idx |-> "txpdo", psize |-> psize], [cmd |-> "get_txpdo"])

ecx_readODlist ==
  InfoBegin([kind |-> "list", idx |-> "list"], [cmd |-> "get_list"])

ecx_readODdescription ==
  \E i \in Indexes :
    InfoBegin([kind |-> "description", idx |-> i], [cmd |-> "get_description", idx |-> i])

ecx_readOE ==
  \E i \in Indexes :
    InfoBegin([kind |-> "entries", idx |-> i], [cmd |-> "get_entry", idx |-> i, sub |-> 0])

-----------------------------------------------------------------------------
(* Requests and answers.                                                   *)

\* The loop of ecx_readOE: the next entry, whatever became of this one.
NextEntry ==
  /\ job.kind = "entries" /\ MbxOut.sub < MaxSub
  /\ MbxOut' = [MbxOut EXCEPT !.sub = @ + 1]
  /\ at' = "drain"
  /\ UNCHANGED <<stage, toggle, rest, result>>

Concluded(r) ==
  \/ NextEntry
  \/ ~ (job.kind = "entries" /\ MbxOut.sub < MaxSub) /\ Return(r)

InfoSend == InfoCall /\ job.kind # "rxpdo" /\ Sent("receive") /\ InfoServe(MbxOut)

\* There is no answer to a PDO.
RxPdoSend ==
  /\ job.kind = "rxpdo" /\ at = "send" /\ running
  /\ InfoServe(MbxOut)
  /\ Return("ok")
  /\ UNCHANGED <<hook, calls, job, bytes, clean, running, faults, mishaps>>

InfoSendFails ==
  /\ InfoCall /\ Failing("send")
  /\ (running /\ InfoServe(MbxOut)) \/ UNCHANGED slaveState
  /\ Concluded("failed")

InfoTimesOut ==
  InfoCall /\ Failing("receive") /\ UNCHANGED slaveState /\ Concluded("failed")

\* "offset to skip info header in first frame, otherwise set to 0"
Words(m) == IF stage = "first" THEN Tail(m.words) ELSE m.words

\* "trim to maximum number of ODlist entries defined", and read on: "check if
\* more fragments will follow".
ListRead(m) ==
  /\ job.kind = "list" /\ m.cmd = "list"
  /\ bytes' = Take(bytes \o Words(m), MaxODList)
  /\ \/ m.fragments = 0 /\ Return("ok")
     \/ /\ m.fragments > 0 /\ stage' = "segments"
        /\ UNCHANGED <<MbxOut, at, toggle, rest, result>>

DescriptionRead(m) ==
  /\ job.kind = "description" /\ m.cmd = "description"
  /\ bytes' = <<m.of>> /\ Return("ok")

\* ecx_readOEsingle.  That the slave held nothing is noted with the entry.
EntryRead(m) ==
  /\ job.kind = "entries" /\ m.cmd = "entry"
  /\ bytes' = [s \in DOMAIN bytes \cup {MbxOut.sub} |->
                 IF s = MbxOut.sub THEN [of |-> m.of, clean |-> clean] ELSE bytes[s]]
  /\ Concluded("ok")

\* "parameter buffer big enough ?"
TxPdoRead(m) ==
  /\ job.kind = "txpdo" /\ m.cmd = "txpdo"
  /\ IF Len(m.data) <= job.psize THEN bytes' = m.data /\ Return("ok")
                                 ELSE UNCHANGED bytes /\ Return("failed")

\* "Unexpected frame returned", or an error of the slave: a list ends here too.
InfoUnexpected(m) ==
  /\ m.cmd # CASE job.kind = "list" -> "list"
               [] job.kind = "description" -> "description"
               [] job.kind = "entries" -> "entry"
               [] OTHER -> "txpdo"
  /\ Concluded("failed")
  /\ UNCHANGED bytes

InfoReceive ==
  /\ InfoCall /\ MailRead
  /\ LET m == Head(box)
     IN  \/ ListRead(m) \/ DescriptionRead(m) \/ EntryRead(m) \/ TxPdoRead(m)
         \/ InfoUnexpected(m)

InfoStart == \/ ecx_RxPDO \/ ecx_TxPDO \/ ecx_readODlist \/ ecx_readODdescription
             \/ ecx_readOE
InfoStep  == InfoSend \/ RxPdoSend \/ InfoSendFails \/ InfoTimesOut \/ InfoReceive
=============================================================================
