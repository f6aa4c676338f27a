-------------------------------- MODULE Sii --------------------------------
(***************************************************************************)
(* Access to the slaves' EEPROM (SII) in ethercatmain.c: ecx_siigetbyte    *)
(* with its cache of one slave, ecx_readeeprom, ecx_writeeeprom and        *)
(* ecx_esidump that bypass it, and the hand-over of the EEPROM between     *)
(* master and slave (PDI) by ecx_eeprom2master and ecx_eeprom2pdi.  The    *)
(* section readers (ecx_siifind, ecx_siiSM, ...) are calls of              *)
(* ecx_siigetbyte at any addresses between their first and last            *)
(* statement; what they make of the bytes is in SiiSections.  And the      *)
(* program eepromtool, which reaches one slave by its position, with the   *)
(* same datagrams (ecx_readeepromAP, ecx_writeeepromAP), and takes the     *)
(* EEPROM itself.                                                          *)
(*                                                                         *)
(* Addresses are words.  A word of an EEPROM is its slave, its place and   *)
(* how often it was written, so that two are never equal by chance.  One   *)
(* action is one datagram, each of which can be lost on its way back or    *)
(* out; the EEPROM interface of a slave is external.                       *)
(***************************************************************************)
EXTENDS SlaveList, Sequences

CONSTANTS
  Words,           \* the words of each EEPROM
  Wide,            \* slaves that give four words at a time (eep_8byte), not two
  Retries,         \* EC_DEFAULTRETRIES
  MaxNacks,        \* bound: commands an EEPROM refuses
  MaxLosses,       \* bound: datagrams lost
  MaxCalls         \* bound: calls of the application

Places == 0 .. Words + 2          \* a read can start at the last word
Whole == 0 .. Words - 1
Zero == <<"zero">>                \* what a failed read leaves
NoSlave == Master                 \* esislave before the first read
Idle == [op |-> "idle"]

\* Calls that copy many words, those by position, and those that write.
Copies == {"dump", "peek", "poke", "alias"}
ByPosition(it) == it.op \in Copies \ {"dump"}
Writes == {"write", "poke", "alias"}

ASSUME SiiAssumption ==
  /\ Words \in Nat \ {0}
  /\ Wide \subseteq Slaves
  /\ Retries \in Nat /\ MaxNacks \in Nat /\ MaxLosses \in Nat /\ MaxCalls \in Nat

VARIABLES
  written,                        \* how often each word was written
  owner, data, refused,           \* EEPCFG, EEPDAT, EC_ESTAT_NACK of each slave
  eep_pdi,                        \* ec_slave[].eep_pdi
  esislave, esimap, esibuf,       \* the cache
  reader,                         \* the section reader or the copier, and its eectl
  call, pc, cnt, nackcnt,
  result,
  losses, nacks, calls

device == <<written, owner, data, refused>>
cache == <<esislave, esimap, esibuf>>
bounds == <<losses, nacks, calls>>
vars == <<device, eep_pdi, cache, reader, call, pc, cnt, nackcnt, result, bounds>>

Word(s, w) == <<s, w, written[s][w]>>

Init ==
  /\ written = [s \in Slaves |-> [w \in Places |-> 0]]
  /\ owner \in [Slaves -> {"master", "pdi"}]
  /\ eep_pdi = [s \in Slaves |-> owner[s] = "pdi"]
  /\ data = [s \in Slaves |-> [i \in 0 .. 3 |-> Zero]]
  /\ refused = [s \in Slaves |-> FALSE]
  /\ esislave = NoSlave /\ esimap = {} /\ esibuf = [w \in Places |-> Zero]
  /\ reader = Idle /\ call = Idle /\ pc = "idle"
  /\ cnt = 0 /\ nackcnt = 0 /\ result = Idle
  /\ losses = 0 /\ nacks = 0 /\ calls = 0

-----------------------------------------------------------------------------
(* Calls.                                                                   *)

Start(op, s, w, first) ==
  /\ call' = [op |-> op, s |-> s, w |-> w, was |-> written[s][w]]
  /\ pc' = first /\ cnt' = 0 /\ nackcnt' = 0

Span(s) == IF s \in Wide THEN 4 ELSE 2

\* The cache is of another slave: it is emptied first.
\* Wrong: only renamed.
MapFor_Wrong(s) == esimap
MapFor(s) == IF s = esislave THEN esimap ELSE {}

\* eeprom2master comes first when the flag says that the PDI has the EEPROM.
First(s) == IF eep_pdi[s] THEN "force" ELSE "wait"

SiiGetByte(s, w) ==
  /\ pc = "idle" /\ calls < MaxCalls
  /\ reader # Idle => reader.op = "section" /\ reader.s = s
  /\ calls' = calls + 1
  /\ esislave' = s /\ esimap' = MapFor(s)
  /\ IF w \in MapFor(s)
     THEN /\ result' = [op |-> "get", s |-> s, w |-> w, value |-> esibuf[w]]
          /\ UNCHANGED <<call, pc, cnt, nackcnt>>
     ELSE /\ Start("get", s, w, First(s))
          /\ result' = Idle
  /\ UNCHANGED <<device, eep_pdi, esibuf, reader, losses, nacks>>

Bypass(op, s, w) ==
  /\ pc = "idle" /\ reader = Idle /\ calls < MaxCalls
  /\ calls' = calls + 1
  /\ Start(op, s, w, First(s)) /\ result' = Idle
  /\ UNCHANGED <<device, eep_pdi, cache, reader, losses, nacks>>
ReadEeprom(s, w) == Bypass("read", s, w)
WriteEeprom(s, w) == Bypass("write", s, w)

\* The configuration hands the EEPROM to the PDI before PRE_OP.
EepromToPdi(s) ==
  /\ pc = "idle" /\ reader = Idle /\ ~eep_pdi[s] /\ calls < MaxCalls
  /\ calls' = calls + 1
  /\ Start("pdi", s, 0, "give") /\ result' = Idle
  /\ UNCHANGED <<device, eep_pdi, cache, reader, losses, nacks>>

StartSection(s) ==
  /\ pc = "idle" /\ reader = Idle /\ calls < MaxCalls
  /\ reader' = [op |-> "section", s |-> s, eectl |-> eep_pdi[s]]
  /\ result' = Idle
  /\ UNCHANGED <<device, eep_pdi, cache, call, pc, cnt, nackcnt, bounds>>
\* Wrong: the EEPROM stays with the master.
Restores_Wrong == FALSE
Restores == reader.eectl /\ ~eep_pdi[reader.s] /\ reader.op \in {"section", "dump"}
EndSection ==
  /\ pc = "idle" /\ reader # Idle
  /\ reader.op \in Copies => reader.left = <<>>
  /\ IF Restores THEN Start("pdi", reader.s, 0, "give")
     ELSE UNCHANGED <<call, pc, cnt, nackcnt>>
  /\ result' = reader /\ reader' = Idle
  /\ UNCHANGED <<device, eep_pdi, cache, bounds>>

-----------------------------------------------------------------------------
(* Copies of many words: ecx_esidump, and eepromtool.                       *)

\* Every by-th place: the step of a loop that reads.
Strides(by) == [i \in 1 .. (Words + by - 1) \div by |-> (i - 1) * by]

Copy(op, s, left, by, first) ==
  /\ pc = "idle" /\ reader = Idle
  /\ reader' = [op |-> op, s |-> s, eectl |-> eep_pdi[s], left |-> left, by |-> by,
                buf |-> [w \in Whole |-> Zero], ok |-> TRUE]
  /\ Start(op, s, 0, first) /\ result' = Idle
  /\ UNCHANGED <<device, eep_pdi, cache, losses, nacks>>

EsiDump(s) ==
  /\ calls < MaxCalls /\ calls' = calls + 1
  /\ Copy("dump", s, Strides(Span(s)), Span(s), First(s))

\* A run of eepromtool is a program of its own, without a configuration: it
\* reads, writes, or writes the alias and then its checksum, and is over.
Tool(op, s, left) ==
  /\ calls = 0 /\ calls' = MaxCalls
  /\ Copy(op, s, left, 2, "claim")
eeprom_read(s) == Tool("peek", s, Strides(2))
eeprom_write(s) == Tool("poke", s, Strides(1))
eeprom_writealias(s) == Tool("alias", s, <<0, Words - 1>>)

\* The next place.  By position the datagrams are those by address.
NextPlace(ops) ==
  /\ pc = "idle" /\ reader.op \in ops /\ reader.left # <<>>
  /\ Start(reader.op, reader.s, Head(reader.left), "wait")
  /\ UNCHANGED <<device, eep_pdi, cache, reader, result, bounds>>
DumpNext == NextPlace({"dump"})
ecx_readeepromAP == NextPlace({"peek"})
ecx_writeeepromAP == NextPlace({"poke", "alias"})

-----------------------------------------------------------------------------
(* Datagrams and retries.                                                   *)

Lost == losses < MaxLosses /\ losses' = losses + 1

\* A datagram that is repeated up to Retries times; after that the code goes
\* on as if it had been answered (its test is if (wkc), and -1 is true).
MayRetry == cnt < Retries
Repeat(here, next) ==
  /\ Lost
  /\ IF MayRetry THEN pc' = here /\ cnt' = cnt + 1
     ELSE pc' = next /\ cnt' = 0
Answered(next) == pc' = next /\ cnt' = 0 /\ UNCHANGED losses

\* heard: the datagram reaches the slave, whether or not its answer comes.
Exchange(here, next, heard) ==
  \/ heard /\ Answered(next)
  \/ heard /\ Repeat(here, next)
  \/ UNCHANGED device /\ Repeat(here, next)

Own(who) ==
  owner' = [owner EXCEPT ![call.s] = who] /\ UNCHANGED <<written, data, refused>>

\* ecx_eeprom2master: EEPCFG = 2, then 0, then the flag whatever came of it.
Seize ==
  /\ pc = "force" /\ Exchange("force", "take", Own("master"))
  /\ UNCHANGED <<eep_pdi, cache, reader, call, nackcnt, result, nacks, calls>>
Take ==
  /\ pc = "take" /\ Exchange("take", "wait", Own("master"))
  /\ eep_pdi' = IF pc' = "take" THEN eep_pdi ELSE [eep_pdi EXCEPT ![call.s] = FALSE]
  /\ UNCHANGED <<cache, reader, call, nackcnt, result, nacks, calls>>
\* ecx_eeprom2pdi.
Give ==
  /\ pc = "give" /\ Exchange("give", "idle", Own("pdi"))
  /\ eep_pdi' = IF pc' = "give" THEN eep_pdi ELSE [eep_pdi EXCEPT ![call.s] = TRUE]
  /\ UNCHANGED <<cache, reader, call, nackcnt, result, nacks, calls>>

\* eepromtool writes EEPCFG = 2 and 0 once each, and asks once how much the
\* slave reads at a time; no answer means two words.
Once(next, heard) ==
  /\ pc' = next
  /\ \/ heard /\ UNCHANGED losses
     \/ heard /\ Lost
     \/ UNCHANGED device /\ Lost
Claim ==
  /\ pc = "claim" /\ Once("claim2", Own("master"))
  /\ UNCHANGED <<eep_pdi, cache, reader, call, cnt, nackcnt, result, nacks, calls>>
Claim2 ==
  /\ pc = "claim2"
  /\ Once(IF call.op = "peek" THEN "status" ELSE "idle", Own("master"))
  /\ UNCHANGED <<eep_pdi, cache, reader, call, cnt, nackcnt, result, nacks, calls>>
Status ==
  /\ pc = "status" /\ pc' = "idle"
  /\ \E by \in {2, 4} :
       /\ \/ by = Span(call.s) /\ UNCHANGED losses
          \/ by = 2 /\ Lost
       /\ reader' = [reader EXCEPT !.by = by, !.left = Strides(by)]
  /\ UNCHANGED <<device, eep_pdi, cache, call, cnt, nackcnt, result, nacks, calls>>

\* Before the command: not busy, and error bits are cleared.
WaitReady ==
  /\ pc = "wait"
  /\ refused' = [refused EXCEPT ![call.s] = FALSE]
  /\ pc' = IF call.op \in Writes THEN "putdata" ELSE "command"
  /\ UNCHANGED <<written, owner, data, eep_pdi, cache, reader, call, cnt, nackcnt,
                 result, bounds>>

PutData ==
  /\ pc = "putdata" /\ Exchange("putdata", "command", UNCHANGED device)
  /\ UNCHANGED <<eep_pdi, cache, reader, call, nackcnt, result, nacks, calls>>

\* The slave fetches or stores the word, or refuses; the PDI's EEPROM is out
\* of the master's reach.
Execute(nack) ==
  IF owner[call.s] = "pdi" THEN UNCHANGED device
  ELSE /\ refused' = [refused EXCEPT ![call.s] = nack]
       /\ IF ~nack /\ call.op \in Writes
          THEN written' = [written EXCEPT ![call.s][call.w] = @ + 1]
          ELSE UNCHANGED written
       /\ IF ~nack /\ call.op \notin Writes
          THEN data' = [data EXCEPT ![call.s] = [i \in 0 .. 3 |->
                 IF i < Span(call.s) /\ call.w + i \in Places
                 THEN Word(call.s, call.w + i) ELSE Zero]]
          ELSE UNCHANGED data
       /\ UNCHANGED owner
Command(nack) ==
  /\ pc = "command"
  /\ nack => nacks < MaxNacks
  /\ nacks' = IF nack THEN nacks + 1 ELSE nacks
  /\ Exchange("command", "poll", Execute(nack))
  /\ UNCHANGED <<eep_pdi, cache, reader, call, nackcnt, result, calls>>

\* Bytes that are not read stay zero.
Nothing == [i \in 0 .. 3 |-> Zero]
\* The end of the call; ecx_siigetbyte puts what it got into the cache, and
\* marks it, whether or not it was read.
Cached(edat) ==
  LET got == call.w .. call.w + Span(call.s) - 1
  IN  /\ esimap' = esimap \union got
      /\ esibuf' = [w \in Places |-> IF w \in got THEN edat[w - call.w] ELSE esibuf[w]]
      /\ UNCHANGED esislave
\* A copy goes on whatever came, but for the alias, whose checksum follows
\* only what was written.
Copied(edat, done) ==
  reader' = [reader EXCEPT
    !.left = IF reader.op = "alias" /\ ~done THEN <<>> ELSE Tail(@),
    !.ok = @ /\ done,
    !.buf = [w \in Whole |-> IF w \in call.w .. call.w + reader.by - 1
                             THEN edat[w - call.w] ELSE @[w]]]
Finish(edat, done) ==
  /\ IF call.op = "get" THEN Cached(edat) ELSE UNCHANGED cache
  /\ IF call.op \in Copies THEN Copied(edat, done) /\ UNCHANGED result
     ELSE /\ result' = [op |-> call.op, s |-> call.s, w |-> call.w, was |-> call.was,
                        value |-> edat[0], ok |-> done]
          /\ UNCHANGED reader

\* After the command: the command again when it was refused, up to three
\* times.
Poll ==
  /\ pc = "poll"
  /\ IF ~refused[call.s]
     THEN /\ nackcnt' = 0
          /\ IF call.op \in Writes THEN pc' = "idle" /\ Finish(Nothing, TRUE)
             ELSE pc' = "data" /\ UNCHANGED <<cache, reader, result>>
     ELSE /\ nackcnt' = nackcnt + 1
          /\ IF nackcnt + 1 < 3
             THEN /\ pc' = IF call.op \in Writes THEN "putdata" ELSE "command"
                  /\ UNCHANGED <<cache, reader, result>>
             ELSE pc' = "idle" /\ Finish(Nothing, FALSE)
  /\ UNCHANGED <<device, eep_pdi, call, cnt, bounds>>

GetData ==
  /\ pc = "data"
  /\ \/ Answered("idle") /\ Finish(data[call.s], TRUE)
     \/ Repeat("data", "idle") /\ (IF pc' = "idle" THEN Finish(Nothing, FALSE)
                                   ELSE UNCHANGED <<cache, reader, result>>)
  /\ UNCHANGED <<device, eep_pdi, call, nackcnt, nacks, calls>>

Access(some) ==
  \/ \E s \in some, w \in 0 .. Words - 1 :
       SiiGetByte(s, w) \/ ReadEeprom(s, w) \/ WriteEeprom(s, w)
  \/ \E s \in some : EepromToPdi(s) \/ StartSection(s) \/ EsiDump(s)
  \/ \E s \in some : eeprom_read(s) \/ eeprom_write(s) \/ eeprom_writealias(s)
  \/ DumpNext \/ ecx_readeepromAP \/ ecx_writeeepromAP
  \/ EndSection
  \/ Seize \/ Take \/ Give
  \/ Claim \/ Claim2 \/ Status
  \/ WaitReady \/ PutData \/ \E nack \in BOOLEAN : Command(nack)
  \/ Poll \/ GetData

Next == Access(Slaves)

Spec == Init /\ [][Next]_vars

-----------------------------------------------------------------------------
(* Properties.                                                              *)

\* Type invariant.
Values == {Zero} \union (Slaves \X Places \X (0 .. MaxCalls * (Retries + 1) + MaxNacks))
TypeOK ==
  /\ owner \in [Slaves -> {"master", "pdi"}]
  /\ eep_pdi \in [Slaves -> BOOLEAN] /\ refused \in [Slaves -> BOOLEAN]
  /\ esislave \in Slaves \union {NoSlave}
  /\ esimap \subseteq 0 .. Words + 2
  /\ esibuf \in [Places -> Values]
  /\ cnt \in 0 .. Retries /\ nackcnt \in 0 .. 3

IsWord(v, s, w) == v # Zero /\ v[1] = s /\ v[2] = w

Tolerable == losses <= Retries /\ nacks <= 2

\* What the cache holds as valid, and what a read or a copy returns, is that
\* word of that slave's EEPROM, up to Retries lost datagrams and two refusals:
\* not another slave's, not the word of an earlier command; a read that
\* bypasses the cache returns its present value; and what is reported written
\* was stored by this call.  After more than that the code caches zeros, or
\* the data of an earlier command.  eepromtool, whose claim is not repeated,
\* bears one loss: either of its two writes gives it the EEPROM.
FetchedIsWord ==
  Tolerable =>
    /\ \A w \in esimap : w < Words => IsWord(esibuf[w], esislave, w)
    /\ result.op = "get" => IsWord(result.value, result.s, result.w)
    /\ result.op = "read" => result.value = Word(result.s, result.w)
    /\ result.op = "write" => result.ok /\ written[result.s][result.w] > result.was
    /\ result.op = "dump" => \A w \in Whole : IsWord(result.buf[w], result.s, w)
    /\ losses <= 1 =>
         /\ result.op = "peek" => \A w \in Whole : IsWord(result.buf[w], result.s, w)
         /\ result.op = "poke" => \A w \in Whole : written[result.s][w] > 0
         /\ result.op = "alias" => \A w \in {0, Words - 1} : written[result.s][w] > 0

\* Who holds an EEPROM is what the master believes, and a section reader or a
\* dump leaves with the PDI what the PDI had.  (eepromtool has no such belief.)
OwnerAsBelieved ==
  pc = "idle" /\ Tolerable /\ ~ByPosition(reader) /\ ~ByPosition(result) =>
    /\ \A s \in Slaves : eep_pdi[s] = (owner[s] = "pdi")
    /\ result.op \in {"section", "dump"} /\ result.eectl => owner[result.s] = "pdi"
=============================================================================
