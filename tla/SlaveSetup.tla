----------------------------- MODULE SlaveSetup -----------------------------
(***************************************************************************)
(* What the configuration of a slave (ethercatconfig.c) finds out about    *)
(* it: sync managers, FMMU functions and details from its EEPROM or those  *)
(* of a slave before with the same identity, and the size of its process   *)
(* data from its CoE objects (with or without complete access), its SoE    *)
(* drives, a slave before, or its EEPROM again.  Operators on an entry of  *)
(* ec_slave and on the list; Configuration has the loops.                  *)
(*                                                                         *)
(* A slave itself is external.  unit.id is manufacturer, product and       *)
(* revision; unit.mbx whether it has a mailbox; unit.coe and unit.soe its  *)
(* protocols; unit.image its EEPROM; unit.types the sync manager types it  *)
(* reports as object 1C00; unit.pdos[sm] what it assigns to a sync manager,*)
(* as a sequence of PDOs with the bits of their entries; unit.drives, for  *)
(* each drive, the bits mapped for output and input.                       *)
(***************************************************************************)
EXTENDS SiiSections

\* Types of sync managers.
OUTPUTS == 3
INPUTS == 4

ByteLength(bits) == (bits + 7) \div 8
Sum(s) == FoldLeft(LAMBDA n, x : n + x, 0, s)

\* "no name for slave found, use constructed name"
Constructed == <<0>>

NoSm == [start |-> 0, len |-> 0, on |-> FALSE]
\* The default mailbox types of the sync managers.
MbxTypes == [n \in 0 .. MaxSm - 1 |-> IF n < 4 THEN n + 1 ELSE 0]
NoTypes == [n \in 0 .. MaxSm - 1 |-> 0]

\* An entry after memset, with the identity and protocols that were read.
Entry(unit, id) ==
  [id |-> id, mbx |-> unit.mbx, coe |-> unit.coe, soe |-> unit.soe,
   ca |-> FALSE, blockLRW |-> 0, name |-> <<>>,
   SM |-> [n \in 0 .. MaxSm - 1 |->
             IF unit.mbx /\ n < 2 THEN unit.mailbox[n] ELSE NoSm],
   SMtype |-> IF unit.mbx THEN MbxTypes ELSE NoTypes,
   func |-> [i \in 0 .. 3 |-> 0],
   Obits |-> 0, Ibits |-> 0]

-----------------------------------------------------------------------------
(* ecx_config_init: the EEPROM, or a copy.                                  *)

\* The first slave before it, if any, with the same identity.
SameId(a, b) == a = b
Twin(list, s) ==
  LET twins == {i \in 1 .. s - 1 : SameId(list[i].id, list[s].id)}
  IN  IF twins = {} THEN 0 ELSE Min(twins)

\* ecx_lookup_prev_sii
CopySii(sl, twin) ==
  [sl EXCEPT !.ca = twin.ca, !.blockLRW = twin.blockLRW, !.name = twin.name,
             !.SM = twin.SM, !.func = twin.func]

General(image) == siifind(image, GENERAL)
ReadSii(sl, image) ==
  LET general == General(image)
      sms == siiSM(image)
      fmmus == siiFMMU(image)
  IN  [sl EXCEPT
        !.ca = general > 0 /\ (Byte(image, general + 7) \div 32) % 2 = 1,
        !.blockLRW = IF general > 0 /\ (Byte(image, general + 13) \div 2) % 2 = 1
                     THEN 1 ELSE 0,
        !.name = siistring(image, Constructed, 1),
        !.SM = [n \in DOMAIN @ |-> IF n \in DOMAIN sms THEN sms[n] ELSE @[n]],
        !.func = [i \in DOMAIN @ |->
                    IF fmmus.n > 0 /\ fmmus.func[i] # Unused THEN fmmus.func[i]
                    ELSE @[i]]]

\* "should never happen": a mailbox without a sync manager gets the default.
DefaultMailbox(sl) ==
  LET default == [n \in 0 .. 1 |-> [start |-> 4096 + 128 * n, len |-> 128, on |-> TRUE]]
      lacks(n) == sl.mbx /\ n < 2 /\ sl.SM[n].start = 0
  IN  [sl EXCEPT
        !.SM = [n \in DOMAIN @ |-> IF lacks(n) THEN default[n] ELSE @[n]],
        !.SMtype = [n \in DOMAIN @ |-> IF lacks(n) THEN n + 1 ELSE @[n]]]

InitSlave(list, s, unit) ==
  LET twin == Twin(list, s)
  IN  DefaultMailbox(IF twin > 0 THEN CopySii(list[s], list[twin])
                     ELSE ReadSii(list[s], unit.image))

-----------------------------------------------------------------------------
(* ecx_map_coe_soe.                                                         *)

\* "slave bug prevention code": types 0 1 2 3 that should be 1 2 3 4; without
\* complete access also unused sync managers 2 and 3.
TypeOfSm(types, n, ca) ==
  LET reported == types[n + 1]
      add == IF types[3] = 2 THEN 1 ELSE 0
  IN  CASE reported > 0                  -> reported + add
        [] reported = 0 /\ ~ca /\ n = 2  -> OUTPUTS
        [] reported = 0 /\ ~ca /\ n = 3  -> INPUTS
        [] OTHER                         -> 0

\* ecx_readPDOassign, ecx_readPDOassignCA: all bits of all PDOs.
readPDOassign(pdos) == Sum(FlattenSeq(pdos))

\* ecx_readPDOmap, ecx_readPDOmapCA, when the slave answers.
readPDOmap(sl, unit, ca) ==
  LET sms == IF Len(unit.types) > 2 THEN 2 .. Min({Len(unit.types), MaxSm}) - 1 ELSE {}
      type(n) == TypeOfSm(unit.types, n, ca)
      bits(n) == IF type(n) \in {OUTPUTS, INPUTS} THEN readPDOassign(unit.pdos[n]) ELSE 0
      total(t) == MapThenSumSet(bits, {n \in sms : type(n) = t})
  IN  [sl EXCEPT
        !.SMtype = [n \in DOMAIN @ |-> IF n \in sms THEN type(n) ELSE @[n]],
        !.SM = [n \in DOMAIN @ |->
                  IF n \notin sms THEN @[n]
                  ELSE [@[n] EXCEPT !.on = @ /\ type(n) # 0,
                                    !.len = IF bits(n) > 0 THEN ByteLength(bits(n))
                                            ELSE @]],
        !.Obits = total(OUTPUTS), !.Ibits = total(INPUTS)]

Sized(sl) == sl.Obits > 0 \/ sl.Ibits > 0

\* ecx_readIDNmap: the command or status word and what is mapped, of the last
\* drive that has a mapping.
readIDNmap(sl, unit) ==
  LET bits(dir) ==
        LET mapped == SelectSeq(unit.drives, LAMBDA d : d[dir] # <<>>)
        IN  IF mapped = <<>> THEN 0 ELSE 16 + Sum(Last(mapped)[dir])
  IN  [sl EXCEPT !.Obits = bits("mdt"), !.Ibits = bits("at"),
                 !.SM = [@ EXCEPT ![2].len = ByteLength(bits("mdt")),
                                  ![3].len = ByteLength(bits("at"))]]

\* answers: which of the ways of reading the slave answers this time.
MapCoeSoe(sl, unit, answers) ==
  LET viaCA == IF sl.coe /\ sl.ca /\ "ca" \in answers THEN readPDOmap(sl, unit, TRUE)
               ELSE sl
      viaCoe == IF sl.coe /\ ~Sized(viaCA) /\ "coe" \in answers
                THEN readPDOmap(viaCA, unit, FALSE) ELSE viaCA
  IN  CASE Sized(viaCoe) \/ ~sl.soe -> viaCoe
        [] ~Sized(viaCoe) /\ sl.soe /\ "soe" \in answers -> readIDNmap(viaCoe, unit)
        [] OTHER -> [viaCoe EXCEPT !.SM = [@ EXCEPT ![2].len = 0, ![3].len = 0]]

-----------------------------------------------------------------------------
(* ecx_map_sii and ecx_map_sm.                                              *)

\* ecx_lookup_mapping
CopyMapping(sl, twin) ==
  [sl EXCEPT !.SM = [n \in DOMAIN @ |-> [@[n] EXCEPT !.len = twin.SM[n].len]],
             !.SMtype = twin.SMtype, !.Obits = twin.Obits, !.Ibits = twin.Ibits]

\* One direction of the PDOs of the EEPROM.
Assign(sl, pdo, type) ==
  LET has(n) == pdo.SMbitsize[n] > 0
  IN  [sl EXCEPT
        !.SM = [n \in DOMAIN @ |-> IF has(n) THEN [@[n] EXCEPT
                  !.len = ByteLength(pdo.SMbitsize[n])] ELSE @[n]],
        !.SMtype = [n \in DOMAIN @ |-> IF has(n) THEN type ELSE @[n]]]

\* Wrong: RxPDOs are taken for inputs.
ReadPdos_Wrong(sl, image) ==
  LET in == siiPDO(image, 1)
      out == siiPDO(image, 0)
  IN  [Assign(Assign(sl, in, INPUTS), out, OUTPUTS)
         EXCEPT !.Ibits = in.Size, !.Obits = out.Size]
ReadPdos(sl, image) ==
  LET in == siiPDO(image, 0)
      out == siiPDO(image, 1)
  IN  [Assign(Assign(sl, in, INPUTS), out, OUTPUTS)
         EXCEPT !.Ibits = in.Size, !.Obits = out.Size]

MapSii(list, s, unit) ==
  LET sl == list[s]
      twin == Twin(list, s)
      copied == IF Sized(sl) \/ twin = 0 THEN sl ELSE CopyMapping(sl, list[twin])
  IN  IF Sized(copied) THEN copied ELSE ReadPdos(copied, unit.image)

\* The sync managers written to the slave, enabled when they have a length; the
\* first two only in a slave without a mailbox.
MapSm(sl) ==
  [sl EXCEPT !.SM = [n \in DOMAIN @ |->
     IF n >= 2 /\ sl.SM[n].start > 0
     THEN [sl.SM[n] EXCEPT !.on = sl.SM[n].len > 0] ELSE sl.SM[n]]]
=============================================================================
