---------------------------- MODULE SiiSections ----------------------------
(***************************************************************************)
(* The section readers of ethercatmain.c (ecx_siifind, ecx_siistring,      *)
(* ecx_siiFMMU, ecx_siiSM, ecx_siiSMnext, ecx_siiPDO) on the bytes of an   *)
(* EEPROM.  Operators only; how the bytes are fetched is in Sii.           *)
(*                                                                         *)
(* What is in an EEPROM is external: a sequence of sections, each with a   *)
(* category and an even number of bytes, of which ImageOf makes the bytes. *)
(***************************************************************************)
EXTENDS Integers, Sequences, SequencesExt, FiniteSetsExt

CONSTANTS
  MaxSm,       \* EC_MAXSM
  MaxPdos,     \* EC_MAXEEPDO - 1
  MaxName      \* EC_MAXNAME

ASSUME SectionAssumption ==
  MaxSm \in Nat /\ MaxSm >= 4 /\ MaxPdos \in Nat \ {0} /\ MaxName \in Nat

SiiStart == 128                \* ECT_SII_START << 1
STRINGS == 10
GENERAL == 30
FMMU == 40
SM == 41
PDO == 50                      \* of inputs; that of outputs is the next one
Unused == 255

-----------------------------------------------------------------------------
Lo(n) == n % 256
Hi(n) == n \div 256
Half(n) == <<Lo(n), Hi(n)>>

\* The words from SiiStart on, closed by an end mark.
ImageOf(sections) ==
  FlattenSeq([k \in DOMAIN sections |->
      Half(sections[k].cat) \o Half(Len(sections[k].data) \div 2) \o sections[k].data])
    \o <<255, 255>>

Byte(image, a) ==
  IF a - SiiStart + 1 \in DOMAIN image THEN image[a - SiiStart + 1] ELSE 255
Word16(image, a) == Byte(image, a) + 256 * Byte(image, a + 1)

-----------------------------------------------------------------------------
\* "byte address of section at section length entry, if not available then 0"
siifind(image, cat) ==
  LET from[a \in Nat] ==
        CASE Word16(image, a) = cat   -> a + 2
          [] Word16(image, a) = 65535 -> 0
          [] OTHER                  -> from[a + 4 + 2 * Word16(image, a + 2)]
  IN  from[SiiStart]

\* The Sn-th of the counted strings, as much of it as a name holds; an empty
\* one if there are not so many.  Without the section str is not touched.
siistring(image, str, Sn) ==
  LET a == siifind(image, STRINGS)
      at[i \in 1 .. Sn] == IF i = 1 THEN a + 3
                           ELSE at[i - 1] + 1 + Byte(image, at[i - 1])
      length == Byte(image, at[Sn])
  IN  CASE a = 0                  -> str
        [] a > 0 /\ Sn > Byte(image, a + 2) -> <<>>
        [] OTHER -> [j \in 1 .. Min({length, MaxName}) |-> Byte(image, at[Sn] + j)]

\* FMMU0 .. FMMU3; the last two when the section has more than one word.
siiFMMU(image) ==
  LET a == siifind(image, FMMU)
      nFMMU == 2 * Word16(image, a)
  IN  [n |-> IF a = 0 THEN 0 ELSE nFMMU,
       func |-> [i \in 0 .. 3 |-> IF a = 0 \/ (i > 1 /\ nFMMU <= 2) THEN 0
                                  ELSE Byte(image, a + 2 + i)]]

\* The sync managers, eight bytes each.
\* Wrong: they follow each other without their last byte.
SmEntry_Wrong(n) == 2 + 7 * n
SmEntry(n) == 2 + 8 * n
siiSM(image) ==
  LET a == siifind(image, SM)
      nSM == IF a = 0 THEN 0 ELSE Word16(image, a) \div 4
  IN  [n \in 0 .. nSM - 1 |->
         [start |-> Word16(image, a + SmEntry(n)),
          len |-> Word16(image, a + SmEntry(n) + 2),
          on |-> Byte(image, a + SmEntry(n) + 6) % 2 = 1]]

-----------------------------------------------------------------------------
(* ecx_siiPDO: the PDOs of one direction, eight bytes each before their    *)
(* entries of eight bytes.                                                 *)

PdoBits(image, a, e) ==
  MapThenSumSet(LAMBDA er : Byte(image, a + 8 * er + 5), 1 .. e)

\* c counts words, one of them in advance; a section of no words is read too.
PdosLeft(c, length) == c < length

siiPDO(image, t) ==
  LET start == siifind(image, PDO + t)
      length == Word16(image, start)
      pdos[a \in Nat] ==
        LET e == Byte(image, a + 2)
            next == a + 8 + 8 * e
            c == 1 + (next - start - 2) \div 2
            pdo == [sm |-> Byte(image, a + 3), bits |-> PdoBits(image, a, e)]
        IN  <<pdo>> \o (IF PdosLeft(c, length) THEN pdos[next] ELSE <<>>)
      all == IF start = 0 THEN <<>> ELSE pdos[start + 2]
      nPDO == Min({Len(all), MaxPdos})
      active(sm) == {k \in 1 .. nPDO : all[k].sm = sm}
      SMbitsize == [sm \in 0 .. MaxSm - 1 |->
                      MapThenSumSet(LAMBDA k : all[k].bits, active(sm))]
  IN  [SMbitsize |-> SMbitsize,
       Size |-> MapThenSumSet(LAMBDA sm : SMbitsize[sm], 0 .. MaxSm - 1)]
=============================================================================
