-------------------------- MODULE MCConfiguration --------------------------
(***************************************************************************)
(* Networks for Configuration: all trees of five slaves, up to two of them *)
(* without clocks; lines whose first slaves are of many types; one line whose *)
(* EEPROMs are used afterwards.  And what comes before it, Discovery, and  *)
(* after it, DcSync: a behaviour shows one of the three while the others   *)
(* rest.                                                                   *)
(***************************************************************************)
EXTENDS Configuration, Discovery, DcSync

Pad(d) == IF Len(d) % 2 = 0 THEN d ELSE Append(d, 0)
Section(cat, d) == IF d = <<>> THEN <<>> ELSE << [cat |-> cat, data |-> Pad(d)] >>

\* Sections as ETG.2010 lays them out.
StringData(name) == IF name = <<>> THEN <<>> ELSE <<2, Len(name)>> \o name \o <<1, 65>>
GeneralData(sii) ==
  [i \in 1 .. 32 |-> CASE i = 6 /\ sii.ca -> 32 [] i = 12 /\ sii.blockLRW -> 2 [] OTHER -> 0]
SmData(sms) == FlattenSeq([k \in DOMAIN sms |->
  Half(sms[k].start) \o Half(sms[k].len) \o <<38, 0, IF sms[k].on THEN 1 ELSE 0, 0>>])
PdoData(pdos) == FlattenSeq([k \in DOMAIN pdos |->
  <<0, 26, Len(pdos[k].bits), pdos[k].sm, 0, 0, 0, 0>>
    \o FlattenSeq([e \in DOMAIN pdos[k].bits |-> <<0, 96, 1, 0, 7, pdos[k].bits[e], 0, 0>>])])
Image(sii) == ImageOf(
  Section(STRINGS, StringData(sii.name)) \o Section(GENERAL, GeneralData(sii))
    \o Section(FMMU, sii.fmmus) \o Section(SM, SmData(sii.sms))
    \o Section(PDO, PdoData(sii.pdos[INPUTS])) \o Section(PDO + 1, PdoData(sii.pdos[OUTPUTS])))

Id(n) == [man |-> 1, prod |-> n \div 10, rev |-> n]
At(from, len, on) == [start |-> from, len |-> len, on |-> on]
Mailbox == [n \in 0 .. 1 |-> At(4096 + 256 * n, 64, TRUE)]
NoPdos == [sm \in 0 .. MaxSm - 1 |-> <<>>]
Fill(pdos) == pdos @@ NoPdos
NoSii == [name |-> Constructed, ca |-> FALSE, blockLRW |-> FALSE, fmmus |-> <<>>,
          sms |-> <<>>, pdos |-> [t \in {OUTPUTS, INPUTS} |-> <<>>]]
Made(unit) ==
  [unit EXCEPT !.image = Image([unit.sii EXCEPT !.name = IF @ = NoSii.name THEN <<>> ELSE @])]

\* Neither mailbox nor sections.
Plain(n) == Made(
  [id |-> Id(n), mbx |-> FALSE, coe |-> FALSE, soe |-> FALSE, mailbox |-> Mailbox,
   sii |-> NoSii, image |-> <<>>, types |-> <<>>, meant |-> <<>>, pdos |-> NoPdos,
   drives |-> <<>>])

\* A drive with CoE and complete access; its EEPROM has its first mapping.
Servo == Made([Plain(10) EXCEPT
  !.mbx = TRUE, !.coe = TRUE, !.types = <<1, 2, 3, 4>>, !.meant = <<1, 2, 3, 4>>,
  !.pdos = Fill((2 :> << <<16, 8>>, <<8>> >>) @@ (3 :> << <<16>> >>)),
  !.sii = [name |-> <<83, 118>>, ca |-> TRUE, blockLRW |-> FALSE, fmmus |-> <<1, 2, 3, 255>>,
           sms |-> <<At(4096, 128, TRUE), At(4224, 128, TRUE), At(4352, 4, TRUE), At(4608, 2, TRUE)>>,
           pdos |-> (OUTPUTS :> << [sm |-> 2, bits |-> <<16, 8>>], [sm |-> 2, bits |-> <<8>>],
                                   [sm |-> 255, bits |-> <<32>>] >>)
                    @@ (INPUTS :> << [sm |-> 3, bits |-> <<16>>] >>)]])
\* The same after its mapping was changed, or taken away.
Remapped == [Servo EXCEPT !.pdos = Fill((2 :> << <<8>> >>) @@ (3 :> << <<16, 32>>, <<4, 4>> >>))]
Emptied == [Servo EXCEPT !.pdos = NoPdos]
\* Without complete access, with the wrong types, and with none.
Shifted == Made([Servo EXCEPT !.id = Id(20), !.types = <<0, 1, 2, 3>>,
  !.sii = [@ EXCEPT !.ca = FALSE, !.name = NoSii.name, !.blockLRW = TRUE, !.fmmus = <<1, 2>>]])
Untyped == [Shifted EXCEPT !.id = Id(21), !.types = <<1, 2, 0, 0>>]
\* A drive with SoE.
SoeDrive == Made([Servo EXCEPT !.id = Id(30), !.coe = FALSE, !.soe = TRUE, !.types = <<>>, !.meant = <<>>,
  !.drives = << [mdt |-> <<32>>, at |-> <<32, 16>>] >>,
  !.sii = [@ EXCEPT !.pdos = [t \in {OUTPUTS, INPUTS} |-> <<>>]]])
\* Terminals without a mailbox, known by their EEPROMs, of two revisions.
Terminal == Made([Plain(40) EXCEPT
  !.sii = [NoSii EXCEPT !.name = <<84>>, !.fmmus = <<1, 2>>,
           !.sms = <<At(3840, 1, TRUE), At(4096, 1, TRUE)>>,
           !.pdos = (OUTPUTS :> << [sm |-> 0, bits |-> <<1, 1>>] >>)
                    @@ (INPUTS :> << [sm |-> 1, bits |-> <<1>>], [sm |-> 1, bits |-> <<2>>] >>)]])
Terminal2 == Made([Terminal EXCEPT !.id = Id(41),
  !.sii = [@ EXCEPT !.pdos = (OUTPUTS :> <<>>) @@ (INPUTS :> << [sm |-> 1, bits |-> <<8>>] >>)]])

Line == [up |-> [s \in Slaves |-> s - 1], port |-> [s \in Slaves |-> 1],
         delay |-> [s \in Slaves |-> 1], dc |-> [s \in Slaves |-> FALSE],
         clock |-> [s \in Slaves |-> 0]]

Ups == {u \in [Slaves -> 0 .. NSlaves - 1] :
          u[1] = 0 /\ \A i \in Slaves \ {1} : u[i] \in 1 .. i - 1}
Ports == {p \in [Slaves -> {3, 1, 2}] : p[1] = 1}
Shapes == {net \in {[Line EXCEPT !.up = u, !.port = p, !.delay = [s \in Slaves |-> 2 ^ s]] :
                      u \in Ups, p \in Ports} : IsNetwork(net)}
Clocked(net, d, c) == [net EXCEPT !.dc = d, !.clock = [s \in Slaves |-> c]]
\* Two slaves without a clock can stand at a split, in a row, or apart.
MostClocks == {d \in [Slaves -> BOOLEAN] : Cardinality({s \in Slaves : ~d[s]}) <= 2}
Trees == {Clocked(net, d, 0) : net \in Shapes, d \in MostClocks}
  \union {Clocked(net, [s \in Slaves |-> TRUE], HalfRange - 9) : net \in Shapes}

Setup(net, first, group, order, unread, access) ==
  [net |-> net, units |-> [s \in Slaves |-> IF s <= Len(first) THEN first[s] ELSE Plain(s)],
   group |-> [s \in Slaves |-> IF s <= Len(group) THEN group[s] ELSE 0],
   order |-> order, unread |-> unread, access |-> access]

Networks == {Setup(net, <<>>, <<>>, <<>>, {}, {}) : net \in Trees}
Types == {Servo, Remapped, Emptied, Shifted, Untyped, SoeDrive, Terminal, Terminal2}
Lines == {Setup(Line, first, <<>>, <<0>>, unread, {}) :
            first \in [1 .. 2 -> Types], unread \in {{}, {1}, {2}}}
Groups == {Setup(Line, first, <<2, 1, 2>>, order, {}, {}) :
             first \in [1 .. 3 -> {Servo, Remapped, Terminal}], order \in {<<1, 2>>, <<2, 1>>}}
Used == {Setup(Line, <<>>, <<>>, <<>>, {}, {1, 2})}
AllSetups == Networks \union Lines \union Groups \union Used

-----------------------------------------------------------------------------
Pulses(op, act, c0, c1, shift) ==
  [op |-> op, act |-> act, c0 |-> c0, c1 |-> c1, shift |-> shift]
\* Both calls, a shift, no cycle, and the end of the pulses.
AllPulses == {Pulses("sync0", TRUE, 2, 0, 0), Pulses("sync0", TRUE, 2, 0, -1),
              Pulses("sync01", TRUE, 2, 2, 0), Pulses("sync0", TRUE, 0, 0, 0),
              Pulses("sync0", FALSE, 2, 0, 0)}

-----------------------------------------------------------------------------
VARIABLE part

AnyPart ==
  /\ part \in {"discovery", "configuration", "sync"}
  /\ part # "configuration" => setup \in Used
  /\ part # "discovery" =>
       /\ fresh = TRUE /\ estat = FALSE /\ wide = {1} /\ mailboxes = {}
       /\ control = [s \in Present |-> "pdi"]
  /\ InitConfiguration /\ DiscoveryInit /\ DcInit

ShowDiscovery ==
  part = "discovery" /\ DiscoveryNext /\ UNCHANGED <<part, allVars, dcVars>>
ShowConfiguration ==
  part = "configuration" /\ NextConfiguration /\ UNCHANGED <<part, discoveryVars, dcVars>>
ShowSync ==
  part = "sync" /\ DcNext /\ UNCHANGED <<part, allVars, discoveryVars>>

AnyNext == ShowDiscovery \/ ShowConfiguration \/ ShowSync
AnySpec == AnyPart /\ [][AnyNext]_<<part, allVars, discoveryVars, dcVars>>

\* Property: the delays of the clocks are the real ones, and slaves asked for
\* pulses of the same cycle make them together, the first of them in time.
ClocksRight == DelaysRight /\ SyncTogether /\ FirstPulseAhead
=============================================================================
