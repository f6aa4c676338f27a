------------------------------- MODULE IOMap -------------------------------
(***************************************************************************)
(* How the master lays the process data of its slaves out in the logical   *)
(* address space and in the application's IOmap: ecx_config_map_group      *)
(* (all outputs, then all inputs) and ecx_config_overlap_map_group (the    *)
(* outputs and the inputs of a slave start at one address), with the two   *)
(* functions that give each slave its FMMUs.  The mapping is one pass over *)
(* the slaves; a step of this module is one slave.  The sync managers of a *)
(* slave, which the code has read from SII or CoE, are data.               *)
(* A setup is a network and what the application asks for: the group of    *)
(* each slave, the groups it maps (0 is all slaves), with which function,  *)
(* which slaves cannot do LRW, and what the slaves may exchange.           *)
(***************************************************************************)
EXTENDS Integers, Sequences, FiniteSetsExt, SequencesExt

CONSTANTS Setups,        \* setups to look at
          Limit,         \* EC_MAXLRWDATA - EC_FIRSTDCDATAGRAM
          MaxIOSegments, \* EC_MAXIOSEGMENTS
          GroupStride    \* 2^EC_LOGGROUPOFFSET

\* A layout is the bits a slave exchanges and its sync managers of one kind,
\* in the order of their number, with address and length in bytes.  The
\* lengths are what the bits need: no sync manager is left over.
Bytes(bits) == (bits + 7) \div 8
\* f[1] + ... + f[n].
Total(f, n) == LET sum[i \in 0 .. n] == IF i = 0 THEN 0 ELSE sum[i - 1] + f[i] IN sum[n]
SmBytes(sm, n) == Total([i \in 1 .. n |-> sm[i].len], n)
IsLayout(l) ==
  /\ l.bits \in Nat /\ l.sm \in Seq([start : Nat, len : Nat \ {0}])
  /\ Bytes(l.bits) = SmBytes(l.sm, Len(l.sm))

ASSUME LayoutAssumption ==
  /\ Limit \in Nat /\ GroupStride \in Nat /\ MaxIOSegments \in Nat \ {0}
  /\ \A u \in Setups :
       /\ u.group \in Seq(Nat) /\ u.groups \subseteq Nat
       /\ u.overlap \in BOOLEAN /\ u.blockLRW \subseteq DOMAIN u.group
       /\ \A l \in u.outs \cup u.ins : IsLayout(l)

VARIABLES setup,               \* never changed
          out, in,             \* layout of each slave, never changed
          fmmu,                \* the FMMUs programmed so far
          outputs, inputs,     \* where each slave's data is in an IOmap
          group,               \* grouplist
          phase, cur, slave,   \* the running call, its group, the next slave
          LogAddr, BitPos,     \* next free byte and bit (mLogAddr, overlapped)
          soLogAddr, siLogAddr,
          seg                  \* currentsegment, segmentsize, IOsegment

place == <<LogAddr, BitPos, soLogAddr, siLogAddr>>
mapVars == <<setup, out, in, fmmu, outputs, inputs, group, phase, cur, slave, place, seg>>

\* A pointer is an IOmap (one per group) and an offset into it; the null
\* pointer plus a number is a pointer into no IOmap.
NoMap == -1
Null == [map |-> NoMap, off |-> 0]

Groups == setup.groups
SlaveGroup == setup.group
Slaves == DOMAIN SlaveGroup
slavecount == Len(SlaveGroup)
Overlap == setup.overlap
BlockLRW == setup.blockLRW

Base(g) == g * GroupStride
InGroup(s, g) == g = 0 \/ SlaveGroup[s] = g

NoSegments == [i \in 0 .. MaxIOSegments - 1 |-> 0]
Unmapped == [mapped |-> FALSE, Obytes |-> 0, Ibytes |-> 0, nsegments |-> 0,
             IOsegment |-> NoSegments, Isegment |-> 0, Ioffset |-> 0,
             outputs |-> 0, inputs |-> 0,
             outputsWKC |-> 0, inputsWKC |-> 0, blockLRW |-> 0]

MapInit ==
  /\ setup \in Setups
  /\ out \in [Slaves -> setup.outs] /\ in \in [Slaves -> setup.ins]
  /\ fmmu = {}
  /\ outputs = [s \in Slaves |-> Null] /\ inputs = [s \in Slaves |-> Null]
  /\ group = [g \in Groups |-> Unmapped]
  /\ phase = "idle" /\ cur = 0 /\ slave = 1
  /\ LogAddr = 0 /\ BitPos = 0 /\ soLogAddr = 0 /\ siLogAddr = 0
  /\ seg = [n |-> 0, size |-> 0, list |-> NoSegments]

-----------------------------------------------------------------------------
(* The FMMUs of one slave in one direction, from the byte addr and the bit  *)
(* of it that are free.                                                     *)

\* A slave with fewer than eight bits shares bytes with its neighbours.
BitFmmu(l, addr, bit) ==
  LET last == bit + l.bits - 1
  IN  [addr |-> addr + (last + 1) \div 8,
       bit  |-> (last + 1) % 8,
       list |-> << [phys |-> l.sm[1].start, start |-> addr, startbit |-> bit,
                    len |-> last \div 8 + 1, endbit |-> last % 8] >>]

\* Sync managers whose addresses join share an FMMU; an FMMU takes the
\* bytes counted so far, but no more than the slave still has to map.
Joined(sm, i) == i > 1 /\ sm[i].start <= sm[i - 1].start + sm[i - 1].len
\* Wrong: joins sync managers that are apart.
RunEnd_Wrong(sm, i) == Len(sm)
RunEnd(sm, i) == Max({j \in i .. Len(sm) : \A k \in i + 1 .. j : Joined(sm, k)})

\* Wrong: starts in the byte that bit-oriented slaves have begun.
StartByte_Wrong(addr, bit) == addr
StartByte(addr, bit) == IF bit = 0 THEN addr ELSE addr + 1

\* One sync manager more: it is in an FMMU already, or begins one.
MapSm(l, base, m, i) ==
  LET left == Bytes(l.bits) - m.done
      size == Min({SmBytes(l.sm, RunEnd(l.sm, i)), left})
  IN  IF Joined(l.sm, i) \/ left <= 0 THEN m
      ELSE [done |-> m.done + size,
            list |-> Append(m.list,
               [phys |-> l.sm[i].start, start |-> base + m.done,
                startbit |-> 0, len |-> size, endbit |-> 7])]

ByteFmmus(l, addr, bit) ==
  LET base == StartByte(addr, bit)
      mapped[i \in 0 .. Len(l.sm)] ==
        IF i = 0 THEN [done |-> 0, list |-> << >>] ELSE MapSm(l, base, mapped[i - 1], i)
      all == mapped[Len(l.sm)]
  IN  [addr |-> base + all.done, bit |-> 0, list |-> all.list]

Fmmus(l, addr, bit) ==
  IF l.bits < 8 THEN BitFmmu(l, addr, bit) ELSE ByteFmmus(l, addr, bit)

\* The FMMUs of the slave in the list.
Programmed(dir, list) ==
  {[slave |-> slave, group |-> cur, dir |-> dir, phys |-> list[i].phys,
    start |-> list[i].start, startbit |-> list[i].startbit, len |-> list[i].len,
    endbit |-> list[i].endbit] : i \in DOMAIN list}
Program(dir, list) == fmmu' = fmmu \cup Programmed(dir, list)

\* The slave's pointer is set by its first FMMU, unless it points already.
\* Wrong: takes the logical address for the offset in the IOmap.
PointAt_Wrong(p, list) ==
  IF p = Null THEN [map |-> cur, off |-> Head(list).start] ELSE p
PointAt(p, list) ==
  IF p = Null THEN [map |-> cur, off |-> Head(list).start - Base(cur)] ELSE p

\* The segment grows by the bytes of one slave, or is closed before them; in
\* the last segment there is none to open.
Close(sg) == [sg.list EXCEPT ![sg.n] = sg.size]
Grow(sg, diff) ==
  IF sg.size + diff <= Limit THEN [sg EXCEPT !.size = @ + diff]
  ELSE IF sg.n < MaxIOSegments - 1
       THEN [n |-> sg.n + 1, size |-> diff, list |-> Close(sg)]
       ELSE [sg EXCEPT !.list = Close(sg)]

\* A started byte is finished after the last slave of a direction.
Pad(sg) == IF BitPos = 0 THEN sg ELSE Grow(sg, 1)
PadAddr == IF BitPos = 0 THEN LogAddr ELSE LogAddr + 1

-----------------------------------------------------------------------------
StartMap(g) ==
  /\ phase = "idle" /\ g \in Groups /\ ~group[g].mapped
  /\ phase' = IF Overlap THEN "both" ELSE "out"
  /\ cur' = g /\ slave' = 1
  /\ LogAddr' = Base(g) /\ soLogAddr' = Base(g) /\ siLogAddr' = Base(g)
  /\ BitPos' = 0
  /\ seg' = [n |-> 0, size |-> 0, list |-> NoSegments]
  /\ UNCHANGED <<setup, out, in, fmmu, outputs, inputs, group>>

Blocked(s) == IF s \in BlockLRW THEN 1 ELSE 0
Counted(gr, nout, nin, blocked) ==
  [gr EXCEPT !.outputsWKC = @ + nout, !.inputsWKC = @ + nin, !.blockLRW = @ + blocked]

HasOut(s) == InGroup(s, cur) /\ out[s].bits > 0
HasIn(s) == InGroup(s, cur) /\ in[s].bits > 0

MapOutput ==
  /\ phase = "out" /\ slave <= slavecount /\ HasOut(slave)
  /\ LET m == Fmmus(out[slave], LogAddr, BitPos)
     IN  /\ LogAddr' = m.addr /\ BitPos' = m.bit
         /\ seg' = Grow(seg, m.addr - LogAddr)
         /\ Program("out", m.list)
         /\ outputs' = [outputs EXCEPT ![slave] = PointAt(@, m.list)]
         /\ group' = [group EXCEPT ![cur] = Counted(@, Len(m.list), 0, 0)]
  /\ slave' = slave + 1
  /\ UNCHANGED <<setup, out, in, inputs, phase, cur, soLogAddr, siLogAddr>>

SkipOutput ==
  /\ phase = "out" /\ slave <= slavecount /\ ~HasOut(slave)
  /\ slave' = slave + 1
  /\ UNCHANGED <<setup, out, in, fmmu, outputs, inputs, group, phase, cur, place, seg>>

EndOutputs ==
  /\ phase = "out" /\ slave > slavecount
  /\ LET sg == Pad(seg)
         o  == PadAddr - Base(cur)
     IN  /\ seg' = sg
         /\ group' = [group EXCEPT ![cur] = [@ EXCEPT
                        !.Obytes = o, !.Isegment = sg.n, !.Ioffset = sg.size]]
  /\ LogAddr' = PadAddr /\ BitPos' = 0
  /\ phase' = "in" /\ slave' = 1
  /\ UNCHANGED <<setup, out, in, fmmu, outputs, inputs, cur, soLogAddr, siLogAddr>>

MapInput ==
  /\ phase = "in" /\ slave <= slavecount /\ HasIn(slave)
  /\ LET m == Fmmus(in[slave], LogAddr, BitPos)
     IN  /\ LogAddr' = m.addr /\ BitPos' = m.bit
         /\ seg' = Grow(seg, m.addr - LogAddr)
         /\ Program("in", m.list)
         /\ inputs' = [inputs EXCEPT ![slave] = PointAt(@, m.list)]
         /\ group' = [group EXCEPT ![cur] =
                       Counted(@, 0, Len(m.list), Blocked(slave))]
  /\ slave' = slave + 1
  /\ UNCHANGED <<setup, out, in, outputs, phase, cur, soLogAddr, siLogAddr>>

SkipInput ==
  /\ phase = "in" /\ slave <= slavecount /\ ~HasIn(slave)
  /\ slave' = slave + 1
  /\ group' = [group EXCEPT ![cur] =
                 Counted(@, 0, 0, IF InGroup(slave, cur) THEN Blocked(slave) ELSE 0)]
  /\ UNCHANGED <<setup, out, in, fmmu, outputs, inputs, phase, cur, place, seg>>

EndInputs ==
  /\ phase = "in" /\ slave > slavecount
  /\ LET sg == Pad(seg)
     IN  /\ seg' = sg
         /\ group' = [group EXCEPT ![cur] = [@ EXCEPT
              !.mapped = TRUE, !.IOsegment = Close(sg), !.nsegments = sg.n + 1,
              !.inputs = group[cur].Obytes,
              !.Ibytes = PadAddr - Base(cur) - group[cur].Obytes]]
  /\ LogAddr' = PadAddr /\ BitPos' = 0
  /\ phase' = "idle"
  /\ UNCHANGED <<setup, out, in, fmmu, outputs, inputs, cur, slave, soLogAddr, siLogAddr>>

\* A started byte is finished after every slave and direction.
WholeByte(m) == IF m.bit = 0 THEN m.addr ELSE m.addr + 1

\* Overlapped: outputs and inputs of the slave start at the same byte, and
\* the next slave behind the longer of them.
MapBoth ==
  /\ phase = "both" /\ slave <= slavecount /\ InGroup(slave, cur)
  /\ LET none == [addr |-> LogAddr, bit |-> 0, list |-> << >>]
         mo == IF HasOut(slave) THEN Fmmus(out[slave], LogAddr, 0) ELSE none
         mi == IF HasIn(slave) THEN Fmmus(in[slave], LogAddr, 0) ELSE none
         next == Max({WholeByte(mo), WholeByte(mi)})
     IN  /\ soLogAddr' = WholeByte(mo) /\ siLogAddr' = WholeByte(mi)
         /\ LogAddr' = next
         /\ seg' = Grow(seg, next - LogAddr)
         /\ fmmu' = fmmu \cup Programmed("out", mo.list) \cup Programmed("in", mi.list)
         /\ outputs' = IF mo.list = << >> THEN outputs
                       ELSE [outputs EXCEPT ![slave] = PointAt(@, mo.list)]
         /\ inputs' = IF mi.list = << >> THEN inputs
                      ELSE [inputs EXCEPT ![slave] = PointAt(@, mi.list)]
         /\ group' = [group EXCEPT ![cur] =
                       Counted(@, Len(mo.list), Len(mi.list), Blocked(slave))]
  /\ slave' = slave + 1
  /\ UNCHANGED <<setup, out, in, phase, cur, BitPos>>

SkipBoth ==
  /\ phase = "both" /\ slave <= slavecount /\ ~InGroup(slave, cur)
  /\ soLogAddr' = LogAddr /\ siLogAddr' = LogAddr
  /\ slave' = slave + 1
  /\ UNCHANGED <<setup, out, in, fmmu, outputs, inputs, group, phase, cur, LogAddr,
                 BitPos, seg>>

\* The inputs are behind the outputs in the IOmap: every slave's pointer
\* moves there.
ShiftInputs(o) == [s \in Slaves |-> [inputs[s] EXCEPT !.off = @ + o]]

EndBoth ==
  /\ phase = "both" /\ slave > slavecount
  /\ LET o == soLogAddr - Base(cur)
     IN  /\ group' = [group EXCEPT ![cur] = [@ EXCEPT
              !.mapped = TRUE, !.IOsegment = Close(seg), !.nsegments = seg.n + 1,
              !.Isegment = 0, !.Ioffset = 0,
              !.Obytes = o, !.Ibytes = siLogAddr - Base(cur), !.inputs = o]]
         /\ inputs' = ShiftInputs(o)
  /\ phase' = "idle"
  /\ UNCHANGED <<setup, out, in, fmmu, outputs, cur, slave, place, seg>>

MapStep ==
  \/ \E g \in Groups : StartMap(g)
  \/ MapOutput \/ SkipOutput \/ EndOutputs
  \/ MapInput \/ SkipInput \/ EndInputs
  \/ MapBoth \/ SkipBoth \/ EndBoth

AllMapped == phase = "idle" /\ \A g \in Groups : group[g].mapped

MapSpec == MapInit /\ [][MapStep]_mapVars

-----------------------------------------------------------------------------
(* Properties.                                                              *)

Fmmu == [slave : Slaves, group : Groups, dir : {"out", "in"}, phys : Nat,
         start : Nat, startbit : 0 .. 7, len : Nat \ {0}, endbit : 0 .. 7]

\* Type invariant: in particular the free bit is a bit of a byte, and an FMMU
\* starts and ends at one (the two carries of the bit-oriented branches).
MapTypeOK ==
  /\ fmmu \subseteq Fmmu
  /\ outputs \in [Slaves -> [map : Groups \cup {NoMap}, off : Nat]]
  /\ inputs \in [Slaves -> [map : Groups \cup {NoMap}, off : Nat]]
  /\ phase \in {"idle", "out", "in", "both"} /\ slave \in 1 .. slavecount + 1
  /\ LogAddr \in Nat /\ BitPos \in 0 .. 7
  /\ seg.n \in 0 .. MaxIOSegments - 1
  /\ DOMAIN group = Groups

BitsOf(f) == 8 * f.start + f.startbit .. 8 * (f.start + f.len - 1) + f.endbit

\* No two FMMUs claim one bit of the logical address space: neither two
\* slaves that share a byte, nor the last output and the first input, nor two
\* groups.  Overlapped, an output and an input may.  (The BitPos carries and
\* paddings of both mapping functions.)
RegionsDisjoint ==
  \A f, h \in fmmu :
    f # h /\ (f.dir = h.dir \/ ~Overlap) => BitsOf(f) \cap BitsOf(h) = {}

\* Each byte of a slave's sync managers is in one FMMU of that direction, at its
\* physical address (ethercatconfig.c:942: "if addresses from more SM connect
\* use one FMMU otherwise break up in multiple FMMU").
SmMapped(s, dir, l) ==
  LET mine == {f \in fmmu : f.slave = s /\ f.dir = dir}
  IN  mine # {} =>
        \A i \in DOMAIN l.sm :
          \A b \in l.sm[i].start .. l.sm[i].start + l.sm[i].len - 1 :
            Cardinality({f \in mine : IF l.bits < 8 THEN f.phys = b
                                      ELSE b \in f.phys .. f.phys + f.len - 1}) = 1
SmsMapped == \A s \in Slaves : SmMapped(s, "out", out[s]) /\ SmMapped(s, "in", in[s])

Size(g) == IF Overlap THEN Max({group[g].Obytes, group[g].Ibytes})
           ELSE group[g].Obytes + group[g].Ibytes
SegBytes(g, n) == Total([i \in 1 .. n |-> group[g].IOsegment[i - 1]], n)

\* Also, a mapped group's FMMUs are inside its outputs or inputs, and its segments
\* cover all of its bytes, none twice, each of them in one frame; the first
\* input byte is where Isegment and Ioffset say.  (The segmented sending relies
\* on all of that.)
ImageComplete(g) ==
  LET gr == group[g]
      first == IF Overlap THEN Base(g) ELSE Base(g) + gr.Obytes
  IN  /\ \A f \in fmmu : f.group = g =>
           IF f.dir = "out"
           THEN f.start >= Base(g) /\ f.start + f.len <= Base(g) + gr.Obytes
           ELSE f.start >= first /\ f.start + f.len <= first + gr.Ibytes
      /\ SegBytes(g, gr.nsegments) = Size(g)
      /\ \A i \in DOMAIN gr.IOsegment : gr.IOsegment[i] <= Limit
      /\ ~Overlap => /\ SegBytes(g, gr.Isegment) + gr.Ioffset = gr.Obytes
                     /\ gr.Ioffset <= gr.IOsegment[gr.Isegment]
ImagesComplete == SmsMapped /\ \A g \in Groups : group[g].mapped => ImageComplete(g)

\* "IO segmentation list. Datagrams must not break SM in two."
\* (ethercatmain.h:271): the bytes of one FMMU are in one segment.
SegmentOf(g, b) ==
  CHOOSE i \in 0 .. group[g].nsegments - 1 :
    Base(g) + SegBytes(g, i) <= b /\ b < Base(g) + SegBytes(g, i + 1)
NoSmBroken ==
  \A f \in fmmu : group[f.group].mapped =>
    SegmentOf(f.group, f.start) = SegmentOf(f.group, f.start + f.len - 1)

\* The application finds each slave's data where the FMMU puts it: outputs at
\* their logical address in the group's IOmap, inputs as well or, overlapped,
\* behind the outputs.  The overlapped mapping of a group moves the inputs of
\* all slaves, so that this holds for the only group mapped in that way.
Undisturbed(g) == ~Overlap \/ \A h \in Groups : group[h].mapped => h = g
FirstOf(s, dir) == {f \in fmmu : f.slave = s /\ f.dir = dir /\
                      \A h \in fmmu : h.slave = s /\ h.dir = dir => f.start <= h.start}
PointersRight ==
  \A f \in fmmu : group[f.group].mapped /\ Undisturbed(f.group) =>
    /\ f \in FirstOf(f.slave, "out") =>
         outputs[f.slave] = [map |-> f.group, off |-> f.start - Base(f.group)]
    /\ f \in FirstOf(f.slave, "in") =>
         inputs[f.slave] = [map |-> f.group, off |-> f.start - Base(f.group) +
                              (IF Overlap THEN group[f.group].Obytes ELSE 0)]
=============================================================================
