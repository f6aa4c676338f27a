---------------------------- MODULE ProcessData ----------------------------
(***************************************************************************)
(* The cyclic exchange over a mapped image: ecx_main_send_processdata cuts *)
(* a group's image into frames along its IOsegment list and sends them,    *)
(* ecx_receive_processdata_group takes them back through the index stack,  *)
(* copies their data into the IOmap and adds up the work counter, which    *)
(* the application compares with outputsWKC * 2 + inputsWKC to know that   *)
(* the cycle was complete.  It composes with IOMap: the image is one that  *)
(* the mapping functions have made.  A setup also says whether the groups  *)
(* have distributed clocks, and bounds the cycles and the writes of the    *)
(* application, and the bytes of its IOmap.                                *)
(*                                                                         *)
(* Memory is kept bit by bit.  The value of an output bit is the number of *)
(* the application's write it comes from, the value of an input bit the    *)
(* number of the cycle in which its slave put it in a frame; 0 is neither. *)
(* The slaves and the ring are the environment: a frame crosses them in    *)
(* the order of sending, some slaves answer it, and it comes back or is    *)
(* lost.  A frame that is late counts as lost (NicPort.tla has those).     *)
(***************************************************************************)
EXTENDS IOMap

CONSTANTS MaxBuf,        \* EC_MAXBUF, depth of the index stack
          Losses,        \* frames can be lost and slaves silent
          WriteInFlight, \* the application writes outputs during a cycle
          OneGroup       \* a group is received before another is sent

VARIABLES mem,        \* the IOmap of each group, bit by bit
          got,        \* the output bits each FMMU has given to its slave
          version,    \* writes of the application
          cycle,      \* cycles started
          tx,         \* the sending loop: its command, segment, ...
          frames,     \* frames of the cycle
          idxstack,   \* numbers of the frames that were pushed
          pulled,     \* entries pulled from it
          rx,         \* the receiving loop: group, wkc, valid_wkc
          inUse,      \* datagram indices not given back
          clean,      \* so far no frame was lost and no slave was silent
          result      \* what the last receive returned

pvars == <<mem, got, version, cycle, tx, frames, idxstack, pulled, rx, inUse,
           clean, result>>

Idle == [cmd |-> "none"]
NoFrame == -1
MaxCycles == setup.cycles
MemBits == 8 * setup.iomap

InitProcess ==
  /\ MapInit
  /\ mem = [g \in Groups |-> [b \in 0 .. MemBits - 1 |-> 0]]
  /\ got = << >>
  /\ version = 0 /\ cycle = 0 /\ inUse = 0 /\ pulled = 0
  /\ tx = Idle /\ frames = << >> /\ idxstack = << >>
  /\ rx = Idle /\ clean = TRUE
  /\ result = [g |-> NoMap, wkc |-> NoFrame]

\* The application stores new outputs.
OutBits(g) == 0 .. 8 * group[g].Obytes - 1
WriteOutputs ==
  /\ version < MaxCycles
  /\ tx = Idle /\ rx = Idle
  /\ frames = << >> \/ WriteInFlight
  /\ version' = version + 1
  /\ mem' = [g \in Groups |-> [b \in DOMAIN mem[g] |->
               IF b \in OutBits(g) THEN version + 1 ELSE mem[g][b]]]
  /\ result' = [g |-> NoMap, wkc |-> NoFrame]
  /\ UNCHANGED <<got, cycle, tx, frames, idxstack, pulled, rx, inUse, clean>>

-----------------------------------------------------------------------------
(* ecx_main_send_processdata: one step per frame.                           *)

SendLRD(g) ==
  [cmd |-> "LRD", g |-> g, seg |-> group[g].Isegment, left |-> group[g].Ibytes,
   addr |-> Base(g) + group[g].Obytes, data |-> group[g].inputs]
SendLWR(g) ==
  [cmd |-> "LWR", g |-> g, seg |-> 0, left |-> group[g].Obytes,
   addr |-> Base(g), data |-> group[g].outputs]
SendLRW(g) ==
  [cmd |-> "LRW", g |-> g, seg |-> 0, left |-> Size(g), addr |-> Base(g),
   data |-> IF group[g].Obytes > 0 THEN group[g].outputs ELSE group[g].inputs]

StartSend(g) ==
  /\ tx = Idle /\ rx = Idle /\ cycle < MaxCycles
  /\ \A i \in DOMAIN frames : ~OneGroup /\ frames[i].g # g
  /\ Size(g) > 0
  /\ tx' = CASE group[g].blockLRW = 0   -> SendLRW(g)
             [] group[g].blockLRW > 0 /\ group[g].Ibytes > 0 -> SendLRD(g)
             [] OTHER                   -> SendLWR(g)
  /\ IF frames = << >> THEN cycle' = cycle + 1 /\ clean' = TRUE
     ELSE UNCHANGED <<cycle, clean>>
  /\ result' = [g |-> NoMap, wkc |-> NoFrame]
  /\ UNCHANGED <<mem, got, version, frames, idxstack, pulled, rx, inUse>>

SubLength ==
  LET segment == group[tx.g].IOsegment[tx.seg]
  IN  CASE tx.cmd = "LRD" /\ tx.seg = group[tx.g].Isegment ->
                           segment - group[tx.g].Ioffset
        [] tx.cmd = "LWR" /\ tx.left < segment -> tx.left
        [] OTHER -> segment

\* Where the returned data goes: compensated for the overlapped IOmap, unless
\* the group has only inputs.
\* Wrong: never compensated.
InputOffset_Never == 0
InputOffset ==
  IF tx.cmd = "LRW" /\ Overlap /\ group[tx.g].Obytes > 0
  THEN group[tx.g].Obytes ELSE 0

AfterLoop(t) ==
  IF t.left # 0 /\ t.seg < group[t.g].nsegments THEN t
  ELSE IF t.cmd = "LRD" /\ group[t.g].Obytes > 0 THEN SendLWR(t.g) ELSE Idle

SendFrame ==
  /\ tx # Idle
  /\ LET sub == SubLength
         first == \A i \in DOMAIN frames : frames[i].g # tx.g
     IN  /\ frames' = Append(frames,
              [g |-> tx.g, cmd |-> tx.cmd, addr |-> tx.addr, len |-> sub,
               data |-> tx.data + InputOffset, dc |-> setup.dc /\ first,
               bits |-> [b \in 0 .. 8 * sub - 1 |-> mem[tx.g][8 * tx.data + b]],
               wkc |-> 0, at |-> "line"])
         /\ idxstack' = IF Len(idxstack) < MaxBuf
                        THEN Append(idxstack, Len(frames) + 1) ELSE idxstack
         /\ tx' = AfterLoop([tx EXCEPT !.seg = @ + 1, !.left = @ - sub,
                                       !.addr = @ + sub, !.data = @ + sub])
  /\ inUse' = inUse + 1
  /\ UNCHANGED <<mem, got, version, cycle, pulled, rx, clean, result>>

-----------------------------------------------------------------------------
(* The ring and the slaves.                                                 *)

\* Bits of the frame, counted from its first, that an FMMU claims.
FrameBits(fr, f) == {b - 8 * fr.addr : b \in BitsOf(f)} \cap DOMAIN fr.bits
Hits(fr, dir) == {f \in fmmu : f.group = fr.g /\ f.dir = dir /\ FrameBits(fr, f) # {}}

\* A slave counts once for what it reads and twice for what it writes in a
\* LRW datagram, once in the others.
Written(fr) == IF fr.cmd = "LRD" THEN {} ELSE Hits(fr, "out")
ReadBy(fr) == IF fr.cmd = "LWR" THEN {} ELSE Hits(fr, "in")
WkcOf(fr, R) ==
  LET writers == {f.slave : f \in Written(fr)} \cap R
      readers == {f.slave : f \in ReadBy(fr)} \cap R
  IN  Cardinality(readers)
        + Cardinality(writers) * (IF fr.cmd = "LRW" THEN 2 ELSE 1)

Touched(fr) == {f.slave : f \in Written(fr) \cup ReadBy(fr)}

\* The next frame on the line crosses the ring, the slaves of R answer it.
Cross(R, back) ==
  \E i \in DOMAIN frames :
    LET fr == frames[i]
        filled == UNION {FrameBits(fr, f) : f \in {h \in ReadBy(fr) : h.slave \in R}}
        taken == {f \in Written(fr) : f.slave \in R}
    IN  /\ fr.at = "line" /\ \A j \in 1 .. i - 1 : frames[j].at # "line"
        /\ R \subseteq Touched(fr)
        /\ Losses \/ (R = Touched(fr) /\ back)
        /\ frames' = [frames EXCEPT ![i] = [@ EXCEPT
             !.at = IF back THEN "back" ELSE "lost",
             !.wkc = WkcOf(fr, R),
             !.bits = [b \in DOMAIN fr.bits |->
                         IF b \in filled THEN cycle ELSE fr.bits[b]]]]
        /\ got' = [f \in taken \cup DOMAIN got |->
                     IF f \notin taken THEN got[f]
                     ELSE [b \in BitsOf(f) |->
                             IF b - 8 * fr.addr \in DOMAIN fr.bits
                             THEN fr.bits[b - 8 * fr.addr]
                             ELSE IF f \in DOMAIN got THEN got[f][b] ELSE 0]]
        /\ clean' = (clean /\ back /\ R = Touched(fr))
  /\ UNCHANGED <<mem, version, cycle, tx, idxstack, pulled, rx, inUse, result>>

-----------------------------------------------------------------------------
(* ecx_receive_processdata_group: one step per index of the stack.          *)

StartReceive(g) ==
  /\ tx = Idle /\ rx = Idle /\ frames # << >>
  /\ rx' = [cmd |-> "receive", g |-> g, wkc |-> 0, valid |-> FALSE]
  /\ UNCHANGED <<mem, got, version, cycle, tx, frames, idxstack, pulled, inUse,
                 clean, result>>

\* The first datagram's own counter when the DC datagram follows it in the
\* frame: assigned, where the counter of any other frame is added.
\* Wrong: every counter assigned.
Count_Wrong(fr) == fr.wkc * (IF fr.cmd = "LWR" THEN 2 ELSE 1)
Count(fr) ==
  LET w == IF fr.cmd = "LWR" THEN 2 * fr.wkc ELSE fr.wkc
  IN  IF fr.dc THEN w ELSE rx.wkc + w

\* Wrong: a frame with a DC datagram is not copied.
CopyBack_Wrong(fr) ==
  IF fr.cmd = "LWR" \/ fr.dc THEN UNCHANGED mem
  ELSE mem' = [mem EXCEPT ![fr.g] = [b \in DOMAIN @ |->
                 IF b - 8 * fr.data \in DOMAIN fr.bits
                 THEN fr.bits[b - 8 * fr.data] ELSE @[b]]]
CopyBack(fr) ==
  IF fr.cmd = "LWR" THEN UNCHANGED mem
  ELSE mem' = [mem EXCEPT ![fr.g] = [b \in DOMAIN @ |->
                 IF b - 8 * fr.data \in DOMAIN fr.bits
                 THEN fr.bits[b - 8 * fr.data] ELSE @[b]]]

Pulled == frames[idxstack[pulled + 1]]

PullAnswer ==
  /\ rx # Idle /\ pulled < Len(idxstack) /\ Pulled.at = "back"
  /\ CopyBack(Pulled)
  /\ rx' = [rx EXCEPT !.wkc = Count(Pulled), !.valid = TRUE]
  /\ pulled' = pulled + 1
  /\ inUse' = inUse - 1
  /\ UNCHANGED <<got, version, cycle, tx, frames, idxstack, clean, result>>

PullNothing ==
  /\ rx # Idle /\ pulled < Len(idxstack) /\ Pulled.at = "lost"
  /\ pulled' = pulled + 1
  /\ inUse' = inUse - 1
  /\ UNCHANGED <<mem, got, version, cycle, tx, rx, frames, idxstack, clean, result>>

EndReceive ==
  /\ rx # Idle /\ pulled = Len(idxstack)
  /\ \A i \in DOMAIN frames : frames[i].at # "line"
  /\ result' = [g |-> rx.g, wkc |-> IF rx.valid THEN rx.wkc ELSE NoFrame]
  /\ rx' = Idle /\ pulled' = 0
  /\ idxstack' = << >> /\ frames' = << >>
  /\ UNCHANGED <<mem, got, version, cycle, tx, inUse, clean>>

Exchange ==
  \/ WriteOutputs
  \/ \E g \in Groups : StartSend(g) \/ StartReceive(g)
  \/ SendFrame
  \/ \E R \in SUBSET Slaves, back \in BOOLEAN : Cross(R, back)
  \/ PullAnswer \/ PullNothing \/ EndReceive

NextProcess ==
  \/ MapStep /\ UNCHANGED pvars
  \/ AllMapped /\ Exchange /\ UNCHANGED mapVars

ProcessSpec == InitProcess /\ [][NextProcess]_<<mapVars, pvars>>

-----------------------------------------------------------------------------
(* Properties.                                                              *)

\* Type invariant: the sending loop never runs past the segment list or the
\* bytes that are left, however the image was cut.
ProcessTypeOK ==
  /\ tx # Idle => tx.seg \in 0 .. group[tx.g].nsegments - 1 /\ tx.left > 0
  /\ \A i \in DOMAIN frames : frames[i].len \in 0 .. Limit
  /\ pulled \in 0 .. Len(idxstack) /\ Len(idxstack) <= MaxBuf
  /\ inUse \in Nat
  /\ result.wkc \in Int

ExpectedWkc(g) == 2 * group[g].outputsWKC + group[g].inputsWKC

OutputsTaken(g) ==
  \A f \in fmmu : f.group = g /\ f.dir = "out" =>
    f \in DOMAIN got /\ \A b \in BitsOf(f) : got[f][b] = version
\* Read where the application reads: from the slave's input pointer.
InputsFresh(g) ==
  \A f \in fmmu : f.group = g /\ f.dir = "in" =>
    LET off == inputs[f.slave].off + f.start
                 - (CHOOSE h \in FirstOf(f.slave, "in") : TRUE).start
    IN  \A k \in 0 .. Cardinality(BitsOf(f)) - 1 :
          mem[g][8 * off + f.startbit + k] = cycle

\* When a cycle returns at least the expected work counter, every slave of the group
\* has taken the outputs of this cycle and every input the application reads
\* was put there in this cycle: no lost frame and no silent slave hides in
\* the sum (simple_test3.c compares the two to decide that).
WkcProvesCycle ==
  result.g \in Groups /\ result.wkc >= ExpectedWkc(result.g) =>
    OutputsTaken(result.g) /\ InputsFresh(result.g)

\* And the other way: when no frame was lost and every slave answered, the
\* counter is the expected one, whatever segments, LRW or LRD and LWR, and
\* with or without the DC datagram in the first frame; and after each cycle, lost
\* frames or not, every index is free again for the next.
NoFalseAlarm ==
  /\ result.g \in Groups /\ clean => result.wkc = ExpectedWkc(result.g)
  /\ frames = << >> => inUse = 0

\* What the application wrote last is what the output part of the IOmap
\* holds: the data that comes back in a LRW frame does not change it.
OutputsKept ==
  cycle > 0 => \A g \in Groups : \A b \in OutBits(g) : mem[g][b] = version
=============================================================================
