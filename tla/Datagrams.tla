----------------------------- MODULE Datagrams -----------------------------
(***************************************************************************)
(* Frames of several datagrams: ecx_setupdatagram writes the first,        *)
(* ecx_adddatagram each further one behind it and returns where its data   *)
(* will be in the received frame; the slaves find the datagrams by their   *)
(* lengths and "datagram follows" flags; the master finds the work counter *)
(* by the length of the whole frame and the data by the offsets.           *)
(*                                                                         *)
(* Three callers: a primitive with one datagram; ecx_LRWDC (and the cyclic *)
(* exchange) with a clock datagram behind the process data; ecx_readstate, *)
(* which asks the slaves one datagram each, MaxMulti in a frame.           *)
(*                                                                         *)
(* A frame maps the bytes that were written to what they are: a part of a  *)
(* header, data, or a work counter.  The network is external.              *)
(***************************************************************************)
EXTENDS Integers, Sequences

CONSTANTS
  MaxMulti,    \* MAX_FPRD_MULTI
  MaxSlaves,   \* bound: slaves whose states are read
  Lengths,     \* lengths of a primitive's data and of the process data
  Nothing      \* nothing of this frame, nothing received

\* A byte of data, of the datagram to whom, and who put it there.
DataBytes == [what : {"data"}, to : Nat, by : {"zero", "master", "slave"}]
AlStates == [0 .. 5 -> DataBytes]

ASSUME DatagramAssumption ==
  /\ MaxMulti \in Nat \ {0} /\ MaxSlaves \in Nat /\ Lengths \subseteq Nat
  /\ Nothing \notin AlStates

VARIABLES
  call,         \* the caller and its parameter
  fslave,       \* readstate: the first slave of the frame
  plan,         \* the datagrams of the frame
  frame, elength, txbuflength,
  offset,       \* where the data of each datagram will be after reception
  at,           \* the header the slaves read next
  answered,     \* datagrams of this frame that a slave worked on
  step,
  value         \* what the caller has for each addressee

datagramVars == <<call, fslave, plan, frame, elength, txbuflength, offset, at,
                  answered, step, value>>

ETH_HEADERSIZE == 14
EC_HEADERSIZE  == 12       \* the length of the frame, then the first header
EC_ELENGTHSIZE == 2
EC_WKCSIZE     == 2
DCTIME         == 8        \* sizeof(DCtime): of the pointer, where it has 64 bits
ALSTATUS       == 6        \* sizeof(ec_alstatust)

Callers == [kind : {"read", "write", "dc"}, n : Lengths]
           \union [kind : {"states"}, n : 1 .. MaxSlaves]

Lower(a, b) == IF a < b THEN a ELSE b

\* "if ((lslave - fslave) >= MAX_FPRD_MULTI)"
LastSlave(first) == IF call.n - first >= MaxMulti THEN first + MaxMulti - 1 ELSE call.n

Datagram(cmd, length, to) == [cmd |-> cmd, length |-> length, to |-> to]

\* The datagrams of the frame that starts with slave first.
Planned(first) ==
  CASE call.kind = "read"  -> << Datagram("FPRD", call.n, 1) >>
    [] call.kind = "write" -> << Datagram("FPWR", call.n, 1) >>
    [] call.kind = "dc"    -> << Datagram("LRW", call.n, 1), Datagram("FRMW", DCTIME, 2) >>
    [] OTHER -> [k \in 1 .. LastSlave(first) - first + 1 |->
                   Datagram("FPRD", ALSTATUS, first + k - 1)]

Addressees == 1 .. IF call.kind = "states" THEN call.n ELSE 2

DatagramInit ==
  /\ call \in Callers
  /\ fslave = 1 /\ plan = << >> /\ frame = << >> /\ elength = 0 /\ txbuflength = 0
  /\ offset = << >> /\ at = 0 /\ answered = {} /\ step = "start"
  /\ value = [s \in Addressees |-> Nothing]

-----------------------------------------------------------------------------
(* The frame                                                               *)

Put(f, from, n, what) ==
  [b \in DOMAIN f \union (from .. from + n - 1) |->
     IF b \in from .. from + n - 1 THEN what ELSE f[b]]

\* What an earlier frame left in the buffer was not written by this one.
In(f, b) == IF b \in DOMAIN f THEN f[b] ELSE Nothing
At(b) == In(frame, b)

Header(d, follows) == [what |-> "header", d |-> d, follows |-> follows]
IsHeader(c) == c # Nothing /\ c.what = "header"
Data(d, by) == [what |-> "data", to |-> d.to, by |-> by]
Counter(d, n) == [what |-> "wkc", to |-> d.to, n |-> n]

\* ecx_writedatagramdata
ReadCommand(cmd) == cmd \in {"NOP", "APRD", "FPRD", "BRD", "LRD"}
Blank(d) == Data(d, IF ReadCommand(d.cmd) THEN "zero" ELSE "master")

HEADER == EC_HEADERSIZE - EC_ELENGTHSIZE

\* The datagram d with its header at from.
Written(f, from, d, follows) ==
  LET headed == Put(f, from, HEADER, Header(d, follows))
      filled == Put(headed, from + HEADER, d.length, Blank(d))
  IN  Put(filled, from + HEADER + d.length, EC_WKCSIZE, Counter(d, 0))

FirstHeader == ETH_HEADERSIZE + EC_ELENGTHSIZE

\* ecx_setupdatagram
Setup ==
  /\ step = "start"
  /\ plan' = Planned(fslave)
  /\ LET d == plan'[1]
     IN  /\ elength' = EC_HEADERSIZE + d.length
         /\ frame' = Written(<< >>, FirstHeader, d, FALSE)
         /\ txbuflength' = ETH_HEADERSIZE + EC_HEADERSIZE + EC_WKCSIZE + d.length
  /\ offset' = << EC_HEADERSIZE >>
  /\ answered' = {} /\ step' = "add"
  /\ UNCHANGED <<call, fslave, at, value>>

More(k) == k < Len(plan)

\* "add 'datagram follows' flag to previous subframe dlength": to the first.
Flagged == Put(frame, FirstHeader, HEADER, Header(At(FirstHeader).d, TRUE))

\* Wrong: the offset is counted from the ethernet header.
DataOffset_Wrong == txbuflength + EC_HEADERSIZE - EC_ELENGTHSIZE

\* "14 bytes smaller than tx frame due to stripping of ethernet header"
DataOffset == txbuflength + EC_HEADERSIZE - EC_ELENGTHSIZE - ETH_HEADERSIZE

\* ecx_adddatagram
Add ==
  /\ step = "add" /\ Len(offset) < Len(plan)
  /\ LET d == plan[Len(offset) + 1]
     IN  /\ elength' = elength + EC_HEADERSIZE + d.length
         /\ frame' = Written(Flagged, txbuflength, d, More(Len(offset) + 1))
         /\ txbuflength' = txbuflength + EC_HEADERSIZE - EC_ELENGTHSIZE
                             + EC_WKCSIZE + d.length
  /\ offset' = Append(offset, DataOffset)
  /\ UNCHANGED <<call, fslave, plan, at, answered, step, value>>

SendFrame ==
  /\ step = "add" /\ Len(offset) = Len(plan)
  /\ at' = FirstHeader /\ step' = "slaves"
  /\ UNCHANGED <<call, fslave, plan, frame, elength, txbuflength, offset, answered, value>>

-----------------------------------------------------------------------------
(* The slaves                                                              *)

\* Behind the datagram whose header is h.
Pass(h) ==
  /\ IF h.follows THEN at' = at + HEADER + h.d.length + EC_WKCSIZE /\ UNCHANGED step
                  ELSE at' = at /\ step' = "back"
  /\ UNCHANGED <<call, fslave, plan, elength, txbuflength, offset, value>>

Answer ==
  /\ step = "slaves" /\ IsHeader(At(at))
  /\ LET h == At(at)
         filled == IF h.d.cmd = "FPWR" THEN frame
                   ELSE Put(frame, at + HEADER, h.d.length, Data(h.d, "slave"))
     IN  /\ frame' = Put(filled, at + HEADER + h.d.length, EC_WKCSIZE, Counter(h.d, 1))
         /\ answered' = answered \union {h.d.to}
         /\ Pass(h)

\* The slave it is for is not there.
Silence ==
  /\ step = "slaves" /\ IsHeader(At(at)) /\ Pass(At(at))
  /\ UNCHANGED <<frame, answered>>

Lose ==
  /\ step = "slaves" /\ step' = "lost"
  /\ UNCHANGED <<call, fslave, plan, frame, elength, txbuflength, offset, at, answered,
                 value>>

-----------------------------------------------------------------------------
(* The received frame: the ethernet header is stripped.                    *)

Received(b) == At(b + ETH_HEADERSIZE)
Copy(from, n) == [b \in 0 .. n - 1 |-> Received(from + b)]

\* ecx_inframe: the counter at the end of the frame.
Wkc == Received(elength)

\* With a clock datagram behind it: the counter of the process data.
FirstWkc == Received(EC_HEADERSIZE + plan[1].length)

\* Where the caller reads datagram k.
Read(k) == Copy(IF k = 1 THEN EC_HEADERSIZE ELSE offset[k], plan[k].length)

Taken == [s \in DOMAIN value |->
            IF \E k \in DOMAIN plan : plan[k].to = s
            THEN Read(CHOOSE k \in DOMAIN plan : plan[k].to = s) ELSE value[s]]

\* The primitives take the data if the counter is positive; ecx_FPRD_multi
\* takes all, whatever the counter says.
Receive ==
  /\ step = "back" /\ step' = "next"
  /\ value' = IF call.kind = "states" \/ (call.kind # "write" /\ Wkc.n > 0)
              THEN Taken ELSE value
  /\ UNCHANGED <<call, fslave, plan, frame, elength, txbuflength, offset, at, answered>>

\* "const ec_alstatust zero"
NotReceived ==
  /\ step = "lost" /\ step' = "next"
  /\ value' = [s \in DOMAIN value |->
                 IF call.kind = "states" /\ \E k \in DOMAIN plan : plan[k].to = s
                 THEN [b \in 0 .. ALSTATUS - 1 |-> Blank(Datagram("FPRD", ALSTATUS, s))]
                 ELSE value[s]]
  /\ UNCHANGED <<call, fslave, plan, frame, elength, txbuflength, offset, at, answered>>

\* "fslave = lslave + 1"
NextFrame ==
  /\ step = "next"
  /\ IF call.kind = "states" /\ LastSlave(fslave) < call.n
     THEN fslave' = LastSlave(fslave) + 1 /\ step' = "start"
     ELSE UNCHANGED fslave /\ step' = "done"
  /\ UNCHANGED <<call, plan, frame, elength, txbuflength, offset, at, answered, value>>

Done == step = "done" /\ UNCHANGED datagramVars

DatagramNext == \/ Setup \/ Add \/ SendFrame \/ Answer \/ Silence \/ Lose
                \/ Receive \/ NotReceived \/ NextFrame \/ Done

DatagramSpec == DatagramInit /\ [][DatagramNext]_datagramVars

-----------------------------------------------------------------------------
(* Properties                                                              *)

\* The layout while the frame is built and travels: each datagram behind the
\* one before, its data where the offset says, and the counters of lengths in
\* step with what was written.
Body(k) == offset[k] + ETH_HEADERSIZE
Layout ==
  step # "start" =>
    /\ Len(offset) \in 1 .. Len(plan)
    /\ offset[1] = EC_HEADERSIZE
    /\ \A k \in 1 .. Len(offset) - 1 :
         offset[k + 1] = offset[k] + plan[k].length + EC_WKCSIZE + HEADER
    /\ txbuflength = Body(Len(offset)) + plan[Len(offset)].length + EC_WKCSIZE
    /\ elength = txbuflength - ETH_HEADERSIZE - EC_WKCSIZE

\* When the frame is back the slaves have found every datagram, each is read
\* in full where it is, as its slave answered it or as it was sent, and the
\* counter the call returns is that of the last; and when ecx_readstate ends
\* it has a state of every slave: offsets, flags and lengths agree for frames
\* of any number of datagrams.
Result(k) == LET d == plan[k]
             IN  IF d.to \in answered /\ d.cmd # "FPWR" THEN Data(d, "slave") ELSE Blank(d)
Count(k) == Counter(plan[k], IF plan[k].to \in answered THEN 1 ELSE 0)
EachReadsOwn ==
  /\ step = "back" =>
       /\ at = Body(Len(plan)) - HEADER
       /\ \A k \in DOMAIN plan : Read(k) = [b \in 0 .. plan[k].length - 1 |-> Result(k)]
       /\ Wkc = Count(Len(plan))
       /\ call.kind = "dc" => FirstWkc = Count(1)
  /\ step = "done" /\ call.kind = "states" => \A s \in 1 .. call.n : value[s] # Nothing
=============================================================================
