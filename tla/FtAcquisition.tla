--------------------------- MODULE FtAcquisition ---------------------------
(***************************************************************************)
(* The Arduino program that carries the samples of a Net F/T sensor from a *)
(* CAN bus to the EtherCAT master (shield_both_mounted/src/main.cpp): every *)
(* 20 ms mainFunction asks the sensor for a sample, stores the four CAN    *)
(* frames it answers with, lets the EasyCAT shield exchange its process    *)
(* data and puts the sample into the shield's input buffer.                *)
(*                                                                         *)
(* The data of a sample is its number.  The environment is the sensor,     *)
(* which answers a request with a frame for each axis and a status frame   *)
(* in any order, the MCP2515 CAN controller with two receive buffers, the  *)
(* bus, the timer and the EtherCAT side of the shield.                     *)
(***************************************************************************)
EXTENDS Naturals, FiniteSets

CONSTANTS N,          \* bound: samples are numbered modulo N
          MaxTries,   \* TIMEOUTVALUE
          Paced,      \* the sensor sends no frame while both buffers are full
          Junk        \* what an uninitialised local variable holds

ASSUME FtAssumption ==
  /\ N \in Nat \ {0} /\ MaxTries \in Nat \ {0} /\ Paced \in BOOLEAN
  /\ Junk \notin Nat

Samples == 0 .. N - 1
Next1(n) == (n + 1) % N

Axes == {"x", "y", "z"}
Ids == Axes \cup {"status"}
NoCanFrame == [id |-> "none", sample |-> 0]
TxBuffers == 0 .. 2

VARIABLES pc,        \* where mainFunction is
          tries,     \* uiTimeOut of sendMsg
          txbuf,     \* the transmit buffer sendMsg waits for
          stored,    \* calls of storeFT that are done
          ft,        \* the locals fx .. tz of mainFunction, by axis
          BufferIn,  \* EasyCAT's input buffer, by axis
          BufferOut, \* EasyCAT's output buffer: reference values or zeros
          core,      \* process data in the EtherCAT controller
          txPending, \* transmit buffers of the CAN controller not yet sent
          rxb0, rxb1, \* its receive buffers
          replies,   \* frames the sensor has still to send
          sample     \* samples taken by the sensor

local == <<tries, txbuf, stored, ft>>
shield == <<BufferIn, BufferOut, core>>
can == <<txPending, rxb0, rxb1>>
vars == <<pc, local, shield, can, replies, sample>>

Init ==
  /\ pc = "idle" /\ tries = 0 /\ txbuf = 0 /\ stored = 0
  /\ ft = [a \in Axes |-> Junk]
  /\ BufferIn = [a \in Axes |-> 0] /\ BufferOut = "zeros"
  /\ core = [a \in Axes |-> 0]
  /\ txPending = {} /\ rxb0 = NoCanFrame /\ rxb1 = NoCanFrame
  /\ replies = {} /\ sample = 0

-----------------------------------------------------------------------------
(* mainFunction, and the MCP_CAN functions it calls.                        *)

\* The timer interrupt; fx .. tz are fresh on the stack.
mainFunction ==
  /\ pc = "idle"
  /\ pc' = "free" /\ tries' = 0 /\ stored' = 0
  /\ ft' = [a \in Axes |-> Junk]
  /\ UNCHANGED <<txbuf, shield, can, replies, sample>>

\* sendMsg takes the first free transmit buffer, loads it and starts it.  (Its
\* loop for all buffers being busy is never entered: the program would stop
\* here.)
LoadTx ==
  /\ pc = "free" /\ txPending # TxBuffers
  /\ txbuf' = CHOOSE i \in TxBuffers \ txPending :
                \A j \in TxBuffers \ txPending : i <= j
  /\ txPending' = txPending \cup {txbuf'}
  /\ pc' = "sent" /\ tries' = 0
  /\ UNCHANGED <<stored, ft, shield, rxb0, rxb1, replies, sample>>

\* Then it polls the buffer's control register until it is sent, or for
\* MaxTries times; either way mainFunction goes on: it ignores the result.
StillPending ==
  /\ pc = "sent" /\ txbuf \in txPending /\ tries + 1 < MaxTries
  /\ tries' = tries + 1
  /\ UNCHANGED <<pc, txbuf, stored, ft, shield, can, replies, sample>>

EndSend ==
  /\ pc = "sent" /\ (txbuf \notin txPending \/ tries + 1 = MaxTries)
  /\ pc' = "poll" /\ tries' = 0
  /\ UNCHANGED <<txbuf, stored, ft, shield, can, replies, sample>>

\* storeFT waits for a frame, for as long as there is none.
\* Wrong: it looks at one receive buffer only.
Available_Wrong == rxb0 # NoCanFrame
Available == rxb0 # NoCanFrame \/ rxb1 # NoCanFrame

PollAgain == pc = "poll" /\ ~Available /\ UNCHANGED vars

checkReceive ==
  /\ pc = "poll" /\ Available
  /\ pc' = "read"
  /\ UNCHANGED <<local, shield, can, replies, sample>>

\* readMsgBuf takes the frame of buffer 0 if there is one, else that of 1,
\* and storeFT the axis its id names; the status frame it drops.
\* Wrong: the frames of the y axis are not recognised.
Assign_Wrong(f) ==
  ft' = IF f.id \in {"x", "z"} THEN [ft EXCEPT ![f.id] = f.sample] ELSE ft
Assign(f) ==
  ft' = IF f.id \in Axes THEN [ft EXCEPT ![f.id] = f.sample] ELSE ft

\* Wrong: the status frame is not waited for.
AfterStore_Wrong(k) == IF k = 3 THEN "task" ELSE "poll"
AfterStore(k) == IF k = 4 THEN "task" ELSE "poll"

storeFT ==
  /\ pc = "read"
  /\ IF rxb0 # NoCanFrame
     THEN Assign(rxb0) /\ rxb0' = NoCanFrame /\ UNCHANGED rxb1
     ELSE Assign(rxb1) /\ rxb1' = NoCanFrame /\ UNCHANGED rxb0
  /\ stored' = stored + 1
  /\ pc' = AfterStore(stored + 1)
  /\ UNCHANGED <<tries, txbuf, shield, txPending, replies, sample>>

\* MainTask: the reference values are read unless the slave is not in OP or
\* its watchdog has expired, the input buffer is always written.
MainTask(operational) ==
  /\ pc = "task"
  /\ BufferOut' = IF operational THEN "reference" ELSE "zeros"
  /\ core' = BufferIn
  /\ pc' = "publish"
  /\ UNCHANGED <<local, BufferIn, can, replies, sample>>

sendToMaster ==
  /\ pc = "publish"
  /\ BufferIn' = ft
  /\ pc' = "idle"
  /\ UNCHANGED <<local, BufferOut, core, can, replies, sample>>

-----------------------------------------------------------------------------
(* The bus and the sensor.                                                  *)

\* The request reaches the sensor, which takes a sample.
Transmit(i) ==
  /\ i \in txPending
  /\ txPending' = txPending \ {i}
  /\ sample' = Next1(sample)
  /\ replies' = replies \cup {[id |-> d, sample |-> Next1(sample)] : d \in Ids}
  /\ UNCHANGED <<pc, local, shield, rxb0, rxb1>>

\* A frame arrives: in buffer 0, rolls over to buffer 1, or is lost.
Arrive(f) ==
  /\ f \in replies
  /\ replies' = replies \ {f}
  /\ \/ rxb0 = NoCanFrame /\ rxb0' = f /\ UNCHANGED rxb1
     \/ rxb0 # NoCanFrame /\ rxb1 = NoCanFrame /\ rxb1' = f /\ UNCHANGED rxb0
     \/ ~Paced /\ rxb0 # NoCanFrame /\ rxb1 # NoCanFrame /\ UNCHANGED <<rxb0, rxb1>>
  /\ UNCHANGED <<pc, local, shield, txPending, sample>>

Cycle ==
  \/ LoadTx \/ StillPending \/ EndSend \/ PollAgain \/ checkReceive \/ storeFT
  \/ \E op \in BOOLEAN : MainTask(op)
  \/ sendToMaster
Bus == \E i \in TxBuffers : Transmit(i)
Sensor == \E f \in replies : Arrive(f)

Next == mainFunction \/ Cycle \/ Bus \/ Sensor

Spec == Init /\ [][Next]_vars

\* The processor runs, the bus delivers what is pending and the sensor sends
\* what it owes; the timer may stay silent.
FairSpec == Spec /\ WF_vars(Cycle) /\ WF_vars(Bus) /\ WF_vars(Sensor)

-----------------------------------------------------------------------------
(* Properties.                                                              *)

Frames == [id : Ids, sample : Samples]

\* Type invariant: in particular storeFT runs at most four times a cycle and
\* no transmit buffer but the first is ever needed.
TypeOK ==
  /\ pc \in {"idle", "free", "sent", "poll", "read", "task", "publish"}
  /\ tries \in 0 .. MaxTries - 1 /\ txbuf = 0 /\ stored \in 0 .. 4
  /\ ft \in [Axes -> Samples \cup {Junk}]
  /\ BufferIn \in [Axes -> Samples \cup {Junk}]
  /\ core \in [Axes -> Samples \cup {Junk}]
  /\ BufferOut \in {"zeros", "reference"}
  /\ txPending \subseteq {0}
  /\ rxb0 \in Frames \cup {NoCanFrame} /\ rxb1 \in Frames \cup {NoCanFrame}
  /\ replies \subseteq Frames /\ sample \in Samples

\* What the shield and the master get is one sample: never the x axis of one
\* and the y axis of another, and never an uninitialised variable, in
\* whatever order the frames come and the two receive buffers are read
\* ("These data come in random order, therefore arduino has to read buffer
\* for 4 times", main.cpp:141).
SampleCoherent ==
  \E b, c \in Samples : BufferIn = [a \in Axes |-> b] /\ core = [a \in Axes |-> c]

\* A cycle leaves nothing behind that the next one would take for its own
\* answer: no request, no frame on the bus or in a receive buffer.
NothingLeft ==
  pc \in {"idle", "free", "task", "publish"} =>
    txPending = {} /\ replies = {} /\ rxb0 = NoCanFrame /\ rxb1 = NoCanFrame

\* Between cycles the input buffer holds the last sample and the master's
\* image that one or the one before it.
AtMostOneBehind ==
  pc = "idle" => \A a \in Axes : BufferIn[a] = sample
                                 /\ (core[a] = sample \/ Next1(core[a]) = sample)

\* The master sees every sample, in order: its image moves from one sample to
\* the next one, never back and never over one.
EverySampleInOrder ==
  [][\A a \in Axes : core'[a] = core[a] \/ core'[a] = Next1(core[a])]_core

\* A cycle that has begun ends, so that the next timer interrupt can begin one.
CycleEnds == pc # "idle" ~> pc = "idle"
=============================================================================
