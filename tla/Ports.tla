------------------------------- MODULE Ports -------------------------------
(***************************************************************************)
(* The port drivers of the other systems, each keeping the same promise to *)
(* the datagram primitives:                                                *)
(*   win32, macosx, rtems, rtk   the design of NicPort, over pcap, /dev/bpf *)
(*            or an Ethernet controller;                                   *)
(*   erika    one lock for the search and for the socket, under which      *)
(*            ecx_inframe reads on past frames that nobody waits for;      *)
(*   intime   the transmitter may stay busy, and ecx_srconfirm sends once; *)
(*   vxworks  the network task puts each frame in the message queue of its *)
(*            index, and the caller waits at that queue.                   *)
(* The ports share their data structures.  A step is a stretch of code     *)
(* between two points where another thread can interfere; the network of   *)
(* NicPort, without redundancy, in which some slave works on each frame.   *)
(***************************************************************************)
EXTENDS Integers, Sequences, FiniteSetsExt, Functions

CONSTANTS
  Systems,       \* the ports to look at
  Threads,       \* threads that run transactions
  MaxBuf,        \* EC_MAXBUF
  MaxCalls,      \* bound: transactions of all threads
  Briefly,       \* the ports that run one transaction less
  MaxSends,      \* bound: transmissions before the timeout
  MaxMishaps,    \* bound: frames lost, frames of others that come in
  None           \* no frame, nobody

Slots == 0 .. MaxBuf - 1

ASSUME PortsAssumption ==
  /\ Systems \subseteq {"win32", "macosx", "rtems", "rtk", "erika", "intime", "vxworks"}
  /\ IsFiniteSet(Threads)
  /\ None \notin Threads \union Slots
  /\ None \notin [idx : Slots, req : [thread : Threads, seq : Nat], try : Nat]
  /\ Briefly \subseteq Systems
  /\ MaxBuf \in Nat \ {0} /\ MaxSends \in Nat \ {0}
  /\ MaxCalls \in Nat /\ MaxMishaps \in Nat

VARIABLES
  system,
  rxbufstat, lastidx, txbuf, rxbuf,
  msgQ,          \* vxworks: the queue of each index, which holds one frame
  wire,          \* frames under way or in the socket
  hand,          \* the frame that is being filed
  lock,          \* the thread that holds the port's lock
  mishaps,
  pc, seq, idx, tries, data,  \* of each thread
  got            \* the thread's wkc > EC_NOFRAME

shared == <<rxbufstat, lastidx, txbuf, rxbuf, msgQ>>
net    == <<wire, hand, lock, mishaps>>
local  == <<seq, idx, tries, got, data>>
portVars == <<system, shared, net, pc, local>>

Goto(t, label) == pc' = [pc EXCEPT ![t] = label]
SetStat(s, stat) == rxbufstat' = [rxbufstat EXCEPT ![s] = stat]
Request(t) == [thread |-> t, seq |-> seq[t]]

\* ecx_setupnic: every index free, no frame under way.
Opened ==
  /\ rxbufstat = [s \in Slots |-> "EMPTY"] /\ lastidx = 0
  /\ txbuf = [s \in Slots |-> None] /\ rxbuf = [s \in Slots |-> None]
  /\ msgQ = [s \in Slots |-> << >>]
  /\ wire = {} /\ hand = None /\ lock = None /\ mishaps = 0
  /\ pc = [t \in Threads |-> "idle"] /\ seq = [t \in Threads |-> 0]
  /\ idx = [t \in Threads |-> 0] /\ tries = [t \in Threads |-> 0]
  /\ got = [t \in Threads |-> FALSE] /\ data = [t \in Threads |-> None]

WinSetup == system = "win32" /\ Opened
MacSetup == system = "macosx" /\ Opened
RtemsSetup == system = "rtems" /\ Opened
RtkSetup == system = "rtk" /\ Opened
ErikaSetup == system = "erika" /\ Opened
InTimeSetup == system = "intime" /\ Opened
VxSetup == system = "vxworks" /\ Opened

PortInit ==
  /\ system \in Systems
  /\ \/ WinSetup \/ MacSetup \/ RtemsSetup \/ RtkSetup
     \/ ErikaSetup \/ InTimeSetup \/ VxSetup

-----------------------------------------------------------------------------
(* ecx_getindex, under a lock in each port, with what the primitive does    *)
(* with the index: the datagram into its transmit buffer.                   *)

\* The search stops at the first free index, or where it began.
Found ==
  LET After(k) == (lastidx + k) % MaxBuf
      free == {k \in 1 .. MaxBuf : rxbufstat[After(k)] = "EMPTY"}
  IN  After(IF free = {} THEN 1 ELSE Min(free))

Made == FoldFunction(+, 0, seq)
Bound == IF system \in Briefly THEN MaxCalls - 1 ELSE MaxCalls

Allocate(t) ==
  /\ pc[t] = "idle" /\ Made < Bound
  /\ SetStat(Found, "ALLOC") /\ lastidx' = Found
  /\ idx' = [idx EXCEPT ![t] = Found]
  /\ seq' = [seq EXCEPT ![t] = @ + 1] /\ tries' = [tries EXCEPT ![t] = 0]
  /\ data' = [data EXCEPT ![t] = None] /\ got' = [got EXCEPT ![t] = FALSE]
  /\ txbuf' = [txbuf EXCEPT ![Found] = [thread |-> t, seq |-> seq[t] + 1]]
  /\ Goto(t, "out")
  /\ UNCHANGED <<system, rxbuf, msgQ, net>>

WinGetIndex(t) == system = "win32" /\ Allocate(t)
MacGetIndex(t) == system = "macosx" /\ Allocate(t)
RtemsGetIndex(t) == system = "rtems" /\ Allocate(t)
RtkGetIndex(t) == system = "rtk" /\ Allocate(t)
\* The lock of the search is also that of the socket.
ErikaGetIndex(t) == system = "erika" /\ lock = None /\ Allocate(t)
InTimeGetIndex(t) == system = "intime" /\ Allocate(t)
VxGetIndex(t) == system = "vxworks" /\ Allocate(t)

-----------------------------------------------------------------------------
(* ecx_outframe                                                             *)

Frame(t) == [idx |-> idx[t], req |-> txbuf[idx[t]], try |-> tries[t] + 1]

Sent(t) ==
  /\ wire' = wire \union {Frame(t)}
  /\ tries' = [tries EXCEPT ![t] = @ + 1]
  /\ Goto(t, "in")
  /\ UNCHANGED <<system, lastidx, txbuf, rxbuf, hand, lock, mishaps, seq, idx, got, data>>

Outframe(t, S) ==
  /\ system = S /\ pc[t] = "out"
  /\ SetStat(idx[t], "TX") /\ Sent(t) /\ UNCHANGED msgQ

\* Where the interface reports an error the status becomes EMPTY, as in
\* NicPort's SendFails, which is not repeated here.
WinOutframe(t) == Outframe(t, "win32")
MacOutframe(t) == Outframe(t, "macosx")
RtemsOutframe(t) == Outframe(t, "rtems")
\* Here nothing is said of failure.
RtkOutframe(t) == Outframe(t, "rtk")
ErikaOutframe(t) == Outframe(t, "erika")
InTimeOutframe(t) == Outframe(t, "intime")

\* The transmitter stays busy, or does not take the buffer: the caller, who
\* ignores the result, waits for a frame that was not sent.
InTimeBusy(t) ==
  /\ system = "intime" /\ pc[t] = "out"
  /\ tries' = [tries EXCEPT ![t] = @ + 1] /\ Goto(t, "in")
  /\ UNCHANGED <<system, shared, net, seq, idx, got, data>>

\* Wrong: an abandoned frame stays in the queue.
Abandon_Wrong(q) == q

\* "Clean up any abandoned frames and re-use the allocated buffer"
Abandon(q) == << >>

VxOutframe(t) ==
  /\ system = "vxworks" /\ pc[t] = "out"
  /\ SetStat(idx[t], "TX")
  /\ msgQ' = [msgQ EXCEPT ![idx[t]] = Abandon(@)]
  /\ Sent(t)

Foreign == [idx |-> None, req |-> [thread |-> None, seq |-> 0], try |-> 0]

LoseFrame ==
  /\ mishaps < MaxMishaps /\ mishaps' = mishaps + 1
  /\ \E f \in wire \ {Foreign} : wire' = wire \ {f}
  /\ UNCHANGED <<system, shared, hand, lock, pc, local>>

\* A frame of another protocol comes in.
ForeignFrame ==
  /\ mishaps < MaxMishaps /\ mishaps' = mishaps + 1
  /\ wire' = wire \union {Foreign}
  /\ UNCHANGED <<system, shared, hand, lock, pc, local>>

-----------------------------------------------------------------------------
(* ecx_inframe but for vxworks: the buffer, then the socket.                *)

Polls(t, S) == system = S /\ pc[t] = "in"

BufferHit(t) ==
  /\ rxbufstat[idx[t]] = "RCVD"
  /\ got' = [got EXCEPT ![t] = TRUE]
  /\ SetStat(idx[t], "COMPLETE") /\ Goto(t, "check")
  /\ UNCHANGED <<system, lastidx, txbuf, rxbuf, msgQ, net, seq, idx, tries, data>>

\* A read of /dev/bpf gives what has come by then, of which rtems looks at the
\* first frame.
Left(f) == IF system = "rtems" THEN SUBSET (wire \ {f}) ELSE {wire \ {f}}

\* "yes, put it in the buffer array"
TakeOwn(t) ==
  /\ \E f \in wire :
       /\ f.idx = idx[t] /\ wire' \in Left(f)
       /\ rxbuf' = [rxbuf EXCEPT ![idx[t]] = f.req]
  /\ got' = [got EXCEPT ![t] = TRUE]
  /\ SetStat(idx[t], "COMPLETE") /\ lock' = None /\ Goto(t, "check")
  /\ UNCHANGED <<system, lastidx, txbuf, msgQ, hand, mishaps, seq, idx, tries, data>>

Awaited(f) == f # Foreign /\ rxbufstat[f.idx] = "TX"

\* "check if index exist and someone is waiting for it": from here to the
\* copy the lock is held, which does not stop the owner of the index.
TakeOther(t) ==
  /\ \E f \in wire :
       /\ f.idx # idx[t] /\ Awaited(f)
       /\ wire' \in Left(f) /\ hand' = f
  /\ lock' = t /\ Goto(t, "store")
  /\ UNCHANGED <<system, shared, mishaps, local>>

Stray(t, f) == f.idx # idx[t] /\ ~ Awaited(f)

StoreOther(t) ==
  /\ pc[t] = "store"
  /\ rxbuf' = [rxbuf EXCEPT ![hand.idx] = hand.req]
  /\ SetStat(hand.idx, "RCVD")
  /\ hand' = None /\ lock' = None /\ Goto(t, "check")
  /\ UNCHANGED <<system, lastidx, txbuf, msgQ, wire, mishaps, local>>

NothingRead(t) ==
  /\ lock' = None /\ Goto(t, "check")
  /\ UNCHANGED <<system, shared, wire, hand, mishaps, local>>

\* The lock is taken before the first frame and kept while the loop reads on.
ErikaEnter(t) ==
  /\ Polls(t, "erika") /\ rxbufstat[idx[t]] # "RCVD"
  /\ lock = None /\ lock' = t /\ Goto(t, "recv")
  /\ UNCHANGED <<system, shared, wire, hand, mishaps, local>>

ErikaStray(t) ==
  /\ \E f \in wire : Stray(t, f) /\ wire' = wire \ {f}
  /\ UNCHANGED <<system, shared, hand, lock, mishaps, pc, local>>

ErikaInframe(t) ==
  \/ Polls(t, "erika") /\ BufferHit(t)
  \/ ErikaEnter(t)
  \/ /\ system = "erika" /\ pc[t] = "recv"
     /\ TakeOwn(t) \/ TakeOther(t) \/ ErikaStray(t) \/ NothingRead(t)
  \/ system = "erika" /\ StoreOther(t)

\* The others read one frame in a call.  macosx asserts that it is no stray
\* EtherCAT frame, and ends the program.
DropStray(t) ==
  /\ \E f \in wire :
       /\ Stray(t, f) /\ wire' \in Left(f)
       /\ IF system = "macosx" /\ f # Foreign
          THEN pc' = [u \in Threads |-> "aborted"] ELSE Goto(t, "check")
  /\ UNCHANGED <<system, shared, hand, lock, mishaps, local>>

OneFrame(t, S) ==
  \/ Polls(t, S) /\ BufferHit(t)
  \/ /\ Polls(t, S) /\ rxbufstat[idx[t]] # "RCVD" /\ lock = None
     /\ TakeOwn(t) \/ TakeOther(t) \/ DropStray(t) \/ NothingRead(t)
  \/ system = S /\ StoreOther(t)

WinInframe(t) == OneFrame(t, "win32")
MacInframe(t) == OneFrame(t, "macosx")
RtemsInframe(t) == OneFrame(t, "rtems")
RtkInframe(t) == OneFrame(t, "rtk")
InTimeInframe(t) == OneFrame(t, "intime")

-----------------------------------------------------------------------------
(* VxWorks: the network task and the caller.                                *)

\* mux_rx_callback: the status is read, then the frame posted.
VxCallback ==
  /\ system = "vxworks" /\ hand = None
  /\ \E f \in wire :
       /\ wire' = wire \ {f}
       /\ hand' = IF Awaited(f) THEN f ELSE None
  /\ UNCHANGED <<system, shared, lock, mishaps, pc, local>>

\* "We want the latest received frame in the buffer"
VxPost ==
  /\ system = "vxworks" /\ hand # None /\ hand' = None
  /\ msgQ' = [msgQ EXCEPT ![hand.idx] = << hand >>]
  /\ UNCHANGED <<system, rxbufstat, lastidx, txbuf, rxbuf, wire, lock, mishaps, pc, local>>

\* "fetch the frame reference and copies the frame the the RX buffer"
VxInframe(t) ==
  /\ Polls(t, "vxworks") /\ msgQ[idx[t]] # << >>
  /\ rxbuf' = [rxbuf EXCEPT ![idx[t]] = Head(msgQ[idx[t]]).req]
  /\ got' = [got EXCEPT ![t] = TRUE]
  /\ msgQ' = [msgQ EXCEPT ![idx[t]] = << >>]
  /\ SetStat(idx[t], "COMPLETE") /\ Goto(t, "check")
  /\ UNCHANGED <<system, lastidx, txbuf, net, seq, idx, tries, data>>

\* The wait at the queue ends by its own timeout.
VxTimeout(t) ==
  /\ Polls(t, "vxworks") /\ msgQ[idx[t]] = << >>
  /\ Goto(t, "check")
  /\ UNCHANGED <<system, shared, net, local>>

-----------------------------------------------------------------------------
(* ecx_waitinframe_red, ecx_srconfirm and the rest of the primitive.        *)

\* The timeouts exceed the round trip of a frame.
UnderWay(t) == \E f \in wire \union ({hand} \ {None}) : f.req.thread = t

Again(t, where) ==
  /\ pc[t] = "check" /\ ~ got[t] /\ Goto(t, where)
  /\ UNCHANGED <<system, shared, net, local>>

PollAgain(t) == Again(t, "in")

Resend(t, S) ==
  system = S /\ ~ UnderWay(t) /\ tries[t] < MaxSends /\ Again(t, "out")

WinResend(t) == Resend(t, "win32")
MacResend(t) == Resend(t, "macosx")
RtemsResend(t) == Resend(t, "rtems")
RtkResend(t) == Resend(t, "rtk")
ErikaResend(t) == Resend(t, "erika")
VxResend(t) == Resend(t, "vxworks")

\* Wrong: ends after the last transmission instead of by time.
GiveUp_Wrong(t) == ~ UnderWay(t) /\ tries[t] = MaxSends /\ Again(t, "free")

GiveUp(t) == ~ UnderWay(t) /\ Again(t, "free")

CopyData(t) ==
  /\ pc[t] = "check" /\ got[t] /\ Goto(t, "free")
  /\ data' = [data EXCEPT ![t] = rxbuf[idx[t]]]
  /\ UNCHANGED <<system, shared, net, seq, idx, tries, got>>

Release(t) ==
  /\ pc[t] = "free" /\ SetStat(idx[t], "EMPTY") /\ Goto(t, "idle")
  /\ UNCHANGED <<system, lastidx, txbuf, rxbuf, msgQ, net, local>>

WinStep(t) == WinGetIndex(t) \/ WinOutframe(t) \/ WinInframe(t) \/ WinResend(t)
MacStep(t) == MacGetIndex(t) \/ MacOutframe(t) \/ MacInframe(t) \/ MacResend(t)
RtemsStep(t) == \/ RtemsGetIndex(t) \/ RtemsOutframe(t) \/ RtemsInframe(t)
                \/ RtemsResend(t)
RtkStep(t) == RtkGetIndex(t) \/ RtkOutframe(t) \/ RtkInframe(t) \/ RtkResend(t)
ErikaStep(t) == ErikaGetIndex(t) \/ ErikaOutframe(t) \/ ErikaInframe(t) \/ ErikaResend(t)
InTimeStep(t) == \/ InTimeGetIndex(t) \/ InTimeOutframe(t) \/ InTimeBusy(t)
                 \/ InTimeInframe(t)
VxStep(t) == VxGetIndex(t) \/ VxOutframe(t) \/ VxInframe(t) \/ VxTimeout(t) \/ VxResend(t)
Conclude(t) == PollAgain(t) \/ GiveUp(t) \/ CopyData(t) \/ Release(t)
Step(t) == \/ WinStep(t) \/ MacStep(t) \/ RtemsStep(t) \/ RtkStep(t)
           \/ ErikaStep(t) \/ InTimeStep(t) \/ VxStep(t) \/ Conclude(t)
NetworkTask == VxCallback \/ VxPost

Rest == (\A t \in Threads : pc[t] = "idle") /\ Made = Bound /\ UNCHANGED portVars

PortNext == (\E t \in Threads : Step(t)) \/ NetworkTask
            \/ LoseFrame \/ ForeignFrame \/ Rest

PortSpec == PortInit /\ [][PortNext]_portVars

\* A frame is read from the socket.
Reads(t) ==
  /\ \/ pc[t] = "in" /\ system \notin {"erika", "vxworks"}
        /\ rxbufstat[idx[t]] # "RCVD" /\ lock = None
     \/ system = "erika" /\ pc[t] = "recv"
  /\ TakeOwn(t) \/ TakeOther(t)
-----------------------------------------------------------------------------
(* Properties                                                               *)

TypeOK ==
  /\ system \in Systems /\ lastidx \in Slots
  /\ rxbufstat \in [Slots -> {"EMPTY", "ALLOC", "TX", "RCVD", "COMPLETE"}]
  /\ \A s \in Slots : Len(msgQ[s]) <= 1
  /\ pc \in [Threads -> {"idle", "out", "in", "recv", "store", "check", "free", "aborted"}]
  /\ \A t \in Threads : seq[t] <= MaxCalls /\ tries[t] <= MaxSends

Calls == INSTANCE Transactions WITH
  phase  <- [t \in Threads |-> IF pc[t] = "idle" THEN "idle"
                               ELSE IF pc[t] = "free" THEN "done" ELSE "asking"],
  asked  <- seq,
  answer <- data

\* Each of the ports, as different as their locks and queues are, implements
\* the promise of the primitives: a call ends once, with the reply to its own
\* datagram or with nothing, however the threads, the network task and lost
\* frames are interleaved.
PortsKeepPromise == Calls!Spec

\* And a call ends: no lock is kept and no reply missed for ever, whoever
\* reads it from the socket, and the assertion of macosx never fails.
PortCallEnds == \A t \in Threads : pc[t] # "idle" ~> pc[t] = "idle"
=============================================================================
