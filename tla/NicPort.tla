------------------------------ MODULE NicPort ------------------------------
(***************************************************************************)
(* The EtherCAT port driver of SOEM on Linux (oshw/linux/nicdrv.c) without *)
(* cable redundancy, driven by the blocking datagram primitives of         *)
(* soem/ethercatbase.c: several threads of the master each take a frame    *)
(* index, build a datagram in the transmit buffer of that index, send it,  *)
(* and poll the one socket of the port until the reply is in the receive   *)
(* buffer of the index or a timer expires.  Any thread may pull any        *)
(* thread's reply from the socket and files it under the frame's index.    *)
(*                                                                         *)
(* One action is one stretch of code between two points where another      *)
(* thread can interfere: rxbufstat is read and written without a lock,     *)
(* getindex_mutex guards only the search for an index and rx_mutex only    *)
(* the socket.  An operator whose name ends in _Wrong is a faulty variant  *)
(* of the definition after it, used to show that a property can fail.      *)
(***************************************************************************)
EXTENDS Integers, FiniteSets

CONSTANTS
  Threads,       \* threads that run transactions on the port
  MaxBuf,        \* EC_MAXBUF: number of frame indices
  MaxRequests,   \* bound: transactions each thread runs
  MaxSends,      \* bound: transmissions per transaction before the timeout
  LateFrames,    \* may a timer expire while the awaited reply is under way?
  SendFailures,  \* may send() return -1?
  None           \* no frame, no owner, no data

Slots    == 0 .. MaxBuf - 1
BufStat  == {"EMPTY", "ALLOC", "TX", "RCVD", "COMPLETE"}
\* The datagram a transaction sends: who asks, and its how-manieth request.
Requests == [thread : Threads, seq : 1 .. MaxRequests]
\* A reply as the receive buffer keeps it: the datagram and its workcounter.
Replies  == [req : Requests, wkc : {0, 1}]
\* A frame between send() and recv(): it returns with its index and datagram.
Frames   == [idx : Slots, req : Requests, try : 1 .. MaxSends]

ASSUME PortAssumption ==
  /\ IsFiniteSet(Threads)
  /\ MaxBuf \in Nat \ {0}
  /\ MaxRequests \in Nat
  /\ MaxSends \in Nat \ {0}
  /\ LateFrames \in BOOLEAN
  /\ SendFailures \in BOOLEAN
  /\ None \notin Threads

ASSUME NoneAssumption ==
  /\ None \notin Requests
  /\ None \notin Replies
  /\ None \notin Frames

EC_NOFRAME    == -1
EC_OTHERFRAME == -2

VARIABLES
  rxbufstat,       \* status of each index
  lastidx,         \* index handed out last
  txbuf, rxbuf,    \* transmit and receive buffer of each index
  getindex_mutex,  \* holder of the mutex of the index search
  rx_mutex,        \* holder of the mutex of the socket
  tempbuf,         \* frame read from the socket, to be filed under rx_mutex
  wire,            \* frames sent and not yet read: on the bus or in the socket
  pc, seq, idx, cnt, tries, wkc,   \* locals of each thread
  data             \* what the transaction copied out for its caller

search  == <<lastidx, getindex_mutex>>
socket  == <<rx_mutex, tempbuf, wire>>
buffers == <<rxbufstat, txbuf, rxbuf>>
request == <<seq, idx, cnt>>
vars    == <<search, socket, buffers, request, pc, tries, wkc, data>>

PC == {"idle", "scan", "setup", "mark", "send", "poll", "recv", "store",
       "check", "free"}

Goto(t, label) == pc' = [pc EXCEPT ![t] = label]
SetStat(s, stat) == rxbufstat' = [rxbufstat EXCEPT ![s] = stat]

Request(t) == [thread |-> t, seq |-> seq[t]]

\* The thread holds an index: from its allocation to setbufstat(EMPTY).
Owns(t) == pc[t] \notin {"idle", "scan"}

Init ==
  /\ rxbufstat = [s \in Slots |-> "EMPTY"]
  /\ lastidx = 0
  /\ txbuf = [s \in Slots |-> None]
  /\ rxbuf = [s \in Slots |-> None]
  /\ getindex_mutex = None
  /\ rx_mutex = None
  /\ tempbuf = None
  /\ wire = {}
  /\ pc    = [t \in Threads |-> "idle"]
  /\ seq   = [t \in Threads |-> 0]
  /\ idx   = [t \in Threads |-> 0]
  /\ cnt   = [t \in Threads |-> 0]
  /\ tries = [t \in Threads |-> 0]
  /\ wkc   = [t \in Threads |-> EC_NOFRAME]
  /\ data  = [t \in Threads |-> None]

-----------------------------------------------------------------------------
(* ecx_getindex: the search runs under getindex_mutex, but the statuses it *)
(* reads are changed by other threads meanwhile.                           *)

\* "index can't be larger than buffer array"
NextSlot(i) == IF i + 1 >= MaxBuf THEN 0 ELSE i + 1

\* Lock the mutex and start at the index after the last one handed out.
GetIndex(t) ==
  /\ pc[t] = "idle"
  /\ seq[t] < MaxRequests
  /\ getindex_mutex = None
  /\ getindex_mutex' = t
  /\ idx' = [idx EXCEPT ![t] = NextSlot(lastidx)]
  /\ cnt' = [cnt EXCEPT ![t] = 0]
  /\ seq' = [seq EXCEPT ![t] = @ + 1]
  /\ data' = [data EXCEPT ![t] = None]
  /\ Goto(t, "scan")
  /\ UNCHANGED <<lastidx, socket, buffers, tries, wkc>>

\* Wrong: only indices with a frame on the wire count as busy.
Busy_Wrong(t) == rxbufstat[idx[t]] = "TX" /\ cnt[t] < MaxBuf

\* The condition of the search loop.
Busy(t) == rxbufstat[idx[t]] # "EMPTY" /\ cnt[t] < MaxBuf

ScanNext(t) ==
  /\ pc[t] = "scan"
  /\ Busy(t)
  /\ idx' = [idx EXCEPT ![t] = NextSlot(@)]
  /\ cnt' = [cnt EXCEPT ![t] = @ + 1]
  /\ UNCHANGED <<search, socket, buffers, seq, pc, tries, wkc, data>>

\* The search stopped: at a free index, or at any after EC_MAXBUF busy ones.
TakeIndex(t) ==
  /\ pc[t] = "scan"
  /\ ~ Busy(t)
  /\ SetStat(idx[t], "ALLOC")
  /\ lastidx' = idx[t]
  /\ getindex_mutex' = None
  /\ Goto(t, "setup")
  /\ UNCHANGED <<socket, txbuf, rxbuf, request, tries, wkc, data>>

\* ecx_setupdatagram: the request into the transmit buffer of the index.
SetupDatagram(t) ==
  /\ pc[t] = "setup"
  /\ txbuf' = [txbuf EXCEPT ![idx[t]] = Request(t)]
  /\ tries' = [tries EXCEPT ![t] = 1]
  /\ Goto(t, "mark")
  /\ UNCHANGED <<search, socket, rxbufstat, rxbuf, request, wkc, data>>

-----------------------------------------------------------------------------
(* ecx_outframe: the status becomes TX before the frame is sent.           *)

MarkTx(t) ==
  /\ pc[t] = "mark"
  /\ SetStat(idx[t], "TX")
  /\ Goto(t, "send")
  /\ UNCHANGED <<search, socket, txbuf, rxbuf, request, tries, wkc, data>>

Send(t) ==
  /\ pc[t] = "send"
  /\ wire' = wire \union
       {[idx |-> idx[t], req |-> txbuf[idx[t]], try |-> tries[t]]}
  /\ Goto(t, "poll")
  /\ UNCHANGED <<search, rx_mutex, tempbuf, buffers, request, tries, wkc, data>>

\* send() returned -1: the index is marked free although its owner, which
\* ignores the result, goes on to wait for a reply.
SendFails(t) ==
  /\ SendFailures
  /\ pc[t] = "send"
  /\ SetStat(idx[t], "EMPTY")
  /\ Goto(t, "poll")
  /\ UNCHANGED <<search, socket, txbuf, rxbuf, request, tries, wkc, data>>

\* The segment, the cable or the NIC drops a frame.
LoseFrame ==
  /\ \E f \in wire : wire' = wire \ {f}
  /\ UNCHANGED <<search, rx_mutex, tempbuf, buffers, request, pc, tries, wkc,
                 data>>

-----------------------------------------------------------------------------
(* ecx_inframe: first the buffer, where another thread may have filed the  *)
(* reply, then the socket.                                                 *)

PollHit(t) ==
  /\ pc[t] = "poll"
  /\ rxbufstat[idx[t]] = "RCVD"
  /\ wkc' = [wkc EXCEPT ![t] = rxbuf[idx[t]].wkc]
  /\ SetStat(idx[t], "COMPLETE")
  /\ Goto(t, "check")
  /\ UNCHANGED <<search, socket, txbuf, rxbuf, request, tries, data>>

PollMiss(t) ==
  /\ pc[t] = "poll"
  /\ rxbufstat[idx[t]] # "RCVD"
  /\ Goto(t, "recv")
  /\ UNCHANGED <<search, socket, buffers, request, tries, wkc, data>>

\* recv() has nothing: frames on the wire are not in the socket yet.
RecvNothing(t) ==
  /\ pc[t] = "recv"
  /\ rx_mutex = None
  /\ wkc' = [wkc EXCEPT ![t] = EC_NOFRAME]
  /\ Goto(t, "check")
  /\ UNCHANGED <<search, socket, buffers, request, tries, data>>

\* Wrong: whatever arrives is taken for the reply awaited.
Matches_Wrong(f, t) == TRUE

\* "found index equals requested index ?"
Matches(f, t) == f.idx = idx[t]

RecvOwn(t) ==
  /\ pc[t] = "recv"
  /\ rx_mutex = None
  /\ \E f \in wire, w \in {0, 1} :
       /\ Matches(f, t)
       /\ wire' = wire \ {f}
       /\ rxbuf' = [rxbuf EXCEPT ![idx[t]] = [req |-> f.req, wkc |-> w]]
       /\ wkc' = [wkc EXCEPT ![t] = w]
  /\ SetStat(idx[t], "COMPLETE")
  /\ Goto(t, "check")
  /\ UNCHANGED <<search, rx_mutex, tempbuf, txbuf, request, tries, data>>

\* Another index, and somebody waits for it: rx_mutex stays locked while the
\* frame is filed, which does not keep the owner from releasing the index.
RecvOther(t) ==
  /\ pc[t] = "recv"
  /\ rx_mutex = None
  /\ \E f \in wire :
       /\ ~ Matches(f, t)
       /\ rxbufstat[f.idx] = "TX"
       /\ wire' = wire \ {f}
       /\ tempbuf' = f
  /\ rx_mutex' = t
  /\ wkc' = [wkc EXCEPT ![t] = EC_OTHERFRAME]
  /\ Goto(t, "store")
  /\ UNCHANGED <<search, buffers, request, tries, data>>

\* Wrong: the mutex is not unlocked after a frame of another thread.
StoreOther_Wrong(t) ==
  /\ pc[t] = "store"
  /\ rxbuf' = [rxbuf EXCEPT ![tempbuf.idx] = [req |-> tempbuf.req, wkc |-> 1]]
  /\ SetStat(tempbuf.idx, "RCVD")
  /\ Goto(t, "check")
  /\ UNCHANGED <<search, socket, txbuf, request, tries, wkc, data>>

StoreOther(t) ==
  /\ pc[t] = "store"
  /\ \E w \in {0, 1} :
       rxbuf' = [rxbuf EXCEPT ![tempbuf.idx] = [req |-> tempbuf.req, wkc |-> w]]
  /\ SetStat(tempbuf.idx, "RCVD")
  /\ tempbuf' = None
  /\ rx_mutex' = None
  /\ Goto(t, "check")
  /\ UNCHANGED <<search, txbuf, wire, request, tries, wkc, data>>

\* Another index, and nobody waits for it: the frame is dropped.
RecvStray(t) ==
  /\ pc[t] = "recv"
  /\ rx_mutex = None
  /\ \E f \in wire :
       /\ ~ Matches(f, t)
       /\ rxbufstat[f.idx] # "TX"
       /\ wire' = wire \ {f}
  /\ wkc' = [wkc EXCEPT ![t] = EC_OTHERFRAME]
  /\ Goto(t, "check")
  /\ UNCHANGED <<search, rx_mutex, tempbuf, buffers, request, tries, data>>

-----------------------------------------------------------------------------
(* ecx_waitinframe_red and ecx_srconfirm: poll until a reply or until the  *)
(* short timer expires, and send again until the long one does.            *)

Replied(t) == wkc[t] > EC_NOFRAME

PollAgain(t) ==
  /\ pc[t] = "check"
  /\ ~ Replied(t)
  /\ Goto(t, "poll")
  /\ UNCHANGED <<search, socket, buffers, request, tries, wkc, data>>

\* A frame of thread t that has not reached a receive buffer.
UnderWay(t) ==
  \/ \E f \in wire : f.req.thread = t
  \/ tempbuf # None /\ tempbuf.req.thread = t

\* Without LateFrames the timeouts exceed the round trip of a frame: a timer
\* expires only when the frame it waits for was lost or filed.
TimerExpires(t) == LateFrames \/ ~ UnderWay(t)

Resend(t) ==
  /\ pc[t] = "check"
  /\ ~ Replied(t)
  /\ TimerExpires(t)
  /\ tries[t] < MaxSends
  /\ tries' = [tries EXCEPT ![t] = @ + 1]
  /\ Goto(t, "mark")
  /\ UNCHANGED <<search, socket, buffers, request, wkc, data>>

\* Wrong: the primitive returns early and keeps its index.
GiveUp_Wrong(t) ==
  /\ pc[t] = "check"
  /\ ~ Replied(t)
  /\ TimerExpires(t)
  /\ Goto(t, "idle")
  /\ UNCHANGED <<search, socket, buffers, request, tries, wkc, data>>

GiveUp(t) ==
  /\ pc[t] = "check"
  /\ ~ Replied(t)
  /\ TimerExpires(t)
  /\ Goto(t, "free")
  /\ UNCHANGED <<search, socket, buffers, request, tries, wkc, data>>

\* The primitive copies the reply out of the buffer if a slave worked on it.
CopyData(t) ==
  /\ pc[t] = "check"
  /\ Replied(t)
  /\ data' = [data EXCEPT ![t] = IF wkc[t] > 0 THEN rxbuf[idx[t]].req ELSE @]
  /\ Goto(t, "free")
  /\ UNCHANGED <<search, socket, buffers, request, tries, wkc>>

\* ecx_setbufstat(EC_BUF_EMPTY), the last call of every primitive.
Release(t) ==
  /\ pc[t] = "free"
  /\ SetStat(idx[t], "EMPTY")
  /\ Goto(t, "idle")
  /\ UNCHANGED <<search, socket, txbuf, rxbuf, request, tries, wkc, data>>

-----------------------------------------------------------------------------
Allocate(t) == GetIndex(t) \/ ScanNext(t) \/ TakeIndex(t)
Transmit(t) == SetupDatagram(t) \/ MarkTx(t) \/ Send(t) \/ SendFails(t)
InFrame(t)  == \/ PollHit(t) \/ PollMiss(t) \/ RecvNothing(t) \/ RecvOwn(t)
               \/ RecvOther(t) \/ StoreOther(t) \/ RecvStray(t)
Conclude(t) == \/ PollAgain(t) \/ Resend(t) \/ GiveUp(t)
               \/ CopyData(t) \/ Release(t)

Step(t) == Allocate(t) \/ Transmit(t) \/ InFrame(t) \/ Conclude(t)

\* Every thread has run its transactions (the bound MaxRequests).
Rest ==
  /\ \A t \in Threads : pc[t] = "idle" /\ seq[t] = MaxRequests
  /\ UNCHANGED vars

Next == (\E t \in Threads : Step(t)) \/ LoseFrame \/ Rest

Spec == Init /\ [][Next]_vars

\* Every runnable thread is scheduled again, and time passes: a thread that
\* keeps polling finds its timers expired in the end.
Fairness ==
  \A t \in Threads : WF_vars(Step(t)) /\ SF_vars(GiveUp(t))

FairSpec == Spec /\ Fairness

-----------------------------------------------------------------------------
(* Properties                                                              *)

\* Every variable has its type.
TypeOK ==
  /\ rxbufstat \in [Slots -> BufStat]
  /\ lastidx \in Slots
  /\ txbuf \in [Slots -> Requests \union {None}]
  /\ rxbuf \in [Slots -> Replies \union {None}]
  /\ getindex_mutex \in Threads \union {None}
  /\ rx_mutex \in Threads \union {None}
  /\ tempbuf \in Frames \union {None}
  /\ wire \in SUBSET Frames
  /\ pc \in [Threads -> PC]
  /\ seq \in [Threads -> 0 .. MaxRequests]
  /\ idx \in [Threads -> Slots]
  /\ cnt \in [Threads -> 0 .. MaxBuf]
  /\ tries \in [Threads -> 0 .. MaxSends]
  /\ wkc \in [Threads -> {EC_OTHERFRAME, EC_NOFRAME, 0, 1}]
  /\ data \in [Threads -> Requests \union {None}]

\* ecx_getindex returns a new index: no two threads in a transaction ever
\* share one, whatever the order of searches, replies and releases.
IndexExclusive ==
  \A t, u \in Threads : t # u /\ Owns(t) /\ Owns(u) => idx[t] # idx[u]

\* A primitive hands its caller the reply to the caller's own datagram: the
\* buffer it copies from was not filled or refilled with another's reply.
AnswerIsOwn ==
  \A t \in Threads : data[t] # None => data[t] = Request(t)

\* The call that sent request r is over.
Over(r) == r.seq < seq[r.thread] \/ ~ Owns(r.thread)

Unowned(s) == \A t \in Threads : Owns(t) => idx[t] # s

\* An index nobody holds is free to be found again, but for one race: a reply
\* may be filed after its index was released, between the status test and the
\* copy (nicdrv.c:431), and the index then stays RCVD.  Only a reply to a call
\* that is over is ever left behind so, whatever comes late or is sent in vain,
\* and although late replies and threads in excess make several share an index.
IndexLostOnlyLate ==
  \A s \in Slots : Unowned(s) =>
    \/ rxbufstat[s] = "EMPTY"
    \/ rxbufstat[s] = "RCVD" /\ Over(rxbuf[s].req)

\* ecx_inframe keeps the frame of another only while somebody has its index
\* ("check if index exist and someone is waiting for it", nicdrv.c:430); and what
\* is filed is filed where the call that asked for it looks, or that call is over
\* by then: it may end between the test and the copy.
FiledForCaller ==
  [][\A t \in Threads :
       /\ RecvOther(t) => ~ Unowned(tempbuf'.idx)
       /\ StoreOther(t) =>
            Over(tempbuf.req) \/ idx[tempbuf.req.thread] = tempbuf.idx]_vars

\* A blocking primitive returns, whatever is lost and whoever takes its reply.
TransactionEnds ==
  \A t \in Threads : pc[t] # "idle" ~> pc[t] = "idle"

\* The port as its callers see it.
Calls == INSTANCE Transactions WITH
  phase  <- [t \in Threads |-> IF pc[t] = "idle" THEN "idle"
                               ELSE IF pc[t] = "free" THEN "done" ELSE "asking"],
  asked  <- seq,
  answer <- data

\* The port implements the promise of the primitives: however the threads'
\* frames are interleaved, lost and filed, each call ends once, with the reply
\* to its own datagram or with nothing.
CallsAnswered == Calls!Spec
=============================================================================
