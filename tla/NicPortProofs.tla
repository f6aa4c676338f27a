--------------------------- MODULE NicPortProofs ---------------------------
(***************************************************************************)
(* Proofs about NicPort for every number of threads, indices, requests and *)
(* retransmissions.  Whatever comes late and whatever cannot be sent: the  *)
(* types, and where a reply can end up and an index be lost.  When the     *)
(* timeouts exceed the round trip, send() succeeds and there are no more   *)
(* threads than indices: that indices are exclusive and every answer is    *)
(* the caller's.                                                           *)
(***************************************************************************)
EXTENDS NicPort, FiniteSetTheorems, TLAPS

Waiting == {"poll", "recv", "store", "check"}

\* What the types rest on: buffers are filled before they are read, and the
\* two mutexes are held exactly around the code they guard.
Filled ==
  /\ \A t \in Threads : pc[t] = "scan" <=> getindex_mutex = t
  /\ \A t \in Threads : pc[t] = "store" <=> rx_mutex = t
  /\ rx_mutex = None <=> tempbuf = None
  /\ \A s \in Slots : rxbufstat[s] \in {"RCVD", "COMPLETE"} => rxbuf[s] # None
  /\ \A t \in Threads : pc[t] = "store" => wkc[t] = EC_OTHERFRAME
  /\ \A t \in Threads : pc[t] # "idle" => seq[t] > 0
  /\ \A t \in Threads : pc[t] \in {"mark", "send"} \union Waiting =>
       txbuf[idx[t]] # None /\ tries[t] > 0
  /\ \A t \in Threads : pc[t] = "check" /\ Replied(t) => rxbuf[idx[t]] # None

TypeInv == TypeOK /\ Filled

-----------------------------------------------------------------------------
\* The environment in which the driver keeps its promises.
Prompt == LateFrames = FALSE /\ SendFailures = FALSE
Roomy  == Cardinality(Threads) <= MaxBuf

\* The buffers of an index hold its owner's request and reply, and what the
\* owner copied out is its own.
Private(t) ==
  /\ pc[t] \in {"mark", "send"} \union Waiting => txbuf[idx[t]] = Request(t)
  /\ pc[t] = "send" => rxbufstat[idx[t]] = "TX"
  /\ Owns(t) /\ rxbufstat[idx[t]] = "RCVD" => rxbuf[idx[t]].req = Request(t)
  /\ pc[t] = "check" /\ Replied(t) =>
       rxbufstat[idx[t]] = "COMPLETE" /\ rxbuf[idx[t]].req = Request(t)
  /\ data[t] # None => data[t] = Request(t)

\* Frame f under way answers the present request of thread t, which waits for
\* it on the frame's index.
AwaitedBy(f, t) ==
  /\ pc[t] \in Waiting
  /\ f.idx = idx[t]
  /\ f.req = Request(t)
  /\ rxbufstat[idx[t]] = "TX"
  /\ pc[t] = "check" => ~ Replied(t)

\* Every frame under way is awaited, and a thread has at most one of them.
FramesAwaited ==
  /\ \A f \in wire : AwaitedBy(f, f.req.thread)
  /\ \A f, g \in wire : f.req.thread = g.req.thread => f = g
  /\ tempbuf # None =>
       /\ AwaitedBy(tempbuf, tempbuf.req.thread)
       /\ \A f \in wire : f.req.thread # tempbuf.req.thread
  /\ \A t \in Threads : pc[t] = "store" => tempbuf.idx # idx[t]

\* How many indices after i the index s comes in the search.
Distance(i, s) == IF s >= i THEN s - i ELSE s - i + MaxBuf

\* A search always has a free index ahead of it.
FreeAhead ==
  \A t \in Threads : pc[t] = "scan" =>
    \E s \in Slots : /\ rxbufstat[s] = "EMPTY"
                     /\ Distance(idx[t], s) < MaxBuf - cnt[t]

\* An index is in use while a thread owns it, and only then.
OnlyInUse ==
  \A s \in Slots :
    (\A t \in Threads : Owns(t) => idx[t] # s) => rxbufstat[s] = "EMPTY"
OwnedInUse == \A t \in Threads : Owns(t) => rxbufstat[idx[t]] # "EMPTY"

SlotInv == IndexExclusive /\ OnlyInUse /\ OwnedInUse /\ FreeAhead
PortInv == SlotInv /\ FramesAwaited /\ \A t \in Threads : Private(t)

\* What a step of another thread leaves alone of thread t and its index.
Undisturbed(t) ==
  /\ pc'[t] = pc[t] /\ idx'[t] = idx[t] /\ cnt'[t] = cnt[t]
  /\ seq'[t] = seq[t] /\ wkc'[t] = wkc[t] /\ data'[t] = data[t]
  /\ Owns(t) => /\ rxbufstat'[idx[t]] = rxbufstat[idx[t]]
                /\ txbuf'[idx[t]] = txbuf[idx[t]]
                /\ rxbuf'[idx[t]] = rxbuf[idx[t]]

-----------------------------------------------------------------------------
\* Every action of the specification keeps the types, and the buffers stay
\* filled before they are read.
LEMMA TypeInvStep ==
  ASSUME TypeInv, [Next]_vars
  PROVE  TypeInv'
<1>. USE PortAssumption, NoneAssumption
     DEF TypeInv, TypeOK, Filled, Slots, BufStat, PC, Waiting, Goto, SetStat,
         search, socket, buffers, request, EC_NOFRAME, EC_OTHERFRAME, Replied
<1>1. ASSUME NEW t \in Threads, GetIndex(t) PROVE TypeInv'
  <2>1. NextSlot(lastidx) \in Slots
    BY DEF NextSlot
  <2>2. TypeOK'
    <3>1. idx' \in [Threads -> Slots] /\ cnt' \in [Threads -> 0 .. MaxBuf]
      BY <1>1, <2>1 DEF GetIndex
    <3>2. seq' \in [Threads -> 0 .. MaxRequests]
      BY <1>1 DEF GetIndex
    <3>. QED BY <1>1, <3>1, <3>2 DEF GetIndex
  <2>3. Filled'
    BY <1>1, <2>1 DEF GetIndex
  <2>. QED BY <2>2, <2>3
<1>2. ASSUME NEW t \in Threads, ScanNext(t) PROVE TypeInv'
  <2>1. NextSlot(idx[t]) \in Slots /\ cnt[t] + 1 \in 0 .. MaxBuf
    BY <1>2 DEF ScanNext, Busy, NextSlot
  <2>2. TypeOK'
    <3>1. idx' \in [Threads -> Slots] /\ cnt' \in [Threads -> 0 .. MaxBuf]
      BY <1>2, <2>1 DEF ScanNext
    <3>. QED BY <1>2, <3>1 DEF ScanNext
  <2>3. pc[t] = "scan" /\ pc' = pc /\ \A u \in Threads \ {t} : idx'[u] = idx[u]
    BY <1>2 DEF ScanNext
  <2>4. Filled'
    BY <1>2, <2>3 DEF ScanNext
  <2>. QED BY <2>2, <2>4
<1>3. ASSUME NEW t \in Threads, TakeIndex(t) PROVE TypeInv'
  <2>1. TypeOK'
    BY <1>3 DEF TakeIndex
  <2>2. Filled'
    BY <1>3 DEF TakeIndex
  <2>. QED BY <2>1, <2>2
<1>4. ASSUME NEW t \in Threads, SetupDatagram(t) PROVE TypeInv'
  <2>1. Request(t) \in Requests
    <3>1. seq[t] \in 0 .. MaxRequests /\ seq[t] > 0
      BY <1>4 DEF SetupDatagram
    <3>. QED BY <3>1 DEF Request, Requests
  <2>2. TypeOK'
    BY <1>4, <2>1 DEF SetupDatagram
  <2>3. Filled'
    BY <1>4, <2>1 DEF SetupDatagram
  <2>. QED BY <2>2, <2>3
<1>5. ASSUME NEW t \in Threads, MarkTx(t) PROVE TypeInv'
  <2>1. TypeOK'
    BY <1>5 DEF MarkTx
  <2>2. Filled'
    BY <1>5 DEF MarkTx
  <2>. QED BY <2>1, <2>2
<1>6. ASSUME NEW t \in Threads, Send(t) PROVE TypeInv'
  <2>1. [idx |-> idx[t], req |-> txbuf[idx[t]], try |-> tries[t]] \in Frames
    BY <1>6 DEF Send, Frames
  <2>2. TypeOK'
    BY <1>6, <2>1 DEF Send
  <2>3. Filled'
    BY <1>6 DEF Send
  <2>. QED BY <2>2, <2>3
<1>7. ASSUME NEW t \in Threads, SendFails(t) PROVE TypeInv'
  <2>1. TypeOK'
    BY <1>7 DEF SendFails
  <2>2. Filled'
    BY <1>7 DEF SendFails
  <2>. QED BY <2>1, <2>2
<1>8. ASSUME NEW t \in Threads, PollHit(t) PROVE TypeInv'
  <2>1. rxbuf[idx[t]].wkc \in {0, 1}
    BY <1>8 DEF PollHit, Replies
  <2>2. TypeOK'
    BY <1>8, <2>1 DEF PollHit
  <2>3. Filled'
    BY <1>8 DEF PollHit
  <2>. QED BY <2>2, <2>3
<1>9. ASSUME NEW t \in Threads, PollMiss(t) PROVE TypeInv'
  <2>1. TypeOK'
    BY <1>9 DEF PollMiss
  <2>2. Filled'
    BY <1>9 DEF PollMiss
  <2>. QED BY <2>1, <2>2
<1>10. ASSUME NEW t \in Threads, RecvNothing(t) PROVE TypeInv'
  <2>1. TypeOK'
    BY <1>10 DEF RecvNothing
  <2>2. Filled'
    BY <1>10 DEF RecvNothing
  <2>. QED BY <2>1, <2>2
<1>11. ASSUME NEW t \in Threads, RecvOwn(t) PROVE TypeInv'
  <2>1. PICK f \in wire, w \in {0, 1} :
          /\ wire' = wire \ {f}
          /\ rxbuf' = [rxbuf EXCEPT ![idx[t]] = [req |-> f.req, wkc |-> w]]
          /\ wkc' = [wkc EXCEPT ![t] = w]
    BY <1>11 DEF RecvOwn
  <2>2. [req |-> f.req, wkc |-> w] \in Replies
    BY <2>1 DEF Frames, Replies
  <2>3. TypeOK'
    BY <1>11, <2>1, <2>2 DEF RecvOwn
  <2>4. \A s \in Slots : rxbuf[s] # None => rxbuf'[s] # None
    BY <2>1, <2>2
  <2>5. rxbuf'[idx[t]] # None
    BY <2>1, <2>2
  <2>6. Filled'
    BY <1>11, <2>1, <2>4, <2>5 DEF RecvOwn
  <2>. QED BY <2>3, <2>6
<1>12. ASSUME NEW t \in Threads, RecvOther(t) PROVE TypeInv'
  <2>1. TypeOK'
    BY <1>12 DEF RecvOther
  <2>2. Filled'
    BY <1>12 DEF RecvOther
  <2>. QED BY <2>1, <2>2
<1>13. ASSUME NEW t \in Threads, StoreOther(t) PROVE TypeInv'
  <2>1. tempbuf \in Frames
    BY <1>13 DEF StoreOther
  <2>2. PICK w \in {0, 1} :
     rxbuf' = [rxbuf EXCEPT ![tempbuf.idx] = [req |-> tempbuf.req, wkc |-> w]]
    BY <1>13 DEF StoreOther
  <2>3. [req |-> tempbuf.req, wkc |-> w] \in Replies /\ tempbuf.idx \in Slots
    BY <2>1, <2>2 DEF Frames, Replies
  <2>4. TypeOK'
    BY <1>13, <2>2, <2>3 DEF StoreOther
  <2>5. \A s \in Slots : rxbuf[s] # None => rxbuf'[s] # None
    BY <2>2, <2>3
  <2>6. rxbuf'[tempbuf.idx] # None
    BY <2>2, <2>3
  <2>7. (\A s \in Slots : rxbufstat[s] \in {"RCVD", "COMPLETE"} =>
                            rxbuf[s] # None)'
    BY <1>13, <2>3, <2>5, <2>6 DEF StoreOther
  <2>8. (\A u \in Threads : pc[u] = "check" /\ Replied(u) =>
                              rxbuf[idx[u]] # None)'
    BY <1>13, <2>5 DEF StoreOther
  <2>9. Filled'
    BY <1>13, <2>7, <2>8 DEF StoreOther
  <2>. QED BY <2>4, <2>9
<1>14. ASSUME NEW t \in Threads, RecvStray(t) PROVE TypeInv'
  <2>1. TypeOK'
    BY <1>14 DEF RecvStray
  <2>2. Filled'
    BY <1>14 DEF RecvStray
  <2>. QED BY <2>1, <2>2
<1>15. ASSUME NEW t \in Threads, PollAgain(t) PROVE TypeInv'
  <2>1. TypeOK'
    BY <1>15 DEF PollAgain
  <2>2. Filled'
    BY <1>15 DEF PollAgain
  <2>. QED BY <2>1, <2>2
<1>16. ASSUME NEW t \in Threads, Resend(t) PROVE TypeInv'
  <2>1. TypeOK'
    BY <1>16 DEF Resend
  <2>2. Filled'
    BY <1>16 DEF Resend
  <2>. QED BY <2>1, <2>2
<1>17. ASSUME NEW t \in Threads, GiveUp(t) PROVE TypeInv'
  <2>1. TypeOK'
    BY <1>17 DEF GiveUp
  <2>2. Filled'
    BY <1>17 DEF GiveUp
  <2>. QED BY <2>1, <2>2
<1>18. ASSUME NEW t \in Threads, CopyData(t) PROVE TypeInv'
  <2>1. wkc[t] > 0 => rxbuf[idx[t]].req \in Requests
    BY <1>18 DEF CopyData, Replies
  <2>2. TypeOK'
    BY <1>18, <2>1 DEF CopyData
  <2>3. Filled'
    BY <1>18 DEF CopyData
  <2>. QED BY <2>2, <2>3
<1>19. ASSUME NEW t \in Threads, Release(t) PROVE TypeInv'
  <2>1. TypeOK'
    BY <1>19 DEF Release
  <2>2. Filled'
    BY <1>19 DEF Release
  <2>. QED BY <2>1, <2>2
<1>20. CASE LoseFrame
  <2>1. TypeOK'
    BY <1>20 DEF LoseFrame
  <2>2. Filled'
    BY <1>20 DEF LoseFrame
  <2>. QED BY <2>1, <2>2
<1>21. CASE UNCHANGED vars
  BY <1>21 DEF vars
<1>. QED
  BY <1>1, <1>2, <1>3, <1>4, <1>5, <1>6, <1>7, <1>8, <1>9, <1>10, <1>11,
     <1>12, <1>13, <1>14, <1>15, <1>16, <1>17, <1>18, <1>19, <1>20, <1>21
  DEF Next, Step, Allocate, Transmit, InFrame, Conclude, Rest

\* The port ecx_setupnic leaves behind has the types.
LEMMA InitTypeInv == Init => TypeInv
BY PortAssumption, NoneAssumption
DEF Init, TypeInv, TypeOK, Filled, Slots, BufStat, PC, Waiting, EC_NOFRAME,
    EC_OTHERFRAME

\* It also satisfies the invariant: no index is in use, no frame is under way.
LEMMA InitPortInv == Init => PortInv
BY DEF Init, PortInv, SlotInv, IndexExclusive, OnlyInUse, OwnedInUse, FreeAhead,
       Owns, FramesAwaited, Private, Waiting

\* Type correctness, whatever frames are late and whatever sends fail.
THEOREM TypeCorrect == Spec => []TypeOK
<1>1. Init => TypeInv
  BY InitTypeInv
<1>2. TypeInv /\ [Next]_vars => TypeInv'
  BY TypeInvStep
<1>3. TypeInv => TypeOK
  BY DEF TypeInv
<1>. QED BY <1>1, <1>2, <1>3, PTL DEF Spec
-----------------------------------------------------------------------------
\* What TypeInv says of the variables the proofs below reason about.
LEMMA Types ==
  ASSUME TypeInv
  PROVE  /\ rxbufstat \in [Slots -> BufStat]
         /\ txbuf \in [Slots -> Requests \union {None}]
         /\ rxbuf \in [Slots -> Replies \union {None}]
         /\ pc \in [Threads -> PC] /\ idx \in [Threads -> Slots]
         /\ cnt \in [Threads -> 0 .. MaxBuf]
         /\ seq \in [Threads -> 0 .. MaxRequests]
         /\ wkc \in [Threads -> {-2, -1, 0, 1}]
         /\ data \in [Threads -> Requests \union {None}]
         /\ lastidx \in Slots
         /\ \A f \in wire : f.req.thread \in Threads /\ f.idx \in Slots
         /\ tempbuf # None =>
              tempbuf.req.thread \in Threads /\ tempbuf.idx \in Slots
BY DEF TypeInv, TypeOK, Frames, Requests, EC_NOFRAME, EC_OTHERFRAME

-----------------------------------------------------------------------------
(* What holds whatever frames are late, whatever sends fail and however    *)
(* many threads there are.                                                 *)

\* A frame or buffer under index s with request r is where the call that sent r
\* looks, if that call still runs; no later call has its number.
Tied(s, r) ==
  /\ r.seq <= seq[r.thread]
  /\ r.seq = seq[r.thread] =>
       pc[r.thread] # "scan" /\ (Owns(r.thread) => idx[r.thread] = s)

\* Index s carries request r: in a buffer, or in a frame under way.
Carries(s, r) ==
  \/ txbuf[s] = r
  \/ rxbuf[s] # None /\ rxbuf[s].req = r
  \/ \E f \in wire : f.idx = s /\ f.req = r
  \/ tempbuf # None /\ tempbuf.idx = s /\ tempbuf.req = r

\* All that carries a request is tied to its call, and who leaves an index
\* makes it EMPTY, so that only a reply can mark it after that.
RouteInv ==
  /\ \A s \in Slots, r \in Requests : Carries(s, r) => Tied(s, r)
  /\ \A s \in Slots : Unowned(s) => rxbufstat[s] \in {"EMPTY", "RCVD"}

\* What a step may do to the calls: one begins, with the next number, or each
\* stays on its index or ends.
CallMoves(u) ==
  \/ seq'[u] = seq[u] + 1
  \/ /\ seq'[u] = seq[u]
     /\ pc'[u] = "scan" => pc[u] = "scan"
     /\ Owns(u)' /\ pc[u] # "scan" => Owns(u) /\ idx'[u] = idx[u]

LEMMA StepMoves ==
  ASSUME TypeInv, NEW t \in Threads, Step(t), NEW u \in Threads
  PROVE  CallMoves(u)
<1>. USE Types DEF CallMoves, Goto, request, Owns
<1>1. CASE GetIndex(t)  BY <1>1 DEF GetIndex
<1>2. CASE ScanNext(t)  BY <1>2 DEF ScanNext
<1>3. CASE TakeIndex(t)  BY <1>3 DEF TakeIndex
<1>4. CASE SetupDatagram(t)  BY <1>4 DEF SetupDatagram
<1>5. CASE MarkTx(t)  BY <1>5 DEF MarkTx
<1>6. CASE Send(t)  BY <1>6 DEF Send
<1>7. CASE SendFails(t)  BY <1>7 DEF SendFails
<1>8. CASE PollHit(t)  BY <1>8 DEF PollHit
<1>9. CASE PollMiss(t)  BY <1>9 DEF PollMiss
<1>10. CASE RecvNothing(t)  BY <1>10 DEF RecvNothing
<1>11. CASE RecvOwn(t)  BY <1>11 DEF RecvOwn
<1>12. CASE RecvOther(t)  BY <1>12 DEF RecvOther
<1>13. CASE StoreOther(t)  BY <1>13 DEF StoreOther
<1>14. CASE RecvStray(t)  BY <1>14 DEF RecvStray
<1>15. CASE PollAgain(t)  BY <1>15 DEF PollAgain
<1>16. CASE Resend(t)  BY <1>16 DEF Resend
<1>17. CASE GiveUp(t)  BY <1>17 DEF GiveUp
<1>18. CASE CopyData(t)  BY <1>18 DEF CopyData
<1>19. CASE Release(t)  BY <1>19 DEF Release
<1>. QED
  BY <1>1, <1>2, <1>3, <1>4, <1>5, <1>6, <1>7, <1>8, <1>9, <1>10, <1>11, <1>12,
     <1>13, <1>14, <1>15, <1>16, <1>17, <1>18, <1>19
  DEF Step, Allocate, Transmit, InFrame, Conclude

\* What is tied to a call stays so.
LEMMA TiedStays ==
  ASSUME TypeInv, NEW s, NEW r \in Requests, Tied(s, r), CallMoves(r.thread)
  PROVE  Tied(s, r)'
<1>1. r.thread \in Threads /\ r.seq \in Nat /\ seq[r.thread] \in Nat
  BY Types, PortAssumption DEF Requests
<1>. QED BY <1>1 DEF Tied, CallMoves

\* A call is over, or it has the index that what it sent is tied to.
LEMMA OverOrThere ==
  ASSUME TypeInv, NEW s, NEW r \in Requests, Tied(s, r)
  PROVE  Over(r) \/ (Owns(r.thread) /\ idx[r.thread] = s)
<1>1. r.thread \in Threads /\ r.seq \in Nat /\ seq[r.thread] \in Nat
  BY Types, PortAssumption DEF Requests
<1>. QED BY <1>1 DEF Tied, Over

\* Who files a frame has one.
LEMMA HasFrame ==
  ASSUME TypeInv, NEW t \in Threads, StoreOther(t)
  PROVE  tempbuf # None
BY PortAssumption DEF StoreOther, TypeInv, Filled

\* The requests that the buffers and frames carry.
LEMMA Carried ==
  ASSUME TypeInv
  PROVE  /\ \A s \in Slots : rxbuf[s] # None =>
              rxbuf[s].req \in Requests /\ Carries(s, rxbuf[s].req)
         /\ \A f \in wire : f.req \in Requests /\ f.idx \in Slots
         /\ tempbuf # None => /\ tempbuf.req \in Requests /\ tempbuf.idx \in Slots
                              /\ Carries(tempbuf.idx, tempbuf.req)
BY Types DEF TypeInv, TypeOK, Frames, Replies, Carries

\* An index carries what its owner puts in the transmit buffer, and else what it
\* carried before: buffers and frames are filled from each other under one index.
LEMMA CarriedOn ==
  ASSUME TypeInv, NEW t \in Threads, Step(t), NEW s \in Slots, NEW r \in Requests,
         Carries(s, r)', ~ Carries(s, r)
  PROVE  SetupDatagram(t) /\ s = idx[t] /\ r = Request(t)
<1>1. CASE SetupDatagram(t)
  BY <1>1, Types DEF SetupDatagram, socket, Carries
<1>2. CASE Send(t)
  <2>1. PICK f : f = [idx |-> idx[t], req |-> txbuf[idx[t]], try |-> tries[t]]
    OBVIOUS
  <2>2. wire' = wire \union {f} /\ UNCHANGED <<txbuf, rxbuf, tempbuf>>
    BY <1>2, <2>1 DEF Send, buffers
  <2>. QED BY <2>1, <2>2 DEF Carries
<1>3. CASE RecvOwn(t)
  <2>1. PICK f \in wire, w \in {0, 1} :
          /\ Matches(f, t)
          /\ wire' = wire \ {f}
          /\ rxbuf' = [rxbuf EXCEPT ![idx[t]] = [req |-> f.req, wkc |-> w]]
    BY <1>3 DEF RecvOwn
  <2>2. UNCHANGED <<txbuf, tempbuf>> /\ f.idx = idx[t]
    BY <1>3, <2>1 DEF RecvOwn, Matches
  <2>. QED BY <2>1, <2>2, Types DEF Carries
<1>4. CASE RecvOther(t)
  <2>1. UNCHANGED <<txbuf, rxbuf>> /\ wire' \subseteq wire /\ tempbuf' \in wire
    BY <1>4 DEF RecvOther, buffers
  <2>. QED BY <2>1 DEF Carries
<1>5. CASE StoreOther(t)
  <2>1. PICK w \in {0, 1} :
     rxbuf' = [rxbuf EXCEPT ![tempbuf.idx] = [req |-> tempbuf.req, wkc |-> w]]
    BY <1>5 DEF StoreOther
  <2>2. UNCHANGED <<txbuf, wire>> /\ tempbuf' = None
    BY <1>5 DEF StoreOther
  <2>3. tempbuf # None
    BY <1>5, HasFrame
  <2>. QED BY <2>1, <2>2, <2>3, Types DEF Carries
<1>6. CASE ~ (SetupDatagram(t) \/ Send(t) \/ RecvOwn(t) \/ RecvOther(t) \/ StoreOther(t))
  <2>1. UNCHANGED <<txbuf, rxbuf, tempbuf>> /\ wire' \subseteq wire
    <3>. USE DEF socket, buffers
    <3>1. CASE Allocate(t)
      BY <3>1 DEF Allocate, GetIndex, ScanNext, TakeIndex
    <3>2. CASE Transmit(t)
      BY <1>6, <3>2 DEF Transmit, MarkTx, SendFails
    <3>3. CASE InFrame(t)
      BY <1>6, <3>3 DEF InFrame, PollHit, PollMiss, RecvNothing, RecvStray
    <3>4. CASE Conclude(t)
      BY <3>4 DEF Conclude, PollAgain, Resend, GiveUp, CopyData, Release
    <3>. QED BY <3>1, <3>2, <3>3, <3>4 DEF Step
  <2>. QED BY <2>1 DEF Carries
<1>. QED BY <1>1, <1>2, <1>3, <1>4, <1>5, <1>6

\* Whatever carries a request stays tied to its call.
LEMMA RoutesStay ==
  ASSUME TypeInv, RouteInv, NEW t \in Threads, Step(t), NEW s \in Slots,
         NEW r \in Requests, Carries(s, r)'
  PROVE  Tied(s, r)'
<1>1. CASE Carries(s, r)
  <2>1. Tied(s, r) /\ CallMoves(r.thread)
    BY <1>1, StepMoves DEF RouteInv, Requests
  <2>. QED BY <2>1, TiedStays
<1>2. CASE ~ Carries(s, r)
  <2>1. SetupDatagram(t) /\ s = idx[t] /\ r = Request(t)
    BY <1>2, CarriedOn
  <2>. QED BY <2>1, Types DEF SetupDatagram, Tied, Request, Goto, request
<1>. QED BY <1>1, <1>2

\* A status is written by the owner of the index, by who leaves it, or by who
\* files a reply.
LEMMA LeftEmpty ==
  ASSUME TypeInv, RouteInv, NEW t \in Threads, Step(t), NEW s \in Slots, Unowned(s)'
  PROVE  rxbufstat'[s] \in {"EMPTY", "RCVD"}
<1>. USE Types DEF Goto, SetStat, Owns, Unowned, buffers, request
<1>1. CASE TakeIndex(t)
  BY <1>1 DEF TakeIndex, RouteInv
<1>2. CASE MarkTx(t)
  BY <1>2 DEF MarkTx, RouteInv
<1>3. CASE SendFails(t)
  BY <1>3 DEF SendFails, RouteInv
<1>4. CASE PollHit(t)
  BY <1>4 DEF PollHit, RouteInv
<1>5. CASE RecvOwn(t)
  BY <1>5 DEF RecvOwn, RouteInv
<1>6. CASE StoreOther(t)
  <2>1. tempbuf.idx \in Slots
    BY <1>6, HasFrame, Carried
  <2>. QED BY <1>6, <2>1 DEF StoreOther, RouteInv
<1>7. CASE Release(t)
  BY <1>7 DEF Release, RouteInv
<1>8. CASE ~ (\/ TakeIndex(t) \/ MarkTx(t) \/ SendFails(t) \/ PollHit(t)
              \/ RecvOwn(t) \/ StoreOther(t) \/ Release(t))
  <2>1. /\ rxbufstat' = rxbufstat
        /\ \A u \in Threads : Owns(u) => Owns(u)' /\ idx'[u] = idx[u]
    <3>1. CASE Allocate(t)
      BY <1>8, <3>1 DEF Allocate, GetIndex, ScanNext
    <3>2. CASE Transmit(t)
      BY <1>8, <3>2 DEF Transmit, SetupDatagram, Send
    <3>3. CASE InFrame(t)
      BY <1>8, <3>3 DEF InFrame, PollMiss, RecvNothing, RecvOther, RecvStray
    <3>4. CASE Conclude(t)
      BY <1>8, <3>4 DEF Conclude, PollAgain, Resend, GiveUp, CopyData
    <3>. QED BY <3>1, <3>2, <3>3, <3>4 DEF Step
  <2>. QED BY <2>1 DEF RouteInv
<1>. QED BY <1>1, <1>2, <1>3, <1>4, <1>5, <1>6, <1>7, <1>8

LEMMA RouteInvStep ==
  ASSUME TypeInv, RouteInv, [Next]_vars
  PROVE  RouteInv'
<1>1. ASSUME NEW t \in Threads, Step(t) PROVE RouteInv'
  BY <1>1, RoutesStay, LeftEmpty DEF RouteInv
<1>2. CASE LoseFrame
  BY <1>2 DEF LoseFrame, RouteInv, Carries, Tied, Unowned, Owns, buffers, request
<1>3. CASE UNCHANGED vars
  BY <1>3 DEF vars, RouteInv, Carries, Tied, Unowned, Owns, socket, buffers, request
<1>. QED BY <1>1, <1>2, <1>3 DEF Next, Rest

\* RouteInv holds throughout, for every port and every timing.
LEMMA RouteInvAlways == Spec => [](TypeInv /\ RouteInv)
<1>1. Init => TypeInv /\ RouteInv
  BY InitTypeInv, NoneAssumption DEF Init, RouteInv, Carries, Unowned
<1>2. TypeInv /\ RouteInv /\ [Next]_vars => (TypeInv /\ RouteInv)'
  BY TypeInvStep, RouteInvStep
<1>. QED BY <1>1, <1>2, PTL DEF Spec

\* An index nobody holds is EMPTY, or it is lost to a reply that was filed after
\* its call had ended (nicdrv.c:431); nothing else takes an index out of use.
THEOREM IndicesLostOnlyLate == Spec => []IndexLostOnlyLate
<1>1. TypeInv /\ RouteInv => IndexLostOnlyLate
  <2>. SUFFICES ASSUME TypeInv, RouteInv, NEW s \in Slots, Unowned(s),
                       rxbufstat[s] = "RCVD"
                PROVE  Over(rxbuf[s].req)
    BY DEF IndexLostOnlyLate, RouteInv
  <2>1. rxbuf[s] # None
    BY DEF TypeInv, Filled
  <2>2. Tied(s, rxbuf[s].req) /\ rxbuf[s].req \in Requests
    BY <2>1, Carried DEF RouteInv
  <2>. QED BY <2>2, OverOrThere DEF Unowned, Requests
<1>. QED BY <1>1, RouteInvAlways, PTL

\* The frame of another is kept only while somebody has its index, and filed
\* where its own call looks unless that is over by then (nicdrv.c:430).
THEOREM FiledWhereAwaited == Spec => FiledForCaller
<1>1. TypeInv /\ RouteInv => \A t \in Threads :
        /\ RecvOther(t) => ~ Unowned(tempbuf'.idx)
        /\ StoreOther(t) =>
             Over(tempbuf.req) \/ idx[tempbuf.req.thread] = tempbuf.idx
  <2>. SUFFICES ASSUME TypeInv, RouteInv, NEW t \in Threads
                PROVE  /\ RecvOther(t) => ~ Unowned(tempbuf'.idx)
                       /\ StoreOther(t) =>
                            Over(tempbuf.req) \/ idx[tempbuf.req.thread] = tempbuf.idx
    OBVIOUS
  <2>1. ASSUME RecvOther(t) PROVE ~ Unowned(tempbuf'.idx)
    <3>1. tempbuf' \in wire /\ rxbufstat[tempbuf'.idx] = "TX"
      BY <2>1 DEF RecvOther
    <3>. QED BY <3>1, Carried DEF RouteInv
  <2>2. ASSUME StoreOther(t)
        PROVE  Over(tempbuf.req) \/ idx[tempbuf.req.thread] = tempbuf.idx
    <3>1. tempbuf # None
      BY <2>2, HasFrame
    <3>2. Tied(tempbuf.idx, tempbuf.req) /\ tempbuf.req \in Requests
      BY <3>1, Carried DEF RouteInv
    <3>. QED BY <3>2, OverOrThere
  <2>. QED BY <2>1, <2>2
<1>. QED BY <1>1, RouteInvAlways, PTL DEF FiledForCaller

-----------------------------------------------------------------------------
(* What holds in the environment of Prompt and Roomy.                      *)

\* The search never ends at an index in use.
LEMMA TakenIsFree ==
  ASSUME TypeInv, SlotInv, NEW t \in Threads, TakeIndex(t)
  PROVE  rxbufstat[idx[t]] = "EMPTY"
<1>1. PICK s \in Slots : /\ rxbufstat[s] = "EMPTY"
                         /\ Distance(idx[t], s) < MaxBuf - cnt[t]
  BY DEF TakeIndex, SlotInv, FreeAhead
<1>2. Distance(idx[t], s) >= 0
  BY Types, PortAssumption DEF Distance, Slots
<1>3. cnt[t] < MaxBuf
  BY <1>1, <1>2, Types, PortAssumption DEF Distance, Slots
<1>. QED BY <1>3 DEF TakeIndex, Busy

\* A step of thread t other than filing a frame leaves every other thread and
\* its index alone.
LEMMA OthersUndisturbed ==
  ASSUME TypeInv, SlotInv, NEW t \in Threads, NEW u \in Threads \ {t},
         Step(t), ~ StoreOther(t)
  PROVE  Undisturbed(u)
<1>. USE Types DEF Undisturbed, Goto, SetStat, search, socket, buffers, request
<1>1. /\ Owns(t) /\ Owns(u) => idx[t] # idx[u]
      /\ Owns(u) => rxbufstat[idx[u]] # "EMPTY"
  BY DEF SlotInv, IndexExclusive, OwnedInUse
<1>2. CASE GetIndex(t)
  BY <1>1, <1>2 DEF GetIndex
<1>3. CASE ScanNext(t)
  BY <1>1, <1>3 DEF ScanNext
<1>4. CASE TakeIndex(t)
  BY <1>1, <1>4, TakenIsFree DEF TakeIndex
<1>5. CASE SetupDatagram(t)
  BY <1>1, <1>5 DEF SetupDatagram, Owns
<1>6. CASE MarkTx(t)
  BY <1>1, <1>6 DEF MarkTx, Owns
<1>7. CASE Send(t)
  BY <1>1, <1>7 DEF Send, Owns
<1>8. CASE SendFails(t)
  BY <1>1, <1>8 DEF SendFails, Owns
<1>9. CASE PollHit(t)
  BY <1>1, <1>9 DEF PollHit, Owns
<1>10. CASE PollMiss(t)
  BY <1>1, <1>10 DEF PollMiss, Owns
<1>11. CASE RecvNothing(t)
  BY <1>1, <1>11 DEF RecvNothing, Owns
<1>12. CASE RecvOwn(t)
  BY <1>1, <1>12 DEF RecvOwn, Owns
<1>13. CASE RecvOther(t)
  BY <1>1, <1>13 DEF RecvOther, Owns
<1>14. CASE RecvStray(t)
  BY <1>1, <1>14 DEF RecvStray, Owns
<1>15. CASE PollAgain(t)
  BY <1>1, <1>15 DEF PollAgain, Owns
<1>16. CASE Resend(t)
  BY <1>1, <1>16 DEF Resend, Owns
<1>17. CASE GiveUp(t)
  BY <1>1, <1>17 DEF GiveUp, Owns
<1>18. CASE CopyData(t)
  BY <1>1, <1>18 DEF CopyData, Owns
<1>19. CASE Release(t)
  BY <1>1, <1>19 DEF Release, Owns
<1>. QED
  BY <1>2, <1>3, <1>4, <1>5, <1>6, <1>7, <1>8, <1>9, <1>10, <1>11, <1>12, <1>13, <1>14, <1>15, <1>16, <1>17, <1>18, <1>19
  DEF Step, Allocate, Transmit, InFrame, Conclude

\* The frame being filed is for another thread, which waits for it.
LEMMA FiledFor ==
  ASSUME TypeInv, FramesAwaited, NEW t \in Threads, StoreOther(t)
  PROVE  /\ tempbuf # None
         /\ tempbuf.req.thread \in Threads \ {t}
         /\ AwaitedBy(tempbuf, tempbuf.req.thread)
         /\ tempbuf.idx = idx[tempbuf.req.thread]
         /\ Owns(tempbuf.req.thread)
<1>1. tempbuf # None
  BY PortAssumption DEF StoreOther, TypeInv, Filled
<1>. QED
  BY <1>1, Types DEF StoreOther, FramesAwaited, AwaitedBy, Owns, Waiting

\* Filing a frame disturbs only the thread the frame is for.
LEMMA StoreDisturbsOne ==
  ASSUME TypeInv, SlotInv, FramesAwaited, NEW t \in Threads, StoreOther(t),
         NEW u \in Threads \ {t, tempbuf.req.thread}
  PROVE  Undisturbed(u)
<1>1. /\ tempbuf.req.thread \in Threads \ {t} /\ Owns(tempbuf.req.thread)
      /\ tempbuf.idx = idx[tempbuf.req.thread]
  BY FiledFor
<1>2. Owns(u) => idx[u] # tempbuf.idx
  BY <1>1 DEF SlotInv, IndexExclusive
<1>. QED
  BY <1>2, Types DEF StoreOther, Undisturbed, Goto, SetStat, search, request

\* An undisturbed thread keeps its private invariant.
LEMMA UndisturbedPrivate ==
  ASSUME TypeInv, NEW u \in Threads, Private(u), Undisturbed(u)
  PROVE  Private(u)'
BY Types DEF Private, Undisturbed, Owns, Waiting, Request, Replied

\* A frame with the index of thread t answers the request of thread t.
LEMMA OwnFrame ==
  ASSUME TypeInv, SlotInv, FramesAwaited, NEW t \in Threads, Owns(t),
         NEW f \in wire, f.idx = idx[t]
  PROVE  f.req = Request(t) /\ f.req.thread = t
<1>1. AwaitedBy(f, f.req.thread) /\ f.req.thread \in Threads
  BY Types DEF FramesAwaited
<1>2. f.req.thread = t
  BY <1>1 DEF SlotInv, IndexExclusive, AwaitedBy, Owns, Waiting
<1>. QED BY <1>1, <1>2 DEF AwaitedBy

\* The thread that takes a step keeps its private invariant.
LEMMA ActorPrivate ==
  ASSUME TypeInv, SlotInv, FramesAwaited, Prompt, NEW t \in Threads,
         Private(t), Step(t)
  PROVE  Private(t)'
<1>. USE Types, PortAssumption, NoneAssumption
     DEF Private, Owns, Waiting, Request, Replied, Goto, SetStat, search, socket,
         buffers, request, EC_NOFRAME, EC_OTHERFRAME
<1>1. CASE GetIndex(t)
  BY <1>1 DEF GetIndex
<1>2. CASE ScanNext(t)
  BY <1>2 DEF ScanNext
<1>3. CASE TakeIndex(t)
  BY <1>3 DEF TakeIndex
<1>4. CASE SetupDatagram(t)
  BY <1>4 DEF SetupDatagram
<1>5. CASE MarkTx(t)
  BY <1>5 DEF MarkTx
<1>6. CASE Send(t)
  BY <1>6 DEF Send
<1>7. CASE SendFails(t)
  BY <1>7 DEF SendFails, Prompt
<1>8. CASE PollHit(t)
  BY <1>8 DEF PollHit
<1>9. CASE PollMiss(t)
  BY <1>9 DEF PollMiss
<1>10. CASE RecvNothing(t)
  BY <1>10 DEF RecvNothing
<1>11. CASE RecvOwn(t)
  <2>1. PICK f \in wire, w \in {0, 1} :
          /\ f.idx = idx[t]
          /\ rxbuf' = [rxbuf EXCEPT ![idx[t]] = [req |-> f.req, wkc |-> w]]
    BY <1>11 DEF RecvOwn, Matches
  <2>2. f.req = Request(t)
    BY <1>11, <2>1, OwnFrame DEF RecvOwn
  <2>. QED BY <1>11, <2>1, <2>2 DEF RecvOwn
<1>12. CASE RecvOther(t)
  BY <1>12 DEF RecvOther
<1>13. CASE StoreOther(t)
  <2>1. tempbuf.idx # idx[t] /\ wkc[t] = EC_OTHERFRAME
    BY <1>13 DEF StoreOther, FramesAwaited, TypeInv, Filled
  <2>. QED BY <1>13, <2>1 DEF StoreOther
<1>14. CASE RecvStray(t)
  BY <1>14 DEF RecvStray
<1>15. CASE PollAgain(t)
  BY <1>15 DEF PollAgain
<1>16. CASE Resend(t)
  BY <1>16 DEF Resend
<1>17. CASE GiveUp(t)
  BY <1>17 DEF GiveUp
<1>18. CASE CopyData(t)
  BY <1>18 DEF CopyData
<1>19. CASE Release(t)
  BY <1>19 DEF Release
<1>. QED
  BY <1>1, <1>2, <1>3, <1>4, <1>5, <1>6, <1>7, <1>8, <1>9, <1>10, <1>11, <1>12, <1>13, <1>14, <1>15, <1>16, <1>17, <1>18, <1>19
  DEF Step, Allocate, Transmit, InFrame, Conclude

\* A thread owns an index after a step only if it owned the same before it, or
\* has just taken it.
LEMMA OwnersKept ==
  ASSUME TypeInv, NEW t \in Threads, Step(t), ~ TakeIndex(t),
         NEW u \in Threads, Owns(u)'
  PROVE  Owns(u) /\ idx'[u] = idx[u]
<1>. USE Types DEF Owns, Goto, request
<1>1. CASE GetIndex(t)
  BY <1>1 DEF GetIndex
<1>2. CASE ScanNext(t)
  BY <1>2 DEF ScanNext
<1>3. CASE SetupDatagram(t)
  BY <1>3 DEF SetupDatagram
<1>4. CASE MarkTx(t)
  BY <1>4 DEF MarkTx
<1>5. CASE Send(t)
  BY <1>5 DEF Send
<1>6. CASE SendFails(t)
  BY <1>6 DEF SendFails
<1>7. CASE PollHit(t)
  BY <1>7 DEF PollHit
<1>8. CASE PollMiss(t)
  BY <1>8 DEF PollMiss
<1>9. CASE RecvNothing(t)
  BY <1>9 DEF RecvNothing
<1>10. CASE RecvOwn(t)
  BY <1>10 DEF RecvOwn
<1>11. CASE RecvOther(t)
  BY <1>11 DEF RecvOther
<1>12. CASE StoreOther(t)
  BY <1>12 DEF StoreOther
<1>13. CASE RecvStray(t)
  BY <1>13 DEF RecvStray
<1>14. CASE PollAgain(t)
  BY <1>14 DEF PollAgain
<1>15. CASE Resend(t)
  BY <1>15 DEF Resend
<1>16. CASE GiveUp(t)
  BY <1>16 DEF GiveUp
<1>17. CASE CopyData(t)
  BY <1>17 DEF CopyData
<1>18. CASE Release(t)
  BY <1>18 DEF Release
<1>. QED
  BY <1>1, <1>2, <1>3, <1>4, <1>5, <1>6, <1>7, <1>8, <1>9, <1>10, <1>11, <1>12, <1>13, <1>14, <1>15, <1>16, <1>17, <1>18
  DEF Step, Allocate, Transmit, InFrame, Conclude

\* No step makes two threads own one index: the only one that takes an index
\* finds it EMPTY, and an owned index is not.
LEMMA ExclusiveStep ==
  ASSUME TypeInv, SlotInv, NEW t \in Threads, Step(t)
  PROVE  IndexExclusive'
<1>1. CASE TakeIndex(t)
  <2>1. rxbufstat[idx[t]] = "EMPTY"
    BY <1>1, TakenIsFree
  <2>2. \A u \in Threads : Owns(u) => idx[u] # idx[t]
    BY <2>1 DEF SlotInv, OwnedInUse
  <2>3. idx' = idx /\ \A u \in Threads \ {t} : Owns(u)' <=> Owns(u)
    BY <1>1, Types DEF TakeIndex, request, Goto, Owns
  <2>. QED BY <2>2, <2>3 DEF SlotInv, IndexExclusive
<1>2. CASE ~ TakeIndex(t)
  BY <1>2, OwnersKept DEF SlotInv, IndexExclusive
<1>. QED BY <1>1, <1>2

\* A step frees or occupies an index together with its ownership.
LEMMA InUseStep ==
  ASSUME TypeInv, SlotInv, FramesAwaited, Prompt, NEW t \in Threads, Step(t)
  PROVE  OwnedInUse' /\ OnlyInUse'
<1>. USE Types
     DEF SlotInv, OwnedInUse, OnlyInUse, Owns, Goto, SetStat, buffers, request
<1>1. CASE GetIndex(t)
  BY <1>1 DEF GetIndex
<1>2. CASE ScanNext(t)
  BY <1>2 DEF ScanNext
<1>3. CASE TakeIndex(t)
  BY <1>3, TakenIsFree DEF TakeIndex
<1>4. CASE SetupDatagram(t)
  BY <1>4 DEF SetupDatagram
<1>5. CASE MarkTx(t)
  BY <1>5 DEF MarkTx
<1>6. CASE Send(t)
  BY <1>6 DEF Send
<1>7. CASE SendFails(t)
  BY <1>7 DEF SendFails, Prompt
<1>8. CASE PollHit(t)
  BY <1>8 DEF PollHit
<1>9. CASE PollMiss(t)
  BY <1>9 DEF PollMiss
<1>10. CASE RecvNothing(t)
  BY <1>10 DEF RecvNothing
<1>11. CASE RecvOwn(t)
  BY <1>11 DEF RecvOwn
<1>12. CASE RecvOther(t)
  BY <1>12 DEF RecvOther
<1>13. CASE StoreOther(t)
  <2>1. /\ tempbuf.req.thread \in Threads \ {t} /\ Owns(tempbuf.req.thread)
        /\ tempbuf.idx = idx[tempbuf.req.thread]
    BY <1>13, FiledFor
  <2>2. \A u \in Threads : Owns(u)' <=> Owns(u)
    BY <1>13 DEF StoreOther
  <2>3. \A s \in Slots :
          rxbufstat'[s] = IF s = tempbuf.idx THEN "RCVD" ELSE rxbufstat[s]
    BY <1>13 DEF StoreOther
  <2>4. idx' = idx
    BY <1>13 DEF StoreOther
  <2>. HIDE DEF Owns
  <2>. QED BY <2>1, <2>2, <2>3, <2>4
<1>14. CASE RecvStray(t)
  BY <1>14 DEF RecvStray
<1>15. CASE PollAgain(t)
  BY <1>15 DEF PollAgain
<1>16. CASE Resend(t)
  BY <1>16 DEF Resend
<1>17. CASE GiveUp(t)
  BY <1>17 DEF GiveUp
<1>18. CASE CopyData(t)
  BY <1>18 DEF CopyData
<1>19. CASE Release(t)
  BY <1>19 DEF Release, IndexExclusive
<1>. QED
  BY <1>1, <1>2, <1>3, <1>4, <1>5, <1>6, <1>7, <1>8, <1>9, <1>10, <1>11, <1>12, <1>13, <1>14, <1>15, <1>16, <1>17, <1>18, <1>19
  DEF Step, Allocate, Transmit, InFrame, Conclude

\* There are at least as many indices as threads, so the other threads' cannot
\* be all of them.
LEMMA Pigeonhole ==
  ASSUME Roomy, NEW t \in Threads, NEW f \in [Threads -> Slots]
  PROVE  \E s \in Slots : \A u \in Threads \ {t} : f[u] # s
<1>. DEFINE others == Threads \ {t}
            holder == [s \in Slots |-> CHOOSE u \in others : f[u] = s]
<1>. SUFFICES ASSUME \A s \in Slots : \E u \in others : f[u] = s
              PROVE  FALSE
  OBVIOUS
<1>1. /\ IsFiniteSet(others)
      /\ Cardinality(others) = Cardinality(Threads) - 1
      /\ Cardinality(Threads) \in Nat
  BY PortAssumption, FS_RemoveElement, FS_CardinalityType
<1>2. Cardinality(Slots) = MaxBuf /\ IsFiniteSet(Slots)
  BY PortAssumption, FS_Interval DEF Slots
<1>3. Cardinality(others) < Cardinality(Slots)
  BY <1>1, <1>2, PortAssumption DEF Roomy
<1>4. holder \in [Slots -> others] /\ \A s \in Slots : f[holder[s]] = s
  OBVIOUS
<1>. HIDE DEF holder, others
<1>5. PICK x, y \in Slots : x # y /\ holder[x] = holder[y]
  BY <1>1, <1>2, <1>3, <1>4, FS_PigeonHole
<1>. QED BY <1>4, <1>5

\* A search that starts has a free index ahead, and each busy index it passes
\* brings the free one closer; meanwhile nobody else takes an index.
LEMMA FreeAheadStep ==
  ASSUME TypeInv, SlotInv, FramesAwaited, Prompt, Roomy,
         NEW t \in Threads, Step(t)
  PROVE  FreeAhead'
<1>1. CASE GetIndex(t)
  <2>1. PICK s \in Slots : \A u \in Threads \ {t} : idx[u] # s
    BY Types, Pigeonhole
  <2>2. rxbufstat[s] = "EMPTY"
    BY <1>1, <2>1 DEF GetIndex, SlotInv, OnlyInUse, Owns
  <2>3. idx'[t] \in Slots /\ cnt'[t] = 0
    BY <1>1, Types, PortAssumption DEF GetIndex, NextSlot, Slots
  <2>4. Distance(idx'[t], s) < MaxBuf
    BY <2>3, PortAssumption DEF Distance, Slots
  <2>5. \A u \in Threads : pc'[u] = "scan" => u = t
    BY <1>1, Types, PortAssumption DEF GetIndex, Goto, TypeInv, Filled
  <2>6. rxbufstat' = rxbufstat
    BY <1>1 DEF GetIndex, buffers
  <2>7. \A u \in Threads : pc'[u] = "scan" =>
          rxbufstat'[s] = "EMPTY" /\ Distance(idx'[u], s) < MaxBuf - cnt'[u]
    BY <2>2, <2>3, <2>4, <2>5, <2>6, PortAssumption
  <2>. QED BY <2>7 DEF FreeAhead
<1>2. CASE ScanNext(t)
  <2>1. PICK s \in Slots : /\ rxbufstat[s] = "EMPTY"
                           /\ Distance(idx[t], s) < MaxBuf - cnt[t]
    BY <1>2 DEF ScanNext, SlotInv, FreeAhead
  <2>2. s # idx[t]
    BY <1>2, <2>1 DEF ScanNext, Busy
  <2>3. idx'[t] = NextSlot(idx[t]) /\ cnt'[t] = cnt[t] + 1
    BY <1>2, Types DEF ScanNext
  <2>4. Distance(NextSlot(idx[t]), s) = Distance(idx[t], s) - 1
    <3>1. idx[t] \in 0 .. MaxBuf - 1 /\ s \in 0 .. MaxBuf - 1
      BY Types DEF Slots
    <3>2. CASE idx[t] + 1 >= MaxBuf
      BY <2>2, <3>1, <3>2, PortAssumption DEF Distance, NextSlot
    <3>3. CASE ~ (idx[t] + 1 >= MaxBuf)
      BY <2>2, <3>1, <3>3, PortAssumption DEF Distance, NextSlot
    <3>. QED BY <3>2, <3>3
  <2>5. Distance(idx[t], s) \in Int /\ cnt[t] \in Int /\ MaxBuf \in Int
    BY Types, PortAssumption DEF Distance, Slots
  <2>6. Distance(idx'[t], s) < MaxBuf - cnt'[t]
    BY <2>1, <2>3, <2>4, <2>5
  <2>7. \A u \in Threads : pc'[u] = "scan" => u = t
    BY <1>2, Types, PortAssumption DEF ScanNext, TypeInv, Filled
  <2>8. rxbufstat' = rxbufstat
    BY <1>2 DEF ScanNext, buffers
  <2>. QED BY <2>1, <2>6, <2>7, <2>8 DEF FreeAhead
<1>3. CASE TakeIndex(t)
  <2>1. \A u \in Threads : pc'[u] # "scan"
    BY <1>3, Types, PortAssumption DEF TakeIndex, Goto, TypeInv, Filled
  <2>. QED BY <2>1 DEF FreeAhead
<1>4. CASE ~ (GetIndex(t) \/ ScanNext(t) \/ TakeIndex(t))
  <2>1. \A s \in Slots : rxbufstat[s] = "EMPTY" => rxbufstat'[s] = "EMPTY"
    <3>. USE Types DEF SlotInv, OwnedInUse, Owns, SetStat, buffers
    <3>1. CASE SetupDatagram(t)
      BY <3>1 DEF SetupDatagram
    <3>2. CASE MarkTx(t)
      BY <3>2 DEF MarkTx
    <3>3. CASE Send(t)
      BY <3>3 DEF Send
    <3>4. CASE SendFails(t)
      BY <3>4 DEF SendFails
    <3>5. CASE PollHit(t)
      BY <3>5 DEF PollHit
    <3>6. CASE PollMiss(t)
      BY <3>6 DEF PollMiss
    <3>7. CASE RecvNothing(t)
      BY <3>7 DEF RecvNothing
    <3>8. CASE RecvOwn(t)
      BY <3>8 DEF RecvOwn
    <3>9. CASE RecvOther(t)
      BY <3>9 DEF RecvOther
    <3>10. CASE StoreOther(t)
      <4>1. rxbufstat[tempbuf.idx] # "EMPTY"
        BY <3>10, FiledFor DEF AwaitedBy
      <4>. QED BY <3>10, <4>1 DEF StoreOther
    <3>11. CASE RecvStray(t)
      BY <3>11 DEF RecvStray
    <3>12. CASE PollAgain(t)
      BY <3>12 DEF PollAgain
    <3>13. CASE Resend(t)
      BY <3>13 DEF Resend
    <3>14. CASE GiveUp(t)
      BY <3>14 DEF GiveUp
    <3>15. CASE CopyData(t)
      BY <3>15 DEF CopyData
    <3>16. CASE Release(t)
      BY <3>16 DEF Release
    <3>. QED
      BY <1>4, <3>1, <3>2, <3>3, <3>4, <3>5, <3>6, <3>7, <3>8, <3>9, <3>10, <3>11, <3>12, <3>13, <3>14, <3>15, <3>16
      DEF Step, Allocate, Transmit, InFrame, Conclude
  <2>2. \A u \in Threads : pc'[u] = "scan" =>
          pc[u] = "scan" /\ idx'[u] = idx[u] /\ cnt'[u] = cnt[u]
    <3>. USE Types DEF Goto, request
    <3>1. CASE SetupDatagram(t)
      BY <3>1 DEF SetupDatagram
    <3>2. CASE MarkTx(t)
      BY <3>2 DEF MarkTx
    <3>3. CASE Send(t)
      BY <3>3 DEF Send
    <3>4. CASE SendFails(t)
      BY <3>4 DEF SendFails
    <3>5. CASE PollHit(t)
      BY <3>5 DEF PollHit
    <3>6. CASE PollMiss(t)
      BY <3>6 DEF PollMiss
    <3>7. CASE RecvNothing(t)
      BY <3>7 DEF RecvNothing
    <3>8. CASE RecvOwn(t)
      BY <3>8 DEF RecvOwn
    <3>9. CASE RecvOther(t)
      BY <3>9 DEF RecvOther
    <3>10. CASE StoreOther(t)
      BY <3>10 DEF StoreOther
    <3>11. CASE RecvStray(t)
      BY <3>11 DEF RecvStray
    <3>12. CASE PollAgain(t)
      BY <3>12 DEF PollAgain
    <3>13. CASE Resend(t)
      BY <3>13 DEF Resend
    <3>14. CASE GiveUp(t)
      BY <3>14 DEF GiveUp
    <3>15. CASE CopyData(t)
      BY <3>15 DEF CopyData
    <3>16. CASE Release(t)
      BY <3>16 DEF Release
    <3>. QED
      BY <1>4, <3>1, <3>2, <3>3, <3>4, <3>5, <3>6, <3>7, <3>8, <3>9, <3>10, <3>11, <3>12, <3>13, <3>14, <3>15, <3>16
      DEF Step, Allocate, Transmit, InFrame, Conclude
  <2>. QED BY <2>1, <2>2 DEF SlotInv, FreeAhead
<1>. QED BY <1>1, <1>2, <1>3, <1>4

\* An undisturbed thread goes on waiting for the frame it waited for.
LEMMA UndisturbedAwaits ==
  ASSUME NEW u \in Threads, Undisturbed(u)
  PROVE  \A f : AwaitedBy(f, u) => AwaitedBy(f, u)'
BY DEF Undisturbed, AwaitedBy, Request, Replied, Owns, Waiting

\* A step that adds no frame and leaves none of its own thread's under way
\* keeps FramesAwaited.
LEMMA QuietStep ==
  ASSUME TypeInv, SlotInv, FramesAwaited, NEW t \in Threads, Step(t),
         ~ StoreOther(t), ~ UnderWay(t)', wire' \subseteq wire,
         tempbuf' = tempbuf, pc'[t] # "store"
  PROVE  FramesAwaited'
<1>1. \A u \in Threads \ {t} : Undisturbed(u)
  BY OthersUndisturbed
<1>2. \A f \in wire' : AwaitedBy(f, f.req.thread)'
  BY <1>1, UndisturbedAwaits, Types DEF UnderWay, FramesAwaited
<1>3. tempbuf # None => /\ AwaitedBy(tempbuf, tempbuf.req.thread)
                        /\ tempbuf.req.thread \in Threads \ {t}
  BY Types DEF UnderWay, FramesAwaited
<1>4. tempbuf' # None => AwaitedBy(tempbuf, tempbuf.req.thread)'
  <2>. SUFFICES ASSUME tempbuf # None
                PROVE  AwaitedBy(tempbuf, tempbuf.req.thread)'
    OBVIOUS
  <2>1. PICK u \in Threads \ {t} : u = tempbuf.req.thread
    BY <1>3
  <2>2. PICK f : f = tempbuf
    OBVIOUS
  <2>3. AwaitedBy(f, u)'
    BY <1>1, <1>3, <2>1, <2>2, UndisturbedAwaits
  <2>. QED BY <2>1, <2>2, <2>3 DEF AwaitedBy, Request
<1>5. \A u \in Threads : pc'[u] = "store" => tempbuf'.idx # idx'[u]
  BY <1>1 DEF FramesAwaited, Undisturbed
<1>. QED BY <1>2, <1>4, <1>5 DEF FramesAwaited

\* A step of a thread that goes on waiting, with the status of its index and
\* the frames under way as they were, keeps FramesAwaited.
LEMMA WaitingStep ==
  ASSUME TypeInv, SlotInv, FramesAwaited, NEW t \in Threads, Step(t),
         ~ StoreOther(t), wire' \subseteq wire, tempbuf' = tempbuf,
         pc[t] \in Waiting, pc'[t] \in Waiting \ {"store"},
         rxbufstat' = rxbufstat, idx' = idx, seq' = seq,
         pc'[t] = "check" => ~ Replied(t)'
  PROVE  FramesAwaited'
<1>1. \A u \in Threads \ {t} : Undisturbed(u)
  BY OthersUndisturbed
<1>2. \A u \in Threads : \A f : AwaitedBy(f, u) => AwaitedBy(f, u)'
  <2>1. \A f : AwaitedBy(f, t) => AwaitedBy(f, t)'
    BY Types DEF AwaitedBy, Request, Waiting
  <2>. QED BY <1>1, <2>1, UndisturbedAwaits
<1>3. \A f \in wire' : AwaitedBy(f, f.req.thread)'
  BY <1>2, Types DEF FramesAwaited
<1>4. tempbuf' # None => AwaitedBy(tempbuf, tempbuf.req.thread)'
  <2>. SUFFICES ASSUME tempbuf # None
                PROVE  AwaitedBy(tempbuf, tempbuf.req.thread)'
    OBVIOUS
  <2>1. PICK u \in Threads : u = tempbuf.req.thread
    BY Types
  <2>2. PICK f : f = tempbuf
    OBVIOUS
  <2>3. AwaitedBy(f, u)'
    BY <1>2, <2>1, <2>2 DEF FramesAwaited
  <2>. QED BY <2>1, <2>2, <2>3 DEF AwaitedBy, Request
<1>5. \A u \in Threads : pc'[u] = "store" => tempbuf'.idx # idx'[u]
  BY <1>1 DEF FramesAwaited, Undisturbed
<1>. QED BY <1>3, <1>4, <1>5 DEF FramesAwaited

\* Frames under way stay awaited.
LEMMA FramesStep ==
  ASSUME TypeInv, SlotInv, FramesAwaited, \A u \in Threads : Private(u), Prompt,
         NEW t \in Threads, Step(t)
  PROVE  FramesAwaited'
<1>. USE PortAssumption DEF socket, buffers, request, Goto
<1>0. /\ ~ (pc[t] \in Waiting /\ rxbufstat[idx[t]] = "TX") => ~ UnderWay(t)
      /\ pc[t] = "check" /\ Replied(t) => ~ UnderWay(t)
  BY Types DEF UnderWay, FramesAwaited, AwaitedBy
<1>1. CASE \/ GetIndex(t) \/ ScanNext(t) \/ TakeIndex(t) \/ SetupDatagram(t)
           \/ MarkTx(t) \/ PollHit(t) \/ CopyData(t) \/ Release(t)
  <2>1. /\ wire' = wire /\ tempbuf' = tempbuf
        /\ pc'[t] # "store" /\ ~ StoreOther(t) /\ ~ UnderWay(t)
    BY <1>0, <1>1, Types
    DEF GetIndex, ScanNext, TakeIndex, SetupDatagram, MarkTx, PollHit, CopyData,
        Release, Waiting, StoreOther
  <2>2. ~ UnderWay(t)'
    BY <2>1 DEF UnderWay
  <2>. QED BY <2>1, <2>2, QuietStep
<1>2. CASE SendFails(t)
  BY <1>2 DEF SendFails, Prompt
<1>3. CASE Resend(t) \/ GiveUp(t)
  <2>1. /\ wire' = wire /\ tempbuf' = tempbuf
        /\ pc'[t] # "store" /\ ~ StoreOther(t) /\ ~ UnderWay(t)
    BY <1>3, Types DEF Resend, GiveUp, TimerExpires, Prompt, StoreOther
  <2>2. ~ UnderWay(t)'
    BY <2>1 DEF UnderWay
  <2>. QED BY <2>1, <2>2, QuietStep
<1>4. CASE PollMiss(t) \/ RecvNothing(t) \/ RecvStray(t) \/ PollAgain(t)
  <2>1. /\ wire' \subseteq wire /\ tempbuf' = tempbuf /\ ~ StoreOther(t)
        /\ pc[t] \in Waiting /\ pc'[t] \in Waiting \ {"store"}
        /\ rxbufstat' = rxbufstat /\ idx' = idx /\ seq' = seq
        /\ pc'[t] = "check" => ~ Replied(t)'
    BY <1>4, Types
    DEF PollMiss, RecvNothing, RecvStray, PollAgain, Waiting, StoreOther, Replied,
        EC_NOFRAME, EC_OTHERFRAME
  <2>. QED BY <2>1, WaitingStep
<1>5. CASE Send(t)
  <2>0. PICK new :
          new = [idx |-> idx[t], req |-> txbuf[idx[t]], try |-> tries[t]]
    OBVIOUS
  <2>1. wire' = wire \union {new} /\ tempbuf' = tempbuf
    BY <1>5, <2>0 DEF Send
  <2>2. ~ UnderWay(t)
    BY <1>0, <1>5 DEF Send, Waiting
  <2>3. /\ new.idx = idx[t] /\ new.req = Request(t) /\ new.req.thread = t
        /\ rxbufstat[idx[t]] = "TX"
    BY <1>5, <2>0 DEF Send, Private, Request
  <2>4. AwaitedBy(new, t)'
    BY <1>5, <2>3, Types DEF Send, AwaitedBy, Request, Waiting
  <2>5. \A u \in Threads \ {t} : Undisturbed(u)
    BY <1>5, OthersUndisturbed DEF Send, StoreOther
  <2>6. \A f \in wire : AwaitedBy(f, f.req.thread)' /\ f.req.thread # t
    BY <2>2, <2>5, UndisturbedAwaits, Types DEF UnderWay, FramesAwaited
  <2>7. \A f \in wire' : AwaitedBy(f, f.req.thread)'
    BY <2>1, <2>3, <2>4, <2>6
  <2>8. \A f, g \in wire' : f.req.thread = g.req.thread => f = g
    BY <2>1, <2>3, <2>6 DEF FramesAwaited
  <2>9. tempbuf' # None =>
          /\ AwaitedBy(tempbuf, tempbuf.req.thread)'
          /\ \A f \in wire' : f.req.thread # tempbuf.req.thread
    <3>. SUFFICES ASSUME tempbuf # None
                  PROVE  /\ AwaitedBy(tempbuf, tempbuf.req.thread)'
                         /\ \A f \in wire' : f.req.thread # tempbuf.req.thread
      BY <2>1
    <3>1. PICK u \in Threads \ {t} : u = tempbuf.req.thread
      BY <2>2, Types DEF UnderWay
    <3>2. PICK f : f = tempbuf
      OBVIOUS
    <3>3. AwaitedBy(f, u)'
      BY <2>5, <3>1, <3>2, UndisturbedAwaits DEF FramesAwaited
    <3>4. \A g \in wire' : g.req.thread # tempbuf.req.thread
      BY <2>1, <2>3, <3>1 DEF FramesAwaited
    <3>. QED BY <2>1, <3>1, <3>2, <3>3, <3>4 DEF AwaitedBy, Request
  <2>10. \A u \in Threads : pc'[u] = "store" => tempbuf'.idx # idx'[u]
    BY <1>5, Types DEF Send, FramesAwaited
  <2>11. tempbuf' = tempbuf
    BY <2>1
  <2>. QED BY <2>7, <2>8, <2>9, <2>10, <2>11 DEF FramesAwaited
<1>6. CASE RecvOwn(t)
  <2>1. PICK f \in wire : f.idx = idx[t] /\ wire' = wire \ {f}
    BY <1>6 DEF RecvOwn, Matches
  <2>2. f.req.thread = t
    BY <1>6, <2>1, OwnFrame DEF RecvOwn, Owns
  <2>3. tempbuf' = tempbuf /\ pc'[t] # "store" /\ ~ StoreOther(t)
    BY <1>6, Types DEF RecvOwn, StoreOther
  <2>4. ~ UnderWay(t)'
    BY <2>1, <2>2, <2>3 DEF UnderWay, FramesAwaited
  <2>. QED BY <2>1, <2>3, <2>4, QuietStep
<1>7. CASE RecvOther(t)
  <2>1. PICK f \in wire :
          f.idx # idx[t] /\ wire' = wire \ {f} /\ tempbuf' = f
    BY <1>7 DEF RecvOther, Matches
  <2>2. tempbuf = None /\ \A u \in Threads : pc[u] # "store"
    BY <1>7 DEF RecvOther, TypeInv, Filled
  <2>3. \A u \in Threads \ {t} : Undisturbed(u)
    BY <1>7, OthersUndisturbed DEF RecvOther, StoreOther
  <2>4. \A g : AwaitedBy(g, t) => AwaitedBy(g, t)'
    BY <1>7, Types DEF RecvOther, AwaitedBy, Request, Waiting
  <2>5. \A g \in wire : AwaitedBy(g, g.req.thread)'
    BY <2>3, <2>4, UndisturbedAwaits, Types DEF FramesAwaited
  <2>6. AwaitedBy(tempbuf, tempbuf.req.thread)'
    BY <2>1, <2>5 DEF AwaitedBy, Request
  <2>7. \A u \in Threads : pc'[u] = "store" => tempbuf'.idx # idx'[u]
    BY <1>7, <2>1, <2>2, Types DEF RecvOther
  <2>8. \A g \in wire' : g.req.thread # tempbuf'.req.thread
    BY <2>1 DEF FramesAwaited
  <2>9. \A g, h \in wire' : g.req.thread = h.req.thread => g = h
    BY <2>1 DEF FramesAwaited
  <2>. QED BY <2>1, <2>5, <2>6, <2>7, <2>8, <2>9 DEF FramesAwaited
<1>8. CASE StoreOther(t)
  <2>1. /\ tempbuf # None /\ tempbuf.req.thread \in Threads \ {t}
        /\ tempbuf.idx # idx[t] /\ wire' = wire /\ tempbuf' = None
    BY <1>8, FiledFor DEF StoreOther, FramesAwaited
  <2>2. \A u \in Threads \ {t, tempbuf.req.thread} : Undisturbed(u)
    BY <1>8, StoreDisturbsOne
  <2>3. wkc[t] = EC_OTHERFRAME
    BY <1>8 DEF StoreOther, TypeInv, Filled
  <2>4. \A g : AwaitedBy(g, t) => AwaitedBy(g, t)'
    BY <1>8, <2>1, <2>3, Types
    DEF StoreOther, AwaitedBy, Request, Waiting, SetStat, Replied, EC_NOFRAME,
        EC_OTHERFRAME
  <2>5. \A g \in wire : g.req.thread \in Threads \ {tempbuf.req.thread}
    BY <2>1, Types DEF FramesAwaited
  <2>6. \A g \in wire : AwaitedBy(g, g.req.thread)'
    BY <2>2, <2>4, <2>5, UndisturbedAwaits DEF FramesAwaited
  <2>7. \A u \in Threads : pc'[u] # "store"
    BY <1>8, Types DEF StoreOther, TypeInv, Filled
  <2>. QED BY <2>1, <2>6, <2>7 DEF FramesAwaited
<1>. QED
  BY <1>1, <1>2, <1>3, <1>4, <1>5, <1>6, <1>7, <1>8
  DEF Step, Allocate, Transmit, InFrame, Conclude

\* The thread whose reply is filed finds its own in the buffer.
LEMMA FiledPrivate ==
  ASSUME TypeInv, FramesAwaited, \A u \in Threads : Private(u),
         NEW t \in Threads, StoreOther(t)
  PROVE  \E v \in Threads : v = tempbuf.req.thread /\ Private(v)'
<1>1. PICK v \in Threads \ {t} : v = tempbuf.req.thread
  BY FiledFor
<1>2. /\ pc[v] \in Waiting /\ tempbuf.idx = idx[v] /\ tempbuf.req = Request(v)
      /\ pc[v] = "check" => ~ Replied(v)
  BY <1>1, FiledFor DEF AwaitedBy
<1>3. /\ pc'[v] = pc[v] /\ wkc' = wkc /\ idx' = idx /\ seq' = seq
      /\ data' = data /\ txbuf' = txbuf
  BY <1>1, Types DEF StoreOther, Goto, request
<1>4. rxbufstat'[idx[v]] = "RCVD" /\ rxbuf'[idx[v]].req = Request(v)
  BY <1>2, Types DEF StoreOther, SetStat
<1>5. Private(v)
  OBVIOUS
<1>6. Private(v)'
  BY <1>2, <1>3, <1>4, <1>5 DEF Private, Request, Replied, Waiting
<1>. QED BY <1>1, <1>6

\* PortInv is inductive in the environment in which the driver keeps its
\* promises.
LEMMA PortInvStep ==
  ASSUME TypeInv, PortInv, Prompt, Roomy, [Next]_vars
  PROVE  PortInv'
<1>1. ASSUME NEW t \in Threads, Step(t) PROVE PortInv'
  <2>1. \A u \in Threads : Private(u)'
    <3>1. Private(t)'
      BY <1>1, ActorPrivate DEF PortInv
    <3>2. CASE ~ StoreOther(t)
      BY <1>1, <3>1, <3>2, OthersUndisturbed, UndisturbedPrivate DEF PortInv
    <3>3. CASE StoreOther(t)
      <4>1. PICK v \in Threads : v = tempbuf.req.thread /\ Private(v)'
        BY <3>3, FiledPrivate DEF PortInv
      <4>. QED
        BY <3>1, <3>3, <4>1, StoreDisturbsOne, UndisturbedPrivate DEF PortInv
    <3>. QED BY <3>2, <3>3
  <2>. QED
    BY <1>1, <2>1, ExclusiveStep, InUseStep, FreeAheadStep, FramesStep
    DEF PortInv, SlotInv
<1>2. CASE LoseFrame
  <2>1. wire' \subseteq wire /\ UNCHANGED <<rxbufstat, txbuf, rxbuf, pc, idx,
                             cnt, seq, wkc, data, tempbuf>>
    BY <1>2 DEF LoseFrame, buffers, request
  <2>2. SlotInv' /\ \A u \in Threads : Private(u)'
    BY <2>1
    DEF PortInv, SlotInv, IndexExclusive, OnlyInUse, OwnedInUse, FreeAhead,
        Owns, Private, Request, Replied
  <2>3. FramesAwaited'
    BY <2>1 DEF PortInv, FramesAwaited, AwaitedBy, Request, Replied
  <2>. QED BY <2>2, <2>3 DEF PortInv
<1>3. CASE UNCHANGED vars
  BY <1>3
  DEF vars, buffers, socket, request, search, PortInv, SlotInv, IndexExclusive,
      OnlyInUse, OwnedInUse, FreeAhead, Owns, Private, Request, Replied,
      FramesAwaited, AwaitedBy
<1>. QED BY <1>1, <1>2, <1>3 DEF Next, Rest

\* TypeInv and PortInv hold throughout, from their being inductive.
LEMMA PortInvAlways ==
  ASSUME Prompt, Roomy
  PROVE  Spec => [](TypeInv /\ PortInv)
<1>1. Init => TypeInv /\ PortInv
  BY InitTypeInv, InitPortInv
<1>2. TypeInv /\ PortInv /\ [Next]_vars => (TypeInv /\ PortInv)'
  BY TypeInvStep, PortInvStep
<1>. QED BY <1>1, <1>2, PTL DEF Spec

\* No two threads ever hold the same frame index.
THEOREM IndicesExclusive ==
  ASSUME Prompt, Roomy
  PROVE  Spec => []IndexExclusive
<1>1. TypeInv /\ PortInv => IndexExclusive
  BY DEF PortInv, SlotInv
<1>. QED BY <1>1, PortInvAlways, PTL

\* What a primitive hands its caller is the reply to the caller's datagram.
THEOREM AnswersOwn ==
  ASSUME Prompt, Roomy
  PROVE  Spec => []AnswerIsOwn
<1>1. TypeInv /\ PortInv => AnswerIsOwn
  BY DEF PortInv, Private, AnswerIsOwn
<1>. QED BY <1>1, PortInvAlways, PTL

-----------------------------------------------------------------------------
\* One step of the port is a step of a caller's call, or none.
LEMMA CallStep ==
  ASSUME TypeInv, PortInv, NEW t \in Threads, Step(t)
  PROVE  [Calls!Next]_(Calls!vars)
<1>1. CASE GetIndex(t)
  <2>1. Calls!Ask(t)
    BY <1>1, Types DEF GetIndex, Goto, Calls!Ask
  <2>. QED BY <2>1 DEF Calls!Next
<1>2. CASE CopyData(t) /\ wkc[t] > 0
  <2>1. rxbuf[idx[t]].req = Request(t)
    BY <1>2 DEF CopyData, PortInv, Private
  <2>2. Calls!Answer(t)
    BY <1>2, <2>1, Types DEF CopyData, Goto, request, Calls!Answer, Request
  <2>. QED BY <2>2 DEF Calls!Next
<1>3. CASE CopyData(t) /\ ~ (wkc[t] > 0)
  <2>1. Calls!Fail(t)
    BY <1>3, Types DEF CopyData, Goto, request, Calls!Fail
  <2>. QED BY <2>1 DEF Calls!Next
<1>4. CASE GiveUp(t)
  <2>1. Calls!Fail(t)
    BY <1>4, Types DEF GiveUp, Goto, request, Calls!Fail
  <2>. QED BY <2>1 DEF Calls!Next
<1>5. CASE Release(t)
  <2>1. Calls!Return(t)
    BY <1>5, Types DEF Release, Goto, request, Calls!Return
  <2>. QED BY <2>1 DEF Calls!Next
<1>6. CASE ~ (GetIndex(t) \/ CopyData(t) \/ GiveUp(t) \/ Release(t))
  <2>1. /\ seq' = seq /\ data' = data
        /\ \A u \in Threads : /\ pc'[u] = "idle" <=> pc[u] = "idle"
                              /\ pc'[u] = "free" <=> pc[u] = "free"
    <3>. USE Types DEF Goto, request
    <3>1. CASE ScanNext(t)
      BY <3>1 DEF ScanNext
    <3>2. CASE TakeIndex(t)
      BY <3>2 DEF TakeIndex
    <3>3. CASE SetupDatagram(t)
      BY <3>3 DEF SetupDatagram
    <3>4. CASE MarkTx(t)
      BY <3>4 DEF MarkTx
    <3>5. CASE Send(t)
      BY <3>5 DEF Send
    <3>6. CASE SendFails(t)
      BY <3>6 DEF SendFails
    <3>7. CASE PollHit(t)
      BY <3>7 DEF PollHit
    <3>8. CASE PollMiss(t)
      BY <3>8 DEF PollMiss
    <3>9. CASE RecvNothing(t)
      BY <3>9 DEF RecvNothing
    <3>10. CASE RecvOwn(t)
      BY <3>10 DEF RecvOwn
    <3>11. CASE RecvOther(t)
      BY <3>11 DEF RecvOther
    <3>12. CASE StoreOther(t)
      BY <3>12 DEF StoreOther
    <3>13. CASE RecvStray(t)
      BY <3>13 DEF RecvStray
    <3>14. CASE PollAgain(t)
      BY <3>14 DEF PollAgain
    <3>15. CASE Resend(t)
      BY <3>15 DEF Resend
    <3>. QED
      BY <1>6, <3>1, <3>2, <3>3, <3>4, <3>5, <3>6, <3>7, <3>8, <3>9, <3>10, <3>11, <3>12, <3>13, <3>14, <3>15
      DEF Step, Allocate, Transmit, InFrame, Conclude
  <2>. QED BY <2>1, Types DEF Calls!vars
<1>. QED BY <1>1, <1>2, <1>3, <1>4, <1>5, <1>6

\* The port implements the promise of the primitives to their callers.
THEOREM PortImplementsCalls ==
  ASSUME Prompt, Roomy
  PROVE  Spec => CallsAnswered
<1>1. Init => Calls!Init
  BY DEF Init, Calls!Init
<1>2. TypeInv /\ PortInv /\ [Next]_vars => [Calls!Next]_(Calls!vars)
  <2>. SUFFICES ASSUME TypeInv, PortInv, [Next]_vars
                PROVE  [Calls!Next]_(Calls!vars)
    OBVIOUS
  <2>1. CASE LoseFrame \/ UNCHANGED vars
    BY <2>1 DEF LoseFrame, vars, request, Calls!vars
  <2>. QED BY <2>1, CallStep DEF Next, Rest
<1>. QED BY <1>1, <1>2, PortInvAlways, PTL DEF Spec, CallsAnswered, Calls!Spec
=============================================================================
