---------------------------- MODULE PortsProofs ----------------------------
(***************************************************************************)
(* What holds of the port driver's parts that are checked together:        *)
(*                                                                         *)
(*   - each port of Ports implements the transactions of Transactions:     *)
(*     EveryPortKeepsPromise, for any number of threads, indices, calls    *)
(*     and transmissions, when there are at least as many indices as       *)
(*     threads;                                                            *)
(*   - frames of any number of datagrams of any lengths are laid out,      *)
(*     walked and read correctly: EachReadsOwn of Datagrams;               *)
(*   - a ring of any number of slaves survives a break anywhere, and never *)
(*     takes the dummy for an answer: BreakTolerated and AnswerIsDatagram  *)
(*     of RedPort, for any losses and changes, when the timeouts exceed    *)
(*     the round trip of a frame.                                          *)
(***************************************************************************)
EXTENDS Ports, Datagrams, RedPort, FiniteSetTheorems, SequenceTheorems, WellFoundedInduction,
        TLAPS

-----------------------------------------------------------------------------
(***************************************************************************)
(* The ports (Ports)                                                       *)
(***************************************************************************)

AnyRequest == [thread : Threads, seq : Nat]
AnyFrame   == [idx : Slots, req : AnyRequest, try : Nat]
Statuses   == {"EMPTY", "ALLOC", "TX", "RCVD", "COMPLETE"}
Places     == {"idle", "out", "in", "recv", "store", "check", "free"}
Waiting    == {"in", "recv", "store", "check"}

PortType ==
  /\ rxbufstat \in [Slots -> Statuses] /\ lastidx \in Slots
  /\ txbuf \in [Slots -> AnyRequest \union {None}]
  /\ rxbuf \in [Slots -> AnyRequest \union {None}]
  /\ msgQ \in [Slots -> Seq(AnyFrame)]
  /\ wire \subseteq AnyFrame \union {Foreign} /\ hand \in AnyFrame \union {None}
  /\ pc \in [Threads -> Places] /\ seq \in [Threads -> Nat] /\ idx \in [Threads -> Slots]
  /\ tries \in [Threads -> Nat] /\ got \in [Threads -> BOOLEAN]
  /\ data \in [Threads -> AnyRequest \union {None}]

\* One thread at a time files a frame, or reads on.
Locked ==
  \A t \in Threads : /\ pc[t] \in {"recv", "store"} => lock = t /\ system # "vxworks"
                     /\ pc[t] = "store" => hand # None

\* A thread has an index from its allocation to its release, an index has one
\* thread, and is in use while it has one.
Holds(t) == pc[t] # "idle"
Indices ==
  /\ \A t, u \in Threads : Holds(t) /\ Holds(u) /\ idx[t] = idx[u] => t = u
  /\ \A t \in Threads : Holds(t) => rxbufstat[idx[t]] # "EMPTY"
  /\ \A s \in Slots : rxbufstat[s] # "EMPTY" => \E t \in Threads : Holds(t) /\ idx[t] = s

\* What the buffers of an index hold is of the thread that has it.
Private(t) ==
  /\ pc[t] \notin {"idle", "free"} => txbuf[idx[t]] = Request(t)
  /\ pc[t] = "check" /\ got[t] => rxbuf[idx[t]] = Request(t)
  /\ pc[t] \in {"out", "in", "recv", "store"} => ~ got[t]
  /\ Holds(t) /\ rxbufstat[idx[t]] = "RCVD" => rxbuf[idx[t]] = Request(t)
  /\ system = "vxworks" /\ pc[t] \in {"in", "check"} /\ msgQ[idx[t]] # << >> =>
       Head(msgQ[idx[t]]).req = Request(t)

\* Thread t waits for frame f.
AwaitedBy(f, t) ==
  /\ pc[t] \in Waiting /\ ~ got[t]
  /\ f.idx = idx[t] /\ f.req = Request(t)
  /\ rxbufstat[idx[t]] = "TX"
  /\ system = "vxworks" => msgQ[idx[t]] = << >>

\* Each frame under way is awaited, and each thread has at most one.
Framed ==
  /\ \A f \in wire \ {Foreign} : AwaitedBy(f, f.req.thread)
  /\ \A f, g \in wire \ {Foreign} : f.req.thread = g.req.thread => f = g
  /\ hand # None => /\ AwaitedBy(hand, hand.req.thread)
                    /\ \A f \in wire \ {Foreign} : f.req.thread # hand.req.thread

PortInv == PortType /\ Locked /\ Indices /\ Framed /\ \A t \in Threads : Private(t)

\* No more threads than indices.
Roomy == Cardinality(Threads) <= MaxBuf

-----------------------------------------------------------------------------
(* The search finds a free index.                                           *)

\* Of any numbers there is a least one.
LEMMA LeastExists ==
  ASSUME NEW S \in SUBSET Nat, S # {}
  PROVE  \E x \in S : \A y \in S : x <= y
<1> DEFINE R == OpToRel(<, Nat)
<1>1. PICK x \in S : \A y \in S : ~ (<<y, x>> \in R)
  <2>1. IsWellFoundedOn(R, Nat)
    BY NatLessThanWellFounded
  <2> HIDE DEF R
  <2> QED BY <2>1, WFMin
<1>2. \A y \in S : y < x => <<y, x>> \in R
  BY DEF OpToRel
<1>3. \A y \in S : y \in Nat /\ x \in Nat /\ ~ (y < x)
  <2> HIDE DEF R
  <2> QED BY <1>1, <1>2
<1> QED BY <1>3

\* What the constants are.
LEMMA Ports0 == MaxBuf \in Nat /\ MaxBuf >= 1 /\ IsFiniteSet(Threads) /\ None \notin Slots
BY PortsAssumption DEF PortsAssumption

\* Another thread than those that have an index finds one that is free.
LEMMA Pigeonhole ==
  ASSUME Roomy, NEW t \in Threads, NEW f \in [Threads -> Slots]
  PROVE  \E s \in Slots : \A u \in Threads \ {t} : f[u] # s
<1>. DEFINE others == Threads \ {t}
            holder == [s \in Slots |-> CHOOSE u \in others : f[u] = s]
<1>. SUFFICES ASSUME \A s \in Slots : \E u \in others : f[u] = s
              PROVE  FALSE
  OBVIOUS
<1>1. /\ IsFiniteSet(others)
      /\ Cardinality(others) = Cardinality(Threads) - 1
      /\ Cardinality(Threads) \in Nat
  BY Ports0, FS_RemoveElement, FS_CardinalityType
<1>2. Cardinality(Slots) = MaxBuf /\ IsFiniteSet(Slots)
  BY Ports0, FS_Interval DEF Slots
<1>3. Cardinality(others) < Cardinality(Slots)
  BY <1>1, <1>2, Ports0 DEF Roomy
<1>4. holder \in [Slots -> others] /\ \A s \in Slots : f[holder[s]] = s
  OBVIOUS
<1>. HIDE DEF holder, others
<1>5. PICK x, y \in Slots : x # y /\ holder[x] = holder[y]
  BY <1>1, <1>2, <1>3, <1>4, FS_PigeonHole
<1>. QED BY <1>4, <1>5

\* The search of ecx_getindex finds a free index: there are no more threads than indices.
LEMMA FoundFree ==
  ASSUME Roomy, PortType, Indices, NEW t \in Threads, ~ Holds(t)
  PROVE  Found \in Slots /\ rxbufstat[Found] = "EMPTY"
<1> DEFINE After(k) == (lastidx + k) % MaxBuf
           free == {k \in 1 .. MaxBuf : rxbufstat[After(k)] = "EMPTY"}
<1>1. PICK s \in Slots : \A u \in Threads \ {t} : idx[u] # s
  BY Pigeonhole DEF PortType
<1>2. rxbufstat[s] = "EMPTY"
  BY <1>1 DEF Indices, Holds
<1>3. lastidx \in 0 .. MaxBuf - 1 /\ s \in 0 .. MaxBuf - 1 /\ MaxBuf \in Nat /\ MaxBuf >= 1
  BY Ports0 DEF PortType, Slots
<1>4. \E k \in 1 .. MaxBuf : After(k) = s
  <2>1. CASE s > lastidx
    <3>1. s - lastidx \in 1 .. MaxBuf /\ lastidx + (s - lastidx) = s
      BY <1>3, <2>1
    <3>2. s % MaxBuf = s
      BY <1>3
    <3> QED BY <3>1, <3>2
  <2>2. CASE s <= lastidx
    <3>1. s - lastidx + MaxBuf \in 1 .. MaxBuf /\ lastidx + (s - lastidx + MaxBuf) = s + MaxBuf
      BY <1>3, <2>2
    <3>2. (s + MaxBuf) % MaxBuf = s
      BY <1>3
    <3> QED BY <3>1, <3>2
  <2> QED BY <1>3, <2>1, <2>2
<1>5. free # {} /\ free \in SUBSET Nat
  BY <1>2, <1>4
<1>6. Min(free) \in free
  <2> HIDE DEF free
  <2>1. \E x \in free : \A y \in free : x <= y
    BY <1>5, LeastExists
  <2> QED BY <2>1 DEF Min
<1>7. Found = After(Min(free))
  BY <1>5 DEF Found
<1>8. \A k \in 1 .. MaxBuf : After(k) \in Slots
  BY <1>3 DEF Slots
<1> QED BY <1>6, <1>7, <1>8

-----------------------------------------------------------------------------
(* Who is not disturbed by a step keeps what he has.                        *)

Undisturbed(u) ==
  /\ system' = system
  /\ pc'[u] = pc[u] /\ idx'[u] = idx[u] /\ seq'[u] = seq[u] /\ got'[u] = got[u]
  /\ Holds(u) => /\ rxbufstat'[idx[u]] = rxbufstat[idx[u]]
                 /\ txbuf'[idx[u]] = txbuf[idx[u]] /\ rxbuf'[idx[u]] = rxbuf[idx[u]]
                 /\ msgQ'[idx[u]] = msgQ[idx[u]]

\* What holds of a thread whose state and index a step leaves alone still holds.
LEMMA UndisturbedKeeps ==
  ASSUME NEW u \in Threads, Undisturbed(u)
  PROVE  /\ Private(u) => Private(u)'
         /\ \A f : AwaitedBy(f, u) => AwaitedBy(f, u)'
<1>1. Private(u) => Private(u)'
  BY DEF Undisturbed, Private, Holds, Request
<1>2. \A f : AwaitedBy(f, u) => AwaitedBy(f, u)'
  BY DEF Undisturbed, AwaitedBy, Holds, Request, Waiting
<1> QED BY <1>1, <1>2

\* A thread that works only on its own index disturbs no other.
LEMMA OthersUndisturbed ==
  ASSUME PortType, Indices, NEW t \in Threads, Holds(t), system' = system,
         \A u \in Threads \ {t} : /\ pc'[u] = pc[u] /\ idx'[u] = idx[u] /\ seq'[u] = seq[u]
                                  /\ got'[u] = got[u],
         \A s \in Slots \ {idx[t]} : /\ rxbufstat'[s] = rxbufstat[s] /\ txbuf'[s] = txbuf[s]
                                     /\ rxbuf'[s] = rxbuf[s] /\ msgQ'[s] = msgQ[s]
  PROVE  \A u \in Threads \ {t} : Undisturbed(u)
<1>1. \A u \in Threads \ {t} : Holds(u) => idx[u] \in Slots \ {idx[t]}
  BY DEF Indices, PortType
<1> QED BY <1>1 DEF Undisturbed

\* No index is taken or given back.
LEMMA IndicesStay ==
  ASSUME PortType, Indices, idx' = idx,
         \A u \in Threads : Holds(u)' <=> Holds(u),
         \A s \in Slots : rxbufstat'[s] = "EMPTY" <=> rxbufstat[s] = "EMPTY"
  PROVE  Indices'
BY DEF Indices, PortType

\* What is being filed is no frame of others.
LEMMA NotForeign ==
  ASSUME PortType
  PROVE  hand # None => hand # Foreign
<1>1. hand # None => hand.idx \in Slots
  BY DEF PortType, AnyFrame
<1>2. Foreign.idx \notin Slots
  BY Ports0 DEF Foreign
<1> QED BY <1>1, <1>2

\* Frames leave, at most; who waits for one that stays still does.
LEMMA FramedStays ==
  ASSUME PortType, Framed, wire' \subseteq wire \union {Foreign},
         hand' \in {hand, None} \/ (hand' \in wire \ {Foreign} /\ hand' \notin wire'),
         \A f \in wire \union ({hand} \ {None}), u \in Threads :
           /\ f # Foreign /\ f.req.thread = u /\ AwaitedBy(f, u)
           /\ f \in wire' \/ f = hand'
           => AwaitedBy(f, u)'
  PROVE  Framed'
<1>1. \A f \in wire \ {Foreign} : f.req.thread \in Threads
  BY DEF PortType, AnyFrame, AnyRequest
<1>2. hand # None => hand.req.thread \in Threads
  BY DEF PortType, AnyFrame, AnyRequest
<1>3. \A f \in wire' \ {Foreign} : f \in wire \ {Foreign}
  OBVIOUS
<1>4. (\A f \in wire \ {Foreign} : AwaitedBy(f, f.req.thread))'
  <2>1. ASSUME NEW f \in wire' \ {Foreign} PROVE AwaitedBy(f, f.req.thread)'
    <3>1. f \in wire \ {Foreign} /\ f.req.thread \in Threads
      BY <1>1, <1>3
    <3>2. AwaitedBy(f, f.req.thread)
      BY <3>1 DEF Framed
    <3> QED BY <2>1, <3>1, <3>2
  <2> QED BY <2>1 DEF AwaitedBy, Request
<1>5. hand' # None =>
        /\ hand' \in wire \union ({hand} \ {None}) /\ hand' # Foreign
        /\ (hand' \in wire \ {Foreign} /\ hand' \notin wire') \/ hand' = hand
  BY NotForeign
<1>6. (hand # None => AwaitedBy(hand, hand.req.thread))'
  <2>1. ASSUME hand' # None, NEW h, h = hand' PROVE AwaitedBy(h, h.req.thread)'
    <3>1. /\ h \in wire \union ({hand} \ {None}) /\ h # Foreign /\ h.req.thread \in Threads
          /\ h \in wire \ {Foreign} \/ (h = hand /\ hand # None)
      BY <1>1, <1>2, <1>5, <2>1
    <3>2. AwaitedBy(h, h.req.thread)
      BY <3>1 DEF Framed
    <3> QED BY <2>1, <3>1, <3>2
  <2> QED BY <2>1 DEF AwaitedBy, Request
<1>7. \A f, g \in wire' \ {Foreign} : f.req.thread = g.req.thread => f = g
  BY <1>3 DEF Framed
<1>8. hand' # None => \A f \in wire' \ {Foreign} : f.req.thread # hand'.req.thread
  BY <1>3, <1>5 DEF Framed
<1> QED BY <1>4, <1>6, <1>7, <1>8 DEF Framed, AwaitedBy

\* The frame a thread finds under its own index is its own.
LEMMA OwnFrame ==
  ASSUME PortType, Indices, Framed, NEW t \in Threads, Holds(t), NEW f \in wire, f.idx = idx[t]
  PROVE  f # Foreign /\ f.req.thread = t /\ AwaitedBy(f, t)
<1>1. f # Foreign
  BY Ports0 DEF PortType, Foreign
<1>2. AwaitedBy(f, f.req.thread) /\ f.req.thread \in Threads
  BY <1>1 DEF Framed, PortType, AnyFrame, AnyRequest
<1>3. Holds(f.req.thread) /\ idx[f.req.thread] = idx[t]
  BY <1>2 DEF AwaitedBy, Holds, Waiting
<1>4. f.req.thread = t
  BY <1>2, <1>3 DEF Indices
<1> QED BY <1>1, <1>2, <1>4

\* Another's frame is awaited.
LEMMA NoStray ==
  ASSUME PortType, Framed, NEW f \in wire, f # Foreign
  PROVE  Awaited(f) /\ f \in AnyFrame /\ f.req.thread \in Threads /\ AwaitedBy(f, f.req.thread)
BY DEF Framed, PortType, AnyFrame, AnyRequest, AwaitedBy, Awaited

\* Of a thread that is not UnderWay, and of one that does not wait, no frame is.
LEMMA NoFrame ==
  ASSUME PortType, Framed, NEW t \in Threads,
         ~ UnderWay(t) \/ got[t] \/ pc[t] \notin Waiting \/ rxbufstat[idx[t]] # "TX"
         \/ (system = "vxworks" /\ msgQ[idx[t]] # << >>)
  PROVE  \A f \in wire \union ({hand} \ {None}) : f # Foreign => f.req.thread # t
<1> SUFFICES ASSUME NEW f \in wire \union ({hand} \ {None}), f # Foreign, f.req.thread = t
             PROVE  FALSE
  OBVIOUS
<1>1. AwaitedBy(f, t)
  BY DEF Framed
<1> QED BY <1>1 DEF AwaitedBy, UnderWay

-----------------------------------------------------------------------------
(* The steps of a thread that has an index.                                 *)

\* A step of thread t that disturbs no other thread.
LEMMA StepKeeps ==
  ASSUME PortInv, NEW t \in Threads, PortType', Locked', Indices', Private(t)',
         \A u \in Threads \ {t} : Undisturbed(u),
         wire' \subseteq wire \union {Foreign},
         hand' \in {hand, None} \/ (hand' \in wire \ {Foreign} /\ hand' \notin wire'),
         \A f \in wire \union ({hand} \ {None}) :
           /\ f # Foreign /\ f.req.thread = t /\ AwaitedBy(f, t)
           /\ f \in wire' \/ f = hand'
           => AwaitedBy(f, t)'
  PROVE  PortInv'
<1>1. ASSUME NEW f \in wire \union ({hand} \ {None}), NEW u \in Threads,
             f # Foreign, f.req.thread = u, AwaitedBy(f, u), f \in wire' \/ f = hand'
      PROVE  AwaitedBy(f, u)'
  <2>1. CASE u = t
    BY <1>1, <2>1
  <2>2. CASE u # t
    BY <1>1, <2>2, UndisturbedKeeps
  <2> QED BY <2>1, <2>2
<1>2. Framed'
  BY <1>1, FramedStays DEF PortInv
<1>3. ASSUME NEW u \in Threads PROVE Private(u)'
  <2>1. CASE u = t
    BY <2>1
  <2>2. CASE u # t
    BY <2>2, UndisturbedKeeps DEF PortInv
  <2> QED BY <2>1, <2>2
<1> QED BY <1>2, <1>3 DEF PortInv

\* One that works on its own index and keeps it.
LEMMA OwnStep ==
  ASSUME PortInv, NEW t \in Threads, Holds(t), system' = system, idx' = idx, seq' = seq,
         \A u \in Threads \ {t} : pc'[u] = pc[u] /\ got'[u] = got[u],
         \A s \in Slots \ {idx[t]} : /\ rxbufstat'[s] = rxbufstat[s] /\ txbuf'[s] = txbuf[s]
                                     /\ rxbuf'[s] = rxbuf[s] /\ msgQ'[s] = msgQ[s],
         pc'[t] # "idle", rxbufstat'[idx[t]] # "EMPTY"
  PROVE  /\ Indices'
         /\ \A u \in Threads \ {t} : Undisturbed(u)
<1>1. \A u \in Threads \ {t} : Undisturbed(u)
  BY OthersUndisturbed DEF PortInv
<1>2. \A u \in Threads : Holds(u)' <=> Holds(u)
  BY DEF Holds
<1>3. \A s \in Slots : rxbufstat'[s] = "EMPTY" <=> rxbufstat[s] = "EMPTY"
  BY DEF PortInv, Indices
<1> QED BY <1>1, <1>2, <1>3, IndicesStay DEF PortInv

\* One that leaves the buffers alone while it waits.
LEMMA WaitStep ==
  ASSUME PortInv, NEW t \in Threads, NEW l \in Waiting, pc[t] \in Waiting, ~ got[t],
         pc' = [pc EXCEPT ![t] = l], UNCHANGED <<system, shared, local>>,
         wire' \subseteq wire \union {Foreign},
         hand' \in {hand, None} \/ (hand' \in wire \ {Foreign} /\ hand' \notin wire'),
         Locked'
  PROVE  PortInv'
<1>1. PortType'
  BY DEF PortInv, PortType, Places, Waiting, shared, local
<1>2. Holds(t) /\ pc'[t] = l /\ l # "idle"
  BY DEF Holds, Waiting, PortInv, PortType
<1>3. Indices' /\ \A u \in Threads \ {t} : Undisturbed(u)
  BY <1>2, OwnStep DEF shared, local, PortInv, PortType, Indices
<1>4. Private(t)'
  BY <1>2 DEF shared, local, PortInv, Private, Holds, Request, Waiting, Locked
<1>5. \A f : AwaitedBy(f, t) => AwaitedBy(f, t)'
  BY <1>2 DEF shared, local, AwaitedBy, Request
<1> QED BY <1>1, <1>3, <1>4, <1>5, StepKeeps

\* The lock passes from nobody or t, to nobody or t.
LEMMA LockedStep ==
  ASSUME PortInv, NEW t \in Threads, lock \in {t, None}, system' = system,
         \A u \in Threads \ {t} : pc'[u] = pc[u],
         pc'[t] \in {"recv", "store"} => lock' = t /\ system # "vxworks",
         pc'[t] = "store" => hand' # None
  PROVE  Locked'
<1>1. None \notin Threads
  BY PortsAssumption DEF PortsAssumption
<1>2. \A u \in Threads \ {t} : pc'[u] \notin {"recv", "store"}
  BY <1>1 DEF PortInv, Locked
<1> QED BY <1>2 DEF Locked

\* A step that does not concern the lock.
LEMMA LockedStays ==
  ASSUME PortInv, NEW t \in Threads, system' = system, lock' = lock, hand' = hand,
         \A u \in Threads \ {t} : pc'[u] = pc[u], pc'[t] \notin {"recv", "store"}
  PROVE  Locked'
BY DEF PortInv, Locked

-----------------------------------------------------------------------------
(* What each step does.                                                     *)

\* ecx_outframe, of any port.
Transmits(t) ==
  /\ pc[t] = "out" /\ SetStat(idx[t], "TX") /\ Sent(t)
  /\ msgQ' = IF system = "vxworks" THEN [msgQ EXCEPT ![idx[t]] = << >>] ELSE msgQ

\* A transmission, the first or a repeated one, out of the buffer of the thread's own index.
LEMMA TransmitsKeeps ==
  ASSUME PortInv, NEW t \in Threads, Transmits(t)
  PROVE  PortInv'
<1>0. PICK F : F = Frame(t)
  OBVIOUS
<1>1. /\ F \in AnyFrame /\ F.idx = idx[t] /\ F.req = Request(t) /\ F.req.thread = t
      /\ F # Foreign
  <2>1. txbuf[idx[t]] = Request(t) /\ Request(t) \in AnyRequest
    BY DEF PortInv, PortType, Private, Transmits, Request, AnyRequest
  <2>2. F \in AnyFrame
    BY <1>0, <2>1 DEF Frame, AnyFrame, PortInv, PortType
  <2>3. F # Foreign
    BY <2>2, Ports0 DEF AnyFrame, Foreign
  <2> QED BY <1>0, <2>1, <2>2, <2>3 DEF Frame, Request
<1>2. Holds(t) /\ pc'[t] = "in" /\ pc[t] = "out" /\ ~ got[t]
  BY DEF Transmits, Sent, Goto, Holds, PortInv, PortType, Private
<1>3. PortType'
  <2>1. << >> \in Seq(AnyFrame)
    BY EmptySeq
  <2>2. msgQ' \in [Slots -> Seq(AnyFrame)]
    BY <2>1 DEF Transmits, PortInv, PortType
  <2>3. rxbufstat' \in [Slots -> Statuses]
    BY DEF Transmits, SetStat, PortInv, PortType, Statuses
  <2> QED BY <1>0, <1>1, <2>2, <2>3 DEF Transmits, Sent, Goto, PortInv, PortType, Places
<1>4. Indices' /\ \A u \in Threads \ {t} : Undisturbed(u)
  BY <1>2, OwnStep DEF Transmits, Sent, SetStat, Goto, PortInv, PortType, Statuses
<1>5. Locked'
  BY <1>2, LockedStays DEF Transmits, Sent, Goto, PortInv, PortType
<1>6. Private(t)'
  BY <1>2, <1>4 DEF Transmits, Sent, SetStat, PortInv, PortType, Private, Request
<1>7. AwaitedBy(F, t)'
  BY <1>1, <1>2 DEF Transmits, Sent, SetStat, PortInv, PortType, AwaitedBy, Request, Waiting
<1>8. \A f \in wire \union ({hand} \ {None}) : f # Foreign => f.req.thread # t
  BY <1>2, NoFrame DEF PortInv, Waiting
<1>9. wire' = wire \union {F} /\ hand' = hand
  BY <1>0 DEF Transmits, Sent
<1>10. \A f \in wire \ {Foreign} : f.req.thread \in Threads \ {t}
  BY <1>8 DEF PortInv, PortType, AnyFrame, AnyRequest
<1>11. hand # None => hand.req.thread \in Threads \ {t} /\ hand # Foreign
  BY <1>8, NotForeign DEF PortInv, PortType, AnyFrame, AnyRequest
<1>12. (\A f \in wire \ {Foreign} : AwaitedBy(f, f.req.thread))'
  <2>1. ASSUME NEW f \in wire' \ {Foreign} PROVE AwaitedBy(f, f.req.thread)'
    <3>1. CASE f = F
      BY <1>1, <1>7, <3>1
    <3>2. CASE f \in wire \ {Foreign}
      <4>1. AwaitedBy(f, f.req.thread)
        BY <3>2 DEF PortInv, Framed
      <4> QED BY <1>4, <1>10, <3>2, <4>1, UndisturbedKeeps
    <3> QED BY <1>9, <3>1, <3>2
  <2> QED BY <2>1 DEF AwaitedBy, Request
<1>13. (hand # None => AwaitedBy(hand, hand.req.thread))'
  <2>1. ASSUME NEW h, h = hand, h # None PROVE AwaitedBy(h, h.req.thread)'
    <3>1. AwaitedBy(h, h.req.thread)
      BY <2>1 DEF PortInv, Framed
    <3> QED BY <1>4, <1>11, <2>1, <3>1, UndisturbedKeeps
  <2> QED BY <1>9, <2>1 DEF AwaitedBy, Request
<1>14. \A f, g \in wire' \ {Foreign} : f.req.thread = g.req.thread => f = g
  BY <1>1, <1>9, <1>10 DEF PortInv, Framed
<1>15. hand' # None => \A f \in wire' \ {Foreign} : f.req.thread # hand'.req.thread
  BY <1>1, <1>9, <1>11 DEF PortInv, Framed
<1>16. Framed'
  BY <1>12, <1>13, <1>14, <1>15 DEF Framed, AwaitedBy
<1>17. ASSUME NEW u \in Threads \ {t} PROVE Private(u)'
  BY <1>4, UndisturbedKeeps DEF PortInv
<1> QED BY <1>3, <1>4, <1>5, <1>6, <1>16, <1>17 DEF PortInv

\* INtime: the adapter is busy, and nothing is sent.
LEMMA BusyKeeps ==
  ASSUME PortInv, NEW t \in Threads, InTimeBusy(t)
  PROVE  PortInv'
<1>1. Holds(t) /\ pc'[t] = "in" /\ pc[t] = "out" /\ ~ got[t]
  BY DEF InTimeBusy, Goto, Holds, PortInv, PortType, Private
<1>2. PortType'
  BY DEF InTimeBusy, Goto, shared, net, PortInv, PortType, Places
<1>3. Indices' /\ \A u \in Threads \ {t} : Undisturbed(u)
  BY <1>1, OwnStep DEF InTimeBusy, Goto, shared, net, PortInv, PortType, Indices
<1>4. Locked'
  BY <1>1, LockedStays DEF InTimeBusy, Goto, net, PortInv, PortType
<1>5. Private(t)'
  BY <1>1 DEF InTimeBusy, Goto, shared, PortInv, PortType, Private, Request, Holds
<1>6. \A f \in wire \union ({hand} \ {None}) : f # Foreign => f.req.thread # t
  BY <1>1, NoFrame DEF PortInv, Waiting
<1> QED BY <1>2, <1>3, <1>4, <1>5, <1>6, StepKeeps DEF InTimeBusy, net

\* The answer was filed by another thread and is taken from the buffer.
LEMMA BufferHitKeeps ==
  ASSUME PortInv, NEW t \in Threads, pc[t] = "in", BufferHit(t), system # "vxworks"
  PROVE  PortInv'
<1>1. Holds(t) /\ pc'[t] = "check" /\ rxbufstat[idx[t]] = "RCVD" /\ rxbufstat'[idx[t]] = "COMPLETE"
  BY DEF BufferHit, Goto, SetStat, Holds, PortInv, PortType
<1>2. PortType'
  BY DEF BufferHit, Goto, SetStat, net, PortInv, PortType, Places, Statuses
<1>3. Indices' /\ \A u \in Threads \ {t} : Undisturbed(u)
  BY <1>1, OwnStep DEF BufferHit, Goto, SetStat, net, PortInv, PortType
<1>4. Locked'
  BY <1>1, LockedStays DEF BufferHit, Goto, net, PortInv, PortType
<1>5. Private(t)'
  BY <1>1 DEF BufferHit, PortInv, PortType, Private, Request, Holds
<1>6. \A f \in wire \union ({hand} \ {None}) : f # Foreign => f.req.thread # t
  BY <1>1, NoFrame DEF PortInv
<1> QED BY <1>2, <1>3, <1>4, <1>5, <1>6, StepKeeps DEF BufferHit, net

\* A read leaves a part of what was in the socket.
LEMMA LeftBehind == \A f \in wire : wire' \in Left(f) => wire' \subseteq wire \ {f}
BY DEF Left

\* The thread receives its own frame.
LEMMA TakeOwnKeeps ==
  ASSUME PortInv, NEW t \in Threads, pc[t] \in {"in", "recv"}, lock \in {t, None}, TakeOwn(t),
         system # "vxworks"
  PROVE  PortInv'
<1>1. Holds(t) /\ pc'[t] = "check" /\ rxbufstat'[idx[t]] = "COMPLETE"
  BY DEF TakeOwn, Goto, SetStat, Holds, PortInv, PortType
<1>2. PICK f \in wire : /\ f.idx = idx[t] /\ wire' \subseteq wire \ {f}
                        /\ rxbuf' = [rxbuf EXCEPT ![idx[t]] = f.req]
  BY LeftBehind DEF TakeOwn
<1>3. f # Foreign /\ f.req.thread = t /\ AwaitedBy(f, t)
  BY <1>1, <1>2, OwnFrame DEF PortInv
<1>4. f.req = Request(t) /\ f.req \in AnyRequest
  BY <1>2, <1>3 DEF AwaitedBy, PortInv, PortType, AnyFrame
<1>5. PortType'
  BY <1>2, <1>4 DEF TakeOwn, Goto, SetStat, PortInv, PortType, Places, Statuses
<1>6. Indices' /\ \A u \in Threads \ {t} : Undisturbed(u)
  BY <1>1, <1>2, OwnStep DEF TakeOwn, Goto, SetStat, PortInv, PortType
<1>7. Locked'
  BY <1>1, LockedStep DEF TakeOwn, Goto, PortInv, PortType
<1>8. Private(t)'
  BY <1>1, <1>2, <1>4 DEF TakeOwn, PortInv, PortType, Private, Request, Holds
<1>9. hand' = hand
  BY DEF TakeOwn
<1>10. \A g \in wire \union ({hand} \ {None}) :
         g # Foreign /\ g.req.thread = t => ~ (g \in wire' \/ g = hand')
  <2>1. f # None
    BY <1>3, PortsAssumption DEF PortsAssumption, PortInv, PortType, AnyFrame, AnyRequest
  <2> QED BY <1>2, <1>3, <1>9, <2>1 DEF PortInv, Framed
<1>11. wire' \subseteq wire \union {Foreign}
  BY <1>2
<1> QED BY <1>5, <1>6, <1>7, <1>8, <1>9, <1>10, <1>11, StepKeeps

\* VxWorks: the frame is taken from the queue of the index.
LEMMA VxInframeKeeps ==
  ASSUME PortInv, NEW t \in Threads, VxInframe(t)
  PROVE  PortInv'
<1>1. /\ Holds(t) /\ pc[t] = "in" /\ pc'[t] = "check" /\ rxbufstat'[idx[t]] = "COMPLETE"
      /\ system = "vxworks" /\ msgQ[idx[t]] # << >>
  BY DEF VxInframe, Polls, Goto, SetStat, Holds, PortInv, PortType
<1>2. Head(msgQ[idx[t]]) \in AnyFrame /\ Head(msgQ[idx[t]]).req = Request(t)
  <2>1. msgQ[idx[t]] \in Seq(AnyFrame)
    BY DEF PortInv, PortType
  <2>2. Head(msgQ[idx[t]]) \in AnyFrame
    BY <1>1, <2>1, HeadTailProperties
  <2> QED BY <1>1, <2>2 DEF PortInv, Private
<1>3. PortType'
  <2>1. << >> \in Seq(AnyFrame)
    BY EmptySeq
  <2>2. msgQ' \in [Slots -> Seq(AnyFrame)]
    BY <2>1 DEF VxInframe, PortInv, PortType
  <2>3. rxbuf' \in [Slots -> AnyRequest \union {None}]
    BY <1>2 DEF VxInframe, PortInv, PortType, AnyFrame
  <2> QED BY <2>2, <2>3 DEF VxInframe, Goto, SetStat, net, PortInv, PortType, Places, Statuses
<1>4. Indices' /\ \A u \in Threads \ {t} : Undisturbed(u)
  BY <1>1, OwnStep DEF VxInframe, Goto, SetStat, net, PortInv, PortType
<1>5. Locked'
  BY <1>1, LockedStays DEF VxInframe, Goto, net, PortInv, PortType
<1>6. Private(t)'
  BY <1>1, <1>2 DEF VxInframe, PortInv, PortType, Private, Request, Holds
<1>7. \A f \in wire \union ({hand} \ {None}) : f # Foreign => f.req.thread # t
  BY <1>1, NoFrame DEF PortInv
<1> QED BY <1>3, <1>4, <1>5, <1>6, <1>7, StepKeeps DEF VxInframe, net

\* The caller copies the data of the answer.
LEMMA CopyDataKeeps ==
  ASSUME PortInv, NEW t \in Threads, CopyData(t)
  PROVE  PortInv'
<1>1. Holds(t) /\ pc[t] = "check" /\ got[t] /\ pc'[t] = "free"
  BY DEF CopyData, Goto, Holds, PortInv, PortType
<1>2. PortType'
  BY DEF CopyData, Goto, shared, net, PortInv, PortType, Places
<1>3. Indices' /\ \A u \in Threads \ {t} : Undisturbed(u)
  BY <1>1, OwnStep DEF CopyData, Goto, shared, net, PortInv, PortType, Indices
<1>4. Locked'
  BY <1>1, LockedStays DEF CopyData, Goto, net, PortInv, PortType
<1>5. Private(t)'
  BY <1>1 DEF CopyData, shared, PortInv, Private, Request, Holds
<1>6. \A f \in wire \union ({hand} \ {None}) : f # Foreign => f.req.thread # t
  BY <1>1, NoFrame DEF PortInv
<1> QED BY <1>2, <1>3, <1>4, <1>5, <1>6, StepKeeps DEF CopyData, net

\* ecx_srconfirm sends again, or ends, when no frame of the thread is under way.
LEMMA AgainKeeps ==
  ASSUME PortInv, NEW t \in Threads, NEW l \in {"out", "free"}, ~ UnderWay(t), Again(t, l)
  PROVE  PortInv'
<1>1. Holds(t) /\ pc[t] = "check" /\ ~ got[t] /\ pc'[t] = l
  BY DEF Again, Goto, Holds, PortInv, PortType
<1>2. PortType'
  BY DEF Again, Goto, shared, net, local, PortInv, PortType, Places
<1>3. Indices' /\ \A u \in Threads \ {t} : Undisturbed(u)
  BY <1>1, OwnStep DEF Again, Goto, shared, net, local, PortInv, PortType, Indices
<1>4. Locked'
  BY <1>1, LockedStays DEF Again, Goto, net, PortInv, PortType
<1>5. Private(t)'
  BY <1>1 DEF Again, shared, local, PortInv, Private, Request, Holds
<1>6. \A f \in wire \union ({hand} \ {None}) : f # Foreign => f.req.thread # t
  BY <1>1, NoFrame DEF PortInv
<1> QED BY <1>2, <1>3, <1>4, <1>5, <1>6, StepKeeps DEF Again, net

\* A frame taken for another thread is a frame, and the thread that takes it
\* has not got its own.
LEMMA TakeOtherKeeps ==
  ASSUME PortInv, NEW t \in Threads, pc[t] \in {"in", "recv"}, lock \in {t, None}, TakeOther(t),
         system # "vxworks"
  PROVE  PortInv'
<1>1. ~ got[t] /\ pc[t] \in Waiting /\ "store" \in Waiting
  BY DEF PortInv, Private, Waiting
<1>2. PICK f \in wire : f # Foreign /\ wire' \subseteq wire \ {f} /\ hand' = f
  BY LeftBehind DEF TakeOther, Awaited
<1>3. f # None
  BY <1>2, PortsAssumption DEF PortsAssumption, PortInv, PortType, AnyFrame, AnyRequest
<1>4. Locked'
  BY <1>2, <1>3, LockedStep DEF TakeOther, Goto, PortInv, PortType
<1>5. pc' = [pc EXCEPT ![t] = "store"] /\ UNCHANGED <<system, shared, local>>
  BY DEF TakeOther, Goto
<1>6. /\ wire' \subseteq wire \union {Foreign}
      /\ hand' \in {hand, None} \/ (hand' \in wire \ {Foreign} /\ hand' \notin wire')
  BY <1>2
<1>7. "store" \in Waiting
  BY DEF Waiting
<1> QED BY <1>1, <1>4, <1>5, <1>6, <1>7, WaitStep

\* Nothing came for t, or a frame of another protocol.
LEMMA NothingComes ==
  ASSUME PortInv, NEW t \in Threads, pc[t] \in {"in", "recv"}, lock \in {t, None},
         NothingRead(t) \/ DropStray(t) \/ ErikaEnter(t) \/ (pc[t] = "recv" /\ ErikaStray(t)),
         system # "vxworks"
  PROVE  PortInv'
<1>1. ~ got[t] /\ pc[t] \in Waiting /\ pc[t] \in Places
  BY DEF PortInv, PortType, Private, Waiting
<1>2. \A f \in wire : Stray(t, f) => f = Foreign
  BY NoStray DEF PortInv, Stray
<1>3. PICK l \in Waiting : /\ pc' = [pc EXCEPT ![t] = l] /\ UNCHANGED <<system, shared, local>>
                           /\ l # "store" /\ (l = "recv" => lock' = t)
  <2>1. CASE NothingRead(t)
    BY <2>1 DEF NothingRead, Goto, Waiting
  <2>2. CASE DropStray(t)
    BY <1>2, <2>2 DEF DropStray, Goto, Waiting
  <2>3. CASE ErikaEnter(t)
    BY <2>3 DEF ErikaEnter, Goto, Waiting
  <2>4. CASE pc[t] = "recv" /\ ErikaStray(t)
    <3>1. pc' = [pc EXCEPT ![t] = "recv"] /\ lock = t /\ lock' = lock
      BY <2>4 DEF ErikaStray, PortInv, PortType, Locked
    <3> QED BY <2>4, <3>1 DEF ErikaStray, Waiting
  <2> QED BY <2>1, <2>2, <2>3, <2>4
<1>4. hand' = hand /\ wire' \subseteq wire
  BY LeftBehind DEF NothingRead, DropStray, ErikaEnter, ErikaStray
<1>5. Locked'
  BY <1>3, LockedStep DEF PortInv, PortType
<1> QED BY <1>1, <1>3, <1>4, <1>5, WaitStep

\* A thread that received nothing receives again.
LEMMA PollAgainKeeps ==
  ASSUME PortInv, NEW t \in Threads, PollAgain(t) \/ VxTimeout(t)
  PROVE  PortInv'
<1>1. ~ got[t] /\ pc[t] \in Waiting
  BY DEF PortInv, Private, Waiting, PollAgain, Again, VxTimeout, Polls
<1>2. PICK l \in {"in", "check"} : /\ pc' = [pc EXCEPT ![t] = l]
                              /\ UNCHANGED <<system, shared, net, local>>
  BY DEF PollAgain, Again, VxTimeout, Goto
<1>3. Locked'
  BY <1>2, LockedStays DEF PortInv, PortType, net
<1>4. wire' \subseteq wire \union {Foreign} /\ hand' = hand
  BY <1>2 DEF net
<1>5. l \in Waiting
  BY DEF Waiting
<1> QED BY <1>1, <1>2, <1>3, <1>4, <1>5, WaitStep

\* Filing a frame in a buffer, or posting it in a queue, completes the wait of
\* the thread it is for.
LEMMA HandFor ==
  ASSUME PortInv, hand # None
  PROVE  /\ hand.req.thread \in Threads /\ AwaitedBy(hand, hand.req.thread)
         /\ Holds(hand.req.thread) /\ hand \in AnyFrame
         /\ hand.idx = idx[hand.req.thread] /\ hand.req = Request(hand.req.thread)
<1>1. hand.req.thread \in Threads /\ AwaitedBy(hand, hand.req.thread) /\ hand \in AnyFrame
  BY DEF PortInv, PortType, Framed, AnyFrame, AnyRequest
<1> QED BY <1>1 DEF AwaitedBy, Holds, Waiting

\* A frame of another index is filed in the buffer of that index.
LEMMA StoreOtherKeeps ==
  ASSUME PortInv, NEW t \in Threads, StoreOther(t)
  PROVE  PortInv'
<1>1. /\ pc[t] = "store" /\ hand # None /\ lock = t /\ ~ got[t]
      /\ pc'[t] = "check" /\ system # "vxworks"
  BY DEF StoreOther, Goto, PortInv, PortType, Locked, Private
<1>2. PICK u \in Threads : u = hand.req.thread
  BY <1>1, HandFor
<1>3. PICK s \in Slots : s = hand.idx
  BY <1>1, HandFor DEF AnyFrame
<1>4. /\ AwaitedBy(hand, u) /\ Holds(u) /\ s = idx[u] /\ hand.req = Request(u) /\ ~ got[u]
      /\ rxbufstat[s] = "TX" /\ hand \in AnyFrame
  BY <1>1, <1>2, <1>3, HandFor DEF AwaitedBy
<1>5. /\ rxbuf' = [rxbuf EXCEPT ![s] = Request(u)] /\ rxbufstat' = [rxbufstat EXCEPT ![s] = "RCVD"]
      /\ pc' = [pc EXCEPT ![t] = "check"] /\ hand' = None /\ lock' = None /\ wire' = wire
      /\ UNCHANGED <<system, lastidx, txbuf, msgQ, seq, idx, tries, got, data>>
  BY <1>3, <1>4 DEF StoreOther, SetStat, Goto, local
<1>6. PortType'
  <2>1. Request(u) \in AnyRequest
    BY <1>4 DEF AnyFrame
  <2> QED BY <1>5, <2>1 DEF PortInv, PortType, Places, Statuses
<1>7. Locked'
  BY <1>1, <1>5, LockedStep DEF PortInv, PortType
<1>8. Indices'
  <2>1. \A v \in Threads : Holds(v)' <=> Holds(v)
    BY <1>1, <1>5 DEF Holds, PortInv, PortType
  <2>2. \A r \in Slots : rxbufstat'[r] = "EMPTY" <=> rxbufstat[r] = "EMPTY"
    BY <1>4, <1>5 DEF PortInv, PortType
  <2> QED BY <1>5, <2>1, <2>2, IndicesStay DEF PortInv
<1>9. \A v \in Threads \ {u} : Holds(v) => idx[v] # s /\ idx[v] \in Slots
  BY <1>4 DEF PortInv, PortType, Indices
<1>10. \A v \in Threads \ {t, u} : Undisturbed(v)
  BY <1>5, <1>9 DEF Undisturbed, PortInv, PortType
<1>11. ASSUME NEW v \in Threads \ {u} PROVE \A f : AwaitedBy(f, v) => AwaitedBy(f, v)'
  <2>1. CASE v = t
    <3>1. /\ pc[t] \in Waiting /\ pc'[t] \in Waiting /\ ~ got'[t] /\ idx'[t] = idx[t] /\ seq' = seq
          /\ rxbufstat'[idx[t]] = rxbufstat[idx[t]] /\ system' = system /\ msgQ' = msgQ
      BY <1>1, <1>5, <1>9, <1>11, <2>1 DEF Waiting, Holds, PortInv, PortType
    <3> QED BY <2>1, <3>1 DEF AwaitedBy, Request
  <2>2. CASE v # t
    BY <1>10, <2>2, UndisturbedKeeps
  <2> QED BY <2>1, <2>2
<1>12. Framed'
  <2>1. \A f \in wire \ {Foreign} : f.req.thread # u
    BY <1>1, <1>2 DEF PortInv, Framed
  <2>2. hand' = None /\ wire' = wire
    BY <1>5
  <2>3. \A f \in wire' \ {Foreign} : f # None
    BY <2>2, PortsAssumption DEF PortsAssumption, PortInv, PortType, AnyFrame, AnyRequest
  <2> QED BY <1>11, <2>1, <2>2, <2>3, FramedStays DEF PortInv
<1>13. ASSUME NEW v \in Threads PROVE Private(v)'
  <2>1. CASE v \notin {t, u}
    BY <1>10, <2>1, UndisturbedKeeps DEF PortInv
  <2>2. CASE v = u
    <3>1. /\ rxbuf'[idx'[u]] = Request(u)' /\ got'[u] = got[u] /\ txbuf' = txbuf /\ idx' = idx
          /\ Request(u)' = Request(u) /\ pc[u] \in Waiting /\ system' = system
      BY <1>4, <1>5 DEF Request, PortInv, PortType, AwaitedBy
    <3>2. ~ got'[u]
      BY <1>4, <3>1
    <3> QED BY <1>1, <2>2, <3>1, <3>2 DEF Private, PortInv, Waiting
  <2>3. CASE v = t /\ v # u
    <3>1. /\ rxbuf'[idx'[t]] = rxbuf[idx[t]] /\ rxbufstat'[idx'[t]] = rxbufstat[idx[t]]
          /\ txbuf' = txbuf /\ idx' = idx /\ Request(t)' = Request(t) /\ system' = system
      BY <1>1, <1>5, <1>9, <2>3 DEF Request, PortInv, PortType, Holds
    <3>2. got' = got /\ Holds(t) /\ pc'[t] = "check"
      BY <1>1, <1>5 DEF Holds
    <3> QED BY <1>1, <2>3, <3>1, <3>2 DEF Private, PortInv
  <2> QED BY <2>1, <2>2, <2>3
<1> QED BY <1>6, <1>7, <1>8, <1>12, <1>13 DEF PortInv

\* VxWorks: the network task posts the frame to the queue of its index.
LEMMA VxPostKeeps ==
  ASSUME PortInv, VxPost
  PROVE  PortInv'
<1>1. hand # None
  BY DEF VxPost
<1>2. PICK u \in Threads : u = hand.req.thread
  BY <1>1, HandFor
<1>3. PICK s \in Slots : s = hand.idx
  BY <1>1, HandFor DEF AnyFrame
<1>4. AwaitedBy(hand, u) /\ Holds(u) /\ s = idx[u] /\ hand.req = Request(u) /\ hand \in AnyFrame
  BY <1>1, <1>2, <1>3, HandFor
<1>5. /\ msgQ' = [msgQ EXCEPT ![s] = << hand >>] /\ hand' = None /\ wire' = wire
      /\ UNCHANGED <<system, rxbufstat, lastidx, txbuf, rxbuf, lock, pc, seq, idx, tries, got, data>>
  BY <1>3 DEF VxPost, local
<1>6. PortType'
  <2>1. << hand >> \in Seq(AnyFrame)
    BY <1>4
  <2> QED BY <1>5, <2>1 DEF PortInv, PortType
<1>7. Locked'
  BY <1>5 DEF VxPost, PortInv, Locked
<1>8. Indices'
  BY <1>5, IndicesStay DEF PortInv, Holds
<1>9. \A v \in Threads \ {u} : Holds(v) => idx[v] # s /\ idx[v] \in Slots
  BY <1>4 DEF PortInv, PortType, Indices
<1>10. \A v \in Threads \ {u} : Undisturbed(v)
  BY <1>5, <1>9 DEF Undisturbed, PortInv, PortType
<1>11. Framed'
  <2>1. \A f \in wire \ {Foreign} : f.req.thread # u
    BY <1>1, <1>2 DEF PortInv, Framed
  <2>2. \A v \in Threads \ {u} : \A f : AwaitedBy(f, v) => AwaitedBy(f, v)'
    BY <1>10, UndisturbedKeeps
  <2>3. \A f \in wire' \ {Foreign} : f # None
    BY <1>5, PortsAssumption DEF PortsAssumption, PortInv, PortType, AnyFrame, AnyRequest
  <2> QED BY <1>5, <2>1, <2>2, <2>3, FramedStays DEF PortInv
<1>12. ASSUME NEW v \in Threads PROVE Private(v)'
  <2>1. CASE v # u
    BY <1>10, <2>1, UndisturbedKeeps DEF PortInv
  <2>2. CASE v = u
    <3>1. Head(msgQ'[idx'[u]]).req = Request(u)'
      BY <1>4, <1>5 DEF Request, PortInv, PortType
    <3> QED BY <1>5, <2>2, <3>1 DEF Private, PortInv, Holds, Request
  <2> QED BY <2>1, <2>2
<1> QED BY <1>6, <1>7, <1>8, <1>11, <1>12 DEF PortInv

\* What moves on the wire, or out of it, disturbs nobody.
LEMMA WireKeeps ==
  ASSUME PortInv, UNCHANGED <<system, shared, lock, pc, local>>,
         wire' \subseteq wire \union {Foreign},
         hand' = hand \/ (system = "vxworks" /\ hand' = None)
         \/ (system = "vxworks" /\ hand' \in wire \ {Foreign} /\ hand' \notin wire')
  PROVE  PortInv'
<1>1. PortType'
  BY DEF PortInv, PortType, shared, local
<1>2. Locked'
  BY DEF PortInv, Locked
<1>3. Indices'
  BY IndicesStay DEF PortInv, Holds, shared, local
<1>4. \A u \in Threads : Undisturbed(u)
  BY DEF Undisturbed, shared, local
<1>5. Framed'
  BY <1>4, UndisturbedKeeps, FramedStays DEF PortInv
<1>6. \A u \in Threads : Private(u)'
  BY <1>4, UndisturbedKeeps DEF PortInv
<1> QED BY <1>1, <1>2, <1>3, <1>5, <1>6 DEF PortInv

\* Frames are lost, and frames of others come.
LEMMA NetworkKeeps ==
  ASSUME PortInv, NetworkTask \/ LoseFrame \/ ForeignFrame
  PROVE  PortInv'
<1>1. CASE VxCallback
  BY <1>1, WireKeeps DEF VxCallback, Awaited
<1>2. CASE VxPost
  BY <1>2, VxPostKeeps
<1>3. CASE LoseFrame \/ ForeignFrame
  BY <1>3, WireKeeps DEF LoseFrame, ForeignFrame
<1> QED BY <1>1, <1>2, <1>3 DEF NetworkTask

\* The index is given back.
LEMMA ReleaseKeeps ==
  ASSUME PortInv, NEW t \in Threads, Release(t)
  PROVE  PortInv'
<1>1. Holds(t) /\ pc[t] = "free" /\ pc'[t] = "idle" /\ rxbufstat'[idx[t]] = "EMPTY"
  BY DEF Release, Goto, SetStat, Holds, PortInv, PortType
<1>2. PortType'
  BY DEF Release, Goto, SetStat, net, local, PortInv, PortType, Places, Statuses
<1>3. \A u \in Threads \ {t} : Undisturbed(u)
  BY <1>1, OthersUndisturbed DEF Release, Goto, SetStat, net, local, PortInv, PortType
<1>4. Locked'
  BY <1>1, LockedStays DEF Release, Goto, net, PortInv, PortType
<1>5. Private(t)'
  BY <1>1 DEF Private, Holds
<1>6. Indices'
  <2>1. \A u \in Threads : Holds(u)' <=> Holds(u) /\ u # t
    BY <1>1 DEF Release, Goto, Holds, PortInv, PortType
  <2>2. \A s \in Slots : rxbufstat'[s] = IF s = idx[t] THEN "EMPTY" ELSE rxbufstat[s]
    BY DEF Release, SetStat, PortInv, PortType
  <2>3. idx' = idx
    BY DEF Release, local
  <2> QED BY <1>1, <2>1, <2>2, <2>3 DEF PortInv, PortType, Indices
<1>7. \A f \in wire \union ({hand} \ {None}) : f # Foreign => f.req.thread # t
  BY <1>1, NoFrame DEF PortInv, Waiting
<1> QED BY <1>2, <1>3, <1>4, <1>5, <1>6, <1>7, StepKeeps DEF Release, net

\* An index is allocated.
LEMMA AllocateKeeps ==
  ASSUME Roomy, PortInv, NEW t \in Threads, Allocate(t)
  PROVE  PortInv'
<1>1. ~ Holds(t) /\ pc[t] = "idle" /\ pc'[t] = "out"
  BY DEF Allocate, Goto, Holds, PortInv, PortType
<1>2. PICK s \in Slots : s = Found /\ rxbufstat[s] = "EMPTY"
  BY <1>1, FoundFree DEF PortInv
<1>3. /\ rxbufstat' = [rxbufstat EXCEPT ![s] = "ALLOC"] /\ lastidx' = s
      /\ idx' = [idx EXCEPT ![t] = s] /\ seq' = [seq EXCEPT ![t] = @ + 1]
      /\ tries' = [tries EXCEPT ![t] = 0] /\ data' = [data EXCEPT ![t] = None]
      /\ got' = [got EXCEPT ![t] = FALSE]
      /\ txbuf' = [txbuf EXCEPT ![s] = [thread |-> t, seq |-> seq[t] + 1]]
      /\ pc' = [pc EXCEPT ![t] = "out"] /\ UNCHANGED <<system, rxbuf, msgQ, wire, hand, lock>>
  BY <1>2 DEF Allocate, Goto, SetStat, net
<1>4. PortType'
  <2>1. [thread |-> t, seq |-> seq[t] + 1] \in AnyRequest
    BY DEF AnyRequest, PortInv, PortType
  <2>2. rxbufstat' \in [Slots -> Statuses] /\ pc' \in [Threads -> Places]
    BY <1>3 DEF PortInv, PortType, Statuses, Places
  <2> QED BY <1>2, <1>3, <2>1, <2>2 DEF PortInv, PortType
<1>5. \A u \in Threads \ {t} : Holds(u) => idx[u] \in Slots \ {s}
  BY <1>2 DEF PortInv, PortType, Indices
<1>6. \A u \in Threads \ {t} : Undisturbed(u)
  BY <1>3, <1>5 DEF Undisturbed, PortInv, PortType
<1>7. Locked'
  BY <1>1, <1>3, LockedStays DEF PortInv, PortType
<1>8. Private(t)'
  BY <1>3 DEF Private, PortInv, PortType, Request, Holds
<1>9. Indices'
  <2>1. \A u \in Threads : Holds(u)' <=> Holds(u) \/ u = t
    BY <1>3 DEF Holds, PortInv, PortType
  <2>2. \A u \in Threads : idx'[u] = IF u = t THEN s ELSE idx[u]
    BY <1>3 DEF PortInv, PortType
  <2>3. \A r \in Slots : rxbufstat'[r] = IF r = s THEN "ALLOC" ELSE rxbufstat[r]
    BY <1>3 DEF PortInv, PortType
  <2>4. \A u, v \in Threads : Holds(u)' /\ Holds(v)' /\ idx'[u] = idx'[v] => u = v
    BY <1>5, <2>1, <2>2 DEF PortInv, Indices
  <2>5. \A u \in Threads : Holds(u)' => rxbufstat'[idx'[u]] # "EMPTY"
    <3>1. ASSUME NEW u \in Threads, Holds(u)' PROVE rxbufstat'[idx'[u]] # "EMPTY"
      <4>1. CASE u = t
        BY <2>2, <2>3, <4>1
      <4>2. CASE u # t
        BY <1>5, <2>1, <2>2, <2>3, <3>1, <4>2 DEF PortInv, Indices
      <4> QED BY <4>1, <4>2
    <3> QED BY <3>1
  <2>6. \A r \in Slots : rxbufstat'[r] # "EMPTY" => \E u \in Threads : Holds(u)' /\ idx'[u] = r
    <3>1. ASSUME NEW r \in Slots, rxbufstat'[r] # "EMPTY"
          PROVE  \E u \in Threads : Holds(u)' /\ idx'[u] = r
      <4>1. CASE r = s
        BY <2>1, <2>2, <4>1
      <4>2. CASE r # s
        <5>1. PICK u \in Threads : Holds(u) /\ idx[u] = r
          BY <2>3, <3>1, <4>2 DEF PortInv, Indices
        <5> QED BY <1>1, <2>1, <2>2, <5>1
      <4> QED BY <4>1, <4>2
    <3> QED BY <3>1
  <2> QED BY <2>4, <2>5, <2>6 DEF Indices, Holds
<1>10. \A f \in wire \union ({hand} \ {None}) : f # Foreign => f.req.thread # t
  BY <1>1, NoFrame DEF PortInv, Waiting
<1> QED BY <1>3, <1>4, <1>6, <1>7, <1>8, <1>9, <1>10, StepKeeps

-----------------------------------------------------------------------------
(* All the ports together.                                                  *)

\* Whatever the port, a step of a thread is one of these.
LEMMA StepKinds ==
  ASSUME PortInv, NEW t \in Threads, Step(t)
  PROVE  \/ Allocate(t) \/ Transmits(t) \/ InTimeBusy(t)
         \/ pc[t] = "in" /\ BufferHit(t) /\ system # "vxworks"
         \/ /\ pc[t] \in {"in", "recv"} /\ lock \in {t, None} /\ system # "vxworks"
            /\ \/ TakeOwn(t) \/ TakeOther(t) \/ NothingRead(t) \/ DropStray(t) \/ ErikaEnter(t)
               \/ pc[t] = "recv" /\ ErikaStray(t)
         \/ StoreOther(t) \/ VxInframe(t) \/ VxTimeout(t) \/ PollAgain(t)
         \/ ~ UnderWay(t) /\ (Again(t, "out") \/ Again(t, "free"))
         \/ CopyData(t) \/ Release(t)
<1>1. ASSUME NEW S \in {"win32", "macosx", "rtems", "rtk", "erika", "intime"}, Outframe(t, S)
      PROVE  Transmits(t)
  BY <1>1 DEF Outframe, Transmits
<1>2. VxOutframe(t) => Transmits(t)
  BY DEF VxOutframe, Transmits, Abandon
<1>3. ASSUME NEW S \in {"win32", "macosx", "rtems", "rtk", "intime"}, OneFrame(t, S)
      PROVE  \/ pc[t] = "in" /\ BufferHit(t) /\ system # "vxworks"
             \/ /\ pc[t] = "in" /\ lock = None /\ system # "vxworks"
                /\ TakeOwn(t) \/ TakeOther(t) \/ DropStray(t) \/ NothingRead(t)
             \/ StoreOther(t)
  BY <1>3 DEF OneFrame, Polls
<1>4. pc[t] = "recv" => lock = t
  BY DEF PortInv, Locked
<1>5. ErikaInframe(t) =>
        \/ pc[t] = "in" /\ BufferHit(t) /\ system # "vxworks"
        \/ /\ pc[t] \in {"in", "recv"} /\ lock \in {t, None} /\ system # "vxworks"
           /\ \/ TakeOwn(t) \/ TakeOther(t) \/ NothingRead(t) \/ ErikaEnter(t)
              \/ pc[t] = "recv" /\ ErikaStray(t)
        \/ StoreOther(t)
  BY <1>4 DEF ErikaInframe, ErikaEnter, Polls
<1>6. \A S : Resend(t, S) => ~ UnderWay(t) /\ Again(t, "out")
  BY DEF Resend
<1>7. WinStep(t) \/ MacStep(t) \/ RtemsStep(t) \/ RtkStep(t) \/ InTimeStep(t) =>
        \/ Allocate(t) \/ Transmits(t) \/ InTimeBusy(t)
        \/ pc[t] = "in" /\ BufferHit(t) /\ system # "vxworks"
        \/ /\ pc[t] = "in" /\ lock = None /\ system # "vxworks"
           /\ TakeOwn(t) \/ TakeOther(t) \/ DropStray(t) \/ NothingRead(t)
        \/ StoreOther(t)
        \/ ~ UnderWay(t) /\ Again(t, "out")
  BY <1>1, <1>3, <1>6
  DEF WinStep, WinGetIndex, WinOutframe, WinInframe, WinResend,
      MacStep, MacGetIndex, MacOutframe, MacInframe, MacResend,
      RtemsStep, RtemsGetIndex, RtemsOutframe, RtemsInframe, RtemsResend,
      RtkStep, RtkGetIndex, RtkOutframe, RtkInframe, RtkResend,
      InTimeStep, InTimeGetIndex, InTimeOutframe, InTimeInframe
<1>8. ErikaStep(t) => \/ Allocate(t) \/ Transmits(t) \/ ErikaInframe(t)
                      \/ ~ UnderWay(t) /\ Again(t, "out")
  BY <1>1, <1>6 DEF ErikaStep, ErikaGetIndex, ErikaOutframe, ErikaResend
<1>9. VxStep(t) => \/ Allocate(t) \/ Transmits(t) \/ VxInframe(t) \/ VxTimeout(t)
                   \/ ~ UnderWay(t) /\ Again(t, "out")
  BY <1>2, <1>6 DEF VxStep, VxGetIndex, VxResend
<1>10. Conclude(t) => \/ PollAgain(t) \/ CopyData(t) \/ Release(t)
                      \/ ~ UnderWay(t) /\ Again(t, "free")
  BY DEF Conclude, GiveUp
<1> QED BY <1>5, <1>7, <1>8, <1>9, <1>10 DEF Step

\* Every step of a port keeps the invariant.
LEMMA PortInvStep ==
  ASSUME Roomy, PortInv, [PortNext]_portVars
  PROVE  PortInv'
<1>1. ASSUME NEW t \in Threads, Step(t) PROVE PortInv'
  <2>1. CASE Allocate(t)
    BY <2>1, AllocateKeeps
  <2>2. CASE Transmits(t) \/ InTimeBusy(t)
    BY <2>2, TransmitsKeeps, BusyKeeps
  <2>3. CASE pc[t] = "in" /\ BufferHit(t) /\ system # "vxworks"
    BY <2>3, BufferHitKeeps
  <2>4. CASE /\ pc[t] \in {"in", "recv"} /\ lock \in {t, None} /\ system # "vxworks"
             /\ \/ TakeOwn(t) \/ TakeOther(t) \/ NothingRead(t) \/ DropStray(t) \/ ErikaEnter(t)
                \/ pc[t] = "recv" /\ ErikaStray(t)
    BY <2>4, TakeOwnKeeps, TakeOtherKeeps, NothingComes
  <2>5. CASE StoreOther(t)
    BY <2>5, StoreOtherKeeps
  <2>6. CASE VxInframe(t)
    BY <2>6, VxInframeKeeps
  <2>7. CASE VxTimeout(t) \/ PollAgain(t)
    BY <2>7, PollAgainKeeps
  <2>8. CASE ~ UnderWay(t) /\ (Again(t, "out") \/ Again(t, "free"))
    BY <2>8, AgainKeeps
  <2>9. CASE CopyData(t) \/ Release(t)
    BY <2>9, CopyDataKeeps, ReleaseKeeps
  <2> QED BY <1>1, <2>1, <2>2, <2>3, <2>4, <2>5, <2>6, <2>7, <2>8, <2>9, StepKinds
<1>2. CASE UNCHANGED portVars
  <2>1. /\ UNCHANGED <<system, rxbufstat, lastidx, txbuf, rxbuf, msgQ, lock, pc, seq, idx>>
        /\ UNCHANGED <<tries, got, data, wire, hand>>
    BY <1>2 DEF portVars, shared, net, local
  <2> QED BY <2>1, WireKeeps DEF shared, local
<1> QED BY <1>1, <1>2, NetworkKeeps DEF PortNext, Rest

\* The ports start with all indices free.
LEMMA PortInvInit == PortInit => PortInv
<1> SUFFICES ASSUME Opened PROVE PortInv
  BY DEF PortInit, WinSetup, MacSetup, RtemsSetup, RtkSetup, ErikaSetup, InTimeSetup, VxSetup
<1>1. PortType
  <2>1. 0 \in Slots
    BY Ports0 DEF Slots
  <2>2. msgQ \in [Slots -> Seq(AnyFrame)]
    <3>1. << >> \in Seq(AnyFrame)
      BY EmptySeq
    <3> QED BY <3>1 DEF Opened
  <2> QED BY <2>1, <2>2 DEF Opened, PortType, Statuses, Places
<1> QED BY <1>1 DEF Opened, PortInv, Locked, Indices, Framed, Private, Holds

\* With no more threads than indices, in every port.
THEOREM PortInvariant ==
  ASSUME Roomy
  PROVE  PortSpec => []PortInv
<1>1. PortInv /\ [PortNext]_portVars => PortInv'
  BY PortInvStep
<1> QED BY <1>1, PortInvInit, PTL DEF PortSpec

-----------------------------------------------------------------------------
(* The promise.                                                             *)

\* What a step that moves one thread is for the transactions.
LEMMA CallStep ==
  ASSUME Roomy, PortInv, PortInv', [PortNext]_portVars
  PROVE  [Calls!Next]_Calls!vars
<1> DEFINE phase == [t \in Threads |-> IF pc[t] = "idle" THEN "idle"
                                       ELSE IF pc[t] = "free" THEN "done" ELSE "asking"]
<1> USE DEF Calls!Next, Calls!vars, Calls!Ask, Calls!Answer, Calls!Fail, Calls!Return
<1>1. ASSUME NEW t \in Threads, Step(t) PROVE [Calls!Next]_Calls!vars
  <2>1. CASE Allocate(t)
    <3>1. Calls!Ask(t)
      BY <2>1 DEF Allocate, Goto, PortInv, PortType
    <3> QED BY <3>1
  <2>2. CASE CopyData(t)
    <3>1. pc[t] = "check" /\ rxbuf[idx[t]] = [thread |-> t, seq |-> seq[t]]
      BY <2>2 DEF CopyData, PortInv, Private, Request
    <3>2. Calls!Answer(t)
      BY <2>2, <3>1 DEF CopyData, Goto, PortInv, PortType
    <3> QED BY <3>2
  <2>3. CASE Again(t, "free")
    <3>1. Calls!Fail(t)
      BY <2>3 DEF Again, Goto, local, PortInv, PortType
    <3> QED BY <3>1
  <2>4. CASE Release(t)
    <3>1. Calls!Return(t)
      BY <2>4 DEF Release, Goto, local, PortInv, PortType
    <3> QED BY <3>1
  <2>5. ASSUME UNCHANGED <<seq, data>>,
               \E l \in Places \ {"idle", "free"} :
                 pc[t] \notin {"idle", "free"} /\ pc' = [pc EXCEPT ![t] = l]
        PROVE  UNCHANGED Calls!vars
    <3>1. phase' = phase
      BY <2>5 DEF PortInv, PortType
    <3> QED BY <2>5, <3>1
  <2>6. CASE Transmits(t) \/ InTimeBusy(t)
    BY <2>5, <2>6 DEF Transmits, Sent, InTimeBusy, Goto, Places
  <2>7. CASE pc[t] = "in" /\ BufferHit(t)
    BY <2>5, <2>7 DEF BufferHit, Goto, Places
  <2>8. CASE pc[t] \in {"in", "recv"} /\ (TakeOwn(t) \/ TakeOther(t) \/ NothingRead(t) \/ ErikaEnter(t))
    BY <2>5, <2>8 DEF TakeOwn, TakeOther, NothingRead, ErikaEnter, Goto, Places, local
  <2>9. CASE pc[t] \in {"in", "recv"} /\ DropStray(t)
    <3>1. \A f \in wire : Stray(t, f) => f = Foreign
      BY NoStray DEF PortInv, Stray
    <3>2. pc' = [pc EXCEPT ![t] = "check"] /\ UNCHANGED <<seq, data>>
      BY <2>9, <3>1 DEF DropStray, Goto, local
    <3> QED BY <2>5, <2>9, <3>2 DEF Places
  <2>10. CASE ErikaStray(t)
    BY <2>10 DEF ErikaStray, local
  <2>11. CASE StoreOther(t) \/ VxInframe(t) \/ VxTimeout(t)
    BY <2>5, <2>11 DEF StoreOther, VxInframe, VxTimeout, Polls, Goto, Places, local
  <2>12. CASE PollAgain(t) \/ Again(t, "out")
    BY <2>5, <2>12 DEF PollAgain, Again, Goto, Places, local
  <2> QED BY <1>1, <2>1, <2>2, <2>3, <2>4, <2>6, <2>7, <2>8, <2>9, <2>10, <2>11, <2>12, StepKinds
<1>2. CASE NetworkTask \/ LoseFrame \/ ForeignFrame
  BY <1>2 DEF NetworkTask, VxCallback, VxPost, LoseFrame, ForeignFrame, local
<1>3. CASE UNCHANGED portVars
  BY <1>3 DEF portVars, local
<1> QED BY <1>1, <1>2, <1>3 DEF PortNext, Rest

\* A port of any system keeps the promise of the datagram primitives.
THEOREM EveryPortKeepsPromise ==
  ASSUME Roomy
  PROVE  PortSpec => PortsKeepPromise
<1>1. PortInit => Calls!Init
  BY DEF PortInit, WinSetup, MacSetup, RtemsSetup, RtkSetup, ErikaSetup, InTimeSetup, VxSetup,
         Opened, Calls!Init
<1>2. PortInv /\ PortInv' /\ [PortNext]_portVars => [Calls!Next]_Calls!vars
  BY CallStep
<1> QED BY <1>1, <1>2, PortInvariant, PTL DEF PortSpec, PortsKeepPromise, Calls!Spec

-----------------------------------------------------------------------------
(***************************************************************************)
(* The datagrams of a frame (Datagrams)                                    *)
(***************************************************************************)

\* What is put is there.
LEMMA PutIn ==
  ASSUME NEW f, NEW from \in Nat, NEW n \in Nat, NEW what, NEW b \in from .. from + n - 1
  PROVE  In(Put(f, from, n, what), b) = what
BY DEF In, Put

\* And nothing else changes.
LEMMA PutOut ==
  ASSUME NEW f, NEW from \in Nat, NEW n \in Nat, NEW what, NEW b \in Nat,
         b \notin from .. from + n - 1
  PROVE  In(Put(f, from, n, what), b) = In(f, b)
BY DEF In, Put

\* The three parts of a datagram in the frame f, with the header at from.
IsAt(f, from, d, follows, bytes, counter) ==
  /\ \A b \in from .. from + HEADER - 1 : In(f, b) = Header(d, follows)
  /\ \A b \in from + HEADER .. from + HEADER + d.length - 1 : In(f, b) = bytes
  /\ \A b \in from + HEADER + d.length .. from + HEADER + d.length + 1 : In(f, b) = counter

\* Where it ends.
End(from, d) == from + HEADER + d.length + EC_WKCSIZE

\* A datagram that was written is there.
LEMMA WrittenIn ==
  ASSUME NEW f, NEW from \in Nat, NEW d, d.length \in Nat, NEW follows
  PROVE  IsAt(Written(f, from, d, follows), from, d, follows, Blank(d), Counter(d, 0))
<1> DEFINE headed == Put(f, from, HEADER, Header(d, follows))
           filled == Put(headed, from + HEADER, d.length, Blank(d))
           counted == Put(filled, from + HEADER + d.length, EC_WKCSIZE, Counter(d, 0))
<1>1. HEADER = 10 /\ EC_WKCSIZE = 2
  BY DEF HEADER, EC_HEADERSIZE, EC_ELENGTHSIZE, EC_WKCSIZE
<1>2. Written(f, from, d, follows) = counted
  BY DEF Written
<1> HIDE DEF headed, filled, counted
<1>3. ASSUME NEW b \in from .. from + HEADER - 1
      PROVE  In(counted, b) = Header(d, follows)
  <2>1. In(counted, b) = In(filled, b)
    BY <1>1, PutOut DEF counted
  <2>2. In(filled, b) = In(headed, b)
    BY <1>1, PutOut DEF filled
  <2> QED BY <1>1, <2>1, <2>2, PutIn DEF headed
<1>4. ASSUME NEW b \in from + HEADER .. from + HEADER + d.length - 1
      PROVE  In(counted, b) = Blank(d)
  <2>1. In(counted, b) = In(filled, b)
    BY <1>1, PutOut DEF counted
  <2> QED BY <1>1, <2>1, PutIn DEF filled
<1>5. ASSUME NEW b \in from + HEADER + d.length .. from + HEADER + d.length + 1
      PROVE  In(counted, b) = Counter(d, 0)
  BY <1>1, PutIn DEF counted
<1> QED BY <1>2, <1>3, <1>4, <1>5 DEF IsAt

\* And what lies outside of it is untouched.
LEMMA WrittenOut ==
  ASSUME NEW f, NEW from \in Nat, NEW d, d.length \in Nat, NEW follows,
         NEW b \in Nat, b \notin from .. End(from, d) - 1
  PROVE  In(Written(f, from, d, follows), b) = In(f, b)
<1> DEFINE headed == Put(f, from, HEADER, Header(d, follows))
           filled == Put(headed, from + HEADER, d.length, Blank(d))
<1>1. HEADER = 10 /\ EC_WKCSIZE = 2
  BY DEF HEADER, EC_HEADERSIZE, EC_ELENGTHSIZE, EC_WKCSIZE
<1>2. In(headed, b) = In(f, b)
  BY <1>1, PutOut DEF End
<1>3. In(filled, b) = In(headed, b)
  <2> HIDE DEF headed
  <2> QED BY <1>1, PutOut DEF End
<1>4. In(Written(f, from, d, follows), b) = In(filled, b)
  <2>1. Written(f, from, d, follows) =
          Put(filled, from + HEADER + d.length, EC_WKCSIZE, Counter(d, 0))
    BY DEF Written
  <2> HIDE DEF filled
  <2> QED BY <1>1, <2>1, PutOut DEF End
<1> QED BY <1>2, <1>3, <1>4

-----------------------------------------------------------------------------
(* The inductive invariant                                                 *)

\* A datagram as the callers plan it, and the header it starts with.
DG == [cmd : {"FPRD", "FPWR", "LRW", "FRMW"}, length : Nat, to : Nat]
From(k) == Body(k) - HEADER

\* The header of datagram k says that another follows.
Follows(k) == k < Len(offset) \/ (k > 1 /\ More(k))

\* The datagrams planned, of one addressee each.
PlanRight ==
  step # "start" =>
    /\ plan \in Seq(DG) /\ Len(plan) > 0
    /\ plan = Planned(fslave)
    /\ \A j, k \in 1 .. Len(plan) : j # k => plan[j].to # plan[k].to

OffsetsRight == offset \in Seq(Nat) /\ (step # "start" => Len(offset) <= Len(plan))

\* No datagram reaches into a later one.
Ordered ==
  step # "start" =>
    \A j, k \in 1 .. Len(offset) :
      j < k => End(From(j), plan[j]) <= From(k)

\* Each is in the frame, answered or not.
Enclosed ==
  step # "start" =>
    \A k \in 1 .. Len(offset) :
      IsAt(frame, From(k), plan[k], Follows(k), Result(k), Count(k))

\* The slaves are at the header of a datagram, at the end that of the last.
Walk ==
  /\ step = "add" => answered = {}
  /\ step \in {"slaves", "back"} =>
       Len(offset) = Len(plan) /\ \E j \in 1 .. Len(plan) : at = From(j)
  /\ step = "back" => at = From(Len(plan))

Steps == {"start", "add", "slaves", "lost", "back", "next", "done"}

CallRight ==
  /\ step \in Steps /\ call \in Callers /\ fslave \in Nat \ {0}
  /\ call.kind = "states" => fslave <= call.n

\* Each slave up to the last asked has a state.
Served ==
  call.kind = "states" =>
    /\ DOMAIN value = 1 .. call.n
    /\ \A s \in 1 .. fslave - 1 : value[s] \in AlStates
    /\ step \in {"next", "done"} =>
         \A s \in fslave .. LastSlave(fslave) : value[s] \in AlStates
    /\ step = "done" => LastSlave(fslave) = call.n

FrameInv == PlanRight /\ OffsetsRight /\ Layout /\ Ordered /\ Enclosed /\ Walk
IInv == CallRight /\ FrameInv /\ Served

\* The sizes of the headers.
LEMMA Sizes ==
  /\ ETH_HEADERSIZE = 14 /\ EC_HEADERSIZE = 12 /\ EC_ELENGTHSIZE = 2 /\ EC_WKCSIZE = 2
  /\ HEADER = 10 /\ FirstHeader = 16
BY DEF ETH_HEADERSIZE, EC_HEADERSIZE, EC_ELENGTHSIZE, EC_WKCSIZE, HEADER, FirstHeader

\* The plan of a call that has slaves left is one of datagrams to different
\* addressees.
LEMMA PlannedRight ==
  ASSUME CallRight
  PROVE  /\ Planned(fslave) \in Seq(DG) /\ Len(Planned(fslave)) > 0
         /\ \A j, k \in 1 .. Len(Planned(fslave)) :
              j # k => Planned(fslave)[j].to # Planned(fslave)[k].to
<1> DEFINE P == Planned(fslave)
<1>1. CASE call.kind \in {"read", "write"}
  <2>1. \E d \in DG : P = << d >>
    <3>1. call.n \in Nat
      BY <1>1, DatagramAssumption DEF CallRight, Callers
    <3>2. Datagram("FPRD", call.n, 1) \in DG /\ Datagram("FPWR", call.n, 1) \in DG
      BY <3>1 DEF Datagram, DG
    <3> QED BY <1>1, <3>2 DEF Planned
  <2> HIDE DEF P
  <2>2. PICK d \in DG : P = << d >>
    BY <2>1
  <2>3. P \in Seq(DG) /\ Len(P) = 1
    BY <2>2
  <2> QED BY <2>3 DEF P
<1>3. CASE call.kind = "dc"
  <2>1. \E d, e \in DG : P = << d, e >> /\ d.to # e.to
    <3>1. call.n \in Nat
      BY <1>3, DatagramAssumption DEF CallRight, Callers
    <3>2. Datagram("LRW", call.n, 1) \in DG /\ Datagram("FRMW", DCTIME, 2) \in DG
      BY <3>1 DEF Datagram, DG, DCTIME
    <3>3. Datagram("LRW", call.n, 1).to # Datagram("FRMW", DCTIME, 2).to
      BY DEF Datagram
    <3> QED BY <1>3, <3>2, <3>3 DEF Planned
  <2> HIDE DEF P
  <2>2. PICK d \in DG, e \in DG : P = << d, e >> /\ d.to # e.to
    BY <2>1
  <2>3. P \in Seq(DG) /\ Len(P) = 2 /\ P[1] = d /\ P[2] = e
    BY <2>2
  <2> QED BY <2>2, <2>3 DEF P
<1>4. CASE call.kind = "states"
  <2> DEFINE n == LastSlave(fslave) - fslave + 1
  <2>1. n \in Nat /\ n > 0
    BY <1>4, DatagramAssumption DEF CallRight, Callers, LastSlave
  <2>2. P = [k \in 1 .. n |-> Datagram("FPRD", ALSTATUS, fslave + k - 1)]
    BY <1>4 DEF Planned
  <2> HIDE DEF n
  <2>3. \A k \in 1 .. n : /\ Datagram("FPRD", ALSTATUS, fslave + k - 1) \in DG
                          /\ Datagram("FPRD", ALSTATUS, fslave + k - 1).to = fslave + k - 1
    BY DEF CallRight, Datagram, DG, ALSTATUS
  <2>4. P \in Seq(DG) /\ Len(P) = n
    BY <2>1, <2>2, <2>3
  <2>5. \A k \in 1 .. n : P[k].to = fslave + k - 1
    BY <2>2, <2>3
  <2> HIDE DEF P
  <2>6. \A j, k \in 1 .. n : j # k => P[j].to # P[k].to
    BY <2>1, <2>5 DEF CallRight
  <2> QED BY <2>1, <2>4, <2>6 DEF P
<1> QED BY <1>1, <1>3, <1>4 DEF CallRight, Callers

\* Every call starts with no frame laid out.
LEMMA InitRight == DatagramInit => IInv
<1> SUFFICES ASSUME DatagramInit PROVE IInv
  OBVIOUS
<1>1. CallRight
  BY DEF DatagramInit, CallRight, Steps, Callers
<1>2. FrameInv
  BY DEF DatagramInit, FrameInv, PlanRight, OffsetsRight, Layout, Ordered, Enclosed, Walk
<1>3. Served
  BY DEF DatagramInit, Served, Addressees, Callers
<1> QED BY <1>1, <1>2, <1>3 DEF IInv

\* No step changes the call.
LEMMA CallKept == IInv /\ [DatagramNext]_datagramVars => CallRight'
<1> SUFFICES ASSUME IInv, [DatagramNext]_datagramVars PROVE CallRight'
  OBVIOUS
<1>1. CASE NextFrame
  BY <1>1, DatagramAssumption DEF NextFrame, IInv, CallRight, Steps, Callers, LastSlave
<1>2. CASE Setup
  BY <1>2 DEF Setup, IInv, CallRight, Steps
<1>3. CASE Add \/ SendFrame \/ Lose \/ Receive \/ NotReceived
  BY <1>3 DEF Add, SendFrame, Lose, Receive, NotReceived, IInv, CallRight, Steps
<1>4. CASE Answer \/ Silence
  BY <1>4 DEF Answer, Silence, Pass, IInv, CallRight, Steps
<1>5. CASE Done \/ UNCHANGED datagramVars
  BY <1>5 DEF Done, datagramVars, IInv, CallRight
<1> QED BY <1>1, <1>2, <1>3, <1>4, <1>5 DEF DatagramNext

\* The first datagram of a frame.
LEMMA SetupKeeps == CallRight /\ Setup => FrameInv'
<1> SUFFICES ASSUME CallRight, Setup PROVE FrameInv'
  OBVIOUS
<1> DEFINE d == plan'[1]
<1>1. /\ plan' \in Seq(DG) /\ Len(plan') > 0 /\ plan' = Planned(fslave)
      /\ \A j, k \in 1 .. Len(plan') : j # k => plan'[j].to # plan'[k].to
  BY PlannedRight DEF Setup
<1>2. PlanRight'
  BY <1>1 DEF PlanRight, Setup, Planned, LastSlave
<1>3. d \in DG /\ d.length \in Nat
  <2>1. d \in DG
    BY <1>1
  <2>2. \A e \in DG : e.length \in Nat
    BY DEF DG
  <2> QED BY <2>1, <2>2
<1>4. /\ offset' = << 12 >> /\ Len(offset') = 1 /\ offset'[1] = 12 /\ step' = "add"
      /\ answered' = {} /\ elength' = 12 + d.length /\ txbuflength' = 28 + d.length
      /\ frame' = Written(<< >>, 16, d, FALSE)
  BY Sizes DEF Setup
<1>5. OffsetsRight'
  BY <1>1, <1>4 DEF OffsetsRight
<1> HIDE DEF d
<1>6. Layout'
  BY <1>1, <1>3, <1>4, Sizes DEF Layout, Body, d
<1>7. Ordered'
  BY <1>4 DEF Ordered
<1>8. Enclosed'
  <2>1. IsAt(frame', 16, d, FALSE, Blank(d), Counter(d, 0))
    BY <1>3, <1>4, WrittenIn
  <2>2. From(1)' = 16
    BY <1>4, Sizes DEF From, Body
  <2>3. Follows(1)' = FALSE
    BY <1>4 DEF Follows
  <2>4. Result(1)' = Blank(d) /\ Count(1)' = Counter(d, 0)
    BY <1>4 DEF Result, Count, d
  <2>5. IsAt(frame, From(1), plan[1], Follows(1), Result(1), Count(1))'
    BY <2>1, <2>2, <2>3, <2>4 DEF d
  <2>6. ASSUME NEW k \in 1 .. Len(offset')
        PROVE  IsAt(frame, From(k), plan[k], Follows(k), Result(k), Count(k))'
    <3>1. k = 1
      BY <1>4
    <3> QED BY <2>5, <3>1
  <2> QED BY <2>6 DEF Enclosed
<1>9. Walk'
  BY <1>4 DEF Walk
<1> QED BY <1>2, <1>5, <1>6, <1>7, <1>8, <1>9 DEF FrameInv

\* What the parts of a datagram's place are, as numbers.
LEMMA Positions ==
  ASSUME FrameInv, step # "start", NEW k \in 1 .. Len(offset)
  PROVE  /\ plan[k] \in DG /\ plan[k].length \in Nat
         /\ offset[k] \in Nat /\ offset[k] >= 12
         /\ From(k) = offset[k] + 4 /\ From(k) \in Nat /\ From(1) = 16
         /\ Body(k) = From(k) + HEADER
         /\ End(From(k), plan[k]) = offset[k] + 16 + plan[k].length
         /\ End(From(k), plan[k]) <= txbuflength
         /\ txbuflength \in Nat
<1>1. /\ Len(offset) \in 1 .. Len(plan) /\ offset \in Seq(Nat) /\ plan \in Seq(DG)
      /\ offset[1] = 12
      /\ txbuflength = offset[Len(offset)] + 14 + plan[Len(offset)].length + 2
  BY Sizes DEF FrameInv, OffsetsRight, Layout, PlanRight, Body
<1>2. \A i \in 1 .. Len(offset) : plan[i] \in DG /\ plan[i].length \in Nat /\ offset[i] \in Nat
  <2>1. \A i \in 1 .. Len(offset) : plan[i] \in DG /\ offset[i] \in Nat
    <3>1. \A i \in 1 .. Len(offset) : i \in 1 .. Len(plan)
      BY <1>1
    <3>2. /\ \A i \in 1 .. Len(offset) : offset[i] \in Nat
          /\ \A i \in 1 .. Len(plan) : plan[i] \in DG
      BY <1>1, ElementOfSeq
    <3> QED BY <3>1, <3>2
  <2>2. \A d \in DG : d.length \in Nat
    BY DEF DG
  <2> QED BY <2>1, <2>2
<1>3. \A i \in 1 .. Len(offset) :
        From(i) = offset[i] + 4 /\ End(From(i), plan[i]) = offset[i] + 16 + plan[i].length
  <2>1. ASSUME NEW i \in 1 .. Len(offset)
        PROVE  /\ From(i) = offset[i] + 4
               /\ End(From(i), plan[i]) = offset[i] + 16 + plan[i].length
    <3>1. From(i) = (offset[i] + ETH_HEADERSIZE) - HEADER
      BY DEF From, Body
    <3>2. End(From(i), plan[i]) = From(i) + HEADER + plan[i].length + EC_WKCSIZE
      BY DEF End
    <3>3. offset[i] \in Nat /\ plan[i].length \in Nat
      BY <1>2
    <3>4. \A o \in Nat : (o + 14) - 10 = o + 4
      OBVIOUS
    <3>5. From(i) = offset[i] + 4
      BY <3>1, <3>3, <3>4, Sizes
    <3>6. \A o, l \in Nat : (o + 4) + 10 + l + 2 = o + 16 + l
      OBVIOUS
    <3>7. End(From(i), plan[i]) = offset[i] + 16 + plan[i].length
      BY <3>2, <3>3, <3>5, <3>6, Sizes
    <3> QED BY <3>5, <3>7
  <2> QED BY <2>1
<1>4. \A i, j \in 1 .. Len(offset) : i < j => End(From(i), plan[i]) <= From(j)
  BY DEF FrameInv, Ordered
<1>5. 1 \in 1 .. Len(offset) /\ Len(offset) \in 1 .. Len(offset)
  BY <1>1
<1>6. offset[k] >= 12
  <2>1. CASE k = 1
    BY <2>1, <1>1
  <2>2. CASE k > 1
    <3>1. End(From(1), plan[1]) <= From(k)
      BY <2>2, <1>4, <1>5
    <3>2. offset[1] + 16 + plan[1].length <= offset[k] + 4
      BY <3>1, <1>3, <1>5
    <3>3. \A l, o \in Nat : 12 + 16 + l <= o + 4 => o >= 12
      OBVIOUS
    <3>4. plan[1].length \in Nat /\ offset[k] \in Nat /\ offset[1] = 12
      BY <1>1, <1>2, <1>5
    <3> QED BY <3>2, <3>3, <3>4
  <2> QED BY <2>1, <2>2
<1> DEFINE last == Len(offset)
<1>7. /\ offset[last] \in Nat /\ plan[last].length \in Nat
      /\ From(last) = offset[last] + 4
      /\ End(From(last), plan[last]) = offset[last] + 16 + plan[last].length
      /\ txbuflength = offset[last] + 14 + plan[last].length + 2
  <2>1. offset[last] \in Nat /\ plan[last].length \in Nat
    BY <1>2, <1>5
  <2>2. /\ From(last) = offset[last] + 4
        /\ End(From(last), plan[last]) = offset[last] + 16 + plan[last].length
    BY <1>3, <1>5
  <2> QED BY <1>1, <2>1, <2>2
<1>8. /\ offset[k] \in Nat /\ plan[k].length \in Nat
      /\ From(k) = offset[k] + 4
      /\ End(From(k), plan[k]) = offset[k] + 16 + plan[k].length
  <2>1. offset[k] \in Nat /\ plan[k].length \in Nat
    BY <1>2
  <2> QED BY <1>3, <2>1
<1>9. End(From(k), plan[k]) <= txbuflength
  <2>1. CASE k = last
    BY <2>1, <1>7
  <2>2. CASE k < last
    <3>1. End(From(k), plan[k]) <= From(last)
      BY <2>2, <1>4, <1>5
    <3>2. \A a, b, c, e \in Nat : a + 16 + b <= c + 4 => a + 16 + b <= c + 14 + e + 2
      OBVIOUS
    <3>3. offset[k] + 16 + plan[k].length <= offset[last] + 4
      BY <3>1, <1>7, <1>8
    <3>4. offset[k] + 16 + plan[k].length <= offset[last] + 14 + plan[last].length + 2
      BY <3>2, <3>3, <1>7, <1>8
    <3> QED BY <3>4, <1>7, <1>8
  <2> QED BY <1>1, <2>1, <2>2
<1>10. txbuflength \in Nat
  <2>1. \A a, b \in Nat : a + 14 + b + 2 \in Nat
    OBVIOUS
  <2> QED BY <1>7, <2>1
<1>11. Body(k) = From(k) + HEADER
  BY <1>8, Sizes DEF From, Body
<1>12. From(1) = 16
  <2>1. From(1) = offset[1] + 4
    BY <1>3, <1>5
  <2>2. offset[1] = 12
    BY <1>1
  <2> HIDE DEF last
  <2> QED BY <2>1, <2>2
<1>13. plan[k] \in DG
  BY <1>2
<1> QED BY <1>6, <1>8, <1>9, <1>10, <1>11, <1>12, <1>13

\* A datagram stays where nothing is written.
LEMMA IsAtSame ==
  ASSUME NEW f, NEW g, NEW from \in Nat, NEW d, d.length \in Nat,
         NEW follows, NEW bytes, NEW counter,
         IsAt(f, from, d, follows, bytes, counter),
         \A b \in from .. End(from, d) - 1 : In(g, b) = In(f, b)
  PROVE  IsAt(g, from, d, follows, bytes, counter)
BY Sizes DEF IsAt, End

\* The header of the first datagram with the flag set, all else as before.
LEMMA FlaggedIn ==
  ASSUME FrameInv, step # "start"
  PROVE  /\ \A b \in 16 .. 25 : In(Flagged, b) = Header(plan[1], TRUE)
         /\ \A b \in Nat : b \notin 16 .. 25 => In(Flagged, b) = In(frame, b)
<1>1. 1 \in 1 .. Len(offset)
  BY DEF FrameInv, Layout
<1>2. From(1) = 16
  BY <1>1, Positions
<1>3. At(16) = Header(plan[1], Follows(1))
  BY <1>1, <1>2, Sizes DEF FrameInv, Enclosed, IsAt, At
<1>4. At(16).d = plan[1]
  BY <1>3 DEF Header
<1>5. Flagged = Put(frame, 16, 10, Header(plan[1], TRUE))
  BY <1>4, Sizes DEF Flagged
<1>6. ASSUME NEW b \in 16 .. 25
      PROVE  In(Flagged, b) = Header(plan[1], TRUE)
  <2>1. b \in 16 .. 16 + 10 - 1
    OBVIOUS
  <2> QED BY <1>5, <2>1, PutIn
<1>7. ASSUME NEW b \in Nat, b \notin 16 .. 25
      PROVE  In(Flagged, b) = In(frame, b)
  <2>1. b \notin 16 .. 16 + 10 - 1
    BY <1>7
  <2>2. In(Put(frame, 16, 10, Header(plan[1], TRUE)), b) = In(frame, b)
    BY <2>1 DEF Put, In
  <2> QED BY <1>5, <2>2
<1> QED BY <1>6, <1>7

\* A further datagram.
LEMMA AddKeeps == CallRight /\ FrameInv /\ Add => FrameInv'
<1> SUFFICES ASSUME CallRight, FrameInv, Add PROVE FrameInv'
  OBVIOUS
<1>0. Len(offset) \in Nat
  BY DEF FrameInv, OffsetsRight
<1> PICK n \in Nat : n = Len(offset)
  BY <1>0
<1> PICK d : d = plan[n + 1]
  OBVIOUS
<1>1. /\ step = "add" /\ step' = "add" /\ n < Len(plan) /\ n \in 1 .. Len(plan)
      /\ plan' = plan /\ fslave' = fslave /\ call' = call /\ answered' = answered
      /\ elength' = elength + 12 + d.length
      /\ txbuflength' = txbuflength + 12 - 2 + 2 + d.length
      /\ frame' = Written(Flagged, txbuflength, d, More(n + 1))
      /\ offset' = Append(offset, txbuflength + 12 - 2 - 14)
  BY Sizes DEF Add, DataOffset, FrameInv, Layout
<1>2. plan \in Seq(DG) /\ offset \in Seq(Nat) /\ n \in Nat
  BY DEF FrameInv, PlanRight, OffsetsRight, Add
<1>3. d \in DG /\ d.length \in Nat
  <2>1. d \in DG
    BY <1>1, <1>2
  <2>2. \A e \in DG : e.length \in Nat
    BY DEF DG
  <2> QED BY <2>1, <2>2
<1>4. txbuflength \in Nat /\ txbuflength >= 28
  <2>1. /\ offset[1] = 12 /\ offset[1] \in Nat /\ plan[1].length \in Nat
        /\ End(From(1), plan[1]) = offset[1] + 16 + plan[1].length
        /\ End(From(1), plan[1]) <= txbuflength /\ txbuflength \in Nat
    <3>1. 1 \in 1 .. Len(offset)
      BY <1>1
    <3> QED BY <1>1, <3>1, Positions, Sizes DEF FrameInv, Layout
  <2>2. \A a, t \in Nat : 12 + 16 + a <= t => t >= 28
    OBVIOUS
  <2> QED BY <2>1, <2>2
<1>5. txbuflength + 12 - 2 - 14 \in Nat /\ txbuflength + 12 - 2 - 14 = txbuflength - 4
  BY <1>4
<1>6. /\ offset' \in Seq(Nat) /\ Len(offset') = n + 1 /\ offset'[n + 1] = txbuflength - 4
      /\ \A k \in 1 .. n : offset'[k] = offset[k]
  BY <1>1, <1>2, <1>5
<1>7. PlanRight'
  BY <1>1 DEF FrameInv, PlanRight, Planned, LastSlave
<1>8. OffsetsRight'
  BY <1>1, <1>6 DEF OffsetsRight
<1>9. \A k \in 1 .. n : /\ From(k)' = From(k) /\ From(k) \in Nat
                        /\ plan[k] \in DG /\ plan[k].length \in Nat
                        /\ End(From(k), plan[k]) <= txbuflength
                        /\ End(From(k), plan[k]) = From(k) + 12 + plan[k].length
  <2>1. \A k \in 1 .. n : /\ From(k) = offset[k] + 4 /\ offset[k] \in Nat
                          /\ From(k) \in Nat /\ plan[k] \in DG
                          /\ plan[k].length \in Nat
                          /\ End(From(k), plan[k]) <= txbuflength
                          /\ End(From(k), plan[k]) = offset[k] + 16 + plan[k].length
    BY <1>1, Positions
  <2>2. \A k \in 1 .. n : From(k)' = From(k)
    BY <1>6 DEF From, Body
  <2> QED BY <2>1, <2>2
<1>10. From(n + 1)' = txbuflength
  <2>1. From(n + 1)' = (txbuflength - 4) + 14 - 10
    BY <1>6, Sizes DEF From, Body
  <2> QED BY <2>1, <1>4
<1>11. Layout'
  <2>1. offset'[1] = 12
    BY <1>1, <1>6, Sizes DEF FrameInv, Layout
  <2>2. ASSUME NEW k \in 1 .. Len(offset') - 1
        PROVE  offset'[k + 1] = offset'[k] + plan[k].length + 2 + 10
    <3>1. k \in 1 .. n
      BY <1>2, <1>6
    <3>2. CASE k < n
      <4>1. k \in 1 .. n - 1 /\ k + 1 \in 1 .. n
        BY <1>2, <3>1, <3>2
      <4>2. offset[k + 1] = offset[k] + plan[k].length + 2 + 10
        BY <4>1, <1>1, Sizes DEF FrameInv, Layout
      <4> QED BY <4>1, <4>2, <3>1, <1>6
    <3>3. CASE k = n
      <4>1. txbuflength = offset[n] + 14 + plan[n].length + 2
        BY <1>1, Sizes DEF FrameInv, Layout, Body
      <4>2. offset[n] \in Nat /\ plan[n].length \in Nat
        <5>1. n \in 1 .. n
          BY <1>1
        <5> QED BY <5>1, <1>2, <1>9
      <4>3. \A a, b \in Nat : (a + 14 + b + 2) - 4 = a + b + 2 + 10
        OBVIOUS
      <4>4. offset'[k + 1] = txbuflength - 4 /\ offset'[k] = offset[n]
        BY <1>6, <3>1, <3>3
      <4>5. txbuflength - 4 = offset[n] + plan[n].length + 2 + 10
        BY <4>1, <4>2, <4>3
      <4> QED BY <4>4, <4>5, <3>3
    <3> QED BY <3>1, <3>2, <3>3, <1>2
  <2>3. txbuflength' = offset'[n + 1] + 14 + d.length + 2
    <3>1. \A t, l \in Nat : t + 12 - 2 + 2 + l = (t - 4) + 14 + l + 2
      OBVIOUS
    <3>2. txbuflength \in Nat /\ d.length \in Nat
      BY <1>3, <1>4
    <3>3. txbuflength + 12 - 2 + 2 + d.length = (txbuflength - 4) + 14 + d.length + 2
      BY <3>1, <3>2
    <3>4. txbuflength' = txbuflength + 12 - 2 + 2 + d.length /\ offset'[n + 1] = txbuflength - 4
      BY <1>1, <1>6
    <3> QED BY <3>3, <3>4
  <2>4. elength' = txbuflength' - 14 - 2
    <3>1. elength = txbuflength - 14 - 2
      BY <1>1, Sizes DEF FrameInv, Layout
    <3>2. \A t, l \in Nat : (t - 14 - 2) + 12 + l = (t + 12 - 2 + 2 + l) - 14 - 2
      OBVIOUS
    <3> QED BY <3>1, <3>2, <1>1, <1>3, <1>4
  <2>5. Len(offset') \in 1 .. Len(plan')
    BY <1>1, <1>2, <1>6
  <2> QED BY <2>1, <2>2, <2>3, <2>4, <2>5, <1>1, <1>6, Sizes DEF Layout, Body
<1>12. Ordered'
  <2> SUFFICES ASSUME NEW j \in 1 .. n + 1, NEW k \in 1 .. n + 1, j < k
               PROVE  End(From(j)', plan[j]) <= From(k)'
    BY <1>1, <1>6 DEF Ordered, End
  <2>1. j \in 1 .. n
    BY <1>2
  <2>2. CASE k \in 1 .. n
    BY <2>1, <2>2, <1>1, <1>9 DEF FrameInv, Ordered
  <2>3. CASE k = n + 1
    BY <2>1, <2>3, <1>9, <1>10
  <2> QED BY <2>2, <2>3, <1>2
<1>13. Enclosed'
  <2> DEFINE Is(k) == IsAt(frame, From(k), plan[k], Follows(k), Result(k), Count(k))
  <2>1. \A k \in 1 .. n : Is(k)
    BY <1>1 DEF FrameInv, Enclosed
  <2>2. \A b \in Nat : b < txbuflength => In(frame', b) = In(Flagged, b)
    BY <1>1, <1>3, <1>4, WrittenOut
  <2>3. ASSUME NEW k \in 1 .. n PROVE Is(k)'
    <3>1. /\ From(k)' = From(k) /\ plan'[k] = plan[k] /\ Result(k)' = Result(k)
          /\ Count(k)' = Count(k)
      BY <1>1, <1>9 DEF Result, Count
    <3>2. Follows(k)' = TRUE
      BY <1>2, <1>6 DEF Follows
    <3>3. CASE k > 1
      <4>1. End(From(1), plan[1]) <= From(k)
        BY <1>1, <3>3 DEF FrameInv, Ordered
      <4>2. From(k) >= 26
        <5>1. From(1) = 16 /\ plan[1].length \in Nat /\ From(k) \in Nat
              /\ End(From(1), plan[1]) = From(1) + 12 + plan[1].length
          <6>1. 1 \in 1 .. n
            BY <1>1
          <6> QED BY <6>1, <1>1, <1>9, Positions
        <5>2. \A a, b \in Nat : 16 + 12 + a <= b => b >= 26
          OBVIOUS
        <5> QED BY <4>1, <5>1, <5>2
      <4>3. \A b \in From(k) .. End(From(k), plan[k]) - 1 :
              In(frame', b) = In(frame, b)
        <5>1. \A b \in From(k) .. End(From(k), plan[k]) - 1 :
                b \in Nat /\ b \notin 16 .. 25 /\ b < txbuflength
          <6>1. /\ From(k) \in Nat /\ plan[k].length \in Nat
                /\ End(From(k), plan[k]) = From(k) + 12 + plan[k].length
                /\ End(From(k), plan[k]) <= txbuflength
            BY <1>9
          <6>2. \A f, l, e, t \in Nat : e = f + 12 + l /\ e <= t /\ f >= 26 =>
                  \A b \in f .. e - 1 : b \in Nat /\ b \notin 16 .. 25 /\ b < t
            OBVIOUS
          <6>3. End(From(k), plan[k]) \in Nat
            BY <6>1
          <6> QED BY <6>1, <6>2, <6>3, <4>2, <1>4
        <5> QED BY <5>1, <2>2, FlaggedIn, <1>1
      <4>4. Follows(k) = TRUE
        <5>1. CASE k < n
          BY <5>1 DEF Follows
        <5>2. CASE k = n
          BY <5>2, <3>3, <1>1 DEF Follows, More
        <5>3. k < n \/ k = n
          OBVIOUS
        <5> QED BY <5>1, <5>2, <5>3
      <4>5. IsAt(frame', From(k), plan[k], Follows(k), Result(k), Count(k))
        BY <2>1, <4>3, <1>9, IsAtSame
      <4> QED BY <3>1, <3>2, <4>4, <4>5
    <3>4. CASE k = 1
      <4>1. From(1) = 16 /\ plan[1].length \in Nat
            /\ End(16, plan[1]) = 16 + 12 + plan[1].length
            /\ End(16, plan[1]) <= txbuflength
        <5>1. 1 \in 1 .. n
          BY <1>1
        <5>2. From(1) = 16
          BY <5>1, <1>1, Positions
        <5> QED BY <5>1, <5>2, <1>9
      <4>2. IsAt(frame, 16, plan[1], Follows(1), Result(1), Count(1))
        BY <2>1, <3>4, <4>1
      <4>3. \A b \in 16 .. 25 : In(frame', b) = Header(plan[1], TRUE)
        <5>1. \A b \in 16 .. 25 : b \in Nat /\ b < txbuflength
          <6>1. \A l, t \in Nat : 16 + 12 + l <= t => \A b \in 16 .. 25 : b \in Nat /\ b < t
            OBVIOUS
          <6>2. plan[1].length \in Nat /\ 16 + 12 + plan[1].length <= txbuflength
            BY <4>1
          <6> QED BY <6>1, <6>2, <1>4
        <5> QED BY <5>1, <2>2, FlaggedIn, <1>1
      <4>4. \A b \in 26 .. 16 + 12 + plan[1].length - 1 : In(frame', b) = In(frame, b)
        <5>1. \A b \in 26 .. 16 + 12 + plan[1].length - 1 :
                b \in Nat /\ b \notin 16 .. 25 /\ b < txbuflength
          <6>1. \A l, t \in Nat : 16 + 12 + l <= t =>
                  \A b \in 26 .. 16 + 12 + l - 1 : b \in Nat /\ b \notin 16 .. 25 /\ b < t
            OBVIOUS
          <6>2. plan[1].length \in Nat /\ 16 + 12 + plan[1].length <= txbuflength
            BY <4>1
          <6> QED BY <6>1, <6>2, <1>4
        <5> QED BY <5>1, <2>2, FlaggedIn, <1>1
      <4>5. IsAt(frame', 16, plan[1], TRUE, Result(1), Count(1))
        <5> DEFINE l == plan[1].length
        <5>1. /\ \A b \in 26 .. 26 + l - 1 : In(frame, b) = Result(1)
              /\ \A b \in 26 + l .. 26 + l + 1 : In(frame, b) = Count(1)
          BY <4>2, Sizes DEF IsAt
        <5>2. /\ \A b \in 26 .. 26 + l - 1 : b \in 26 .. 16 + 12 + l - 1
              /\ \A b \in 26 + l .. 26 + l + 1 : b \in 26 .. 16 + 12 + l - 1
          <6>1. \A m \in Nat : /\ \A b \in 26 .. 26 + m - 1 : b \in 26 .. 16 + 12 + m - 1
                               /\ \A b \in 26 + m .. 26 + m + 1 : b \in 26 .. 16 + 12 + m - 1
            OBVIOUS
          <6>2. l \in Nat
            BY <4>1
          <6> HIDE DEF l
          <6> QED BY <6>1, <6>2
        <5>3. /\ \A b \in 26 .. 26 + l - 1 : In(frame', b) = Result(1)
              /\ \A b \in 26 + l .. 26 + l + 1 : In(frame', b) = Count(1)
          BY <5>1, <5>2, <4>4
        <5>4. 16 + HEADER = 26 /\ 16 + HEADER - 1 = 25
          BY Sizes
        <5> HIDE DEF l
        <5> QED BY <5>3, <5>4, <4>3 DEF IsAt, l
      <4> QED BY <3>1, <3>2, <3>4, <4>1, <4>5
    <3> QED BY <3>3, <3>4
  <2>4. Is(n + 1)'
    <3>1. IsAt(frame', txbuflength, d, More(n + 1), Blank(d), Counter(d, 0))
      BY <1>1, <1>3, <1>4, WrittenIn
    <3>2. Follows(n + 1)' = More(n + 1)
      BY <1>1, <1>2, <1>6 DEF Follows, More
    <3>3. answered = {}
      BY <1>1 DEF FrameInv, Walk
    <3>4. Result(n + 1)' = Blank(d) /\ Count(n + 1)' = Counter(d, 0)
      BY <1>1, <3>3 DEF Result, Count
    <3> QED BY <3>1, <3>2, <3>4, <1>1, <1>10
  <2>5. \A k \in 1 .. Len(offset') : k \in 1 .. n \/ k = n + 1
    BY <1>2, <1>6
  <2> QED BY <2>3, <2>4, <2>5 DEF Enclosed
<1>14. Walk'
  BY <1>1 DEF FrameInv, Walk
<1> QED BY <1>7, <1>8, <1>11, <1>12, <1>13, <1>14 DEF FrameInv

\* The datagrams that stay as they are when the slaves work on datagram j.
LEMMA OtherStays ==
  ASSUME FrameInv, step = "slaves", NEW j \in 1 .. Len(plan), NEW g,
         \A b \in Nat : b \notin From(j) + HEADER .. End(From(j), plan[j]) - 1 =>
                          In(g, b) = In(frame, b),
         NEW k \in 1 .. Len(plan), k # j
  PROVE  IsAt(g, From(k), plan[k], Follows(k), Result(k), Count(k))
<1>1. Len(offset) = Len(plan)
  BY DEF FrameInv, Walk
<1>2. IsAt(frame, From(k), plan[k], Follows(k), Result(k), Count(k))
  BY <1>1 DEF FrameInv, Enclosed
<1>3. \A i \in 1 .. Len(plan) : /\ From(i) \in Nat /\ plan[i].length \in Nat
                                /\ End(From(i), plan[i]) = From(i) + 12 + plan[i].length
                                /\ End(From(i), plan[i]) \in Nat
  <2>1. \A i \in 1 .. Len(plan) : From(i) \in Nat /\ plan[i].length \in Nat
    BY <1>1, Positions
  <2>2. \A a, l \in Nat : a + 10 + l + 2 = a + 12 + l /\ a + 10 + l + 2 \in Nat
    OBVIOUS
  <2> QED BY <2>1, <2>2, Sizes DEF End
<1>5. ASSUME NEW b \in From(k) .. End(From(k), plan[k]) - 1
      PROVE  In(g, b) = In(frame, b)
  <2>1. CASE j < k
    <3>1. End(From(j), plan[j]) <= From(k)
      BY <2>1, <1>1 DEF FrameInv, Ordered
    <3>2. \A f, e, m, q \in Nat : e <= q =>
            \A a \in q .. m - 1 : a \in Nat /\ a \notin f + 10 .. e - 1
      OBVIOUS
    <3>3. /\ From(j) \in Nat /\ From(k) \in Nat
          /\ End(From(j), plan[j]) \in Nat /\ End(From(k), plan[k]) \in Nat
      BY <1>3
    <3>4. \A a \in From(k) .. End(From(k), plan[k]) - 1 :
            a \in Nat /\ a \notin From(j) + 10 .. End(From(j), plan[j]) - 1
      BY <3>1, <3>2, <3>3
    <3>5. b \in Nat /\ b \notin From(j) + HEADER .. End(From(j), plan[j]) - 1
      BY <1>5, <3>4, Sizes
    <3> QED BY <3>5
  <2>2. CASE k < j
    <3>1. End(From(k), plan[k]) <= From(j)
      BY <2>2, <1>1 DEF FrameInv, Ordered
    <3>2. \A f, e, m, q \in Nat : m <= f =>
            \A a \in q .. m - 1 : a \in Nat /\ a \notin f + 10 .. e - 1
      OBVIOUS
    <3>3. /\ From(j) \in Nat /\ From(k) \in Nat
          /\ End(From(j), plan[j]) \in Nat /\ End(From(k), plan[k]) \in Nat
      BY <1>3
    <3>4. \A a \in From(k) .. End(From(k), plan[k]) - 1 :
            a \in Nat /\ a \notin From(j) + 10 .. End(From(j), plan[j]) - 1
      BY <3>1, <3>2, <3>3
    <3>5. b \in Nat /\ b \notin From(j) + HEADER .. End(From(j), plan[j]) - 1
      BY <1>5, <3>4, Sizes
    <3> QED BY <3>5
  <2>3. j \in Int /\ k \in Int
    OBVIOUS
  <2> QED BY <2>1, <2>2, <2>3
<1> QED BY <1>2, <1>3, <1>5, IsAtSame

\* The next header is that of the next datagram, or the frame is at its end.
LEMMA PassRight ==
  ASSUME FrameInv, step = "slaves", NEW j \in 1 .. Len(plan), at = From(j),
         Pass(Header(plan[j], Follows(j)))
  PROVE  /\ step' \in {"slaves", "back"}
         /\ \E i \in 1 .. Len(plan) : at' = From(i)
         /\ step' = "back" => at' = From(Len(plan))
<1>1. Len(offset) = Len(plan) /\ Len(plan) \in Nat
  BY DEF FrameInv, Walk, PlanRight
<1> DEFINE h == Header(plan[j], Follows(j))
<1>2. h.follows = Follows(j) /\ h.d = plan[j]
  BY DEF Header
<1> HIDE DEF h
<1>3. CASE Follows(j)
  <2>1. j < Len(plan)
    BY <1>1, <1>3 DEF Follows, More
  <2>2. at' = at + HEADER + plan[j].length + EC_WKCSIZE /\ step' = step
    BY <1>2, <1>3 DEF Pass, h
  <2>3. j + 1 \in 1 .. Len(plan)
    BY <2>1, <1>1
  <2>4. offset[j + 1] = offset[j] + plan[j].length + 2 + 10
    <3>1. j \in 1 .. Len(offset) - 1
      BY <2>1, <1>1
    <3> QED BY <3>1, Sizes DEF FrameInv, Layout
  <2>5. /\ From(j) = offset[j] + 4 /\ From(j + 1) = offset[j + 1] + 4
        /\ offset[j] \in Nat /\ plan[j].length \in Nat
    BY <1>1, <2>3, Positions
  <2>6. at' = From(j + 1)
    <3>1. \A a, l \in Nat : (a + 4) + 10 + l + 2 = (a + l + 2 + 10) + 4
      OBVIOUS
    <3> QED BY <3>1, <2>2, <2>4, <2>5, Sizes
  <2> QED BY <2>2, <2>3, <2>6
<1>4. CASE ~ Follows(j)
  <2>1. j = Len(plan)
    BY <1>1, <1>4 DEF Follows
  <2>2. at' = at /\ step' = "back"
    BY <1>2, <1>4 DEF Pass, h
  <2> QED BY <2>1, <2>2
<1> QED BY <1>3, <1>4

\* The slaves work on a datagram, or pass it by.
LEMMA SlavesKeep == CallRight /\ FrameInv /\ (Answer \/ Silence) => FrameInv'
<1> SUFFICES ASSUME CallRight, FrameInv, Answer \/ Silence PROVE FrameInv'
  OBVIOUS
<1>1. /\ step = "slaves" /\ step' \in {"slaves", "back"}
      /\ UNCHANGED <<call, fslave, plan, elength, txbuflength, offset>>
  BY DEF Answer, Silence, Pass
<1>2. /\ Len(offset) = Len(plan) /\ Len(plan) \in Nat
      /\ \A k \in 1 .. Len(plan) : /\ From(k) \in Nat /\ plan[k].length \in Nat
                                   /\ Follows(k)' = Follows(k) /\ From(k)' = From(k)
  <2>1. Len(offset) = Len(plan) /\ Len(plan) \in Nat
    BY <1>1 DEF FrameInv, Walk, PlanRight
  <2>2. \A k \in 1 .. Len(plan) : From(k) \in Nat /\ plan[k].length \in Nat
    BY <1>1, <2>1, Positions
  <2>3. \A k \in 1 .. Len(plan) : Follows(k)' = Follows(k) /\ From(k)' = From(k)
    BY <1>1 DEF Follows, More, From, Body
  <2> QED BY <2>1, <2>2, <2>3
<1>3. PICK j \in 1 .. Len(plan) : at = From(j)
  BY <1>1 DEF FrameInv, Walk
<1>4. IsAt(frame, From(j), plan[j], Follows(j), Result(j), Count(j))
  BY <1>1, <1>2 DEF FrameInv, Enclosed
<1>5. At(at) = Header(plan[j], Follows(j))
  <2>1. From(j) \in From(j) .. From(j) + HEADER - 1
    BY <1>2, Sizes
  <2> QED BY <1>3, <1>4, <2>1 DEF IsAt, At
<1>6. Header(plan[j], Follows(j)).d = plan[j]
  BY DEF Header
<1>7. Pass(Header(plan[j], Follows(j)))
  BY <1>5 DEF Answer, Silence
<1>8. Walk'
  <2>1. /\ \E i \in 1 .. Len(plan) : at' = From(i)
        /\ step' = "back" => at' = From(Len(plan))
    BY <1>1, <1>3, <1>7, PassRight
  <2> QED BY <1>1, <1>2, <2>1 DEF Walk, From, Body
<1>9. PlanRight' /\ OffsetsRight' /\ Layout' /\ Ordered'
  <2>1. PlanRight' /\ OffsetsRight'
    BY <1>1 DEF FrameInv, PlanRight, OffsetsRight, Planned, LastSlave
  <2>2. Layout'
    BY <1>1 DEF FrameInv, Layout, Body
  <2>3. Ordered'
    BY <1>1 DEF FrameInv, Ordered, From, Body
  <2> QED BY <2>1, <2>2, <2>3
<1>10. CASE Silence
  <2>1. \A k \in 1 .. Len(plan) : Result(k)' = Result(k) /\ Count(k)' = Count(k)
    BY <1>1, <1>10 DEF Silence, Result, Count
  <2>2. \A k \in 1 .. Len(plan) :
          IsAt(frame, From(k), plan[k], Follows(k), Result(k), Count(k))
    BY <1>1, <1>2 DEF FrameInv, Enclosed
  <2>3. frame' = frame
    BY <1>10 DEF Silence
  <2>4. \A k \in 1 .. Len(plan) :
          IsAt(frame, From(k), plan[k], Follows(k), Result(k), Count(k))'
    BY <1>1, <1>2, <2>1, <2>2, <2>3
  <2>5. Enclosed'
    BY <1>1, <1>2, <2>4 DEF Enclosed
  <2> QED BY <1>8, <1>9, <2>5 DEF FrameInv
<1>11. CASE Answer
  <2> DEFINE body == From(j) + HEADER
             l == plan[j].length
             filled == IF plan[j].cmd = "FPWR" THEN frame
                       ELSE Put(frame, body, l, Data(plan[j], "slave"))
  <2>1. /\ frame' = Put(filled, body + l, EC_WKCSIZE, Counter(plan[j], 1))
        /\ answered' = answered \union {plan[j].to}
    BY <1>3, <1>5, <1>6, <1>11 DEF Answer
  <2>2. body \in Nat /\ l \in Nat /\ EC_WKCSIZE = 2 /\ body + l \in Nat
        /\ End(From(j), plan[j]) = body + l + 2
    BY <1>2, Sizes DEF End
  <2>3. Result(j)' = (IF plan[j].cmd = "FPWR" THEN Blank(plan[j]) ELSE Data(plan[j], "slave"))
        /\ Count(j)' = Counter(plan[j], 1)
    BY <1>1, <2>1 DEF Result, Count
  <2> HIDE DEF body, l
  <2>4. \A b \in Nat : b \notin body .. body + l - 1 => In(filled, b) = In(frame, b)
    BY <2>2, PutOut
  <2>5. \A b \in Nat : b \notin body + l .. body + l + 1 => In(frame', b) = In(filled, b)
    <3>1. \A b \in Nat : b \notin body + l .. body + l + 1 =>
                           b \notin body + l .. body + l + 2 - 1
      BY <2>2
    <3> HIDE DEF filled
    <3> QED BY <2>1, <2>2, <3>1, PutOut
  <2>6. \A b \in body .. body + l - 1 : In(frame', b) = Result(j)'
    <3> SUFFICES ASSUME NEW b \in body .. body + l - 1 PROVE In(frame', b) = Result(j)'
      OBVIOUS
    <3>1. b \in Nat /\ b \notin body + l .. body + l + 1
      BY <2>2
    <3>2. In(frame', b) = In(filled, b)
      BY <3>1, <2>5
    <3>3. CASE plan[j].cmd = "FPWR"
      <4>1. Result(j) = Blank(plan[j])
        BY <3>3 DEF Result
      <4>2. In(frame, b) = Result(j)
        BY <1>4 DEF IsAt, body, l
      <4> QED BY <3>2, <3>3, <4>1, <4>2, <2>3
    <3>4. CASE plan[j].cmd # "FPWR"
      BY <3>2, <3>4, <2>2, <2>3, PutIn
    <3> QED BY <3>3, <3>4
  <2>7. \A b \in body + l .. body + l + 1 : In(frame', b) = Count(j)'
    <3>1. \A b \in body + l .. body + l + 1 : b \in body + l .. body + l + 2 - 1
      BY <2>2
    <3> HIDE DEF filled
    <3> QED BY <2>1, <2>2, <2>3, <3>1, PutIn
  <2>8. \A b \in Nat : b \notin body .. End(From(j), plan[j]) - 1 =>
                         In(frame', b) = In(frame, b)
    <3> HIDE DEF filled
    <3> QED BY <2>2, <2>4, <2>5
  <2>9. \A b \in From(j) .. From(j) + HEADER - 1 :
          In(frame', b) = Header(plan[j], Follows(j))
    <3>1. \A b \in From(j) .. From(j) + HEADER - 1 :
            b \in Nat /\ b \notin body .. End(From(j), plan[j]) - 1
      BY <1>2, Sizes DEF body
    <3> QED BY <3>1, <2>8, <1>4 DEF IsAt
  <2>10. IsAt(frame, From(j), plan[j], Follows(j), Result(j), Count(j))'
    <3>1. /\ From(j)' = From(j) /\ plan'[j] = plan[j] /\ Follows(j)' = Follows(j)
      BY <1>1, <1>2
    <3>2. IsAt(frame', From(j), plan[j], Follows(j), Result(j)', Count(j)')
      BY <2>6, <2>7, <2>9 DEF IsAt, body, l
    <3> QED BY <3>1, <3>2
  <2>11. ASSUME NEW k \in 1 .. Len(plan), k # j
         PROVE  IsAt(frame, From(k), plan[k], Follows(k), Result(k), Count(k))'
    <3>1. IsAt(frame', From(k), plan[k], Follows(k), Result(k), Count(k))
      BY <1>1, <2>8, <2>11, OtherStays DEF body
    <3>2. plan[k].to # plan[j].to
      BY <1>1, <2>11 DEF FrameInv, PlanRight
    <3>3. Result(k)' = Result(k) /\ Count(k)' = Count(k)
      BY <1>1, <2>1, <3>2 DEF Result, Count
    <3>4. /\ From(k)' = From(k) /\ plan'[k] = plan[k] /\ Follows(k)' = Follows(k)
      BY <1>1, <1>2
    <3> QED BY <3>1, <3>3, <3>4
  <2>12. Enclosed'
    BY <1>1, <1>2, <2>10, <2>11 DEF Enclosed
  <2> QED BY <1>8, <1>9, <2>12 DEF FrameInv
<1> QED BY <1>10, <1>11


\* The other steps leave the frame alone.
LEMMA RestKeeps ==
  CallRight /\ FrameInv
    /\ (SendFrame \/ Lose \/ Receive \/ NotReceived \/ NextFrame \/ UNCHANGED datagramVars)
      => FrameInv'
<1> SUFFICES ASSUME CallRight, FrameInv,
                    SendFrame \/ Lose \/ Receive \/ NotReceived \/ NextFrame
                      \/ UNCHANGED datagramVars
             PROVE  FrameInv'
  OBVIOUS
<1>1. UNCHANGED <<call, plan, frame, elength, txbuflength, offset, answered>>
  BY DEF SendFrame, Lose, Receive, NotReceived, NextFrame, datagramVars
<1>2. CASE step' = "start"
  <2>1. step = "start" => UNCHANGED datagramVars
    BY DEF SendFrame, Lose, Receive, NotReceived, NextFrame
  <2> QED BY <1>1, <1>2
      DEF FrameInv, PlanRight, OffsetsRight, Layout, Ordered, Enclosed, Walk
<1>3. CASE step' # "start"
  <2>1. step # "start" /\ fslave' = fslave
    BY <1>3 DEF SendFrame, Lose, Receive, NotReceived, NextFrame, datagramVars
  <2>2. \A k : /\ From(k)' = From(k) /\ Follows(k)' = Follows(k) /\ Body(k)' = Body(k)
               /\ Result(k)' = Result(k) /\ Count(k)' = Count(k)
    BY <1>1 DEF From, Body, Follows, More, Result, Count
  <2>3. PlanRight' /\ OffsetsRight'
    BY <1>1, <2>1 DEF FrameInv, PlanRight, OffsetsRight, Planned, LastSlave
  <2>4. Layout'
    BY <1>1, <2>1, <2>2 DEF FrameInv, Layout
  <2>5. Ordered'
    BY <1>1, <2>1, <2>2 DEF FrameInv, Ordered
  <2>6. Enclosed'
    BY <1>1, <2>1, <2>2 DEF FrameInv, Enclosed
  <2>7. Walk'
    <3>1. CASE SendFrame
      <4>1. 1 \in 1 .. Len(offset) /\ Len(offset) = Len(plan)
        BY <2>1, <3>1 DEF SendFrame, FrameInv, Layout
      <4>2. at' = From(1) /\ step' = "slaves"
        BY <2>1, <3>1, <4>1, Positions, Sizes DEF SendFrame
      <4> QED BY <1>1, <2>2, <4>1, <4>2 DEF Walk
    <3>2. CASE Lose \/ Receive \/ NotReceived \/ NextFrame
      BY <3>2 DEF Lose, Receive, NotReceived, NextFrame, Walk
    <3>3. CASE UNCHANGED datagramVars
      <4>1. step' = step /\ at' = at
        BY <3>3 DEF datagramVars
      <4> QED BY <1>1, <2>2, <4>1 DEF FrameInv, Walk
    <3> QED BY <3>1, <3>2, <3>3
  <2> QED BY <2>3, <2>4, <2>5, <2>6, <2>7 DEF FrameInv
<1> QED BY <1>2, <1>3

\* Every step leaves the frame as it was laid out, up to what the slaves answer.
LEMMA FramesKept == IInv /\ [DatagramNext]_datagramVars => FrameInv'
BY SetupKeeps, AddKeeps, SlavesKeep, RestKeeps DEF IInv, DatagramNext, Done

\* What the master reads of a frame that is back.
LEMMA ReadRight ==
  ASSUME FrameInv, step = "back"
  PROVE  /\ at = Body(Len(plan)) - HEADER
         /\ \A k \in DOMAIN plan : Read(k) = [b \in 0 .. plan[k].length - 1 |-> Result(k)]
         /\ Wkc = Count(Len(plan))
         /\ call.kind = "dc" => FirstWkc = Count(1)
<1>1. /\ Len(offset) = Len(plan) /\ Len(plan) \in Nat /\ Len(plan) \in 1 .. Len(plan)
      /\ DOMAIN plan = 1 .. Len(plan) /\ offset[1] = 12 /\ 1 \in 1 .. Len(plan)
  BY Sizes DEF FrameInv, Walk, PlanRight, Layout
<1>2. \A k \in 1 .. Len(plan) :
        /\ IsAt(frame, From(k), plan[k], Follows(k), Result(k), Count(k))
        /\ From(k) = offset[k] + 4 /\ offset[k] \in Nat /\ plan[k].length \in Nat
        /\ Body(k) = offset[k] + 14
  BY <1>1, Positions, Sizes DEF FrameInv, Enclosed, Body
<1>3. at = Body(Len(plan)) - HEADER
  BY DEF FrameInv, Walk, From
<1>4. ASSUME NEW k \in 1 .. Len(plan)
      PROVE  Read(k) = [b \in 0 .. plan[k].length - 1 |-> Result(k)]
  <2>1. Read(k) = [b \in 0 .. plan[k].length - 1 |-> In(frame, offset[k] + b + 14)]
    BY <1>1, Sizes DEF Read, Copy, Received, At
  <2>2. ASSUME NEW b \in 0 .. plan[k].length - 1
        PROVE  In(frame, offset[k] + b + 14) = Result(k)
    <3>1. \A a, l \in Nat : \A c \in 0 .. l - 1 :
            a + c + 14 \in (a + 4) + 10 .. (a + 4) + 10 + l - 1
      OBVIOUS
    <3>2. offset[k] + b + 14 \in From(k) + HEADER .. From(k) + HEADER + plan[k].length - 1
      BY <3>1, <1>2, Sizes
    <3> QED BY <3>2, <1>2 DEF IsAt
  <2> QED BY <2>1, <2>2
<1>5. ASSUME NEW k \in 1 .. Len(plan)
      PROVE  In(frame, offset[k] + plan[k].length + 14) = Count(k)
  <2>1. \A a, l \in Nat :
          a + l + 14 \in (a + 4) + 10 + l .. (a + 4) + 10 + l + 1
    OBVIOUS
  <2>2. offset[k] + plan[k].length + 14 \in
          From(k) + HEADER + plan[k].length .. From(k) + HEADER + plan[k].length + 1
    BY <2>1, <1>2, Sizes
  <2> QED BY <2>2, <1>2 DEF IsAt
<1>6. Wkc = Count(Len(plan))
  <2> DEFINE n == Len(plan)
  <2>1. /\ txbuflength = offset[n] + 14 + plan[n].length + 2
        /\ elength = txbuflength - 14 - 2
    BY <1>1, Sizes DEF FrameInv, Layout, Body
  <2>2. offset[n] \in Nat /\ plan[n].length \in Nat
    BY <1>1, <1>2
  <2>3. \A a, l \in Nat : (a + 14 + l + 2) - 14 - 2 + 14 = a + l + 14
    OBVIOUS
  <2>4. elength + 14 = offset[n] + plan[n].length + 14
    BY <2>1, <2>2, <2>3
  <2> QED BY <2>4, <1>1, <1>5, Sizes DEF Wkc, Received, At
<1>7. FirstWkc = Count(1)
  BY <1>1, <1>5, Sizes DEF FirstWkc, Received, At
<1> QED BY <1>1, <1>3, <1>4, <1>6, <1>7

\* The datagrams of ecx_readstate are of the size of a state, one for each
\* slave from the first of the frame.
LEMMA StatesPlanned ==
  ASSUME CallRight, PlanRight, step # "start", call.kind = "states"
  PROVE  /\ LastSlave(fslave) \in Nat /\ LastSlave(fslave) >= fslave
         /\ LastSlave(fslave) <= call.n /\ call.n \in Nat
         /\ DOMAIN plan = 1 .. LastSlave(fslave) - fslave + 1
         /\ \A k \in DOMAIN plan : plan[k] = Datagram("FPRD", 6, fslave + k - 1)
<1>1. plan = Planned(fslave)
  BY DEF PlanRight
<1>2. /\ LastSlave(fslave) \in Nat /\ LastSlave(fslave) >= fslave
      /\ LastSlave(fslave) <= call.n /\ call.n \in Nat
  BY DatagramAssumption DEF CallRight, Callers, LastSlave
<1>3. plan = [k \in 1 .. LastSlave(fslave) - fslave + 1 |->
                Datagram("FPRD", 6, fslave + k - 1)]
  BY <1>1 DEF Planned, ALSTATUS
<1> QED BY <1>2, <1>3

\* What is taken or put for a slave is a state.
LEMMA TakenState ==
  ASSUME IInv, call.kind = "states", Receive \/ NotReceived,
         NEW s \in 1 .. LastSlave(fslave)
  PROVE  value'[s] \in AlStates
<1>1. /\ step # "start" /\ DOMAIN value = 1 .. call.n
      /\ s < fslave => value[s] \in AlStates
  <2>1. step # "start"
    BY DEF Receive, NotReceived
  <2>2. s < fslave => s \in 1 .. fslave - 1
    BY DEF IInv, CallRight
  <2> QED BY <2>1, <2>2 DEF IInv, Served
<1>2. /\ LastSlave(fslave) <= call.n /\ LastSlave(fslave) \in Nat /\ call.n \in Nat
      /\ fslave \in Nat
      /\ DOMAIN plan = 1 .. LastSlave(fslave) - fslave + 1
      /\ \A k \in DOMAIN plan : plan[k] = Datagram("FPRD", 6, fslave + k - 1)
  BY <1>1, StatesPlanned DEF IInv, FrameInv, CallRight
<1>3. s \in DOMAIN value
  BY <1>1, <1>2
<1>4. \A k \in DOMAIN plan : plan[k].length = 6 /\ plan[k].to = fslave + k - 1
                             /\ plan[k].to \in Nat /\ plan[k].cmd = "FPRD"
  BY <1>2 DEF Datagram
<1>5. s >= fslave => \E k \in DOMAIN plan : plan[k].to = s
  <2> SUFFICES ASSUME s >= fslave PROVE \E k \in DOMAIN plan : plan[k].to = s
    OBVIOUS
  <2>1. s - fslave + 1 \in DOMAIN plan /\ fslave + (s - fslave + 1) - 1 = s
    BY <1>2
  <2> QED BY <2>1, <1>4
<1>6. CASE Receive
  <2>1. step = "back"
    BY <1>6 DEF Receive
  <2>2. \A k \in DOMAIN plan : Read(k) \in AlStates
    <3> SUFFICES ASSUME NEW k \in DOMAIN plan PROVE Read(k) \in AlStates
      OBVIOUS
    <3>1. Read(k) = [b \in 0 .. 5 |-> Result(k)]
      <4>1. Read(k) = [b \in 0 .. plan[k].length - 1 |-> Result(k)]
        BY <2>1, ReadRight DEF IInv
      <4>2. plan[k].length - 1 = 5
        BY <1>4
      <4> QED BY <4>1, <4>2
    <3>2. Result(k) \in DataBytes
      BY <1>4 DEF Result, Data, Blank, ReadCommand, DataBytes
    <3> QED BY <3>1, <3>2 DEF AlStates
  <2>3. value'[s] = Taken[s]
    BY <1>6 DEF Receive
  <2>4. Taken[s] = IF \E k \in DOMAIN plan : plan[k].to = s
                   THEN Read(CHOOSE k \in DOMAIN plan : plan[k].to = s) ELSE value[s]
    BY <1>3 DEF Taken
  <2>5. CASE \E k \in DOMAIN plan : plan[k].to = s
    BY <2>2, <2>3, <2>4, <2>5
  <2>6. CASE ~ \E k \in DOMAIN plan : plan[k].to = s
    BY <2>3, <2>4, <2>6, <1>1, <1>2, <1>5
  <2> QED BY <2>5, <2>6
<1>7. CASE NotReceived
  <2> DEFINE zero == [b \in 0 .. ALSTATUS - 1 |-> Blank(Datagram("FPRD", ALSTATUS, s))]
  <2>1. zero \in AlStates
    <3>1. Blank(Datagram("FPRD", ALSTATUS, s)) \in DataBytes
      BY DEF Blank, Data, Datagram, ReadCommand, DataBytes
    <3> QED BY <3>1 DEF AlStates, ALSTATUS
  <2>2. value'[s] = IF \E k \in DOMAIN plan : plan[k].to = s THEN zero ELSE value[s]
    BY <1>3, <1>7 DEF NotReceived
  <2> HIDE DEF zero
  <2> QED BY <2>1, <2>2, <1>1, <1>2, <1>5
<1> QED BY <1>6, <1>7

\* Every step keeps the states that were read.
LEMMA ServedKept == IInv /\ [DatagramNext]_datagramVars => Served'
<1> SUFFICES ASSUME IInv, [DatagramNext]_datagramVars, call'.kind = "states"
             PROVE  /\ DOMAIN value' = 1 .. call'.n
                    /\ \A s \in 1 .. fslave' - 1 : value'[s] \in AlStates
                    /\ step' \in {"next", "done"} =>
                         \A s \in fslave' .. LastSlave(fslave)' : value'[s] \in AlStates
                    /\ step' = "done" => LastSlave(fslave)' = call'.n
  BY DEF Served
<1>1. call' = call
  BY DEF DatagramNext, Setup, Add, SendFrame, Answer, Silence, Pass, Lose, Receive,
         NotReceived, NextFrame, Done, datagramVars
<1>2. CASE Setup \/ Add \/ SendFrame \/ Answer \/ Silence \/ Lose
  BY <1>1, <1>2 DEF Setup, Add, SendFrame, Answer, Silence, Pass, Lose, IInv, Served
<1>3. CASE Receive \/ NotReceived
  <2>1. /\ step' = "next" /\ fslave' = fslave /\ DOMAIN value' = DOMAIN value
        /\ step # "start"
    BY <1>3 DEF Receive, NotReceived, Taken
  <2>2. LastSlave(fslave)' = LastSlave(fslave)
    BY <1>1, <2>1 DEF LastSlave
  <2>3. \A s \in 1 .. LastSlave(fslave) : value'[s] \in AlStates
    BY <1>1, <1>3, TakenState
  <2>4. fslave \in Nat \ {0} /\ LastSlave(fslave) >= fslave /\ LastSlave(fslave) \in Nat
    BY <1>1, <2>1, StatesPlanned DEF IInv, CallRight, FrameInv
  <2> QED BY <1>1, <2>1, <2>2, <2>3, <2>4 DEF IInv, Served
<1>4. CASE NextFrame
  <2>1. /\ step = "next" /\ value' = value /\ DOMAIN value = 1 .. call.n
        /\ \A s \in 1 .. fslave - 1 : value[s] \in AlStates
        /\ \A s \in fslave .. LastSlave(fslave) : value[s] \in AlStates
    BY <1>1, <1>4 DEF NextFrame, IInv, Served
  <2>2. /\ LastSlave(fslave) \in Nat /\ LastSlave(fslave) >= fslave
        /\ LastSlave(fslave) <= call.n /\ call.n \in Nat /\ fslave \in Nat
    BY <1>1, <2>1, StatesPlanned DEF IInv, CallRight, FrameInv
  <2>3. CASE LastSlave(fslave) < call.n
    <3>1. fslave' = LastSlave(fslave) + 1 /\ step' = "start"
      BY <1>1, <1>4, <2>3 DEF NextFrame
    <3>2. \A s \in 1 .. fslave' - 1 : s \in 1 .. fslave - 1 \/ s \in fslave .. LastSlave(fslave)
      BY <2>2, <3>1
    <3> QED BY <1>1, <2>1, <3>1, <3>2
  <2>4. CASE LastSlave(fslave) = call.n
    <3>1. fslave' = fslave /\ step' = "done"
      BY <1>1, <1>4, <2>2, <2>4 DEF NextFrame
    <3>2. LastSlave(fslave)' = LastSlave(fslave)
      BY <1>1, <3>1 DEF LastSlave
    <3> QED BY <1>1, <2>1, <2>4, <3>1, <3>2
  <2> QED BY <2>2, <2>3, <2>4
<1>5. CASE Done \/ UNCHANGED datagramVars
  <2>1. UNCHANGED datagramVars
    BY <1>5 DEF Done
  <2>2. LastSlave(fslave)' = LastSlave(fslave)
    BY <2>1 DEF LastSlave, datagramVars
  <2> QED BY <1>1, <2>1, <2>2 DEF IInv, Served, datagramVars
<1> QED BY <1>2, <1>3, <1>4, <1>5 DEF DatagramNext

\* IInv is an invariant.
THEOREM InvariantHolds == DatagramSpec => []IInv
<1>1. IInv /\ [DatagramNext]_datagramVars => IInv'
  BY CallKept, FramesKept, ServedKept DEF IInv
<1> QED BY InitRight, <1>1, PTL DEF DatagramSpec

\* However many datagrams a frame has and however long they are, each answer is
\* read at its place, the counter returned is that of the last datagram, and
\* ecx_readstate leaves no slave out (ethercatbase.c, ecx_FPRD_multi).
THEOREM EachReadsOwnAlways == DatagramSpec => []EachReadsOwn
<1>1. IInv => EachReadsOwn
  <2> SUFFICES ASSUME IInv PROVE EachReadsOwn
    OBVIOUS
  <2>1. step = "back" =>
          /\ at = Body(Len(plan)) - HEADER
          /\ \A k \in DOMAIN plan : Read(k) = [b \in 0 .. plan[k].length - 1 |-> Result(k)]
          /\ Wkc = Count(Len(plan))
          /\ call.kind = "dc" => FirstWkc = Count(1)
    BY ReadRight DEF IInv
  <2>2. step = "done" /\ call.kind = "states" => \A s \in 1 .. call.n : value[s] # Nothing
    <3> SUFFICES ASSUME step = "done", call.kind = "states", NEW s \in 1 .. call.n
                 PROVE  value[s] # Nothing
      OBVIOUS
    <3>1. /\ \A i \in 1 .. fslave - 1 : value[i] \in AlStates
          /\ \A i \in fslave .. LastSlave(fslave) : value[i] \in AlStates
          /\ LastSlave(fslave) = call.n
      BY DEF IInv, Served
    <3>2. call.n \in Nat /\ fslave \in Nat
      BY DatagramAssumption DEF IInv, CallRight, Callers
    <3>3. s \in 1 .. fslave - 1 \/ s \in fslave .. LastSlave(fslave)
      BY <3>1, <3>2
    <3> QED BY <3>1, <3>3, DatagramAssumption
  <2> QED BY <2>1, <2>2 DEF EachReadsOwn
<1> QED BY InvariantHolds, <1>1, PTL

-----------------------------------------------------------------------------
(***************************************************************************)
(* The redundant ring (RedPort)                                            *)
(***************************************************************************)

AnyWork == [Slaves -> Nat]
\* The two kinds of frames, with any work.
Gram(w)  == [kind |-> "datagram", sa |-> "RX_PRIM", work |-> w]
Dummy(w) == [kind |-> "dummy", sa |-> "RX_SEC", work |-> w]
AnyRing == [kind : {"datagram"}, sa : {"RX_PRIM"}, work : AnyWork]
           \union [kind : {"dummy"}, sa : {"RX_SEC"}, work : AnyWork]
\* What the slaves have done in the end, and to a frame from stack s.
All == [i \in Slaves |-> 1]
By(s) == [i \in Slaves |-> IF i \in Worked(s) THEN 1 ELSE 0]

RingType ==
  /\ cable \in Breaks \union {Absent}
  /\ out \in [Stacks -> Seq(AnyRing)] /\ sock \in [Stacks -> Seq(AnyRing)]
  /\ ringtx \in AnyWork /\ ringrx \in [Stacks -> AnyRing \union {Absent}]
  /\ awaited \in [Stacks -> BOOLEAN] /\ ringgot \in [Stacks -> BOOLEAN]
  /\ \A s \in Stacks : ringgot[s] => ringrx[s] \in AnyRing
  /\ ringpc \in {"outframe", "outdummy", "wait", "rewait", "confirm", "done"}
  /\ sends \in Nat /\ losses \in Nat /\ changes \in Nat /\ hasty \in BOOLEAN

-----------------------------------------------------------------------------
\* Nothing happens to the ring, and no frame comes in too early.
Calm == losses = 0 /\ changes = 0 /\ ~ hasty

\* The frame f of stack s is on its way, or was lost at the broken cable, or has
\* come out of the ring.
Travels(s, f, worked) ==
  \/ out[s] = << f >> /\ sock[Target(s)] = << >> /\ ~ ringgot[Target(s)]
  \/ /\ out[s] = << >> /\ sock[Target(s)] = << >> /\ ~ ringgot[Target(s)]
     /\ Unplugged(s)
  \/ /\ out[s] = << >> /\ sock[Target(s)] = << worked >> /\ ~ ringgot[Target(s)]
     /\ ~ Unplugged(s)
  \/ /\ out[s] = << >> /\ sock[Target(s)] = << >> /\ ringgot[Target(s)]
     /\ ~ Unplugged(s) /\ ringrx[Target(s)] = worked

Empty(q) == \A s \in Stacks : q[s] = << >>

\* Where the datagram and the dummy are, and how far the datagram got.
CalmInv ==
  Calm =>
    /\ ringpc = "outframe" => Empty(out) /\ Empty(sock) /\ ringtx = Fresh
    /\ ringpc = "outdummy" =>
         /\ ringtx = Fresh /\ awaited[0] /\ (ringsystem = "vxworks" => out[0] # << >>)
         /\ Travels(0, Gram(Fresh), Gram(By(0)))
         /\ out[1] = << >> /\ sock[Target(1)] = << >> /\ Target(1) # Target(0)
         /\ \A s \in Stacks : ~ ringgot[s]
    /\ ringpc = "wait" =>
         /\ ringtx = Fresh /\ \A s \in Stacks : ringgot[s] \/ awaited[s]
         /\ Travels(0, Gram(Fresh), Gram(By(0))) /\ Travels(1, Dummy(Fresh), Dummy(By(1)))
    /\ ringpc = "rewait" =>
         /\ cable \notin {Absent, RingSlaves} /\ out[0] = << >> /\ awaited[1]
         /\ \/ out[1] = << Gram(By(0)) >> /\ sock[1] = << >>
            \/ out[1] = << >> /\ sock[1] = << Gram(All) >>
    /\ ringpc \in {"confirm", "done"} => ringgot[0] /\ ringrx[0] = Gram(All)

-----------------------------------------------------------------------------
\* The frames of a sequence, of which one at most has the origin x.
Has(q) == {q[k] : k \in 1 .. Len(q)}
AtMostOne(q, x) == \A j, k \in 1 .. Len(q) : q[j].sa = x /\ q[k].sa = x => j = k
\* What has come to stack s in this round.
Come(s) == Has(sock[s]) \union (IF ringgot[s] THEN {ringrx[s]} ELSE {})

\* Nothing is left of an earlier transmission.
Clean == Empty(out) /\ Empty(sock) /\ ringtx = Fresh

\* The call is in its first transmission, or the ring stays as it was.
Single == changes = 0 \/ sends <= 1
\* And at most one change, which cannot make a slave work again.
Steady == changes = 0 \/ (sends <= 1 /\ changes = 1)

\* No slave worked twice; and none behind the break that came or comes.
Once(w) == \A i \in Slaves : w[i] <= 1
Front(w) ==
  \A i \in Slaves :
    w[i] = 0 \/ (w[i] = 1 /\ IF cable = Absent THEN changes = 1 ELSE i <= cable)

\* A dummy that passed the whole ring backwards was worked on by none.
Idle ==
  /\ \A f \in Has(out[0]) : f.sa = "RX_PRIM"
  /\ \A f \in Has(out[1]) \union Has(sock[0]) : f.sa = "RX_SEC" => f.work = Fresh
  /\ ringpc \in {"outdummy", "wait"} /\ ringgot[0] /\ ringrx[0].sa = "RX_SEC" =>
       ringrx[0].work = Fresh

\* What each transmission starts from.
Started ==
  /\ sends = 0 => ringpc = "outframe"
  /\ ringpc = "outframe" /\ (changes = 0 \/ sends = 0) => Clean
  /\ ringpc = "confirm" /\ changes = 0 /\ ~ ringgot[0] => Clean

\* Of each frame of the round there is one, on its way or come to one stack.
Round ==
  ringpc \in {"outdummy", "wait"} /\ Single =>
    /\ ringtx = Fresh
    /\ out[0] \in {<< >>, << Gram(Fresh) >>} /\ out[1] \in {<< >>, << Dummy(Fresh) >>}
    /\ ringpc = "outdummy" =>
         /\ out[1] = << >> /\ \A s \in Stacks : ~ ringgot[s]
         /\ \A s \in Stacks : \A f \in Has(sock[s]) : f.sa = "RX_PRIM"
    /\ \A s \in Stacks :
         /\ AtMostOne(sock[s], "RX_PRIM") /\ AtMostOne(sock[s], "RX_SEC")
         /\ out[0] # << >> => \A f \in Come(s) : f.sa = "RX_SEC"
         /\ out[1] # << >> => \A f \in Come(s) : f.sa = "RX_PRIM"
         /\ ringgot[s] => \A f \in Has(sock[s]) : f.sa # ringrx[s].sa
         /\ changes = 0 => \A f \in Come(s) : f.sa = "RX_PRIM" <=> (cable = Absent <=> s = 1)

\* Only the datagram is sent on, and comes back.
SentOn ==
  ringpc = "rewait" /\ Single =>
    /\ \A f \in Has(out[1]) \union Has(sock[1]) : f.sa = "RX_PRIM"
    /\ ringgot[0] => ringrx[0].sa = "RX_PRIM"
    /\ changes = 0 =>
         /\ cable # Absent
         /\ ~ ringgot[0] => out[0] = << >> /\ sock[0] = << >> /\ ringtx = Fresh

\* What is taken is the datagram, or a dummy no slave worked on.
Concluded ==
  ringpc \in {"confirm", "done"} /\ ringgot[0] =>
    /\ Single => ringrx[0].sa = "RX_PRIM" \/ ringrx[0].work = Fresh
    /\ Steady => Once(ringrx[0].work)

\* How often the slaves worked on the datagram, where it may be.
WorkedOnce ==
  Steady =>
    /\ ringpc \in {"outdummy", "wait"} =>
         /\ \A f \in Come(0) : f.sa = "RX_PRIM" => Front(f.work)
         /\ \A f \in Come(1) : f.sa = "RX_PRIM" => Once(f.work)
    /\ ringpc = "rewait" =>
         /\ \A f \in Has(out[0]) : f.work = Fresh
         /\ \A f \in Has(out[1]) : Front(f.work)
         /\ \A f \in Has(sock[1]) : Once(f.work)
         /\ ringgot[0] => Once(ringrx[0].work)

AnswerInv == Idle /\ Started /\ Round /\ SentOn /\ Concluded /\ WorkedOnce

-----------------------------------------------------------------------------
(* Of sequences of frames.                                                  *)

\* The first of a sequence, and what is left without it.
LEMMA HeadTail ==
  ASSUME NEW S, NEW q \in Seq(S), q # << >>
  PROVE  /\ Head(q) \in Has(q) /\ Head(q) \in S /\ Head(q) = q[1]
         /\ Tail(q) \in Seq(S) /\ Len(Tail(q)) = Len(q) - 1 /\ Len(q) \in Nat \ {0}
         /\ Has(Tail(q)) \subseteq Has(q)
         /\ \A k \in 1 .. Len(q) - 1 : Tail(q)[k] = q[k + 1]
<1>1. /\ Head(q) \in S /\ Head(q) = q[1] /\ Tail(q) \in Seq(S) /\ Len(Tail(q)) = Len(q) - 1
      /\ Len(q) \in Nat \ {0} /\ \A k \in 1 .. Len(q) - 1 : Tail(q)[k] = q[k + 1]
  BY HeadTailProperties
<1>2. Head(q) \in Has(q)
  BY <1>1 DEF Has
<1>3. Has(Tail(q)) \subseteq Has(q)
  BY <1>1 DEF Has
<1> QED BY <1>1, <1>2, <1>3

\* A sequence with one more.
LEMMA Longer ==
  ASSUME NEW S, NEW q \in Seq(S), NEW f \in S
  PROVE  /\ Append(q, f) \in Seq(S) /\ Append(q, f) # << >> /\ Has(Append(q, f)) = Has(q) \union {f}
         /\ Len(Append(q, f)) = Len(q) + 1 /\ Len(q) \in Nat /\ Append(q, f)[Len(q) + 1] = f
         /\ \A k \in 1 .. Len(q) : Append(q, f)[k] = q[k]
<1>1. /\ Append(q, f) \in Seq(S) /\ Append(q, f) # << >> /\ Len(Append(q, f)) = Len(q) + 1
      /\ Len(q) \in Nat /\ Append(q, f)[Len(q) + 1] = f
      /\ \A k \in 1 .. Len(q) : Append(q, f)[k] = q[k]
  BY AppendProperties
<1>2. Has(Append(q, f)) = Has(q) \union {f}
  BY <1>1 DEF Has
<1> QED BY <1>1, <1>2

\* Sequences of one and of none.
LEMMA Alone ==
  ASSUME NEW f
  PROVE  /\ Has(<< f >>) = {f} /\ Head(<< f >>) = f /\ Tail(<< f >>) = << >> /\ << f >> # << >>
         /\ Has(<< >>) = {} /\ Append(<< >>, f) = << f >>
         /\ \A x : AtMostOne(<< f >>, x) /\ AtMostOne(<< >>, x)
<1>1. Has(<< f >>) = {f} /\ Has(<< >>) = {}
  BY DEF Has
<1>2. Head(<< f >>) = f /\ Tail(<< f >>) = << >> /\ << f >> # << >>
  OBVIOUS
<1>3. \A x : AtMostOne(<< f >>, x) /\ AtMostOne(<< >>, x)
  BY DEF AtMostOne
<1>4. Append(<< >>, f) = << f >>
  OBVIOUS
<1> QED BY <1>1, <1>2, <1>3, <1>4

\* Of the frames of one origin one is taken: none is left.
LEMMA OneTaken ==
  ASSUME NEW S, NEW q \in Seq(S), q # << >>, NEW x, AtMostOne(q, x)
  PROVE  /\ AtMostOne(Tail(q), x)
         /\ Head(q).sa = x => \A f \in Has(Tail(q)) : f.sa # x
<1>1. /\ Head(q) = q[1] /\ Len(Tail(q)) = Len(q) - 1 /\ Len(q) \in Nat \ {0}
      /\ \A k \in 1 .. Len(q) - 1 : Tail(q)[k] = q[k + 1]
  BY HeadTail
<1>2. AtMostOne(Tail(q), x)
  BY <1>1 DEF AtMostOne
<1>3. ASSUME Head(q).sa = x, NEW f \in Has(Tail(q)) PROVE f.sa # x
  <2>1. PICK k \in 1 .. Len(q) - 1 : f = q[k + 1]
    BY <1>1 DEF Has
  <2> QED BY <1>1, <1>3, <2>1 DEF AtMostOne
<1> QED BY <1>2, <1>3

\* A frame of another origin is added: of each origin there still is at most one.
LEMMA OneMore ==
  ASSUME NEW S, NEW q \in Seq(S), NEW f \in S, NEW x, AtMostOne(q, x),
         f.sa = x => \A g \in Has(q) : g.sa # x
  PROVE  AtMostOne(Append(q, f), x)
<1>1. /\ Len(Append(q, f)) = Len(q) + 1 /\ Len(q) \in Nat /\ Append(q, f)[Len(q) + 1] = f
      /\ \A k \in 1 .. Len(q) : Append(q, f)[k] = q[k]
  BY Longer
<1>2. \A k \in 1 .. Len(q) : q[k] \in Has(q)
  BY DEF Has
<1> QED BY <1>1, <1>2 DEF AtMostOne

-----------------------------------------------------------------------------
(* The types.                                                               *)

\* What the constants are, and the two kinds of frames.
LEMMA Ring0 ==
  /\ RingSlaves \in Nat /\ RingSlaves >= 1 /\ Absent \notin Breaks
  /\ Fresh \in AnyWork /\ All \in AnyWork
  /\ \A w \in AnyWork : Gram(w) \in AnyRing /\ Dummy(w) \in AnyRing
  /\ \A f \in AnyRing : f.work \in AnyWork /\ (f = Gram(f.work) \/ f = Dummy(f.work))
<1>1. RingSlaves \in Nat /\ RingSlaves >= 1 /\ Absent \notin Breaks
  BY RingAssumption DEF Breaks
<1> QED BY <1>1 DEF Fresh, All, AnyWork, AnyRing, Gram, Dummy

\* What a slave does to a frame.
WorkedOn(s, f) == [f EXCEPT !.work = [i \in Slaves |-> IF i \in Worked(s) THEN @[i] + 1 ELSE @[i]]]

\* A slave changes the work of a frame, not its origin.
LEMMA Passed ==
  ASSUME NEW s \in Stacks, NEW f \in AnyRing
  PROVE  /\ WorkedOn(s, f) \in AnyRing /\ WorkedOn(s, f).sa = f.sa
         /\ WorkedOn(s, f).work =
              [i \in Slaves |-> IF i \in Worked(s) THEN f.work[i] + 1 ELSE f.work[i]]
BY DEF WorkedOn, AnyRing, AnyWork

\* A frame that crosses the ring leaves one stack and comes to at most one socket.
LEMMA CrossTypes ==
  ASSUME RingType, NEW s \in Stacks, Cross(s)
  PROVE  /\ Head(out[s]) \in Has(out[s]) /\ Head(out[s]) \in AnyRing /\ out[s] # << >>
         /\ out' = [out EXCEPT ![s] = Tail(@)] /\ out' \in [Stacks -> Seq(AnyRing)]
         /\ sock' = IF Unplugged(s) THEN sock ELSE Delivered(Target(s), WorkedOn(s, Head(out[s])))
         /\ Target(s) \in Stacks /\ sock' \in [Stacks -> Seq(AnyRing)]
         /\ \A r \in Stacks : Has(sock'[r]) \subseteq Has(sock[r]) \union
              IF r = Target(s) /\ ~ Unplugged(s) THEN {WorkedOn(s, Head(out[s]))} ELSE {}
<1>1. out[s] # << >> /\ out[s] \in Seq(AnyRing) /\ out' = [out EXCEPT ![s] = Tail(@)]
  BY DEF Cross, RingType
<1>2. /\ Head(out[s]) \in Has(out[s]) /\ Head(out[s]) \in AnyRing /\ Tail(out[s]) \in Seq(AnyRing)
  BY <1>1, HeadTail
<1>3. sock' = IF Unplugged(s) THEN sock ELSE Delivered(Target(s), WorkedOn(s, Head(out[s])))
  BY DEF Cross, WorkedOn
<1>4. Target(s) \in Stacks
  BY DEF Target, Stacks
<1>5. WorkedOn(s, Head(out[s])) \in AnyRing
  BY <1>2, Passed
<1>6. ASSUME NEW f \in AnyRing, NEW q, q = Delivered(Target(s), f)
      PROVE  /\ q \in [Stacks -> Seq(AnyRing)]
             /\ \A r \in Stacks : Has(q[r]) \subseteq Has(sock[r]) \union
                                    IF r = Target(s) THEN {f} ELSE {}
  <2>1. Append(sock[Target(s)], f) \in Seq(AnyRing)
        /\ Has(Append(sock[Target(s)], f)) = Has(sock[Target(s)]) \union {f}
    BY <1>4, <1>6, Longer DEF RingType
  <2>2. << f >> \in Seq(AnyRing) /\ Has(<< f >>) = {f}
    BY <1>6, Alone
  <2> QED BY <1>4, <1>6, <2>1, <2>2 DEF Delivered, RingType
<1>7. /\ sock' \in [Stacks -> Seq(AnyRing)]
      /\ \A r \in Stacks : Has(sock'[r]) \subseteq Has(sock[r]) \union
           IF r = Target(s) /\ ~ Unplugged(s) THEN {WorkedOn(s, Head(out[s]))} ELSE {}
  BY <1>3, <1>5, <1>6 DEF RingType
<1>8. out' \in [Stacks -> Seq(AnyRing)]
  BY <1>1, <1>2 DEF RingType
<1> QED BY <1>1, <1>2, <1>3, <1>4, <1>7, <1>8

\* A frame that is sent goes out, and nothing comes in.
LEMMA SendTypes ==
  ASSUME RingType, NEW s \in Stacks, NEW f \in AnyRing, Transmit(s, f), CleanUp
  PROVE  /\ out' = [out EXCEPT ![s] = Append(@, f)] /\ out' \in [Stacks -> Seq(AnyRing)]
         /\ Has(out'[s]) = Has(out[s]) \union {f}
         /\ awaited' = [awaited EXCEPT ![s] = TRUE] /\ awaited' \in [Stacks -> BOOLEAN]
         /\ sock' \in [Stacks -> Seq(AnyRing)] /\ sock'[1] = sock[1]
         /\ sock'[0] = sock[0] \/ (sock'[0] = << >> /\ ringsystem = "vxworks")
         /\ \A r \in Stacks : Has(sock'[r]) \subseteq Has(sock[r])
<1>1. /\ Append(out[s], f) \in Seq(AnyRing)
      /\ Has(Append(out[s], f)) = Has(out[s]) \union {f}
  BY Longer DEF RingType
<1>2. << >> \in Seq(AnyRing) /\ Has(<< >>) = {}
  BY EmptySeq DEF Has
<1>3. /\ sock' \in [Stacks -> Seq(AnyRing)] /\ sock'[1] = sock[1]
      /\ sock'[0] = sock[0] \/ (sock'[0] = << >> /\ ringsystem = "vxworks")
      /\ \A r \in Stacks : Has(sock'[r]) \subseteq Has(sock[r])
  BY <1>2 DEF CleanUp, RingType, Stacks
<1>4. out' = [out EXCEPT ![s] = Append(@, f)] /\ awaited' = [awaited EXCEPT ![s] = TRUE]
  BY DEF Transmit
<1>5. out' \in [Stacks -> Seq(AnyRing)] /\ Has(out'[s]) = Has(out[s]) \union {f}
      /\ awaited' \in [Stacks -> BOOLEAN]
  BY <1>1, <1>4 DEF RingType
<1> QED BY <1>3, <1>4, <1>5

\* What is fetched leaves the socket.
LEMMA ReadTypes ==
  ASSUME RingType, NEW s \in Stacks, sock[s] # << >>, sock' = [sock EXCEPT ![s] = Tail(@)]
  PROVE  /\ Head(sock[s]) \in AnyRing /\ Head(sock[s]) \in Has(sock[s])
         /\ sock' \in [Stacks -> Seq(AnyRing)]
         /\ \A r \in Stacks : Has(sock'[r]) \subseteq Has(sock[r])
<1>1. /\ Head(sock[s]) \in AnyRing /\ Head(sock[s]) \in Has(sock[s])
      /\ Tail(sock[s]) \in Seq(AnyRing) /\ Has(Tail(sock[s])) \subseteq Has(sock[s])
  BY HeadTail DEF RingType
<1> QED BY <1>1 DEF RingType

\* The datagram that is sent on.
LEMMA OnwardType ==
  ASSUME RingType
  PROVE  /\ Onward \in AnyWork /\ Gram(Onward) \in AnyRing
         /\ ringgot[0] /\ ringrx[0].sa = "RX_PRIM" => Onward = ringrx[0].work
         /\ ~ ringgot[0] => Onward = ringtx
<1>1. ringgot[0] => ringrx[0].work \in AnyWork
  BY Ring0 DEF RingType, Stacks
<1> QED BY <1>1, Ring0 DEF Onward, Route, RingType

\* The kinds of steps.
LEMMA RingSteps ==
  ASSUME RingNext
  PROVE  \/ OutPrimary \/ Confirm \/ CableChanges \/ UNCHANGED ringVars
         \/ \E S \in {"linux", "win32", "macosx", "rtems", "vxworks"} : OutDummy(S)
         \/ \E s \in Stacks : Cross(s) \/ LoseInRing(s) \/ ReadFrame(s)
         \/ TakeSecondary \/ SendOn \/ TakePrimary \/ InAgain \/ AgainExpires
BY DEF RingNext, RingRest, LinuxDummy, WinDummy, MacDummy, RtemsDummy, VxDummy,
       LinuxWait, WinWait, MacWait, RtemsWait, VxWait, WaitInFrame

\* Every step keeps the types.
LEMMA RingTypeStep ==
  ASSUME RingType, [RingNext]_ringVars
  PROVE  RingType'
<1>0. 0 \in Stacks /\ 1 \in Stacks
  BY Ring0 DEF Stacks
<1>1. CASE OutPrimary
  <2>1. Gram(ringtx) \in AnyRing /\ Transmit(0, Gram(ringtx)) /\ CleanUp
    BY <1>1, Ring0 DEF OutPrimary, Gram, RingType
  <2>2. out' \in [Stacks -> Seq(AnyRing)] /\ sock' \in [Stacks -> Seq(AnyRing)]
        /\ awaited' \in [Stacks -> BOOLEAN]
    BY <1>0, <2>1, SendTypes
  <2> QED BY <1>1, <2>2 DEF OutPrimary, ring, RingType
<1>2. CASE \E S \in {"linux", "win32", "macosx", "rtems", "vxworks"} : OutDummy(S)
  <2>1. Dummy(Fresh) \in AnyRing /\ Transmit(1, Dummy(Fresh)) /\ CleanUp
    BY <1>2, Ring0 DEF OutDummy, Dummy
  <2>2. out' \in [Stacks -> Seq(AnyRing)] /\ sock' \in [Stacks -> Seq(AnyRing)]
        /\ awaited' \in [Stacks -> BOOLEAN]
    BY <1>0, <2>1, SendTypes
  <2> QED BY <1>2, <2>2 DEF OutDummy, ring, RingType
<1>3. ASSUME NEW s \in Stacks, Cross(s) PROVE RingType'
  <2>1. out' \in [Stacks -> Seq(AnyRing)] /\ sock' \in [Stacks -> Seq(AnyRing)]
    BY <1>3, CrossTypes
  <2> QED BY <1>3, <2>1 DEF Cross, RingType
<1>4. ASSUME NEW s \in Stacks, LoseInRing(s) PROVE RingType'
  <2>1. out[s] \in Seq(AnyRing) /\ out[s] # << >>
    BY <1>4 DEF LoseInRing, RingType
  <2>2. Tail(out[s]) \in Seq(AnyRing)
    BY <2>1, HeadTail
  <2> QED BY <1>4, <2>2 DEF LoseInRing, RingType
<1>5. ASSUME NEW s \in Stacks, ReadFrame(s) PROVE RingType'
  <2>1. Head(sock[s]) \in AnyRing /\ sock' \in [Stacks -> Seq(AnyRing)]
    BY <1>5, ReadTypes DEF ReadFrame
  <2>2. /\ ringrx' \in [Stacks -> AnyRing \union {Absent}]
        /\ \A r \in Stacks : ringgot'[r] => ringrx'[r] \in AnyRing
    BY <1>5, <2>1 DEF ReadFrame, RingType
  <2> QED BY <1>5, <2>1, <2>2 DEF ReadFrame, ring, RingType
<1>6. CASE TakeSecondary
  <2>1. ringgot[1] /\ ringgot[0] /\ ringrx[1] \in AnyRing
    BY <1>0, <1>6 DEF TakeSecondary, Crossed, Route, RingType
  <2> QED BY <1>6, <2>1 DEF TakeSecondary, ring, RingType
<1>7. CASE SendOn
  <2>1. ringtx' \in AnyWork /\ Gram(ringtx') \in AnyRing /\ Transmit(1, Gram(ringtx')) /\ CleanUp
    BY <1>7, OnwardType DEF SendOn, Gram
  <2>2. out' \in [Stacks -> Seq(AnyRing)] /\ sock' \in [Stacks -> Seq(AnyRing)]
        /\ awaited' \in [Stacks -> BOOLEAN]
    BY <1>0, <2>1, SendTypes
  <2> QED BY <1>7, <2>1, <2>2 DEF SendOn, ring, RingType
<1>8. CASE InAgain
  <2>1. Head(sock[1]) \in AnyRing /\ sock' \in [Stacks -> Seq(AnyRing)]
    BY <1>0, <1>8, ReadTypes DEF InAgain
  <2> QED BY <1>8, <2>1 DEF InAgain, ring, RingType
<1>9. CASE TakePrimary \/ AgainExpires \/ Confirm \/ CableChanges \/ UNCHANGED ringVars
  BY <1>9 DEF TakePrimary, AgainExpires, Confirm, CableChanges, ringVars, ring, RingType
<1> QED BY <1>1, <1>2, <1>3, <1>4, <1>5, <1>6, <1>7, <1>8, <1>9, RingSteps

\* The call starts with nothing sent and nothing received.
LEMMA RingTypeInit == RingInit => RingType
<1> SUFFICES ASSUME RingInit PROVE RingType
  OBVIOUS
<1>1. out \in [Stacks -> Seq(AnyRing)] /\ sock \in [Stacks -> Seq(AnyRing)]
  <2>1. << >> \in Seq(AnyRing)
    BY EmptySeq
  <2> QED BY <2>1 DEF RingInit
<1>2. ringrx \in [Stacks -> AnyRing \union {Absent}] /\ ringgot \in [Stacks -> BOOLEAN]
      /\ awaited \in [Stacks -> BOOLEAN] /\ \A s \in Stacks : ~ ringgot[s]
  BY DEF RingInit
<1>3. cable \in Breaks \union {Absent} /\ ringtx \in AnyWork
  BY Ring0 DEF RingInit
<1>4. ringpc = "outframe" /\ sends = 0 /\ losses = 0 /\ changes = 0 /\ hasty = FALSE
  BY DEF RingInit
<1> QED BY <1>1, <1>2, <1>3, <1>4 DEF RingType

-----------------------------------------------------------------------------
(* A break is tolerated.                                                    *)

\* A ring that is whole, and one that is broken at cable.
LEMMA Whole ==
  ASSUME cable = Absent
  PROVE  /\ Target(0) = 1 /\ Target(1) = 0 /\ ~ Unplugged(0) /\ ~ Unplugged(1)
         /\ Worked(0) = Slaves /\ Worked(1) = {} /\ By(0) = All /\ By(1) = Fresh
<1>1. Absent # 0 /\ Absent # RingSlaves
  BY Ring0 DEF Breaks
<1>2. Worked(0) = Slaves /\ Worked(1) = {}
  BY DEF Worked
<1> QED BY <1>1, <1>2 DEF Target, Unplugged, By, All, Fresh

\* A break sends each frame back to the stack it came from.
LEMMA Broken ==
  ASSUME cable \in Breaks
  PROVE  /\ cable \in Nat /\ cable <= RingSlaves /\ Target(0) = 0 /\ Target(1) = 1
         /\ Unplugged(0) <=> cable = 0
         /\ Unplugged(1) <=> cable = RingSlaves
         /\ Worked(0) = 1 .. cable /\ Worked(1) = cable + 1 .. RingSlaves
         /\ cable = 0 => By(0) = Fresh
         /\ cable = RingSlaves => By(0) = All
<1>1. cable \in Nat /\ cable <= RingSlaves /\ cable # Absent
  BY Ring0 DEF Breaks
<1>2. Worked(0) = 1 .. cable /\ Worked(1) = cable + 1 .. RingSlaves
  BY <1>1 DEF Worked
<1>3. cable = 0 => By(0) = Fresh
  BY <1>2 DEF By, Fresh, Slaves
<1>4. cable = RingSlaves => By(0) = All
  BY <1>2 DEF By, All, Slaves
<1> QED BY <1>1, <1>2, <1>3, <1>4 DEF Target, Unplugged

\* What comes of the datagram, of the dummy, and of a datagram sent on.
LEMMA Results ==
  ASSUME RingType
  PROVE  /\ WorkedOn(0, Gram(Fresh)) = Gram(By(0)) /\ WorkedOn(1, Dummy(Fresh)) = Dummy(By(1))
         /\ cable # Absent => WorkedOn(1, Gram(By(0))) = Gram(All)
<1>1. WorkedOn(0, Gram(Fresh)) = Gram(By(0)) /\ WorkedOn(1, Dummy(Fresh)) = Dummy(By(1))
  BY DEF WorkedOn, Gram, Dummy, By, Fresh
<1>2. ASSUME cable # Absent PROVE WorkedOn(1, Gram(By(0))) = Gram(All)
  <2>1. cable \in Breaks
    BY <1>2 DEF RingType
  <2>2. \A i \in Slaves : i \in Worked(1) <=> ~ (i \in Worked(0))
    BY <2>1, Broken, Ring0 DEF Slaves
  <2>3. [i \in Slaves |-> IF i \in Worked(1) THEN By(0)[i] + 1 ELSE By(0)[i]] = All
    BY <2>2 DEF By, All
  <2> QED BY <2>3 DEF WorkedOn, Gram
<1> QED BY <1>1, <1>2

\* A frame crosses the ring as it should.
LEMMA TravelsOn ==
  ASSUME RingType, NEW s \in Stacks, Cross(s),
         NEW f \in AnyRing, NEW w, w = WorkedOn(s, f), Travels(s, f, w),
         ringsystem = "vxworks" => awaited[Target(s)]
  PROVE  Travels(s, f, w)'
<1>1. out[s] = << f >> /\ sock[Target(s)] = << >> /\ ~ ringgot[Target(s)]
  BY CrossTypes DEF Travels
<1>2. out'[s] = << >> /\ Head(out[s]) = f
  BY <1>1, CrossTypes, Alone DEF RingType
<1>3. sock' = IF Unplugged(s) THEN sock ELSE Delivered(Target(s), w)
  BY <1>2, CrossTypes
<1>4. Target(s) \in Stacks /\ cable' = cable /\ ringgot' = ringgot
  BY CrossTypes DEF Cross
<1>5. ~ Unplugged(s) => sock'[Target(s)] = << w >>
  <2>1. Append(sock[Target(s)], w) = << w >>
    BY <1>1, Alone
  <2> QED BY <1>3, <1>4, <2>1 DEF Delivered, RingType
<1> QED BY <1>1, <1>2, <1>3, <1>4, <1>5 DEF Travels, Target, Unplugged

\* The other stack's frame is where it was.
LEMMA TravelsBeside ==
  ASSUME RingType, NEW s \in Stacks, Cross(s), NEW r \in Stacks \ {s}, NEW f, NEW w
  PROVE  /\ Travels(r, f, w) => Travels(r, f, w)'
         /\ out'[r] = out[r] /\ sock'[Target(r)] = sock[Target(r)] /\ Target(r) # Target(s)
<1>1. Target(r) # Target(s) /\ Target(r) \in Stacks
  BY DEF Target, Stacks
<1>2. out'[r] = out[r] /\ sock'[Target(r)] = sock[Target(r)]
  <2>1. /\ out' = [out EXCEPT ![s] = Tail(@)]
        /\ sock' = IF Unplugged(s) THEN sock ELSE Delivered(Target(s), WorkedOn(s, Head(out[s])))
    BY CrossTypes
  <2>2. out \in [Stacks -> Seq(AnyRing)] /\ sock \in [Stacks -> Seq(AnyRing)]
    BY DEF RingType
  <2>3. \A f1 : Delivered(Target(s), f1)[Target(r)] = sock[Target(r)]
    BY <1>1, <2>2 DEF Delivered
  <2> QED BY <2>1, <2>2, <2>3
<1>3. cable' = cable /\ ringgot' = ringgot /\ ringrx' = ringrx
  BY DEF Cross
<1> QED BY <1>1, <1>2, <1>3 DEF Travels, Target, Unplugged

\* A call that stays calm was calm, and its ring is as it was.
LEMMA StaysCalm ==
  ASSUME RingType, RingNext, Calm'
  PROVE  Calm /\ cable' = cable /\ ringsystem' = ringsystem /\ ~ CableChanges
         /\ \A s \in Stacks : ~ LoseInRing(s)
<1>1. ~ CableChanges
  BY DEF CableChanges, Calm, RingType
<1>2. \A s \in Stacks : ~ LoseInRing(s)
  BY DEF LoseInRing, Calm, RingType
<1>3. \/ /\ UNCHANGED <<losses, changes, cable, ringsystem>>
         /\ hasty' = hasty \/ \E s \in Stacks : Cross(s)
  <2>1. CASE \E s \in Stacks : Cross(s)
    BY <2>1 DEF Cross
  <2>2. CASE ~ \E s \in Stacks : Cross(s)
    BY <1>1, <1>2, <2>2, RingSteps
    DEF OutPrimary, Confirm, ringVars, ring, OutDummy, ReadFrame, TakeSecondary, SendOn,
        TakePrimary, InAgain, AgainExpires
  <2> QED BY <2>1, <2>2
<1>4. ~ hasty
  BY <1>3 DEF Cross, Calm
<1> QED BY <1>1, <1>2, <1>3, <1>4 DEF Calm

\* The datagram and the dummy are sent.
LEMMA CalmSends ==
  ASSUME RingType, CalmInv, Calm, Calm', cable' = cable, ringsystem' = ringsystem,
         OutPrimary \/ \E S \in {"linux", "win32", "macosx", "rtems", "vxworks"} : OutDummy(S)
  PROVE  CalmInv'
<1>0. 0 \in Stacks /\ 1 \in Stacks /\ Stacks = {0, 1}
  BY DEF Stacks
<1>1. /\ Target(0) \in Stacks /\ Target(1) \in Stacks /\ Target(0) # Target(1)
      /\ \A s \in Stacks : /\ Target(s)' = Target(s) /\ By(s)' = By(s)
                           /\ Unplugged(s)' <=> Unplugged(s)
  BY DEF Target, Stacks, Unplugged, By, Worked
<1>2. CASE OutPrimary
  <2>1. /\ ringpc = "outframe" /\ Empty(out) /\ Empty(sock) /\ ringtx = Fresh
        /\ ringpc' = "outdummy" /\ ringtx' = ringtx
    BY <1>2 DEF OutPrimary, CalmInv
  <2>2. Gram(Fresh) \in AnyRing /\ Transmit(0, Gram(Fresh)) /\ CleanUp
    BY <1>2, <2>1, Ring0 DEF OutPrimary, Gram
  <2>3. out' = [out EXCEPT ![0] = << Gram(Fresh) >>]
    BY <1>0, <2>1, <2>2, SendTypes, Alone DEF Empty
  <2>4. Empty(sock)' /\ awaited'[0]
    BY <1>0, <2>1, <2>2, SendTypes DEF Empty, RingType
  <2>5. \A s \in Stacks : ~ ringgot'[s]
    BY <1>2 DEF OutPrimary
  <2>6. out'[0] = << Gram(Fresh) >> /\ out'[1] = << >> /\ out'[0] # << >>
    BY <1>0, <2>1, <2>3, Alone DEF Empty, RingType
  <2>7. Travels(0, Gram(Fresh), Gram(By(0)))'
    BY <1>0, <1>1, <2>4, <2>5, <2>6 DEF Travels, Empty
  <2> QED BY <1>0, <1>1, <2>1, <2>4, <2>5, <2>6, <2>7 DEF CalmInv, Empty
<1>3. CASE \E S \in {"linux", "win32", "macosx", "rtems", "vxworks"} : OutDummy(S)
  <2>1. /\ ringpc = "outdummy" /\ ringtx = Fresh /\ awaited[0]
        /\ Travels(0, Gram(Fresh), Gram(By(0)))
        /\ out[1] = << >> /\ sock[Target(1)] = << >> /\ \A s \in Stacks : ~ ringgot[s]
        /\ ringpc' = "wait" /\ ringtx' = ringtx /\ ringgot' = ringgot
        /\ ringsystem = "vxworks" => out[0] # << >>
    BY <1>3 DEF OutDummy, CalmInv
  <2>2. Dummy(Fresh) \in AnyRing /\ Transmit(1, Dummy(Fresh)) /\ CleanUp
    BY <1>3, Ring0 DEF OutDummy, Dummy
  <2>3. out'[1] = << Dummy(Fresh) >> /\ out'[0] = out[0]
    BY <1>0, <2>1, <2>2, SendTypes, Alone DEF RingType
  <2>4. \A s \in Stacks : sock'[s] = sock[s]
    <3>1. CASE ringsystem = "vxworks"
      <4>1. sock[Target(0)] = << >>
        BY <2>1, <3>1 DEF Travels
      <4>2. sock[0] = << >> /\ sock[1] = << >>
        BY <1>0, <1>1, <2>1, <4>1
      <4> QED BY <1>0, <2>2, <4>2, SendTypes
    <3>2. CASE ringsystem # "vxworks"
      BY <1>0, <2>2, <3>2, SendTypes
    <3> QED BY <3>1, <3>2
  <2>5. awaited'[0] /\ awaited'[1]
    BY <1>0, <2>1, <2>2, SendTypes DEF RingType
  <2>6. Travels(0, Gram(Fresh), Gram(By(0)))'
    BY <1>0, <1>1, <2>1, <2>3, <2>4 DEF Travels
  <2>7. Travels(1, Dummy(Fresh), Dummy(By(1)))'
    BY <1>0, <1>1, <2>1, <2>3, <2>4 DEF Travels
  <2> QED BY <1>0, <2>1, <2>5, <2>6, <2>7 DEF CalmInv
<1> QED BY <1>2, <1>3

\* A frame crosses the ring.
LEMMA CalmCross ==
  ASSUME RingType, CalmInv, Calm, Calm', cable' = cable, ringsystem' = ringsystem,
         NEW s \in Stacks, Cross(s)
  PROVE  CalmInv'
<1>0. 0 \in Stacks /\ 1 \in Stacks /\ Stacks = {0, 1}
  BY DEF Stacks
<1>1. /\ UNCHANGED <<ringpc, ringtx, ringrx, ringgot, awaited>> /\ out[s] # << >>
      /\ (ringsystem = "vxworks" => ringpc # "outdummy")
  BY DEF Cross, Calm
<1>2. Target(0) \in Stacks /\ Target(1) \in Stacks /\ Target(0) # Target(1)
      /\ \A r \in Stacks : /\ Target(r)' = Target(r) /\ By(r)' = By(r)
                           /\ Unplugged(r)' <=> Unplugged(r)
  BY DEF Target, Stacks, Unplugged, By, Worked
<1>3. ringpc # "outframe"
  BY <1>1 DEF CalmInv, Empty
<1>4. Gram(Fresh) \in AnyRing /\ Dummy(Fresh) \in AnyRing
      /\ WorkedOn(0, Gram(Fresh)) = Gram(By(0)) /\ WorkedOn(1, Dummy(Fresh)) = Dummy(By(1))
  BY Ring0, Results
<1>5. ASSUME Travels(0, Gram(Fresh), Gram(By(0))), s = 0,
             ringsystem = "vxworks" => awaited[Target(0)]
      PROVE  Travels(0, Gram(Fresh), Gram(By(0)))'
  <2>1. ASSUME NEW w, w = Gram(By(0)) PROVE Travels(0, Gram(Fresh), w)'
    BY <1>4, <1>5, <2>1, TravelsOn
  <2> QED BY <1>0, <1>2, <2>1 DEF Travels
<1>6. ASSUME Travels(1, Dummy(Fresh), Dummy(By(1))), s = 1,
             ringsystem = "vxworks" => awaited[Target(1)]
      PROVE  Travels(1, Dummy(Fresh), Dummy(By(1)))'
  <2>1. ASSUME NEW w, w = Dummy(By(1)) PROVE Travels(1, Dummy(Fresh), w)'
    BY <1>4, <1>6, <2>1, TravelsOn
  <2> QED BY <1>0, <1>2, <2>1 DEF Travels
<1>7. CASE ringpc = "outdummy"
  <2>1. s = 0
    BY <1>0, <1>1, <1>7 DEF CalmInv
  <2>2. Travels(0, Gram(Fresh), Gram(By(0)))'
    BY <1>1, <1>5, <1>7, <2>1 DEF CalmInv
  <2>3. out'[1] = out[1] /\ sock'[Target(1)] = sock[Target(1)]
    BY <1>0, <2>1, TravelsBeside
  <2> QED BY <1>0, <1>1, <1>2, <1>7, <2>2, <2>3 DEF CalmInv
<1>8. CASE ringpc = "wait"
  <2>1. /\ Travels(0, Gram(Fresh), Gram(By(0))) /\ Travels(1, Dummy(Fresh), Dummy(By(1)))
        /\ \A r \in Stacks : ringgot[r] \/ awaited[r]
    BY <1>8 DEF CalmInv
  <2>2. awaited[Target(s)]
    <3>1. ~ ringgot[Target(s)]
      BY <1>0, <1>1, <2>1 DEF Travels
    <3> QED BY <1>0, <1>2, <2>1, <3>1
  <2>3. Travels(0, Gram(Fresh), Gram(By(0)))'
    <3>1. CASE s = 0
      BY <1>5, <2>1, <2>2, <3>1
    <3>2. CASE s = 1
      <4>1. ASSUME NEW w, w = Gram(By(0)) PROVE Travels(0, Gram(Fresh), w)'
        BY <1>0, <2>1, <3>2, <4>1, TravelsBeside
      <4> QED BY <1>0, <1>2, <4>1 DEF Travels
    <3> QED BY <1>0, <3>1, <3>2
  <2>4. Travels(1, Dummy(Fresh), Dummy(By(1)))'
    <3>1. CASE s = 1
      BY <1>6, <2>1, <2>2, <3>1
    <3>2. CASE s = 0
      <4>1. ASSUME NEW w, w = Dummy(By(1)) PROVE Travels(1, Dummy(Fresh), w)'
        BY <1>0, <2>1, <3>2, <4>1, TravelsBeside
      <4> QED BY <1>0, <1>2, <4>1 DEF Travels
    <3> QED BY <1>0, <3>1, <3>2
  <2> QED BY <1>1, <1>8, <2>1, <2>3, <2>4 DEF CalmInv
<1>9. CASE ringpc = "rewait"
  <2>1. /\ cable \notin {Absent, RingSlaves} /\ cable \in Breaks
        /\ out[0] = << >> /\ awaited[1] /\ s = 1
        /\ out[1] = << Gram(By(0)) >> /\ sock[1] = << >>
    BY <1>0, <1>1, <1>9 DEF CalmInv, RingType
  <2>2. ~ Unplugged(1) /\ Target(1) = 1
    BY <2>1, Broken
  <2>3. sock' = Delivered(1, Gram(All)) /\ out'[0] = out[0] /\ out'[1] = << >>
    <3>1. Head(out[1]) = Gram(By(0)) /\ Tail(out[1]) = << >>
      BY <2>1, Alone
    <3>2. out' = [out EXCEPT ![s] = Tail(@)]
      BY CrossTypes
    <3> QED BY <1>0, <2>1, <2>2, <3>1, <3>2, CrossTypes, Results DEF RingType
  <2>4. sock'[1] = << Gram(All) >>
    BY <1>0, <2>1, <2>3, Alone DEF Delivered, RingType
  <2> QED BY <1>1, <1>9, <2>1, <2>3, <2>4 DEF CalmInv
<1>10. CASE ringpc \in {"confirm", "done"}
  BY <1>1, <1>10 DEF CalmInv, Gram, All
<1> QED BY <1>3, <1>7, <1>8, <1>9, <1>10 DEF RingType

\* No timer expires while an awaited frame is under way.
InTime == LateFrames = FALSE

\* A stack fetches its frame.
LEMMA CalmReads ==
  ASSUME RingType, CalmInv, Calm, Calm', cable' = cable, NEW s \in Stacks, ReadFrame(s)
  PROVE  CalmInv'
<1>0. 0 \in Stacks /\ 1 \in Stacks
  BY DEF Stacks
<1>1. /\ ringpc = "wait" /\ ringpc' = "wait" /\ ~ ringgot[s] /\ sock[s] # << >>
      /\ UNCHANGED <<ringsystem, out, ringtx>> /\ ringgot' = [ringgot EXCEPT ![s] = TRUE]
      /\ awaited' = [awaited EXCEPT ![s] = FALSE]
      /\ ringrx' = [ringrx EXCEPT ![s] = Head(sock[s])] /\ sock' = [sock EXCEPT ![s] = Tail(@)]
  BY DEF ReadFrame, ring
<1>2. /\ ringtx = Fresh /\ \A r \in Stacks : ringgot[r] \/ awaited[r]
      /\ Travels(0, Gram(Fresh), Gram(By(0))) /\ Travels(1, Dummy(Fresh), Dummy(By(1)))
  BY <1>1 DEF CalmInv
<1>3. \A r \in Stacks : /\ Target(r) \in Stacks /\ Target(r)' = Target(r)
                        /\ Unplugged(r)' <=> Unplugged(r)
                        /\ By(r)' = By(r)
  BY DEF Target, Stacks, Unplugged, By, Worked
<1>4. ASSUME NEW r \in Stacks, NEW f, NEW w, Travels(r, f, w) PROVE Travels(r, f, w)'
  <2>1. CASE s = Target(r)
    <3>1. sock[s] = << w >> /\ out[r] = << >> /\ ~ Unplugged(r)
      BY <1>1, <1>4, <2>1 DEF Travels
    <3>2. Head(sock[s]) = w /\ Tail(sock[s]) = << >>
      BY <3>1, Alone
    <3>3. sock'[s] = << >> /\ ringrx'[s] = w /\ ringgot'[s]
      BY <1>1, <3>2 DEF RingType
    <3> QED BY <1>1, <1>3, <2>1, <3>1, <3>3 DEF Travels
  <2>2. CASE s # Target(r)
    <3>1. sock'[Target(r)] = sock[Target(r)] /\ ringrx'[Target(r)] = ringrx[Target(r)]
          /\ ringgot'[Target(r)] = ringgot[Target(r)]
      BY <1>1, <1>3, <2>2 DEF RingType
    <3> QED BY <1>1, <1>3, <1>4, <3>1 DEF Travels
  <2> QED BY <2>1, <2>2
<1>5. ASSUME NEW w, w = Gram(By(0)) PROVE Travels(0, Gram(Fresh), w)'
  BY <1>0, <1>2, <1>4, <1>5
<1>6. ASSUME NEW w, w = Dummy(By(1)) PROVE Travels(1, Dummy(Fresh), w)'
  BY <1>0, <1>2, <1>4, <1>6
<1>7. Travels(0, Gram(Fresh), Gram(By(0)))' /\ Travels(1, Dummy(Fresh), Dummy(By(1)))'
  BY <1>0, <1>3, <1>5, <1>6 DEF Travels
<1>8. \A r \in Stacks : ringgot'[r] \/ awaited'[r]
  BY <1>1, <1>2 DEF RingType
<1> QED BY <1>1, <1>2, <1>7, <1>8 DEF CalmInv

\* When the first wait is over in a calm call: what came where.
LEMMA CalmRound ==
  ASSUME InTime, RingType, CalmInv, Calm, ringpc = "wait", WaitOver
  PROVE  /\ cable = Absent => /\ ringgot[0] /\ ringrx[0] = Dummy(Fresh)
                              /\ ringgot[1] /\ ringrx[1] = Gram(All)
         /\ cable # Absent =>
              /\ cable \in Breaks
              /\ \/ ringgot[0] /\ ringrx[0] = Gram(By(0))
                 \/ ~ ringgot[0] /\ cable = 0 /\ By(0) = Fresh
              /\ \/ ringgot[1] /\ ringrx[1] = Dummy(By(1)) /\ cable # RingSlaves
                 \/ ~ ringgot[1] /\ cable = RingSlaves /\ By(0) = All
              /\ out[0] = << >> /\ out[1] = << >> /\ (ringgot[1] => sock[1] = << >>)
<1>0. 0 \in Stacks /\ 1 \in Stacks
  BY DEF Stacks
<1>1. /\ ringtx = Fresh
      /\ Travels(0, Gram(Fresh), Gram(By(0))) /\ Travels(1, Dummy(Fresh), Dummy(By(1)))
  BY DEF CalmInv
<1>2. \A s \in Stacks : ringgot[s] \/ (sock[s] = << >> /\ out[0] = << >> /\ out[1] = << >>)
  <2>1. \A s \in Stacks : ringgot[s] \/ (out = [r \in Stacks |-> << >>] /\ sock[s] = << >>)
    BY DEF WaitOver, Expired, InTime
  <2>2. out = [r \in Stacks |-> << >>] => out[0] = << >> /\ out[1] = << >>
    BY <1>0
  <2> QED BY <2>1, <2>2
<1>3. CASE cable = Absent
  BY <1>0, <1>1, <1>2, <1>3, Whole, Alone DEF Travels
<1>4. CASE cable # Absent
  <2>1. cable \in Breaks
    BY <1>4 DEF RingType
  <2> QED BY <1>0, <1>1, <1>2, <1>4, <2>1, Broken, Alone DEF Travels
<1> QED BY <1>3, <1>4

\* The decision tree takes the answer, or sends it on.
LEMMA CalmDecides ==
  ASSUME InTime, RingType, CalmInv, Calm, Calm', cable' = cable, ringsystem' = ringsystem,
         TakeSecondary \/ SendOn \/ TakePrimary
  PROVE  CalmInv'
<1>0. 0 \in Stacks /\ 1 \in Stacks
  BY DEF Stacks
<1>1. ringpc = "wait" /\ WaitOver /\ ringtx = Fresh
  BY DEF TakeSecondary, SendOn, TakePrimary, CalmInv
<1>2. By(0)' = By(0)
  BY DEF By, Worked
<1>3. CASE TakeSecondary
  <2>1. ringgot[0] /\ ringrx[0].sa = "RX_SEC"
    BY <1>3 DEF TakeSecondary, Crossed, Route
  <2>2. cable = Absent
    BY <1>1, <2>1, CalmRound DEF Gram
  <2>3. ringrx[1] = Gram(All)
    BY <1>1, <2>2, CalmRound
  <2>4. ringpc' = "confirm" /\ ringgot'[0] /\ ringrx'[0] = Gram(All)
    BY <1>0, <1>3, <2>1, <2>3 DEF TakeSecondary, RingType
  <2> QED BY <2>4 DEF CalmInv, Gram, All
<1>4. CASE SendOn
  <2>1. ringgot[1] /\ ringrx[1].sa = "RX_SEC"
    BY <1>4 DEF SendOn, Divided, Route
  <2>2. cable # Absent
    BY <1>1, <2>1, CalmRound DEF Gram
  <2>3. /\ cable \in Breaks /\ cable # RingSlaves /\ out[0] = << >> /\ out[1] = << >>
        /\ sock[1] = << >>
    BY <1>1, <2>1, <2>2, CalmRound
  <2>4. Onward = By(0)
    <3>1. CASE ringgot[0]
      BY <1>1, <2>2, <3>1, CalmRound, OnwardType DEF Gram
    <3>2. CASE ~ ringgot[0]
      BY <1>1, <2>2, <3>2, CalmRound, OnwardType
    <3> QED BY <3>1, <3>2
  <2>5. ringtx' = By(0) /\ Transmit(1, Gram(By(0))) /\ CleanUp /\ Gram(By(0)) \in AnyRing
    BY <1>4, <2>4, OnwardType DEF SendOn, Gram
  <2>6. out'[1] = << Gram(By(0)) >> /\ out'[0] = << >> /\ awaited'[1] /\ sock'[1] = << >>
    BY <1>0, <2>3, <2>5, SendTypes, Alone DEF RingType
  <2>7. ringpc' = "rewait"
    BY <1>4 DEF SendOn
  <2> QED BY <1>2, <2>2, <2>3, <2>6, <2>7 DEF CalmInv, Gram
<1>5. CASE TakePrimary
  <2>1. cable # Absent
    BY <1>1, <1>5, CalmRound DEF TakePrimary, Crossed, Route, Gram, Dummy
  <2>2. ~ ringgot[1]
    BY <1>1, <1>5, <2>1, CalmRound DEF TakePrimary, Divided, Route, Gram, Dummy
  <2>3. By(0) = All /\ cable = RingSlaves
    BY <1>1, <2>1, <2>2, CalmRound
  <2>4. ringgot[0] /\ ringrx[0] = Gram(All)
    BY <1>1, <2>1, <2>3, CalmRound, Ring0
  <2>5. ringpc' = "confirm" /\ ringgot' = ringgot /\ ringrx' = ringrx
    BY <1>5 DEF TakePrimary
  <2> QED BY <2>4, <2>5 DEF CalmInv, Gram, All
<1> QED BY <1>3, <1>4, <1>5

\* The datagram that was sent on comes back, and the call ends.
LEMMA CalmEnds ==
  ASSUME InTime, RingType, CalmInv, Calm, Calm', cable' = cable, ringsystem' = ringsystem,
         InAgain \/ AgainExpires \/ Confirm
  PROVE  CalmInv'
<1>0. 0 \in Stacks /\ 1 \in Stacks
  BY DEF Stacks
<1>1. CASE InAgain
  <2>1. ringpc = "rewait" /\ sock[1] # << >>
    BY <1>1 DEF InAgain
  <2>2. sock[1] = << Gram(All) >>
    BY <2>1 DEF CalmInv
  <2>3. Head(sock[1]) = Gram(All)
    BY <2>2, Alone
  <2>4. ringpc' = "confirm" /\ ringgot'[0] /\ ringrx'[0] = Gram(All)
    BY <1>0, <1>1, <2>3 DEF InAgain, RingType
  <2> QED BY <2>4 DEF CalmInv, Gram, All
<1>2. CASE AgainExpires
  <2>1. ringpc = "rewait" /\ out = [r \in Stacks |-> << >>] /\ sock[1] = << >>
    BY <1>2 DEF AgainExpires, Expired, InTime
  <2>2. out[1] = << >>
    BY <1>0, <2>1
  <2> QED BY <2>1, <2>2, Alone DEF CalmInv
<1>3. CASE Confirm
  <2>1. /\ ringgot[0] /\ ringrx[0] = Gram(All) /\ ringpc' = "done"
        /\ ringgot' = ringgot /\ ringrx' = ringrx
    BY <1>3 DEF Confirm, CalmInv
  <2> QED BY <2>1 DEF CalmInv, Gram, All
<1> QED BY <1>1, <1>2, <1>3

\* Every step keeps the invariant of the calm ring.
LEMMA CalmInvStep ==
  ASSUME InTime, RingType, CalmInv, [RingNext]_ringVars
  PROVE  CalmInv'
<1>1. CASE UNCHANGED ringVars
  <2>1. UNCHANGED <<ringsystem, cable, losses, changes, hasty, out, sock, ringtx, ringrx, awaited,
                    ringgot, ringpc>>
    BY <1>1 DEF ringVars, ring
  <2> QED BY <2>1 DEF CalmInv, Calm, Empty, Travels, Target, Unplugged, By, Worked
<1>2. CASE RingNext
  <2> SUFFICES ASSUME Calm' PROVE CalmInv'
    BY DEF CalmInv
  <2>1. /\ Calm /\ cable' = cable /\ ringsystem' = ringsystem /\ ~ CableChanges
        /\ \A s \in Stacks : ~ LoseInRing(s)
    BY <1>2, StaysCalm
  <2>2. CASE OutPrimary \/ \E S \in {"linux", "win32", "macosx", "rtems", "vxworks"} : OutDummy(S)
    BY <2>1, <2>2, CalmSends
  <2>3. CASE \E s \in Stacks : Cross(s)
    BY <2>1, <2>3, CalmCross
  <2>4. CASE \E s \in Stacks : ReadFrame(s)
    BY <2>1, <2>4, CalmReads
  <2>5. CASE TakeSecondary \/ SendOn \/ TakePrimary
    BY <2>1, <2>5, CalmDecides
  <2>6. CASE InAgain \/ AgainExpires \/ Confirm
    BY <2>1, <2>6, CalmEnds
  <2> QED BY <1>1, <1>2, <2>1, <2>2, <2>3, <2>4, <2>5, <2>6, RingSteps
<1> QED BY <1>1, <1>2

\* Of a ring with any number of slaves, broken anywhere or nowhere.
THEOREM BreakToleratedAlways ==
  ASSUME InTime
  PROVE  RingSpec => []BreakTolerated
<1>1. RingInit => RingType /\ CalmInv
  <2>1. RingInit => CalmInv
    BY DEF RingInit, CalmInv, Empty
  <2> QED BY <2>1, RingTypeInit
<1>2. RingType /\ CalmInv /\ [RingNext]_ringVars => (RingType /\ CalmInv)'
  BY RingTypeStep, CalmInvStep
<1>3. CalmInv => BreakTolerated
  BY DEF CalmInv, Calm, BreakTolerated, Gram, All
<1> QED BY <1>1, <1>2, <1>3, PTL DEF RingSpec

-----------------------------------------------------------------------------
(* Whatever happens to the ring.                                            *)

\* What comes to a stack is a datagram or a dummy.
LEMMA ComeTypes ==
  ASSUME RingType, NEW s \in Stacks
  PROVE  /\ Has(sock[s]) \subseteq Come(s) /\ Has(sock[s]) \subseteq AnyRing
         /\ Has(out[s]) \subseteq AnyRing
         /\ Come(s) \subseteq AnyRing
         /\ ringgot[s] => ringrx[s] \in Come(s)
         /\ sock[s] # << >> => \E f : f \in Has(sock[s])
         /\ \A f \in AnyRing : /\ f.sa \in {"RX_PRIM", "RX_SEC"}
                               /\ f.sa = "RX_PRIM" <=> f.kind = "datagram"
<1>1. Has(sock[s]) \subseteq AnyRing /\ Has(out[s]) \subseteq AnyRing
  <2>1. sock[s] \in Seq(AnyRing) /\ out[s] \in Seq(AnyRing)
    BY DEF RingType
  <2> QED BY <2>1, ElementOfSeq DEF Has
<1>2. sock[s] # << >> => \E f : f \in Has(sock[s])
  BY HeadTail DEF RingType
<1>3. \A f \in AnyRing : /\ f.sa \in {"RX_PRIM", "RX_SEC"}
                         /\ f.sa = "RX_PRIM" <=> f.kind = "datagram"
  BY DEF AnyRing
<1> QED BY <1>1, <1>2, <1>3 DEF Come, RingType

\* What no slave worked on, none worked on twice.
LEMMA FreshFront ==
  /\ Front(Fresh) /\ Once(Fresh) /\ Fresh \in AnyWork
  /\ \A w \in AnyWork : Front(w) => Once(w)
BY Ring0 DEF Front, Once, Fresh, AnyWork

\* A round starts with the datagram and the dummy.
LEMMA AnswerSends ==
  ASSUME RingType, AnswerInv,
         OutPrimary \/ \E S \in {"linux", "win32", "macosx", "rtems", "vxworks"} : OutDummy(S)
  PROVE  AnswerInv'
<1>0. 0 \in Stacks /\ 1 \in Stacks /\ \A s \in Stacks : s = 0 \/ s = 1
  BY DEF Stacks
<1>1. CASE OutPrimary
  <2>1. Gram(ringtx) \in AnyRing /\ Transmit(0, Gram(ringtx)) /\ CleanUp
    BY <1>1, Ring0 DEF OutPrimary, Gram, RingType
  <2>2. /\ out' = [out EXCEPT ![0] = Append(@, Gram(ringtx))]
        /\ Has(out'[0]) = Has(out[0]) \union {Gram(ringtx)}
        /\ sock'[1] = sock[1] /\ (sock'[0] = sock[0] \/ sock'[0] = << >>)
        /\ \A r \in Stacks : Has(sock'[r]) \subseteq Has(sock[r])
    BY <1>0, <2>1, SendTypes
  <2>3. out'[1] = out[1] /\ out'[0] = Append(out[0], Gram(ringtx))
    BY <1>0, <2>2 DEF RingType
  <2>4. /\ ringpc = "outframe" /\ ringpc' = "outdummy" /\ sends' = sends + 1 /\ sends \in Nat
        /\ changes' = changes /\ cable' = cable /\ ringtx' = ringtx
        /\ \A s \in Stacks : ringgot'[s] = FALSE
    BY <1>1 DEF OutPrimary, ring, RingType
  <2>5. Idle'
    <3>1. Gram(ringtx).sa = "RX_PRIM"
      BY DEF Gram
    <3>2. Idle
      BY DEF AnswerInv
    <3> QED BY <1>0, <2>2, <2>3, <2>4, <3>1, <3>2 DEF Idle
  <2>6. ASSUME Single' PROVE Clean
    BY <2>4, <2>6 DEF Single, AnswerInv, Started
  <2>7. ASSUME Clean
        PROVE  /\ out'[0] = << Gram(Fresh) >> /\ out'[1] = << >> /\ ringtx' = Fresh
               /\ \A s \in Stacks : sock'[s] = << >>
    BY <1>0, <2>2, <2>3, <2>4, <2>7, Alone DEF Clean, Empty
  <2>8. Round'
    <3> SUFFICES ASSUME Single' PROVE Round'
      BY DEF Round
    <3>1. /\ out'[0] = << Gram(Fresh) >> /\ out'[1] = << >> /\ ringtx' = Fresh
          /\ \A s \in Stacks : sock'[s] = << >>
      BY <2>6, <2>7
    <3>2. \A s \in Stacks : Come(s)' = {} /\ Has(sock'[s]) = {}
      BY <2>4, <3>1, Alone DEF Come
    <3>3. \A s \in Stacks : \A x : AtMostOne(sock'[s], x)
      BY <3>1, Alone
    <3> QED BY <2>4, <3>1, <3>2, <3>3 DEF Round
  <2>9. WorkedOnce'
    <3> SUFFICES ASSUME Steady' PROVE WorkedOnce'
      BY DEF WorkedOnce
    <3>1. Single'
      BY DEF Single, Steady
    <3>2. \A s \in Stacks : sock'[s] = << >>
      BY <2>6, <2>7, <3>1
    <3>3. \A s \in Stacks : Come(s)' = {}
      BY <2>4, <3>2, Alone DEF Come
    <3> QED BY <1>0, <2>4, <3>3 DEF WorkedOnce
  <2>10. Started'
    BY <2>4 DEF Started
  <2> QED BY <2>4, <2>5, <2>8, <2>9, <2>10 DEF AnswerInv, SentOn, Concluded
<1>2. CASE \E S \in {"linux", "win32", "macosx", "rtems", "vxworks"} : OutDummy(S)
  <2>1. Dummy(Fresh) \in AnyRing /\ Transmit(1, Dummy(Fresh)) /\ CleanUp
    BY <1>2, Ring0 DEF OutDummy, Dummy
  <2>2. /\ out' = [out EXCEPT ![1] = Append(@, Dummy(Fresh))]
        /\ Has(out'[1]) = Has(out[1]) \union {Dummy(Fresh)}
        /\ sock'[1] = sock[1] /\ (sock'[0] = sock[0] \/ sock'[0] = << >>)
        /\ \A r \in Stacks : Has(sock'[r]) \subseteq Has(sock[r])
    BY <1>0, <2>1, SendTypes
  <2>3. out'[0] = out[0] /\ out'[1] = Append(out[1], Dummy(Fresh))
    BY <1>0, <2>2 DEF RingType
  <2>4. /\ ringpc = "outdummy" /\ ringpc' = "wait" /\ sends' = sends
        /\ changes' = changes /\ cable' = cable
        /\ ringtx' = ringtx /\ ringgot' = ringgot /\ ringrx' = ringrx
    BY <1>2 DEF OutDummy, ring
  <2>5. \A s \in Stacks : Come(s)' \subseteq Come(s)
    BY <2>2, <2>4 DEF Come
  <2>6. Idle'
    <3>1. Dummy(Fresh).work = Fresh
      BY DEF Dummy
    <3>2. Idle
      BY DEF AnswerInv
    <3> QED BY <1>0, <2>2, <2>3, <2>4, <3>1, <3>2 DEF Idle
  <2>7. ASSUME Single' PROVE Round'
    <3>0. Single
      BY <2>4, <2>7 DEF Single
    <3>1. /\ ringtx = Fresh /\ out[0] \in {<< >>, << Gram(Fresh) >>} /\ out[1] = << >>
          /\ \A s \in Stacks : ~ ringgot[s]
          /\ \A s \in Stacks : \A f \in Has(sock[s]) : f.sa = "RX_PRIM"
          /\ \A s \in Stacks : AtMostOne(sock[s], "RX_PRIM") /\ AtMostOne(sock[s], "RX_SEC")
          /\ \A s \in Stacks : out[0] # << >> => \A f \in Come(s) : f.sa = "RX_SEC"
          /\ \A s \in Stacks : changes = 0 =>
               \A f \in Come(s) : f.sa = "RX_PRIM" <=> (cable = Absent <=> s = 1)
      BY <2>4, <3>0 DEF AnswerInv, Round
    <3>2. out'[1] = << Dummy(Fresh) >>
      BY <2>3, <3>1, Alone
    <3>3. \A s \in Stacks : AtMostOne(sock'[s], "RX_PRIM") /\ AtMostOne(sock'[s], "RX_SEC")
      BY <1>0, <2>2, <3>1, Alone
    <3>4. \A s \in Stacks : \A f \in Come(s)' : f.sa = "RX_PRIM"
      BY <2>5, <3>1 DEF Come
    <3> QED BY <2>3, <2>4, <2>5, <3>1, <3>2, <3>3, <3>4 DEF Round
  <2>8. WorkedOnce'
    BY <1>0, <2>4, <2>5 DEF AnswerInv, WorkedOnce, Steady, Front
  <2>9. Started'
    BY <2>4 DEF AnswerInv, Started
  <2> QED BY <2>4, <2>6, <2>7, <2>8, <2>9 DEF AnswerInv, SentOn, Concluded, Round
<1> QED BY <1>1, <1>2

\* A frame leaves the ring, or is lost there.
LEMMA AnswerCross ==
  ASSUME RingType, AnswerInv, NEW s \in Stacks, Cross(s) \/ LoseInRing(s)
  PROVE  AnswerInv'
<1>0. 0 \in Stacks /\ 1 \in Stacks /\ \A r \in Stacks : r = 0 \/ r = 1
  BY DEF Stacks
<1> DEFINE f == Head(out[s])
           came == Cross(s) /\ ~ Unplugged(s)
<1>1. /\ out[s] # << >> /\ f \in Has(out[s]) /\ f \in AnyRing /\ out' = [out EXCEPT ![s] = Tail(@)]
      /\ Has(Tail(out[s])) \subseteq Has(out[s])
  <2>1. out[s] # << >> /\ out' = [out EXCEPT ![s] = Tail(@)] /\ out[s] \in Seq(AnyRing)
    BY DEF Cross, LoseInRing, RingType
  <2> QED BY <2>1, HeadTail
<1>2. /\ out'[s] = Tail(out[s]) /\ \A r \in Stacks : r # s => out'[r] = out[r]
      /\ \A r \in Stacks : Has(out'[r]) \subseteq Has(out[r])
  BY <1>1 DEF RingType
<1>3. /\ ringpc' = ringpc /\ sends' = sends /\ changes' = changes
      /\ cable' = cable /\ ringtx' = ringtx
      /\ ringgot' = ringgot /\ ringrx' = ringrx
  BY DEF Cross, LoseInRing
<1>4. \A r \in Stacks : \/ sock'[r] = sock[r]
                        \/ /\ came /\ r = Target(s)
                           /\ sock'[r] \in {Append(sock[r], WorkedOn(s, f)), << WorkedOn(s, f) >>}
  <2>1. CASE LoseInRing(s)
    BY <2>1 DEF LoseInRing
  <2>2. CASE Cross(s)
    <3>1. sock' = IF Unplugged(s) THEN sock ELSE Delivered(Target(s), WorkedOn(s, f))
      BY <2>2, CrossTypes
    <3>2. Target(s) \in Stacks
      BY DEF Target, Stacks
    <3> QED BY <2>2, <3>1, <3>2 DEF Delivered, RingType
  <2> QED BY <2>1, <2>2
<1>5. /\ WorkedOn(s, f) \in AnyRing /\ WorkedOn(s, f).sa = f.sa
      /\ WorkedOn(s, f).work =
           [i \in Slaves |-> IF i \in Worked(s) THEN f.work[i] + 1 ELSE f.work[i]]
  BY <1>1, Passed
<1>6. \A r \in Stacks : Has(sock'[r]) \subseteq Has(sock[r]) \union
        IF came /\ r = Target(s) THEN {WorkedOn(s, f)} ELSE {}
  <2> TAKE r \in Stacks
  <2>1. sock[r] \in Seq(AnyRing)
    BY DEF RingType
  <2>2. /\ Has(Append(sock[r], WorkedOn(s, f))) = Has(sock[r]) \union {WorkedOn(s, f)}
        /\ Has(<< WorkedOn(s, f) >>) = {WorkedOn(s, f)}
    BY <1>5, <2>1, Longer, Alone
  <2> QED BY <1>4, <2>2
<1>7. \A r \in Stacks : Come(r)' \subseteq Come(r) \union
        IF came /\ r = Target(s) THEN {WorkedOn(s, f)} ELSE {}
  BY <1>3, <1>6 DEF Come
<1>8. f.work \in AnyWork
  BY <1>1, Ring0
<1>9. Idle'
  <2>1. came /\ Target(s) = 0 /\ WorkedOn(s, f).sa = "RX_SEC" => WorkedOn(s, f).work = Fresh
    <3> SUFFICES ASSUME came, Target(s) = 0, WorkedOn(s, f).sa = "RX_SEC"
                 PROVE  WorkedOn(s, f).work = Fresh
      OBVIOUS
    <3>1. s = 1 /\ f.work = Fresh
      BY <1>0, <1>1, <1>5 DEF AnswerInv, Idle
    <3>2. cable = Absent /\ Worked(s) = {}
      BY <3>1 DEF Target, Worked
    <3> QED BY <1>5, <3>1, <3>2 DEF Fresh
  <2> HIDE DEF f, came
  <2> QED BY <1>0, <1>2, <1>3, <1>6, <2>1 DEF AnswerInv, Idle
<1>10. Started'
  BY <1>0, <1>1, <1>3 DEF AnswerInv, Started, Clean, Empty
<1>11. ASSUME Single, ringpc \in {"outdummy", "wait"}
       PROVE  /\ f = (IF s = 0 THEN Gram(Fresh) ELSE Dummy(Fresh)) /\ out'[s] = << >>
              /\ f.sa = (IF s = 0 THEN "RX_PRIM" ELSE "RX_SEC") /\ f.work = Fresh
  <2>1. out[s] = << IF s = 0 THEN Gram(Fresh) ELSE Dummy(Fresh) >>
    BY <1>0, <1>1, <1>11 DEF AnswerInv, Round
  <2>2. f = (IF s = 0 THEN Gram(Fresh) ELSE Dummy(Fresh)) /\ out'[s] = << >>
    BY <1>2, <2>1, Alone
  <2> QED BY <1>0, <2>2 DEF Gram, Dummy
<1>12. Round'
  <2> SUFFICES ASSUME Single, ringpc \in {"outdummy", "wait"} PROVE Round'
    BY <1>3 DEF Round, Single
  <2>0. /\ f = (IF s = 0 THEN Gram(Fresh) ELSE Dummy(Fresh)) /\ out'[s] = << >>
        /\ f.sa = (IF s = 0 THEN "RX_PRIM" ELSE "RX_SEC") /\ WorkedOn(s, f).sa = f.sa
    BY <1>5, <1>11
  <2> HIDE DEF f, came
  <2>1. /\ ringtx = Fresh
        /\ out[0] \in {<< >>, << Gram(Fresh) >>} /\ out[1] \in {<< >>, << Dummy(Fresh) >>}
        /\ ringpc = "outdummy" =>
             /\ out[1] = << >> /\ \A r \in Stacks : ~ ringgot[r]
             /\ \A r \in Stacks : \A g \in Has(sock[r]) : g.sa = "RX_PRIM"
    BY DEF AnswerInv, Round
  <2>2. \A r \in Stacks :
          /\ AtMostOne(sock[r], "RX_PRIM") /\ AtMostOne(sock[r], "RX_SEC")
          /\ out[0] # << >> => \A g \in Come(r) : g.sa = "RX_SEC"
          /\ out[1] # << >> => \A g \in Come(r) : g.sa = "RX_PRIM"
          /\ ringgot[r] => \A g \in Has(sock[r]) : g.sa # ringrx[r].sa
          /\ changes = 0 => \A g \in Come(r) : g.sa = "RX_PRIM" <=> (cable = Absent <=> r = 1)
    BY DEF AnswerInv, Round
  <2>3. out'[0] \in {<< >>, << Gram(Fresh) >>} /\ out'[1] \in {<< >>, << Dummy(Fresh) >>}
    BY <1>0, <1>2, <2>0, <2>1
  <2>4. ringpc = "outdummy" => /\ out'[1] = << >> /\ s = 0
                               /\ \A r \in Stacks : \A g \in Has(sock'[r]) : g.sa = "RX_PRIM"
    BY <1>0, <1>1, <1>2, <1>6, <2>0, <2>1
  <2>5. ASSUME NEW r \in Stacks
        PROVE  /\ AtMostOne(sock'[r], "RX_PRIM") /\ AtMostOne(sock'[r], "RX_SEC")
               /\ out'[0] # << >> => \A g \in Come(r)' : g.sa = "RX_SEC"
               /\ out'[1] # << >> => \A g \in Come(r)' : g.sa = "RX_PRIM"
               /\ ringgot'[r] => \A g \in Has(sock'[r]) : g.sa # ringrx'[r].sa
               /\ changes' = 0 =>
                    \A g \in Come(r)' : g.sa = "RX_PRIM" <=> (cable' = Absent <=> r = 1)
    <3>1. /\ out[s] # << >> /\ Has(sock[r]) \subseteq Come(r)
          /\ \A g \in Come(r) : g.sa # f.sa
      BY <1>0, <1>1, <2>0, <2>2, ComeTypes
    <3>2. ASSUME NEW x \in {"RX_PRIM", "RX_SEC"} PROVE AtMostOne(sock'[r], x)
      <4>1. sock[r] \in Seq(AnyRing) /\ AtMostOne(sock[r], x)
        BY <2>2 DEF RingType
      <4>2. AtMostOne(Append(sock[r], WorkedOn(s, f)), x) /\ AtMostOne(<< WorkedOn(s, f) >>, x)
        BY <1>5, <3>1, <4>1, OneMore, Alone
      <4> QED BY <1>4, <4>1, <4>2
    <3>3. /\ out'[0] # << >> => s = 1 /\ out[0] # << >>
          /\ out'[1] # << >> => s = 0 /\ out[1] # << >>
      BY <1>0, <1>2, <2>0
    <3>4. \A g \in Come(r)' : g \in Come(r) \/ (came /\ r = Target(s) /\ g = WorkedOn(s, f))
      BY <1>7
    <3>5. /\ out'[0] # << >> => \A g \in Come(r)' : g.sa = "RX_SEC"
          /\ out'[1] # << >> => \A g \in Come(r)' : g.sa = "RX_PRIM"
      BY <2>0, <2>2, <3>3, <3>4
    <3>6. ringgot[r] => ringrx[r] \in Come(r)
      BY ComeTypes
    <3>7. ringgot'[r] => \A g \in Has(sock'[r]) : g.sa # ringrx'[r].sa
      BY <1>3, <1>6, <2>0, <2>2, <3>1, <3>6
    <3>8. changes' = 0 => \A g \in Come(r)' : g.sa = "RX_PRIM" <=> (cable' = Absent <=> r = 1)
      <4>1. r = Target(s) => (f.sa = "RX_PRIM" <=> (cable = Absent <=> r = 1))
        BY <1>0, <2>0 DEF Target
      <4> QED BY <1>3, <2>0, <2>2, <3>4, <4>1
    <3> QED BY <3>2, <3>5, <3>7, <3>8
  <2> QED BY <1>3, <2>1, <2>3, <2>4, <2>5 DEF Round
<1>13. SentOn'
  <2> SUFFICES ASSUME Single, ringpc = "rewait" PROVE SentOn'
    BY <1>3 DEF SentOn, Single
  <2>1. WorkedOn(s, f).sa = "RX_PRIM"
    BY <1>0, <1>1, <1>5 DEF AnswerInv, Idle, SentOn
  <2>2. changes = 0 /\ ~ ringgot[0] => ~ (came /\ Target(s) = 0) /\ out'[0] = << >>
    <3>1. changes = 0 /\ ~ ringgot[0] => cable # Absent /\ out[0] = << >>
      BY DEF AnswerInv, SentOn
    <3> QED BY <1>0, <1>1, <1>2, <3>1 DEF Target
  <2> HIDE DEF f, came
  <2> QED BY <1>0, <1>2, <1>3, <1>4, <1>6, <2>1, <2>2 DEF AnswerInv, SentOn
<1>14. Concluded'
  BY <1>3 DEF AnswerInv, Concluded, Single, Steady
<1>15. ASSUME Steady PROVE WorkedOnce'
  <2>0. Single
    BY <1>15 DEF Single, Steady
  <2>1. \A w : Front(w)' = Front(w)
    BY <1>3 DEF Front
  <2>2. ASSUME ringpc \in {"outdummy", "wait"}, came, s = 0
        PROVE  /\ Target(s) = 0 => Front(WorkedOn(s, f).work)
               /\ Once(WorkedOn(s, f).work)
    <3>1. f.work = Fresh
      BY <1>11, <2>0, <2>2
    <3>2. WorkedOn(s, f).work = [i \in Slaves |-> IF i \in Worked(0) THEN 1 ELSE 0]
      BY <1>5, <2>2, <3>1 DEF Fresh
    <3>3. Target(s) = 0 => cable # Absent /\ Worked(0) = 1 .. cable
      BY <2>2 DEF Target, Worked
    <3>4. Target(s) = 0 => \A i \in Slaves : i \in Worked(0) => i <= cable
      BY <3>3, Ring0 DEF RingType, Breaks, Slaves
    <3> QED BY <3>2, <3>3, <3>4 DEF Front, Once
  <2>3. ASSUME ringpc \in {"outdummy", "wait"}, came, s = 1 PROVE WorkedOn(s, f).sa = "RX_SEC"
    BY <1>5, <1>11, <2>0, <2>3
  <2>4. ASSUME ringpc = "rewait", came, Target(s) = 1 PROVE Once(WorkedOn(s, f).work)
    <3>1. CASE s = 0
      <4>1. f.work = Fresh
        BY <1>1, <1>15, <2>4, <3>1 DEF AnswerInv, WorkedOnce
      <4> QED BY <1>5, <4>1 DEF Once, Fresh
    <3>2. CASE s = 1
      <4>1. Front(f.work) /\ cable # Absent
        BY <1>1, <1>15, <2>4, <3>2 DEF AnswerInv, WorkedOnce, Target
      <4>2. Worked(s) = cable + 1 .. RingSlaves /\ cable \in 0 .. RingSlaves
        BY <3>2, <4>1 DEF Worked, RingType, Breaks
      <4> HIDE DEF f
      <4>3. \A i \in Slaves : i \in Worked(s) => f.work[i] = 0
        BY <4>1, <4>2, Ring0 DEF Front, Slaves
      <4>4. \A i \in Slaves : f.work[i] = 0 \/ f.work[i] = 1
        BY <4>1 DEF Front
      <4> QED BY <1>5, <4>3, <4>4 DEF Once
    <3> QED BY <1>0, <3>1, <3>2
  <2>5. ringpc \in {"outdummy", "wait"} =>
          /\ \A g \in Come(0)' : g.sa = "RX_PRIM" => Front(g.work)
          /\ \A g \in Come(1)' : g.sa = "RX_PRIM" => Once(g.work)
    <3> HIDE DEF f, came
    <3> SUFFICES ASSUME ringpc \in {"outdummy", "wait"}
                 PROVE  /\ \A g \in Come(0)' : g.sa = "RX_PRIM" => Front(g.work)
                        /\ \A g \in Come(1)' : g.sa = "RX_PRIM" => Once(g.work)
      OBVIOUS
    <3>1. /\ \A g \in Come(0) : g.sa = "RX_PRIM" => Front(g.work)
          /\ \A g \in Come(1) : g.sa = "RX_PRIM" => Once(g.work)
      BY <1>15 DEF AnswerInv, WorkedOnce
    <3> QED BY <1>0, <1>7, <2>2, <2>3, <3>1
  <2>6. ringpc = "rewait" =>
         /\ \A g \in Has(out'[0]) : g.work = Fresh
         /\ \A g \in Has(out'[1]) : Front(g.work)
         /\ \A g \in Has(sock'[1]) : Once(g.work)
         /\ ringgot[0] => Once(ringrx[0].work)
    <3> HIDE DEF f, came
    <3>1. ringpc = "rewait" =>
           /\ \A g \in Has(out[0]) : g.work = Fresh
           /\ \A g \in Has(out[1]) : Front(g.work)
           /\ \A g \in Has(sock[1]) : Once(g.work)
           /\ ringgot[0] => Once(ringrx[0].work)
      BY <1>15 DEF AnswerInv, WorkedOnce
    <3> QED BY <1>0, <1>2, <1>6, <2>4, <3>1
  <2> QED BY <1>3, <2>1, <2>5, <2>6 DEF WorkedOnce
<1>16. WorkedOnce'
  BY <1>3, <1>15 DEF WorkedOnce, Steady
<1> QED BY <1>9, <1>10, <1>12, <1>13, <1>14, <1>16 DEF AnswerInv

\* The cable breaks or is mended.
LEMMA AnswerChanges ==
  ASSUME RingType, AnswerInv, CableChanges
  PROVE  AnswerInv'
<1>1. /\ changes \in Nat /\ changes' = changes + 1 /\ cable' \in Breaks \union {Absent}
      /\ (cable = Absent) # (cable' = Absent)
      /\ ringpc' = ringpc /\ sends' = sends /\ ringtx' = ringtx /\ out' = out /\ sock' = sock
      /\ ringgot' = ringgot /\ ringrx' = ringrx
  BY Ring0 DEF CableChanges, RingType
<1>2. /\ changes' # 0 /\ (Single' => Single)
      /\ Steady' => Single /\ Steady /\ changes = 0 /\ sends <= 1 /\ changes' = 1
  <2>1. changes' # 0 /\ (changes' = 1 => changes = 0)
    BY <1>1
  <2> QED BY <1>1, <2>1 DEF Single, Steady
<1>3. \A s \in Stacks : Come(s)' = Come(s)
  BY <1>1 DEF Come
<1>4. Idle' /\ Started'
  BY <1>1, <1>2 DEF AnswerInv, Idle, Started, Clean, Empty
<1>5. Round' /\ SentOn' /\ Concluded'
  BY <1>1, <1>2, <1>3 DEF AnswerInv, Round, SentOn, Concluded
<1>6. ASSUME Steady' PROVE \A w : Front(w) => Front(w)'
  BY <1>1, <1>2, <1>6 DEF Front
<1>7. WorkedOnce'
  <2>1. 0 \in Stacks /\ 1 \in Stacks
    BY DEF Stacks
  <2> QED BY <1>1, <1>2, <1>3, <1>6, <2>1 DEF AnswerInv, WorkedOnce
<1> QED BY <1>4, <1>5, <1>7 DEF AnswerInv

\* A stack fetches a frame.
LEMMA AnswerReads ==
  ASSUME RingType, AnswerInv, NEW s \in Stacks, ReadFrame(s)
  PROVE  AnswerInv'
<1>0. 0 \in Stacks /\ 1 \in Stacks /\ \A r \in Stacks : r = 0 \/ r = 1
  BY DEF Stacks
<1> DEFINE f == Head(sock[s])
<1>1. /\ sock[s] # << >> /\ ~ ringgot[s] /\ sock' = [sock EXCEPT ![s] = Tail(@)] /\ ringpc = "wait"
      /\ ringrx' = [ringrx EXCEPT ![s] = f] /\ ringgot' = [ringgot EXCEPT ![s] = TRUE]
      /\ ringpc' = ringpc /\ sends' = sends /\ changes' = changes /\ cable' = cable
      /\ ringtx' = ringtx /\ out' = out
  BY DEF ReadFrame, ring
<1>2. /\ f \in AnyRing /\ f \in Has(sock[s]) /\ sock' \in [Stacks -> Seq(AnyRing)]
      /\ \A r \in Stacks : Has(sock'[r]) \subseteq Has(sock[r])
  BY <1>1, ReadTypes
<1> HIDE DEF f
<1>3. /\ sock'[s] = Tail(sock[s]) /\ ringrx'[s] = f /\ ringgot'[s] = TRUE
      /\ \A r \in Stacks : r # s => /\ sock'[r] = sock[r] /\ ringrx'[r] = ringrx[r]
                                    /\ ringgot'[r] = ringgot[r]
  BY <1>1 DEF RingType
<1>4. \A r \in Stacks : Come(r)' \subseteq Come(r)
  BY <1>2, <1>3 DEF Come
<1>5. Idle'
  BY <1>0, <1>1, <1>2, <1>3 DEF AnswerInv, Idle
<1>6. Round'
  <2> SUFFICES ASSUME Single PROVE Round'
    BY <1>1 DEF Round, Single
  <2>1. \A r \in Stacks :
          /\ AtMostOne(sock[r], "RX_PRIM") /\ AtMostOne(sock[r], "RX_SEC")
          /\ out[0] # << >> => \A g \in Come(r) : g.sa = "RX_SEC"
          /\ out[1] # << >> => \A g \in Come(r) : g.sa = "RX_PRIM"
          /\ ringgot[r] => \A g \in Has(sock[r]) : g.sa # ringrx[r].sa
          /\ changes = 0 => \A g \in Come(r) : g.sa = "RX_PRIM" <=> (cable = Absent <=> r = 1)
    BY <1>1 DEF AnswerInv, Round
  <2>2. /\ AtMostOne(Tail(sock[s]), "RX_PRIM") /\ AtMostOne(Tail(sock[s]), "RX_SEC")
        /\ \A g \in Has(Tail(sock[s])) : g.sa # f.sa
    <3>1. sock[s] \in Seq(AnyRing) /\ AtMostOne(sock[s], "RX_PRIM") /\ AtMostOne(sock[s], "RX_SEC")
      BY <2>1 DEF RingType
    <3>2. f.sa \in {"RX_PRIM", "RX_SEC"}
      BY <1>2, ComeTypes
    <3> QED BY <1>1, <3>1, <3>2, OneTaken DEF f
  <2>3. ASSUME NEW r \in Stacks
        PROVE  /\ AtMostOne(sock'[r], "RX_PRIM") /\ AtMostOne(sock'[r], "RX_SEC")
               /\ ringgot'[r] => \A g \in Has(sock'[r]) : g.sa # ringrx'[r].sa
    BY <1>3, <2>1, <2>2
  <2> QED BY <1>1, <1>4, <2>1, <2>3 DEF AnswerInv, Round
<1>7. WorkedOnce'
  BY <1>0, <1>1, <1>4 DEF AnswerInv, WorkedOnce, Steady, Front
<1> QED BY <1>1, <1>5, <1>6, <1>7 DEF AnswerInv, Started, SentOn, Concluded

\* What the decision tree takes or sends on, and what it leaves.
LEMMA AnswerDecides ==
  ASSUME InTime, RingType, AnswerInv, TakeSecondary \/ SendOn \/ TakePrimary
  PROVE  AnswerInv'
<1>0. 0 \in Stacks /\ 1 \in Stacks /\ \A r \in Stacks : r = 0 \/ r = 1
  BY DEF Stacks
<1>1. /\ ringpc = "wait" /\ WaitOver
      /\ ringgot' = ringgot /\ sends' = sends /\ changes' = changes /\ cable' = cable
  BY DEF TakeSecondary, SendOn, TakePrimary, ring
<1>2. \A w : Front(w)' = Front(w)
  BY <1>1 DEF Front
<1>3. \A s \in Stacks : ~ ringgot[s] => Empty(out) /\ sock[s] = << >>
  BY <1>1 DEF WaitOver, Expired, InTime, Empty
<1>4. \A s \in Stacks : /\ Has(sock[s]) \subseteq Come(s) /\ Come(s) \subseteq AnyRing
                        /\ ringgot[s] => /\ ringrx[s] \in Come(s)
                                         /\ ringrx[s].sa \in {"RX_PRIM", "RX_SEC"}
                                         /\ ringrx[s].work \in AnyWork
                        /\ sock[s] # << >> => \E f : f \in Has(sock[s])
  BY ComeTypes, Ring0
<1>5. Single =>
        /\ ringtx = Fresh
        /\ out[0] \in {<< >>, << Gram(Fresh) >>} /\ out[1] \in {<< >>, << Dummy(Fresh) >>}
        /\ \A s \in Stacks :
             /\ out[1] # << >> => \A f \in Come(s) : f.sa = "RX_PRIM"
             /\ ringgot[s] => \A f \in Has(sock[s]) : f.sa # ringrx[s].sa
             /\ changes = 0 => \A f \in Come(s) : f.sa = "RX_PRIM" <=> (cable = Absent <=> s = 1)
  BY <1>1 DEF AnswerInv, Round
<1>6. Steady => /\ \A f \in Come(0) : f.sa = "RX_PRIM" => Front(f.work)
                /\ \A f \in Come(1) : f.sa = "RX_PRIM" => Once(f.work)
  BY <1>1 DEF AnswerInv, WorkedOnce
<1>7. \A s \in Stacks : /\ Route(s) = "RX_PRIM" => ringgot[s] /\ ringrx[s].sa = "RX_PRIM"
                        /\ Route(s) = "RX_SEC" => ringgot[s] /\ ringrx[s].sa = "RX_SEC"
                        /\ Route(s) = "0" => ~ ringgot[s]
                        /\ ringgot[s] => Route(s) = ringrx[s].sa
                        /\ ~ ringgot[s] => Route(s) = "0"
  BY <1>4 DEF Route
<1>8. Steady => Single
  BY DEF Steady, Single
<1>9. CASE TakeSecondary
  <2>1. /\ ringpc' = "confirm" /\ ringgot[0] /\ ringgot[1] /\ ringrx[1].sa = "RX_PRIM"
        /\ ringrx'[0] = ringrx[1] /\ out' = out /\ sock' = sock
    BY <1>0, <1>7, <1>9 DEF TakeSecondary, Crossed, RingType
  <2>2. Concluded'
    BY <1>0, <1>1, <1>4, <1>6, <2>1 DEF Concluded, Steady
  <2>3. Idle' /\ Started'
    BY <1>1, <2>1 DEF AnswerInv, Idle, Started
  <2> QED BY <2>1, <2>2, <2>3 DEF AnswerInv, Round, SentOn, WorkedOnce
<1>10. CASE SendOn
  <2>1. /\ ringpc' = "rewait" /\ ringrx' = ringrx /\ ringtx' = Onward
        /\ ringgot[1] /\ ringrx[1].sa = "RX_SEC" /\ (ringgot[0] => ringrx[0].sa = "RX_PRIM")
    BY <1>0, <1>7, <1>10 DEF SendOn, Divided
  <2>2. Gram(Onward) \in AnyRing /\ Transmit(1, Gram(Onward)) /\ CleanUp
        /\ (ringgot[0] => Onward = ringrx[0].work) /\ (~ ringgot[0] => Onward = ringtx)
    BY <1>10, <2>1, OnwardType DEF SendOn, Gram
  <2>3. /\ out' = [out EXCEPT ![1] = Append(@, Gram(Onward))]
        /\ Has(out'[1]) = Has(out[1]) \union {Gram(Onward)}
        /\ sock'[1] = sock[1] /\ (sock'[0] = sock[0] \/ sock'[0] = << >>)
        /\ \A r \in Stacks : Has(sock'[r]) \subseteq Has(sock[r])
    BY <1>0, <2>2, SendTypes
  <2>4. out'[0] = out[0]
    BY <1>0, <2>3 DEF RingType
  <2>5. Idle'
    BY <1>0, <1>1, <2>1, <2>3, <2>4 DEF AnswerInv, Idle, Gram
  <2>6. ASSUME Single
        PROVE  Has(out'[1]) = {Gram(Onward)} /\ \A f \in Has(sock[1]) : f.sa = "RX_PRIM"
    <3>1. out[1] = << >>
      BY <1>0, <1>4, <1>5, <2>1, <2>6
    <3>2. \A f \in Has(sock[1]) : f.sa \in {"RX_PRIM", "RX_SEC"}
      BY <1>0, ComeTypes
    <3> QED BY <1>0, <1>5, <2>1, <2>3, <2>6, <3>1, <3>2, Alone
  <2>7. SentOn'
    <3> SUFFICES ASSUME Single PROVE SentOn'
      BY <1>1 DEF SentOn, Single
    <3>1. \A f \in Has(out'[1]) \union Has(sock'[1]) : f.sa = "RX_PRIM"
      BY <2>3, <2>6 DEF Gram
    <3>2. changes = 0 => cable # Absent
      BY <1>0, <1>4, <1>5, <2>1
    <3>3. ~ ringgot[0] => out'[0] = << >> /\ sock'[0] = << >> /\ ringtx' = Fresh
      BY <1>0, <1>3, <1>5, <2>1, <2>2, <2>3, <2>4 DEF Empty
    <3> QED BY <1>1, <2>1, <3>1, <3>2, <3>3 DEF SentOn
  <2>8. WorkedOnce'
    <3> SUFFICES ASSUME Steady PROVE WorkedOnce'
      BY <1>1 DEF WorkedOnce, Steady
    <3>1. \A f \in Has(out'[0]) : f.work = Fresh
      <4>1. Has(out'[0]) = {} \/ Has(out'[0]) = {Gram(Fresh)}
        BY <1>5, <1>8, <2>4, Alone
      <4> QED BY <4>1 DEF Gram
    <3>2. ringgot[0] => Front(ringrx[0].work) /\ Once(ringrx[0].work)
      BY <1>0, <1>4, <1>6, <2>1, FreshFront
    <3>3. Front(Onward)
      BY <1>5, <1>8, <2>2, <3>2, FreshFront
    <3>4. \A f \in Has(out'[1]) : Front(f.work)'
      BY <1>2, <1>8, <2>6, <3>3 DEF Gram
    <3>5. \A f \in Has(sock'[1]) : Once(f.work)
      BY <1>0, <1>4, <1>6, <1>8, <2>3, <2>6
    <3> QED BY <1>1, <2>1, <3>1, <3>2, <3>4, <3>5 DEF WorkedOnce
  <2>9. Started'
    BY <1>1, <2>1 DEF AnswerInv, Started
  <2> QED BY <2>1, <2>5, <2>7, <2>8, <2>9 DEF AnswerInv, Round, Concluded
<1>11. CASE TakePrimary
  <2>1. /\ ringpc' = "confirm" /\ out' = out /\ sock' = sock /\ ringtx' = ringtx /\ ringrx' = ringrx
        /\ ~ Divided
    BY <1>11 DEF TakePrimary
  <2>2. Concluded'
    <3> SUFFICES ASSUME ringgot[0]
                 PROVE  /\ Single => ringrx[0].sa = "RX_PRIM" \/ ringrx[0].work = Fresh
                        /\ Steady => Once(ringrx[0].work)
      BY <1>1, <2>1 DEF Concluded, Single, Steady
    <3>1. ringrx[0].sa = "RX_PRIM" \/ ringrx[0].work = Fresh
      BY <1>0, <1>1, <1>4 DEF AnswerInv, Idle
    <3> QED BY <1>0, <1>4, <1>6, <3>1, FreshFront
  <2>3. ASSUME changes = 0, ~ ringgot[0] PROVE Clean
    <3>1. Single /\ Empty(out) /\ sock[0] = << >> /\ ringtx = Fresh
      BY <1>0, <1>3, <1>5, <2>3 DEF Single
    <3>2. sock[1] = << >>
      <4>1. CASE ringgot[1]
        <5>1. ringrx[1].sa = "RX_PRIM" /\ ringrx[1] \in Come(1)
          BY <1>0, <1>4, <1>7, <2>1, <2>3, <4>1 DEF Divided
        <5>2. \A f \in Come(1) : f.sa = "RX_PRIM"
          BY <1>0, <1>5, <2>3, <3>1, <5>1
        <5> QED BY <1>0, <1>4, <1>5, <3>1, <4>1, <5>1, <5>2
      <4>2. CASE ~ ringgot[1]
        BY <1>0, <1>3, <4>2
      <4> QED BY <4>1, <4>2
    <3> QED BY <1>0, <3>1, <3>2 DEF Clean, Empty
  <2>4. Started'
    BY <1>1, <2>1, <2>3 DEF AnswerInv, Started, Clean, Empty
  <2>5. Idle'
    BY <1>1, <2>1 DEF AnswerInv, Idle
  <2> QED BY <2>1, <2>2, <2>4, <2>5 DEF AnswerInv, Round, SentOn, WorkedOnce
<1> QED BY <1>9, <1>10, <1>11

\* The wait for the frame that was sent on ends, and the call returns or starts again.
LEMMA AnswerEnds ==
  ASSUME InTime, RingType, AnswerInv, InAgain \/ AgainExpires \/ Confirm
  PROVE  AnswerInv'
<1>0. 0 \in Stacks /\ 1 \in Stacks /\ \A r \in Stacks : r = 0 \/ r = 1
  BY DEF Stacks
<1>1. sends' = sends /\ changes' = changes /\ cable' = cable /\ out' = out /\ ringtx' = ringtx
  BY DEF InAgain, AgainExpires, Confirm, ring
<1>2. CASE InAgain
  <2>1. /\ ringpc = "rewait" /\ ringpc' = "confirm" /\ sock[1] # << >> /\ ringgot'[0]
        /\ ringrx'[0] = Head(sock[1]) /\ Head(sock[1]) \in Has(sock[1]) /\ sock'[0] = sock[0]
    BY <1>0, <1>2, HeadTail DEF InAgain, RingType
  <2>2. Concluded'
    BY <1>1, <2>1 DEF AnswerInv, Concluded, SentOn, WorkedOnce, Single, Steady
  <2>3. Idle' /\ Started'
    BY <1>1, <2>1 DEF AnswerInv, Idle, Started
  <2> QED BY <2>1, <2>2, <2>3 DEF AnswerInv, Round, SentOn, WorkedOnce
<1>3. CASE AgainExpires
  <2>1. /\ ringpc = "rewait" /\ ringpc' = "confirm" /\ sock' = sock /\ ringgot' = ringgot
        /\ ringrx' = ringrx /\ Empty(out) /\ sock[1] = << >>
    BY <1>0, <1>3 DEF AgainExpires, Expired, InTime, Empty
  <2>2. Concluded'
    BY <1>1, <2>1 DEF AnswerInv, Concluded, SentOn, WorkedOnce, Single, Steady
  <2>3. changes = 0 /\ ~ ringgot[0] => Clean
    BY <1>0, <2>1 DEF AnswerInv, SentOn, Single, Clean, Empty
  <2>4. Idle' /\ Started'
    BY <1>1, <2>1, <2>3 DEF AnswerInv, Idle, Started, Clean, Empty
  <2> QED BY <2>1, <2>2, <2>4 DEF AnswerInv, Round, SentOn, WorkedOnce
<1>4. CASE Confirm
  <2>1. /\ ringpc = "confirm" /\ sock' = sock /\ ringgot' = ringgot /\ ringrx' = ringrx
        /\ ringpc' \in {"done", "outframe"} /\ (ringpc' = "outframe" => ~ ringgot[0])
    BY <1>4 DEF Confirm
  <2>2. Concluded'
    BY <1>1, <2>1 DEF AnswerInv, Concluded, Single, Steady
  <2>3. Idle' /\ Started'
    BY <1>1, <2>1 DEF AnswerInv, Idle, Started, Clean, Empty
  <2> QED BY <2>1, <2>2, <2>3 DEF AnswerInv, Round, SentOn, WorkedOnce
<1> QED BY <1>2, <1>3, <1>4

\* Every step keeps the invariant.
LEMMA AnswerInvStep ==
  ASSUME InTime, RingType, AnswerInv, [RingNext]_ringVars
  PROVE  AnswerInv'
<1>1. CASE UNCHANGED ringVars
  <2>1. UNCHANGED <<cable, changes, out, sock, ringtx, ringrx, ringgot, ringpc, sends>>
    BY <1>1 DEF ringVars, ring
  <2> QED BY <2>1 DEF AnswerInv, Idle, Started, Clean, Empty, Round, SentOn, Concluded, WorkedOnce,
                      Single, Steady, Front, Come
<1>2. CASE RingNext
  BY <1>1, <1>2, RingSteps, AnswerSends, AnswerCross, AnswerChanges, AnswerReads,
     AnswerDecides, AnswerEnds
<1> QED BY <1>1, <1>2

\* With any losses and any changes of the ring.
THEOREM AnswerIsDatagramAlways ==
  ASSUME InTime
  PROVE  RingSpec => []AnswerIsDatagram
<1>1. RingInit => RingType /\ AnswerInv
  <2>1. RingInit => AnswerInv
    <3> SUFFICES ASSUME RingInit PROVE AnswerInv
      OBVIOUS
    <3>1. /\ ringpc = "outframe" /\ sends = 0 /\ ringtx = Fresh
          /\ \A s \in Stacks : out[s] = << >> /\ sock[s] = << >>
          /\ 0 \in Stacks /\ 1 \in Stacks
      BY DEF RingInit, Stacks
    <3> QED BY <3>1, Alone DEF AnswerInv, Idle, Started, Clean, Empty, Round, SentOn,
                               Concluded, WorkedOnce
  <2> QED BY <2>1, RingTypeInit
<1>2. RingType /\ AnswerInv /\ [RingNext]_ringVars => (RingType /\ AnswerInv)'
  BY RingTypeStep, AnswerInvStep
<1>3. RingType /\ AnswerInv => AnswerIsDatagram
  <2> SUFFICES ASSUME RingType, AnswerInv, ringpc = "done", Answered
               PROVE  /\ changes = 0 \/ sends = 1 => ringrx[0].kind = "datagram"
                      /\ changes = 0 \/ (sends = 1 /\ changes = 1) =>
                           \A i \in Slaves : ringrx[0].work[i] <= 1
    BY DEF AnswerIsDatagram
  <2>1. ringgot[0] /\ ringrx[0] \in AnyRing /\ \E i \in Slaves : ringrx[0].work[i] > 0
    BY DEF Answered, RingType, Stacks
  <2>2. ringrx[0].work # Fresh
    BY <2>1 DEF Fresh
  <2>3. ringrx[0].sa = "RX_PRIM" <=> ringrx[0].kind = "datagram"
    BY <2>1 DEF AnyRing
  <2>4. changes = 0 \/ sends = 1 => ringrx[0].kind = "datagram"
    BY <2>1, <2>2, <2>3 DEF AnswerInv, Concluded, Single
  <2>5. changes = 0 \/ (sends = 1 /\ changes = 1) =>
          \A i \in Slaves : ringrx[0].work[i] <= 1
    BY <2>1 DEF AnswerInv, Concluded, Steady, Once
  <2> QED BY <2>4, <2>5
<1> QED BY <1>1, <1>2, <1>3, PTL DEF RingSpec
=============================================================================
