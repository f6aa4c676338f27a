------------------------------ MODULE Topology ------------------------------
(***************************************************************************)
(* The tree of the slaves.  ecx_config_init finds the parent of each slave *)
(* from the number of its open ports, and ecx_configdc (ethercatdc.c)      *)
(* measures how long a frame takes to each slave with a distributed clock, *)
(* from the times at which one frame passed the ports of the slaves.       *)
(*                                                                         *)
(* Operators only: Configuration has the loops over the slaves.  The tree, *)
(* its delays and the clocks that latch the times are external.            *)
(***************************************************************************)
EXTENDS SlaveList, Sequences, FiniteSetsExt

CONSTANT HalfRange     \* 2^31: the latched times are numbers of 32 bits

ASSUME TopologyAssumption == HalfRange \in Nat \ {0}

-----------------------------------------------------------------------------
(* The network: net.up is the slave a slave is plugged into, net.port the  *)
(* port there, net.delay the time over the cable, net.dc whether the slave *)
(* has a clock and net.clock what it shows when a frame arrives.  Slaves   *)
(* are entered at port 0 and numbered in the order a frame passes them.    *)

Order == <<0, 3, 1, 2>>             \* in which a frame passes the ports
Place(p) == CHOOSE i \in 1 .. 4 : Order[i] = p

Children(net, i) == {c \in Slaves : net.up[c] = i}
OpenPorts(net, i) == {0} \union {net.port[c] : c \in Children(net, i)}

IsNetwork(net) ==
  /\ net.up[1] = Master
  /\ \A i \in Slaves \ {1} :
       /\ net.up[i] \in 1 .. i - 1
       \* a frame finishes a branch before it enters the next one
       /\ \A j \in Slaves : net.up[i] < j /\ j < i => net.up[j] >= net.up[i]
       /\ net.port[i] \in {3, 1, 2}
       /\ \A c \in Children(net, net.up[i]) :
            c < i => Place(net.port[c]) < Place(net.port[i])

\* How long a frame is away below a slave.
Away(net) ==
  LET away[i \in Slaves] ==
        MapThenSumSet(LAMBDA c : 2 * net.delay[c] + away[c], Children(net, i))
  IN  away
Before(net, i, c) == {b \in Children(net, i) : b < c}
Spent(net, cs) == MapThenSumSet(LAMBDA c : 2 * net.delay[c] + Away(net)[c], cs)
\* When a frame gets to a slave.
Arrival(net) ==
  LET at[i \in Slaves] ==
        IF net.up[i] = Master THEN 0
        ELSE at[net.up[i]] + Spent(net, Before(net, net.up[i], i)) + net.delay[i]
  IN  at

Int32(n) == ((n + HalfRange) % (2 * HalfRange)) - HalfRange

\* The time latched at an open port: when the frame arrived there, or came back.
Latched(net, i, p) ==
  Int32(net.clock[i] +
        Spent(net, {c \in Children(net, i) : Place(net.port[c]) <= Place(p)}))

-----------------------------------------------------------------------------
(* ecx_config_init: "search for parent".                                    *)

\* What a slave with so many links does to the count of open branches.
\* Wrong: a cross is counted like a split.
Branches_Wrong(links) ==
  CASE links = 1 -> -1 [] links = 3 -> 1 [] links = 4 -> 1 [] OTHER -> 0
Branches(links) ==
  CASE links = 1 -> -1 [] links = 3 -> 1 [] links = 4 -> 2 [] OTHER -> 0

\* The last slave before i behind which no branch is finished yet; topoc[n] is
\* the count at the n-th slave on the way back.
FindParent(topology, i) ==
  LET topoc[n \in 0 .. i - 1] ==
        IF n = 0 THEN 0 ELSE topoc[n - 1] + Branches(topology[i - n])
  IN  IF i = 1 THEN Master
      ELSE Max({j \in 1 .. i - 1 : j = 1 \/ (topoc[i - j] >= 0 /\ topology[j] > 1)})

-----------------------------------------------------------------------------
(* ecx_configdc, for one slave.  list is ec_slave with the master as 0;    *)
(* hold is parenthold, prev prevDCslave.                                   *)

FirstIn(ports, order) ==
  order[Min({i \in DOMAIN order : order[i] \in ports})]

\* ecx_prevport: "calculate previous active port of a slave".
PrevPort(active, p) ==
  LET at == Place(p)
      back == [k \in 1 .. 3 |-> Order[((at - 1 - k) % 4) + 1]]
  IN  IF active \ {p} = {} THEN p ELSE FirstIn(active \ {p}, back)

\* ecx_parentport: "search order is important, here 3 - 1 - 2 - 0".
ParentPort(ports) == IF ports = {} THEN 0 ELSE FirstIn(ports, <<3, 1, 2, 0>>)

Consume(list, i) ==
  [list EXCEPT ![i].consumedports = @ \ {ParentPort(@)}]

\* "entryport is port with the lowest timestamp"
EntryPort(active, times) ==
  CHOOSE p \in active : \A q \in active \ {p} :
    times[p] < times[q] \/ (times[p] = times[q] /\ Place(p) < Place(q))

\* "finding DC parent of current": the slave below it on the way is its child.
DcChild(list, i) ==
  LET top[j \in 1 .. i] ==
        IF list[j].parent = Master \/ list[list[j].parent].hasdc THEN j
        ELSE top[list[j].parent]
  IN  top[i]

Halved(n) == IF n >= 0 THEN n \div 2 ELSE -((-n) \div 2)
PortTime(sl, p) == sl.times[p]

\* The delay of slave i, from the differences of latched times.
\* Wrong: what earlier branches of the parent took is left out.
Delay_Wrong(list, i, parent, child) ==
  LET mother == list[parent]
      dt3 == Int32(PortTime(mother, list[i].parentport)
                   - PortTime(mother, PrevPort(mother.activeports, list[i].parentport)))
  IN  Halved(dt3) + mother.pdelay
Delay(list, i, parent, child) ==
  LET me == list[i]
      mother == list[parent]
      before == PrevPort(mother.activeports, me.parentport)
      dt3 == Int32(PortTime(mother, me.parentport) - PortTime(mother, before))
      d1 == IF me.topology <= 1 THEN 0
            ELSE Int32(PortTime(me, PrevPort(me.activeports, me.entryport))
                       - PortTime(me, me.entryport))
      dt1 == IF d1 > dt3 THEN -d1 ELSE d1
      dt2 == IF child - parent <= 1 THEN 0
             ELSE Int32(PortTime(mother, before) - PortTime(mother, mother.entryport))
  IN  Halved(dt3 - dt1) + (IF dt2 < 0 THEN -dt2 ELSE dt2) + mother.pdelay

\* A slave with a clock: the chain of clocks and its entry port,
Chained(net, list, prev, i) ==
  LET active == list[i].activeports
      times == [p \in 0 .. 3 |-> IF p \in active THEN Latched(net, i, p) ELSE 0]
      entry == EntryPort(active, times)
  IN  [list EXCEPT
        ![0].hasdc = TRUE,
        ![prev].DCnext = i,
        ![i].DCprevious = prev,
        ![i].times = times,
        ![i].entryport = entry,
        ![i].consumedports = active \ {entry}]

\* then its port of the nearest clock above it, and its delay.
Delayed(list, i) ==
  LET child == DcChild(list, i)
      parent == list[child].parent
      port == IF list[parent].topology = 1 THEN list[parent].entryport
              ELSE ParentPort(list[parent].consumedports)
      placed == [Consume(list, parent) EXCEPT ![i].parentport = port]
  IN  IF parent = Master THEN list
      ELSE [placed EXCEPT ![i].pdelay = Delay(placed, i, parent, child)]

DcSlave(net, list, prev, i) ==
  [list |-> Delayed(Chained(net, list, prev, i), i), hold |-> Master, prev |-> i]

\* A slave without: a branch without any clock still takes a port of the
\* split it starts from.
PlainSlave(list, hold, prev, i) ==
  LET fresh == [list EXCEPT ![i].consumedports = list[i].activeports]
      parent == list[i].parent
      split == IF parent # Master /\ list[parent].topology > 2 THEN parent ELSE hold
      ends == split # Master /\ list[i].topology = 1
  IN  [list |-> IF ends THEN Consume(fresh, split) ELSE fresh,
       hold |-> IF ends THEN Master ELSE split, prev |-> prev]

ConfigDc(net, list, hold, prev, i) ==
  IF list[i].hasdc THEN DcSlave(net, list, prev, i)
  ELSE PlainSlave(list, hold, prev, i)

=============================================================================
