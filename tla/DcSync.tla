------------------------------- MODULE DcSync -------------------------------
(***************************************************************************)
(* The pulses SYNC0 and SYNC1 that a slave makes from its distributed      *)
(* clock: ecx_dcsync0 and ecx_dcsync01 (ethercatdc.c).  A call stops the   *)
(* pulses, reads the slave's time, and writes the start, the cycles and    *)
(* the activation, each by one datagram of which no answer is looked at.   *)
(* Slaves are set up one after the other while time goes on, and meant to  *)
(* make their pulses together.  The clocks agree (ecx_configdc, Topology); *)
(* a slave's registers are external.                                       *)
(***************************************************************************)
EXTENDS Integers

CONSTANTS
  Clocks,          \* slaves with a distributed clock
  SyncDelay,       \* from the call to the first pulse
  PulseCalls,      \* the calls the application makes
  MaxNow,          \* bound: the time
  MaxPulseLosses,  \* bound: datagrams lost
  MaxRequests      \* bound: calls

DcSyncParameters ==
  /\ SyncDelay \in Nat /\ MaxNow \in Nat /\ MaxPulseLosses \in Nat /\ MaxRequests \in Nat
  \* ecx_dcsync01 divides by the cycle before it asks whether there is one.
  /\ \A r \in PulseCalls :
       /\ r \in [op : {"sync0", "sync01"}, act : BOOLEAN, c0 : Nat, c1 : Nat, shift : Int]
       /\ r.op = "sync01" => r.c0 > 0

ASSUME DcSyncAssumption == DcSyncParameters

VARIABLES
  now,                              \* the time of all clocks, from 1
  start, cycle, running,            \* DCSTART0, DCCYCLE0, DCSYNCACT of each slave
  DCactive, DCshift, DCcycle,       \* in ec_slave
  request, stage,                   \* the call and its next datagram
  t1,                               \* the time it read
  whole,                            \* slaves of which no write was lost since the last call began
  lostpulses, requests

registers == <<start, cycle, running>>
believed == <<DCactive, DCshift, DCcycle>>
dcVars == <<now, registers, believed, request, stage, t1, whole, lostpulses, requests>>

NoRequest == <<>>

DcInit ==
  /\ now = 1
  /\ start = [s \in Clocks |-> 0] /\ cycle = [s \in Clocks |-> 0]
  /\ running = [s \in Clocks |-> FALSE]
  /\ DCactive = [s \in Clocks |-> FALSE]
  /\ DCshift = [s \in Clocks |-> 0] /\ DCcycle = [s \in Clocks |-> 0]
  /\ request = NoRequest /\ stage = "idle" /\ t1 = 0
  /\ whole = Clocks /\ lostpulses = 0 /\ requests = 0

Tick ==
  /\ now < MaxNow /\ now' = now + 1
  /\ UNCHANGED <<registers, believed, request, stage, t1, whole, lostpulses, requests>>

Request(op) ==
  /\ stage = "idle" /\ requests < MaxRequests /\ requests' = requests + 1
  /\ \E s \in Clocks, asked \in PulseCalls :
       /\ asked.op = op
       /\ request' = [s |-> s, for |-> asked]
       /\ whole' = whole \union {s}
  /\ stage' = "stop" /\ t1' = 0
  /\ UNCHANGED <<now, registers, believed, lostpulses>>
ecx_dcsync0 == Request("sync0")
ecx_dcsync01 == Request("sync01")

\* SYNC1 may come at every so many SYNC0: the cycle of the two.
TrueCyclTime(c0, c1) == ((c1 \div c0) + 1) * c0
Period(r) == IF r.op = "sync01" THEN TrueCyclTime(r.c0, r.c1) ELSE r.c0

FirstTrigger(time, period, shift) ==
  IF period > 0 THEN ((time + SyncDelay) \div period) * period + period + shift
  ELSE time + SyncDelay + shift

\* What a datagram does when the slave hears it.
Heard(what) ==
  LET s == request.s
  IN  /\ start' = IF what = "start"
                  THEN [start EXCEPT ![s] = FirstTrigger(t1, Period(request.for), request.for.shift)]
                  ELSE start
      /\ cycle' = IF what = "cycle" THEN [cycle EXCEPT ![s] = request.for.c0] ELSE cycle
      /\ running' = CASE what = "stop" -> [running EXCEPT ![s] = FALSE]
                      [] what = "act"  -> [running EXCEPT ![s] = request.for.act]
                      [] OTHER         -> running

NextStage(what) ==
  CASE what = "stop" -> "time" [] what = "time" -> "start" [] what = "start" -> "cycle"
    [] what = "cycle" -> "act" [] what = "act" -> "idle"

\* After the last one the call enters in ec_slave what it asked for, whatever
\* was heard.
Enter ==
  IF stage = "act"
  THEN /\ DCactive' = [DCactive EXCEPT ![request.s] = request.for.act]
       /\ DCshift' = [DCshift EXCEPT ![request.s] = request.for.shift]
       /\ DCcycle' = [DCcycle EXCEPT ![request.s] = request.for.c0]
       /\ request' = NoRequest
  ELSE UNCHANGED <<believed, request>>

Datagram ==
  /\ stage # "idle" /\ stage' = NextStage(stage) /\ Enter
  /\ Heard(stage)
  /\ t1' = IF stage = "time" THEN now ELSE t1
  /\ UNCHANGED <<now, whole, lostpulses, requests>>
DatagramLost ==
  /\ stage # "idle" /\ stage' = NextStage(stage) /\ Enter
  /\ lostpulses < MaxPulseLosses /\ lostpulses' = lostpulses + 1
  /\ whole' = IF stage = "time" THEN whole ELSE whole \ {request.s}
  /\ UNCHANGED <<now, registers, t1, requests>>

DcNext ==
  \/ Tick
  \/ ecx_dcsync0 \/ ecx_dcsync01
  \/ Datagram \/ DatagramLost

DcSpec == DcInit /\ [][DcNext]_dcVars

-----------------------------------------------------------------------------
(* Properties.                                                              *)

Multiple(x, c) == (x \div c) * c = x

Settled(s) == s \in whole /\ DCactive[s] /\ DCcycle[s] > 0 /\ (stage # "idle" => request.s # s)

\* "Slaves with the same CyclTime will sync at the same moment": whenever they
\* were set up, with SYNC1 or without it, and although the time was not read,
\* the pulses of two slaves, each without its shift, are a whole number of
\* cycles apart.  Only a lost write, which nobody notices, parts them.
SyncTogether ==
  \A a, b \in Clocks :
    Settled(a) /\ Settled(b) /\ DCcycle[a] = DCcycle[b] =>
      /\ running[a] /\ cycle[a] = DCcycle[a]
      /\ Multiple((start[a] - DCshift[a]) - (start[b] - DCshift[b]), DCcycle[a])

\* When the pulses are released, the first of them is still to come, as long
\* as the call takes less than SyncDelay and the shift, and the time was read.
\* (Otherwise the start is in the past and the slave makes no pulse at all.)
FirstPulseAhead ==
  stage = "act" /\ request.for.act /\ request.s \in whole /\ t1 > 0
    /\ now - t1 < SyncDelay + request.for.shift => start[request.s] > now
=============================================================================
