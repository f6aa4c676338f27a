----------------------------- MODULE Supervisor -----------------------------
(***************************************************************************)
(* A master in operation (test/linux/red_test/red_test.c): the real-time   *)
(* thread exchanges process data, the main thread runs and at its end      *)
(* takes the slaves down to SAFE_OP, and the supervisor thread ecatcheck   *)
(* reads the slaves' states whenever a cycle's work counter was short,     *)
(* and brings back each slave that is not operational with ec_writestate,  *)
(* ec_reconfig_slave and ec_recover_slave.  They share ec_slave, wkc, inOP *)
(* and dorun without a lock.                                               *)
(*                                                                         *)
(* One action is one datagram and what the thread does until the next.     *)
(* The slaves are external: each has a station address, an AL state,       *)
(* sync managers and FMMUs, loses its place in the ring and comes back     *)
(* from a power loss or only from a broken cable.  The places of absent    *)
(* slaves are closed (a junction bridges them), so positions shift.        *)
(*                                                                         *)
(* The AL status is the set of its bits, as the broadcast read ORs them.   *)
(***************************************************************************)
EXTENDS Integers, FiniteSets

CONSTANTS
  N,           \* slaves
  Twins,       \* slaves of one type: the same identity in their SII
  Steady,      \* slaves that neither drop out nor fail
  MaxFaults,   \* bound: slaves that drop out or fail
  MaxLosses,   \* bound: datagrams lost
  Exposed,     \* which datagrams can be lost: some of Services
  Untimely,    \* can a slave drop out while it is recovered or reconfigured?
  Stops        \* does the main thread end?

Slaves == 1 .. N
Services == {"cycle", "readstate", "control", "reconfig", "recover"}

ASSUME SupervisorAssumption ==
  /\ N \in Nat \ {0}
  /\ MaxFaults \in Nat /\ MaxLosses \in Nat
  /\ Exposed \subseteq Services
  /\ Untimely \in BOOLEAN /\ Stops \in BOOLEAN
  /\ Twins \subseteq Slaves /\ Steady \subseteq Slaves

\* What the SII identifies a slave as.
Kind(n) == IF n \in Twins THEN 0 ELSE n

ERROR == 16                   \* EC_STATE_ERROR, EC_STATE_ACK
NONE == {}
INIT == {1}
PRE_OP == {2}
BOOT == {1, 2}
SAFE_OP == {4}
OPERATIONAL == {8}
States == {INIT, PRE_OP, BOOT, SAFE_OP, OPERATIONAL}
Bits == {1, 2, 4, 8, ERROR}

\* The configured station address of slave s is s.
TempNode == N + 1
Addresses == 0 .. TempNode

VARIABLES
  present, adr, al, req, sm, fmmu,        \* the slaves
  faults, losses,
  state, islost,                          \* ec_slave, [0] for the master
  docheckstate, short, inOP, dorun,       \* short: wkc < expectedWKC
  cyclic, main,                           \* where those threads are
  sup, cur                                \* where the supervisor is

slaves == <<present, adr, al, req, sm, fmmu>>
shared == <<docheckstate, short, inOP, dorun>>
threads == <<cyclic, main>>
vars == <<slaves, faults, losses, state, islost, shared, threads, sup, cur>>

\* From "Operational state reached for all slaves" on.
Init ==
  /\ present = Slaves
  /\ adr = [s \in Slaves |-> s]
  /\ al = [s \in Slaves |-> OPERATIONAL]
  /\ req = [s \in Slaves |-> NONE]
  /\ sm = [s \in Slaves |-> TRUE] /\ fmmu = [s \in Slaves |-> TRUE]
  /\ faults = 0 /\ losses = 0
  /\ state \in [0 .. N -> {OPERATIONAL}]
  /\ islost = [s \in Slaves |-> FALSE]
  /\ docheckstate = FALSE /\ short = FALSE /\ inOP = TRUE /\ dorun = TRUE
  /\ cyclic = "sleep" /\ main = "run"
  /\ sup = "sleep" /\ cur = 1

-----------------------------------------------------------------------------
(* The slaves.                                                              *)

Rank(st) == CASE st = INIT -> 1 [] st = PRE_OP -> 2 [] st = BOOT -> 1
              [] st = SAFE_OP -> 3 [] OTHER -> 4

\* A slave takes up the state it was asked for, at most one step upwards and
\* SAFE_OP only with its sync managers set; otherwise it shows an error,
\* which has to be acknowledged before it follows again.
React(n) ==
  LET target == req[n] \ {ERROR}
      now == al[n] \ {ERROR}
      heard == ERROR \in al[n] => ERROR \in req[n] \/ target = INIT
      legal == Rank(target) <= Rank(now) + 1 /\ (target = SAFE_OP => sm[n])
  IN  /\ req[n] # NONE
      /\ al' = [al EXCEPT ![n] = IF ~heard THEN @
                                 ELSE IF legal THEN target ELSE now \union {ERROR}]
      /\ req' = [req EXCEPT ![n] = NONE]
      /\ UNCHANGED <<present, adr, sm, fmmu, faults, losses, state, islost,
                     shared, threads, sup, cur>>

\* Bound: nothing happens to the slaves and the datagrams any more once the
\* main thread is ending, but the watchdogs.
InOperation == main = "run"

\* The slave that is recovered or reconfigured, or stands at the temporary
\* address instead of it.
Handling(n) ==
  sup \notin {"sleep", "broadcast", "each", "visit"} /\ (n = cur \/ adr[n] = TempNode)

DropOut(n) ==
  /\ n \in present \ Steady /\ InOperation /\ faults < MaxFaults
  /\ Untimely \/ ~Handling(n)
  /\ present' = present \ {n}
  /\ faults' = faults + 1
  /\ UNCHANGED <<adr, al, req, sm, fmmu, losses, state, islost, shared, threads,
                 sup, cur>>

\* Back after a power loss, or with everything it had.
ComeBack(n, cold) ==
  /\ n \notin present /\ InOperation
  /\ present' = present \union {n}
  /\ IF cold
     THEN /\ adr' = [adr EXCEPT ![n] = 0]
          /\ al' = [al EXCEPT ![n] = INIT]
          /\ req' = [req EXCEPT ![n] = NONE]
          /\ sm' = [sm EXCEPT ![n] = FALSE]
          /\ fmmu' = [fmmu EXCEPT ![n] = FALSE]
     ELSE UNCHANGED <<adr, al, req, sm, fmmu>>
  /\ UNCHANGED <<faults, losses, state, islost, shared, threads, sup, cur>>

\* The process data watchdog of an operational slave, or another failure.
Fail(n) ==
  /\ al[n] = OPERATIONAL
  /\ n \in present =>
       /\ n \notin Steady /\ InOperation /\ faults < MaxFaults
       /\ Untimely \/ ~Handling(n)
  /\ al' = [al EXCEPT ![n] = SAFE_OP \union {ERROR}]
  /\ faults' = IF n \in present THEN faults + 1 ELSE faults
  /\ UNCHANGED <<present, adr, req, sm, fmmu, losses, state, islost, shared,
                 threads, sup, cur>>

-----------------------------------------------------------------------------
(* Datagrams.                                                               *)

At(a) == {n \in present : adr[n] = a}
\* The slave at a position, when there are so many.
AtPosition(p) == {n \in present : Cardinality({m \in present : m <= n}) = p}
Status(nodes) == UNION {al[n] : n \in nodes}

\* A datagram of a service is lost on its way out or its way back, or not.
Carried(service, fate) ==
  \/ fate = "ok" /\ UNCHANGED losses
  \/ /\ fate \in {"out", "back"} /\ service \in Exposed
     /\ losses < MaxLosses /\ InOperation /\ losses' = losses + 1
Hearing(nodes, fate) == IF fate = "out" THEN {} ELSE nodes
\* wkc > 0
Confirmed(nodes, fate) == nodes # {} /\ fate = "ok"

Control(nodes, st) ==
  req' = [n \in Slaves |-> IF n \in nodes THEN st ELSE req[n]]

-----------------------------------------------------------------------------
(* The real-time thread and the main thread.                                *)

Delivers(n) == n \in present /\ al[n] = OPERATIONAL /\ fmmu[n]

\* wkc = ec_receive_processdata(...), for what was sent in the last round.
Receive(fate) ==
  /\ cyclic = "sleep" /\ dorun
  /\ Carried("cycle", fate)
  /\ short' = ~(fate = "ok" /\ \A n \in Slaves : Delivers(n))
  /\ cyclic' = "received"
  /\ UNCHANGED <<slaves, faults, state, islost, docheckstate, inOP, dorun, main,
                 sup, cur>>

\* dorun++, and the next frames leave.
SendNext ==
  /\ cyclic = "received"
  /\ cyclic' = "sleep" /\ dorun' = TRUE
  /\ UNCHANGED <<slaves, faults, losses, state, islost, docheckstate, short, inOP,
                 main, sup, cur>>

\* Bound: the main thread ends in behaviours that lose no datagram.
StopCycle ==
  /\ Stops /\ main = "run" /\ losses = 0
  /\ main' = "dorun" /\ dorun' = FALSE
  /\ UNCHANGED <<slaves, faults, losses, state, islost, docheckstate, short, inOP,
                 cyclic, sup, cur>>
StopCheck ==
  /\ main = "dorun"
  /\ main' = "inOP" /\ inOP' = FALSE
  /\ UNCHANGED <<slaves, faults, losses, state, islost, docheckstate, short, dorun,
                 cyclic, sup, cur>>
ChooseSafeOp ==
  /\ main = "inOP"
  /\ main' = "chosen" /\ state' = [state EXCEPT ![0] = SAFE_OP]
  /\ UNCHANGED <<slaves, faults, losses, islost, shared, cyclic, sup, cur>>
\* ec_writestate(0) sends what ec_slave[0].state is by now.
RequestSafeOp ==
  /\ main = "chosen"
  /\ main' = "end" /\ Control(present, state[0])
  /\ UNCHANGED <<present, adr, al, sm, fmmu, faults, losses, state, islost, shared,
                 cyclic, sup, cur>>

-----------------------------------------------------------------------------
(* The supervisor: ecatcheck and ecx_readstate.                             *)

StartRound ==
  /\ sup = "sleep" /\ inOP /\ (short \/ docheckstate)
  /\ docheckstate' = FALSE
  /\ sup' = "broadcast" /\ cur' = 1
  /\ UNCHANGED <<slaves, faults, losses, state, islost, short, inOP, dorun, threads>>

\* The OR of all states, when the datagram comes back.
Broadcast(fate) ==
  LET rval == IF fate = "ok" THEN Status(present) ELSE NONE
      bitwisestate == rval \ {ERROR}
      same == bitwisestate \in States
      all == fate = "ok" /\ present = Slaves
  IN  /\ sup = "broadcast"
      /\ Carried("readstate", fate)
      /\ IF ERROR \notin rval /\ same /\ all
         THEN state' = [s \in 0 .. N |-> bitwisestate] /\ sup' = "visit"
         ELSE /\ state' = [state EXCEPT ![0] = IF same THEN bitwisestate ELSE @]
              /\ sup' = "each"
      /\ UNCHANGED <<slaves, faults, islost, shared, threads, cur>>

\* A state as the number it is, without the error bit.
Bit(st, b) == IF b \in st THEN b ELSE 0
Value(st) == Bit(st, 1) + Bit(st, 2) + Bit(st, 4) + Bit(st, 8)
\* One frame with a datagram for each slave; zero for one that is silent.
ReadEach(fate) ==
  LET found == [s \in Slaves |-> IF fate = "ok" THEN Status(At(s)) ELSE NONE]
      lowest == CHOOSE s \in Slaves : \A t \in Slaves :
                  Value(found[s]) <= Value(found[t])
  IN  /\ sup = "each"
      /\ Carried("readstate", fate)
      /\ state' = [s \in 0 .. N |-> IF s = 0 THEN found[lowest] \ {ERROR}
                                    ELSE found[s]]
      /\ sup' = "visit"
      /\ UNCHANGED <<slaves, faults, islost, shared, threads, cur>>

NextSlave ==
  IF cur < N THEN cur' = cur + 1 /\ sup' = "visit"
  ELSE cur' = 1 /\ sup' = "sleep"

\* The end of a visit: a lost slave that shows a state is found again, one
\* that does not is to be recovered.
Leave(st, lost) ==
  IF lost /\ st = NONE
  THEN /\ islost' = [islost EXCEPT ![cur] = TRUE]
       /\ sup' = "recover" /\ cur' = cur
  ELSE /\ islost' = [islost EXCEPT ![cur] = FALSE]
       /\ NextSlave

Operational ==
  /\ sup = "visit" /\ state[cur] = OPERATIONAL
  /\ Leave(state[cur], islost[cur])
  /\ UNCHANGED <<slaves, faults, losses, state, shared, threads>>

\* Acknowledge the error, or ask for OPERATIONAL.
\* Wrong: asks for OPERATIONAL without acknowledging.
Request_Wrong(st) == OPERATIONAL
Request(st) == IF st = SAFE_OP THEN OPERATIONAL ELSE SAFE_OP \union {ERROR}

WriteState(fate) ==
  /\ sup = "visit" /\ state[cur] \in {SAFE_OP, SAFE_OP \union {ERROR}}
  /\ docheckstate' = TRUE
  /\ Carried("control", fate)
  /\ Control(Hearing(At(cur), fate), Request(state[cur]))
  /\ state' = [state EXCEPT ![cur] = Request(@)]
  /\ Leave(state'[cur], islost[cur])
  /\ UNCHANGED <<present, adr, al, sm, fmmu, faults, short, inOP, dorun, threads>>

Recheck(fate) ==
  LET found == IF fate = "ok" THEN Status(At(cur)) ELSE NONE
  IN  /\ sup = "visit" /\ state[cur] = NONE /\ ~islost[cur]
      /\ docheckstate' = TRUE
      /\ Carried("readstate", fate)
      /\ state' = [state EXCEPT ![cur] = found]
      /\ Leave(found, found = NONE)
      /\ UNCHANGED <<slaves, faults, short, inOP, dorun, threads>>

StillLost ==
  /\ sup = "visit" /\ state[cur] = NONE /\ islost[cur]
  /\ docheckstate' = TRUE
  /\ sup' = "recover"
  /\ UNCHANGED <<slaves, faults, losses, state, islost, short, inOP, dorun, threads,
                 cur>>

-----------------------------------------------------------------------------
(* ecx_reconfig_slave.                                                      *)

\* Neither operational nor on the way to it, and not silent.
\* Wrong: a silent slave too.
NeedsReconfig_Wrong(st) ==
  st \notin {OPERATIONAL, SAFE_OP, SAFE_OP \union {ERROR}}
NeedsReconfig(st) ==
  st \notin {NONE, OPERATIONAL, SAFE_OP, SAFE_OP \union {ERROR}}

RequestInit(fate) ==
  /\ sup = "visit" /\ NeedsReconfig(state[cur])
  /\ docheckstate' = TRUE
  /\ Carried("reconfig", fate)
  /\ Control(Hearing(At(cur), fate), INIT)
  /\ IF Confirmed(At(cur), fate)
     THEN sup' = "checkInit" /\ UNCHANGED <<islost, cur>>
     ELSE Leave(state[cur], islost[cur])
  /\ UNCHANGED <<present, adr, al, sm, fmmu, faults, state, short, inOP, dorun,
                 threads>>

\* ecx_statecheck: polls until the state is there, or for so long that a
\* slave that would follow has done so.
Check(want, continue, regardless) ==
  LET found == Status(At(cur))
  IN  /\ \A n \in At(cur) : req[n] = NONE \/ al[n] \ {ERROR} = want
      /\ state' = [state EXCEPT ![cur] = found]
      /\ IF found \ {ERROR} = want \/ regardless
         THEN sup' = continue /\ UNCHANGED <<islost, cur>>
         ELSE Leave(found, islost[cur])
      /\ UNCHANGED <<slaves, faults, losses, shared, threads>>
CheckInit == sup = "checkInit" /\ Check(INIT, "sms", FALSE)
CheckPreOp == sup = "checkPreOp" /\ Check(PRE_OP, "toSafeOp", FALSE)
CheckSafeOp == sup = "checkSafeOp" /\ Check(SAFE_OP, "fmmus", TRUE)

\* Nobody looks at the work counters of what follows.
ProgramSms(fate) ==
  /\ sup = "sms" /\ Carried("reconfig", fate)
  /\ sm' = [n \in Slaves |-> sm[n] \/ n \in Hearing(At(cur), fate)]
  /\ sup' = "toPreOp"
  /\ UNCHANGED <<present, adr, al, req, fmmu, faults, state, islost, shared, threads,
                 cur>>
RequestPreOp(fate) ==
  /\ sup = "toPreOp" /\ Carried("reconfig", fate)
  /\ Control(Hearing(At(cur), fate), PRE_OP)
  /\ sup' = "checkPreOp"
  /\ UNCHANGED <<present, adr, al, sm, fmmu, faults, state, islost, shared, threads,
                 cur>>
AskSafeOp(fate) ==
  /\ sup = "toSafeOp" /\ Carried("reconfig", fate)
  /\ Control(Hearing(At(cur), fate), SAFE_OP)
  /\ sup' = "checkSafeOp"
  /\ UNCHANGED <<present, adr, al, sm, fmmu, faults, state, islost, shared, threads,
                 cur>>

ProgramFmmus(fate) ==
  /\ sup = "fmmus" /\ Carried("reconfig", fate)
  /\ fmmu' = [n \in Slaves |-> fmmu[n] \/ n \in Hearing(At(cur), fate)]
  /\ Leave(state[cur], islost[cur])
  /\ UNCHANGED <<present, adr, al, req, sm, faults, state, shared, threads>>

-----------------------------------------------------------------------------
(* ecx_recover_slave.                                                       *)

Readdress(nodes, a) == adr' = [n \in Slaves |-> IF n \in nodes THEN a ELSE adr[n]]

ReadAddress(fate) ==
  LET nodes == AtPosition(cur)
      readadr == IF Confirmed(nodes, fate) THEN {adr[n] : n \in nodes} ELSE {}
  IN  /\ sup = "recover" /\ Carried("recover", fate)
      /\ IF readadr = {0} THEN sup' = "clear" /\ UNCHANGED <<islost, cur>>
         ELSE /\ islost' = [islost EXCEPT ![cur] = cur \notin readadr]
              /\ NextSlave
      /\ UNCHANGED <<slaves, faults, state, shared, threads>>

\* FPWRw(EC_TEMPNODE, ECT_REG_STADR, 0)
FreeTempNode(fate) ==
  /\ Carried("recover", fate)
  /\ Readdress(Hearing(At(TempNode), fate), 0)
  /\ UNCHANGED <<present, al, req, sm, fmmu, faults, state, islost, shared, threads>>
ClearTempNode(fate) ==
  /\ sup = "clear" /\ FreeTempNode(fate)
  /\ sup' = "setTemp" /\ UNCHANGED cur
RemoveAddress(fate) ==
  /\ sup = "remove" /\ FreeTempNode(fate)
  /\ NextSlave

SetTempNode(fate) ==
  LET nodes == AtPosition(cur)
  IN  /\ sup = "setTemp" /\ Carried("recover", fate)
      /\ Readdress(Hearing(nodes, fate), TempNode)
      /\ sup' = IF Confirmed(nodes, fate) THEN "identify" ELSE "remove"
      /\ UNCHANGED <<present, al, req, sm, fmmu, faults, state, islost, shared,
                     threads, cur>>

\* Alias, product, manufacturer and revision are those of the slave before; of
\* several at the temporary address the last in the ring has its answer read.
\* Wrong: whatever answers is taken for it.
IsSame_Wrong(nodes, fate) == Confirmed(nodes, fate)
IsSame(nodes, fate) ==
  /\ Confirmed(nodes, fate)
  /\ \A n \in nodes : (\A m \in nodes : m <= n) => Kind(n) = Kind(cur)
Identify(fate) ==
  /\ sup = "identify" /\ Carried("recover", fate)
  /\ sup' = IF IsSame(At(TempNode), fate) THEN "give" ELSE "remove"
  /\ UNCHANGED <<slaves, faults, state, islost, shared, threads, cur>>

\* No answer is EC_NOFRAME, which ecatcheck takes for success.
GiveAddress(fate) ==
  /\ sup = "give" /\ Carried("recover", fate)
  /\ Readdress(Hearing(At(TempNode), fate), cur)
  /\ islost' = [islost EXCEPT ![cur] = At(TempNode) = {} /\ fate = "ok"]
  /\ NextSlave
  /\ UNCHANGED <<present, al, req, sm, fmmu, faults, state, shared, threads>>

-----------------------------------------------------------------------------
Fates == {"ok", "out", "back"}
SupervisorStep ==
  \/ StartRound \/ Operational \/ StillLost
  \/ CheckInit \/ CheckPreOp \/ CheckSafeOp
  \/ \E fate \in Fates :
       \/ Broadcast(fate) \/ ReadEach(fate)
       \/ WriteState(fate) \/ Recheck(fate)
       \/ RequestInit(fate) \/ ProgramSms(fate) \/ RequestPreOp(fate)
       \/ AskSafeOp(fate) \/ ProgramFmmus(fate)
       \/ ReadAddress(fate) \/ ClearTempNode(fate) \/ SetTempNode(fate)
       \/ Identify(fate) \/ RemoveAddress(fate) \/ GiveAddress(fate)
CyclicStep == SendNext \/ \E fate \in Fates : Receive(fate)
MainStep == StopCycle \/ StopCheck \/ ChooseSafeOp \/ RequestSafeOp
SlaveFaults ==
  \E n \in Slaves : DropOut(n) \/ Fail(n) \/ \E cold \in BOOLEAN : ComeBack(n, cold)
Reacts == \E n \in Slaves : React(n)

Next == SupervisorStep \/ CyclicStep \/ MainStep \/ SlaveFaults \/ Reacts

Spec == Init /\ [][Next]_vars
\* The two threads go on, and a slave follows what it was asked for; the main
\* thread ends whenever it likes.
FairSpec ==
  Spec /\ WF_vars(SupervisorStep) /\ WF_vars(CyclicStep)
       /\ \A n \in Slaves : WF_vars(React(n))

-----------------------------------------------------------------------------
(* Properties.                                                              *)

\* Type invariant.
TypeOK ==
  /\ present \subseteq Slaves
  /\ adr \in [Slaves -> Addresses]
  /\ al \in [Slaves -> SUBSET Bits] /\ req \in [Slaves -> SUBSET Bits]
  /\ sm \in [Slaves -> BOOLEAN] /\ fmmu \in [Slaves -> BOOLEAN]
  /\ faults \in 0 .. MaxFaults /\ losses \in 0 .. MaxLosses
  /\ state \in [0 .. N -> SUBSET Bits] /\ islost \in [Slaves -> BOOLEAN]
  /\ docheckstate \in BOOLEAN /\ short \in BOOLEAN
  /\ inOP \in BOOLEAN /\ dorun \in BOOLEAN
  /\ cyclic \in {"sleep", "received"}
  /\ main \in {"run", "dorun", "inOP", "chosen", "end"}
  /\ sup \in {"sleep", "broadcast", "each", "visit", "checkInit", "sms", "toPreOp",
              "checkPreOp", "toSafeOp", "checkSafeOp", "fmmus", "recover", "clear",
              "setTemp", "identify", "give", "remove"}
  /\ cur \in Slaves

\* The station address of a slave is never given to another, although
\* ecx_recover_slave looks for it by position and positions shift while
\* slaves are away; the comparison of the SII identity keeps them apart.
AddressIsOwn == \A n \in Slaves : adr[n] \in {0, n, TempNode}

\* The supervisor never takes an operational slave out of operation, however
\* old the states are that it acts on, also if a datagram was lost with which
\* it read or asked for a state.
OperationalLeftAlone ==
  [][\A n \in Slaves :
       al[n] = OPERATIONAL /\ n \in present /\ req[n] \in {NONE, OPERATIONAL}
         /\ UNCHANGED main
         => req'[n] \in {NONE, OPERATIONAL}]_vars

\* Once all slaves are back for good, in a master that goes on, they all are
\* operational with their FMMUs set again: every cycle returns the expected
\* work counter.
Resumes ==
  <>[](present = Slaves /\ main = "run") => <>[](\A n \in Slaves : Delivers(n))

\* "Request safe operational state for all slaves" is the last word: what the
\* slaves were asked for afterwards is not more.
StopIsSafe == main = "end" => \A n \in Slaves : req[n] # OPERATIONAL
=============================================================================
