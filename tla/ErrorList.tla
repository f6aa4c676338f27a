----------------------------- MODULE ErrorList -----------------------------
(***************************************************************************)
(* The error list of the EtherCAT master (soem/ethercatmain.c): a ring of  *)
(* MaxElist + 1 entries between a head that is written and a tail that is  *)
(* read, and the flag EcatError that applications poll before they read.   *)
(***************************************************************************)
EXTENDS Integers, Sequences

CONSTANTS
  Slaves,     \* slaves that errors are reported for
  MaxElist,   \* EC_MAXELIST: highest index of the ring
  None        \* an entry never written, an empty read

ASSUME ListAssumption ==
  /\ MaxElist \in Nat \ {0}

Etypes == {"SDO", "SDOINFO", "PACKET", "EMERGENCY", "SOE", "MBX"}

\* ec_errort without the details that only the text of the error shows.
Reports == [Etype : Etypes, Slave : Slaves]

ASSUME NoneAssumption == None \notin Reports

Indices == 0 .. MaxElist

VARIABLES
  Error,       \* the ring
  Signal,      \* per entry: "error set but not read"
  head, tail,  \* entry to write next, entry to read next
  ecaterror,   \* EcatError
  Ec           \* what the last ecx_poperror handed out

vars == <<Error, Signal, head, tail, ecaterror, Ec>>

Init ==
  /\ Error = [i \in Indices |-> None]
  /\ Signal = [i \in Indices |-> FALSE]
  /\ head = 0
  /\ tail = 0
  /\ ecaterror = FALSE
  /\ Ec = None

\* head++ and tail++ with their wrap.
Advance(i) == IF i + 1 > MaxElist THEN 0 ELSE i + 1

\* Wrong: a full ring is not noticed and looks empty.
NextTail_Wrong(h) == tail

\* The tail gives way when the head reaches it: the oldest report is lost.
NextTail(h) == IF h = tail THEN Advance(tail) ELSE tail

ecx_pusherror(e) ==
  /\ Error' = [Error EXCEPT ![head] = e]
  /\ Signal' = [Signal EXCEPT ![head] = TRUE]
  /\ head' = Advance(head)
  /\ tail' = NextTail(Advance(head))
  /\ ecaterror' = TRUE
  /\ UNCHANGED Ec

ecx_iserror == head # tail

\* Wrong: the flag goes down with the entry that was read.
ecx_poperror_Wrong ==
  /\ Signal' = [Signal EXCEPT ![tail] = FALSE]
  /\ Ec' = IF ecx_iserror THEN Error[tail] ELSE None
  /\ tail' = IF ecx_iserror THEN Advance(tail) ELSE tail
  /\ ecaterror' = FALSE
  /\ UNCHANGED <<Error, head>>

\* The caller looks at the entry only when the result is TRUE.
ecx_poperror ==
  /\ Signal' = [Signal EXCEPT ![tail] = FALSE]
  /\ Ec' = IF ecx_iserror THEN Error[tail] ELSE None
  /\ tail' = IF ecx_iserror THEN Advance(tail) ELSE tail
  /\ ecaterror' = (ecx_iserror /\ ecaterror)
  /\ UNCHANGED <<Error, head>>

\* The reporters fill in an entry and push it.
ecx_packeterror(slave)        == ecx_pusherror([Etype |-> "PACKET", Slave |-> slave])
ecx_mbxerror(slave)           == ecx_pusherror([Etype |-> "MBX", Slave |-> slave])
ecx_mbxemergencyerror(slave)  == ecx_pusherror([Etype |-> "EMERGENCY", Slave |-> slave])
ecx_SDOerror(slave)           == ecx_pusherror([Etype |-> "SDO", Slave |-> slave])
ecx_SDOinfoerror(slave)       == ecx_pusherror([Etype |-> "SDOINFO", Slave |-> slave])
ecx_SoEerror(slave)           == ecx_pusherror([Etype |-> "SOE", Slave |-> slave])

Report(slave) ==
  \/ ecx_packeterror(slave) \/ ecx_mbxerror(slave) \/ ecx_mbxemergencyerror(slave)
  \/ ecx_SDOerror(slave) \/ ecx_SDOinfoerror(slave) \/ ecx_SoEerror(slave)

\* while(EcatError) printf("%s", ec_elist2string()): one turn of the loop.
ecx_elist2string == ecaterror /\ ecx_poperror

\* ecx_poperror is public: it may be called without looking at the flag.
Next == (\E slave \in Slaves : Report(slave)) \/ ecx_elist2string \/ ecx_poperror

Spec == Init /\ [][Next]_vars

-----------------------------------------------------------------------------
\* The reports between tail and head, oldest first.
Count   == IF head >= tail THEN head - tail ELSE head - tail + MaxElist + 1
Slot(i) == IF tail + i - 1 > MaxElist THEN tail + i - 2 - MaxElist
                                      ELSE tail + i - 1
Pending == [i \in 1 .. Count |-> Error[Slot(i)]]

\* Every variable has its type.
TypeOK ==
  /\ Error \in [Indices -> Reports \union {None}]
  /\ Signal \in [Indices -> BOOLEAN]
  /\ head \in Indices
  /\ tail \in Indices
  /\ ecaterror \in BOOLEAN
  /\ Ec \in Reports \union {None}

\* "error set but not read": every report not yet read carries the signal,
\* also after the ring has wrapped and dropped reports.
SignalsPending == \A i \in 1 .. Count : Signal[Slot(i)] /\ Error[Slot(i)] # None

\* An application that stops reading when EcatError is down has read all there
\* is: the flag is never down over a list that is not empty.
FlagCoversList == ~ ecaterror => Pending = << >>

Log == INSTANCE ErrorLog WITH
  Capacity <- MaxElist, log <- Pending, alarm <- ecaterror, read <- Ec

\* The ring is a queue of EC_MAXELIST reports that drops its oldest report
\* when a new one does not fit, and reports are read once and in order.
RingIsLog == Log!Spec
=============================================================================
