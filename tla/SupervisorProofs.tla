-------------------------- MODULE SupervisorProofs --------------------------
(***************************************************************************)
(* Two promises of a supervised network of any size, in which no two       *)
(* slaves have one identity.                                               *)
(*                                                                         *)
(* No slave gets the address of another, whatever is lost and whichever    *)
(* slaves drop out and come back meanwhile, as long as no two of them have *)
(* the temporary address at one time: what has it when ecx_recover_slave   *)
(* gives the address away is the slave whose identity was compared,        *)
(* although they are two datagrams.  The temporary address is one slave's  *)
(* if no datagram of ecx_recover_slave is lost and no slave drops out      *)
(* while it is handled.                                                    *)
(*                                                                         *)
(* And operational slaves are left alone, although the supervisor acts on  *)
(* states it read at the beginning of its round.                           *)
(***************************************************************************)
EXTENDS Supervisor, FiniteSetTheorems, WellFoundedInduction, TLAPS

\* No two slaves, present or away, have the temporary address.
Alone == \A m, n \in Slaves : adr[m] = TempNode /\ adr[n] = TempNode => m = n

AddressType == present \subseteq Slaves /\ adr \in [Slaves -> Addresses] /\ cur \in Slaves
Compared == sup = "give" => \A n \in Slaves : adr[n] = TempNode => n = cur
AddressInv == AddressType /\ Compared /\ AddressIsOwn

\* The temporary address is nobody's own, and 0 is neither.
LEMMA AddressesApart ==
  /\ N \in Nat /\ 0 \in Addresses /\ TempNode \in Addresses /\ Slaves \subseteq Addresses
  /\ TempNode # 0 /\ \A n \in Slaves : n # TempNode /\ n # 0
BY SupervisorAssumption, SMT DEF SupervisorAssumption, Addresses, TempNode, Slaves

\* NextSlave goes on to a slave, and leaves ecx_recover_slave.
LEMMA NextIsSlave ==
  ASSUME cur \in Slaves, NextSlave
  PROVE  cur' \in Slaves /\ sup' \in {"visit", "sleep"}
BY SupervisorAssumption, SMT DEF SupervisorAssumption, NextSlave, Slaves

LEMMA LeaveIsSlave ==
  ASSUME cur \in Slaves, NEW st, NEW lost, Leave(st, lost)
  PROVE  cur' \in Slaves /\ sup' # "give"
BY NextIsSlave DEF Leave

\* What changes no address and does not go on to give one keeps the invariant.
LEMMA OtherSteps ==
  ASSUME AddressInv, UNCHANGED <<present, adr>>, cur' \in Slaves, sup' # "give"
  PROVE  AddressInv'
BY DEF AddressInv, AddressType, Compared, AddressIsOwn, Slaves, TempNode, Addresses

\* So does what changes neither an address nor the place of the supervisor.
LEMMA OtherThreads ==
  ASSUME AddressInv, UNCHANGED <<present, adr, cur, sup>>
  PROVE  AddressInv'
BY DEF AddressInv, AddressType, Compared, AddressIsOwn, Slaves, TempNode, Addresses

LEMMA AddressInit == Init => AddressInv
<1> SUFFICES ASSUME Init PROVE AddressInv
  OBVIOUS
<1>1. AddressType
  BY AddressesApart, SupervisorAssumption, SMT
     DEF Init, AddressType, SupervisorAssumption, Slaves, Addresses, TempNode
<1>2. Compared /\ AddressIsOwn
  BY AddressesApart DEF Init, Compared, AddressIsOwn
<1> QED BY <1>1, <1>2 DEF AddressInv

-----------------------------------------------------------------------------
(* The slaves come and go.                                                  *)

LEMMA DropOutStep ==
  ASSUME AddressInv, NEW n \in Slaves, DropOut(n)
  PROVE  AddressInv'
<1>1. UNCHANGED <<adr, cur, sup>> /\ present' = present \ {n}
  BY DEF DropOut
<1> QED BY <1>1 DEF AddressInv, AddressType, AddressIsOwn, Compared

LEMMA ComeBackStep ==
  ASSUME AddressInv, NEW n \in Slaves, NEW cold \in BOOLEAN, ComeBack(n, cold)
  PROVE  AddressInv'
<1>1. UNCHANGED <<cur, sup>> /\ present' = present \union {n}
  BY DEF ComeBack
<1>2. adr' = adr \/ adr' = [adr EXCEPT ![n] = 0]
  BY DEF ComeBack
<1>3. \A m \in Slaves : adr'[m] = adr[m] \/ adr'[m] = 0
  BY <1>2 DEF AddressInv, AddressType
<1>4. AddressType'
  BY <1>1, <1>2, AddressesApart DEF AddressInv, AddressType
<1>5. Compared' /\ AddressIsOwn'
  BY <1>1, <1>3, AddressesApart DEF AddressInv, Compared, AddressIsOwn
<1> QED BY <1>4, <1>5 DEF AddressInv

-----------------------------------------------------------------------------
(* ecx_recover_slave.                                                       *)

\* A datagram to the temporary address reaches those present there, or nobody.
LEMMA Readdressed ==
  ASSUME AddressInv, NEW a \in Addresses, NEW fate,
         Readdress(Hearing(At(TempNode), fate), a)
  PROVE  /\ adr' \in [Slaves -> Addresses]
         /\ \A n \in Slaves : adr'[n] = adr[n] \/ (adr[n] = TempNode /\ adr'[n] = a)
BY DEF AddressInv, AddressType, Readdress, Hearing, At

LEMMA FreeStep ==
  ASSUME AddressInv, NEW fate, FreeTempNode(fate), cur' \in Slaves, sup' # "give"
  PROVE  AddressInv'
<1>1. Readdress(Hearing(At(TempNode), fate), 0) /\ present' = present
  BY DEF FreeTempNode
<1>2. /\ adr' \in [Slaves -> Addresses]
      /\ \A n \in Slaves : adr'[n] = adr[n] \/ adr'[n] = 0
  BY <1>1, AddressesApart, Readdressed
<1>3. AddressType'
  BY <1>1, <1>2 DEF AddressInv, AddressType
<1>4. Compared' /\ AddressIsOwn'
  BY <1>2, AddressesApart DEF AddressInv, Compared, AddressIsOwn
<1> QED BY <1>3, <1>4 DEF AddressInv

LEMMA SetStep ==
  ASSUME AddressInv, NEW fate, SetTempNode(fate)
  PROVE  AddressInv'
<1> DEFINE nodes == Hearing(AtPosition(cur), fate)
<1>1. UNCHANGED <<present, cur>> /\ Readdress(nodes, TempNode)
  BY DEF SetTempNode
<1>2. sup' \in {"identify", "remove"}
  BY DEF SetTempNode
<1> HIDE DEF nodes
<1>3. /\ adr' \in [Slaves -> Addresses]
      /\ \A n \in Slaves : adr'[n] \in {TempNode, adr[n]}
  BY <1>1, AddressesApart DEF Readdress, AddressInv, AddressType
<1>4. AddressType'
  BY <1>1, <1>3 DEF AddressInv, AddressType
<1>5. Compared' /\ AddressIsOwn'
  BY <1>2, <1>3 DEF AddressInv, Compared, AddressIsOwn
<1> QED BY <1>4, <1>5 DEF AddressInv

\* Whoever has the temporary address is the one that was compared, although it
\* may drop out and come back before the address is given.
LEMMA IdentifyStep ==
  ASSUME AddressInv, Alone, Twins = {}, NEW fate, Identify(fate)
  PROVE  AddressInv'
<1>1. UNCHANGED <<present, adr, cur>>
  BY DEF Identify, slaves
<1>2. AddressType' /\ AddressIsOwn'
  BY <1>1 DEF AddressInv, AddressType, AddressIsOwn
<1>3. ASSUME sup' = "give", NEW n \in Slaves, adr[n] = TempNode PROVE n = cur
  <2>1. IsSame(At(TempNode), fate)
    BY <1>3 DEF Identify
  <2>2. PICK m \in At(TempNode) : TRUE
    BY <2>1 DEF IsSame, Confirmed
  <2>3. m \in Slaves /\ adr[m] = TempNode
    BY <2>2 DEF At, AddressInv, AddressType
  <2>4. \A k \in At(TempNode) : k = m
    BY <2>3 DEF At, Alone, AddressInv, AddressType
  <2>5. m <= m
    BY <2>3, SMT DEF Slaves
  <2>6. Kind(m) = Kind(cur)
    BY <2>1, <2>2, <2>4, <2>5 DEF IsSame
  <2> QED BY <1>3, <2>3, <2>6 DEF Alone, Kind
<1>4. Compared'
  BY <1>1, <1>3 DEF Compared
<1> QED BY <1>2, <1>4 DEF AddressInv

LEMMA GiveStep ==
  ASSUME AddressInv, NEW fate, GiveAddress(fate)
  PROVE  AddressInv'
<1>1. sup = "give" /\ UNCHANGED present
  BY DEF GiveAddress
<1>2. Readdress(Hearing(At(TempNode), fate), cur) /\ cur \in Addresses
  BY AddressesApart DEF GiveAddress, AddressInv, AddressType
<1>3. /\ adr' \in [Slaves -> Addresses]
      /\ \A n \in Slaves : adr'[n] = adr[n] \/ (adr[n] = TempNode /\ adr'[n] = cur)
  BY <1>2, Readdressed
<1>4. cur' \in Slaves /\ sup' \in {"visit", "sleep"}
  BY NextIsSlave DEF GiveAddress, AddressInv, AddressType
<1>5. \A n \in Slaves : adr'[n] \in {0, n, TempNode}
  BY <1>1, <1>3 DEF AddressInv, AddressIsOwn, Compared
<1>6. AddressType'
  BY <1>1, <1>3, <1>4 DEF AddressInv, AddressType
<1>7. Compared' /\ AddressIsOwn'
  BY <1>4, <1>5 DEF Compared, AddressIsOwn
<1> QED BY <1>6, <1>7 DEF AddressInv

-----------------------------------------------------------------------------
(* The other steps of the supervisor.                                       *)

\* They change no address, and go on to no step of ecx_recover_slave that does so.
LEMMA OtherActions ==
  ASSUME cur \in Slaves, NEW fate,
         \/ StartRound \/ Operational \/ StillLost
         \/ CheckInit \/ CheckPreOp \/ CheckSafeOp
         \/ Broadcast(fate) \/ ReadEach(fate) \/ WriteState(fate) \/ Recheck(fate)
         \/ RequestInit(fate) \/ ProgramSms(fate) \/ RequestPreOp(fate)
         \/ AskSafeOp(fate) \/ ProgramFmmus(fate) \/ ReadAddress(fate)
  PROVE  /\ UNCHANGED <<present, adr>> /\ cur' \in Slaves
         /\ sup \notin {"identify", "give", "remove"} /\ sup' # "give"
<1>1. 1 \in Slaves
  BY SupervisorAssumption, SMT DEF SupervisorAssumption, Slaves
<1>2. UNCHANGED <<present, adr>> /\ cur' \in Slaves /\ sup' # "give"
  <2>1. CASE StartRound
    BY <2>1, <1>1 DEF StartRound, slaves
  <2>2. CASE Operational
    BY <2>2, LeaveIsSlave DEF Operational, slaves
  <2>3. CASE StillLost
    BY <2>3 DEF StillLost, slaves
  <2>4. CASE CheckInit
    BY <2>4, LeaveIsSlave DEF CheckInit, Check, slaves
  <2>5. CASE CheckPreOp \/ CheckSafeOp
    BY <2>5, LeaveIsSlave DEF CheckPreOp, CheckSafeOp, Check, slaves
  <2>6. CASE Broadcast(fate) \/ ReadEach(fate)
    BY <2>6 DEF Broadcast, ReadEach, slaves
  <2>7. CASE WriteState(fate) \/ Recheck(fate)
    BY <2>7, LeaveIsSlave DEF WriteState, Recheck, slaves
  <2>8. CASE RequestInit(fate)
    BY <2>8, LeaveIsSlave DEF RequestInit
  <2>9. CASE ProgramSms(fate) \/ RequestPreOp(fate) \/ AskSafeOp(fate)
    BY <2>9 DEF ProgramSms, RequestPreOp, AskSafeOp
  <2>10. CASE ProgramFmmus(fate)
    BY <2>10, LeaveIsSlave DEF ProgramFmmus
  <2>11. CASE ReadAddress(fate)
    BY <2>11, NextIsSlave DEF ReadAddress, slaves
  <2> QED BY <2>1, <2>2, <2>3, <2>4, <2>5, <2>6, <2>7, <2>8, <2>9, <2>10, <2>11
<1>3. sup \notin {"identify", "give", "remove"}
  BY DEF StartRound, Operational, StillLost, CheckInit, CheckPreOp, CheckSafeOp, Broadcast,
         ReadEach, WriteState, Recheck, RequestInit, ProgramSms, RequestPreOp, AskSafeOp,
         ProgramFmmus, ReadAddress
<1> QED BY <1>2, <1>3

LEMMA ReconfigStep ==
  ASSUME AddressInv, NEW fate,
         \/ StartRound \/ Operational \/ StillLost
         \/ CheckInit \/ CheckPreOp \/ CheckSafeOp
         \/ Broadcast(fate) \/ ReadEach(fate) \/ WriteState(fate) \/ Recheck(fate)
         \/ RequestInit(fate) \/ ProgramSms(fate) \/ RequestPreOp(fate)
         \/ AskSafeOp(fate) \/ ProgramFmmus(fate) \/ ReadAddress(fate)
  PROVE  AddressInv'
BY OtherActions, OtherSteps DEF AddressInv, AddressType

LEMMA RecoverStep ==
  ASSUME AddressInv, Alone, Twins = {}, NEW fate,
         \/ ClearTempNode(fate) \/ SetTempNode(fate) \/ Identify(fate)
         \/ RemoveAddress(fate) \/ GiveAddress(fate)
  PROVE  AddressInv'
<1>1. CASE ClearTempNode(fate)
  BY <1>1, FreeStep DEF ClearTempNode, AddressInv, AddressType
<1>2. CASE RemoveAddress(fate)
  BY <1>2, FreeStep, NextIsSlave DEF RemoveAddress, AddressInv, AddressType
<1>3. CASE SetTempNode(fate) \/ Identify(fate) \/ GiveAddress(fate)
  BY <1>3, SetStep, IdentifyStep, GiveStep
<1> QED BY <1>1, <1>2, <1>3

LEMMA AddressStep ==
  ASSUME AddressInv, Alone, Twins = {}, [Next]_vars
  PROVE  AddressInv'
<1>1. CASE SupervisorStep
  BY <1>1, ReconfigStep, RecoverStep DEF SupervisorStep
<1>2. CASE CyclicStep \/ MainStep
  BY <1>2, OtherThreads
     DEF CyclicStep, SendNext, Receive, MainStep, StopCycle, StopCheck, ChooseSafeOp,
         RequestSafeOp, slaves
<1>3. ASSUME NEW n \in Slaves, DropOut(n) PROVE AddressInv'
  BY <1>3, DropOutStep
<1>4. ASSUME NEW n \in Slaves, Fail(n) \/ React(n) PROVE AddressInv'
  BY <1>4, OtherThreads DEF Fail, React
<1>5. ASSUME NEW n \in Slaves, NEW cold \in BOOLEAN, ComeBack(n, cold) PROVE AddressInv'
  BY <1>5, ComeBackStep
<1>6. CASE UNCHANGED vars
  BY <1>6, OtherThreads DEF vars, slaves
<1> QED BY <1>1, <1>2, <1>3, <1>4, <1>5, <1>6 DEF Next, SlaveFaults, Reacts

\* However many slaves there are, whichever of them come and go at any time, in
\* whatever order the threads run and whatever datagrams are lost, those of
\* ecx_recover_slave included: it never gives the station address of a slave to
\* another, as long as no two slaves have the temporary address at one time.
THEOREM AddressIsOwnAlways ==
  ASSUME Twins = {}
  PROVE  Spec /\ []Alone => []AddressIsOwn
<1>1. AddressInv /\ Alone /\ [Next]_vars => AddressInv'
  BY AddressStep
<1>2. AddressInv => AddressIsOwn
  BY DEF AddressInv
<1> QED BY <1>1, <1>2, AddressInit, PTL DEF Spec

-----------------------------------------------------------------------------
(* Where the temporary address is one slave's: it is on the ring, and       *)
(* ecx_recover_slave is between setting that address and removing it.       *)

Recovering == sup \in {"identify", "give", "remove"}
Held == \A n \in Slaves : adr[n] = TempNode => n \in present /\ Recovering
HeldInv == AddressType /\ Held /\ Alone

\* Only "ok" carries a datagram that cannot be lost.
LEMMA Arrives ==
  ASSUME "recover" \notin Exposed, NEW fate, Carried("recover", fate)
  PROVE  fate = "ok"
BY DEF Carried

\* One slave at most is at a position.
LEMMA OneAtPosition ==
  ASSUME present \subseteq Slaves, NEW p, NEW m \in AtPosition(p), NEW n \in AtPosition(p)
  PROVE  m = n
<1> DEFINE UpTo(k) == {j \in present : j <= k}
<1>1. m \in present /\ n \in present /\ Cardinality(UpTo(m)) = Cardinality(UpTo(n))
  BY DEF AtPosition
<1>2. m \in Nat /\ n \in Nat
  BY <1>1, SupervisorAssumption, SMT DEF Slaves, SupervisorAssumption
<1>3. ASSUME NEW j \in present, NEW k \in present, j < k,
             Cardinality(UpTo(j)) = Cardinality(UpTo(k))
      PROVE  FALSE
  <2>1. IsFiniteSet(UpTo(k))
    <3>1. IsFiniteSet(1 .. N)
      BY SupervisorAssumption, FS_Interval, SMT DEF SupervisorAssumption
    <3>2. UpTo(k) \in SUBSET (1 .. N)
      BY DEF Slaves
    <3> QED BY <3>1, <3>2, FS_Subset, Zenon
  <2>2. UpTo(j) \in SUBSET UpTo(k)
    <3>1. present \subseteq Int
      BY SupervisorAssumption, SMT DEF Slaves, SupervisorAssumption
    <3>2. \A i \in present : i <= j => i <= k
      BY <1>3, <3>1, SMT
    <3> QED BY <3>2, Zenon
  <2>3. k \in UpTo(k) /\ k \notin UpTo(j)
    BY <1>3, SupervisorAssumption, SMT DEF Slaves, SupervisorAssumption
  <2> HIDE DEF UpTo
  <2> QED BY <1>3, <2>1, <2>2, <2>3, FS_Subset, Zenon
<1> HIDE DEF UpTo
<1> QED BY <1>1, <1>2, <1>3, SMT

LEMMA HeldInit == Init => HeldInv
BY AddressInit, AddressesApart DEF Init, AddressInv, HeldInv, Held, Alone

\* What gives nobody that address and leaves those that have it where they are.
LEMMA HeldKept ==
  ASSUME HeldInv, AddressType',
         \A n \in Slaves : adr'[n] = TempNode =>
           adr[n] = TempNode /\ n \in present' /\ (Recovering => Recovering')
  PROVE  HeldInv'
BY DEF HeldInv, Held, Alone

LEMMA HeldSlaves ==
  ASSUME HeldInv, ~Untimely, NEW n \in Slaves, NEW cold \in BOOLEAN,
         React(n) \/ Fail(n) \/ DropOut(n) \/ ComeBack(n, cold)
  PROVE  HeldInv'
<1>1. CASE React(n) \/ Fail(n)
  BY <1>1, HeldKept DEF React, Fail, HeldInv, AddressType, Held, Recovering
<1>2. CASE DropOut(n)
  <2>1. adr[n] # TempNode
    BY <1>2 DEF DropOut, Handling, HeldInv, Held, Recovering
  <2>2. UNCHANGED <<adr, cur, sup>> /\ present' = present \ {n}
    BY <1>2 DEF DropOut
  <2> QED BY <2>1, <2>2, HeldKept DEF HeldInv, AddressType, Held, Recovering
<1>3. CASE ComeBack(n, cold)
  <2>1. UNCHANGED <<cur, sup>> /\ present' = present \union {n}
    BY <1>3 DEF ComeBack
  <2>2. adr' = adr \/ adr' = [adr EXCEPT ![n] = 0]
    BY <1>3 DEF ComeBack
  <2>3. AddressType'
    BY <2>1, <2>2, AddressesApart DEF HeldInv, AddressType
  <2>4. \A m \in Slaves : adr'[m] = adr[m] \/ adr'[m] = 0
    BY <2>2 DEF HeldInv, AddressType
  <2> QED BY <2>1, <2>3, <2>4, AddressesApart, HeldKept DEF HeldInv, Held, Recovering
<1> QED BY <1>1, <1>2, <1>3

LEMMA HeldRecover ==
  ASSUME HeldInv, "recover" \notin Exposed, NEW fate,
         \/ ClearTempNode(fate) \/ SetTempNode(fate) \/ Identify(fate)
         \/ RemoveAddress(fate) \/ GiveAddress(fate)
  PROVE  HeldInv'
<1> USE DEF HeldInv, AddressType
<1>1. CASE ClearTempNode(fate) \/ RemoveAddress(fate) \/ GiveAddress(fate)
  <2>1. PICK a \in Addresses \ {TempNode} : Readdress(Hearing(At(TempNode), fate), a)
    BY <1>1, AddressesApart DEF ClearTempNode, RemoveAddress, GiveAddress, FreeTempNode
  <2>2. fate = "ok" /\ present' = present
    BY <1>1, Arrives DEF ClearTempNode, RemoveAddress, GiveAddress, FreeTempNode
  <2>3. cur' \in Slaves
    BY <1>1, NextIsSlave DEF ClearTempNode, RemoveAddress, GiveAddress
  <2>4. /\ adr' \in [Slaves -> Addresses]
        /\ \A n \in Slaves : adr'[n] # TempNode
    BY <2>1, <2>2 DEF Readdress, Hearing, At, Held
  <2> QED BY <2>2, <2>3, <2>4, HeldKept
<1>2. CASE SetTempNode(fate)
  <2> DEFINE nodes == AtPosition(cur)
  <2>1. fate = "ok" /\ sup = "setTemp" /\ UNCHANGED <<present, cur>>
    BY <1>2, Arrives DEF SetTempNode
  <2>2. Readdress(nodes, TempNode) /\ Recovering'
    BY <1>2, <2>1 DEF SetTempNode, Hearing, Recovering
  <2>3. nodes \subseteq present /\ \A m, n \in nodes : m = n
    BY OneAtPosition DEF AtPosition
  <2>4. \A n \in Slaves : adr[n] # TempNode
    BY <2>1 DEF Held, Recovering
  <2> HIDE DEF nodes
  <2>5. /\ adr' \in [Slaves -> Addresses]
        /\ \A n \in Slaves : adr'[n] = IF n \in nodes THEN TempNode ELSE adr[n]
    BY <2>2, AddressesApart DEF Readdress
  <2> QED BY <2>1, <2>2, <2>3, <2>4, <2>5 DEF Held, Alone
<1>3. CASE Identify(fate)
  <2>1. UNCHANGED <<present, adr, cur>> /\ Recovering'
    BY <1>3 DEF Identify, slaves, Recovering
  <2> QED BY <2>1, HeldKept DEF Held
<1> QED BY <1>1, <1>2, <1>3

LEMMA HeldStep ==
  ASSUME HeldInv, ~Untimely, "recover" \notin Exposed, [Next]_vars
  PROVE  HeldInv'
<1>1. CASE SupervisorStep
  <2>1. ASSUME NEW fate,
               \/ StartRound \/ Operational \/ StillLost
               \/ CheckInit \/ CheckPreOp \/ CheckSafeOp
               \/ Broadcast(fate) \/ ReadEach(fate) \/ WriteState(fate) \/ Recheck(fate)
               \/ RequestInit(fate) \/ ProgramSms(fate) \/ RequestPreOp(fate)
               \/ AskSafeOp(fate) \/ ProgramFmmus(fate) \/ ReadAddress(fate)
        PROVE  HeldInv'
    <3>1. UNCHANGED <<present, adr>> /\ ~Recovering /\ cur' \in Slaves
      BY <2>1, OtherActions DEF HeldInv, AddressType, Recovering
    <3> QED BY <3>1, HeldKept DEF HeldInv, AddressType, Held
  <2> QED BY <1>1, <2>1, HeldRecover DEF SupervisorStep
<1>2. CASE CyclicStep \/ MainStep
  <2>1. UNCHANGED <<present, adr, cur, sup>>
    BY <1>2 DEF CyclicStep, SendNext, Receive, MainStep, StopCycle, StopCheck,
                ChooseSafeOp, RequestSafeOp, slaves
  <2> QED BY <2>1, HeldKept DEF HeldInv, AddressType, Held, Recovering
<1>3. CASE SlaveFaults \/ Reacts
  BY <1>3, HeldSlaves DEF SlaveFaults, Reacts
<1>4. CASE UNCHANGED vars
  <2>1. UNCHANGED <<present, adr, cur, sup>>
    BY <1>4 DEF vars, slaves
  <2> QED BY <2>1, HeldKept DEF HeldInv, AddressType, Held, Recovering
<1> QED BY <1>1, <1>2, <1>3, <1>4 DEF Next

\* That no two slaves have the temporary address at one time, which the two other
\* theorems ask for: ecx_recover_slave sees to it, slaves of one type or not, if
\* no slave drops out while it is handled and none of its datagrams is lost.
THEOREM AloneAtTempNode ==
  ASSUME ~Untimely, "recover" \notin Exposed
  PROVE  Spec => []Alone
<1>1. HeldInv /\ [Next]_vars => HeldInv'
  BY HeldStep
<1>2. HeldInv => Alone
  BY DEF HeldInv
<1> QED BY <1>1, <1>2, HeldInit, PTL DEF Spec

-----------------------------------------------------------------------------
(* Operational slaves are left alone.  The supervisor acts on states it read *)
(* at the beginning of its round.  What it does to a slave that is           *)
(* operational by then is harmless, as a slave it read as anything but       *)
(* operational, SAFE_OP or silent cannot become operational before its visit *)
(* is over: nobody else asks for that (Settled), neither in between (Asked,  *)
(* Low) nor at the end of the main thread, which sends ec_slave[0].state.    *)

WithError(st) == st \union {ERROR}
Modest == States \union {NONE}
Shown == States \union {WithError(INIT), WithError(PRE_OP), WithError(BOOT),
                        WithError(SAFE_OP)}
Requested == Modest \union {WithError(SAFE_OP)}

StateType ==
  /\ al \in [Slaves -> Shown] /\ req \in [Slaves -> Requested]
  /\ sm \in [Slaves -> BOOLEAN]
  /\ state \in [0 .. N -> SUBSET Bits] /\ state[0] \in Modest
  /\ \A n \in Slaves : al[n] \in {SAFE_OP, WithError(SAFE_OP), OPERATIONAL} => sm[n]

\* Neither operational nor about to be.
Low(n) == al[n] # OPERATIONAL /\ (al[n] = SAFE_OP => req[n] # OPERATIONAL)

Between == {"sms", "toPreOp", "checkPreOp", "toSafeOp"}
Stages == Between \union {"checkInit"}

\* The round has yet to come to slave n.
ToVisit(n) ==
  sup \notin {"sleep", "broadcast", "each"} /\ (n > cur \/ (n = cur /\ sup = "visit"))

Harmless(st) == st \in {NONE, SAFE_OP, OPERATIONAL}
Settled == \A n \in Slaves :
  ToVisit(n) /\ ~Harmless(state[n]) => Low(n) /\ state[0] # OPERATIONAL
Asked == sup \in Stages /\ main # "end" => req[cur] \in {NONE, INIT, PRE_OP}
Rising == sup \in Between => Low(cur) /\ (main # "end" => al[cur] # SAFE_OP)
LeftInv == StateType /\ Settled /\ Asked /\ Rising

LEMMA StatesApart ==
  /\ INIT # SAFE_OP /\ INIT # OPERATIONAL /\ PRE_OP # SAFE_OP /\ PRE_OP # OPERATIONAL
  /\ BOOT # SAFE_OP /\ BOOT # OPERATIONAL /\ SAFE_OP # OPERATIONAL
  /\ NONE # INIT /\ NONE # PRE_OP /\ NONE # SAFE_OP /\ NONE # OPERATIONAL /\ NONE # BOOT
  /\ INIT # PRE_OP /\ INIT # BOOT /\ PRE_OP # BOOT
  /\ \A st \in Modest : ERROR \notin st /\ st \ {ERROR} = st /\ st \in SUBSET Bits
  /\ \A st \in Modest : WithError(st) \ {ERROR} = st /\ ERROR \in WithError(st)
                        /\ WithError(st) \in SUBSET Bits
<1>1. /\ 1 \in INIT /\ 2 \notin INIT /\ 4 \notin INIT /\ 8 \notin INIT
      /\ 1 \notin PRE_OP /\ 2 \in PRE_OP /\ 4 \notin PRE_OP /\ 8 \notin PRE_OP
      /\ 1 \in BOOT /\ 2 \in BOOT /\ 4 \notin BOOT /\ 8 \notin BOOT
      /\ 1 \notin SAFE_OP /\ 4 \in SAFE_OP /\ 8 \notin SAFE_OP
      /\ 1 \notin OPERATIONAL /\ 4 \notin OPERATIONAL /\ 8 \in OPERATIONAL
      /\ 1 \notin NONE /\ 2 \notin NONE /\ 4 \notin NONE /\ 8 \notin NONE
  BY DEF INIT, PRE_OP, BOOT, SAFE_OP, OPERATIONAL, NONE
<1>2. \A st \in Modest : ERROR \notin st /\ st \in SUBSET Bits
  BY DEF Modest, States, INIT, PRE_OP, BOOT, SAFE_OP, OPERATIONAL, NONE, ERROR, Bits
<1>3. ERROR \in Bits
  BY DEF Bits
<1>4. \A st \in Modest : st \ {ERROR} = st /\ WithError(st) \ {ERROR} = st
  BY <1>2, Zenon DEF WithError
<1> QED BY <1>1, <1>2, <1>3, <1>4 DEF WithError

\* Only the slave itself stands at its address.
LEMMA OwnOnly ==
  ASSUME AddressInv, NEW n \in Slaves
  PROVE  At(n) \subseteq {n}
BY AddressesApart DEF AddressInv, AddressType, AddressIsOwn, At

\* What a slave makes of a request.
LEMMA Reaction ==
  ASSUME StateType, NEW n \in Slaves, React(n)
  PROVE  /\ StateType'
         /\ req' = [req EXCEPT ![n] = NONE]
         /\ \A m \in Slaves : m # n => al'[m] = al[m]
         /\ al'[n] = OPERATIONAL =>
              al[n] = OPERATIONAL \/ (al[n] = SAFE_OP /\ req[n] = OPERATIONAL)
         /\ al'[n] = SAFE_OP =>
              al[n] = SAFE_OP \/ req[n] \in {SAFE_OP, WithError(SAFE_OP)}
<1> DEFINE target == req[n] \ {ERROR}
           now == al[n] \ {ERROR}
           heard == ERROR \in al[n] => ERROR \in req[n] \/ target = INIT
           legal == Rank(target) <= Rank(now) + 1 /\ (target = SAFE_OP => sm[n])
           next == IF ~heard THEN al[n] ELSE IF legal THEN target ELSE WithError(now)
<1>1. /\ req[n] # NONE /\ req' = [req EXCEPT ![n] = NONE] /\ UNCHANGED <<sm, state>>
      /\ al' = [al EXCEPT ![n] = next]
  BY DEF React, WithError
<1>2. /\ al[n] \in Shown /\ req[n] \in Requested /\ sm[n] \in BOOLEAN
      /\ al[n] \in {SAFE_OP, WithError(SAFE_OP), OPERATIONAL} => sm[n]
  BY DEF StateType
<1>3. target \in States /\ (req[n] = target \/ (target = SAFE_OP /\ req[n] = WithError(SAFE_OP)))
  BY <1>1, <1>2, StatesApart DEF Requested, Modest, States
<1>4. now \in States /\ (al[n] = now \/ (al[n] = WithError(now) /\ now # OPERATIONAL))
  BY <1>2, StatesApart DEF Shown, Modest, States
<1>5. ERROR \notin target /\ ERROR \notin now
  OBVIOUS
<1> HIDE DEF target, now
<1>6. now \in {SAFE_OP, OPERATIONAL} => sm[n]
  BY <1>2, <1>4
<1>7. CASE ~heard
  <2>1. next = al[n]
    BY <1>7
  <2> QED BY <2>1, <1>1, <1>2, StatesApart DEF StateType, Requested, Modest
<1>8. CASE heard /\ legal
  <2>1. next = target
    BY <1>8
  <2>2. target = OPERATIONAL => now \in {SAFE_OP, OPERATIONAL}
    BY <1>8, <1>4, StatesApart DEF Rank, States
  <2>3. target = OPERATIONAL => ERROR \notin req[n] /\ target # INIT
    BY <1>3, <1>5, StatesApart
  <2>4. target = OPERATIONAL => al[n] = now
    BY <1>8, <1>4, <2>3 DEF WithError
  <2>5. target \in {SAFE_OP, OPERATIONAL} => sm[n]
    BY <1>8, <1>6, <2>2
  <2>6. target \in Shown /\ target # WithError(SAFE_OP)
    BY <1>3, <1>5 DEF Shown, Modest, WithError
  <2>7. StateType'
    BY <1>1, <2>1, <2>5, <2>6 DEF StateType, Requested, Modest
  <2> QED BY <1>1, <1>2, <1>3, <2>1, <2>2, <2>3, <2>4, <2>7 DEF StateType
<1>9. CASE heard /\ ~legal
  <2>1. next = WithError(now)
    BY <1>9
  <2>2. now # OPERATIONAL
    BY <1>9, <1>3, <1>6, StatesApart DEF Rank, States
  <2>3. WithError(now) \in Shown /\ ERROR \in WithError(now)
    BY <1>4, <2>2 DEF Shown, States, WithError
  <2>4. WithError(now) = WithError(SAFE_OP) => now = SAFE_OP
    <3>1. now \in Modest /\ SAFE_OP \in Modest
      BY <1>4 DEF Modest, States
    <3> QED BY <3>1, StatesApart
  <2>5. SAFE_OP # WithError(now) /\ OPERATIONAL # WithError(now)
    BY <2>3, StatesApart DEF Modest, States
  <2>6. StateType'
    BY <1>1, <1>6, <2>1, <2>3, <2>4, <2>5 DEF StateType, Requested, Modest
  <2> QED BY <1>1, <1>2, <2>1, <2>5, <2>6 DEF StateType
<1> QED BY <1>7, <1>8, <1>9

-----------------------------------------------------------------------------
(* What a step does not disturb.                                            *)

\* A visit that ends goes on to the slaves behind.
LEMMA LeaveGoesOn ==
  ASSUME cur \in Slaves, NEW st, NEW lost, Leave(st, lost) \/ NextSlave
  PROVE  sup' \notin Stages /\ \A n \in Slaves : ToVisit(n)' => n > cur /\ n # cur
<1>1. NextSlave \/ (sup' = "recover" /\ cur' = cur)
  BY DEF Leave
<1>2. CASE NextSlave
  BY <1>2, SupervisorAssumption, SMT
     DEF NextSlave, SupervisorAssumption, Slaves, ToVisit, Stages, Between
<1>3. CASE sup' = "recover" /\ cur' = cur
  BY <1>3, SMT DEF ToVisit, Stages, Between, Slaves
<1> QED BY <1>1, <1>2, <1>3

LEMMA SettledKept ==
  ASSUME Settled, state'[0] = state[0],
         \A n \in Slaves : ToVisit(n)' =>
           ToVisit(n) /\ state'[n] = state[n] /\ (Low(n) => Low(n)')
  PROVE  Settled'
BY DEF Settled, Harmless

\* The supervisor ends a visit.
LEMMA VisitEnds ==
  ASSUME LeftInv, StateType', cur \in Slaves, sup \notin {"sleep", "broadcast", "each"},
         al' = al, state'[0] = state[0],
         \A n \in Slaves \ {cur} : state'[n] = state[n] /\ req'[n] = req[n],
         NEW st, NEW lost, Leave(st, lost) \/ NextSlave
  PROVE  LeftInv'
<1>1. sup' \notin Stages /\ \A n \in Slaves : ToVisit(n)' => n > cur /\ n # cur
  BY LeaveGoesOn
<1>2. \A n \in Slaves : ToVisit(n)' =>
        ToVisit(n) /\ state'[n] = state[n] /\ (Low(n) => Low(n)')
  BY <1>1 DEF ToVisit, Low
<1>3. Settled'
  BY <1>2, SettledKept DEF LeftInv
<1> QED BY <1>1, <1>3 DEF LeftInv, Asked, Rising, Stages

\* The supervisor goes on with the slave it visits.
LEMMA VisitGoesOn ==
  ASSUME LeftInv, StateType', cur \in Slaves, cur' = cur,
         sup \notin {"sleep", "broadcast", "each"}, sup' # "visit",
         al' = al, state'[0] = state[0],
         \A n \in Slaves \ {cur} : state'[n] = state[n] /\ req'[n] = req[n]
  PROVE  Settled'
<1>1. \A n \in Slaves : ToVisit(n)' => n > cur /\ n # cur
  BY SMT DEF ToVisit, Slaves
<1>2. \A n \in Slaves : ToVisit(n)' =>
        ToVisit(n) /\ state'[n] = state[n] /\ (Low(n) => Low(n)')
  BY <1>1 DEF ToVisit, Low
<1> QED BY <1>2, SettledKept DEF LeftInv

\* A request that reaches at most the slave that is visited.
LEMMA ControlOne ==
  ASSUME AddressInv, StateType, NEW fate, NEW st \in Requested,
         Control(Hearing(At(cur), fate), st)
  PROVE  /\ req' \in [Slaves -> Requested]
         /\ \A n \in Slaves \ {cur} : req'[n] = req[n]
         /\ req'[cur] \in {req[cur], st}
         /\ Confirmed(At(cur), fate) => req'[cur] = st
<1>1. cur \in Slaves /\ At(cur) \subseteq {cur}
  BY OwnOnly DEF AddressInv, AddressType
<1>2. req' = [n \in Slaves |-> IF n \in Hearing(At(cur), fate) THEN st ELSE req[n]]
  BY DEF Control
<1>3. Hearing(At(cur), fate) \subseteq {cur}
  BY <1>1 DEF Hearing
<1>4. Confirmed(At(cur), fate) => cur \in Hearing(At(cur), fate)
  BY <1>1 DEF Confirmed, Hearing
<1> QED BY <1>1, <1>2, <1>3, <1>4 DEF StateType

\* What the slaves show are AL states.
LEMMA ShownIsState ==
  ASSUME NEW st \in Shown PROVE st \in SUBSET Bits /\ st # NONE
<1>1. st \in Modest \/ \E low \in Modest : st = WithError(low)
  BY DEF Shown, Modest, States
<1>2. st # NONE
  BY <1>1, StatesApart DEF Shown, States, Modest
<1> QED BY <1>1, <1>2, StatesApart

LEMMA StatusIsState ==
  ASSUME AddressInv, StateType, NEW n \in Slaves
  PROVE  /\ Status(At(n)) \in SUBSET Bits
         /\ Status(At(n)) = NONE \/ (n \in At(n) /\ Status(At(n)) = al[n])
<1>1. At(n) = {} \/ At(n) = {n}
  BY OwnOnly
<1>2. al[n] \in SUBSET Bits
  BY ShownIsState DEF StateType
<1>3. CASE At(n) = {}
  BY <1>3 DEF Status, NONE
<1>4. CASE At(n) = {n}
  BY <1>2, <1>4, Zenon DEF Status
<1> QED BY <1>1, <1>3, <1>4

-----------------------------------------------------------------------------
(* The round begins: the states are read.                                   *)

LEMMA BroadcastLeft ==
  ASSUME AddressInv, LeftInv, NEW fate, Broadcast(fate)
  PROVE  LeftInv'
<1> DEFINE rval == IF fate = "ok" THEN Status(present) ELSE NONE
           bitwisestate == rval \ {ERROR}
           same == bitwisestate \in States
           all == fate = "ok" /\ present = Slaves
<1>1. /\ UNCHANGED <<al, req, sm, main, cur>>
      /\ \/ /\ ERROR \notin rval /\ same /\ all
            /\ state' = [s \in 0 .. N |-> bitwisestate] /\ sup' = "visit"
         \/ /\ state' = [state EXCEPT ![0] = IF same THEN bitwisestate ELSE @]
            /\ sup' = "each"
  BY DEF Broadcast, slaves, threads
<1>2. 0 \in 0 .. N /\ Slaves \subseteq 0 .. N
  BY SupervisorAssumption, SMT DEF SupervisorAssumption, Slaves
<1>3. same => bitwisestate \in Modest /\ bitwisestate \in SUBSET Bits
  BY StatesApart DEF Modest
<1>4. ASSUME ERROR \notin rval, same, all, NEW n \in Slaves, ~Harmless(bitwisestate)
      PROVE  Low(n)
  <2>1. al[n] \subseteq bitwisestate
    <3>1. al[n] \subseteq Status(present) /\ rval = Status(present)
      BY <1>4 DEF Status
    <3> QED BY <3>1, <1>4
  <2>2. 4 \notin bitwisestate /\ 8 \notin bitwisestate
    BY <1>4 DEF Harmless, States, INIT, PRE_OP, BOOT, SAFE_OP, OPERATIONAL
  <2> QED BY <2>1, <2>2 DEF Low, SAFE_OP, OPERATIONAL
<1> HIDE DEF bitwisestate
<1>5. state' \in [0 .. N -> SUBSET Bits] /\ state'[0] \in Modest
  BY <1>1, <1>2, <1>3 DEF LeftInv, StateType
<1>6. StateType'
  BY <1>1, <1>5 DEF LeftInv, StateType
<1>7. Settled'
  BY <1>1, <1>2, <1>4 DEF Settled, ToVisit, Low, Harmless
<1> QED BY <1>1, <1>6, <1>7 DEF LeftInv, Asked, Rising, Stages, Between

\* The states in the order of their numbers.
LEMMA Values ==
  /\ \A st \in SUBSET Bits : Value(st) \in Nat
  /\ \A st \in Shown \ {SAFE_OP, OPERATIONAL} : Value(st) < Value(OPERATIONAL)
  /\ Value(OPERATIONAL) = Value(WithError(OPERATIONAL))
<1>1. \A st \in SUBSET Bits : Value(st) \in Nat
  BY SMT DEF Value, Bit
<1>2. /\ Value(INIT) = 1 /\ Value(WithError(INIT)) = 1
      /\ Value(PRE_OP) = 2 /\ Value(WithError(PRE_OP)) = 2
      /\ Value(BOOT) = 3 /\ Value(WithError(BOOT)) = 3
      /\ Value(WithError(SAFE_OP)) = 4
      /\ Value(OPERATIONAL) = 8 /\ Value(WithError(OPERATIONAL)) = 8
  BY SMT DEF Value, Bit, WithError, INIT, PRE_OP, BOOT, SAFE_OP, OPERATIONAL, ERROR
<1>3. \A st \in Shown \ {SAFE_OP, OPERATIONAL} : Value(st) < Value(OPERATIONAL)
  BY <1>2, SMT DEF Shown, States
<1> QED BY <1>1, <1>2, <1>3

\* One of the slaves shows the lowest state.
LEMMA LowestExists ==
  ASSUME NEW found \in [Slaves -> SUBSET Bits]
  PROVE  \E s \in Slaves : \A t \in Slaves : Value(found[s]) <= Value(found[t])
<1> DEFINE value(s) == Value(found[s])
           shown == {value(s) : s \in Slaves}
<1>1. shown \subseteq Nat
  BY Values
<1>2. value(1) \in shown
  BY SupervisorAssumption, SMT DEF SupervisorAssumption, Slaves
<1> HIDE DEF shown
<1>3. PICK low \in shown : \A v \in shown : ~(<<v, low>> \in OpToRel(<, Nat))
  BY <1>1, <1>2, WFMin, NatLessThanWellFounded
<1>4. \A v \in shown : ~(v < low)
  BY <1>1, <1>3 DEF OpToRel
<1>5. \A v \in shown : low <= v
  BY <1>1, <1>4, SMT
<1> QED BY <1>3, <1>5 DEF shown

LEMMA ReadEachLeft ==
  ASSUME AddressInv, LeftInv, NEW fate, ReadEach(fate)
  PROVE  LeftInv'
<1> DEFINE found == [s \in Slaves |-> IF fate = "ok" THEN Status(At(s)) ELSE NONE]
           lowest == CHOOSE s \in Slaves : \A t \in Slaves :
                       Value(found[s]) <= Value(found[t])
<1>1. /\ UNCHANGED <<al, req, sm, main, cur>> /\ sup' = "visit"
      /\ state' = [s \in 0 .. N |-> IF s = 0 THEN found[lowest] \ {ERROR} ELSE found[s]]
  BY DEF ReadEach, slaves, threads
<1>2. /\ 0 \in 0 .. N /\ Slaves \subseteq 0 .. N /\ 0 \notin Slaves
  BY SupervisorAssumption, SMT DEF SupervisorAssumption, Slaves
<1>3. \A n \in Slaves : found[n] \in SUBSET Bits /\ found[n] \in {NONE, al[n]}
  BY StatusIsState, StatesApart DEF LeftInv, Modest
<1>4. found \in [Slaves -> SUBSET Bits]
  BY <1>3
<1> HIDE DEF found
<1>5. lowest \in Slaves /\ \A t \in Slaves : Value(found[lowest]) <= Value(found[t])
  BY <1>4, LowestExists
<1> HIDE DEF lowest
<1>6. state'[0] = found[lowest] \ {ERROR} /\ \A n \in Slaves : state'[n] = found[n]
  BY <1>1, <1>2
<1>7. found[lowest] \ {ERROR} \in Modest
  <2>1. found[lowest] = NONE \/ found[lowest] \in Shown
    BY <1>3, <1>5 DEF LeftInv, StateType
  <2>2. \A st \in Shown : \E low \in Modest : st \in {low, WithError(low)}
    BY DEF Shown, Modest, States
  <2>3. NONE \in Modest
    BY DEF Modest
  <2>4. PICK low \in Modest : found[lowest] \in {low, WithError(low)}
    BY <2>1, <2>2, <2>3
  <2> QED BY <2>4, StatesApart
<1>8. StateType'
  <2>1. state' \in [0 .. N -> SUBSET Bits]
    BY <1>1, <1>3, <1>5, SMT DEF Slaves
  <2> QED BY <1>1, <1>6, <1>7, <2>1 DEF LeftInv, StateType
<1>9. ASSUME NEW n \in Slaves, ~Harmless(found[n])
      PROVE  Low(n) /\ state'[0] # OPERATIONAL
  <2>1. found[n] = al[n] /\ al[n] \in Shown \ {SAFE_OP, OPERATIONAL}
    BY <1>3, <1>9 DEF Harmless, LeftInv, StateType
  <2>2. Value(found[lowest]) < Value(OPERATIONAL)
    <3>1. Value(found[n]) < Value(OPERATIONAL) /\ Value(found[lowest]) <= Value(found[n])
      BY <2>1, <1>5, Values
    <3>2. /\ Value(found[n]) \in Nat /\ Value(found[lowest]) \in Nat
          /\ Value(OPERATIONAL) \in Nat
      BY <1>3, <1>5, Values, StatesApart DEF Modest, States
    <3> QED BY <3>1, <3>2, SMT
  <2>3. found[lowest] # OPERATIONAL /\ found[lowest] # WithError(OPERATIONAL)
    <3>1. Value(OPERATIONAL) \in Nat
      BY Values, StatesApart DEF Modest, States
    <3>2. ~(Value(OPERATIONAL) < Value(OPERATIONAL))
      BY <3>1, SMT
    <3> QED BY <3>2, <2>2, Values
  <2>4. found[lowest] \ {ERROR} = OPERATIONAL =>
          found[lowest] \in {OPERATIONAL, WithError(OPERATIONAL)}
    BY Zenon DEF WithError
  <2> QED BY <2>1, <2>3, <2>4, <1>6 DEF Low
<1>10. Settled'
  BY <1>1, <1>6, <1>9 DEF Settled, Low
<1> QED BY <1>1, <1>8, <1>10 DEF LeftInv, Asked, Rising, Stages, Between

-----------------------------------------------------------------------------
(* The visits.                                                              *)

\* What the supervisor stores for a slave it looks at again.
LEMMA StateStored ==
  ASSUME StateType, cur \in Slaves, UNCHANGED <<al, sm>>, req' \in [Slaves -> Requested],
         NEW st \in SUBSET Bits, state' = [state EXCEPT ![cur] = st]
  PROVE  /\ StateType' /\ state'[0] = state[0]
         /\ \A n \in Slaves \ {cur} : state'[n] = state[n]
<1>1. 0 \in 0 .. N /\ Slaves \subseteq 0 .. N /\ 0 \notin Slaves
  BY SupervisorAssumption, SMT DEF SupervisorAssumption, Slaves
<1> QED BY <1>1 DEF StateType

LEMMA WriteStateLeft ==
  ASSUME AddressInv, LeftInv, NEW fate, WriteState(fate)
  PROVE  LeftInv'
<1>1. /\ sup = "visit" /\ UNCHANGED <<al, sm>> /\ cur \in Slaves
      /\ Control(Hearing(At(cur), fate), Request(state[cur]))
      /\ state' = [state EXCEPT ![cur] = Request(@)]
      /\ Leave(state'[cur], islost[cur])
  BY DEF WriteState, AddressInv, AddressType
<1>2. /\ Request(state[cur]) \in Requested /\ Request(state[cur]) \in SUBSET Bits
  BY StatesApart DEF Request, Requested, Modest, States, WithError
<1>3. /\ req' \in [Slaves -> Requested]
      /\ \A n \in Slaves \ {cur} : req'[n] = req[n]
  BY <1>1, <1>2, ControlOne DEF LeftInv
<1>4. /\ StateType' /\ state'[0] = state[0]
      /\ \A n \in Slaves \ {cur} : state'[n] = state[n]
  BY <1>1, <1>2, <1>3, StateStored DEF LeftInv
<1> QED BY <1>1, <1>3, <1>4, VisitEnds

LEMMA RecheckLeft ==
  ASSUME AddressInv, LeftInv, NEW fate, Recheck(fate)
  PROVE  LeftInv'
<1> DEFINE found == IF fate = "ok" THEN Status(At(cur)) ELSE NONE
<1>1. /\ sup = "visit" /\ UNCHANGED <<al, sm, req>> /\ cur \in Slaves
      /\ state' = [state EXCEPT ![cur] = found]
      /\ Leave(found, found = NONE)
  BY DEF Recheck, slaves, AddressInv, AddressType
<1>2. found \in SUBSET Bits
  BY <1>1, StatusIsState, StatesApart DEF LeftInv, Modest
<1> HIDE DEF found
<1>3. /\ StateType' /\ state'[0] = state[0]
      /\ \A n \in Slaves \ {cur} : state'[n] = state[n]
  BY <1>1, <1>2, StateStored DEF LeftInv, StateType
<1> QED BY <1>1, <1>3, VisitEnds

LEMMA RequestInitLeft ==
  ASSUME AddressInv, LeftInv, NEW fate, RequestInit(fate)
  PROVE  LeftInv'
<1>1. /\ sup = "visit" /\ UNCHANGED <<al, sm, state, main>> /\ cur \in Slaves
      /\ Control(Hearing(At(cur), fate), INIT)
      /\ IF Confirmed(At(cur), fate)
         THEN sup' = "checkInit" /\ cur' = cur
         ELSE Leave(state[cur], islost[cur])
  BY DEF RequestInit, AddressInv, AddressType, threads
<1>2. /\ req' \in [Slaves -> Requested]
      /\ \A n \in Slaves \ {cur} : req'[n] = req[n]
      /\ Confirmed(At(cur), fate) => req'[cur] = INIT
  BY <1>1, ControlOne DEF LeftInv, Requested, Modest, States
<1>3. StateType'
  BY <1>1, <1>2 DEF LeftInv, StateType
<1>4. CASE Confirmed(At(cur), fate)
  <2>1. Settled'
    BY <1>1, <1>2, <1>3, <1>4, VisitGoesOn
  <2> QED BY <1>1, <1>2, <1>3, <1>4, <2>1 DEF LeftInv, Asked, Rising, Between
<1>5. CASE ~Confirmed(At(cur), fate)
  BY <1>1, <1>2, <1>3, <1>5, VisitEnds
<1> QED BY <1>4, <1>5

\* ecx_statecheck finds what the slave that is visited shows.
LEMMA CheckFinds ==
  ASSUME AddressInv, LeftInv, NEW want, NEW continue, NEW regardless,
         Check(want, continue, regardless)
  PROVE  /\ cur \in Slaves /\ UNCHANGED <<al, req, main>>
         /\ StateType' /\ state'[0] = state[0]
         /\ \A n \in Slaves \ {cur} : state'[n] = state[n]
         /\ \/ sup' = continue /\ cur' = cur
               /\ (al[cur] \ {ERROR} = want \/ regardless \/ want = NONE)
            \/ Leave(Status(At(cur)), islost[cur])
<1> DEFINE found == Status(At(cur))
<1>1. /\ cur \in Slaves /\ UNCHANGED <<al, req, sm, main>>
      /\ state' = [state EXCEPT ![cur] = found]
      /\ IF found \ {ERROR} = want \/ regardless
         THEN sup' = continue /\ cur' = cur
         ELSE Leave(found, islost[cur])
  BY DEF Check, slaves, threads, AddressInv, AddressType
<1>2. found \in SUBSET Bits /\ (found = NONE \/ found = al[cur])
  BY <1>1, StatusIsState DEF LeftInv
<1> HIDE DEF found
<1>3. /\ StateType' /\ state'[0] = state[0]
      /\ \A n \in Slaves \ {cur} : state'[n] = state[n]
  BY <1>1, <1>2, StateStored DEF LeftInv, StateType
<1>4. found = NONE => found \ {ERROR} = NONE
  BY DEF NONE
<1>5. CASE found \ {ERROR} = want \/ regardless
  BY <1>1, <1>2, <1>3, <1>4, <1>5
<1>6. CASE ~(found \ {ERROR} = want \/ regardless)
  BY <1>1, <1>3, <1>6 DEF found
<1> QED BY <1>5, <1>6

LEMMA CheckLeft ==
  ASSUME AddressInv, LeftInv, CheckInit \/ CheckPreOp \/ CheckSafeOp
  PROVE  LeftInv'
<1>1. CASE CheckInit
  <2>1. /\ sup = "checkInit" /\ cur \in Slaves /\ UNCHANGED <<al, req, main>>
        /\ StateType' /\ state'[0] = state[0]
        /\ \A n \in Slaves \ {cur} : state'[n] = state[n]
        /\ \/ sup' = "sms" /\ cur' = cur /\ al[cur] \ {ERROR} = INIT
           \/ Leave(Status(At(cur)), islost[cur])
    BY <1>1, CheckFinds, StatesApart DEF CheckInit
  <2>2. CASE sup' = "sms" /\ cur' = cur /\ al[cur] \ {ERROR} = INIT
    <3>1. Settled'
      BY <2>1, <2>2, VisitGoesOn
    <3>2. al[cur] # OPERATIONAL /\ al[cur] # SAFE_OP
      BY <2>2, StatesApart DEF Modest, States
    <3> QED BY <2>1, <2>2, <3>1, <3>2 DEF LeftInv, Asked, Rising, Low, Stages
  <2>3. CASE Leave(Status(At(cur)), islost[cur])
    BY <2>1, <2>3, VisitEnds
  <2> QED BY <2>1, <2>2, <2>3
<1>2. CASE CheckPreOp
  <2>1. /\ sup = "checkPreOp" /\ cur \in Slaves /\ UNCHANGED <<al, req, main>>
        /\ StateType' /\ state'[0] = state[0]
        /\ \A n \in Slaves \ {cur} : state'[n] = state[n]
        /\ \/ sup' = "toSafeOp" /\ cur' = cur
           \/ Leave(Status(At(cur)), islost[cur])
    BY <1>2, CheckFinds DEF CheckPreOp
  <2>2. CASE sup' = "toSafeOp" /\ cur' = cur
    <3>1. Settled'
      BY <2>1, <2>2, VisitGoesOn
    <3> QED BY <2>1, <2>2, <3>1 DEF LeftInv, Asked, Rising, Low, Stages, Between
  <2>3. CASE Leave(Status(At(cur)), islost[cur])
    BY <2>1, <2>3, VisitEnds
  <2> QED BY <2>1, <2>2, <2>3
<1>3. CASE CheckSafeOp
  <2>1. /\ sup = "checkSafeOp" /\ cur \in Slaves /\ UNCHANGED <<al, req, main>>
        /\ StateType' /\ state'[0] = state[0]
        /\ \A n \in Slaves \ {cur} : state'[n] = state[n]
        /\ \/ sup' = "fmmus" /\ cur' = cur
           \/ Leave(Status(At(cur)), islost[cur])
    BY <1>3, CheckFinds DEF CheckSafeOp
  <2>2. CASE sup' = "fmmus" /\ cur' = cur
    <3>1. Settled'
      BY <2>1, <2>2, VisitGoesOn
    <3> QED BY <2>1, <2>2, <3>1 DEF LeftInv, Asked, Rising, Stages, Between
  <2>3. CASE Leave(Status(At(cur)), islost[cur])
    BY <2>1, <2>3, VisitEnds
  <2> QED BY <2>1, <2>2, <2>3
<1> QED BY <1>1, <1>2, <1>3

\* What ecx_reconfig_slave asks for on the way up.
LEMMA RaiseLeft ==
  ASSUME AddressInv, LeftInv, NEW fate,
         ProgramSms(fate) \/ RequestPreOp(fate) \/ AskSafeOp(fate)
  PROVE  LeftInv'
<1>1. /\ sup \in Between /\ UNCHANGED <<al, state, main, cur>> /\ cur \in Slaves
      /\ sup' \in {"toPreOp", "checkPreOp", "checkSafeOp"}
  BY DEF ProgramSms, RequestPreOp, AskSafeOp, AddressInv, AddressType, threads, Between
<1>2. /\ req' \in [Slaves -> Requested] /\ \A n \in Slaves \ {cur} : req'[n] = req[n]
      /\ sup' # "checkSafeOp" => req'[cur] \in {req[cur], PRE_OP}
  <2>1. PRE_OP \in Requested /\ SAFE_OP \in Requested
    BY DEF Requested, Modest, States
  <2>2. CASE ProgramSms(fate)
    BY <2>2, <1>1 DEF ProgramSms, LeftInv, StateType
  <2>3. CASE RequestPreOp(fate)
    BY <2>1, <2>3, ControlOne DEF RequestPreOp, LeftInv
  <2>4. CASE AskSafeOp(fate)
    BY <2>1, <2>4, ControlOne DEF AskSafeOp, LeftInv
  <2> QED BY <2>2, <2>3, <2>4
<1>3. sm' \in [Slaves -> BOOLEAN] /\ \A n \in Slaves : sm[n] => sm'[n]
  BY DEF ProgramSms, RequestPreOp, AskSafeOp, LeftInv, StateType
<1>4. StateType'
  BY <1>1, <1>2, <1>3 DEF LeftInv, StateType
<1>5. Settled'
  BY <1>1, <1>2, <1>4, VisitGoesOn DEF Between
<1>6. Asked' /\ Rising'
  BY <1>1, <1>2, StatesApart DEF LeftInv, Asked, Rising, Stages, Between, Low
<1> QED BY <1>4, <1>5, <1>6 DEF LeftInv

\* The steps that ask for nothing.
LEMMA QuietLeft ==
  ASSUME AddressInv, LeftInv, NEW fate,
         \/ StartRound \/ Operational \/ StillLost \/ ProgramFmmus(fate)
         \/ ReadAddress(fate) \/ ClearTempNode(fate) \/ SetTempNode(fate)
         \/ Identify(fate) \/ RemoveAddress(fate) \/ GiveAddress(fate)
  PROVE  LeftInv'
<1>1. UNCHANGED <<al, req, sm, state, main>> /\ cur \in Slaves
  BY DEF StartRound, Operational, StillLost, ProgramFmmus, ReadAddress, ClearTempNode,
         SetTempNode, Identify, RemoveAddress, GiveAddress, FreeTempNode, slaves, threads,
         AddressInv, AddressType
<1>2. StateType'
  BY <1>1 DEF LeftInv, StateType
<1>3. CASE StartRound
  BY <1>1, <1>2, <1>3 DEF StartRound, LeftInv, Settled, Asked, Rising, ToVisit, Stages,
                          Between
<1>4. CASE Operational \/ ProgramFmmus(fate) \/ RemoveAddress(fate) \/ GiveAddress(fate)
  <2>1. sup \notin {"sleep", "broadcast", "each"}
    BY <1>4 DEF Operational, ProgramFmmus, RemoveAddress, GiveAddress
  <2>2. Leave(state[cur], islost[cur]) \/ NextSlave
    BY <1>4 DEF Operational, ProgramFmmus, RemoveAddress, GiveAddress
  <2> QED BY <1>1, <1>2, <2>1, <2>2, VisitEnds
<1>5. CASE StillLost \/ ReadAddress(fate) \/ ClearTempNode(fate) \/ SetTempNode(fate)
             \/ Identify(fate)
  <2>1. sup \notin {"sleep", "broadcast", "each"}
    BY <1>5 DEF StillLost, ReadAddress, ClearTempNode, SetTempNode, Identify
  <2>2. \/ NextSlave
        \/ cur' = cur /\ sup' \in {"recover", "clear", "setTemp", "identify", "give", "remove"}
    BY <1>5 DEF StillLost, ReadAddress, ClearTempNode, SetTempNode, Identify
  <2>3. CASE NextSlave
    BY <1>1, <1>2, <2>1, <2>3, VisitEnds
  <2>4. CASE cur' = cur /\ sup' \in {"recover", "clear", "setTemp", "identify", "give", "remove"}
    <3>1. Settled'
      BY <1>1, <1>2, <2>1, <2>4, VisitGoesOn
    <3> QED BY <1>2, <2>4, <3>1 DEF LeftInv, Asked, Rising, Stages, Between
  <2> QED BY <2>2, <2>3, <2>4
<1> QED BY <1>3, <1>4, <1>5

-----------------------------------------------------------------------------
(* The slaves and the other threads.                                        *)

\* A slave that changes what it shows by itself does not rise.
LEMMA SlaveLeft ==
  ASSUME LeftInv, StateType', cur \in Slaves, UNCHANGED <<state, main, sup, cur>>,
         NEW n \in Slaves, req'[n] \in {req[n], NONE},
         \A m \in Slaves \ {n} : al'[m] = al[m] /\ req'[m] = req[m],
         Low(n) => Low(n)',
         al'[n] = SAFE_OP => al[n] = SAFE_OP \/ req[n] \in {SAFE_OP, WithError(SAFE_OP)}
  PROVE  LeftInv'
<1>1. \A m \in Slaves : Low(m) => Low(m)'
  BY DEF Low
<1>2. Settled'
  BY <1>1, SettledKept DEF ToVisit, LeftInv
<1>3. Asked'
  BY DEF LeftInv, Asked
<1>4. Rising'
  <2>1. WithError(SAFE_OP) \notin {NONE, INIT, PRE_OP}
    BY StatesApart DEF Modest, States
  <2>2. ASSUME sup \in Between, main # "end" PROVE al'[cur] # SAFE_OP
    BY <2>1, <2>2, StatesApart DEF LeftInv, Asked, Rising, Stages
  <2> QED BY <1>1, <2>2 DEF LeftInv, Rising
<1> QED BY <1>2, <1>3, <1>4 DEF LeftInv

LEMMA SlavesLeft ==
  ASSUME AddressInv, LeftInv, NEW n \in Slaves, NEW cold \in BOOLEAN,
         React(n) \/ DropOut(n) \/ Fail(n) \/ ComeBack(n, cold)
  PROVE  LeftInv'
<1>1. UNCHANGED <<state, main, sup, cur>> /\ cur \in Slaves
  BY DEF React, DropOut, Fail, ComeBack, threads, AddressInv, AddressType
<1>2. CASE React(n)
  <2>1. /\ StateType'
        /\ req'[n] = NONE
        /\ \A m \in Slaves \ {n} : al'[m] = al[m] /\ req'[m] = req[m]
        /\ al'[n] = OPERATIONAL =>
             al[n] = OPERATIONAL \/ (al[n] = SAFE_OP /\ req[n] = OPERATIONAL)
        /\ al'[n] = SAFE_OP =>
             al[n] = SAFE_OP \/ req[n] \in {SAFE_OP, WithError(SAFE_OP)}
    BY <1>2, Reaction DEF LeftInv, StateType
  <2>2. Low(n) => Low(n)'
    BY <2>1, StatesApart DEF Low
  <2> QED BY <1>1, <2>1, <2>2, SlaveLeft
<1>3. CASE DropOut(n)
  BY <1>1, <1>3, SlaveLeft DEF DropOut, LeftInv, StateType, Low
<1>4. CASE Fail(n)
  <2>1. /\ al[n] = OPERATIONAL /\ al' = [al EXCEPT ![n] = WithError(SAFE_OP)]
        /\ UNCHANGED <<req, sm>>
    BY <1>4 DEF Fail, WithError
  <2>2. WithError(SAFE_OP) # SAFE_OP /\ WithError(SAFE_OP) # OPERATIONAL
    BY StatesApart DEF Modest, States
  <2>3. al' \in [Slaves -> Shown] /\ al'[n] = WithError(SAFE_OP)
    BY <2>1 DEF LeftInv, StateType, Shown
  <2>4. \A m \in Slaves \ {n} : al'[m] = al[m]
    BY <2>1 DEF LeftInv, StateType
  <2>5. StateType'
    BY <1>1, <2>1, <2>3, <2>4 DEF LeftInv, StateType
  <2> QED BY <1>1, <2>1, <2>2, <2>3, <2>4, <2>5, SlaveLeft DEF Low
<1>5. CASE ComeBack(n, cold)
  <2>1. CASE cold
    <3>1. /\ al' = [al EXCEPT ![n] = INIT] /\ req' = [req EXCEPT ![n] = NONE]
          /\ sm' = [sm EXCEPT ![n] = FALSE]
      BY <1>5, <2>1 DEF ComeBack
    <3>2. INIT \in Shown /\ NONE \in Requested
      BY DEF Shown, States, Requested, Modest
    <3>3. /\ al' \in [Slaves -> Shown] /\ al'[n] = INIT
          /\ req' \in [Slaves -> Requested] /\ req'[n] = NONE
          /\ sm' \in [Slaves -> BOOLEAN]
          /\ \A m \in Slaves \ {n} : al'[m] = al[m] /\ req'[m] = req[m] /\ sm'[m] = sm[m]
      BY <3>1, <3>2 DEF LeftInv, StateType
    <3>4. INIT # WithError(SAFE_OP)
      BY StatesApart DEF Modest, States
    <3>5. StateType'
      BY <1>1, <3>3, <3>4, StatesApart DEF LeftInv, StateType
    <3> QED BY <1>1, <3>3, <3>5, StatesApart, SlaveLeft DEF Low
  <2>2. CASE ~cold
    BY <1>1, <1>5, <2>2, SlaveLeft DEF ComeBack, LeftInv, StateType, Low
  <2> QED BY <2>1, <2>2
<1> QED BY <1>2, <1>3, <1>4, <1>5

LEMMA ThreadsLeft ==
  ASSUME AddressInv, LeftInv, CyclicStep \/ MainStep
  PROVE  LeftInv'
<1>1. UNCHANGED <<al, sm, sup, cur>> /\ cur \in Slaves
  BY DEF CyclicStep, SendNext, Receive, MainStep, StopCycle, StopCheck, ChooseSafeOp,
         RequestSafeOp, slaves, AddressInv, AddressType
<1>2. CASE CyclicStep \/ StopCycle \/ StopCheck
  <2>1. UNCHANGED <<req, state>> /\ (main' # "end" => main # "end")
    BY <1>2 DEF CyclicStep, SendNext, Receive, StopCycle, StopCheck, slaves
  <2> QED BY <1>1, <2>1 DEF LeftInv, StateType, Settled, ToVisit, Low, Asked, Rising
<1>3. CASE ChooseSafeOp
  <2>1. /\ main = "inOP" /\ main' = "chosen" /\ req' = req
        /\ state' = [state EXCEPT ![0] = SAFE_OP]
    BY <1>3 DEF ChooseSafeOp, slaves
  <2>2. 0 \in 0 .. N /\ Slaves \subseteq 0 .. N /\ 0 \notin Slaves
    BY SupervisorAssumption, SMT DEF SupervisorAssumption, Slaves
  <2>3. SAFE_OP \in Modest /\ SAFE_OP \in SUBSET Bits
    BY StatesApart DEF Modest, States
  <2>4. /\ state' \in [0 .. N -> SUBSET Bits] /\ state'[0] = SAFE_OP
        /\ \A n \in Slaves : state'[n] = state[n]
    BY <2>1, <2>2, <2>3 DEF LeftInv, StateType
  <2>5. StateType'
    BY <1>1, <2>1, <2>3, <2>4 DEF LeftInv, StateType
  <2>6. Settled'
    BY <1>1, <2>1, <2>4, StatesApart DEF LeftInv, Settled, ToVisit, Low
  <2>7. Asked' /\ Rising'
    BY <1>1, <2>1 DEF LeftInv, Asked, Rising, Low
  <2> QED BY <2>5, <2>6, <2>7 DEF LeftInv
<1>4. CASE RequestSafeOp
  <2>1. /\ main = "chosen" /\ main' = "end" /\ state' = state
        /\ req' = [n \in Slaves |-> IF n \in present THEN state[0] ELSE req[n]]
    BY <1>4 DEF RequestSafeOp, Control
  <2>2. \A n \in Slaves : req'[n] \in {req[n], state[0]}
    BY <2>1
  <2>3. StateType'
    BY <1>1, <2>1, <2>2 DEF LeftInv, StateType, Requested
  <2>4. Settled'
    BY <1>1, <2>1, <2>2 DEF LeftInv, Settled, ToVisit, Low
  <2>5. Asked' /\ Rising'
    BY <1>1, <2>1 DEF LeftInv, Asked, Rising, Low
  <2> QED BY <2>3, <2>4, <2>5 DEF LeftInv
<1> QED BY <1>2, <1>3, <1>4 DEF MainStep

LEMMA LeftInit == Init => LeftInv
<1> SUFFICES ASSUME Init PROVE LeftInv
  OBVIOUS
<1>1. 0 \in 0 .. N /\ Slaves \subseteq 0 .. N
  BY SupervisorAssumption, SMT DEF SupervisorAssumption, Slaves
<1>2. OPERATIONAL \in Modest /\ OPERATIONAL \in SUBSET Bits /\ OPERATIONAL \in Shown
  BY StatesApart DEF Modest, States, Shown
<1>3. NONE \in Requested
  BY DEF Requested, Modest
<1>4. /\ al = [s \in Slaves |-> OPERATIONAL] /\ req = [s \in Slaves |-> NONE]
      /\ sm = [s \in Slaves |-> TRUE] /\ state \in [0 .. N -> {OPERATIONAL}]
      /\ sup = "sleep"
  BY DEF Init
<1>5. StateType
  BY <1>1, <1>2, <1>3, <1>4 DEF StateType
<1> QED BY <1>4, <1>5 DEF LeftInv, Settled, ToVisit, Asked, Rising, Stages, Between

LEMMA LeftStep ==
  ASSUME AddressInv, LeftInv, [Next]_vars
  PROVE  LeftInv'
<1>1. CASE SupervisorStep
  BY <1>1, BroadcastLeft, ReadEachLeft, WriteStateLeft, RecheckLeft, RequestInitLeft,
     CheckLeft, RaiseLeft, QuietLeft DEF SupervisorStep
<1>2. CASE CyclicStep \/ MainStep
  BY <1>2, ThreadsLeft
<1>3. CASE SlaveFaults \/ Reacts
  BY <1>3, SlavesLeft DEF SlaveFaults, Reacts
<1>4. CASE UNCHANGED vars
  BY <1>4 DEF vars, slaves, threads, LeftInv, StateType, Settled, ToVisit, Low, Asked, Rising
<1> QED BY <1>1, <1>2, <1>3, <1>4 DEF Next

-----------------------------------------------------------------------------
(* What a slave that is operational is asked for.                           *)

LEMMA AskedInVisit ==
  ASSUME AddressInv, LeftInv, NEW fate, NEW n \in Slaves, al[n] = OPERATIONAL,
         n \in present, req[n] \in {NONE, OPERATIONAL},
         \/ WriteState(fate) \/ RequestInit(fate) \/ RequestPreOp(fate) \/ AskSafeOp(fate)
  PROVE  req'[n] \in {NONE, OPERATIONAL}
<1>1. cur \in Slaves /\ At(cur) \subseteq {cur} /\ ~Low(n)
  BY OwnOnly DEF AddressInv, AddressType, Low
<1>2. PICK st : /\ Control(Hearing(At(cur), fate), st)
                /\ \/ WriteState(fate) /\ st = Request(state[cur])
                   \/ RequestInit(fate) \/ RequestPreOp(fate) \/ AskSafeOp(fate)
  BY DEF WriteState, RequestInit, RequestPreOp, AskSafeOp
<1>3. req'[n] = req[n] \/ (n = cur /\ req'[n] = st)
  BY <1>1, <1>2 DEF Control, Hearing
<1>4. CASE n = cur
  <2>1. ~(sup \in Between) /\ (sup = "visit" => Harmless(state[cur]))
    BY <1>1, <1>4, SMT DEF LeftInv, Rising, Settled, ToVisit
  <2>2. ~RequestPreOp(fate) /\ ~AskSafeOp(fate)
    BY <2>1 DEF RequestPreOp, AskSafeOp, Between
  <2>3. ~RequestInit(fate)
    BY <2>1 DEF RequestInit, NeedsReconfig, Harmless
  <2>4. WriteState(fate) => state[cur] = SAFE_OP
    <3>1. WithError(SAFE_OP) \notin {NONE, SAFE_OP, OPERATIONAL}
      BY StatesApart DEF Modest, States
    <3> QED BY <2>1, <3>1 DEF WriteState, Harmless, WithError
  <2> QED BY <1>2, <1>3, <2>2, <2>3, <2>4 DEF Request
<1> QED BY <1>3, <1>4

LEMMA LeftAlone ==
  ASSUME AddressInv, LeftInv, [Next]_vars, NEW n \in Slaves, al[n] = OPERATIONAL,
         n \in present, req[n] \in {NONE, OPERATIONAL}, UNCHANGED main
  PROVE  req'[n] \in {NONE, OPERATIONAL}
<1>1. CASE SupervisorStep
  <2>1. ASSUME NEW fate,
               \/ WriteState(fate) \/ RequestInit(fate) \/ RequestPreOp(fate)
               \/ AskSafeOp(fate)
        PROVE  req'[n] \in {NONE, OPERATIONAL}
    BY <2>1, AskedInVisit
  <2>2. ASSUME NEW fate,
               \/ StartRound \/ Operational \/ StillLost
               \/ CheckInit \/ CheckPreOp \/ CheckSafeOp
               \/ Broadcast(fate) \/ ReadEach(fate) \/ Recheck(fate) \/ ProgramSms(fate)
               \/ ProgramFmmus(fate) \/ ReadAddress(fate) \/ ClearTempNode(fate)
               \/ SetTempNode(fate) \/ Identify(fate) \/ RemoveAddress(fate)
               \/ GiveAddress(fate)
        PROVE  req' = req
    BY <2>2 DEF StartRound, Operational, StillLost, CheckInit, CheckPreOp, CheckSafeOp,
                Check, Broadcast, ReadEach, Recheck, ProgramSms, ProgramFmmus, ReadAddress,
                ClearTempNode, SetTempNode, Identify, RemoveAddress, GiveAddress,
                FreeTempNode, slaves
  <2> QED BY <1>1, <2>1, <2>2 DEF SupervisorStep
<1>2. CASE CyclicStep
  BY <1>2 DEF CyclicStep, SendNext, Receive, slaves
<1>3. CASE MainStep
  BY <1>3 DEF MainStep, StopCycle, StopCheck, ChooseSafeOp, RequestSafeOp
<1>4. CASE SlaveFaults \/ Reacts
  <2>1. ASSUME NEW m \in Slaves, NEW cold \in BOOLEAN,
               React(m) \/ DropOut(m) \/ Fail(m) \/ ComeBack(m, cold)
        PROVE  req' = req \/ req' = [req EXCEPT ![m] = NONE]
    BY <2>1 DEF React, DropOut, Fail, ComeBack
  <2>2. \E m \in Slaves : req' = req \/ req' = [req EXCEPT ![m] = NONE]
    BY <1>4, <2>1 DEF SlaveFaults, Reacts
  <2> QED BY <2>2 DEF LeftInv, StateType
<1>5. CASE UNCHANGED vars
  BY <1>5 DEF vars, slaves
<1> QED BY <1>1, <1>2, <1>3, <1>4, <1>5 DEF Next

\* The supervisor never takes an operational slave out of operation: in
\* whatever order the threads run, slaves drop out and react, whatever datagrams
\* are lost and however old the states are that it acts on, again as long as no
\* two slaves have the temporary address at one time.
THEOREM OperationalSlavesLeftAlone ==
  ASSUME Twins = {}
  PROVE  Spec /\ []Alone => OperationalLeftAlone
<1> DEFINE Inv == AddressInv /\ LeftInv
           Left == \A n \in Slaves :
                     al[n] = OPERATIONAL /\ n \in present /\ req[n] \in {NONE, OPERATIONAL}
                       /\ UNCHANGED main
                       => req'[n] \in {NONE, OPERATIONAL}
<1>1. Init => Inv
  BY AddressInit, LeftInit
<1>2. Inv /\ Alone /\ [Next]_vars => Inv'
  BY AddressStep, LeftStep
<1>3. Inv /\ [Next]_vars => [Left]_vars
  BY LeftAlone
<1> HIDE DEF Inv
<1>4. Spec /\ []Alone => [][Left]_vars
  BY <1>1, <1>2, <1>3, PTL DEF Spec
<1> QED BY <1>4 DEF OperationalLeftAlone
=============================================================================
