--------------------------- MODULE Configuration ---------------------------
(***************************************************************************)
(* A master brings its slaves up: ecx_config_init finds the parent of each *)
(* slave and reads its EEPROM, ecx_config_find_mappings asks the slaves of *)
(* a group for their process data, ecx_configdc measures the delays.  One  *)
(* step is one slave.  Then the application uses the EEPROMs as the        *)
(* configuration has left them (Sii).                                      *)
(*                                                                         *)
(* A setup is a network: setup.net its tree, setup.units its slaves,       *)
(* setup.group the group of each, setup.order the groups in the order they *)
(* are mapped (none: no mapping), setup.unread the slaves whose identity   *)
(* cannot be read, setup.access the slaves whose EEPROMs the application   *)
(* uses.                                                                   *)
(***************************************************************************)
EXTENDS Sii, Topology, SlaveSetup

CONSTANT Setups

ASSUME ConfigurationAssumption ==
  \A u \in Setups :
    /\ IsNetwork(u.net)
    /\ u.unread \subseteq Slaves /\ u.access \subseteq Slaves
    /\ \A i, j \in Slaves : u.units[i].id = u.units[j].id
                              => u.units[i].image = u.units[j].image

VARIABLES
  setup,             \* never changed
  slavelist,         \* ec_slave: tree and clock, with the master
  config,            \* ec_slave: the rest
  heard,             \* ways of reading its mapping each slave answered
  phase, left,       \* the running loop, the groups it has yet to map
  slave,             \* its next slave
  parenthold, prevDCslave

found == <<slavelist, config, heard>>
loop == <<phase, left, slave, parenthold, prevDCslave>>
configVars == <<setup, found, loop>>
allVars == <<vars, configVars>>

Unknown == [man |-> 0, prod |-> 0, rev |-> 0]
Identity(s) == IF s \in setup.unread THEN Unknown ELSE setup.units[s].id

InTree(open, dc) ==
  [parent |-> Master, topology |-> Cardinality(open), activeports |-> open,
   consumedports |-> {}, hasdc |-> dc, DCnext |-> Master, DCprevious |-> Master,
   times |-> [p \in 0 .. 3 |-> 0], entryport |-> 0, parentport |-> 0, pdelay |-> 0]

InitConfiguration ==
  /\ Init /\ owner = [s \in Slaves |-> "master"]
  /\ setup \in Setups
  /\ slavelist = [s \in {Master} \union Slaves |->
                    IF s = Master THEN InTree({}, FALSE)
                    ELSE InTree(OpenPorts(setup.net, s), setup.net.dc[s])]
  /\ config = [s \in Slaves |-> Entry(setup.units[s], Identity(s))]
  /\ heard = [s \in Slaves |-> {}]
  /\ phase = "init" /\ left = setup.order /\ slave = 1
  /\ parenthold = Master /\ prevDCslave = Master

\* The next slave of the loop, or the first of another.
InGroup(s) == Head(left) = 0 \/ setup.group[s] = Head(left)
Continue(next) ==
  IF slave < NSlaves THEN slave' = slave + 1 /\ UNCHANGED <<phase, left>>
  ELSE slave' = 1 /\ next

-----------------------------------------------------------------------------
\* One round of ecx_config_init: the parent, the EEPROM, which then goes to
\* the PDI.
ConfigInit ==
  /\ phase = "init"
  /\ slavelist' = [slavelist EXCEPT ![slave].parent =
       FindParent([k \in Slaves |-> slavelist[k].topology], slave)]
  /\ config' = [config EXCEPT ![slave] = InitSlave(config, slave, setup.units[slave])]
  /\ owner' = [owner EXCEPT ![slave] = "pdi"]
  /\ eep_pdi' = [eep_pdi EXCEPT ![slave] = TRUE]
  /\ Continue(phase' = (IF left = <<>> THEN "dc" ELSE "coe") /\ UNCHANGED left)
  /\ UNCHANGED <<written, data, refused, cache, reader, call, pc, cnt, nackcnt, result,
                 bounds, setup, heard, parenthold, prevDCslave>>

\* ecx_config_find_mappings: CoE and SoE for all slaves of the group; answers
\* are the ways of reading that work this time.
FindMapping(answers) ==
  /\ phase = "coe"
  /\ IF InGroup(slave)
     THEN /\ config' = [config EXCEPT ![slave] =
                          MapCoeSoe(@, setup.units[slave], answers)]
          /\ heard' = [heard EXCEPT ![slave] = answers]
     ELSE UNCHANGED <<config, heard>>
  /\ Continue(phase' = "sii" /\ UNCHANGED left)
  /\ UNCHANGED <<vars, setup, slavelist, parenthold, prevDCslave>>

\* Then the EEPROM where nothing was found, and the sync managers.
MapSlave ==
  /\ phase = "sii"
  /\ IF InGroup(slave)
     THEN config' = [config EXCEPT ![slave] =
                       MapSm(MapSii(config, slave, setup.units[slave]))]
     ELSE UNCHANGED config
  /\ Continue(/\ left' = Tail(left)
              /\ phase' = IF Tail(left) = <<>> THEN "dc" ELSE "coe")
  /\ UNCHANGED <<vars, setup, slavelist, heard, parenthold, prevDCslave>>

ConfigClock ==
  /\ phase = "dc"
  /\ LET after == ConfigDc(setup.net, slavelist, parenthold, prevDCslave, slave)
     IN  /\ slavelist' = after.list
         /\ parenthold' = after.hold
         /\ prevDCslave' = after.prev
  /\ Continue(phase' = "done" /\ UNCHANGED left)
  /\ UNCHANGED <<vars, setup, config, heard>>

UseEeprom ==
  /\ phase = "done"
  /\ Access(setup.access)
  /\ UNCHANGED configVars

Ways(unit) == (IF unit.coe THEN {"ca", "coe"} ELSE {}) \union (IF unit.soe THEN {"soe"} ELSE {})
NextConfiguration ==
  \/ ConfigInit
  \/ \E answers \in SUBSET Ways(setup.units[slave]) : FindMapping(answers)
  \/ MapSlave
  \/ ConfigClock
  \/ UseEeprom

ConfigurationSpec == InitConfiguration /\ [][NextConfiguration]_allVars

-----------------------------------------------------------------------------
(* Properties.  What a unit is meant to be comes from what its image was    *)
(* made of: unit.sii.                                                       *)

Configured(s) == phase # "init" \/ slave > s
Mapped == phase \in {"dc", "done"} /\ setup.order # <<>>

\* The parent found from the numbers of open ports is the slave it is plugged
\* into, whatever the tree.
ParentsRight == \A s \in Slaves : Configured(s) => slavelist[s].parent = setup.net.up[s]

\* What the configuration knows of a slave is what its own EEPROM says, read or
\* copied from another slave with the same identity, although one identity
\* could not be read.
MeantSm(unit, n) ==
  CASE n < Len(unit.sii.sms)    -> unit.sii.sms[n + 1]
    [] n >= Len(unit.sii.sms) /\ unit.mbx /\ n < 2 -> unit.mailbox[n]
    [] OTHER                    -> NoSm
SetupOwn ==
  \A s \in Slaves :
    LET unit == setup.units[s]
    IN  phase = "init" /\ Configured(s) =>
          /\ \A n \in 0 .. MaxSm - 1 : config[s].SM[n] = MeantSm(unit, n)
          /\ \A i \in 0 .. 3 : config[s].func[i] =
               IF i < Len(unit.sii.fmmus) /\ unit.sii.fmmus[i + 1] # Unused
               THEN unit.sii.fmmus[i + 1] ELSE 0
          /\ config[s].ca = unit.sii.ca
          /\ config[s].blockLRW = (IF unit.sii.blockLRW THEN 1 ELSE 0)
          /\ config[s].name = unit.sii.name

\* The bits of the process data in one direction.
SiiBits(unit, type) == Sum(FlattenSeq([k \in DOMAIN unit.sii.pdos[type] |->
  IF unit.sii.pdos[type][k].sm < MaxSm THEN unit.sii.pdos[type][k].bits ELSE <<>>]))
CoeBits(unit, type) ==
  Sum(FlattenSeq(FlattenSeq([n \in DOMAIN unit.meant |->
    IF unit.meant[n] = type THEN unit.pdos[n - 1] ELSE <<>>])))
MeantBits(unit, type) ==
  CASE unit.coe               -> CoeBits(unit, type)
    [] ~unit.coe /\ unit.soe  -> 16 + Sum(unit.drives[1][IF type = OUTPUTS THEN "mdt" ELSE "at"])
    [] OTHER                  -> SiiBits(unit, type)

\* A slave that cannot be asked is known by its EEPROM if that is up to date.
Asked(s) ==
  LET unit == setup.units[s]
  IN  /\ unit.coe => "coe" \in heard[s] \/ ("ca" \in heard[s] /\ unit.sii.ca)
      /\ unit.soe /\ ~unit.coe => "soe" \in heard[s]
UpToDate(unit) == \A t \in {OUTPUTS, INPUTS} : MeantBits(unit, t) = SiiBits(unit, t)
Known(s) ==
  \/ Asked(s)
  \/ \A i \in Slaves : setup.units[i].id = setup.units[s].id => UpToDate(setup.units[i])

SizesRight(s) ==
  /\ config[s].Obits = MeantBits(setup.units[s], OUTPUTS)
  /\ config[s].Ibits = MeantBits(setup.units[s], INPUTS)

\* What IOMap relies on: the enabled sync managers of a direction have together
\* the bytes that its bits need.
SmsOf(s, type) == {n \in 0 .. MaxSm - 1 : config[s].SMtype[n] = type /\ config[s].SM[n].on}
SmBytesOf(s, type) == MapThenSumSet(LAMBDA n : config[s].SM[n].len, SmsOf(s, type))
LengthsFit(s) ==
  /\ SmBytesOf(s, OUTPUTS) = ByteLength(config[s].Obits)
  /\ SmBytesOf(s, INPUTS) = ByteLength(config[s].Ibits)

\* The bits mapped for a slave are those it exchanges, and its sync managers
\* have the bytes for them, from whichever of five sources they come: complete
\* access, single objects, drives, a slave before or the EEPROM, and in
\* whatever order the groups are mapped.  A slave that exchanges nothing is
\* given the mapping of one before it with the same identity.
Exchanges(unit) == \E t \in {OUTPUTS, INPUTS} : MeantBits(unit, t) > 0
MappingOwn ==
  Mapped => \A s \in Slaves :
    Exchanges(setup.units[s]) /\ Known(s) => SizesRight(s) /\ LengthsFit(s)

\* Without the restriction: the code does not have this property.
MappingOwnAlways == Mapped => \A s \in Slaves : Known(s) => SizesRight(s)

\* The delay of each slave is the time a frame takes from the nearest clock
\* above it, if every slave where the tree splits has a clock, and no latched
\* time passes the largest number of 32 bits: the entry port is found by
\* comparing them.
DcParent(s) ==
  LET up[j \in Slaves] == IF setup.net.up[j] = Master \/ setup.net.dc[setup.net.up[j]]
                          THEN setup.net.up[j] ELSE up[setup.net.up[j]]
  IN  up[s]
SplitsHaveClocks ==
  \A s \in Slaves :
    Cardinality(OpenPorts(setup.net, s)) > 2 => setup.net.dc[s]
Monotone(s) ==
  LET times == {Latched(setup.net, s, p) : p \in OpenPorts(setup.net, s)}
  IN  \A t \in times : t >= Latched(setup.net, s, 0)
DelaysRight ==
  phase = "done" /\ SplitsHaveClocks /\ (\A s \in Slaves : Monotone(s)) =>
    \A s \in Slaves : setup.net.dc[s] /\ DcParent(s) # Master =>
      slavelist[s].pdelay - slavelist[DcParent(s)].pdelay
        = Arrival(setup.net)[s] - Arrival(setup.net)[DcParent(s)]

\* Where a branch without any clock splits, the code has not this property.
ClocklessBranches ==
  \A s \in Slaves : Cardinality(OpenPorts(setup.net, s)) > 2 =>
    setup.net.dc[s] \/ \A j \in Slaves : j > s /\ setup.net.dc[j] => setup.net.up[j] < s
DelaysRightAlways ==
  phase = "done" /\ ClocklessBranches =>
    \A s \in Slaves : setup.net.dc[s] /\ DcParent(s) # Master =>
      slavelist[s].pdelay - slavelist[DcParent(s)].pdelay
        = Arrival(setup.net)[s] - Arrival(setup.net)[DcParent(s)]
=============================================================================
