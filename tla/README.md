# TREC: a TLA+ verification of the EtherCAT master and the force/torque slave

TREC carries the readings of a Net F/T force/torque sensor to a PC.  An Arduino
(`shield_both_mounted/`) asks the sensor over CAN and offers the readings
as process data of an EtherCAT slave (EasyCAT shield); a PC program
(`SOEM/test/linux/simple_test/simple_test3.c`) runs the SOEM EtherCAT master
(`SOEM/soem`, `SOEM/oshw`) and reads them.  This directory models the
parts of both programs that carry their logic, checks them with TLC on small
instances, and proves the most important results with TLAPS for every value
of the constants.  Paths are relative to `src/`; the exact source lines
of each definition are in `PROJECT.json` under "map".

    sensor --CAN--> Arduino --EasyCAT--> EtherCAT ring --NIC--> SOEM master --> application
              CanMessages   EasyCat                 NicPort     Datagrams       Supervisor
              FtAcquisition                         RedPort     Discovery, Configuration, Sii, DcSync
              FtConvert                             Ports       Mailbox, FoE, SdoTransfer, ObjectInfo,
                                                                SoeTransfer, Eoe, ErrorList
                                                                IOMap, ProcessData

## 1. Inventory

### 1.1 NIC driver and datagram primitives (`oshw/linux/nicdrv.c`, `soem/ethercatbase.c`, `osal/linux/osal.c`)
State: EC_MAXBUF pairs of transmit and receive buffers, a status per index
(`rxbufstat`), the index handed out last, one shared temporary receive buffer,
three mutexes (indices, transmit, receive), the socket.  Operations: `getindex`,
`setbufstat`, `outframe`, `inframe`, `waitinframe`, `srconfirm`, and the
primitives (`BRD`, `FPRD`, `LWR`, ...), each of which is getindex, setup,
srconfirm, copy, setbufstat(EMPTY).  Hard: several threads share the port;
any of them may take another's reply off the socket and file it, when its owner may have left; the status
array is read and written outside the mutexes; frames are lost and sent again;
send() fails.  Correct means: an index has one owner; a call returns with the
reply to its own datagram or with nothing, in bounded time; every index comes
back.  With a second NIC every datagram leaves on both sides of a ring, and a decision
tree on the routes of the two answers says what was seen of the slaves; correct means that one
break of the cable is not noticed.  A frame may hold several datagrams;
correct means that each caller reads the data and the counter of its own.

### 1.2 Ports to other systems (`oshw/win32`, `macosx`, `rtems`, `rtk`, `erika`, `intime`, `vxworks`)
The same calls over pcap, `/dev/bpf`, Ethernet controllers and message queues.  They differ
in who reads the socket, under which lock, and where a frame waits for its owner.  Correct
means: they promise what the Linux driver promises.

### 1.3 Error list (`ethercatmain.c`, reporters in `ethercatcoe.c`, `ethercatsoe.c`, reader in `ethercatprint.c`)
State: a ring of EC_MAXELIST + 1 entries, head, tail, a signal per entry, the
flag `EcatError`.  Operations: six reporters, `pusherror`, `poperror`, `iserror`,
`elist2string`.  Hard: full and wrapping rings; the flag summarises the list.
Correct means: the list is a bounded queue that drops its oldest entry, and an
application that watches the flag reads everything.

### 1.4 Mailbox link layer (`ethercatmain.c` 900-1104)
State: the slave's mailbox counter, SM0 and SM1 of the slave, the repeat bit and
its acknowledge, nested waits on one timer.  Operations: `nextmbxcnt`,
`mbxempty`, `mbxsend`, `mbxreceive`.  Hard:
lost datagrams on a request, on an answer, on the repeat request itself;
emergencies, mailbox errors and EoE fragments between request and answer; timers.
Correct means: a mail is neither skipped nor carried out twice, the client gets
its own answer, a transfer ends.

### 1.5 Mailbox services (`ethercatcoe.c`, `ethercatsoe.c`, `ethercateoe.c`, `ethercatfoe.c`)
State: what is left in the slave's mailbox by earlier calls; of CoE the toggle bit, the sizes
announced and the object dictionary read so far; of SoE the fragments left; of EoE the frame being
put together by a call or by the hook of `mbxreceive`; of FoE packet number, file pointer and
remaining size.  Operations: `SDOread`, `SDOwrite`, `RxPDO`, `TxPDO`, `readODlist`,
`readODdescription`, `readOEsingle`, `readOE`, `SoEread`, `SoEwrite`, `EOEsend`, `EOErecv`, `EOEreadfragment`,
`EOEsetIp`, `EOEgetIp`, `FOEread`, `FOEwrite`.  Hard: transfers in segments of which some fail, answers that come
after their call gave up, busy answers, sizes at multiples of a packet, a slave that stops in
the middle.  Correct means: what is read is what the slave has, what is reported written is
stored, a frame reported complete was sent so, a call returns.

### 1.6 Detection and configuration of slaves (`ethercatconfig.c`, `ethercatmain.c` SII functions)
State: `ec_slave` (address, identity, mailbox, sync managers, FMMUs, parent, EEPROM
owner), the SII cache of one slave, the slaves' EEPROMs.  Operations: `config_init`,
`config_find_mappings`, `siigetbyte`, `siifind`, `siistring`, `siiFMMU`, `siiSM`, `siiSMnext`,
`siiPDO`, `readeeprom(1,2,AP,FP)`, `writeeeprom(AP,FP)`, `eeprom2master`, `eeprom2pdi`, `esidump`.
Hard: loops over all slaves in which each word is asked for one loop before it is
fetched; addresses of an earlier session; settings copied from a slave of the same identity; five sources
for the mapping, each of which can fail; a cache and an ownership flag that
are updated whether or not the datagram went through.  Correct means: each entry of the list
has the data of its own slave, and what is read from an EEPROM is the word asked for.

### 1.7 Distributed clocks (`ethercatdc.c`)
State: entry ports, parents, the list of clocks, receive times, delays, the pulses' cycle
and start.  Operations: `configdc`, `dcsync0`, `dcsync01`.  Hard: a tree known only from open ports and from 32 bit
times that wrap; slaves without clocks in between; slaves started one after the other while time
goes on.  Correct means: delays are the real ones, pulses of one cycle come together.

### 1.8 Process data mapping (`ethercatconfig.c` 896-1478)
State: per slave FMMUs and pointers into the IOmap, per group segments and expected
work counters, the next free logical bit.  Operations: `config_map_group`,
`config_overlap_map_group` and the functions that create the input and
output FMMUs.  Hard: bit-oriented slaves that share bytes, several sync
managers, segment boundaries, groups, overlapped images.  Correct means: no bit
belongs to two slaves, all bytes are in exactly one segment, the pointers say where.

### 1.9 Process data exchange (`ethercatmain.c` 1640-1990, use in `simple_test3.c`)
State: the IOmap, the index stack, the frames of the cycle, the work counter.
Operations: `send_processdata`, `receive_processdata`, `clearindex`, `pushindex`,
`pullindex`.  Hard: segmented images, LRW or LRD/LWR, the DC datagram in the first
frame, lost frames, silent slaves, a sum as the only evidence.  Correct means: the
expected work counter proves that the cycle was complete, and a complete cycle
produces it.

### 1.10 Slave states and supervision (`ethercatmain.c` statecheck, readstate, writestate; `ethercatconfig.c` reconfig, recover; `red_test.c`)
State: `ec_slave[].state` and `islost`, `wkc`, `inOP`, `dorun`, shared by three threads without a lock;
the slaves' AL states and addresses.  Hard: the supervisor acts on what it read some datagrams
ago; slaves drop out, come back with or without power loss, and positions shift.  Correct means: no slave gets
another's address, a slave in operation is left alone, and one that comes back is operational again.

### 1.11 Force/torque acquisition (`shield_both_mounted/src/main.cpp`)
State: the locals of the timer function, the shield's buffers, the process data in the EtherCAT controller.
Operations: `mainFunction`, `storeFT`, `sendToMaster`, and the driver calls they make.  Hard: frames in any order, two receive buffers
for four frames, requests that time out, uninitialised locals.  Correct means: the master sees whole
samples, every one, in order.

### 1.12 Drivers of the Arduino (`lib/CAN-BUS_Shield/mcp_can.cpp`, `src/EasyCAT.h`)
State: transmit and receive buffers, flags and mode of the MCP2515; reset progress, register access and FIFOs of the LAN9252.
Operations: `begin`, `init_Mask`, `init_Filt`, `sendMsg`, `trySendMsgBuf`, `sendMsgBuf`, `readRxTxStatus`, `readMsgBuf`;
`Init`, `MainTask`.  Hard: each call is several accesses to a controller that works in between; a status that is old when it is used; images longer than a
FIFO.  Correct means: messages arrive as they were given, images are passed whole.

### 1.13 Force/torque conversion (`main.cpp` 183-252, `util.h`, `simple_test3.c` 156-163)
Pure functions from CAN bytes over digit and bit strings to a number, a force and a
byte.  Hard: leading zeros, sign, the most negative number, the narrowing to int8_t.

### 1.14 Not modelled, and why
| Part | Why |
|------|-----|
| Text output (`ethercatprint.c`) | formatting; its reader of the error list is in ErrorList |
| `slaveinfo`, `firm_update`, `ebox`, `aliastool` | arguments and printing around the library; of the tools `eepromtool`'s access is in Sii |
| Opening and closing of sockets, adapters, interrupts of the ports | one-shot system calls |
| Redundant mode of intime, rtk, erika | does not compile, asserts, uses the primary device (section 5) |
| `ethercatconfiglist.h`, broadcasts that reset the slaves in `config_init` | a table; register writes without an answer |
| Sleeping, wake-up, interrupt flags and pins of the MCP2515 | one register each, unused by the program |
| Sketches that preceded the program (`191121-...`, `easyCAT_check/src/main.cpp`, `TestEasyCAT`) | superseded; `easyCAT_check/src/EasyCAT.h` is the same file as the one modelled |
| Vendored pcap headers, examples of the CAN library | third-party code |

## 2. Modules

| Module | Models | Composes or uses |
|--------|--------|------------------|
| `Transactions` | abstract: what a blocking primitive promises | |
| `NicPort` | 1.1, threads on one interface | implements `Transactions` (`CallsAnswered`) |
| `RedPort` | 1.1, redundant mode; also of win32, macosx, rtems, vxworks | |
| `Datagrams` | 1.1, frames of several datagrams | |
| `Ports` | 1.2 | implements `Transactions` (`PortsKeepPromise`) |
| `MCPorts` | the views of the port for TLC | extends `Ports`, `RedPort`, `Datagrams` |
| `ErrorLog` | abstract: queue that drops its oldest report | |
| `ErrorList` | 1.3 | implements `ErrorLog` (`RingIsLog`) |
| `Mailbox` | 1.4 with a CoE client and a slave | datagrams as NicPort delivers them: a reply, or none |
| `MCMailbox` | for TLC | extends `Mailbox`, `ErrorList` |
| `MailboxService` | 1.5: calls one after the other over one mailbox that keeps what they leave | the promise `Mailbox` is checked for |
| `SdoTransfer`, `ObjectInfo`, `SoeTransfer`, `Eoe` | 1.5: CoE transfers, the other CoE calls, SoE, EoE | extend `MailboxService` |
| `Services` | the services of one slave together | the four above |
| `FoE` | 1.5: file transfer | the promise of `Mailbox` |
| `SlaveServices` | for TLC | `Services`, `FoE` |
| `SlaveList` | indices of `ec_slave` | |
| `Discovery` | 1.6: counting, addressing and identifying slaves datagram by datagram | |
| `SiiSections`, `SlaveSetup`, `Topology` | operators: section readers, set-up of a slave, tree and delays | |
| `Configuration` | 1.6, 1.7: the loops of `config_init`, `find_mappings`, `configdc` over the operators | `SlaveSetup`, `Topology`, then `Sii` |
| `Sii` | 1.6: cache, ownership, reading and writing of EEPROMs; `eepromtool` | |
| `DcSync` | 1.7: SYNC0 and SYNC1 | |
| `MCConfiguration` | networks for TLC | extends `Configuration`, `Discovery`, `DcSync` |
| `IOMap` | 1.8 | |
| `ProcessData`, `MCProcessData` | 1.9; networks for TLC | extends `IOMap`: exchanges over an image the mapping has made |
| `Supervisor` | 1.10 | |
| `FtAcquisition`, `FtConvert` | 1.11, 1.13 | |
| `CanMessages`, `EasyCat` | 1.12 | |
| `ForceTorque`, `MCForceTorque` | the Arduino program; identifiers for TLC | the four above |
| `*Proofs` | theorems: `NicPortProofs`, `SupervisorProofs` about the module they are named for; `ProcessDataProofs` about `IOMap`, `ProcessData` and `FtAcquisition`; `PortsProofs` about `Ports`, `Datagrams`, `RedPort`; `MailboxProofs` about `ErrorList`, `Mailbox`; `ConfigurationProofs` about `Discovery`, `DcSync`, `Sii` and the tree in `Configuration`; `ServicesProofs` about `FoE` and the frames of `Services`; `CallsProofs`, which extends it, about the calls of `Services` | |

Modules that are independent of each other are shown in one run by a variable `part`: a behaviour
takes the steps of one of them while the variables of the others rest, so the run's states are the sum, not the product, of theirs.

An operator whose name ends in `_Wrong`, `_Endless` or `_Never` is a
faulty variant of the definition after it; nothing uses it, it serves to show
that a property can fail.

### How state and actions correspond to the code

**NicPort.** `rxbufstat`, `txbuf`, `rxbuf`, `lastidx`, `tempbuf` and the two mutexes
are the port's fields; `pc`, `idx`, `cnt`, `tries`, `wkc` are a thread's locals; `wire`
holds frames between send() and recv().  A step is the stretch between two points where
another thread can interfere.  `GetIndex`/`ScanNext`/`TakeIndex` are the search, with
the mutex held but other threads changing statuses; `MarkTx` and `Send` are
`outframe`, in that order; `PollHit`/`PollMiss` are the unlocked look at the
buffer, `RecvOwn`/`RecvOther`/`RecvStray`/`RecvNothing` the locked part, with `StoreOther`
a step of its own because the owner may leave between the status test and the copy;
`Resend`/`GiveUp`/`CopyData`/`Release` are `srconfirm` and the end of the
primitive.  `LateFrames` lets a timer expire while a frame is still on its way,
`SendFailures` lets send() return -1.  A datagram is its thread and number.

**RedPort.** One index, one call of `srconfirm`.  The ring turns frames round at a break; a frame is
worked on by the slaves it passes in processing direction.  `WaitInFrame` follows `waitinframe_red`, with one operator per system (`LinuxWait`, `VxWait`, ...): wait for both answers,
then decide by their routes, read from the source addresses, whether to return one, to combine, or to send the dummy's content once more.

**Datagrams.** A frame maps byte positions to what was written there.  Actions are `setupdatagram`, one `adddatagram` each,
one step per datagram the slaves find in the frame, the reading.  Three callers: a primitive, `LRWDC`, `readstate`.

**Ports.** One module, seven systems: the actions are those of NicPort with the differences of each driver as operators
(`erika` holds its lock over the search and drains the socket, `intime` sends once, `vxworks` has a network task and queues).

**ErrorList.** One action per reporter, one for `poperror`, one for the loop
around `elist2string`.  A report is its type and slave.

**Mailbox.** `pc` is a place in the three functions, every register access is a
datagram that succeeds, is lost on the way out, or is lost on the way back.
The client is the pattern of all protocols: drain with time 0, send, receive.  The slave
is external: it answers each request once, drops a request with the counter of the last,
and on a toggled repeat bit puts its last mail back in front.  `handled`, `latest`,
`forgone` and `hurried` are history variables for the properties.

**MailboxService and its services.** A call is drain, send, receive, and what the service does with the answer;
sending succeeds, fails, or fails although the slave got the mail; receiving gets the oldest answer or times out, and the answer then
stays for a later call.  A byte is its writer and its position, so that a mixture of two writes is visible.

**FoE.** One action per kind of answer in the loop; the file is the sequence
of its positions; a mailbox call delivers once and in order or fails.

**Discovery.** One action per datagram of the loops up to the mailbox settings; each is repeated as the code repeats it and can be lost
either way.  Slaves that still have an address of an earlier session answer too, the last one over the others.

**Configuration, SlaveSetup, SiiSections, Topology.** A step is one slave in one loop.  What the step does is an
operator on the entry: the section readers work on EEPROM bytes, the mapping goes through its five sources, the parent search
and the delays follow the C loops over ports.

**Sii.** A word is its slave, its place and how often it was written.  An action is one datagram; the section readers are reads at any addresses.

**DcSync.** An action is one datagram of `dcsync0` or `dcsync01`, or the passing of time.

**IOMap.** The mapping is a pass over the slaves; an action maps or skips one slave, or
ends a direction.  `LogAddr`, `BitPos`, `seg` are the C variables.  The sync managers,
which the code has read from SII or CoE before, are data.  A *setup* is a
network and a way to map it: groups, sequential or overlapped, which slaves block LRW.

**ProcessData.** `SendFrame` is one turn of the sending loops (one frame along the
segment list); `Cross` is the ring: each frame passes the slaves, some of
which answer, and comes back or is lost; `PullAnswer`/`PullNothing` are one turn of
the receive loop.  Memory is bit by bit: an output bit is the number of
the write it comes from, an input bit the cycle that brought it.

**Supervisor.** Three threads; one action is one datagram and what the thread does until the next.  `sup` is the supervisor's place in
`ecatcheck`, `reconfig_slave` or `recover_slave`.  Slaves have an address, an AL state (the set of its bits, as the broadcast ORs them), sync managers and FMMUs.

**FtAcquisition.** One action per call or polling turn of the timer function;
`Transmit` and `Arrive` are the bus and the sensor.  A sample is its number.

**FtConvert.** The functions of `util.h` and the conversions of `main.cpp`, at a width
that TLC can enumerate.  Powers are a recursive function.

**CanMessages.** An action is one access to the controller, which sends (`Transmit`) and receives (`Arrive`) in between.  The buffers hold the four
identifier registers as the code fills them; a message is its number.

**EasyCat.** An action is one register access of `Init` or `MainTask`, or one group of four bytes through a FIFO; the controller carries commands out, fills and drains
the FIFOs and gives images as wholes.

## 3. Runs

State counts are rounded.

| Run | Instance | States | Shows |
|-----|----------|--------|-------|
| `nic_port` | 2 threads, 2 indices, 2 calls each, 2 sends per call, losses | 472,000 | exclusive indices, refinement of Transactions |
| `nic_live` | 2 threads, 1 call each, losses, late frames, failing send() | 111,000 | every call returns; an index is lost only to a reply filed after its call was over |
| `ports` | 7 systems with 2 threads; redundant mode of 5 systems over 3 slaves, 2 sends, 2 lost frames, 2 changes of the cable; frames of up to 3 datagrams for up to 7 slaves | 88,000 | each driver implements Transactions and its calls end; a break is tolerated and the answer is the datagram; each caller reads its own |
| `mailbox` | ring of 4 reports; 3 transfers, counter up to 2, 2 sends, 1 unasked mail, 1 loss, timers | 445,000 | refinement of ErrorLog, flag covers the list; no mail skipped, no request twice, own answer, transfers end |
| `services` | 2 calls of any service, 2 faults, objects of 3, 9, 16 bytes in mails of 3; files of 0..6 bytes in packets of 2 | 250,000 | what is read is the slave's, what is confirmed is stored, complete frames were sent so, the copy is a prefix, calls return |
| `foe_busy` | without faults | violation | a busy answer ends a write with success |
| `process_data` | mappings: 3 slaves in 2 groups, both functions; exchanges: 2 slaves, LRW with DC, LRD and LWR, overlapped | 423,000 | disjoint, complete, pointed at; work counter if and only if complete; outputs kept |
| `io_map_broken` | one mapping of all slaves | violation | a segment boundary inside the sync manager of a bit-oriented slave |
| `configuration` | discovery of 3 slaves with 2 losses; all trees of 5 slaves, up to 2 of them without clocks; lines of 8 types of slaves; EEPROMs of 3 words, 3 calls, 1 loss, 1 refusal; 2 clocks with 3 requests | 770,000 | identities, parents, delays, set-up, mapping, EEPROM words and owners are each slave's own; pulses come together |
| `address_reused` | 3 slaves with addresses of an earlier session, no loss | violation | a slave gets the EEPROM flag of another |
| `supervisor` | 3 slaves, one of them steady, 2 faults, 1 loss, main may end | 328,000 | own addresses, operational slaves left alone, all operational again |
| `force_torque` | samples modulo 4, 3 polls; readings of 2 bytes; 3 messages out, 2 in; images of 0 and 13 bytes through FIFOs of 8 | 568,000 | coherent samples, in order, all of them, cycles end; exact conversion; messages and images whole |

**Why the bounds are enough.**  NicPort and Ports: two threads are enough for every pairwise
interference (one files, one owns); two indices make a wrong wrap or a shared index visible; a
second call reuses an index, a second send repeats a frame; more threads than indices is a
different question (section 5).  In `ports` every system but VxWorks, whose queues outlive a call, makes one call less; that each
implements Transactions is proved for any number of calls.
RedPort: three slaves have one on either side of a break and one between two; two losses can take the primary and the dummy, or a frame and its repetition; two changes can move the break while a call is under way.
Datagrams: the frame of one, of two and of MaxMulti datagrams, with seven slaves a `readstate` needs three frames, the last not full; the proof covers all numbers.
ErrorList: four entries are passed round several times within the reachable states, and the proof covers every size.
Mailbox: a counter up to 2 wraps within three transfers; one unasked mail comes before, between and after the answers; the second
loss is discussed in section 5.  Services: with mails of 3 bytes, 3 is expedited, 9 needs segments of an odd and 16 of an even number; two calls show every way in which
the second meets what the first left.  FoE: 0, 1, a full packet, one more, several full packets, are all among 0..6 bytes of 2; the proof covers all sizes.
Discovery: three slaves let an old address be behind and before a slave; the second loss hits the repetition.  Trees of five slaves contain every pair of branches that a slave
with four ports can have, and two slaves without clocks can stand at a split, in a row, or apart; the lines of SlaveSetup have each of the five sources fail, and a twin behind.  Sii: three words are less than one wide read and more than one narrow.
DcSync: two clocks, three requests, so that one is set anew between.
IOMap: three slaves let a bit-oriented one stand before,
between and behind others, and a group end in a begun byte; segments of 4 bytes make all boundary
cases happen with slaves of at most 3 bytes.  ProcessData: images of up to 8 bytes in
segments need up to four frames, more with LRD and LWR.  Supervisor: two slaves that drop out, one behind the other, shift positions
while the other is recovered; the steady one is what must be left alone.
FtAcquisition: numbering modulo 4 tells a sample from
its two neighbours on either side; the proof covers every numbering.  FtConvert: the high byte
decides sign and leading zeros, and the low bytes chosen have all the cases of a nibble with
and without leading zero.  CanMessages: three messages fill the buffers that are not reserved and one more, identifiers of both kinds have bits in every register.
EasyCat: 13 bytes take both rounds of a FIFO of 8, the second one not full; two images can be mixed up.

CHECK_DEADLOCK is FALSE where the modelled code simply ends: the mapping when all groups are mapped, the exchange after the bounded cycles, the
configuration when it is done and its calls are made, a conversion when the byte is published, the supervisor when the main thread has ended.

**Fairness.**  `nic_live`: weak fairness of every thread's step (the operating system schedules runnable threads,
and a mutex holder leaves it), and strong fairness of `GiveUp`: a timer compares against a clock
that advances, so a thread that keeps looking at its timer finds it expired.  No
fairness for the network: all frames may be lost.  `ports`: the same for the other systems, with strong fairness of
taking a lock (a thread that waits for it gets it in the end), of reading the socket and of the timer, and weak fairness of the network task of vxworks.
`mailbox` and `services`: weak fairness of the one
master thread and of its timer; none for the slave, which may be silent for ever (in `services` it goes on running unless `SlaveStops`).
`supervisor`: weak fairness of the supervisor and of the cycle, which are threads that sleep between rounds, and of each slave's reaction to a state it was
told; faults and losses are bounded, as nobody can promise recovery from a network that always fails.
`force_torque`: weak fairness of the program, of the bus and of the sensor (a frame
under way arrives); the timer interrupt needs none.

**Mutants.**  For every property of a passing run PROJECT.json names a faulty variant of a definition (a dropped test, a wrong
bound, a missing reset) with which TLC finds the property violated.

## 4. Proofs

All theorems are in the `*Proofs` modules and hold for every value of the constants that
satisfies the assumptions of the modules, plus the named hypotheses.

**NicPortProofs** (`TypeCorrect`, `IndicesLostOnlyLate`, `FiledWhereAwaited`, `IndicesExclusive`, `AnswersOwn`,
`PortImplementsCalls`).  The first three need no hypothesis: any threads, more of them than indices too, replies that come
late or never, send() that fails.  The other three assume
`Prompt` (a timer does not expire while a frame is under way, and send() works) and
`Roomy` (no more threads than indices); section 5 shows that each is needed.

A thread that files another's reply tests the status of the buffer, copies and marks it in steps between which the
owner may time out, release the index, and another call may take it.  What is true whatever happens is in `RouteInv`: a
request that is still somewhere on index s (its transmit or receive buffer, a frame, the frame being filed: `Carries`) is of a call that
has s or is over (`Tied`), and an index nobody has is EMPTY, or RCVD with a reply.  Hence the two theorems: a reply is filed
where its call looks for it, or the call is over by then, and only in that case an index stays RCVD, which the search passes over for ever.

`TypeInv` adds to the types that mutexes are held exactly around the code they guard and
that a buffer marked as received holds a frame.  `PortInv` is inductive relative to it:
*SlotInv*, an index in use has exactly one owner, and a search always has a free
index ahead of it; *FramesAwaited*, every frame under way answers the present call of its
thread, which waits on the frame's index, and there is at most one; *Private*, the buffers
of an index hold the owner's data.  Exclusiveness alone is not inductive: whether an
index is free depends on no stray frame setting its status, whether
a frame is stray depends on its owner still waiting, and whether the owner still waits on
what its buffer holds.  That a search finds a free index is a pigeonhole argument on
cardinalities, with `FreeAhead` following the search.  The refinement maps a call to idle, asking or done.

**PortsProofs**, the seven ports (`PortInvariant`, `EveryPortKeepsPromise`): assume `Roomy`, not more threads than indices; a timer
expires only when the thread's frame is not under way, as in the model's actions.  `PortInv` is like that of NicPort, but the drivers differ in who holds what when, so the step lemmas are about the
parts they share (`Allocate`, `Transmits`, `TakeOwn`, `TakeOther`, `StoreOther`, ...) and one lemma says that each system's step is one of them.  A thread is allowed to read a foreign frame, to find its
own answer filed, or to be filed for while it sends again; `Private` is what all of these leave to a thread, `Framed` that a frame under way is awaited and the only one of its thread.

**PortsProofs**, frames (`InvariantHolds`, `EachReadsOwnAlways`): no hypothesis beyond the parameters; any number of datagrams of any lengths.  The invariant says of
each datagram written so far where it is and what is in it (`Layout`), that they follow each other without overlap (`Ordered`, `Enclosed`), and
where the slaves are in the frame and what they have done to it (`Walk`, `Served`).  The lemmas are about bytes: what `Put` leaves alone.

**PortsProofs**, redundant mode (`BreakToleratedAlways`, `AnswerIsDatagramAlways`): assume `InTime` (`LateFrames = FALSE`; section 5 shows that the second needs it); any number of slaves and
transmissions, a break anywhere.  `CalmInv` follows the datagram and the dummy of an undisturbed call from place to place (`Travels`): each is
with one interface, and what the slaves did to it is fixed by the place.  `AnswerInv` is about disturbed calls: as long as the cable changed at most once, the slaves that worked on the datagram by the primary side are those before the break
(`Front`), and what the secondary side sends once more is worked on by the others.  It takes two changes for a slave to work twice: the break moves from behind the slave to before it while the call goes on; the property leaves that case out, as
the code has no means against it.

**MailboxProofs**, the link layer (`BoxInvariant`, `RequestOnceAlways`, `AnswerIsOwnAlways`, `NoMailSkippedAlways`): no hypothesis; each property names the losses it allows.
None of the three is inductive.  *Orderly*: a mail in the slave's mailbox is the last request repeated if and only if its counter is that of the last one, because the counter moves once per request, and no mail of a request is written before its counter has.
*Handshake* and *OwnReply*: without loss the repeat bits differ only while the master waits for them, and there is one order or one reply
under way.  *Numbered*: mails stand in the order they were produced, and the one kept for a repeat is the one before them.
*NoneSkipped*: so the mail whose read was lost is that one, and the repeat that brings it back is asked for or on its way.

**MailboxProofs**, the error list (`ListTypes`, `SignalsAlways`, `FlagAlways`, `RingImplementsLog`): no hypothesis.
The invariant `ListInv` is the conjunction of the three, and the argument is arithmetic on
positions: `Slot(i)` is the i-th pending entry, a push on a full ring shifts
all of them by one.

**ServicesProofs**, file transfer (`TransferHolds`, `PrefixAlways`, `CopyIsPrefixAlways`): the copy is a prefix for files, buffers and mailboxes of any size; that success means the
whole file needs mailboxes of one size (`DataL = DataRl`, section 5).  At most one mail is under way; `IInv` says what it can be: the packet behind what the
receiver has, under the number both sides expect (`ToSlave`, `FromSlave`), its acknowledge, or one that ends the transfer.  Prefix alone is not
inductive, as it says nothing about the mail that is still to be appended.

**ServicesProofs**, frames of EoE (`ServicesInvariant`, `FrameWholeAlways`): for any objects, sizes, calls and frames, with fragments lost, read twice, or mixed
with the answers to calls of every other service, abandoned ones too.  `ServicesInv` is the type invariant of requests and slave together with `FrameInv`.  The fragments in the mailbox are those of the
frames sent (`AreSent`), in order (`InTurn`), and what is put together is the beginning of a frame b (`Begun`) of which, or of a later one, is every fragment still to come (`From`).
A fragment is joined to it by its number in the frame and the number of the frame modulo 16, so the proof needs that a fragment with the number of b is of b:
between two frames of one number are fifteen whose last fragments are all missing, each by a fault of its own (`Missing`), since an assembly ends with the last
fragment whether it fits or not.  Hence the two assumptions.  `FewFaults`: less than 16 faults.  `FramesFit`: every frame, with a time stamp, fits into the buffer the hook is given (1024 bytes in `eoe_test.c`:51); larger ones
are cut (section 5).  The case of the time stamp is excluded by the property.

**CallsProofs** (`TalkAlways`, `ReadIsObjectAlways`, `WriteIsStoredAlways`): no hypothesis; for any objects, mailbox lengths, calls and faults, fragments of frames between the mails of a call.
The properties speak of what a call returns; `TalkInv` says of every place in a call what must hold for that.  `Waiting` puts the fragments aside: what else is in the mailbox is a sequence q, in its order.
`Talk(q)` says for each kind of call what q is.  The pieces of a list of objects or of a value of SoE wait all at once (`ListParts`, `SoeParts`); the segments of an upload are asked for one by one, but one whose answer was late
is asked for again and leaves one more in the mailbox, the next in order (`UploadParts`); of a download one confirmation may be late in this way, which the property allows (`SegmentReady`, `SegmentGiven`); otherwise one answer waits.
The octets had so far, those in the answers that wait, and those the slave has still to send are the object (`ReadTalk`, `ListTalk`, `SoeReadTalk`); the octets the slave has, the request
and the rest are the data of the call (`WriteTalk`, `SoeWriteTalk`), or the slave aborts.
Nothing is said of a call that begins while the slave still holds mails of earlier ones (`clean`), as in the properties.

**SupervisorProofs** (`AddressIsOwnAlways`, `AloneAtTempNode`, `OperationalSlavesLeftAlone`): for any number of slaves, the first and the third for slaves of
different identities, whichever datagrams are lost and slaves drop out, as long as no two slaves, present or away, have the temporary address at one time (`Alone`).
`AddressInv` adds that whoever has the temporary address when it is given away is the one whose identity was compared, though it may leave and come back in between.
`Alone` is needed: a slave stranded at the temporary address by a lost datagram, or one that left with it, answers together with the next one that is put there, the identity of one is
compared and both are given the address (section 5).  `AloneAtTempNode` shows where it holds, for slaves of one type also: no slave drops out while it is handled and no datagram of `recover_slave` is lost.
Its invariant `HeldInv` says that a slave has that address only while it is in the ring and `recover_slave` is between setting and removing it (`Held`), and one slave at most is at a position (`OneAtPosition`).
That operational slaves are left alone is about states read earlier than they are acted on: `LeftInv` says that
a slave of which ec_slave says something to be repaired cannot become operational before the round comes to it, as nobody asks it to (`Settled`), nor while it is
taken through the states (`Asked`, `Rising`).  The main thread, which ends by sending ec_slave[0].state to all of them, is in `Settled`, too: that state is not OPERATIONAL then.

**ConfigurationProofs**, discovery (`DiscoveryInvariant`, `IdentityOwnAlways`): no hypothesis; any number of slaves, whatever addresses and controls they have from before.
The loops overlap: a slave is asked for its next word when the last one was fetched, so `WordsRight` says for each slave which word is in its data register, by round and place in the loop, and `EntriesRight` what of it is in the list.  From the second loop
on a slave is alone at its address (`AddressesRight`), which is not so in the first; that a try is not the last one rests on `TriesCounted`.  With one loss of a datagram that is *not* repeated, a slave may stay without an address; then nothing is fetched
of it, and a second one without an address, which it could be confused with, takes a second loss (`NobodyElse`).

**ConfigurationProofs**, tree (`ParentsRightAlways`): for any number of slaves and any tree that ports can make (`IsNetwork`: a frame passes a slave's ports in the order 0, 3, 1, 2 and finishes a branch before it enters the next).
The code tries the slaves before slave i from the last one back and keeps a count: -1 for an end, +1 and +2 for a split and a cross.  As each child is at a port of its own, a slave counts one less than it has children (`LinksCounted`), so by induction the count is the number of
slaves plugged into those passed, less the number passed (`CountIsBelow`).  At the parent of i all those between are plugged in there or below it, and i itself, so the count is not negative; at every slave behind the parent it is, as of those plugged into it and the following
only the slaves between it and i are left (`ParentFound`).  `TreeInv` keeps the numbers of open ports, which measuring the delays leaves alone (`ClockKeepsTree`).

**ConfigurationProofs**, clocks (`PulsesTogether`): for any clocks, cycles and shifts; by arithmetic on starts that are multiples of the cycle.

**ConfigurationProofs**, EEPROMs (`FetchedIsWordAlways`, `OwnerAsBelievedAlways`): no hypothesis; for any slaves, words, retries and calls, with as many losses and refusals as the properties name.
Within them a stage that is left was heard: `Counted` bounds the tries of a stage by the datagrams lost.  From that follow that the EEPROM is the master's while a command
runs and that the data register holds the words of this command (`Working`); that a dump or a copy has what it has passed (`Copying`); that a
slave is with whom ec_slave says unless it is being handed over (`Believed`).

**ProcessDataProofs**, mapping (`MapInvAlways`, `RegionsDisjointAlways`, `PointersRightAlways`, `ImagesCompleteAlways`): for any slaves, layouts, groups, frame length and stride of the groups.
`MapInv` says of each FMMU that it is inside its group's outputs or inputs or, while its group is mapped, before the first free bit; as each new FMMU starts behind that bit, two of them cannot meet.
`PointInv` says that a slave's pointer names the first of its FMMUs, and that the pass has not come to a slave without FMMUs; `SegInv` that the segments' lengths add up to the address reached, and where in them the inputs start.
What a slave's FMMUs cover follows from the list that `ByteFmmus` makes (`ListShape`, `FmmusCover`).  Sums over lists and the list of FMMUs are recursive *functions*, whose
steps are proved by well-founded induction (`Recursion`, `UpTo`).  The hypotheses are what the code relies on without looking:

- `ImageFits`: a group's image does not reach into the addresses of the next group (`EC_LOGGROUPOFFSET`), which no function tests;
- `OneMapping`: the groups that are mapped are group 0 alone or others, so that a slave is mapped once; the second time its FMMUs would be there twice and its pointer stays where it was;
- `FrameHolds`: the data of one slave and a begun byte fit in a frame, as a slave is never cut;
- `SegmentsLeft`: another of the `EC_MAXIOSEGMENTS` segments is left, as in the last one `ecx_config_map_group` drops what does not fit;
- `SmsInOrder`: a slave's sync managers ascend and have at most one gap.  `ByteCount` (`ethercatconfig.c`:932) is never reset between FMMUs: with two gaps the second FMMU is too long.

TLC finds all five true in the run `process_data`.

**ProcessDataProofs**, exchange (`OutputsKeptAlways`): for any such image, any losses and silent slaves, over a run of any length.
`KeptInv` says of every frame, and of what the sending loop has yet to put in one, that its data is copied back behind the outputs (`BehindOutputs`: LRD, or compensated for an overlapped image), or
stands where it came from (`InPlace`) and has the outputs as they are (`Unspoilt`): what a slave fills is of its input FMMUs, which by `MapInv` begin behind the outputs.
`HeadInv` says where outputs and inputs begin in the IOmap and in the segments.  Hypotheses: `FrameHolds`, `ImageFits` and `SegmentsLeft` as above; `IOmapHolds`, that the application's IOmap is as large as the outputs, which no function tests;
`WriteInFlight = FALSE`: an application that writes outputs between the two calls loses them to the frame that comes back, as the run with TRUE shows (section 5).  TLC finds `IOmapHolds`, `HeadInv` and `KeptInv` true in the run.

**ProcessDataProofs**, work counter (`WkcProvesCycleAlways`): for any such image, any losses and silent slaves, a counter of at least the expected value means that every output was taken and every input read is of this cycle.
The counter is a sum over frames of what slaves add, the expected one a number of FMMUs, and the proof never equates the two sums: it carries sets of FMMUs.
Each frame on its way back tells of FMMUs it served, whose worth (1 for an input, 2 for an output) is at least its counter (`Tells`); a slave adds once per datagram and has an FMMU there, so what it adds is never more than they are worth (`WkcFits`).
What `ec_receive_processdata` has added up is at most the worth of FMMUs served that no later frame serves (`Received`, for which no FMMU is in two frames: `FramesApart`), also where the counter of the DC datagram's frame is assigned;
`CountInv` says that the expected counter is at least the worth of all FMMUs, so that only all of them reach it (`AllCounted`), and `PointInv` that the application reads where they are (`BackIsFresh`).
Hypotheses, besides `OneMapping`, `FrameHolds`, `ImageFits`, `SegmentsLeft` and `WriteInFlight = FALSE` as above:

- `OneGroup = TRUE` and `ReceivesSent`: the group that was sent is received, before another is sent;
- `Unbroken`: no FMMU is cut by a frame, which `ethercatmain.h`:271 promises and the run `io_map_broken` shows not to hold always;
- `Exchangeable`: the IOmap holds the whole image, and an overlapped image is alone in the IOmap and exchanged by LRW (section 5).

TLC finds these, `CountInv` and `WkcInv` true in the run `process_data`.

**ProcessDataProofs**, force/torque slave (`NothingIsLeft`, `SamplesCoherent`, `OneBehind`, `SamplesInOrder`): assume
`Paced`, that the sensor leaves the program time to empty a receive buffer.  `FtInv` says where the one request
and its four frames are (`Stages`), that the frames not yet read and the calls of
storeFT add up to four, and how input buffer, master's image and sensor follow each
other (`Chain`).

**Only model-checked.**

- Liveness (`TransactionEnds`, `PortCallEnds`, `TransferEnds`, `CallEnds`, `CycleEnds`, `Resumes`): it rests on fairness and ENABLED, which the prover does not handle.
- `NoFalseAlarm` of `ProcessData`: here the work counter of an undisturbed cycle, a sum over segments of the numbers of slaves that each frame meets, has to *equal* the number of FMMUs. That is an induction over the segments for which the mapping keeps no history; the bound the other way, which `WkcProvesCycleAlways` needs, holds frame by frame.
- `FtConvert` (`ValuesArrive`, with the digits of a number), `SetupOwn` and `MappingOwn` (the bytes of an EEPROM section), `ClocksRight` (times along the tree): the same, with recursive functions over data of any shape.

## 5. Where the code does not do what is expected

Three are runs that end in a violation, with the trace to look at:

- `foe_busy` (`ethercatfoe.c`:310): a busy answer ends `FOEwrite` with a positive result and an incomplete file,
  though the comment says the packet is sent again.
- `io_map_broken` (`ethercatconfig.c`:1268, and :1208 for outputs): a segment counts the bytes that a slave has completed.  In the trace the inputs are 5, 5 and 16 bits
  and a datagram holds 4 bytes, one of them outputs: slave 2's sync manager covers the bits 5 to 9, the last ones in a byte it only begins.  Slave 3, which starts at the next whole byte, adds that byte and its own two, they do not fit any more,
  and the new segment starts with the begun byte: the two bytes of slave 2 are in two datagrams, which `ethercatmain.h`:271 excludes.  A byte-oriented slave is not cut.
- `address_reused` (`ethercatconfig.c`:347): the EEPROM status is read at an address that a slave behind still has from an earlier
  session, whose answer overwrites the right one; `aliasadr` is read the same way.

The rest is by reading, or can be reproduced by changing one constant or condition; the properties are stated
so that the passing runs exclude exactly these cases.

**Port drivers**

| Change, or place | What fails | Code |
|--------|---------------------|------|
| NicPort, `LateFrames = TRUE` | AnswerIsOwn, CallsAnswered | `nicdrv.c`:417, a reply that arrives after its call gave up is returned to the next owner of its index, against :16 |
| NicPort, `LateFrames = TRUE`, IndexLostOnlyLate without its second case | an index nobody has is not EMPTY | `nicdrv.c`:431: status test and copy are not one step; a reply filed after its owner released the index marks it RCVD, and no search takes it any more |
| NicPort, three threads on two indices | IndexExclusive | `nicdrv.c`:233, the search gives up after EC_MAXBUF and takes a used index |
| NicPort, `SendFailures = TRUE` | IndexExclusive | `nicdrv.c`:288 frees the index while its owner goes on waiting |
| a reply with work counter 0 is not retried | | `nicdrv.c`:595, though :563 says so |
| RedPort, `LateFrames = TRUE` | AnswerIsDatagram | the primary's answer is discarded when the dummy is lost |
| RedPort | AnswerNeverDummy | the dummy's content is returned as an answer when both sides fail in turn |
| rtems: several frames in one read of `/dev/bpf` | all but the first are lost | `rtems/nicdrv.c`:384, :458 |
| rtems: the dummy cannot be sent | the primary's status is reset | `rtems/nicdrv.c`:371 |
| macosx: an EtherCAT frame nobody awaits | an assertion stops the program | `macosx/nicdrv.c`:443 |
| rtk | redundant mode is `ASSERT(0)` | `rtk/nicdrv.c` |
| vxworks: sending over the secondary interface | empties the primary's queue; frames that arrive before the dummy is sent are dropped | `vxworks/nicdrv.c`:436, :626 |
| intime | `outframe_red` uses an undeclared `stack`; `srconfirm` sends once; a busy transmitter is not noticed; both stacks are read by one handle | `intime/nicdrv.c` |
| erika | the redundant side uses the primary device | `erika/nicdrv.c` |
| Datagrams: `adddatagram` | sets the follows flag of the first datagram only and relies on its argument `more` for the others | `ethercatbase.c`:145 |
| Datagrams: `LRWDC` | copies `sizeof` a pointer as the clock's time; returns 0 and copies nothing when the clock's counter is 0 | `ethercatbase.c`:525 |

**Mailbox and its services**

| Change, or place | What fails | Code |
|--------|---------------------|------|
| Mailbox, `MaxLosses = 2`, NoMailSkipped without `losses <= 1` | NoMailSkipped | `ethercatmain.c`:1076: the draining call leaves a repeat request unacknowledged, the next one toggles the bit back before the slave has seen it |
| Mailbox, "no mail handled twice" | such a property | `ethercatmain.c`:1050: after an emergency the empty mailbox is taken for a lost read, the repeat brings the emergency again |
| services, `SlaveStops = TRUE` | CallEnds | `ethercatcoe.c`:213: NotLast is cleared by an answer only, the upload never ends |
| SdoTransfer | the late answer of one segment confirms the next | `ethercatcoe.c`:497 |
| ObjectInfo | answers are not compared with what was asked for; one leftover mail only is drained; `readOE` returns the result of the last entry; `RxPDO` cuts what does not fit | `ethercatcoe.c` |
| SoeTransfer, WriteIsStored without its condition | a failed fragment is left out and the rest sent, reported as success; the test for an error uses the code of reads; one fragment too many is announced at exact multiples, in host byte order; `SoEread` does not compare the IDN | `ethercatsoe.c`:252 |
| Eoe, FrameWhole without its condition | the time stamp behind the last fragment makes it be dropped (sizes 29 to 32 modulo 32); oversized frames are reported complete but cut; `EOEsend` never ends when a mailbox holds less than 32 bytes; a repeated read gives a fragment to the hook twice | `ethercateoe.c`:589, :610 |
| FoE, WriteComplete with `size = 0` | WriteComplete | `ethercatfoe.c`:267: no packet is sent for an empty file, the slave never sees its end |
| FoE, `DataRl # DataL` | ReadComplete | `ethercatfoe.c`:131 compares with the size of the write mailbox (:90) |
| FoE | a packet left over from an aborted transfer is taken for the first of the next | `ethercatfoe.c`:85, not modelled |
| error list | two threads that push at once | `ethercatmain.c`:154 has no lock; not modelled |

**Configuration, EEPROM and clocks**

| Change, or place | What fails | Code |
|--------|---------------------|------|
| Discovery, losses | a lost EEPSTAT or alias answer leaves the value of the slave before, for the first an uninitialised one | `ethercatconfig.c`:347 |
| Sii | `if(wkc)` takes -1 for success, stale data are cached; a failed read caches zeros | `ethercatmain.c`:382 |
| Sii | the owner is noted although the write failed | `ethercatmain.c`:1209, :1235 |
| Sii | the busy test returns 1 with status 0 after its timeout; a write does not invalidate the cache; a read of 8 bytes near the end overruns the cache; `siifind` wraps at 16 bits; a section of length 0 is read on | `ethercatmain.c` |
| Sii, `writeeepromAP/FP` | command and address are not converted to the bus's byte order | `ethercatmain.c` |
| eepromtool | the alias is stored with an old checksum when the second write fails, though "not written" is printed; its claim of the EEPROM is two writes that are not repeated | `eepromtool.c`:303 |
| SetupOwn, MappingOwn without their conditions | two slaves whose identity cannot be read copy each other; a twin whose mapping is empty gets that of the slave before it; MappingOwnAlways states the latter | `ethercatconfig.c`:258, :607 |
| SlaveSetup | an output sync manager without PDO stays enabled; reads that fail in `readPDOmap` give smaller sizes; of two SoE drives in one slave only the last counts | `ethercatconfig.c`, `ethercatcoe.c`, `ethercatsoe.c`:332 |
| SlaveSetup | the comment swaps RXPDO and TXPDO | `ethercatconfig.c`:609 |
| Topology, ClocksRight | wrong past 2^31, and for trees that split at slaves without clocks (DelaysRightAlways) | `ethercatdc.c`:339, :421 |
| DcSync, lost datagrams | a lost read of the time gives a start in the past, lost writes are not noticed; `dcsync01` divides by the cycle before it tests it for 0 | `ethercatdc.c`:63, :103 |

**Process data and supervision**

| Change, or place | What fails | Code |
|--------|---------------------|------|
| IOMap, a layout of three sync managers apart | EverySmMapped | `ethercatconfig.c`:935: the second FMMU is too long, the third missing |
| IOMap, PointersRight without Undisturbed | PointersRight | `ethercatconfig.c`:1460 moves the inputs of all slaves, not of the group's |
| ProcessData, overlapped with more outputs than inputs | returned data lies behind the IOmap | `ethercatmain.c`:1949 |
| ProcessData, overlapped with `blockLRW` | WkcProvesCycle, NoFalseAlarm | `ethercatmain.c`:1745 reads the inputs behind the outputs, where they are not |
| ProcessData, `WriteInFlight = TRUE` | OutputsKept, and WkcProvesCycle, which compares with the last write | `ethercatmain.c`:1949 copies outputs back, too |
| ProcessData, small `MaxBuf` | indices are lost | `ethercatmain.c`:1646 drops a frame when the stack is full |
| ProcessData, `OneGroup = FALSE` with two groups | NoFalseAlarm | `ethercatmain.c`:1921, one stack for all groups |
| ProcessData, a bit-oriented slave across two segments | WkcProvesCycle | `ethercatmain.c`:1950: it counts twice and stands in for a silent one |
| ProcessData, a slave with two FMMUs of one direction in one datagram (`ByLRW`, outputs of `TwoApart`) | NoFalseAlarm | `ethercatconfig.c`:1006, :1135: the expected counter counts FMMUs, the slave counts once per datagram |
| Supervisor, `N = 1, MaxFaults = 1, Steady = {}` | Resumes | a network of which every slave lost its power is never recovered, against `doc/soem.dox`:89 |
| Supervisor | StopIsSafe | `red_test.c`:140: `readstate` of the other thread overwrites `ec_slave[0].state` between its assignment and its use |
| Supervisor, `"reconfig" \in Exposed` | a lost write of an FMMU or sync manager leaves an operational slave outside the image | `ethercatconfig.c` |
| Supervisor, `"recover" \in Exposed` | a slave is stranded at the temporary address; a missing frame is taken for success | `ethercatconfig.c`:1521 |
| Supervisor, `N = 2, MaxFaults = 4, Steady = {}` with `"recover" \in Exposed` or with `Untimely = TRUE` | AddressIsOwn: two slaves are at the temporary address and are given one address | `ethercatconfig.c`:1521 |
| Supervisor, `Twins` of two slaves | AddressIsOwn: they may swap addresses | identity is all that is compared |
| programs | `dorun++` by one thread and its reset by another race (`red_test.c`:213); `simple_test.c`:157 starts `ec_statecheck` as a thread; `simple_test2.c` never sets `inOP`; the thread of `red_test.c` may send before `ec_init` | |

**Arduino**

| Change, or place | What fails | Code |
|--------|---------------------|------|
| FtAcquisition, `Paced = FALSE` | CycleEnds | `main.cpp`:157 waits for ever for a frame lost in the receive buffers |
| FtAcquisition, "the master has the sample of this cycle" | such a property | `main.cpp`:144: MainTask runs before sendToMaster |
| FtConvert, forces outside -128 .. 127 | SmallForceArrives without its condition | `main.cpp`:246 wraps; the comment at :236 says limited to -256 .. 255 |
| CanMessages, `Fresh = FALSE` | MessagesArrive | `mcp_can.cpp`:1034: a status saved before another call to send names a buffer that is pending, and the message in it is overwritten |
| CanMessages, `ModesLate = TRUE` | MessagesArrive | `mcp_can.cpp`:305 reads back the mode it asked for: with a message pending a mask is not written, though success is returned |
| CanMessages, `RateKnown = {TRUE, FALSE}` | MessagesArrive | `mcp_can.cpp`:580: an unknown rate leaves the controller in configuration mode without an error |
| CAN library | `ext_flg` is set by a read but never cleared (:787), though `isExtendedFrame` (:1293) reports it; the remote bit is taken from the identifier (:779); invalid numbers of masks and filters are reported as success (:938); a buffer found at the last try counts as timeout (:1084) | `mcp_can.cpp` |
| EasyCat | `Init` fails when what it waits for shows at the last look; `setup()` starts the timer although its second `Init` failed (`main.cpp`:108); the waits of `MainTask` have no timeout | `EasyCAT.h` |

## 6. Limits of the models

Limits that one should know before leaning on a result:

NicPort has no bound on the number of frames a retry can leave under way other
than `MaxSends`; failing sends of the other systems, and several threads in redundant mode, are not modelled.  ErrorList has one
thread: a second one pushing or reading at the same time is not covered.  Mailbox has one slave and one client; the services and FoE stand on its promise, with mails left by earlier calls
in the services only.  In SdoTransfer and its kin the slave is a server that keeps to the protocol.
Configuration takes a slave per step: that datagrams of its reads are lost one by one is in Discovery and Sii, and in Configuration a
reading fails as a whole.  Entry of a frame at a slave's port 1 or 2 is not modelled.  Sii does not let the busy test time out.  IOMap takes the sync managers as given
and assumes that their lengths are what the bits need.  ProcessData counts a late frame as lost; NicPort has the late ones.
Supervisor closes the ring over absent slaves; a broken ring with redundancy is RedPort's subject.
FtAcquisition assumes one timer function at a time, as the timer's period exceeds it; FtConvert uses 16
instead of 32 bits and whole forces instead of doubles.  CanMessages leaves out what filters let pass, lost arbitration and errors of the bus.  EasyCat takes the controller to answer
only when it is up, and its images to be buffered as wholes.
