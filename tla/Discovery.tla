----------------------------- MODULE Discovery -----------------------------
(***************************************************************************)
(* The first part of ecx_config_init (ethercatconfig.c): the slaves are    *)
(* counted by a broadcast, addressed one by one by their position, and     *)
(* their identities and mailboxes are read from their EEPROMs in loops     *)
(* over all slaves.  In each loop the word that was asked for in the loop  *)
(* before is fetched and the next one asked for, so that all EEPROMs work  *)
(* at once (ecx_readeeprom1, ecx_readeeprom2).                             *)
(*                                                                         *)
(* One action is one datagram, repeated where the code repeats it; it can  *)
(* be lost on its way out or back.  Where several slaves have one address, *)
(* each writes its answer over that of the one before.                     *)
(***************************************************************************)
EXTENDS Integers, Sequences, FiniteSetsExt

CONSTANTS
  DiscoveredSlaves,   \* slaves on the network
  MaxSlave,           \* EC_MAXSLAVE
  Repeats,            \* EC_DEFAULTRETRIES
  DiscoveryLosses     \* bound: datagrams lost

\* The words of an EEPROM, in the order they are read: identity, mailbox for
\* writing and for reading, mailbox protocols.
WordOrder == <<"man", "id", "rev", "out", "in", "proto">>
Fields == {WordOrder[k] : k \in DOMAIN WordOrder}
LastRound == Len(WordOrder) - 1      \* the loop of the last but one

Present == 1 .. DiscoveredSlaves

DiscoveryParameters ==
  /\ DiscoveredSlaves \in Nat \ {0} /\ MaxSlave \in Nat
  /\ Repeats \in Nat /\ DiscoveryLosses \in Nat

ASSUME DiscoveryAssumption == DiscoveryParameters

VARIABLES
  address, control, eedata,      \* slaves: station address, EEPROM control, EEPDAT
  wide, mailboxes,               \* slaves that read 8 bytes, that have a mailbox
  fresh,                         \* the slaves had no addresses
  slavecount, configadr, eep_8byte, entry, mbx_l, activeports,   \* ec_slave
  estat,                         \* the status register of the slave read last
  step, round, next, tries,
  lostgrams, unprotected         \* datagrams lost, and whether one is not repeated

slaves == <<address, control, eedata, wide, mailboxes, fresh>>
list == <<slavecount, configadr, eep_8byte, entry, mbx_l, activeports, estat>>
place == <<step, round, next, tries>>
discoveryVars == <<slaves, list, place, lostgrams, unprotected>>

Node(s) == 4096 + s             \* EC_NODEOFFSET
Unaddressed == 0
NoWord == <<0, "zero">>         \* no word of any slave

\* Addresses after power on, and those of an earlier session before which the
\* slaves stood in another order.
Powered == [s \in Present |-> Unaddressed]
Moved == [s \in Present |-> IF s = 1 THEN Unaddressed ELSE Node(s - 1)]

DiscoveryInit ==
  /\ fresh \in BOOLEAN
  /\ address = IF fresh THEN Powered ELSE Moved
  /\ control \in {[s \in Present |-> "pdi"], [s \in Present |-> "master"]}
  /\ eedata = [s \in Present |-> NoWord]
  /\ wide \in {{s} : s \in Present} /\ mailboxes \in SUBSET Present
  /\ slavecount = 0 /\ configadr = [s \in Present |-> Unaddressed]
  /\ eep_8byte = {} /\ entry = [s \in Present |-> [f \in Fields |-> NoWord]]
  /\ mbx_l = {} /\ activeports = [s \in Present |-> 0] /\ estat \in BOOLEAN
  /\ step = "detect" /\ round = 0 /\ next = 1 /\ tries = 0
  /\ lostgrams = 0 /\ unprotected = FALSE

-----------------------------------------------------------------------------
(* Datagrams                                                               *)

GramLost == lostgrams < DiscoveryLosses /\ lostgrams' = lostgrams + 1
Back == UNCHANGED lostgrams
\* Nobody asks again for what this one carried.
LostForGood == GramLost /\ unprotected' = TRUE
Goto(label) == step' = label /\ tries' = 0 /\ UNCHANGED <<round, next>>
Having(a) == {d \in Present : address[d] = a}
Here == Having(configadr[next])
Answering == Max(Here)

\* A broadcast, or a datagram to a position: effect is what it does to the slaves.
SentOnce(effect, kept) ==
  \/ effect /\ Back /\ UNCHANGED unprotected
  \/ effect /\ GramLost /\ UNCHANGED unprotected
  \/ kept /\ LostForGood

\* ecx_detect_slaves: the answer to the broadcast is the number of slaves.
Detect ==
  /\ step = "detect"
  /\ \/ Back /\ DiscoveredSlaves < MaxSlave /\ slavecount' = DiscoveredSlaves /\ Goto("force")
     \/ Back /\ DiscoveredSlaves >= MaxSlave /\ UNCHANGED slavecount /\ Goto("done")
     \/ GramLost /\ UNCHANGED slavecount /\ Goto("done")
  /\ UNCHANGED <<slaves, configadr, eep_8byte, entry, mbx_l, activeports, estat,
                 unprotected>>

\* ecx_set_slaves_to_default: "force Eeprom from PDI", "set Eeprom to master".
ToMaster == control' = [s \in Present |-> "master"]
Default(label, after) ==
  /\ step = label /\ Goto(after) /\ SentOnce(ToMaster, UNCHANGED control)
  /\ UNCHANGED <<address, eedata, wide, mailboxes, fresh, list>>
SetDefaults == Default("force", "take") \/ Default("take", "set_address")

\* "set node address of slave"
SetAddress ==
  /\ step = "set_address" /\ Goto("get_address")
  /\ SentOnce(address' = [address EXCEPT ![next] = Node(next)], UNCHANGED address)
  /\ UNCHANGED <<control, eedata, wide, mailboxes, fresh, list>>

\* The address is read back; of a lost answer it is zero.
GetAddress ==
  /\ step = "get_address" /\ Goto("status")
  /\ \/ Back /\ configadr' = [configadr EXCEPT ![next] = address[next]]
        /\ UNCHANGED unprotected
     \/ LostForGood /\ configadr' = [configadr EXCEPT ![next] = 0]
  /\ UNCHANGED <<slaves, slavecount, eep_8byte, entry, mbx_l, activeports, estat>>

\* "check if slave can read 8 byte chunks"; of a lost answer estat remains what
\* it was.
GetStatus ==
  /\ step = "status" /\ Goto("ask")
  /\ \/ Back /\ Here # {} /\ estat' = (Answering \in wide) /\ UNCHANGED unprotected
     \/ Back /\ Here = {} /\ UNCHANGED <<estat, unprotected>>
     \/ LostForGood /\ UNCHANGED estat
  /\ eep_8byte' = IF estat' THEN eep_8byte \union {next} ELSE eep_8byte
  /\ UNCHANGED <<slaves, slavecount, configadr, entry, mbx_l, activeports>>

-----------------------------------------------------------------------------
(* The loops                                                               *)

\* The next slave of the loop, or the first one of the next loop.
Advance ==
  /\ tries' = 0
  /\ IF next < DiscoveredSlaves
     THEN /\ next' = next + 1 /\ UNCHANGED round
          /\ step' = IF round = 0 THEN "set_address"
                     ELSE IF round < LastRound \/ next' \in mbx_l' THEN "fetch" ELSE "ports"
     ELSE /\ next' = 1 /\ round' = round + 1
          /\ step' = IF round < LastRound - 1 \/ (round = LastRound - 1 /\ 1 \in mbx_l')
                     THEN "fetch"
                     ELSE IF round = LastRound THEN "done" ELSE "ports"

\* The word the loop fetches, and the one it asks for.
Fetched == IF step = "fetch_protocol" THEN "proto" ELSE WordOrder[round]
AskedFor == WordOrder[round + 1]

AfterAsk == IF round = LastRound THEN Goto("ports") ELSE Advance

\* Wrong: the protocols are fetched though nobody asked for them.
AfterPorts_Wrong == Goto("fetch_protocol")

AfterPorts == IF next \in mbx_l THEN Goto("fetch_protocol") ELSE Advance

\* The mailboxes are asked about if there is one.
AfterFetch ==
  IF step = "fetch" /\ (round < LastRound - 1 \/ next \in mbx_l') THEN Goto("ask")
  ELSE Advance

\* ecx_readeeprom1: those who have the address fetch the word from their EEPROM.
Load ==
  eedata' = [d \in Present |-> IF d \in Here /\ control[d] = "master" THEN <<d, AskedFor>>
                               ELSE eedata[d]]
AskAgain == tries < Repeats /\ tries' = tries + 1 /\ UNCHANGED <<step, round, next>>
Ask ==
  /\ step = "ask"
  /\ UNCHANGED <<address, control, wide, mailboxes, fresh, list, unprotected>>
  /\ \/ Load /\ Back /\ AfterAsk
     \/ (Load \/ UNCHANGED eedata) /\ GramLost /\ AskAgain
     \/ (Load \/ UNCHANGED eedata) /\ GramLost /\ tries = Repeats /\ AfterAsk

\* Is there a length of the mailbox?  In another word anything can be there.
HasLength(value) ==
  CASE value = NoWord -> {FALSE}
    [] value # NoWord /\ value[2] = "out" -> {value[1] \in mailboxes}
    [] OTHER -> BOOLEAN

\* ecx_readeeprom2: what the slave fetched last, or zero.
TakeWord(value) ==
  /\ entry' = [entry EXCEPT ![next][Fetched] = value]
  /\ IF Fetched = "out"
     THEN \E has \in HasLength(value) :
            mbx_l' = IF has THEN mbx_l \union {next} ELSE mbx_l
     ELSE UNCHANGED mbx_l
  /\ AfterFetch
Fetch ==
  /\ step \in {"fetch", "fetch_protocol"}
  /\ \/ Back /\ TakeWord(IF Here = {} THEN NoWord ELSE eedata[Answering])
     \/ GramLost /\ AskAgain /\ UNCHANGED <<entry, mbx_l>>
     \/ GramLost /\ tries = Repeats /\ TakeWord(NoWord)
  /\ UNCHANGED <<slaves, slavecount, configadr, eep_8byte, activeports, estat, unprotected>>

\* "extract topology from DL status": whose ports they are.
ReadPorts ==
  /\ step = "ports"
  /\ UNCHANGED <<slaves, slavecount, configadr, eep_8byte, entry, mbx_l, estat>>
  /\ AfterPorts
  /\ \/ /\ Back /\ UNCHANGED unprotected
        /\ activeports' = [activeports EXCEPT ![next] = IF Here = {} THEN 0 ELSE Answering]
     \/ LostForGood /\ activeports' = [activeports EXCEPT ![next] = 0]

DiscoveryNext ==
  \/ Detect \/ SetDefaults \/ SetAddress \/ GetAddress \/ GetStatus
  \/ Ask \/ Fetch \/ ReadPorts

DiscoverySpec == DiscoveryInit /\ [][DiscoveryNext]_discoveryVars

-----------------------------------------------------------------------------
(* Properties                                                              *)

Discovered == step = "done" /\ slavecount > 0

OwnWord(s, f) == IF f \in {"in", "proto"} /\ s \notin mailboxes THEN NoWord ELSE <<s, f>>

\* When all slaves have been asked, the list has of each its own address, words
\* and ports, in the right places, however many EEPROM datagrams are lost up to
\* the number of retries, and whatever addresses the slaves had before, if no
\* datagram is lost that the code does not repeat.  And of slaves just switched
\* on it has nothing that belongs to another, whichever single datagram is lost.
IdentityOwn ==
  Discovered =>
    /\ lostgrams <= Repeats /\ ~ unprotected =>
         \A s \in Present : /\ configadr[s] = address[s] /\ Having(address[s]) = {s}
                            /\ activeports[s] = s
                            /\ \A f \in Fields : entry[s][f] = OwnWord(s, f)
    /\ fresh /\ lostgrams <= 1 =>
         \A s \in Present, f \in Fields : entry[s][f][1] \in {0, s}

\* "check if slave can read 8 byte chunks" (ethercatconfig.c): the flag is that
\* of the slave.  The code does not have this property: it asks at an address
\* that a slave behind still has from an earlier session.
WideIsOwn == Discovered /\ lostgrams = 0 => eep_8byte = wide
=============================================================================
