------------------------ MODULE ConfigurationProofs ------------------------
(***************************************************************************)
(* What is found of the slaves is their own, for any number of slaves and  *)
(* of retries, whatever addresses and controls they had before, and        *)
(* whichever datagrams are lost up to the number of retries, as long as    *)
(* each of them is repeated.  And of slaves just switched on nothing is    *)
(* another's before two datagrams are lost, repeated or not.               *)
(*                                                                         *)
(* Each loop over the slaves is at one slave, next: those before it have   *)
(* been asked for the word of this round, those after it still hold that   *)
(* of the round before.  When next is fetched from, it is alone at its     *)
(* address from the second loop on, and in its data register is the word   *)
(* of this round: nobody asked it for the following one yet, nor for that  *)
(* of another slave, and no try was the last one if tries counts losses.   *)
(*                                                                         *)
(* Slaves asked for pulses of the same cycle make them together, for any   *)
(* slaves, cycles, shifts and delays, however the calls interleave with    *)
(* the passing of time and whether or not the time was read; as long as    *)
(* no write was lost.                                                      *)
(*                                                                         *)
(* What is read from an EEPROM and what is written to it is the word that  *)
(* was meant, and the EEPROM is with whom ec_slave says, for any number of *)
(* slaves, words, calls and retries, as long as no more datagrams are lost *)
(* than one is repeated and no more than two commands are refused.  Up to  *)
(* then every datagram that is waited for is answered in the end, so a     *)
(* stage that is left was heard (cnt never exceeds the datagrams lost,     *)
(* nackcnt the commands refused): the EEPROM is the master's while a       *)
(* command runs, and what the slave has in its data register when it is    *)
(* polled are the words of this command.                                   *)
(*                                                                         *)
(* The parent that is found for a slave is the slave it is plugged into,   *)
(* for any tree: a slave with n slaves below has n + 1 open ports, so what *)
(* is counted on the way back from slave i is the number of slaves plugged *)
(* into those passed, less the number passed.  It is not negative at the   *)
(* parent, as i and all between are plugged in there or behind, and        *)
(* negative at the slaves behind it, as i is plugged into none of them.    *)
(***************************************************************************)
EXTENDS Sii, Discovery, DcSync, Configuration, SequenceTheorems, FiniteSetTheorems,
        WellFoundedInduction, TLAPS

-----------------------------------------------------------------------------
(* Where the loops are, and what they have done.                           *)

\* The steps of ecx_config_init up to the end of the loops.
Steps == {"detect", "force", "take", "set_address", "get_address", "status", "ask", "fetch",
          "ports", "fetch_protocol", "done"}
Beginning == {"detect", "force", "take"}
WordsHad == {NoWord} \union (Present \X Fields)

\* Has the slave of the loop a mailbox?
BoxHere == next \in mbx_l

\* Where the loops are.
PlaceRight ==
  /\ step \in Steps /\ round \in 0 .. 6 /\ next \in Present
  /\ step \in Beginning => round = 0 /\ next = 1
  /\ step \in {"set_address", "get_address", "status"} => round = 0
  /\ step = "ask" => round <= 5 /\ (round >= 4 => BoxHere)
  /\ step = "fetch" => round \in 1 .. 5 /\ (round = 5 => BoxHere)
  /\ step \in {"ports", "fetch_protocol"} => round = 5
  /\ step = "fetch_protocol" => BoxHere
  /\ step = "done" /\ slavecount > 0 => round = 6 /\ next = 1
  /\ step = "detect" => slavecount = 0
  /\ step \notin {"detect", "done"} => slavecount > 0

\* The types.
DiscoveryTypes ==
  /\ address \in [Present -> Nat] /\ configadr \in [Present -> Nat]
  /\ control \in [Present -> {"pdi", "master"}]
  /\ eedata \in [Present -> WordsHad] /\ entry \in [Present -> [Fields -> WordsHad]]
  /\ mailboxes \subseteq Present /\ mbx_l \subseteq Present
  /\ activeports \in [Present -> Nat]
  /\ fresh \in BOOLEAN /\ unprotected \in BOOLEAN
  /\ slavecount \in Nat /\ lostgrams \in Nat /\ tries \in 0 .. Repeats

\* What has been done for a slave.
AddressSet(d) ==
  step \notin Beginning /\ (round > 0 \/ d < next \/ (d = next /\ step # "set_address"))
AddressRead(d) ==
  step \notin Beginning /\ (round > 0 \/ d < next \/ (d = next /\ step \in {"status", "ask"}))
IsAsked(d) == d < next \/ (d = next /\ step \in {"ports", "fetch_protocol"})
IsFetched(d, k) ==
  IF k = 6 THEN round > 5 \/ (round = 5 /\ d < next)
  ELSE \/ round > k
       \/ round = k /\ (d < next \/ (d = next /\ step \in {"ask", "ports", "fetch_protocol"}))
PortsRead(d) ==
  \/ round = 5 /\ (d < next \/ (d = next /\ step = "fetch_protocol"))
  \/ round > 5

\* Nothing was lost that is not sent again.
AllRepeated == lostgrams <= Repeats /\ ~ unprotected

\* Slaves were found.
Running == slavecount > 0

\* The addresses, those of before the code set them among them.
AddressesRight ==
  /\ step \notin {"detect", "force"} => \A d \in Present : control[d] = "master"
  /\ \A d \in Present :
       /\ IF AddressSet(d) THEN address[d] = Node(d) ELSE address[d] \in {0, Node(d - 1)}
       /\ AddressRead(d) => configadr[d] = Node(d)

\* Who was asked in this loop has the word of the next one to fetch, who was not
\* yet has that of this one.
WordsRight ==
  \A d \in Present :
    /\ IsAsked(d) /\ (round < 4 \/ d \in mbx_l) =>
         eedata[d] = <<d, WordOrder[round + 1]>>
    /\ ~ IsAsked(d) /\ ~ (d = next /\ step = "ask") /\ round > 0 /\ (round < 5 \/ d \in mbx_l) =>
         eedata[d] = <<d, WordOrder[round]>>

\* In ec_slave is what was fetched, and nothing else; who has a mailbox is known,
\* and whose ports are whose.
EntriesRight ==
  \A d \in Present, k \in DOMAIN WordOrder :
    entry[d][WordOrder[k]] = IF IsFetched(d, k) THEN OwnWord(d, WordOrder[k]) ELSE NoWord
BoxesRight == \A d \in Present : d \in mbx_l <=> IsFetched(d, 4) /\ d \in mailboxes
PortsRight == \A d \in Present : PortsRead(d) => activeports[d] = d

\* Each try but the first is one that was lost.
TriesCounted == tries <= lostgrams

\* If everything lost is sent again, all of ec_slave is right; and before slaves
\* are found it is empty.
ListRight ==
  AllRepeated /\ Running =>
    AddressesRight /\ WordsRight /\ EntriesRight /\ BoxesRight /\ PortsRight
ListEmpty ==
  ~ Running =>
    /\ \A d \in Present : /\ address[d] \in {0, Node(d - 1)} /\ configadr[d] = Unaddressed
                          /\ fresh => address[d] = Unaddressed
    /\ mbx_l = {} /\ \A d \in Present, f \in Fields : entry[d][f] = NoWord

\* Of a slave whose address is zero, or was not read, a datagram was lost.
Astray(d) ==
  (AddressSet(d) /\ address[d] = Unaddressed) \/ (AddressRead(d) /\ configadr[d] = Unaddressed)
NobodyElse ==
  /\ \A d \in Present : eedata[d][1] \in {0, d}
  /\ fresh /\ Running =>
      /\ \A d \in Present :
           /\ address[d] \in {Unaddressed, Node(d)} /\ (~AddressSet(d) => address[d] = Unaddressed)
           /\ configadr[d] \in {Unaddressed, Node(d)}
           /\ Astray(d) => lostgrams >= 1
      /\ \A d, e \in Present : Astray(d) /\ Astray(e) /\ d # e => lostgrams >= 2
      /\ lostgrams <= 1 => \A d \in Present, f \in Fields : entry[d][f][1] \in {0, d}

DiscoveryInv == PlaceRight /\ DiscoveryTypes /\ TriesCounted /\ ListRight /\ ListEmpty /\ NobodyElse

\* What every lemma starts from, before anything is said of losses.
Good == PlaceRight /\ DiscoveryTypes

\* The order of the words.
LEMMA WordFacts ==
  /\ LastRound = 5 /\ DOMAIN WordOrder = 1 .. 6
  /\ WordOrder[1] = "man" /\ WordOrder[2] = "id" /\ WordOrder[3] = "rev"
  /\ WordOrder[4] = "out" /\ WordOrder[5] = "in" /\ WordOrder[6] = "proto"
  /\ Fields = {"man", "id", "rev", "out", "in", "proto"}
<1>1. DOMAIN WordOrder = 1 .. 6 /\ Len(WordOrder) = 6  BY DEF WordOrder
<1>2. 1 .. 6 = {1, 2, 3, 4, 5, 6}  OBVIOUS
<1>3. Fields = {WordOrder[k] : k \in {1, 2, 3, 4, 5, 6}}  BY <1>1, <1>2 DEF Fields
<1>4. LastRound = 5  BY <1>1 DEF LastRound
<1>5. /\ WordOrder[1] = "man" /\ WordOrder[2] = "id" /\ WordOrder[3] = "rev"
      /\ WordOrder[4] = "out" /\ WordOrder[5] = "in" /\ WordOrder[6] = "proto"
  BY DEF WordOrder
<1> QED  BY <1>1, <1>3, <1>4, <1>5

LEMMA Indices == 1 .. 6 = {1, 2, 3, 4, 5, 6}
OBVIOUS

\* Each of them is a field of ec_slave.
LEMMA WordOfRound ==
  ASSUME NEW k \in 1 .. 6
  PROVE  WordOrder[k] \in Fields
<1>1. k \in {1, 2, 3, 4, 5, 6}  BY Indices
<1> QED  BY <1>1, WordFacts

\* Where Advance goes.
NextSlave ==
  /\ next < DiscoveredSlaves /\ next' = next + 1 /\ round' = round
  /\ \/ round = 0 /\ step' = "set_address"
     \/ round \in 1 .. 5 /\ step' = "fetch" /\ (round = 5 => BoxHere')
     \/ round = 5 /\ step' = "ports" /\ ~ BoxHere'
NextRound ==
  /\ next = DiscoveredSlaves /\ next' = 1 /\ round' = round + 1
  /\ \/ round \in 0 .. 4 /\ step' = "fetch" /\ (round = 4 => BoxHere')
     \/ round = 4 /\ step' = "ports" /\ ~ BoxHere'
     \/ round = 5 /\ step' = "done"

\* Advance goes to the next slave, or to the first one in the next loop.
LEMMA AdvanceGoes ==
  ASSUME PlaceRight, Advance, round \in 0 .. 5
  PROVE  tries' = 0 /\ (NextSlave \/ NextRound)
<1>1. next \in 1 .. DiscoveredSlaves  BY DEF PlaceRight, Present
<1>2. DiscoveredSlaves \in Nat  BY DiscoveryAssumption DEF DiscoveryParameters
<1>3. LastRound = 5  BY WordFacts
<1>4. CASE next < DiscoveredSlaves
  <2>1. tries' = 0 /\ next' = next + 1 /\ round' = round
    BY <1>4, Zenon DEF Advance
  <2>2. step' = IF round = 0 THEN "set_address"
                ELSE IF round < LastRound \/ next' \in mbx_l' THEN "fetch" ELSE "ports"
    BY <1>4, Zenon DEF Advance
  <2>3. step' = IF round = 0 THEN "set_address"
                ELSE IF round < LastRound \/ BoxHere' THEN "fetch" ELSE "ports"
    BY <2>2, Zenon DEF BoxHere
  <2> QED  BY <2>1, <2>3, <1>3, <1>4 DEF NextSlave
<1>5. CASE next = DiscoveredSlaves
  <2>1. ~(next < DiscoveredSlaves)  BY <1>2, <1>5
  <2>2. tries' = 0 /\ next' = 1 /\ round' = round + 1
    BY <2>1, Zenon DEF Advance
  <2>3. step' = IF round < LastRound - 1 \/ (round = LastRound - 1 /\ 1 \in mbx_l') THEN "fetch"
                ELSE IF round = LastRound THEN "done" ELSE "ports"
    BY <2>1, Zenon DEF Advance
  <2>4. step' = IF round < LastRound - 1 \/ (round = LastRound - 1 /\ BoxHere') THEN "fetch"
                ELSE IF round = LastRound THEN "done" ELSE "ports"
    BY <2>2, <2>3, Zenon DEF BoxHere
  <2> QED  BY <2>2, <2>4, <1>3, <1>5 DEF NextRound
<1>6. next < DiscoveredSlaves \/ next = DiscoveredSlaves  BY <1>1, <1>2
<1> QED  BY <1>6, <1>4, <1>5, Zenon

\* It arrives where a loop can be.
LEMMA AdvancePlace ==
  ASSUME Good, Advance, round \in 0 .. 5, slavecount' = slavecount, slavecount > 0
  PROVE  PlaceRight'
<1>1. next \in 1 .. DiscoveredSlaves  BY DEF Good, PlaceRight, Present
<1>2. DiscoveredSlaves \in Nat \ {0}  BY DiscoveryAssumption DEF DiscoveryParameters
<1>3. slavecount \in Nat /\ slavecount > 0 /\ slavecount' = slavecount
  BY DEF Good, DiscoveryTypes
<1>4. CASE NextSlave
  <2>1. step' \in Steps /\ round' \in 0 .. 6 /\ next' \in Present
    BY <1>1, <1>2, <1>4 DEF NextSlave, Steps, Present
  <2> QED  BY <1>1, <1>2, <1>3, <1>4, <2>1 DEF NextSlave, PlaceRight, Beginning
<1>5. CASE NextRound
  <2>1. step' \in Steps /\ round' \in 0 .. 6 /\ next' \in Present
    BY <1>1, <1>2, <1>5 DEF NextRound, Steps, Present
  <2> QED  BY <1>1, <1>2, <1>3, <1>5, <2>1 DEF NextRound, PlaceRight, Beginning
<1> QED  BY <1>4, <1>5, AdvanceGoes DEF Good

-----------------------------------------------------------------------------
(* Where each datagram leads.                                              *)

\* The parameters.
LEMMA ParameterTypes ==
  DiscoveredSlaves \in Nat \ {0} /\ MaxSlave \in Nat /\ Repeats \in Nat /\ DiscoveryLosses \in Nat
BY DiscoveryAssumption DEF DiscoveryParameters

\* The broadcast.
LEMMA DetectGoes ==
  ASSUME Good, Detect
  PROVE  /\ tries' = 0 /\ round' = round /\ next' = next /\ round = 0 /\ next = 1
         /\ slavecount = 0
         /\ \/ slavecount' = DiscoveredSlaves /\ step' = "force" /\ lostgrams' = lostgrams
            \/ slavecount' = 0 /\ step' = "done" /\ lostgrams' \in {lostgrams, lostgrams + 1}
BY DEF Good, Detect, Goto, Back, GramLost, PlaceRight, Beginning

\* The two broadcasts that give the EEPROMs to the master.
LEMMA DefaultGoes ==
  ASSUME Good, SetDefaults
  PROVE  /\ tries' = 0 /\ round' = round /\ next' = next /\ round = 0 /\ next = 1
         /\ UNCHANGED <<address, eedata, wide, mailboxes, fresh, slavecount, configadr, eep_8byte,
                        entry, mbx_l, activeports, estat>>
         /\ \/ step = "force" /\ step' = "take"
            \/ step = "take" /\ step' = "set_address"
         /\ \/ control' = [s \in Present |-> "master"] /\ unprotected' = unprotected
                 /\ lostgrams' \in {lostgrams, lostgrams + 1}
            \/ control' = control /\ unprotected' = TRUE /\ lostgrams' = lostgrams + 1
<1>1. CASE Default("force", "take")
  BY <1>1 DEF Good, Default, ToMaster, SentOnce, Goto, Back, GramLost, LostForGood, PlaceRight,
              Beginning, list
<1>2. CASE Default("take", "set_address")
  BY <1>2 DEF Good, Default, ToMaster, SentOnce, Goto, Back, GramLost, LostForGood, PlaceRight,
              Beginning, list
<1> QED  BY <1>1, <1>2 DEF SetDefaults

\* The addresses.
LEMMA SetAddressGoes ==
  ASSUME Good, SetAddress
  PROVE  /\ tries' = 0 /\ round' = round /\ next' = next /\ round = 0
         /\ UNCHANGED <<control, eedata, wide, mailboxes, fresh, slavecount, configadr, eep_8byte,
                        entry, mbx_l, activeports, estat>>
         /\ step = "set_address" /\ step' = "get_address"
         /\ \/ address' = [address EXCEPT ![next] = Node(next)] /\ unprotected' = unprotected
                 /\ lostgrams' \in {lostgrams, lostgrams + 1}
            \/ address' = address /\ unprotected' = TRUE /\ lostgrams' = lostgrams + 1
BY DEF Good, SetAddress, SentOnce, Goto, Back, GramLost, LostForGood, PlaceRight, list

LEMMA GetAddressGoes ==
  ASSUME Good, GetAddress
  PROVE  /\ tries' = 0 /\ round' = round /\ next' = next /\ round = 0
         /\ UNCHANGED <<address, control, eedata, wide, mailboxes, fresh, slavecount, eep_8byte,
                        entry, mbx_l, activeports, estat>>
         /\ step = "get_address" /\ step' = "status"
         /\ \/ configadr' = [configadr EXCEPT ![next] = address[next]]
                 /\ unprotected' = unprotected /\ lostgrams' = lostgrams
            \/ configadr' = [configadr EXCEPT ![next] = 0]
                 /\ unprotected' = TRUE /\ lostgrams' = lostgrams + 1
BY DEF Good, GetAddress, Goto, Back, GramLost, LostForGood, PlaceRight, slaves

\* The status of the EEPROM.
LEMMA GetStatusGoes ==
  ASSUME Good, GetStatus
  PROVE  /\ tries' = 0 /\ round' = round /\ next' = next /\ round = 0
         /\ UNCHANGED <<address, control, eedata, wide, mailboxes, fresh, slavecount, configadr,
                        entry, mbx_l, activeports>>
         /\ step = "status" /\ step' = "ask"
         /\ \/ unprotected' = unprotected /\ lostgrams' = lostgrams
            \/ unprotected' = TRUE /\ lostgrams' = lostgrams + 1
BY DEF Good, GetStatus, Goto, Back, GramLost, LostForGood, PlaceRight, slaves

\* The next step at the same slave, and the same step once more.
Goes(label) == tries' = 0 /\ round' = round /\ next' = next /\ step' = label
Again == tries < Repeats /\ tries' = tries + 1 /\ step' = step /\ round' = round /\ next' = next

\* A word is asked for: it arrives, or it is tried again, or given up.
LEMMA AskGoes ==
  ASSUME Good, Ask
  PROVE  /\ step = "ask" /\ round \in 0 .. 5 /\ (round >= 4 => BoxHere)
         /\ UNCHANGED <<address, control, wide, mailboxes, fresh, slavecount, configadr,
                        eep_8byte, entry, mbx_l, activeports, estat, unprotected>>
         /\ Load \/ eedata' = eedata
         /\ \/ lostgrams' = lostgrams /\ Load
            \/ lostgrams' = lostgrams + 1
         /\ \/ Again /\ lostgrams' = lostgrams + 1
            \/ /\ lostgrams' = lostgrams \/ (lostgrams' = lostgrams + 1 /\ tries = Repeats)
               /\ (round = 5 /\ Goes("ports")) \/ (round < 5 /\ Advance)
<1>1. step = "ask" /\ round \in 0 .. 5 /\ (round >= 4 => BoxHere)
  BY DEF Good, PlaceRight, Ask
<1>2. LastRound = 5  BY WordFacts
<1>3. AfterAsk => (round = 5 /\ Goes("ports")) \/ (round < 5 /\ Advance)
  BY <1>1, <1>2 DEF AfterAsk, Goto, Goes
<1>4. AskAgain => Again  BY DEF AskAgain, Again
<1>5. UNCHANGED <<address, control, wide, mailboxes, fresh, slavecount, configadr, eep_8byte,
                  entry, mbx_l, activeports, estat, unprotected>>
  BY DEF Ask, list
<1>6. \/ Load /\ lostgrams' = lostgrams /\ AfterAsk
      \/ (Load \/ eedata' = eedata) /\ lostgrams' = lostgrams + 1 /\ AskAgain
      \/ (Load \/ eedata' = eedata) /\ lostgrams' = lostgrams + 1 /\ tries = Repeats /\ AfterAsk
  BY DEF Ask, Back, GramLost
<1> QED  BY <1>1, <1>3, <1>4, <1>5, <1>6

\* What is fetched, and of what.
Value(v) ==
  \/ lostgrams' = lostgrams /\ v = IF Here = {} THEN NoWord ELSE eedata[Answering]
  \/ lostgrams' = lostgrams + 1 /\ tries = Repeats /\ v = NoWord

\* A word is fetched, or zero when all tries were lost.
LEMMA FetchGoes ==
  ASSUME Good, Fetch
  PROVE  /\ step \in {"fetch", "fetch_protocol"} /\ round \in 1 .. 5 /\ (round = 5 => BoxHere)
         /\ step = "fetch_protocol" => round = 5
         /\ UNCHANGED <<address, control, eedata, wide, mailboxes, fresh, slavecount, configadr,
                        eep_8byte, activeports, estat, unprotected>>
         /\ \/ Again /\ lostgrams' = lostgrams + 1 /\ UNCHANGED <<entry, mbx_l>>
            \/ \E v : Value(v) /\ TakeWord(v)
<1>1. /\ step \in {"fetch", "fetch_protocol"} /\ round \in 1 .. 5 /\ (round = 5 => BoxHere)
      /\ step = "fetch_protocol" => round = 5
  BY DEF Good, PlaceRight, Fetch
<1>2. UNCHANGED <<address, control, eedata, wide, mailboxes, fresh, slavecount, configadr,
                  eep_8byte, activeports, estat, unprotected>>
  BY DEF Fetch, slaves
<1>3. \/ lostgrams' = lostgrams /\ TakeWord(IF Here = {} THEN NoWord ELSE eedata[Answering])
      \/ lostgrams' = lostgrams + 1 /\ AskAgain /\ UNCHANGED <<entry, mbx_l>>
      \/ lostgrams' = lostgrams + 1 /\ tries = Repeats /\ TakeWord(NoWord)
  BY DEF Fetch, Back, GramLost
<1>4. AskAgain => Again  BY DEF AskAgain, Again
<1>5. ASSUME lostgrams' = lostgrams,
             TakeWord(IF Here = {} THEN NoWord ELSE eedata[Answering])
      PROVE  \E v : Value(v) /\ TakeWord(v)
  BY <1>5, Zenon DEF Value
<1>6. ASSUME lostgrams' = lostgrams + 1, tries = Repeats, TakeWord(NoWord)
      PROVE  \E v : Value(v) /\ TakeWord(v)
  BY <1>6, Zenon DEF Value
<1> QED  BY <1>1, <1>2, <1>3, <1>4, <1>5, <1>6

\* The ports.
LEMMA ReadPortsGoes ==
  ASSUME Good, ReadPorts
  PROVE  /\ step = "ports" /\ round = 5
         /\ UNCHANGED <<address, control, eedata, wide, mailboxes, fresh, slavecount, configadr,
                        eep_8byte, entry, mbx_l, estat>>
         /\ (BoxHere /\ Goes("fetch_protocol")) \/ (~BoxHere /\ Advance)
         /\ \/ /\ lostgrams' = lostgrams /\ unprotected' = unprotected
               /\ activeports' = [activeports EXCEPT ![next] = IF Here = {} THEN 0 ELSE Answering]
            \/ /\ lostgrams' = lostgrams + 1 /\ unprotected' = TRUE
               /\ activeports' = [activeports EXCEPT ![next] = 0]
<1>1. step = "ports" /\ round = 5  BY DEF Good, PlaceRight, ReadPorts
<1>2. (BoxHere /\ Goes("fetch_protocol")) \/ (~BoxHere /\ Advance)
  BY Zenon DEF ReadPorts, AfterPorts, Goto, Goes, BoxHere
<1>3. UNCHANGED <<address, control, eedata, wide, mailboxes, fresh, slavecount, configadr,
                  eep_8byte, entry, mbx_l, estat>>
  BY DEF ReadPorts, slaves
<1>4. \/ /\ lostgrams' = lostgrams /\ unprotected' = unprotected
         /\ activeports' = [activeports EXCEPT ![next] = IF Here = {} THEN 0 ELSE Answering]
      \/ /\ lostgrams' = lostgrams + 1 /\ unprotected' = TRUE
         /\ activeports' = [activeports EXCEPT ![next] = 0]
  BY Zenon DEF ReadPorts, Back, LostForGood, GramLost
<1> QED  BY <1>1, <1>2, <1>3, <1>4

-----------------------------------------------------------------------------
(* Types and places.                                                       *)

\* Nobody tries more often than the retries.
LEMMA TriesFewer ==
  ASSUME Good, Again
  PROVE  tries' \in 0 .. Repeats
BY ParameterTypes DEF Good, DiscoveryTypes, Again

\* What TakeWord writes and where it goes.
LEMMA TakeWordGoes ==
  ASSUME Good, NEW v, Value(v), TakeWord(v), step \in {"fetch", "fetch_protocol"},
         round \in 1 .. 5
  PROVE  /\ Fetched \in Fields
         /\ entry' = [entry EXCEPT ![next][Fetched] = v]
         /\ \/ Fetched = "out" /\ mbx_l' \in {mbx_l \union {next}, mbx_l}
            \/ Fetched # "out" /\ mbx_l' = mbx_l
         /\ \/ step = "fetch" /\ (round >= 4 => BoxHere') /\ Goes("ask")
            \/ (step = "fetch_protocol" \/ (round >= 4 /\ next \notin mbx_l')) /\ Advance
<1>1. Fetched \in Fields
  <2>1. CASE step = "fetch_protocol"  BY <2>1, WordFacts DEF Fetched
  <2>2. CASE step # "fetch_protocol"
    BY <2>2, WordOfRound, round \in 1 .. 6 DEF Fetched
  <2> QED  BY <2>1, <2>2
<1>2. entry' = [entry EXCEPT ![next][Fetched] = v]  BY DEF TakeWord
<1>3. \/ Fetched = "out" /\ mbx_l' \in {mbx_l \union {next}, mbx_l}
      \/ Fetched # "out" /\ mbx_l' = mbx_l
  BY Zenon DEF TakeWord
<1>4. LastRound = 5  BY WordFacts
<1>5. next' = next \/ ~ Goes("ask")  BY DEF Goes
<1>6. CASE step = "fetch" /\ (round < LastRound - 1 \/ next \in mbx_l')
  <2>1. Goes("ask")  BY <1>6, Zenon DEF TakeWord, AfterFetch, Goto, Goes
  <2>2. next' = next  BY <2>1 DEF Goes
  <2>3. BoxHere' <=> next \in mbx_l'  BY <2>2 DEF BoxHere
  <2> QED  BY <1>1, <1>2, <1>3, <1>4, <1>6, <2>1, <2>3
<1>7. CASE ~ (step = "fetch" /\ (round < LastRound - 1 \/ next \in mbx_l'))
  <2>1. Advance  BY <1>7, Zenon DEF TakeWord, AfterFetch
  <2>2. step = "fetch_protocol" \/ (round >= 4 /\ next \notin mbx_l')
    BY <1>4, <1>7
  <2> QED  BY <1>1, <1>2, <1>3, <2>1, <2>2
<1> QED  BY <1>6, <1>7

\* The losses are a number.
LEMMA LostTypes ==
  ASSUME Good, lostgrams' \in {lostgrams, lostgrams + 1}
  PROVE  lostgrams' \in Nat
BY DEF Good, DiscoveryTypes

\* Nobody has a word or an address that there is not.
LEMMA WordTypes ==
  ASSUME NEW d \in Present, NEW f \in Fields
  PROVE  <<d, f>> \in WordsHad /\ NoWord \in WordsHad
BY DEF WordsHad

\* The last of those with the address answers.
LEMMA MaxIsMember ==
  ASSUME NEW S, S \subseteq Present, S # {}
  PROVE  Max(S) \in S
<1> DEFINE Far(x) == DiscoveredSlaves - x
           T == {Far(x) : x \in S}
           R == OpToRel(<, Nat)
<1>1. \A x \in S : x \in Int /\ Far(x) \in Nat  BY ParameterTypes DEF Present
<1>2. T \subseteq Nat /\ T # {}  BY <1>1
<1>3. PICK n \in T : \A y \in T : ~ (<<y, n>> \in R)
  <2>1. IsWellFoundedOn(R, Nat)  BY NatLessThanWellFounded
  <2> HIDE DEF R, T
  <2> QED  BY <1>2, <2>1, WFMin
<1>4. \A y \in T : ~ (y < n)
  <2>1. \A y, z \in Nat : y < z => <<y, z>> \in R  BY DEF OpToRel
  <2> HIDE DEF R, T
  <2> QED  BY <1>2, <1>3, <2>1
<1>5. PICK m \in S : n = Far(m)  OBVIOUS
<1>6. \A x \in S : m >= x
  <2> TAKE x \in S
  <2>1. Far(x) \in T  OBVIOUS
  <2>2. ~ (Far(x) < Far(m))  BY <1>4, <1>5, <2>1
  <2> QED  BY <1>1, <2>2, ParameterTypes
<1> QED  BY <1>6 DEF Max

\* Who answers has the address.
LEMMA AnsweringIsHere ==
  ASSUME Here # {}
  PROVE  Answering \in Here /\ Answering \in Present
<1>1. Here \subseteq Present  BY DEF Here, Having
<1> QED  BY <1>1, MaxIsMember DEF Answering

\* Every step leads from a place where the loops can be to another.
LEMMA PlaceKept ==
  ASSUME Good, DiscoveryNext
  PROVE  PlaceRight'
<1> USE ParameterTypes
<1>1. CASE Detect
  BY <1>1, DetectGoes DEF Good, PlaceRight, Steps, Beginning
<1>2. CASE SetDefaults
  <2>1. \/ step = "force" /\ step' = "take"
        \/ step = "take" /\ step' = "set_address"
    BY <1>2, DefaultGoes
  <2> QED  BY <1>2, <2>1, DefaultGoes DEF Good, PlaceRight, Steps, Beginning
<1>3. CASE SetAddress
  BY <1>3, SetAddressGoes DEF Good, PlaceRight, Steps, Beginning
<1>4. CASE GetAddress
  BY <1>4, GetAddressGoes DEF Good, PlaceRight, Steps, Beginning
<1>5. CASE GetStatus
  <2>1. step' = "ask" /\ round = 0 /\ round' = 0 /\ next' = next /\ slavecount' = slavecount
        /\ step = "status"
    BY <1>5, GetStatusGoes
  <2> QED  BY <2>1 DEF Good, PlaceRight, Steps, Beginning
<1>6. CASE Ask
  <2>1. step = "ask" /\ round \in 0 .. 5 /\ slavecount' = slavecount /\ mbx_l' = mbx_l
        /\ slavecount > 0
    BY <1>6, AskGoes DEF Good, PlaceRight
  <2>2. CASE Advance  BY <2>1, <2>2, AdvancePlace
  <2>3. CASE round = 5 /\ Goes("ports")
    BY <2>1, <2>3 DEF Goes, Good, PlaceRight, Steps, Beginning
  <2>4. CASE Again
    <3>1. BoxHere' = BoxHere  BY <2>1, <2>4 DEF Again, BoxHere
    <3> QED  BY <2>1, <2>4, <3>1 DEF Again, Good, PlaceRight, Steps, Beginning
  <2> QED  BY <1>6, AskGoes, <2>2, <2>3, <2>4
<1>7. CASE Fetch
  <2>1. /\ step \in {"fetch", "fetch_protocol"} /\ round \in 1 .. 5 /\ (round = 5 => BoxHere)
        /\ step = "fetch_protocol" => round = 5
    BY <1>7, FetchGoes
  <2>2. slavecount' = slavecount /\ mailboxes' = mailboxes /\ slavecount > 0
    BY <1>7, <2>1, FetchGoes DEF Good, PlaceRight
  <2>3. CASE Again /\ mbx_l' = mbx_l
    <3>1. BoxHere' = BoxHere  BY <2>3 DEF Again, BoxHere
    <3> QED  BY <2>1, <2>2, <2>3, <3>1 DEF Again, Good, PlaceRight, Steps, Beginning
  <2>4. ASSUME NEW v, Value(v), TakeWord(v)
        PROVE  PlaceRight'
    <3>1. (step = "fetch" /\ (round >= 4 => BoxHere') /\ Goes("ask")) \/ Advance
      BY <2>1, <2>4, TakeWordGoes, Zenon
    <3>2. CASE Advance  BY <2>1, <2>2, <3>2, AdvancePlace, round \in 0 .. 5
    <3>3. CASE step = "fetch" /\ (round >= 4 => BoxHere') /\ Goes("ask")
      BY <2>1, <2>2, <3>3 DEF Goes, Good, PlaceRight, Steps, Beginning
    <3> QED  BY <3>1, <3>2, <3>3
  <2> QED  BY <1>7, FetchGoes, <2>3, <2>4
<1>8. CASE ReadPorts
  <2>1. step = "ports" /\ round = 5 /\ slavecount' = slavecount /\ mbx_l' = mbx_l
        /\ slavecount > 0
    BY <1>8, ReadPortsGoes DEF Good, PlaceRight
  <2>2. CASE Advance  BY <2>1, <2>2, AdvancePlace
  <2>3. CASE BoxHere /\ Goes("fetch_protocol")
    <3>1. BoxHere' = BoxHere  BY <2>1, <2>3 DEF Goes, BoxHere
    <3> QED  BY <2>1, <2>3, <3>1 DEF Goes, Good, PlaceRight, Steps, Beginning
  <2> QED  BY <1>8, ReadPortsGoes, <2>2, <2>3
<1> QED  BY <1>1, <1>2, <1>3, <1>4, <1>5, <1>6, <1>7, <1>8 DEF DiscoveryNext

\* Every step keeps the types.
LEMMA TypesKept ==
  ASSUME Good, DiscoveryNext
  PROVE  DiscoveryTypes'
<1> USE ParameterTypes
<1>1. next \in Present /\ Present \subseteq Nat  BY DEF Good, PlaceRight, Present
<1>2. CASE Detect
  <2>1. /\ tries' = 0 /\ slavecount' \in Nat /\ lostgrams' \in {lostgrams, lostgrams + 1}
    BY <1>2, DetectGoes
  <2>2. lostgrams' \in Nat  BY <2>1, LostTypes
  <2>3. UNCHANGED <<address, control, eedata, mailboxes, fresh, configadr, entry, mbx_l,
                    activeports, unprotected>>
    BY <1>2 DEF Detect, slaves
  <2> QED  BY <2>1, <2>2, <2>3 DEF Good, DiscoveryTypes
<1>3. CASE SetDefaults
  <2>1. tries' = 0 /\ lostgrams' \in {lostgrams, lostgrams + 1}  BY <1>3, DefaultGoes
  <2>2. lostgrams' \in Nat  BY <2>1, LostTypes
  <2>3. control' \in [Present -> {"pdi", "master"}] /\ unprotected' \in BOOLEAN
    BY <1>3, DefaultGoes DEF Good, DiscoveryTypes
  <2>4. UNCHANGED <<address, eedata, mailboxes, fresh, slavecount, configadr, entry, mbx_l,
                    activeports>>
    BY <1>3, DefaultGoes
  <2> QED  BY <2>1, <2>2, <2>3, <2>4 DEF Good, DiscoveryTypes
<1>4. CASE SetAddress
  <2>1. tries' = 0 /\ lostgrams' \in {lostgrams, lostgrams + 1}  BY <1>4, SetAddressGoes
  <2>2. lostgrams' \in Nat  BY <2>1, LostTypes
  <2>3. Node(next) \in Nat  BY <1>1 DEF Node
  <2>4. address' \in [Present -> Nat] /\ unprotected' \in BOOLEAN
    BY <1>4, SetAddressGoes, <2>3 DEF Good, DiscoveryTypes
  <2>5. UNCHANGED <<control, eedata, mailboxes, fresh, slavecount, configadr, entry, mbx_l,
                    activeports>>
    BY <1>4, SetAddressGoes
  <2> QED  BY <2>1, <2>2, <2>4, <2>5 DEF Good, DiscoveryTypes
<1>5. CASE GetAddress
  <2>1. tries' = 0 /\ lostgrams' \in {lostgrams, lostgrams + 1}  BY <1>5, GetAddressGoes
  <2>2. lostgrams' \in Nat  BY <2>1, LostTypes
  <2>3. address[next] \in Nat  BY <1>1 DEF Good, DiscoveryTypes
  <2>5. configadr' \in [Present -> Nat] /\ unprotected' \in BOOLEAN
    <3>1. \E a \in Nat : configadr' = [configadr EXCEPT ![next] = a]
      BY <2>3, <1>5, GetAddressGoes
    <3>2. configadr' \in [Present -> Nat]  BY <3>1 DEF Good, DiscoveryTypes
    <3> QED  BY <1>5, <3>2, GetAddressGoes DEF Good, DiscoveryTypes
  <2>4. UNCHANGED <<address, control, eedata, mailboxes, fresh, slavecount, entry, mbx_l,
                    activeports>>
    BY <1>5, GetAddressGoes
  <2> QED  BY <2>1, <2>2, <2>4, <2>5 DEF Good, DiscoveryTypes
<1>6. CASE GetStatus
  <2>1. tries' = 0 /\ lostgrams' \in {lostgrams, lostgrams + 1}  BY <1>6, GetStatusGoes
  <2>2. lostgrams' \in Nat  BY <2>1, LostTypes
  <2>3. unprotected' \in BOOLEAN
    BY <1>6, GetStatusGoes DEF Good, DiscoveryTypes
  <2>4. UNCHANGED <<address, control, eedata, mailboxes, fresh, slavecount, configadr, entry,
                    mbx_l, activeports>>
    BY <1>6, GetStatusGoes
  <2> QED  BY <2>1, <2>2, <2>3, <2>4 DEF Good, DiscoveryTypes
<1>7. CASE Ask
  <2>1. lostgrams' \in {lostgrams, lostgrams + 1}  BY <1>7, AskGoes
  <2>2. lostgrams' \in Nat  BY <2>1, LostTypes
  <2>3. Load => eedata' \in [Present -> WordsHad]
    <3>1. round \in 0 .. 5  BY <1>7, AskGoes
    <3>2. AskedFor \in Fields  BY <3>1, WordOfRound, round + 1 \in 1 .. 6 DEF AskedFor
    <3>3. \A d \in Present : <<d, AskedFor>> \in WordsHad  BY <3>2, WordTypes
    <3> QED  BY <3>3 DEF Load, Good, DiscoveryTypes
  <2>4. eedata' \in [Present -> WordsHad]
    BY <1>7, <2>3, AskGoes DEF Good, DiscoveryTypes
  <2>5. tries' \in 0 .. Repeats
    <3>1. round = 5 /\ Goes("ports") => tries' = 0  BY DEF Goes
    <3>2. round < 5 /\ Advance => tries' = 0
      <4> SUFFICES ASSUME round < 5, Advance PROVE tries' = 0  OBVIOUS
      <4> QED  BY <1>7, AskGoes, AdvanceGoes DEF Good
    <3> QED  BY <1>7, AskGoes, TriesFewer, <3>1, <3>2
  <2>6. UNCHANGED <<address, control, mailboxes, fresh, slavecount, configadr, entry, mbx_l,
                    activeports, unprotected>>
    BY <1>7, AskGoes
  <2> QED  BY <2>2, <2>4, <2>5, <2>6 DEF Good, DiscoveryTypes
<1>8. CASE Fetch
  <2>1. lostgrams' \in {lostgrams, lostgrams + 1}  BY <1>8, FetchGoes DEF Value
  <2>2. lostgrams' \in Nat  BY <2>1, LostTypes
  <2>3. step \in {"fetch", "fetch_protocol"} /\ round \in 1 .. 5  BY <1>8, FetchGoes
  <2>4. ASSUME NEW v, Value(v), TakeWord(v)
        PROVE  /\ entry' \in [Present -> [Fields -> WordsHad]]
               /\ mbx_l' \subseteq Present /\ tries' = 0
    <3>1. v \in WordsHad
      <4>1. CASE Here = {}  BY <2>4, <4>1, WordTypes DEF Value, WordsHad
      <4>2. CASE Here # {}
        <5>1. Answering \in Present  BY <4>2, AnsweringIsHere
        <5> QED  BY <2>4, <4>2, <5>1 DEF Value, WordsHad, Good, DiscoveryTypes
      <4> QED  BY <4>1, <4>2
    <3>2. /\ Fetched \in Fields
          /\ entry' = [entry EXCEPT ![next][Fetched] = v]
          /\ \/ Fetched = "out" /\ mbx_l' \in {mbx_l \union {next}, mbx_l}
             \/ Fetched # "out" /\ mbx_l' = mbx_l
          /\ Goes("ask") \/ Advance
      BY <2>3, <2>4, TakeWordGoes, Zenon
    <3>3. entry' \in [Present -> [Fields -> WordsHad]]
      BY <1>1, <3>1, <3>2 DEF Good, DiscoveryTypes
    <3>4. mbx_l' \subseteq Present  BY <1>1, <3>2 DEF Good, DiscoveryTypes
    <3>5. CASE Advance  BY <2>3, <3>3, <3>4, <3>5, AdvanceGoes DEF Good
    <3>6. CASE Goes("ask")  BY <3>3, <3>4, <3>6 DEF Goes
    <3> QED  BY <3>2, <3>5, <3>6
  <2>5. CASE Again /\ UNCHANGED <<entry, mbx_l>>
    <3>1. tries' \in 0 .. Repeats  BY <2>5, TriesFewer
    <3> QED  BY <1>8, FetchGoes, <2>2, <2>5, <3>1 DEF Good, DiscoveryTypes
  <2>6. ASSUME NEW v, Value(v), TakeWord(v)
        PROVE  DiscoveryTypes'
    <3>1. entry' \in [Present -> [Fields -> WordsHad]] /\ mbx_l' \subseteq Present /\ tries' = 0
      BY <2>4, <2>6
    <3>2. UNCHANGED <<address, control, eedata, mailboxes, fresh, slavecount, configadr,
                      activeports, unprotected>>
      BY <1>8, FetchGoes
    <3> QED  BY <2>2, <3>1, <3>2 DEF Good, DiscoveryTypes
  <2> QED  BY <1>8, FetchGoes, <2>5, <2>6
<1>9. CASE ReadPorts
  <2>1. lostgrams' \in {lostgrams, lostgrams + 1} /\ unprotected' \in BOOLEAN
    BY <1>9, ReadPortsGoes DEF Good, DiscoveryTypes
  <2>2. lostgrams' \in Nat  BY <2>1, LostTypes
  <2>3. (IF Here = {} THEN 0 ELSE Answering) \in Nat
    BY <1>1, AnsweringIsHere
  <2>4. activeports' \in [Present -> Nat]
    <3>1. \E a \in Nat : activeports' = [activeports EXCEPT ![next] = a]
      BY <1>9, ReadPortsGoes, <2>3
    <3> QED  BY <3>1 DEF Good, DiscoveryTypes
  <2>5. tries' = 0
    <3>1. round = 5  BY <1>9, ReadPortsGoes
    <3>2. Advance => tries' = 0
      <4> SUFFICES ASSUME Advance PROVE tries' = 0  OBVIOUS
      <4> QED  BY <3>1, AdvanceGoes DEF Good
    <3> QED  BY <1>9, ReadPortsGoes, <3>2 DEF Goes
  <2>6. UNCHANGED <<address, control, eedata, mailboxes, fresh, slavecount, configadr, entry,
                    mbx_l>>
    BY <1>9, ReadPortsGoes
  <2> QED  BY <2>1, <2>2, <2>4, <2>5, <2>6 DEF Good, DiscoveryTypes
<1> QED
  BY <1>2, <1>3, <1>4, <1>5, <1>6, <1>7, <1>8, <1>9 DEF DiscoveryNext

\* They hold when the code starts.
LEMMA DiscoveryStarts ==
  ASSUME DiscoveryInit
  PROVE  Good
<1> USE ParameterTypes
<1>1. 1 \in Present /\ Present \subseteq Nat  BY DEF Present
<1>2. PlaceRight
  BY <1>1 DEF DiscoveryInit, PlaceRight, Steps, Beginning
<1>3. \A s \in Present : Node(s - 1) \in Nat  BY <1>1 DEF Node, Present
<1>4. address \in [Present -> Nat]
  BY <1>3 DEF DiscoveryInit, Powered, Moved, Unaddressed
<1>5. control \in [Present -> {"pdi", "master"}]  BY DEF DiscoveryInit
<1>6. eedata \in [Present -> WordsHad] /\ entry \in [Present -> [Fields -> WordsHad]]
  BY DEF DiscoveryInit, WordsHad
<1>7. configadr \in [Present -> Nat] /\ activeports \in [Present -> Nat]
  BY DEF DiscoveryInit, Unaddressed
<1>8. /\ mailboxes \subseteq Present /\ mbx_l \subseteq Present
      /\ slavecount \in Nat /\ lostgrams \in Nat /\ tries \in 0 .. Repeats
  BY DEF DiscoveryInit
<1>9. fresh \in BOOLEAN  BY Zenon DEF DiscoveryInit
<1>10. unprotected \in BOOLEAN  BY Zenon DEF DiscoveryInit
<1> QED  BY <1>2, <1>4, <1>5, <1>6, <1>7, <1>8, <1>9, <1>10 DEF Good, DiscoveryTypes

-----------------------------------------------------------------------------
(* What is lost, and whose address is set.                                 *)

\* A step that ends the tries.
LEMMA NothingTried ==
  ASSUME Good, tries' = 0, lostgrams' \in {lostgrams, lostgrams + 1},
         unprotected' = unprotected \/ unprotected' = TRUE
  PROVE  /\ TriesCounted' /\ lostgrams' \in {lostgrams, lostgrams + 1}
         /\ unprotected' = FALSE => unprotected = FALSE
<1>1. TriesCounted'  BY DEF Good, DiscoveryTypes, TriesCounted
<1>2. unprotected' = FALSE => unprotected = FALSE  BY Zenon
<1> QED  BY <1>1, <1>2

\* The losses only grow, one at a time, and at each a try is counted.
LEMMA LossesCounted ==
  ASSUME Good, TriesCounted, DiscoveryNext
  PROVE  /\ TriesCounted' /\ lostgrams' \in {lostgrams, lostgrams + 1}
         /\ unprotected' = FALSE => unprotected = FALSE
<1>1. lostgrams \in Nat /\ tries \in Nat /\ unprotected \in BOOLEAN
  BY ParameterTypes DEF Good, DiscoveryTypes
<1>2. CASE Detect  BY <1>1, <1>2, DetectGoes DEF TriesCounted, Detect
<1>3. CASE SetDefaults
  <2>1. tries' = 0 /\ lostgrams' \in {lostgrams, lostgrams + 1}  BY <1>3, DefaultGoes
  <2>2. unprotected' = unprotected \/ unprotected' = TRUE  BY <1>3, DefaultGoes, Zenon
  <2> QED  BY <1>1, <2>1, <2>2, NothingTried
<1>4. CASE SetAddress
  <2>1. tries' = 0 /\ lostgrams' \in {lostgrams, lostgrams + 1}  BY <1>4, SetAddressGoes
  <2>2. unprotected' = unprotected \/ unprotected' = TRUE  BY <1>4, SetAddressGoes, Zenon
  <2> QED  BY <1>1, <2>1, <2>2, NothingTried
<1>5. CASE GetAddress
  <2>1. tries' = 0 /\ lostgrams' \in {lostgrams, lostgrams + 1}  BY <1>5, GetAddressGoes
  <2>2. unprotected' = unprotected \/ unprotected' = TRUE  BY <1>5, GetAddressGoes, Zenon
  <2> QED  BY <1>1, <2>1, <2>2, NothingTried
<1>6. CASE GetStatus
  <2>1. tries' = 0 /\ lostgrams' \in {lostgrams, lostgrams + 1}  BY <1>6, GetStatusGoes
  <2>2. unprotected' = unprotected \/ unprotected' = TRUE  BY <1>6, GetStatusGoes, Zenon
  <2> QED  BY <1>1, <2>1, <2>2, NothingTried
<1>7. \A j \in 0 .. 5 : round = j /\ Advance => tries' = 0
  BY AdvanceGoes DEF Good
<1>8. CASE Ask
  <2>1. lostgrams' \in {lostgrams, lostgrams + 1} /\ unprotected' = unprotected
    BY <1>8, AskGoes
  <2>2. CASE Again /\ lostgrams' = lostgrams + 1
    BY <1>1, <2>1, <2>2 DEF Again, TriesCounted
  <2>3. CASE (round = 5 /\ Goes("ports")) \/ (round < 5 /\ Advance)
    <3>1. tries' = 0  BY <1>7, <1>8, <2>3, AskGoes DEF Goes
    <3> QED  BY <1>1, <2>1, <3>1 DEF TriesCounted
  <2> QED  BY <1>8, <2>2, <2>3, AskGoes
<1>9. CASE Fetch
  <2>1. unprotected' = unprotected /\ round \in 1 .. 5 /\ step \in {"fetch", "fetch_protocol"}
    BY <1>9, FetchGoes
  <2>2. Again /\ lostgrams' = lostgrams + 1 =>
          TriesCounted' /\ lostgrams' \in {lostgrams, lostgrams + 1}
    BY <1>1 DEF Again, TriesCounted
  <2>3. ASSUME NEW v, Value(v), TakeWord(v)
        PROVE  tries' = 0 /\ lostgrams' \in {lostgrams, lostgrams + 1}
    <3>1. Goes("ask") \/ Advance  BY <2>1, <2>3, TakeWordGoes
    <3> QED  BY <1>7, <2>1, <2>3, <3>1 DEF Goes, Value
  <2>4. ASSUME NEW v, Value(v), TakeWord(v)
        PROVE  TriesCounted' /\ lostgrams' \in {lostgrams, lostgrams + 1}
    BY <1>1, <2>3, <2>4 DEF TriesCounted
  <2>5. TriesCounted' /\ lostgrams' \in {lostgrams, lostgrams + 1}
    BY <1>9, <2>2, <2>4, FetchGoes
  <2> QED  BY <2>1, <2>5, Zenon
<1>10. CASE ReadPorts
  <2>1. lostgrams' \in {lostgrams, lostgrams + 1} /\ (unprotected' \/ unprotected' = unprotected)
    BY <1>10, ReadPortsGoes
  <2>2. tries' = 0  BY <1>7, <1>10, ReadPortsGoes DEF Goes
  <2> QED  BY <1>1, <2>1, <2>2 DEF TriesCounted
<1> QED
  BY <1>2, <1>3, <1>4, <1>5, <1>6, <1>8, <1>9, <1>10 DEF DiscoveryNext

\* If everything lost so far was repeated, so was what was lost before, and the
\* last try is not lost.
LEMMA StillRepeated ==
  ASSUME Good, Good', TriesCounted, DiscoveryNext, AllRepeated'
  PROVE  /\ AllRepeated /\ unprotected' = FALSE
         /\ tries = Repeats => lostgrams' = lostgrams
<1>1. lostgrams \in Nat /\ tries \in Nat /\ Repeats \in Nat
  BY ParameterTypes DEF Good, DiscoveryTypes
<1>2. unprotected' = FALSE  BY DEF AllRepeated, Good, DiscoveryTypes
<1>3. unprotected = FALSE /\ lostgrams' \in {lostgrams, lostgrams + 1}
  BY <1>2, LossesCounted, Zenon
<1>4. lostgrams <= Repeats /\ lostgrams' <= Repeats  BY <1>1, <1>3 DEF AllRepeated
<1>5. tries = Repeats => lostgrams' = lostgrams
  BY <1>1, <1>3, <1>4 DEF TriesCounted
<1>6. AllRepeated  BY <1>3, <1>4 DEF AllRepeated
<1> QED  BY <1>2, <1>5, <1>6

\* The steps of the loops that read the words.
Loops == {"ask", "fetch", "fetch_protocol", "ports"}

\* The loops leave the addresses as they are.
LEMMA AdvanceAddressed ==
  ASSUME Good, Advance, round \in 0 .. 5, step \in Loops, NEW d \in Present
  PROVE  /\ AddressSet(d)' <=> AddressSet(d)
         /\ AddressRead(d)' <=> AddressRead(d)
<1>1. d \in Nat /\ next \in Nat /\ d <= DiscoveredSlaves /\ DiscoveredSlaves \in Nat
  BY ParameterTypes DEF Good, PlaceRight, Present
<1>2. round = 0 => step = "ask"  BY DEF Good, PlaceRight, Loops
<1>3. CASE NextSlave
  BY <1>1, <1>2, <1>3 DEF NextSlave, AddressSet, AddressRead, Beginning, Loops
<1>4. CASE NextRound
  BY <1>1, <1>2, <1>4 DEF NextRound, AddressSet, AddressRead, Beginning, Loops
<1> QED  BY <1>3, <1>4, AdvanceGoes DEF Good

LEMMA LoopsAddressed ==
  ASSUME Good, Ask \/ Fetch \/ ReadPorts, NEW d \in Present
  PROVE  /\ AddressSet(d)' <=> AddressSet(d)
         /\ AddressRead(d)' <=> AddressRead(d)
         /\ UNCHANGED <<address, control, configadr, mailboxes, fresh, slavecount>>
         /\ step \in Loops /\ round \in 0 .. 5
<1>1. CASE Ask
  <2>1. step = "ask" /\ round \in 0 .. 5  BY <1>1, AskGoes
  <2>2. UNCHANGED <<address, control, configadr, mailboxes, fresh, slavecount>>
    BY <1>1, AskGoes
  <2>3. CASE Again
    BY <2>1, <2>2, <2>3 DEF Again, AddressSet, AddressRead, Loops
  <2>4. CASE Advance  BY <2>1, <2>2, <2>4, AdvanceAddressed DEF Loops
  <2>5. CASE round = 5 /\ Goes("ports")
    BY <2>1, <2>2, <2>5 DEF Goes, AddressSet, AddressRead, Loops, Beginning
  <2> QED  BY <1>1, AskGoes, <2>3, <2>4, <2>5
<1>2. CASE Fetch
  <2>1. step \in {"fetch", "fetch_protocol"} /\ round \in 1 .. 5  BY <1>2, FetchGoes
  <2>2. UNCHANGED <<address, control, configadr, mailboxes, fresh, slavecount>>
    BY <1>2, FetchGoes
  <2>3. CASE Again
    BY <2>1, <2>2, <2>3 DEF Again, AddressSet, AddressRead, Loops
  <2>4. CASE Advance
    <3>1. round \in 0 .. 5 /\ step \in Loops  BY <2>1 DEF Loops
    <3> QED  BY <2>2, <2>4, <3>1, AdvanceAddressed
  <2>5. CASE Goes("ask")
    BY <2>1, <2>2, <2>5 DEF Goes, AddressSet, AddressRead, Loops, Beginning
  <2>6. ASSUME NEW v, Value(v), TakeWord(v) PROVE Goes("ask") \/ Advance
    BY <2>1, <2>6, TakeWordGoes
  <2> QED  BY <1>2, FetchGoes, <2>3, <2>4, <2>5, <2>6
<1>3. CASE ReadPorts
  <2>1. step = "ports" /\ round = 5  BY <1>3, ReadPortsGoes
  <2>2. UNCHANGED <<address, control, configadr, mailboxes, fresh, slavecount>>
    BY <1>3, ReadPortsGoes
  <2>3. CASE Advance  BY <2>1, <2>2, <2>3, AdvanceAddressed DEF Loops
  <2>4. CASE Goes("fetch_protocol")
    BY <2>1, <2>2, <2>4 DEF Goes, AddressSet, AddressRead, Loops, Beginning
  <2> QED  BY <1>3, ReadPortsGoes, <2>3, <2>4
<1> QED  BY <1>1, <1>2, <1>3

-----------------------------------------------------------------------------
(* If nothing is lost that is not sent again, the list is right.           *)

\* Somebody was found, before this datagram or by it.
LEMMA FoundBefore ==
  ASSUME Good, DiscoveryNext, Running', ~ Detect
  PROVE  Running /\ slavecount' = slavecount
<1>1. slavecount' = slavecount
  BY DefaultGoes, SetAddressGoes, GetAddressGoes, GetStatusGoes, AskGoes, FetchGoes, ReadPortsGoes
     DEF DiscoveryNext
<1> QED  BY <1>1 DEF Running

\* The addresses stay right.
LEMMA AddressesKept ==
  ASSUME Good, Good', TriesCounted, ListRight, ListEmpty, DiscoveryNext, AllRepeated', Running'
  PROVE  AddressesRight'
<1> USE ParameterTypes
<1>1. unprotected' = FALSE /\ AllRepeated  BY StillRepeated
<1>2. \A d \in Present : d \in Nat /\ d > 0  BY DEF Present
<1>3. next \in Present  BY DEF Good, PlaceRight
<1>4. CASE Detect
  <2>1. step' = "force" /\ slavecount = 0
    BY <1>4, DetectGoes DEF Running
  <2>2. \A d \in Present : address[d] \in {0, Node(d - 1)}
    BY <2>1 DEF ListEmpty, Running
  <2>3. address' = address  BY <1>4 DEF Detect, slaves
  <2>4. \A d \in Present : ~ AddressSet(d)' /\ ~ AddressRead(d)'
    BY <2>1 DEF AddressSet, AddressRead, Beginning
  <2> QED  BY <2>1, <2>2, <2>3, <2>4 DEF AddressesRight
<1>5. ASSUME ~ Detect  PROVE AddressesRight /\ Running /\ slavecount' = slavecount
  BY <1>1, <1>5, FoundBefore DEF ListRight
<1>6. CASE SetDefaults
  <2>1. step \notin {"detect"}  BY <1>6, DefaultGoes
  <2>2. AddressesRight  BY <1>5, <2>1 DEF Detect
  <2>3. control' = [s \in Present |-> "master"] /\ address' = address /\ configadr' = configadr
    BY <1>1, <1>6, DefaultGoes
  <2>4. \A d \in Present : ~ AddressSet(d)' /\ ~ AddressRead(d)' /\ ~ AddressSet(d)
    BY <1>2, <1>6, DefaultGoes DEF AddressSet, AddressRead, Beginning
  <2> QED  BY <2>2, <2>3, <2>4 DEF AddressesRight
<1>7. CASE SetAddress
  <2>1. step = "set_address" /\ step' = "get_address" /\ round' = round /\ next' = next
        /\ round = 0
    BY <1>7, SetAddressGoes
  <2>2. AddressesRight  BY <1>5, <2>1 DEF Detect
  <2>3. address' = [address EXCEPT ![next] = Node(next)] /\ control' = control
        /\ configadr' = configadr
    BY <1>1, <1>7, SetAddressGoes
  <2>4. \A d \in Present : /\ AddressSet(d)' <=> AddressSet(d) \/ d = next
                           /\ AddressRead(d)' <=> AddressRead(d)
    BY <1>2, <1>3, <2>1 DEF AddressSet, AddressRead, Beginning
  <2>5. \A d \in Present : address'[d] = IF d = next THEN Node(next) ELSE address[d]
    BY <2>3 DEF Good, DiscoveryTypes
  <2> QED  BY <2>1, <2>2, <2>3, <2>4, <2>5 DEF AddressesRight
<1>8. CASE GetAddress
  <2>1. step = "get_address" /\ step' = "status" /\ round' = round /\ next' = next
        /\ round = 0
    BY <1>8, GetAddressGoes
  <2>2. AddressesRight  BY <1>5, <2>1 DEF Detect
  <2>3. configadr' = [configadr EXCEPT ![next] = address[next]] /\ control' = control
        /\ address' = address
    BY <1>1, <1>8, GetAddressGoes
  <2>4. \A d \in Present : /\ AddressSet(d)' <=> AddressSet(d)
                           /\ AddressRead(d)' <=> AddressRead(d) \/ d = next
    BY <1>2, <1>3, <2>1 DEF AddressSet, AddressRead, Beginning
  <2>5. \A d \in Present : configadr'[d] = IF d = next THEN address[next] ELSE configadr[d]
    BY <2>3 DEF Good, DiscoveryTypes
  <2>6. AddressSet(next)  BY <2>1 DEF AddressSet, Beginning
  <2>7. address[next] = Node(next)  BY <1>3, <2>2, <2>6 DEF AddressesRight
  <2> QED  BY <2>1, <2>2, <2>3, <2>4, <2>5, <2>7 DEF AddressesRight
<1>9. CASE GetStatus
  <2>1. step = "status" /\ step' = "ask" /\ round' = round /\ next' = next
    BY <1>9, GetStatusGoes
  <2>2. AddressesRight  BY <1>5, <2>1 DEF Detect
  <2>3. configadr' = configadr /\ control' = control /\ address' = address
    BY <1>9, GetStatusGoes
  <2>4. \A d \in Present : /\ AddressSet(d)' <=> AddressSet(d)
                           /\ AddressRead(d)' <=> AddressRead(d)
    BY <1>2, <1>3, <2>1 DEF AddressSet, AddressRead, Beginning
  <2> QED  BY <2>1, <2>2, <2>3, <2>4 DEF AddressesRight
<1>10. CASE Ask \/ Fetch \/ ReadPorts
  <2>1. /\ UNCHANGED <<address, control, configadr, mailboxes, fresh, slavecount>>
        /\ step \in Loops
        /\ \A d \in Present : /\ AddressSet(d)' <=> AddressSet(d)
                              /\ AddressRead(d)' <=> AddressRead(d)
    <3>1. PICK d \in Present : TRUE  BY <1>3
    <3> QED  BY <1>10, <3>1, LoopsAddressed
  <2>2. AddressesRight  BY <1>5, <2>1 DEF Detect, Loops
  <2> QED  BY <2>1, <2>2 DEF AddressesRight, Loops
<1> QED
  BY <1>4, <1>6, <1>7, <1>8, <1>9, <1>10 DEF DiscoveryNext

\* Only the slave whose turn it is hears what is sent to its address.
LEMMA HereAlone ==
  ASSUME Good, AddressesRight, step \in Loops
  PROVE  /\ next \in Here
         /\ round > 0 => Here = {next} /\ Answering = next
         /\ \A d \in Here : d = next \/ ~ AddressSet(d)
<1>1. next \in Present /\ next \in Nat /\ \A d \in Present : d \in Nat /\ d > 0
  BY DEF Good, PlaceRight, Present
<1>2. round = 0 => step = "ask"  BY DEF Good, PlaceRight, Loops
<1>3. AddressSet(next) /\ AddressRead(next) /\ round \in Nat
  BY <1>1, <1>2 DEF AddressSet, AddressRead, Loops, Beginning, Good, PlaceRight
<1>4. configadr[next] = Node(next) /\ address[next] = Node(next)
  BY <1>1, <1>3 DEF AddressesRight
<1>5. next \in Here  BY <1>1, <1>4 DEF Here, Having
<1>6. \A d \in Here : d = next \/ ~ AddressSet(d)
  <2> TAKE d \in Here
  <2>1. d \in Present /\ address[d] = Node(next)  BY <1>4 DEF Here, Having
  <2> SUFFICES ASSUME AddressSet(d) PROVE d = next  OBVIOUS
  <2>2. Node(d) = Node(next)  BY <2>1 DEF AddressesRight
  <2> QED  BY <1>1, <2>1, <2>2 DEF Node
<1>7. ASSUME round > 0  PROVE Here = {next} /\ Answering = next
  <2>1. \A d \in Present : AddressSet(d)
    BY <1>7 DEF AddressSet, Loops, Beginning
  <2>2. Here \subseteq Present  BY DEF Here, Having
  <2>3. Here = {next}  BY <1>5, <1>6, <2>1, <2>2
  <2> QED  BY <2>3, AnsweringIsHere
<1> QED  BY <1>5, <1>6, <1>7

\* It fetches the word that is asked for, and of the others nothing is disturbed
\* that matters.
LEMMA LoadRight ==
  ASSUME Good, AddressesRight, step = "ask", Load \/ eedata' = eedata
  PROVE  /\ Load => eedata'[next] = <<next, WordOrder[round + 1]>>
         /\ \A d \in Present : d # next /\ AddressSet(d) => eedata'[d] = eedata[d]
<1>1. next \in Present  BY DEF Good, PlaceRight
<1>2. control[next] = "master"  BY <1>1 DEF AddressesRight
<1>3. next \in Here /\ \A d \in Here : d = next \/ ~ AddressSet(d)
  BY HereAlone DEF Loops
<1>4. Load => eedata'[next] = <<next, WordOrder[round + 1]>>
  BY <1>1, <1>2, <1>3 DEF Load, AskedFor
<1>5. ASSUME NEW d \in Present, d # next, AddressSet(d)
      PROVE  eedata'[d] = eedata[d]
  BY <1>3, <1>5 DEF Load
<1> QED  BY <1>4, <1>5

\* The words when all up to this slave have been asked, and the loop goes on.
LEMMA AdvanceWords ==
  ASSUME Good, Advance, round \in 0 .. 5,
         \A d \in Present :
           /\ d <= next /\ (round < 4 \/ d \in mbx_l') => eedata'[d] = <<d, WordOrder[round + 1]>>
           /\ d > next /\ round > 0 /\ (round < 5 \/ d \in mbx_l') =>
                eedata'[d] = <<d, WordOrder[round]>>
  PROVE  WordsRight'
<1>1. \A d \in Present : d \in Nat /\ d > 0 /\ d <= DiscoveredSlaves
  BY ParameterTypes DEF Present
<1>2. next \in Present  BY DEF Good, PlaceRight
<1>3. BoxHere' <=> next' \in mbx_l'  BY DEF BoxHere
<1>4. CASE NextSlave
  <2>1. ASSUME NEW d \in Present
        PROVE  /\ IsAsked(d)' => d <= next \/ (round = 5 /\ d \notin mbx_l')
               /\ ~ IsAsked(d)' => d > next
               /\ round' = round
    BY <1>1, <1>2, <1>3, <1>4 DEF NextSlave, IsAsked
  <2> QED  BY <1>1, <1>2, <2>1 DEF WordsRight
<1>5. CASE NextRound
  <2>1. ASSUME NEW d \in Present
        PROVE  /\ d <= next /\ round' = round + 1
               /\ IsAsked(d)' => round = 4 /\ d \notin mbx_l'
    BY <1>1, <1>2, <1>3, <1>5 DEF NextRound, IsAsked
  <2>2. ASSUME NEW d \in Present, round' < 5 \/ d \in mbx_l'
        PROVE  ~ IsAsked(d)' /\ eedata'[d] = <<d, WordOrder[round']>>
    <3>1. round < 4 \/ d \in mbx_l'  BY <2>1, <2>2
    <3> QED  BY <2>1, <2>2, <3>1
  <2>3. ASSUME NEW d \in Present, IsAsked(d)', round' < 4 \/ d \in mbx_l'
        PROVE  FALSE
    BY <2>1, <2>3
  <2> QED  BY <2>2, <2>3, Zenon DEF WordsRight
<1> QED  BY <1>4, <1>5, AdvanceGoes DEF Good

\* The words in the slaves stay right.
LEMMA WordsKept ==
  ASSUME Good, Good', TriesCounted, ListRight, DiscoveryNext, AllRepeated', Running'
  PROVE  WordsRight'
<1> USE ParameterTypes
<1>1. unprotected' = FALSE /\ AllRepeated /\ (tries = Repeats => lostgrams' = lostgrams)
  BY StillRepeated
<1>2. \A d \in Present : d \in Nat /\ d > 0 /\ d <= DiscoveredSlaves  BY DEF Present
<1>3. next \in Present /\ round \in 0 .. 6  BY DEF Good, PlaceRight
<1>4. ASSUME Detect \/ SetDefaults \/ SetAddress \/ GetAddress \/ GetStatus
      PROVE  WordsRight'
  <2>1. round = 0 /\ round' = 0 /\ next' = next /\ eedata' = eedata
        /\ step' \notin {"ports", "fetch_protocol"} /\ (Detect => next = 1)
    BY <1>4, DetectGoes, DefaultGoes, SetAddressGoes, GetAddressGoes, GetStatusGoes
       DEF Detect, slaves
  <2>2. CASE Detect
    <3>1. \A d \in Present : ~ IsAsked(d)'  BY <1>2, <2>1, <2>2 DEF IsAsked
    <3> QED  BY <2>1, <3>1 DEF WordsRight
  <2>3. CASE ~ Detect
    <3>1. WordsRight /\ step \notin {"ports", "fetch_protocol"}
      BY <1>1, <1>4, <2>3, FoundBefore, DefaultGoes, SetAddressGoes, GetAddressGoes,
         GetStatusGoes DEF ListRight
    <3>2. mbx_l' = mbx_l
      BY <1>4, <2>3, DefaultGoes, SetAddressGoes, GetAddressGoes, GetStatusGoes
    <3>3. \A d \in Present : IsAsked(d)' <=> IsAsked(d)
      BY <2>1, <3>1 DEF IsAsked
    <3> QED  BY <2>1, <3>1, <3>2, <3>3 DEF WordsRight
  <2> QED  BY <2>2, <2>3
<1>5. ASSUME ~ Detect  PROVE AddressesRight /\ WordsRight
  BY <1>1, <1>5, FoundBefore DEF ListRight
<1>6. CASE Ask
  <2>1. step = "ask" /\ round \in 0 .. 5 /\ mbx_l' = mbx_l /\ (round >= 4 => next \in mbx_l)
    BY <1>6, AskGoes DEF BoxHere
  <2>2. AddressesRight /\ WordsRight  BY <1>5, <2>1 DEF Detect
  <2>3. \A d \in Present : d # next /\ AddressSet(d) => eedata'[d] = eedata[d]
    BY <1>6, <2>1, <2>2, LoadRight, AskGoes
  <2>4. \A d \in Present : AddressSet(d) <=> round > 0 \/ d <= next
    BY <1>2, <1>3, <2>1 DEF AddressSet, Beginning
  <2>5. \A d \in Present : IsAsked(d) <=> d < next  BY <1>2, <1>3, <2>1 DEF IsAsked
  <2>6. CASE Again
    <3>1. \A d \in Present : IsAsked(d)' <=> d < next
      BY <1>2, <1>3, <2>1, <2>6 DEF IsAsked, Again
    <3>2. step' = "ask" /\ round' = round /\ next' = next  BY <2>1, <2>6 DEF Again
    <3> QED  BY <1>2, <1>3, <2>1, <2>2, <2>3, <2>4, <2>5, <3>1, <3>2 DEF WordsRight
  <2>7. CASE /\ lostgrams' = lostgrams \/ (lostgrams' = lostgrams + 1 /\ tries = Repeats)
             /\ (round = 5 /\ Goes("ports")) \/ (round < 5 /\ Advance)
    <3>1. eedata'[next] = <<next, WordOrder[round + 1]>>
      <4>1. lostgrams' = lostgrams  BY <1>1, <2>7
      <4>2. lostgrams' # lostgrams + 1  BY <4>1 DEF Good, DiscoveryTypes
      <4> QED  BY <1>6, <2>1, <2>2, <4>2, AskGoes, LoadRight
    <3>2. \A d \in Present :
            /\ d <= next /\ (round < 4 \/ d \in mbx_l') => eedata'[d] = <<d, WordOrder[round + 1]>>
            /\ d > next /\ round > 0 /\ (round < 5 \/ d \in mbx_l') =>
                 eedata'[d] = <<d, WordOrder[round]>>
      BY <1>2, <1>3, <2>1, <2>2, <2>3, <2>4, <2>5, <3>1 DEF WordsRight
    <3>3. CASE Advance  BY <2>1, <3>2, <3>3, AdvanceWords
    <3>4. CASE round = 5 /\ Goes("ports")
      <4>1. \A d \in Present : IsAsked(d)' <=> d <= next
        BY <1>2, <1>3, <3>4 DEF IsAsked, Goes
      <4> QED  BY <1>2, <1>3, <3>2, <3>4, <4>1 DEF WordsRight, Goes
    <3> QED  BY <2>7, <3>3, <3>4
  <2> QED  BY <1>6, AskGoes, <2>6, <2>7
<1>7. CASE Fetch
  <2>1. /\ step \in {"fetch", "fetch_protocol"} /\ round \in 1 .. 5
        /\ round = 5 => next \in mbx_l
        /\ step = "fetch_protocol" => round = 5
        /\ eedata' = eedata
    BY <1>7, FetchGoes DEF BoxHere
  <2>2. AddressesRight /\ WordsRight  BY <1>5, <2>1 DEF Detect
  <2>3. \A d \in Present : IsAsked(d) <=> d < next \/ (d = next /\ step = "fetch_protocol")
    BY <1>2, <1>3, <2>1 DEF IsAsked
  <2>4. CASE Again /\ UNCHANGED <<entry, mbx_l>>
    <3>1. step' = step /\ round' = round /\ next' = next /\ mbx_l' = mbx_l
      BY <2>4 DEF Again
    <3>2. \A d \in Present : IsAsked(d)' <=> IsAsked(d)  BY <3>1 DEF IsAsked
    <3> QED  BY <2>1, <2>2, <3>1, <3>2 DEF WordsRight
  <2>5. ASSUME NEW v, Value(v), TakeWord(v)
        PROVE  WordsRight'
    <3>1. /\ mbx_l' \in {mbx_l \union {next}, mbx_l}
          /\ \/ step = "fetch" /\ (round >= 4 => BoxHere') /\ Goes("ask")
             \/ (step = "fetch_protocol" \/ (round >= 4 /\ next \notin mbx_l')) /\ Advance
      BY <2>1, <2>5, TakeWordGoes
    <3>2. \A d \in Present : d # next => (d \in mbx_l' <=> d \in mbx_l)  BY <3>1
    <3>3. CASE step = "fetch" /\ Goes("ask")
      <4>1. \A d \in Present : IsAsked(d)' <=> IsAsked(d)
        BY <1>2, <1>3, <2>3, <3>3 DEF IsAsked, Goes
      <4>2. step' = "ask" /\ round' = round /\ next' = next  BY <3>3 DEF Goes
      <4>3. ASSUME NEW d \in Present, IsAsked(d)', round' < 4 \/ d \in mbx_l'
            PROVE  eedata'[d] = <<d, WordOrder[round' + 1]>>
        <5>1. d # next /\ IsAsked(d)  BY <1>2, <1>3, <2>3, <3>3, <4>1, <4>3
        <5> QED  BY <2>1, <2>2, <3>2, <4>2, <4>3, <5>1 DEF WordsRight
      <4>4. ASSUME NEW d \in Present, ~ IsAsked(d)', ~ (d = next' /\ step' = "ask"),
                   round' < 5 \/ d \in mbx_l'
            PROVE  eedata'[d] = <<d, WordOrder[round']>>
        <5>1. d # next /\ ~ IsAsked(d)  BY <4>1, <4>2, <4>4
        <5> QED  BY <2>1, <2>2, <3>2, <4>2, <4>4, <5>1 DEF WordsRight
      <4> QED  BY <4>3, <4>4, Zenon DEF WordsRight
    <3>4. CASE (step = "fetch_protocol" \/ (round >= 4 /\ next \notin mbx_l')) /\ Advance
      <4>1. next \in mbx_l' => step = "fetch_protocol" /\ next \in mbx_l
        BY <2>1, <3>1, <3>4
      <4>2. round = 4 \/ round = 5  BY <2>1, <3>4
      <4>3. \A d \in Present :
              /\ d <= next /\ (round < 4 \/ d \in mbx_l') =>
                   eedata'[d] = <<d, WordOrder[round + 1]>>
              /\ d > next /\ round > 0 /\ (round < 5 \/ d \in mbx_l') =>
                   eedata'[d] = <<d, WordOrder[round]>>
        BY <1>2, <1>3, <2>1, <2>2, <2>3, <3>2, <4>1, <4>2 DEF WordsRight
      <4> QED  BY <2>1, <3>4, <4>2, <4>3, AdvanceWords
    <3> QED  BY <3>1, <3>3, <3>4
  <2> QED  BY <1>7, FetchGoes, <2>4, <2>5
<1>8. CASE ReadPorts
  <2>1. /\ step = "ports" /\ round = 5 /\ eedata' = eedata /\ mbx_l' = mbx_l
        /\ (next \in mbx_l /\ Goes("fetch_protocol")) \/ (next \notin mbx_l /\ Advance)
    BY <1>8, ReadPortsGoes DEF BoxHere
  <2>2. AddressesRight /\ WordsRight  BY <1>5, <2>1 DEF Detect
  <2>3. \A d \in Present : IsAsked(d) <=> d <= next  BY <1>2, <1>3, <2>1 DEF IsAsked
  <2>4. CASE Goes("fetch_protocol")
    <3>1. \A d \in Present : IsAsked(d)' <=> d <= next
      BY <1>2, <1>3, <2>4 DEF IsAsked, Goes
    <3>2. round' = round /\ step' = "fetch_protocol"  BY <2>4 DEF Goes
    <3> QED  BY <2>1, <2>2, <2>3, <3>1, <3>2 DEF WordsRight
  <2>5. CASE Advance
    <3>1. \A d \in Present :
            /\ d <= next /\ (round < 4 \/ d \in mbx_l') => eedata'[d] = <<d, WordOrder[round + 1]>>
            /\ d > next /\ round > 0 /\ (round < 5 \/ d \in mbx_l') =>
                 eedata'[d] = <<d, WordOrder[round]>>
      BY <1>2, <1>3, <2>1, <2>2, <2>3 DEF WordsRight
    <3> QED  BY <2>1, <2>5, <3>1, AdvanceWords
  <2> QED  BY <2>1, <2>4, <2>5
<1> QED  BY <1>4, <1>6, <1>7, <1>8 DEF DiscoveryNext

\* What is fetched when the loop goes on.
LEMMA AdvanceFetched ==
  ASSUME Good, Advance, round \in 0 .. 5, step \in Loops, NEW d \in Present, NEW k \in 1 .. 6
  PROVE  /\ IsFetched(d, k) => IsFetched(d, k)'
         /\ d = next /\ (k = round \/ (round = 5 /\ k = 6)) => IsFetched(d, k)'
         /\ IsFetched(d, k)' => \/ IsFetched(d, k)
                                \/ d = next /\ (k = round \/ (round = 5 /\ k = 6))
                                \/ k = 5 /\ round' = 5 /\ d \notin mbx_l'
         /\ PortsRead(d)' <=> PortsRead(d) \/ (round = 5 /\ d = next)
<1>1. d \in Nat /\ next \in Nat /\ 0 < d /\ d <= DiscoveredSlaves /\ DiscoveredSlaves \in Nat
  BY ParameterTypes DEF Good, PlaceRight, Present
<1>2. LastRound = 5  BY WordFacts
<1>3. BoxHere' <=> next' \in mbx_l'  BY DEF BoxHere
<1>4. CASE NextSlave
  <2>1. /\ IsFetched(d, k) => IsFetched(d, k)'
        /\ d = next /\ (k = round \/ (round = 5 /\ k = 6)) => IsFetched(d, k)'
    BY <1>1, <1>2, <1>4 DEF NextSlave, IsFetched, Loops
  <2>2. IsFetched(d, k)' => \/ IsFetched(d, k)
                            \/ d = next /\ (k = round \/ (round = 5 /\ k = 6))
                            \/ k = 5 /\ round' = 5 /\ d \notin mbx_l'
    BY <1>1, <1>2, <1>3, <1>4 DEF NextSlave, IsFetched, Loops
  <2>3. PortsRead(d)' <=> PortsRead(d) \/ (round = 5 /\ d = next)
    BY <1>1, <1>2, <1>4 DEF NextSlave, PortsRead, Loops
  <2> QED  BY <2>1, <2>2, <2>3
<1>5. CASE NextRound
  <2>1. /\ IsFetched(d, k) => IsFetched(d, k)'
        /\ d = next /\ (k = round \/ (round = 5 /\ k = 6)) => IsFetched(d, k)'
    BY <1>1, <1>2, <1>5 DEF NextRound, IsFetched, Loops
  <2>2. IsFetched(d, k)' => \/ IsFetched(d, k)
                            \/ d = next /\ (k = round \/ (round = 5 /\ k = 6))
                            \/ k = 5 /\ round' = 5 /\ d \notin mbx_l'
    BY <1>1, <1>2, <1>3, <1>5 DEF NextRound, IsFetched, Loops
  <2>3. PortsRead(d)' <=> PortsRead(d) \/ (round = 5 /\ d = next)
    BY <1>1, <1>2, <1>5 DEF NextRound, PortsRead, Loops
  <2> QED  BY <2>1, <2>2, <2>3
<1> QED  BY <1>4, <1>5, AdvanceGoes DEF Good

\* No word is read twice.
LEMMA WordsDiffer ==
  ASSUME NEW j \in 1 .. 6, NEW k \in 1 .. 6, WordOrder[j] = WordOrder[k]
  PROVE  j = k
<1>1. j \in {1, 2, 3, 4, 5, 6} /\ k \in {1, 2, 3, 4, 5, 6}  BY Indices
<1> QED  BY <1>1, WordFacts

\* The length of the mailbox tells whether there is one.
LEMMA BoxLearnt ==
  ASSUME Good, TakeWord(<<next, "out">>), Fetched = "out"
  PROVE  \A d \in Present : d \in mbx_l' <=> d \in mbx_l \/ (d = next /\ d \in mailboxes)
<1> DEFINE value == <<next, "out">>
<1>1. next \in Nat /\ next # 0  BY DEF Good, PlaceRight, Present
<1>2. value # NoWord  BY <1>1 DEF NoWord
<1>3. value[2] = "out" /\ value[1] = next  OBVIOUS
<1>4. TakeWord(value)  OBVIOUS
<1> HIDE DEF value
<1>5. \A has \in HasLength(value) : has = (next \in mailboxes)
  <2>1. HasLength(value) = {value[1] \in mailboxes}  BY <1>2, <1>3 DEF HasLength
  <2> QED  BY <1>3, <2>1
<1>6. \E has \in HasLength(value) : mbx_l' = IF has THEN mbx_l \union {next} ELSE mbx_l
  BY <1>4, Zenon DEF TakeWord
<1>7. mbx_l' = IF next \in mailboxes THEN mbx_l \union {next} ELSE mbx_l
  BY <1>5, <1>6, Zenon
<1> QED  BY <1>7

\* The turn of the word that is fetched.
Turn == IF step = "fetch_protocol" THEN 6 ELSE round

\* What is fetched is the word whose turn it is, of the slave whose turn it is.
LEMMA FetchRight ==
  ASSUME Good, AddressesRight, WordsRight, step \in {"fetch", "fetch_protocol"}, round \in 1 .. 5,
         round = 5 => next \in mbx_l, step = "fetch_protocol" => round = 5,
         tries = Repeats => lostgrams' = lostgrams, NEW v, Value(v)
  PROVE  /\ v = <<next, Fetched>> /\ Turn \in 1 .. 6 /\ Fetched = WordOrder[Turn]
         /\ \A k \in 1 .. 6 : WordOrder[k] = Fetched => k = Turn
<1>1. next \in Present /\ next \in Nat  BY DEF Good, PlaceRight, Present
<1>2. Here = {next} /\ Answering = next  BY HereAlone DEF Loops
<1>3. v = eedata[next]
  <2>1. lostgrams' # lostgrams + 1 \/ tries # Repeats  BY DEF Good, DiscoveryTypes
  <2> QED  BY <1>2, <2>1 DEF Value
<1>4. CASE step = "fetch_protocol"
  <2>1. IsAsked(next)  BY <1>4 DEF IsAsked
  <2>2. round = 5 /\ next \in mbx_l  BY <1>4
  <2>3. eedata[next] = <<next, WordOrder[6]>>  BY <1>1, <2>1, <2>2 DEF WordsRight
  <2> QED  BY <1>3, <1>4, <2>3, WordFacts, WordsDiffer DEF Fetched, Turn
<1>5. CASE step = "fetch"
  <2>1. ~ IsAsked(next)  BY <1>1, <1>5 DEF IsAsked
  <2>2. eedata[next] = <<next, WordOrder[round]>>  BY <1>1, <1>5, <2>1 DEF WordsRight
  <2>3. Fetched = WordOrder[round] /\ Turn = round  BY <1>5 DEF Fetched, Turn
  <2>4. round \in 1 .. 6  OBVIOUS
  <2> QED  BY <1>3, <2>2, <2>3, <2>4, WordsDiffer
<1> QED  BY <1>4, <1>5

\* Words that a slave without a mailbox has not.
LEMMA NoBoxNoWord ==
  ASSUME NEW d \in Present, d \notin mailboxes
  PROVE  OwnWord(d, WordOrder[5]) = NoWord /\ OwnWord(d, WordOrder[6]) = NoWord
BY WordFacts DEF OwnWord

\* What is left to show of ec_slave.
ListKept == EntriesRight' /\ BoxesRight' /\ PortsRight'

\* Until the loops begin there is nothing in it.
LEMMA EntriesBeginning ==
  ASSUME Good, Good', TriesCounted, ListRight, ListEmpty, AllRepeated', Running', DiscoveryNext,
         Detect \/ SetDefaults \/ SetAddress \/ GetAddress \/ GetStatus
  PROVE  ListKept
<1>1. round' = 0 /\ entry' = entry /\ mbx_l' = mbx_l /\ round = 0
  BY DetectGoes, DefaultGoes, SetAddressGoes, GetAddressGoes, GetStatusGoes DEF Detect
<1>2. LastRound = 5 /\ DOMAIN WordOrder = 1 .. 6  BY WordFacts
<1>3. \A d \in Present, k \in 1 .. 6 :
        ~ IsFetched(d, k) /\ ~ IsFetched(d, k)' /\ ~ PortsRead(d)'
  BY <1>1, <1>2 DEF IsFetched, PortsRead
<1>4. \A d \in Present, k \in 1 .. 6 : entry[d][WordOrder[k]] = NoWord
  <2>1. CASE Detect
    <3>1. ~ Running  BY <2>1, DetectGoes DEF Running
    <3> QED  BY <3>1, WordOfRound DEF ListEmpty
  <2>2. CASE ~ Detect
    <3>1. EntriesRight  BY <2>2, FoundBefore, StillRepeated DEF ListRight
    <3> QED  BY <1>2, <1>3, <3>1 DEF EntriesRight
  <2> QED  BY <2>1, <2>2
<1>5. \A d \in Present : d \notin mbx_l
  <2>1. CASE Detect
    <3>1. ~ Running  BY <2>1, DetectGoes DEF Running
    <3> QED  BY <3>1 DEF ListEmpty
  <2>2. CASE ~ Detect
    <3>1. BoxesRight  BY <2>2, FoundBefore, StillRepeated DEF ListRight
    <3> QED  BY <1>3, <3>1 DEF BoxesRight
  <2> QED  BY <2>1, <2>2
<1> QED  BY <1>1, <1>2, <1>3, <1>4, <1>5 DEF ListKept, EntriesRight, BoxesRight, PortsRight

\* The loop goes on: what was fetched of this slave before counts.
LEMMA EntriesAdvance ==
  ASSUME Good, Good', Advance, round \in 0 .. 5, step \in Loops,
         EntriesRight, BoxesRight, PortsRight, mailboxes' = mailboxes,
         \A d \in Present :
           d \in mbx_l' <=> d \in mbx_l \/ (d = next /\ round = 4 /\ d \in mailboxes),
         \A d \in Present, k \in 1 .. 6 :
           IF d = next /\ (k = round \/ (round = 5 /\ k = 6))
           THEN entry'[d][WordOrder[k]] = OwnWord(d, WordOrder[k])
           ELSE entry'[d][WordOrder[k]] = entry[d][WordOrder[k]],
         \A d \in Present :
           IF d = next /\ round = 5 THEN activeports'[d] = d ELSE activeports'[d] = activeports[d]
  PROVE  ListKept
<1>1. BoxesRight'
  <2>1. ASSUME NEW d \in Present
        PROVE  IsFetched(d, 4)' <=> IsFetched(d, 4) \/ (d = next /\ round = 4)
    BY <2>1, AdvanceFetched, 4 \in 1 .. 6
  <2> QED  BY <2>1 DEF BoxesRight
<1>2. PortsRight'
  <2>1. ASSUME NEW d \in Present
        PROVE  PortsRead(d)' <=> PortsRead(d) \/ (round = 5 /\ d = next)
    BY <2>1, AdvanceFetched, 4 \in 1 .. 6
  <2> QED  BY <2>1 DEF PortsRight
<1>3. ASSUME NEW d \in Present, NEW k \in 1 .. 6
      PROVE  entry'[d][WordOrder[k]] =
               IF IsFetched(d, k)' THEN OwnWord(d, WordOrder[k]) ELSE NoWord
  <2>1. entry[d][WordOrder[k]] = IF IsFetched(d, k) THEN OwnWord(d, WordOrder[k]) ELSE NoWord
    BY WordFacts DEF EntriesRight
  <2>2. CASE d = next /\ (k = round \/ (round = 5 /\ k = 6))
    <3>1. IsFetched(d, k)'  BY <2>2, AdvanceFetched
    <3>2. entry'[d][WordOrder[k]] = OwnWord(d, WordOrder[k])  BY <2>2
    <3> QED  BY <3>1, <3>2
  <2>3. CASE ~ (d = next /\ (k = round \/ (round = 5 /\ k = 6)))
    <3>1. entry'[d][WordOrder[k]] = entry[d][WordOrder[k]]  BY <2>3
    <3>2. CASE IsFetched(d, k)' <=> IsFetched(d, k)  BY <2>1, <3>1, <3>2
    <3>3. CASE k = 5 /\ round' = 5 /\ d \notin mbx_l'
      <4>1. IsFetched(d, 4)'  BY <3>3, WordFacts DEF IsFetched
      <4>2. d \notin mailboxes  BY <1>1, <3>3, <4>1 DEF BoxesRight
      <4>3. OwnWord(d, WordOrder[k]) = NoWord  BY <3>3, <4>2, NoBoxNoWord
      <4> QED  BY <2>1, <3>1, <4>3
    <3> QED  BY <2>3, <3>2, <3>3, AdvanceFetched
  <2> QED  BY <2>2, <2>3
<1>4. \A d \in Present, k \in 1 .. 6 : OwnWord(d, WordOrder[k])' = OwnWord(d, WordOrder[k])
  BY DEF OwnWord
<1>5. EntriesRight'  BY <1>3, <1>4, WordFacts DEF EntriesRight
<1> QED  BY <1>1, <1>2, <1>5 DEF ListKept

\* The loop stays with its slave: what was fetched, and whether the ports were read.
LEMMA EntriesStay ==
  ASSUME EntriesRight, BoxesRight, PortsRight, mailboxes' = mailboxes,
         NEW turn, turn \in 0 .. 6, next \in Present,
         \A d \in Present, k \in 1 .. 6 :
           IsFetched(d, k)' <=> IsFetched(d, k) \/ (d = next /\ k = turn),
         \A d \in Present :
           d \in mbx_l' <=> d \in mbx_l \/ (d = next /\ turn = 4 /\ d \in mailboxes),
         \A d \in Present, k \in 1 .. 6 :
           IF d = next /\ k = turn THEN entry'[d][WordOrder[k]] = OwnWord(d, WordOrder[k])
           ELSE entry'[d][WordOrder[k]] = entry[d][WordOrder[k]],
         \A d \in Present : PortsRead(d)' => IF PortsRead(d) THEN activeports'[d] = activeports[d]
                                             ELSE activeports'[d] = d
  PROVE  ListKept
<1>1. BoxesRight'
  <2>1. \A d \in Present : IsFetched(d, 4)' <=> IsFetched(d, 4) \/ (d = next /\ 4 = turn)
    BY 4 \in 1 .. 6
  <2> QED  BY <2>1 DEF BoxesRight
<1>2. PortsRight'  BY DEF PortsRight
<1>3. ASSUME NEW d \in Present, NEW k \in 1 .. 6
      PROVE  entry'[d][WordOrder[k]] =
               IF IsFetched(d, k)' THEN OwnWord(d, WordOrder[k]) ELSE NoWord
  <2>1. entry[d][WordOrder[k]] = IF IsFetched(d, k) THEN OwnWord(d, WordOrder[k]) ELSE NoWord
    BY WordFacts DEF EntriesRight
  <2>2. IsFetched(d, k)' <=> IsFetched(d, k) \/ (d = next /\ k = turn)  OBVIOUS
  <2>3. IF d = next /\ k = turn THEN entry'[d][WordOrder[k]] = OwnWord(d, WordOrder[k])
        ELSE entry'[d][WordOrder[k]] = entry[d][WordOrder[k]]
    OBVIOUS
  <2> QED  BY <2>1, <2>2, <2>3, Zenon
<1>4. \A d \in Present, k \in 1 .. 6 : OwnWord(d, WordOrder[k])' = OwnWord(d, WordOrder[k])
  BY DEF OwnWord
<1>5. EntriesRight'  BY <1>3, <1>4, WordFacts DEF EntriesRight
<1> QED  BY <1>1, <1>2, <1>5 DEF ListKept

\* When a datagram is tried again, or the ports come next, nothing is fetched.
LEMMA NothingFetched ==
  ASSUME EntriesRight, BoxesRight, PortsRight, next \in Present,
         Again \/ (step = "ask" /\ Goes("ports")),
         UNCHANGED <<mailboxes, entry, mbx_l, activeports>>
  PROVE  ListKept
<1>1. \A d \in Present, k \in 1 .. 6 : IsFetched(d, k)' <=> IsFetched(d, k)
  BY DEF IsFetched, Again, Goes
<1>2. \A d \in Present : PortsRead(d)' <=> PortsRead(d)
  BY DEF PortsRead, Again, Goes
<1>3. \A k \in 1 .. 6 : k # 0  OBVIOUS
<1>4. 0 \in 0 .. 6  OBVIOUS
<1> DEFINE turn == 0
<1>5. turn \in 0 .. 6 /\ turn # 4 /\ \A k \in 1 .. 6 : k # turn  BY <1>3, <1>4
<1> HIDE DEF turn
<1> QED  BY <1>1, <1>2, <1>5, EntriesStay, Zenon DEF PortsRight

\* The datagrams of the loops keep ec_slave right.
LEMMA AskKeepsEntries ==
  ASSUME Good, Good', EntriesRight, BoxesRight, PortsRight, Ask
  PROVE  ListKept
<1>1. /\ step = "ask" /\ round \in 0 .. 5 /\ (round >= 4 => next \in mbx_l) /\ next \in Present
      /\ UNCHANGED <<mailboxes, entry, mbx_l, activeports>>
  BY AskGoes DEF BoxHere, Good, PlaceRight
<1>2. CASE Again \/ Goes("ports")  BY <1>1, <1>2, NothingFetched
<1>3. CASE round < 5 /\ Advance
  <2>1. \A d \in Present :
          d \in mbx_l' <=> d \in mbx_l \/ (d = next /\ round = 4 /\ d \in mailboxes)
    BY <1>1
  <2>2. ASSUME NEW d \in Present, NEW k \in 1 .. 6
        PROVE  IF d = next /\ (k = round \/ (round = 5 /\ k = 6))
               THEN entry'[d][WordOrder[k]] = OwnWord(d, WordOrder[k])
               ELSE entry'[d][WordOrder[k]] = entry[d][WordOrder[k]]
    <3>1. d = next /\ k = round => IsFetched(d, k)  BY <1>1, <1>3, WordFacts DEF IsFetched
    <3>2. entry[d][WordOrder[k]] = IF IsFetched(d, k) THEN OwnWord(d, WordOrder[k]) ELSE NoWord
      BY WordFacts DEF EntriesRight
    <3> QED  BY <1>1, <1>3, <3>1, <3>2
  <2>3. ASSUME NEW d \in Present
        PROVE  IF d = next /\ round = 5 THEN activeports'[d] = d
               ELSE activeports'[d] = activeports[d]
    BY <1>1, <1>3
  <2> QED  BY <1>1, <1>3, <2>1, <2>2, <2>3, EntriesAdvance DEF Loops
<1> QED  BY AskGoes, <1>2, <1>3

LEMMA FetchKeepsEntries ==
  ASSUME Good, Good', AddressesRight, WordsRight, EntriesRight, BoxesRight, PortsRight, Fetch,
         tries = Repeats => lostgrams' = lostgrams
  PROVE  ListKept
<1>1. /\ step \in {"fetch", "fetch_protocol"} /\ round \in 1 .. 5 /\ (round = 5 => next \in mbx_l)
      /\ step = "fetch_protocol" => round = 5
      /\ next \in Present
      /\ UNCHANGED <<mailboxes, activeports>>
  BY FetchGoes DEF BoxHere, Good, PlaceRight
<1>2. CASE Again /\ UNCHANGED <<entry, mbx_l>>  BY <1>1, <1>2, NothingFetched
<1>3. ASSUME NEW v, Value(v), TakeWord(v)
      PROVE  ListKept
  <2>1. /\ v = <<next, Fetched>> /\ Turn \in 1 .. 6 /\ Fetched = WordOrder[Turn]
        /\ \A k \in 1 .. 6 : WordOrder[k] = Fetched => k = Turn
    BY <1>1, <1>3, FetchRight
  <2>2. /\ Fetched \in Fields
        /\ entry' = [entry EXCEPT ![next][Fetched] = v]
        /\ Fetched # "out" => mbx_l' = mbx_l
        /\ \/ step = "fetch" /\ (round >= 4 => BoxHere') /\ Goes("ask")
           \/ (step = "fetch_protocol" \/ (round >= 4 /\ next \notin mbx_l')) /\ Advance
    BY <1>1, <1>3, TakeWordGoes
  <2>3. \A d \in Present : d \in mbx_l' <=> d \in mbx_l \/ (d = next /\ Turn = 4 /\ d \in mailboxes)
    <3>1. CASE Turn = 4
      <4>1. Fetched = "out"  BY <2>1, <3>1, WordFacts
      <4> QED  BY <1>3, <2>1, <3>1, <4>1, BoxLearnt
    <3>2. CASE Turn # 4
      <4>1. Fetched # "out"
        <5>1. 4 \in 1 .. 6 /\ WordOrder[4] = "out"  BY WordFacts
        <5> QED  BY <2>1, <3>2, <5>1
      <4> QED  BY <2>2, <3>2, <4>1
    <3> QED  BY <3>1, <3>2
  <2>4. \A k \in 1 .. 6 : next \in mbx_l => next \in mailboxes  BY <1>1 DEF BoxesRight
  <2>5. OwnWord(next, Fetched) = <<next, Fetched>>
    <3>1. Fetched \in {"in", "proto"} => Turn \in {5, 6}
      <4>1. 5 \in 1 .. 6 /\ 6 \in 1 .. 6 /\ WordOrder[5] = "in" /\ WordOrder[6] = "proto"
        BY WordFacts
      <4> QED  BY <2>1, <4>1
    <3>2. Turn \in {5, 6} => round = 5  BY <1>1 DEF Turn
    <3>3. Fetched \in {"in", "proto"} => next \in mailboxes
      BY <1>1, <3>1, <3>2 DEF BoxesRight
    <3> QED  BY <3>3 DEF OwnWord
  <2>6. ASSUME NEW d \in Present, NEW k \in 1 .. 6
        PROVE  IF d = next /\ k = Turn THEN entry'[d][WordOrder[k]] = OwnWord(d, WordOrder[k])
               ELSE entry'[d][WordOrder[k]] = entry[d][WordOrder[k]]
    <3>1. entry \in [Present -> [Fields -> WordsHad]] /\ WordOrder[k] \in Fields
      BY WordOfRound DEF Good, DiscoveryTypes
    <3>2. CASE d = next /\ k = Turn
      <4>1. entry'[d][WordOrder[k]] = v  BY <1>1, <2>1, <2>2, <3>1, <3>2
      <4> QED  BY <2>1, <2>5, <3>2, <4>1
    <3>3. CASE ~ (d = next /\ k = Turn)
      <4>1. d # next \/ WordOrder[k] # Fetched  BY <2>1, <3>3
      <4>2. entry'[d][WordOrder[k]] = entry[d][WordOrder[k]]
        BY <1>1, <2>2, <3>1, <4>1
      <4> QED  BY <3>3, <4>2
    <3> QED  BY <3>2, <3>3
  <2>7. CASE step = "fetch" /\ Goes("ask")
    <3>1. Turn = round  BY <2>7 DEF Turn
    <3>2. \A d \in Present, k \in 1 .. 6 :
            IsFetched(d, k)' <=> IsFetched(d, k) \/ (d = next /\ k = Turn)
      BY <1>1, <2>7, <3>1, WordFacts DEF IsFetched, Goes
    <3>3. \A d \in Present : PortsRead(d)' <=> PortsRead(d)  BY <2>7 DEF PortsRead, Goes
    <3>4. Turn \in 0 .. 6  BY <2>1
    <3> HIDE DEF Turn
    <3> QED  BY <1>1, <2>3, <2>6, <3>2, <3>3, <3>4, EntriesStay DEF PortsRight
  <2>8. CASE (step = "fetch_protocol" \/ (round >= 4 /\ next \notin mbx_l')) /\ Advance
    <3>1. \/ round = 4 /\ Turn = 4 /\ step = "fetch"
          \/ round = 5 /\ Turn = 6 /\ step = "fetch_protocol"
      <4>1. step = "fetch" => Turn = round  BY DEF Turn
      <4>2. step = "fetch_protocol" => Turn = 6  BY DEF Turn
      <4>3. round = 5 /\ step = "fetch" => next \in mbx_l'  BY <1>1, <2>3
      <4> QED  BY <1>1, <2>8, <4>1, <4>2, <4>3
    <3>2. \A d \in Present :
            d \in mbx_l' <=> d \in mbx_l \/ (d = next /\ round = 4 /\ d \in mailboxes)
      BY <2>3, <3>1
    <3>3. ASSUME NEW d \in Present, NEW k \in 1 .. 6
          PROVE  IF d = next /\ (k = round \/ (round = 5 /\ k = 6))
                 THEN entry'[d][WordOrder[k]] = OwnWord(d, WordOrder[k])
                 ELSE entry'[d][WordOrder[k]] = entry[d][WordOrder[k]]
      <4>1. CASE d = next /\ k = 5 /\ round = 5
        <5>1. IsFetched(d, k)  BY <3>1, <4>1, WordFacts DEF IsFetched
        <5>2. entry[d][WordOrder[k]] = OwnWord(d, WordOrder[k])
          BY <5>1, WordFacts DEF EntriesRight
        <5>3. entry'[d][WordOrder[k]] = entry[d][WordOrder[k]]  BY <2>6, <3>1, <4>1
        <5> QED  BY <4>1, <5>2, <5>3
      <4>2. CASE ~ (d = next /\ k = 5 /\ round = 5)  BY <2>6, <3>1, <4>2
      <4> QED  BY <4>1, <4>2
    <3>4. ASSUME NEW d \in Present
          PROVE  IF d = next /\ round = 5 THEN activeports'[d] = d
                 ELSE activeports'[d] = activeports[d]
      <4>1. d = next /\ round = 5 => PortsRead(d)  BY <3>1, WordFacts DEF PortsRead
      <4> QED  BY <1>1, <4>1 DEF PortsRight
    <3>5. round \in 0 .. 5 /\ step \in Loops  BY <1>1 DEF Loops
    <3> QED  BY <1>1, <2>8, <3>2, <3>3, <3>4, <3>5, EntriesAdvance
  <2> QED  BY <2>2, <2>7, <2>8
<1> QED  BY FetchGoes, <1>2, <1>3

LEMMA ReadPortsKeepsEntries ==
  ASSUME Good, Good', AddressesRight, EntriesRight, BoxesRight, PortsRight, ReadPorts,
         unprotected' = FALSE
  PROVE  ListKept
<1>1. /\ step = "ports" /\ round = 5 /\ next \in Present
      /\ UNCHANGED <<mailboxes, entry, mbx_l>>
      /\ (next \in mbx_l /\ Goes("fetch_protocol")) \/ (next \notin mbx_l /\ Advance)
  BY ReadPortsGoes DEF BoxHere, Good, PlaceRight
<1>2. \A d \in Present : activeports'[d] = IF d = next THEN d ELSE activeports[d]
  <2>1. Here = {next} /\ Answering = next  BY <1>1, HereAlone DEF Loops
  <2>2. activeports' = [activeports EXCEPT ![next] = next]
    BY <2>1, ReadPortsGoes
  <2> QED  BY <1>1, <2>2 DEF Good, DiscoveryTypes
<1>3. CASE Goes("fetch_protocol")
  <2>1. \A d \in Present, k \in 1 .. 6 : IsFetched(d, k)' <=> IsFetched(d, k)
    BY <1>1, <1>3 DEF IsFetched, Goes
  <2>2. next \in Int /\ \A d \in Present : d \in Int  BY <1>1 DEF Present
  <2>3. \A d \in Present : /\ PortsRead(d)' <=> PortsRead(d) \/ d = next
                           /\ d = next => ~ PortsRead(d)
    BY <1>1, <1>3, <2>2, WordFacts DEF PortsRead, Goes
  <2>4. \A k \in 1 .. 6 : k # 0  OBVIOUS
  <2> DEFINE turn == 0
  <2>5. turn \in 0 .. 6 /\ turn # 4 /\ \A k \in 1 .. 6 : k # turn  BY <2>4
  <2> HIDE DEF turn
  <2> QED  BY <1>1, <1>2, <2>1, <2>3, <2>5, EntriesStay
<1>4. CASE next \notin mbx_l /\ Advance
  <2>1. \A d \in Present :
          d \in mbx_l' <=> d \in mbx_l \/ (d = next /\ round = 4 /\ d \in mailboxes)
    BY <1>1
  <2>2. ASSUME NEW d \in Present, NEW k \in 1 .. 6
        PROVE  IF d = next /\ (k = round \/ (round = 5 /\ k = 6))
               THEN entry'[d][WordOrder[k]] = OwnWord(d, WordOrder[k])
               ELSE entry'[d][WordOrder[k]] = entry[d][WordOrder[k]]
    <3>1. entry[d][WordOrder[k]] = IF IsFetched(d, k) THEN OwnWord(d, WordOrder[k]) ELSE NoWord
      BY WordFacts DEF EntriesRight
    <3>2. d = next /\ k = 5 => IsFetched(d, k)  BY <1>1, WordFacts DEF IsFetched
    <3>3. ASSUME d = next, k = 6
          PROVE  entry[d][WordOrder[k]] = OwnWord(d, WordOrder[k])
      <4>1. d \in Int  BY DEF Present
      <4>2. ~ IsFetched(d, k) /\ IsFetched(d, 4)  BY <1>1, <3>3, <4>1, WordFacts DEF IsFetched
      <4>3. d \notin mailboxes  BY <1>4, <3>3, <4>2 DEF BoxesRight
      <4>4. OwnWord(d, WordOrder[k]) = NoWord  BY <3>3, <4>3, NoBoxNoWord
      <4> QED  BY <3>1, <4>2, <4>4
    <3> QED  BY <1>1, <3>1, <3>2, <3>3
  <2>3. ASSUME NEW d \in Present
        PROVE  IF d = next /\ round = 5 THEN activeports'[d] = d
               ELSE activeports'[d] = activeports[d]
    BY <1>1, <1>2
  <2> QED  BY <1>1, <1>4, <2>1, <2>2, <2>3, EntriesAdvance DEF Loops
<1> QED  BY <1>1, <1>3, <1>4

\* So does every step.
LEMMA ListRightKept ==
  ASSUME Good, Good', TriesCounted, ListRight, ListEmpty, DiscoveryNext
  PROVE  ListRight'
<1> SUFFICES ASSUME AllRepeated', Running' PROVE AddressesRight' /\ WordsRight' /\ ListKept
  BY DEF ListRight, ListKept
<1>1. AddressesRight' /\ WordsRight'  BY AddressesKept, WordsKept
<1>2. ListKept
  <2>1. AllRepeated /\ unprotected' = FALSE /\ (tries = Repeats => lostgrams' = lostgrams)
    BY StillRepeated
  <2>2. CASE Detect \/ SetDefaults \/ SetAddress \/ GetAddress \/ GetStatus
    BY <2>2, EntriesBeginning
  <2>3. CASE Ask \/ Fetch \/ ReadPorts
    <3>1. ~ Detect
      <4>1. step \in Loops  BY <2>3, AskGoes, FetchGoes, ReadPortsGoes DEF Loops
      <4> QED  BY <4>1 DEF Detect, Loops
    <3>2. AddressesRight /\ WordsRight /\ EntriesRight /\ BoxesRight /\ PortsRight
      BY <2>1, <3>1, FoundBefore DEF ListRight
    <3> QED  BY <2>1, <2>3, <3>2, AskKeepsEntries, FetchKeepsEntries, ReadPortsKeepsEntries
  <2> QED  BY <2>2, <2>3 DEF DiscoveryNext
<1> QED  BY <1>1, <1>2

-----------------------------------------------------------------------------
(* Before slaves are found, and what belongs to nobody else.               *)

\* Only the broadcast finds slaves.
LEMMA OnlyDetectFinds ==
  ASSUME Good, Good', DiscoveryNext, ~ Running \/ ~ Running'
  PROVE  Detect /\ ~ Running
<1>1. slavecount \in Nat /\ slavecount' \in Nat  BY DEF Good, DiscoveryTypes
<1>2. ASSUME ~ Detect  PROVE FALSE
  <2>1. slavecount' = slavecount
    BY <1>2, DefaultGoes, SetAddressGoes, GetAddressGoes, GetStatusGoes, AskGoes, FetchGoes,
       ReadPortsGoes DEF DiscoveryNext
  <2>2. step \notin {"detect", "done"}
    BY <1>2, DefaultGoes, SetAddressGoes, GetAddressGoes, GetStatusGoes, AskGoes, FetchGoes,
       ReadPortsGoes DEF DiscoveryNext
  <2>3. slavecount > 0  BY <2>2 DEF Good, PlaceRight
  <2> QED  BY <1>1, <2>1, <2>3 DEF Running
<1>3. Detect  BY <1>2
<1> QED  BY <1>3, DetectGoes DEF Running

\* Until then ec_slave stays empty.
LEMMA ListEmptyKept ==
  ASSUME Good, Good', ListEmpty, DiscoveryNext
  PROVE  ListEmpty'
<1> SUFFICES ASSUME ~ Running' PROVE ListEmpty'  BY DEF ListEmpty
<1>1. Detect /\ ~ Running  BY OnlyDetectFinds
<1>2. UNCHANGED <<address, configadr, fresh, mbx_l, entry>>  BY <1>1 DEF Detect, slaves
<1> QED  BY <1>1, <1>2 DEF ListEmpty

\* Who goes astray, goes astray by a loss.
LEMMA AstrayCounted ==
  ASSUME lostgrams \in Nat, lostgrams' \in {lostgrams, lostgrams + 1},
         \A d \in Present : Astray(d) => lostgrams >= 1,
         \A d, e \in Present : Astray(d) /\ Astray(e) /\ d # e => lostgrams >= 2,
         \A d \in Present : Astray(d)' => Astray(d) \/ (d = next /\ lostgrams' = lostgrams + 1)
  PROVE  /\ \A d \in Present : Astray(d)' => lostgrams' >= 1
         /\ \A d, e \in Present : Astray(d)' /\ Astray(e)' /\ d # e => lostgrams' >= 2
<1>1. ASSUME NEW d \in Present, Astray(d)'  PROVE lostgrams' >= 1
  <2>1. Astray(d) \/ (d = next /\ lostgrams' = lostgrams + 1)  BY <1>1
  <2>2. Astray(d) => lostgrams >= 1  OBVIOUS
  <2> QED  BY <2>1, <2>2
<1>2. ASSUME NEW d \in Present, NEW e \in Present, Astray(d)', Astray(e)', d # e
      PROVE  lostgrams' >= 2
  <2>1. /\ Astray(d) \/ (d = next /\ lostgrams' = lostgrams + 1)
        /\ Astray(e) \/ (e = next /\ lostgrams' = lostgrams + 1)
    BY <1>2
  <2>2. (Astray(d) => lostgrams >= 1) /\ (Astray(e) => lostgrams >= 1)  OBVIOUS
  <2>3. Astray(d) /\ Astray(e) => lostgrams >= 2  BY <1>2
  <2> QED  BY <1>2, <2>1, <2>2, <2>3
<1> QED  BY <1>1, <1>2

\* The address of a slave is its own or none, and there is none only by a loss.
OwnOrNone ==
  /\ \A d \in Present :
       /\ address[d] \in {Unaddressed, Node(d)} /\ (~AddressSet(d) => address[d] = Unaddressed)
       /\ configadr[d] \in {Unaddressed, Node(d)}
  /\ \A d \in Present : Astray(d) => lostgrams >= 1
  /\ \A d, e \in Present : Astray(d) /\ Astray(e) /\ d # e => lostgrams >= 2
EntriesOwn == lostgrams <= 1 => \A d \in Present, f \in Fields : entry[d][f][1] \in {0, d}

\* The two parts of NobodyElse.
LEMMA NobodyElseIs ==
  NobodyElse <=> /\ \A d \in Present : eedata[d][1] \in {0, d}
                 /\ fresh /\ Running => OwnOrNone /\ EntriesOwn
BY DEF NobodyElse, OwnOrNone, EntriesOwn

\* A slave loads words of its own EEPROM.
LEMMA LoadedOwn ==
  ASSUME Good, NobodyElse, DiscoveryNext
  PROVE  \A d \in Present : eedata'[d][1] \in {0, d}
<1>1. \A d \in Present : eedata[d][1] \in {0, d}  BY DEF NobodyElse
<1>2. CASE Ask
  <2>1. Load \/ eedata' = eedata  BY <1>2, AskGoes
  <2>2. ASSUME Load, NEW d \in Present  PROVE eedata'[d][1] \in {0, d}
    <3>1. eedata'[d] = <<d, AskedFor>> \/ eedata'[d] = eedata[d]  BY <2>2 DEF Load
    <3> QED  BY <1>1, <3>1
  <2> QED  BY <1>1, <2>1, <2>2
<1>3. CASE ~ Ask
  <2>1. eedata' = eedata
    BY <1>3, DefaultGoes, SetAddressGoes, GetAddressGoes, GetStatusGoes, FetchGoes, ReadPortsGoes
       DEF DiscoveryNext, Detect, slaves
  <2> QED  BY <1>1, <2>1
<1> QED  BY <1>2, <1>3

\* The addresses stay so: with one loss one slave is astray, with two another.
LEMMA OwnOrNoneKept ==
  ASSUME Good, Good', TriesCounted, ListEmpty, NobodyElse, DiscoveryNext, fresh', Running'
  PROVE  OwnOrNone'
<1> USE ParameterTypes
<1>1. lostgrams \in Nat /\ lostgrams' \in {lostgrams, lostgrams + 1}
  BY LossesCounted DEF Good, DiscoveryTypes
<1>2. next \in Present /\ \A d \in Present : d \in Nat /\ d > 0
  BY DEF Good, PlaceRight, Present
<1>3. fresh' = fresh
  BY DefaultGoes, SetAddressGoes, GetAddressGoes, GetStatusGoes, AskGoes, FetchGoes, ReadPortsGoes
     DEF DiscoveryNext, Detect, slaves
<1>4. CASE Detect
  <2>1. step' = "force" /\ slavecount = 0  BY <1>4, DetectGoes DEF Running
  <2>2. \A d \in Present : address[d] = Unaddressed /\ configadr[d] = Unaddressed
    BY <1>3, <2>1 DEF ListEmpty, Running
  <2>3. address' = address /\ configadr' = configadr  BY <1>4 DEF Detect, slaves
  <2>4. \A d \in Present : ~ AddressSet(d)' /\ ~ AddressRead(d)'
    BY <2>1 DEF AddressSet, AddressRead, Beginning
  <2>5. \A d \in Present : ~ Astray(d)'  BY <2>4 DEF Astray
  <2> QED  BY <2>2, <2>3, <2>4, <2>5 DEF OwnOrNone
<1>5. ASSUME ~ Detect  PROVE OwnOrNone
  BY <1>3, <1>5, FoundBefore DEF NobodyElse, OwnOrNone
<1>6. CASE SetDefaults
  <2>1. OwnOrNone  BY <1>5, <1>6, DefaultGoes DEF Detect
  <2>2. address' = address /\ configadr' = configadr  BY <1>6, DefaultGoes
  <2>3. \A d \in Present : ~ AddressSet(d)' /\ ~ AddressRead(d)' /\ ~ AddressSet(d)
    BY <1>2, <1>6, DefaultGoes DEF AddressSet, AddressRead, Beginning
  <2>4. \A d \in Present : ~ Astray(d)'  BY <2>3 DEF Astray
  <2> QED  BY <2>1, <2>2, <2>3, <2>4 DEF OwnOrNone
<1>7. CASE SetAddress
  <2>1. /\ step = "set_address" /\ step' = "get_address" /\ round' = round /\ next' = next
        /\ round = 0 /\ configadr' = configadr
        /\ \/ address' = [address EXCEPT ![next] = Node(next)]
           \/ address' = address /\ lostgrams' = lostgrams + 1
    BY <1>7, SetAddressGoes
  <2>2. OwnOrNone  BY <1>5, <2>1 DEF Detect
  <2>3. \A d \in Present : /\ AddressSet(d)' <=> AddressSet(d) \/ d = next
                           /\ AddressRead(d)' <=> AddressRead(d)
    BY <1>2, <2>1 DEF AddressSet, AddressRead, Beginning
  <2>4. \A d \in Present : address'[d] = address[d] \/ (d = next /\ address'[d] = Node(d))
    BY <2>1 DEF Good, DiscoveryTypes
  <2>5. Node(next) # Unaddressed  BY <1>2 DEF Node, Unaddressed
  <2>6. lostgrams' = lostgrams + 1 \/ address'[next] = Node(next)
    BY <1>2, <2>1 DEF Good, DiscoveryTypes
  <2>7. \A d \in Present : Astray(d)' => Astray(d) \/ (d = next /\ lostgrams' = lostgrams + 1)
    BY <2>1, <2>3, <2>4, <2>5, <2>6 DEF Astray
  <2>8. \A d \in Present :
          address'[d] \in {Unaddressed, Node(d)} /\ (~ AddressSet(d)' => address'[d] = Unaddressed)
    BY <2>2, <2>3, <2>4 DEF OwnOrNone
  <2>9. /\ \A d \in Present : Astray(d)' => lostgrams' >= 1
        /\ \A d, e \in Present : Astray(d)' /\ Astray(e)' /\ d # e => lostgrams' >= 2
    BY <1>1, <2>2, <2>7, AstrayCounted DEF OwnOrNone
  <2> QED  BY <2>1, <2>2, <2>8, <2>9 DEF OwnOrNone
<1>8. CASE GetAddress
  <2>1. /\ step = "get_address" /\ step' = "status" /\ round' = round /\ next' = next
        /\ round = 0 /\ address' = address
        /\ \/ configadr' = [configadr EXCEPT ![next] = address[next]]
           \/ configadr' = [configadr EXCEPT ![next] = 0] /\ lostgrams' = lostgrams + 1
    BY <1>8, GetAddressGoes
  <2>2. OwnOrNone  BY <1>5, <2>1 DEF Detect
  <2>3. \A d \in Present : /\ AddressSet(d)' <=> AddressSet(d)
                           /\ AddressRead(d)' <=> AddressRead(d) \/ d = next
    BY <1>2, <2>1 DEF AddressSet, AddressRead, Beginning
  <2>4. AddressSet(next)  BY <2>1 DEF AddressSet, Beginning
  <2>5. \A d \in Present : \/ d # next /\ configadr'[d] = configadr[d]
                           \/ d = next /\ configadr'[d] = address[d]
                           \/ d = next /\ configadr'[d] = 0 /\ lostgrams' = lostgrams + 1
    BY <2>1 DEF Good, DiscoveryTypes
  <2>6. \A d \in Present : Astray(d)' => Astray(d) \/ (d = next /\ lostgrams' = lostgrams + 1)
    BY <2>1, <2>3, <2>4, <2>5 DEF Astray
  <2>7. \A d \in Present : configadr'[d] \in {Unaddressed, Node(d)}
    BY <2>2, <2>5 DEF OwnOrNone, Unaddressed
  <2>8. /\ \A d \in Present : Astray(d)' => lostgrams' >= 1
        /\ \A d, e \in Present : Astray(d)' /\ Astray(e)' /\ d # e => lostgrams' >= 2
    BY <1>1, <2>2, <2>6, AstrayCounted DEF OwnOrNone
  <2> QED  BY <2>1, <2>2, <2>3, <2>7, <2>8 DEF OwnOrNone
<1>9. CASE GetStatus \/ Ask \/ Fetch \/ ReadPorts
  <2>1. step # "detect"
    BY <1>9, GetStatusGoes, AskGoes, FetchGoes, ReadPortsGoes
  <2>2. OwnOrNone  BY <1>5, <2>1 DEF Detect
  <2>3. ASSUME NEW d \in Present
        PROVE  /\ AddressSet(d)' <=> AddressSet(d)
               /\ AddressRead(d)' <=> AddressRead(d)
               /\ address' = address /\ configadr' = configadr
    <3>1. CASE GetStatus
      <4>1. step = "status" /\ step' = "ask" /\ round' = round /\ next' = next
            /\ address' = address /\ configadr' = configadr
        BY <3>1, GetStatusGoes
      <4> QED  BY <4>1 DEF AddressSet, AddressRead, Beginning
    <3>2. CASE Ask \/ Fetch \/ ReadPorts  BY <3>2, LoopsAddressed
    <3> QED  BY <1>9, <3>1, <3>2
  <2>4. address' = address /\ configadr' = configadr  BY <1>2, <2>3
  <2>5. \A d \in Present : Astray(d)' => Astray(d)  BY <2>3 DEF Astray
  <2>6. /\ \A d \in Present : Astray(d)' => lostgrams' >= 1
        /\ \A d, e \in Present : Astray(d)' /\ Astray(e)' /\ d # e => lostgrams' >= 2
    BY <1>1, <2>2, <2>5, AstrayCounted DEF OwnOrNone
  <2> QED  BY <2>2, <2>3, <2>4, <2>6 DEF OwnOrNone
<1> QED  BY <1>4, <1>6, <1>7, <1>8, <1>9 DEF DiscoveryNext

\* With one slave astray nobody else answers where it should.
LEMMA EntriesOwnKept ==
  ASSUME Good, Good', TriesCounted, ListEmpty, NobodyElse, DiscoveryNext, fresh', Running'
  PROVE  EntriesOwn'
<1> SUFFICES ASSUME lostgrams' <= 1
             PROVE  \A d \in Present, f \in Fields : entry'[d][f][1] \in {0, d}
  BY DEF EntriesOwn
<1>1. lostgrams \in Nat /\ lostgrams' \in {lostgrams, lostgrams + 1} /\ lostgrams <= 1
  <2>1. lostgrams' \in {lostgrams, lostgrams + 1}  BY LossesCounted
  <2> QED  BY <2>1 DEF Good, DiscoveryTypes
<1>2. \A d \in Present, f \in Fields : entry[d][f][1] \in {0, d}
  <2>1. CASE Detect
    <3>1. ~ Running  BY <2>1, DetectGoes DEF Running
    <3> QED  BY <3>1 DEF ListEmpty, NoWord
  <2>2. CASE ~ Detect
    <3>1. fresh' = fresh
      BY DefaultGoes, SetAddressGoes, GetAddressGoes, GetStatusGoes, AskGoes, FetchGoes,
         ReadPortsGoes DEF DiscoveryNext, Detect, slaves
    <3> QED  BY <1>1, <2>2, <3>1, FoundBefore DEF NobodyElse
  <2> QED  BY <2>1, <2>2
<1>3. CASE ~ Fetch
  <2>1. entry' = entry
    BY <1>3, DefaultGoes, SetAddressGoes, GetAddressGoes, GetStatusGoes, AskGoes, ReadPortsGoes
       DEF DiscoveryNext, Detect
  <2> QED  BY <1>2, <2>1
<1>4. CASE Fetch
  <2>1. /\ step \in {"fetch", "fetch_protocol"} /\ round \in 1 .. 5 /\ fresh' = fresh
        /\ \/ entry' = entry
           \/ \E v : Value(v) /\ TakeWord(v)
    BY <1>4, FetchGoes
  <2>2. ASSUME NEW v, Value(v), TakeWord(v)
        PROVE  v[1] \in {0, next}
    <3>1. CASE v = NoWord  BY <3>1 DEF NoWord
    <3>2. CASE v # NoWord
      <4>1. lostgrams' = lostgrams /\ Here # {} /\ v = eedata[Answering]
        BY <2>2, <3>2 DEF Value
      <4>2. Answering \in Here /\ Answering \in Present  BY <4>1, AnsweringIsHere
      <4>3. OwnOrNone
        <5>1. ~ Detect  BY <2>1 DEF Detect
        <5> QED  BY <2>1, <5>1, FoundBefore DEF NobodyElse, OwnOrNone
      <4>4. next \in Present /\ \A d \in Present : d \in Nat /\ d > 0
        BY DEF Good, PlaceRight, Present
      <4>5. AddressSet(Answering) /\ AddressRead(next)
        BY <2>1 DEF AddressSet, AddressRead, Beginning
      <4>6. address[Answering] = configadr[next]  BY <4>2 DEF Here, Having
      <4>7. Answering = next
        <5>1. CASE configadr[next] = Unaddressed
          <6>1. Astray(next) /\ Astray(Answering)  BY <4>5, <4>6, <5>1 DEF Astray
          <6>2. Astray(Answering) /\ Astray(next) /\ Answering # next => lostgrams >= 2
            BY <4>2, <4>3, <4>4 DEF OwnOrNone
          <6> QED  BY <1>1, <6>1, <6>2
        <5>2. CASE configadr[next] # Unaddressed
          <6>1. configadr[next] = Node(next)  BY <4>3, <4>4, <5>2 DEF OwnOrNone
          <6>2. address[Answering] = Node(Answering)
            BY <4>2, <4>3, <4>6, <5>2 DEF OwnOrNone
          <6> QED  BY <4>2, <4>4, <4>6, <6>1, <6>2 DEF Node
        <5> QED  BY <5>1, <5>2
      <4> QED  BY <4>1, <4>2, <4>7 DEF NobodyElse
    <3> QED  BY <3>1, <3>2
  <2>3. ASSUME NEW v, Value(v), TakeWord(v), NEW d \in Present, NEW f \in Fields
        PROVE  entry'[d][f][1] \in {0, d}
    <3>1. entry' = [entry EXCEPT ![next][Fetched] = v]  BY <2>1, <2>3, TakeWordGoes
    <3>2. entry'[d][f] = entry[d][f] \/ (d = next /\ entry'[d][f] = v)
      BY <3>1 DEF Good, DiscoveryTypes
    <3>3. v[1] \in {0, next}  BY <2>2, <2>3
    <3> QED  BY <1>2, <3>2, <3>3
  <2> QED  BY <1>2, <2>1, <2>3
<1> QED  BY <1>3, <1>4

\* Together.
LEMMA NobodyElseKept ==
  ASSUME Good, Good', TriesCounted, ListEmpty, NobodyElse, DiscoveryNext
  PROVE  NobodyElse'
<1>1. \A d \in Present : eedata'[d][1] \in {0, d}  BY LoadedOwn
<1>2. ASSUME fresh', Running'  PROVE OwnOrNone' /\ EntriesOwn'
  BY <1>2, OwnOrNoneKept, EntriesOwnKept
<1>3. NobodyElse' <=> /\ \A d \in Present : eedata'[d][1] \in {0, d}
                      /\ fresh' /\ Running' => OwnOrNone' /\ EntriesOwn'
  BY DEF NobodyElse, OwnOrNone, EntriesOwn
<1> QED  BY <1>1, <1>2, <1>3

-----------------------------------------------------------------------------
(* The invariant.                                                          *)

\* The invariant holds when the code starts, every step keeps it, and it says
\* at the end what is to be shown.
LEMMA DiscoveryInvStarts ==
  ASSUME DiscoveryInit
  PROVE  DiscoveryInv
<1> USE ParameterTypes
<1>1. Good  BY DiscoveryStarts
<1>2. ~ Running  BY DEF DiscoveryInit, Running
<1>3. TriesCounted  BY DEF DiscoveryInit, TriesCounted
<1>4. ListRight  BY <1>2 DEF ListRight
<1>5. ListEmpty
  <2>1. \A d \in Present : /\ address[d] \in {0, Node(d - 1)}
                           /\ fresh => address[d] = Unaddressed
    BY DEF DiscoveryInit, Powered, Moved, Unaddressed
  <2> QED  BY <2>1 DEF DiscoveryInit, ListEmpty
<1>6. NobodyElse
  <2>1. \A d \in Present : eedata[d][1] = 0  BY DEF DiscoveryInit, NoWord
  <2> QED  BY <1>2, <2>1 DEF NobodyElse
<1> QED  BY <1>1, <1>3, <1>4, <1>5, <1>6 DEF DiscoveryInv, Good

LEMMA DiscoveryInvKept ==
  ASSUME DiscoveryInv, [DiscoveryNext]_discoveryVars
  PROVE  DiscoveryInv'
<1>1. CASE DiscoveryNext
  <2>1. Good /\ TriesCounted /\ ListRight /\ ListEmpty /\ NobodyElse  BY DEF DiscoveryInv, Good
  <2>2. Good'  BY <1>1, <2>1, PlaceKept, TypesKept DEF Good
  <2>3. TriesCounted'  BY <1>1, <2>1, LossesCounted
  <2>4. ListRight'  BY <1>1, <2>1, <2>2, ListRightKept
  <2>5. ListEmpty'  BY <1>1, <2>1, <2>2, ListEmptyKept
  <2>6. NobodyElse'  BY <1>1, <2>1, <2>2, NobodyElseKept
  <2> QED  BY <2>2, <2>3, <2>4, <2>5, <2>6 DEF DiscoveryInv, Good
<1>2. CASE UNCHANGED discoveryVars
  <2> USE <1>2 DEF discoveryVars, slaves, list, place
  <2>1. PlaceRight'  BY DEF DiscoveryInv, PlaceRight, BoxHere
  <2>2. DiscoveryTypes'  BY DEF DiscoveryInv, DiscoveryTypes
  <2>3. TriesCounted'  BY DEF DiscoveryInv, TriesCounted
  <2>4. ListRight'
    BY DEF DiscoveryInv, ListRight, AllRepeated, Running, AddressesRight, WordsRight, EntriesRight,
           BoxesRight, PortsRight, AddressSet, AddressRead, IsAsked, IsFetched, PortsRead, OwnWord
  <2>5. ListEmpty'  BY DEF DiscoveryInv, ListEmpty, Running
  <2>6. NobodyElse'
    BY DEF DiscoveryInv, NobodyElse, Running, Astray, AddressSet, AddressRead
  <2> QED  BY <2>1, <2>2, <2>3, <2>4, <2>5, <2>6 DEF DiscoveryInv
<1> QED  BY <1>1, <1>2

LEMMA DiscoveryInvShows ==
  ASSUME DiscoveryInv
  PROVE  IdentityOwn
<1> SUFFICES ASSUME Discovered PROVE IdentityOwn  BY DEF IdentityOwn
<1>1. step = "done" /\ slavecount > 0 /\ round = 6  BY DEF Discovered, DiscoveryInv, PlaceRight
<1>2. ASSUME AllRepeated, NEW s \in Present
      PROVE  /\ configadr[s] = address[s] /\ Having(address[s]) = {s} /\ activeports[s] = s
             /\ \A f \in Fields : entry[s][f] = OwnWord(s, f)
  <2>1. AddressesRight /\ EntriesRight /\ PortsRight
    BY <1>1, <1>2 DEF DiscoveryInv, ListRight, Running
  <2>2. \A d \in Present : AddressSet(d) /\ AddressRead(d)
    BY <1>1 DEF AddressSet, AddressRead, Beginning
  <2>3. \A d \in Present : configadr[d] = Node(d) /\ address[d] = Node(d)
    BY <2>1, <2>2 DEF AddressesRight
  <2>4. Having(address[s]) = {s}
    <3>1. \A d \in Present : d \in Int  BY DEF Present
    <3> QED  BY <2>3, <3>1 DEF Having, Node
  <2>5. activeports[s] = s  BY <1>1, <2>1, WordFacts DEF PortsRight, PortsRead
  <2>6. ASSUME NEW f \in Fields  PROVE entry[s][f] = OwnWord(s, f)
    <3>1. PICK k \in 1 .. 6 : f = WordOrder[k]  BY WordFacts DEF Fields
    <3>2. IsFetched(s, k)  BY <1>1, WordFacts DEF IsFetched
    <3> QED  BY <2>1, <3>1, <3>2, WordFacts DEF EntriesRight
  <2> QED  BY <2>3, <2>4, <2>5, <2>6
<1>3. ASSUME fresh, lostgrams <= 1
      PROVE  \A s \in Present, f \in Fields : entry[s][f][1] \in {0, s}
  BY <1>1, <1>3 DEF DiscoveryInv, NobodyElse, Running
<1> QED  BY <1>2, <1>3 DEF IdentityOwn, AllRepeated

\* Theorem: the invariant holds in every behaviour of ecx_config_init's first part.
THEOREM DiscoveryInvariant == DiscoverySpec => []DiscoveryInv
<1>1. DiscoveryInit => DiscoveryInv  BY DiscoveryInvStarts
<1>2. DiscoveryInv /\ [DiscoveryNext]_discoveryVars => DiscoveryInv'  BY DiscoveryInvKept
<1> QED  BY <1>1, <1>2, PTL DEF DiscoverySpec

\* Theorem: when all slaves have been asked, ec_slave has of each its own address,
\* words and ports, if what was lost was repeated; and of slaves just switched on
\* nothing that belongs to another, whichever single datagram is lost.
THEOREM IdentityOwnAlways == DiscoverySpec => []IdentityOwn
BY DiscoveryInvariant, DiscoveryInvShows, PTL

-----------------------------------------------------------------------------
(* Distributed clocks: pulses.                                             *)

\* The start of a slave's pulses is its shift after a whole number of cycles.
OnGrid(at, c) == \E k \in Int : at = k * c

\* What the call has written so far, and what is in ec_slave afterwards.
Written(s) ==
  /\ running[s] = DCactive[s] /\ cycle[s] = DCcycle[s]
  /\ DCcycle[s] > 0 /\ DCactive[s] => OnGrid(start[s] - DCshift[s], DCcycle[s])
Underway(s) ==
  /\ stage \in {"cycle", "act"} /\ request.for.c0 > 0 =>
       OnGrid(start[s] - request.for.shift, request.for.c0)
  /\ stage = "act" => cycle[s] = request.for.c0

Stages == {"idle", "stop", "time", "start", "cycle", "act"}
Requests == [s : Clocks, for : PulseCalls]

SyncTypes ==
  /\ now \in Nat /\ t1 \in Nat
  /\ start \in [Clocks -> Int] /\ cycle \in [Clocks -> Nat] /\ running \in [Clocks -> BOOLEAN]
  /\ DCactive \in [Clocks -> BOOLEAN] /\ DCshift \in [Clocks -> Int] /\ DCcycle \in [Clocks -> Nat]
  /\ stage \in Stages /\ (stage # "idle" => request \in Requests)
  /\ whole \subseteq Clocks

Consistent(s) == IF stage # "idle" /\ request.s = s THEN Underway(s) ELSE Written(s)

SyncInv == SyncTypes /\ \A s \in whole : Consistent(s)

\* Two multiples of a cycle are a multiple of it apart, as Multiple finds out.
LEMMA GridApart ==
  ASSUME NEW c \in Nat, c > 0, NEW i \in Int, NEW j \in Int
  PROVE  Multiple(i * c - j * c, c)
<1> DEFINE d == i - j
           q == (d * c) \div c
<1>1. i * c - j * c = d * c  OBVIOUS
<1>2. d \in Int  OBVIOUS
<1>3. \A x \in Int : x \div c \in Int /\ (x \div c) * c <= x /\ x < (x \div c) * c + c
  OBVIOUS
<1>4. d * c \in Int  BY <1>2
<1>5. q \in Int /\ q * c <= d * c /\ d * c < q * c + c  BY <1>3, <1>4
<1> HIDE DEF d, q
<1>6. \A a, b \in Int : a * c < b * c + c => a <= b
  <2> TAKE a, b \in Int
  <2> SUFFICES ASSUME a * c < b * c + c, ~(a <= b) PROVE FALSE  OBVIOUS
  <2>1. a >= b + 1  OBVIOUS
  <2>2. PICK n \in Nat : a = b + 1 + n  BY <2>1, a - b - 1 \in Nat
  <2>3. a * c = b * c + c + n * c  BY <2>2
  <2>4. n * c >= 0  BY <2>2
  <2> QED  BY <2>3, <2>4
<1>7. d <= q  BY <1>2, <1>5, <1>6
<1>8. q * c < d * c + c  BY <1>2, <1>5
<1>9. q <= d  BY <1>2, <1>5, <1>6, <1>8
<1>10. q = d  BY <1>2, <1>5, <1>7, <1>9
<1> QED  BY <1>1, <1>10 DEF Multiple, q

-----------------------------------------------------------------------------
\* The first trigger is the shift after a whole number of the cycle of SYNC0,
\* also where it is rounded to the cycle of both pulses.
LEMMA TriggerOnGrid ==
  ASSUME DcSyncParameters, NEW r \in PulseCalls, NEW time \in Nat, r.c0 > 0
  PROVE  /\ FirstTrigger(time, Period(r), r.shift) \in Int
         /\ OnGrid(FirstTrigger(time, Period(r), r.shift) - r.shift, r.c0)
<1>1. /\ r.c0 \in Nat /\ r.c1 \in Nat /\ r.shift \in Int /\ SyncDelay \in Nat
      /\ r.op \in {"sync0", "sync01"}
  BY DEF DcSyncParameters
<1>2. \A a \in Nat, b \in Nat : b > 0 => a \div b \in Nat  OBVIOUS
<1>3. PICK n \in Nat : n > 0 /\ Period(r) = n * r.c0
  <2>1. CASE r.op = "sync01"
    <3> DEFINE q == r.c1 \div r.c0
    <3>1. q \in Nat  BY <1>1, <1>2
    <3>2. Period(r) = (q + 1) * r.c0  BY <2>1 DEF Period, TrueCyclTime
    <3> HIDE DEF q
    <3> QED  BY <3>1, <3>2
  <2>2. CASE r.op = "sync0"
    <3>1. Period(r) = 1 * r.c0  BY <1>1, <2>2 DEF Period
    <3> QED  BY <3>1
  <2> QED  BY <1>1, <2>1, <2>2
<1>4. Period(r) \in Nat /\ Period(r) > 0
  <2>1. \A a, b \in Nat : a > 0 /\ b > 0 => a * b \in Nat /\ a * b > 0  OBVIOUS
  <2> QED  BY <1>1, <1>3, <2>1
<1> DEFINE k == (time + SyncDelay) \div Period(r)
<1>5. k \in Nat  BY <1>1, <1>2, <1>4
<1>6. FirstTrigger(time, Period(r), r.shift) = k * Period(r) + Period(r) + r.shift
  BY <1>4 DEF FirstTrigger
<1> HIDE DEF k
<1>7. \A a, b, c, d \in Int : (a * (b * c) + b * c + d) - d = ((a + 1) * b) * c
  OBVIOUS
<1>8. FirstTrigger(time, Period(r), r.shift) - r.shift = ((k + 1) * n) * r.c0
  BY <1>1, <1>3, <1>5, <1>6, <1>7
<1>9. (k + 1) * n \in Int  BY <1>5
<1>10. FirstTrigger(time, Period(r), r.shift) \in Int
  BY <1>1, <1>4, <1>5, <1>6
<1> QED  BY <1>8, <1>9, <1>10 DEF OnGrid

\* A call that asks for no cycle starts at a time, too.
LEMMA TriggerIsTime ==
  ASSUME DcSyncParameters, NEW r \in PulseCalls, NEW time \in Nat
  PROVE  FirstTrigger(time, Period(r), r.shift) \in Int
<1>1. CASE r.c0 > 0  BY <1>1, TriggerOnGrid
<1>2. CASE ~(r.c0 > 0)
  <2>1. r.op # "sync01" /\ r.c0 = 0 /\ r.shift \in Int /\ SyncDelay \in Nat
    BY <1>2 DEF DcSyncParameters
  <2>2. FirstTrigger(time, Period(r), r.shift) = time + SyncDelay + r.shift
    BY <2>1 DEF FirstTrigger, Period
  <2> QED  BY <2>1, <2>2
<1> QED  BY <1>1, <1>2

-----------------------------------------------------------------------------
LEMMA SyncStarts == DcInit => SyncInv
BY DEF DcInit, SyncInv, SyncTypes, Stages, Consistent, Written

LEMMA TickKeeps == ASSUME SyncInv, Tick PROVE SyncInv'
<1>1. SyncTypes'  BY DEF SyncInv, SyncTypes, Tick, registers, believed
<1>2. \A s \in whole' : Consistent(s)'
  BY DEF SyncInv, Tick, Consistent, Underway, Written, OnGrid, registers, believed
<1> QED  BY <1>1, <1>2 DEF SyncInv

LEMMA RequestKeeps == ASSUME SyncInv, NEW op, Request(op) PROVE SyncInv'
<1>1. PICK s \in Clocks, asked \in PulseCalls :
        request' = [s |-> s, for |-> asked] /\ whole' = whole \union {s}
  BY DEF Request
<1>2. /\ stage = "idle" /\ stage' = "stop" /\ t1' = 0
      /\ UNCHANGED <<now, start, cycle, running, DCactive, DCshift, DCcycle>>
  BY DEF Request, registers, believed
<1>3. SyncTypes'  BY <1>1, <1>2 DEF SyncInv, SyncTypes, Stages, Requests
<1>4. ASSUME NEW t \in whole' PROVE Consistent(t)'
  <2>1. CASE t = s  BY <1>1, <1>2, <2>1 DEF Consistent, Underway
  <2>2. CASE t # s
    <3>1. Written(t)  BY <1>1, <1>2, <2>2 DEF SyncInv, Consistent
    <3>2. Written(t)'  BY <1>2, <3>1 DEF Written, OnGrid
    <3> QED  BY <1>1, <2>2, <3>2 DEF Consistent
  <2> QED  BY <2>1, <2>2
<1> QED  BY <1>3, <1>4 DEF SyncInv

\* What a step of a call leaves of the other slaves, and of the types.
LEMMA OthersKeep ==
  ASSUME SyncTypes, stage # "idle", NEW s \in Clocks, s # request.s, Written(s), Enter,
         \/ Heard(stage)
         \/ UNCHANGED registers
  PROVE  Written(s)'
<1>1. request \in Requests  BY DEF SyncTypes
<1>2. /\ start'[s] = start[s] /\ cycle'[s] = cycle[s] /\ running'[s] = running[s]
  BY <1>1 DEF SyncTypes, Heard, registers, Requests
<1>3. /\ DCactive'[s] = DCactive[s] /\ DCshift'[s] = DCshift[s] /\ DCcycle'[s] = DCcycle[s]
  BY <1>1 DEF SyncTypes, Enter, believed, Requests
<1> QED  BY <1>2, <1>3 DEF Written, OnGrid

LEMMA NextStages ==
  ASSUME stage \in Stages, stage # "idle"
  PROVE  /\ NextStage(stage) \in Stages
         /\ NextStage(stage) = "idle" <=> stage = "act"
BY DEF Stages, NextStage

LEMMA SyncTypesKept ==
  ASSUME DcSyncParameters, SyncTypes, stage # "idle", stage' = NextStage(stage), Enter,
         Heard(stage) \/ UNCHANGED registers,
         t1' \in {now, t1}, now' = now, whole' \subseteq whole
  PROVE  SyncTypes'
<1>1. request \in Requests /\ request.s \in Clocks /\ request.for \in PulseCalls
  BY DEF SyncTypes, Requests
<1>2. request.for.c0 \in Nat /\ request.for.act \in BOOLEAN /\ request.for.shift \in Int
  BY <1>1 DEF DcSyncParameters
<1>3. FirstTrigger(t1, Period(request.for), request.for.shift) \in Int
  BY <1>1, TriggerIsTime DEF SyncTypes
<1>4. start' \in [Clocks -> Int] /\ cycle' \in [Clocks -> Nat] /\ running' \in [Clocks -> BOOLEAN]
  <2>1. CASE UNCHANGED registers  BY <2>1 DEF registers, SyncTypes
  <2>2. CASE Heard(stage)
    <3>1. start' \in [Clocks -> Int]  BY <1>1, <1>3, <2>2 DEF Heard, SyncTypes
    <3>2. cycle' \in [Clocks -> Nat]  BY <1>1, <1>2, <2>2 DEF Heard, SyncTypes
    <3>3. running' \in [Clocks -> BOOLEAN]  BY <1>1, <1>2, <2>2 DEF Heard, SyncTypes
    <3> QED  BY <3>1, <3>2, <3>3
  <2> QED  BY <2>1, <2>2
<1>5. /\ DCactive' \in [Clocks -> BOOLEAN] /\ DCshift' \in [Clocks -> Int]
      /\ DCcycle' \in [Clocks -> Nat]
  BY <1>1, <1>2 DEF Enter, believed, SyncTypes
<1>6. stage' \in Stages /\ (stage' # "idle" => request' \in Requests)
  BY <1>1, NextStages DEF SyncTypes, Enter
<1>7. now' \in Nat /\ t1' \in Nat /\ whole' \subseteq Clocks  BY DEF SyncTypes
<1> QED  BY <1>4, <1>5, <1>6, <1>7 DEF SyncTypes

LEMMA DatagramKeeps == ASSUME DcSyncParameters, SyncInv, Datagram PROVE SyncInv'
<1>1. /\ SyncTypes /\ stage # "idle" /\ stage' = NextStage(stage) /\ Enter /\ Heard(stage)
      /\ t1' \in {now, t1} /\ now' = now /\ whole' = whole
  BY DEF SyncInv, Datagram
<1>2. SyncTypes'  BY <1>1, SyncTypesKept
<1>3. /\ request.s \in Clocks /\ request.for \in PulseCalls
      /\ request.for.c0 \in Nat /\ request.for.act \in BOOLEAN /\ request.for.shift \in Int
  BY <1>1 DEF SyncTypes, Requests, DcSyncParameters
<1>4. ASSUME NEW s \in whole, s # request.s PROVE Consistent(s)'
  <2>1. Written(s) /\ s \in Clocks  BY <1>1, <1>4 DEF SyncInv, Consistent, SyncTypes
  <2>2. Written(s)'  BY <1>1, <1>4, <2>1, OthersKeep
  <2>3. stage' # "idle" => request'.s # s  BY <1>1, <1>4, NextStages DEF Enter, SyncTypes
  <2> QED  BY <2>2, <2>3 DEF Consistent
<1>5. ASSUME NEW s \in whole, s = request.s PROVE Consistent(s)'
  <2>1. Underway(s)  BY <1>1, <1>5 DEF SyncInv, Consistent
  <2>2. CASE stage \in {"stop", "time"}
    <3>1. stage' \in {"time", "start"} /\ request' = request
      BY <1>1, <2>2 DEF NextStage, Enter
    <3> QED  BY <1>5, <3>1 DEF Consistent, Underway
  <2>3. CASE stage = "start"
    <3>1. stage' = "cycle" /\ request' = request  BY <1>1, <2>3 DEF NextStage, Enter
    <3>2. start'[s] = FirstTrigger(t1, Period(request.for), request.for.shift)
      BY <1>1, <1>3, <1>5, <2>3 DEF Heard, SyncTypes
    <3>3. request.for.c0 > 0 => OnGrid(start'[s] - request.for.shift, request.for.c0)
      BY <1>1, <1>3, <1>5, <3>2, TriggerOnGrid DEF SyncTypes
    <3> QED  BY <1>5, <3>1, <3>3 DEF Consistent, Underway, OnGrid
  <2>4. CASE stage = "cycle"
    <3>1. stage' = "act" /\ request' = request  BY <1>1, <2>4 DEF NextStage, Enter
    <3>2. cycle'[s] = request.for.c0 /\ start' = start
      BY <1>1, <1>3, <1>5, <2>4 DEF Heard, SyncTypes
    <3> QED  BY <1>5, <2>1, <2>4, <3>1, <3>2 DEF Consistent, Underway, OnGrid
  <2>5. CASE stage = "act"
    <3>1. stage' = "idle"  BY <1>1, <2>5 DEF NextStage
    <3>2. running'[s] = request.for.act /\ start' = start /\ cycle' = cycle
      BY <1>1, <1>3, <1>5, <2>5 DEF Heard, SyncTypes
    <3>3. /\ DCactive'[s] = request.for.act /\ DCshift'[s] = request.for.shift
          /\ DCcycle'[s] = request.for.c0
      BY <1>1, <1>3, <1>5, <2>5 DEF Enter, SyncTypes
    <3>4. Written(s)'  BY <1>5, <2>1, <2>5, <3>2, <3>3 DEF Underway, Written, OnGrid
    <3> QED  BY <3>1, <3>4 DEF Consistent
  <2> QED  BY <1>1, <2>2, <2>3, <2>4, <2>5 DEF SyncTypes, Stages
<1> QED  BY <1>1, <1>2, <1>4, <1>5 DEF SyncInv

LEMMA DatagramLostKeeps == ASSUME DcSyncParameters, SyncInv, DatagramLost PROVE SyncInv'
<1>1. /\ SyncTypes /\ stage # "idle" /\ stage' = NextStage(stage) /\ Enter
      /\ UNCHANGED registers /\ t1' \in {now, t1} /\ now' = now /\ whole' \subseteq whole
      /\ stage # "time" => request.s \notin whole'
  BY DEF SyncInv, DatagramLost
<1>2. SyncTypes'  BY <1>1, SyncTypesKept
<1>3. ASSUME NEW s \in whole', s # request.s PROVE Consistent(s)'
  <2>1. Written(s) /\ s \in Clocks  BY <1>1, <1>3 DEF SyncInv, Consistent, SyncTypes
  <2>2. Written(s)'  BY <1>1, <1>3, <2>1, OthersKeep
  <2>3. stage' # "idle" => request'.s # s  BY <1>1, <1>3, NextStages DEF Enter, SyncTypes
  <2> QED  BY <2>2, <2>3 DEF Consistent
<1>4. ASSUME NEW s \in whole', s = request.s PROVE Consistent(s)'
  <2>1. stage = "time" /\ stage' = "start" /\ request' = request
    BY <1>1, <1>4 DEF NextStage, Enter
  <2> QED  BY <1>4, <2>1 DEF Consistent, Underway
<1> QED  BY <1>1, <1>2, <1>3, <1>4 DEF SyncInv

LEMMA StutterKeeps == ASSUME SyncInv, UNCHANGED dcVars PROVE SyncInv'
<1>1. UNCHANGED <<now, start, cycle, running, DCactive, DCshift, DCcycle, request, stage, t1,
                  whole>>
  BY DEF dcVars, registers, believed
<1>2. SyncTypes'  BY <1>1 DEF SyncInv, SyncTypes
<1>3. \A s \in whole' : Consistent(s)'
  BY <1>1 DEF SyncInv, Consistent, Underway, Written, OnGrid
<1> QED  BY <1>2, <1>3 DEF SyncInv

LEMMA SyncInvShows == ASSUME DcSyncParameters, SyncInv PROVE SyncTogether
<1> SUFFICES ASSUME NEW a \in Clocks, NEW b \in Clocks, Settled(a), Settled(b),
                    DCcycle[a] = DCcycle[b]
             PROVE  /\ running[a] /\ cycle[a] = DCcycle[a]
                    /\ Multiple((start[a] - DCshift[a]) - (start[b] - DCshift[b]), DCcycle[a])
  BY DEF SyncTogether
<1>1. Written(a) /\ Written(b)  BY DEF SyncInv, Consistent, Settled
<1> DEFINE c == DCcycle[a]
<1>2. c \in Nat /\ c > 0  BY DEF Settled, SyncInv, SyncTypes
<1>3. PICK i \in Int : start[a] - DCshift[a] = i * c  BY <1>1 DEF Written, OnGrid, Settled
<1>4. PICK j \in Int : start[b] - DCshift[b] = j * c  BY <1>1 DEF Written, OnGrid, Settled
<1>5. Multiple(i * c - j * c, c)  BY <1>2, GridApart
<1>6. running[a] /\ cycle[a] = c  BY <1>1 DEF Written, Settled
<1> QED  BY <1>3, <1>4, <1>5, <1>6

-----------------------------------------------------------------------------
\* Theorem: pulses asked for with the same cycle come together (the comment of
\* ecx_dcsync0), whatever time each slave read, if no write was lost.
THEOREM PulsesTogether == DcSpec => []SyncTogether
<1>1. DcInit => SyncInv  BY SyncStarts
<1>2. SyncInv /\ [DcNext]_dcVars => SyncInv'
  <2> SUFFICES ASSUME SyncInv, [DcNext]_dcVars PROVE SyncInv'  OBVIOUS
  <2>1. CASE Tick  BY <2>1, TickKeeps
  <2>2. CASE ecx_dcsync0  BY <2>2, RequestKeeps DEF ecx_dcsync0
  <2>3. CASE ecx_dcsync01  BY <2>3, RequestKeeps DEF ecx_dcsync01
  <2>4. CASE Datagram  BY <2>4, DatagramKeeps, DcSyncAssumption
  <2>5. CASE DatagramLost  BY <2>5, DatagramLostKeeps, DcSyncAssumption
  <2>6. CASE UNCHANGED dcVars  BY <2>6, StutterKeeps
  <2> QED  BY <2>1, <2>2, <2>3, <2>4, <2>5, <2>6 DEF DcNext
<1>3. SyncInv => SyncTogether  BY SyncInvShows, DcSyncAssumption
<1> QED  BY <1>1, <1>2, <1>3, PTL DEF DcSpec
-----------------------------------------------------------------------------
(***************************************************************************)
(* The EEPROM of a slave (Sii)                                             *)
(***************************************************************************)

Tools == {"peek", "poke", "alias"}
Handover == {"force", "take"}
Claims == {"claim", "claim2"}
Work == {"wait", "putdata", "command", "poll", "data"}

AnyWord == {Zero} \union (Slaves \X Places \X Nat)
Calls == [op : {"get", "read", "write", "pdi"} \union Copies, s : Slaves, w : Whole, was : Nat]
Sections == [op : {"section"}, s : Slaves, eectl : BOOLEAN]
Copiers == [op : Copies, s : Slaves, eectl : BOOLEAN, left : Seq(Whole), by : {2, 4},
            buf : [Whole -> AnyWord], ok : BOOLEAN]
Gets == [op : {"get"}, s : Slaves, w : Whole, value : AnyWord]
Answers == [op : {"get", "read", "write"}, s : Slaves, w : Whole, was : Nat,
            value : AnyWord, ok : BOOLEAN]

SiiType ==
  /\ written \in [Slaves -> [Places -> Nat]]
  /\ owner \in [Slaves -> {"master", "pdi"}] /\ eep_pdi \in [Slaves -> BOOLEAN]
  /\ data \in [Slaves -> [0 .. 3 -> AnyWord]] /\ refused \in [Slaves -> BOOLEAN]
  /\ esislave \in Slaves \union {NoSlave}
  /\ esimap \subseteq Places /\ esibuf \in [Places -> AnyWord]
  /\ reader \in {Idle} \union Sections \union Copiers
  /\ call \in {Idle} \union Calls
  /\ pc \in {"idle", "give", "status"} \union Handover \union Claims \union Work
  /\ result \in {Idle} \union Sections \union Copiers \union Gets \union Answers
  /\ cnt \in Nat /\ nackcnt \in Nat /\ losses \in Nat /\ nacks \in Nat /\ calls \in Nat

\* Where a call is, and for whom.
Flow ==
  /\ pc # "idle" => call \in Calls /\ (call.op \in Copies <=> reader.op \in Copies)
  /\ pc # "idle" /\ reader.op \in Copies => call.op = reader.op /\ call.s = reader.s
  /\ pc \in Claims \union {"status"} => call.op \in Tools
  /\ pc = "status" => call.op = "peek"
  /\ pc \in Handover => call.op \notin Tools \union {"pdi"}
  /\ pc = "give" => call.op = "pdi"
  /\ pc \in Work => call.op # "pdi"
  /\ (pc = "putdata" => call.op \in Writes) /\ (pc = "data" => call.op \notin Writes)
  /\ pc \in Work \union Handover /\ call.op \in Copies =>
       reader.left # <<>> /\ call.w = Head(reader.left)
  /\ pc # "idle" /\ call.op = "get" => call.s = esislave
  /\ pc \notin {"idle", "give"} \/ reader.op \in Copies => result = Idle
  /\ reader # Idle => result.op \notin Tools

Counted ==
  /\ cnt <= losses /\ calls <= MaxCalls
  /\ ByPosition(reader) \/ ByPosition(result) => calls = MaxCalls

\* So few were lost and refused that the call got through.
Reached(it) == Tolerable /\ (ByPosition(it) => losses <= 1)

ReadSoFar == \A i \in 0 .. 3 : i < Span(call.s) /\ call.w + i \in Places =>
             data[call.s][i] = Word(call.s, call.w + i)

Working ==
  /\ pc # "idle" => call.was <= written[call.s][call.w]
  /\ pc # "idle" /\ Reached(call) => nackcnt <= nacks
  /\ pc \in Work /\ Reached(call) => owner[call.s] = "master"
  /\ pc = "poll" /\ Reached(call) =>
       IF refused[call.s] THEN nackcnt + 1 <= nacks
       ELSE IF call.op \in Writes THEN call.was < written[call.s][call.w] ELSE ReadSoFar
  /\ pc = "data" /\ Reached(call) => ReadSoFar
  /\ pc = "claim2" /\ losses = 0 => owner[call.s] = "master"

\* What a copier has read or written, and what it has left.
Covered(it, w, width) ==
  \E i \in DOMAIN it.left : it.left[i] <= w /\ w < it.left[i] + width
CopiedSoFar(it) ==
  /\ it.op \in {"dump", "peek"} =>
       /\ it.by <= Span(it.s)
       /\ \A w \in Whole : IsWord(it.buf[w], it.s, w) \/ Covered(it, w, it.by)
  /\ it.op = "poke" => \A w \in Whole : written[it.s][w] > 0 \/ Covered(it, w, 1)
  /\ it.op = "alias" =>
       \A w \in {0, Words - 1} : written[it.s][w] > 0 \/ Covered(it, w, 1)
Copying ==
  reader.op \in Copies /\ Reached(reader) =>
    /\ pc \notin Handover \union Claims => owner[reader.s] = "master"
    /\ CopiedSoFar(reader)

Believed ==
  Tolerable /\ ~ByPosition(reader) /\ ~ByPosition(result) =>
    \A s \in Slaves : \/ eep_pdi[s] = (owner[s] = "pdi")
                      \/ pc \in Handover \union {"give"} /\ call.s = s
Restored ==
  result.op \in {"section", "dump"} /\ result.eectl =>
    eep_pdi[result.s] \/ (pc = "give" /\ call.s = result.s)

CacheRight == Tolerable => \A w \in esimap : w < Words => IsWord(esibuf[w], esislave, w)
ResultRight ==
  Tolerable =>
    /\ result.op = "get" => IsWord(result.value, result.s, result.w)
    /\ result.op = "read" => result.value = Word(result.s, result.w)
    /\ result.op = "write" => result.ok /\ written[result.s][result.w] > result.was
    /\ result.op = "dump" => \A w \in Whole : IsWord(result.buf[w], result.s, w)
    /\ losses <= 1 =>
         /\ result.op = "peek" => \A w \in Whole : IsWord(result.buf[w], result.s, w)
         /\ result.op = "poke" => \A w \in Whole : written[result.s][w] > 0
         /\ result.op = "alias" => \A w \in {0, Words - 1} : written[result.s][w] > 0

Inv == SiiType /\ Flow /\ Counted /\ Working /\ Copying /\ Believed /\ Restored
         /\ CacheRight /\ ResultRight

-----------------------------------------------------------------------------
(* Calls, readers and words.                                                *)

LEMMA Numbers ==
  /\ Words \in Nat /\ Words > 0 /\ 0 \in Whole /\ Words - 1 \in Whole /\ Whole \subseteq Places
  /\ Whole \subseteq Nat /\ Places \subseteq Nat
  /\ NoSlave \notin Slaves /\ Slaves \subseteq Nat
  /\ Retries \in Nat /\ MaxCalls \in Nat /\ MaxLosses \in Nat /\ MaxNacks \in Nat
BY SiiAssumption, SlaveListAssumption, SMT
   DEF SiiAssumption, SlaveListAssumption, Whole, Places, NoSlave, Master, Slaves

LEMMA FieldsOfCalls ==
  /\ Idle.op = "idle"
  /\ \A it \in Sections : it.op = "section" /\ it.s \in Slaves /\ it.eectl \in BOOLEAN
  /\ \A it \in Copiers :
       /\ it.op \in Copies /\ it.s \in Slaves /\ it.eectl \in BOOLEAN
       /\ it.left \in Seq(Whole) /\ it.by \in {2, 4} /\ it.buf \in [Whole -> AnyWord]
       /\ it.ok \in BOOLEAN
  /\ \A it \in Calls :
       /\ it.op \in {"get", "read", "write", "pdi"} \union Copies
       /\ it.s \in Slaves /\ it.w \in Whole /\ it.was \in Nat
  /\ \A it \in Gets : it.op = "get" /\ it.s \in Slaves /\ it.w \in Whole
  /\ \A it \in Answers : it.op \in {"get", "read", "write"} /\ it.s \in Slaves /\ it.w \in Whole
                          /\ it.was \in Nat
BY DEF Idle, Sections, Copiers, Calls, Gets, Answers

LEMMA Kinds ==
  /\ Copies = Tools \union {"dump"}
  /\ \A it : ByPosition(it) <=> it.op \in Tools
  /\ "idle" \notin Copies /\ "section" \notin Copies /\ Writes \subseteq Tools \union {"write"}
  /\ "peek" \notin Writes
BY DEF Copies, Tools, ByPosition, Writes

\* Who a reader is shows in its op.
LEMMA Readers ==
  ASSUME SiiType
  PROVE  /\ reader.op \in Copies <=> reader \in Copiers
         /\ reader.op = "section" <=> reader \in Sections
         /\ reader = Idle <=> reader.op = "idle"
         /\ result.op \in Copies => result \in Copiers
         /\ result.op = "section" => result \in Sections
         /\ result.op = "idle" => result = Idle
         /\ call # Idle <=> call \in Calls
BY FieldsOfCalls, Kinds DEF SiiType, Copies

\* A word is of one slave and one place.
LEMMA WordIsWord ==
  ASSUME SiiType, NEW s \in Slaves, NEW w \in Places
  PROVE  Word(s, w) \in AnyWord /\ IsWord(Word(s, w), s, w)
<1>1. written[s][w] \in Nat
  BY DEF SiiType
<1>2. Word(s, w) = <<s, w, written[s][w]>>
  BY DEF Word
<1>3. <<s, w, written[s][w]>> # <<"zero">>
  OBVIOUS
<1> QED BY <1>1, <1>2, <1>3 DEF AnyWord, IsWord, Zero

LEMMA Spans ==
  ASSUME NEW s
  PROVE  Span(s) \in {2, 4}
BY DEF Span

\* The places of a copy, each by-th, leave no word out.
LEMMA StridesCover ==
  ASSUME NEW by \in {1, 2, 4}
  PROVE  /\ Strides(by) \in Seq(Whole) /\ Strides(by) # <<>> /\ Head(Strides(by)) = 0
         /\ \A w \in Whole : \E i \in DOMAIN Strides(by) :
              Strides(by)[i] <= w /\ w < Strides(by)[i] + by
<1> DEFINE n == (Words + by - 1) \div by
<1>1. n \in Nat /\ n >= 1 /\ \A i \in 1 .. n : (i - 1) * by \in Whole
  BY Numbers, SMT DEF Whole
<1>2. \A w \in Whole : (w \div by) + 1 \in 1 .. n /\ (w \div by) * by <= w
                        /\ w < (w \div by) * by + by /\ w \div by \in Nat
  BY Numbers, SMT DEF Whole
<1>3. Strides(by) = [i \in 1 .. n |-> (i - 1) * by]
  BY DEF Strides
<1>4. Strides(by) \in Seq(Whole) /\ Len(Strides(by)) = n
  BY <1>1, <1>3
<1>5. Strides(by)[1] = 0 /\ Strides(by) # <<>>
  BY <1>1, <1>3, <1>4, SMT
<1>6. ASSUME NEW w \in Whole
      PROVE  \E i \in DOMAIN Strides(by) : Strides(by)[i] <= w /\ w < Strides(by)[i] + by
  <2>1. Strides(by)[(w \div by) + 1] = (w \div by) * by /\ (w \div by) + 1 \in DOMAIN Strides(by)
    BY <1>2, <1>3, <1>6, SMT
  <2> QED BY <2>1, <1>2, <1>6
<1> QED BY <1>4, <1>5, <1>6

-----------------------------------------------------------------------------
(* What a step does not disturb.                                            *)

\* Losses and refusals only grow.
Grows == losses' \in {losses, losses + 1} /\ nacks' \in {nacks, nacks + 1}

LEMMA Patience ==
  ASSUME SiiType, Grows
  PROVE  /\ Tolerable' => Tolerable
         /\ losses' <= 1 => losses <= 1
         /\ losses' \in Nat /\ nacks' \in Nat /\ nacks <= nacks'
BY Numbers, SMT DEF SiiType, Grows, Tolerable

LEMMA ReachedBefore ==
  ASSUME SiiType, Grows, call' = call
  PROVE  Reached(call)' => Reached(call) /\ losses' <= Retries
BY Patience DEF Reached, Tolerable

LEMMA CacheKept ==
  ASSUME SiiType, CacheRight, Grows, UNCHANGED cache
  PROVE  CacheRight'
BY Patience DEF CacheRight, cache

LEMMA ResultKept ==
  ASSUME SiiType, ResultRight, Grows,
         result' = Idle \/ (result' = result /\ written' = written)
  PROVE  ResultRight'
<1>1. CASE result' = Idle
  BY <1>1, FieldsOfCalls DEF ResultRight
<1>2. CASE result' = result /\ written' = written
  BY <1>2, Patience DEF ResultRight, Word
<1> QED BY <1>1, <1>2

LEMMA CopyKept ==
  ASSUME SiiType, Flow, Copying, Grows, pc # "idle", UNCHANGED <<reader, call>>,
         \A s \in Slaves, w \in Places : written'[s][w] \in Nat /\ written[s][w] <= written'[s][w],
         call.op \in Copies /\ Reached(call)' /\ pc' \notin Handover \union Claims
           => owner'[call.s] = "master"
  PROVE  Copying'
<1> SUFFICES ASSUME reader.op \in Copies, Reached(reader)'
             PROVE  /\ pc' \notin Handover \union Claims => owner'[reader.s] = "master"
                    /\ CopiedSoFar(reader)'
  BY DEF Copying
<1>1. call.op = reader.op /\ call.s = reader.s /\ reader \in Copiers
  BY Readers DEF Flow
<1>2. Reached(reader) /\ Reached(call)'
  BY <1>1, Patience DEF Reached, ByPosition
<1>3. CopiedSoFar(reader) /\ reader.s \in Slaves
  BY <1>1, <1>2, FieldsOfCalls DEF Copying
<1>4. \A w \in Whole : written[reader.s][w] > 0 => written'[reader.s][w] > 0
  <2> TAKE w \in Whole
  <2>1. w \in Places /\ reader.s \in Slaves
    BY <1>3, Numbers
  <2>2. written'[reader.s][w] \in Nat /\ written[reader.s][w] <= written'[reader.s][w]
    BY <2>1
  <2>3. written[reader.s][w] \in Nat
    BY <2>1 DEF SiiType
  <2> QED BY <2>2, <2>3, SMT
<1>5. CopiedSoFar(reader)'
  BY <1>3, <1>4, Numbers DEF CopiedSoFar, Covered
<1> QED BY <1>1, <1>2, <1>5

\* A read of the record a call is.
LEMMA StartRecord ==
  ASSUME SiiType, NEW op \in {"get", "read", "write", "pdi"} \union Copies, NEW s \in Slaves,
         NEW w \in Whole, NEW first, Start(op, s, w, first)
  PROVE  /\ call' \in Calls /\ call'.op = op /\ call'.s = s /\ call'.w = w
         /\ call'.was = written[s][w]
         /\ pc' = first /\ cnt' = 0 /\ nackcnt' = 0
BY Numbers DEF Start, Calls, SiiType

-----------------------------------------------------------------------------
(* A call begins.                                                           *)

LEMMA Begins ==
  ASSUME Inv, pc = "idle", UNCHANGED <<device, eep_pdi, losses, nacks>>, result' = Idle,
         NEW op \in {"get", "read", "write", "pdi"} \union Copies, NEW s \in Slaves,
         NEW w \in Whole, NEW first, Start(op, s, w, first),
         reader' \in {Idle} \union Sections \union Copiers,
         op \in Copies <=> reader'.op \in Copies,
         op \in Copies => op = reader'.op /\ s = reader'.s /\ reader'.left # <<>>
                          /\ (first # "claim" => w = Head(reader'.left)),
         \/ op \in Tools /\ first = "claim"
         \/ op \in Copies /\ first = "wait" /\ reader' = reader
         \/ op \notin Tools \union {"pdi"} /\ first = First(s)
         \/ op = "pdi" /\ first = "give",
         esislave' \in Slaves \union {NoSlave}, esimap' \subseteq Places, esibuf' = esibuf,
         CacheRight', op = "get" => s = esislave',
         calls' \in Nat, calls' <= MaxCalls, op \in Tools => calls' = MaxCalls,
         op \notin Tools => ~ByPosition(reader) /\ ~ByPosition(result),
         Copying'
  PROVE  Inv'
<1>1. /\ call' \in Calls /\ call'.op = op /\ call'.s = s /\ call'.w = w
      /\ call'.was = written[s][w] /\ pc' = first /\ cnt' = 0 /\ nackcnt' = 0
  BY StartRecord DEF Inv
<1>2. UNCHANGED <<written, owner, data, refused>>
  BY DEF device
<1>3. first \in {"claim", "wait", "force", "give"}
  BY DEF First
<1>4. SiiType'
  BY <1>1, <1>2, <1>3 DEF Inv, SiiType, Handover, Claims, Work
<1>5. Flow'
  BY <1>1, <1>3, FieldsOfCalls, Kinds DEF Flow, Handover, Claims, Work, First, Tools
<1>6. Counted'
  BY <1>1, <1>4, FieldsOfCalls, Kinds DEF Counted, SiiType
<1>7. owner[s] \in {"master", "pdi"} /\ written[s][w] \in Nat
  BY Numbers DEF Inv, SiiType
<1>8. ASSUME op \notin Tools, Tolerable, NEW n \in Slaves PROVE eep_pdi[n] = (owner[n] = "pdi")
  BY <1>8 DEF Inv, Believed, Handover
<1>9. ASSUME first = "wait", Reached(call)' PROVE owner[s] = "master"
  <2>1. Tolerable /\ Reached(call')
    BY <1>9, <1>2 DEF Reached, Tolerable
  <2>2. CASE op \in Copies /\ reader' = reader
    <3>1. reader.s = s /\ reader.op = op /\ Reached(reader)
      BY <2>1, <2>2, <1>1 DEF Reached, ByPosition
    <3> QED BY <2>2, <3>1 DEF Inv, Copying, Handover, Claims
  <2>3. CASE op \notin Tools \union {"pdi"} /\ first = First(s)
    BY <1>7, <1>8, <1>9, <2>1, <2>3 DEF First
  <2> QED BY <1>9, <2>2, <2>3
<1>10. Working'
  BY <1>1, <1>2, <1>3, <1>4, <1>7, <1>9, SMT DEF Working, Work, SiiType
<1>11. Believed'
  <2>1. SUFFICES ASSUME Tolerable', ~ByPosition(reader'), NEW n \in Slaves
                 PROVE  eep_pdi[n] = (owner[n] = "pdi")
    BY <1>2 DEF Believed
  <2>2. op \notin Tools
    BY <2>1, Kinds DEF Tools
  <2> QED BY <2>1, <2>2, <1>8 DEF Tolerable
<1>12. Restored' /\ ResultRight'
  BY FieldsOfCalls DEF Restored, ResultRight
<1> QED BY <1>4, <1>5, <1>6, <1>10, <1>11, <1>12 DEF Inv

LEMMA SiiGetByteKeeps ==
  ASSUME Inv, NEW s \in Slaves, NEW w \in Whole, SiiGetByte(s, w)
  PROVE  Inv'
<1>1. /\ pc = "idle" /\ calls < MaxCalls /\ calls' = calls + 1
      /\ esislave' = s /\ esimap' = MapFor(s)
      /\ UNCHANGED <<device, eep_pdi, esibuf, reader, losses, nacks>>
  BY DEF SiiGetByte
<1>2. reader \in {Idle} \union Sections /\ reader.op \notin Copies
  <2>1. reader = Idle \/ reader.op = "section"
    BY DEF SiiGetByte
  <2> QED BY <2>1, Readers, FieldsOfCalls, Kinds DEF Inv
<1>3. calls \in Nat /\ calls' \in Nat /\ calls' <= MaxCalls
      /\ ~ByPosition(reader) /\ ~ByPosition(result)
  <2>1. calls \in Nat /\ MaxCalls \in Nat
    BY Numbers DEF Inv, SiiType
  <2> QED BY <1>1, <2>1, SMT DEF Inv, Counted
<1>4. MapFor(s) \subseteq Places /\ CacheRight'
  <2>1. MapFor(s) \subseteq Places
    BY DEF MapFor, Inv, SiiType
  <2> QED BY <1>1, <2>1 DEF MapFor, Inv, CacheRight, Tolerable
<1>5. CASE w \in MapFor(s)
  <2>1. /\ result' = [op |-> "get", s |-> s, w |-> w, value |-> esibuf[w]]
        /\ UNCHANGED <<call, pc, cnt, nackcnt>>
    BY <1>5 DEF SiiGetByte
  <2>2. result' \in Gets
    BY <2>1, Numbers DEF Gets, Inv, SiiType
  <2>3. SiiType'
    BY <1>1, <1>3, <1>4, <2>1, <2>2 DEF Inv, SiiType, device
  <2>4. Flow'
    BY <1>1, <1>2, <2>1 DEF Inv, Flow, Handover, Claims, Work, Tools
  <2>5. Counted'
    BY <1>1, <1>2, <1>3, <2>1, Kinds DEF Inv, Counted, Tools
  <2>6. Working' /\ Copying'
    BY <1>1, <1>2, <2>1 DEF Inv, Working, Work, Copying
  <2>7. Believed'
    BY <1>1, <1>3, <2>1 DEF Inv, Believed, device, Tolerable, Handover
  <2>8. Restored'
    BY <2>1 DEF Restored
  <2>9. ResultRight'
    <3>1. Tolerable => IsWord(esibuf[w], s, w)
      BY <1>5, Numbers, SMT DEF MapFor, Inv, CacheRight, Whole
    <3>2. result'.op = "get" /\ result'.value = esibuf[w] /\ result'.s = s /\ result'.w = w
      BY <2>1
    <3> QED BY <1>1, <3>1, <3>2 DEF ResultRight, Tolerable
  <2> QED BY <1>4, <2>3, <2>4, <2>5, <2>6, <2>7, <2>8, <2>9 DEF Inv
<1>6. CASE w \notin MapFor(s)
  <2>1. Start("get", s, w, First(s)) /\ result' = Idle
    BY <1>6 DEF SiiGetByte
  <2>2. Copying'
    BY <1>1, <1>2 DEF Copying
  <2>3. "get" \notin Copies /\ "get" \notin Tools \union {"pdi"}
    BY DEF Copies, Tools
  <2> QED BY <1>1, <1>2, <1>3, <1>4, <2>1, <2>2, <2>3, Begins
<1> QED BY <1>5, <1>6

\* A call that bypasses the cache, or hands over the EEPROM.
LEMMA BypassKeeps ==
  ASSUME Inv, NEW s \in Slaves, NEW w \in Whole, NEW op \in {"read", "write", "pdi"},
         NEW first, pc = "idle", reader = Idle, calls < MaxCalls, calls' = calls + 1,
         Start(op, s, w, first), result' = Idle,
         UNCHANGED <<device, eep_pdi, cache, reader, losses, nacks>>,
         first = IF op = "pdi" THEN "give" ELSE First(s)
  PROVE  Inv'
<1>1. calls' \in Nat /\ calls' <= MaxCalls /\ ~ByPosition(reader) /\ ~ByPosition(result)
  <2>1. calls \in Nat /\ MaxCalls \in Nat
    BY Numbers DEF Inv, SiiType
  <2> QED BY <2>1, SMT DEF Inv, Counted
<1>2. op \notin Copies /\ op \notin Tools /\ reader'.op \notin Copies
  BY FieldsOfCalls, Kinds DEF Copies, Tools
<1>3. Copying' /\ CacheRight'
  BY <1>2 DEF Inv, Copying, CacheRight, cache, Tolerable
<1>4. /\ esislave' \in Slaves \union {NoSlave} /\ esimap' \subseteq Places /\ esibuf' = esibuf
  BY DEF Inv, SiiType, cache
<1> QED BY <1>1, <1>2, <1>3, <1>4, Begins

LEMMA StartSectionKeeps ==
  ASSUME Inv, NEW s \in Slaves, StartSection(s)
  PROVE  Inv'
<1>1. /\ pc = "idle" /\ reader = Idle /\ calls < MaxCalls /\ result' = Idle
      /\ reader' = [op |-> "section", s |-> s, eectl |-> eep_pdi[s]]
      /\ UNCHANGED <<device, eep_pdi, cache, call, pc, cnt, nackcnt, bounds>>
  BY DEF StartSection
<1>2. reader' \in Sections /\ reader'.op = "section"
  BY <1>1 DEF Sections, Inv, SiiType
<1>3. SiiType'
  BY <1>1, <1>2 DEF Inv, SiiType, device, cache, bounds
<1>4. Flow' /\ Working' /\ Copying'
  BY <1>1, <1>2, FieldsOfCalls, Kinds
     DEF Inv, Flow, Handover, Claims, Work, Tools, Working, Copying
<1>5. ~ByPosition(reader) /\ ~ByPosition(result)
  <2>1. calls \in Nat /\ MaxCalls \in Nat
    BY Numbers DEF Inv, SiiType
  <2> QED BY <1>1, <2>1, SMT DEF Inv, Counted
<1>6. Counted' /\ Restored' /\ CacheRight' /\ ResultRight'
  BY <1>1, <1>2, FieldsOfCalls, Kinds
     DEF Inv, Counted, Tools, Restored, CacheRight, ResultRight, cache, bounds, Tolerable
<1>7. Believed'
  BY <1>1, <1>5 DEF Inv, Believed, device, bounds, Tolerable, Handover
<1> QED BY <1>3, <1>4, <1>6, <1>7 DEF Inv

\* A reader ends: what it read is right, and the PDI gets back what it had.
LEMMA EndSectionKeeps ==
  ASSUME Inv, EndSection
  PROVE  Inv'
<1>1. /\ pc = "idle" /\ reader # Idle /\ (reader.op \in Copies => reader.left = <<>>)
      /\ result' = reader /\ reader' = Idle
      /\ UNCHANGED <<device, eep_pdi, cache, bounds>>
  BY DEF EndSection
<1>2. /\ reader \in Sections \union Copiers /\ reader.s \in Slaves
      /\ reader.op \in Copies \union {"section"} /\ reader'.op = "idle"
  BY <1>1, FieldsOfCalls DEF Inv, SiiType
<1>3. UNCHANGED <<written, owner, data, refused, esislave, esimap, esibuf, losses, nacks, calls>>
  BY <1>1 DEF device, cache, bounds
<1>4. \/ /\ Restores /\ call' \in Calls /\ call'.op = "pdi" /\ call'.s = reader.s
         /\ call'.was = written[reader.s][0] /\ call'.w = 0
         /\ pc' = "give" /\ cnt' = 0 /\ nackcnt' = 0
      \/ ~Restores /\ UNCHANGED <<call, pc, cnt, nackcnt>>
  <2>1. CASE Restores
    <3>1. Start("pdi", reader.s, 0, "give")
      BY <2>1 DEF EndSection
    <3> QED BY <1>2, <2>1, <3>1, Numbers, StartRecord DEF Inv
  <2>2. CASE ~Restores
    BY <2>2 DEF EndSection
  <2> QED BY <2>1, <2>2
<1>5. SiiType'
  BY <1>1, <1>2, <1>3, <1>4 DEF Inv, SiiType
<1>6. Flow'
  BY <1>1, <1>2, <1>4, Kinds DEF Inv, Flow, Handover, Claims, Work, Copies, Tools
<1>p. (ByPosition(result)' <=> ByPosition(reader)) /\ ~ByPosition(reader)'
  BY <1>1, <1>2, Kinds DEF Tools
<1>7. Counted'
  <2>1. cnt' <= losses'
    BY <1>3, <1>4 DEF Inv, Counted, SiiType
  <2> QED BY <1>3, <1>p, <2>1 DEF Inv, Counted
<1>8. written[reader.s][0] \in Nat /\ nacks \in Nat
  <2>1. 0 \in Places /\ written \in [Slaves -> [Places -> Nat]] /\ nacks \in Nat
    BY Numbers DEF Inv, SiiType
  <2> QED BY <1>2, <2>1
<1>9. Working'
  BY <1>1, <1>3, <1>4, <1>8, SMT DEF Working, Work
<1>10. Copying'
  BY <1>2, Kinds DEF Copying
<1>11. Believed'
  <2>1. SUFFICES ASSUME Tolerable', ~ByPosition(reader), NEW s \in Slaves
                 PROVE  eep_pdi[s] = (owner[s] = "pdi")
    BY <1>1, <1>3, <1>p DEF Believed
  <2>2. ~ByPosition(result)
    BY <1>1, Kinds DEF Inv, Flow
  <2> QED BY <1>1, <1>3, <2>1, <2>2 DEF Inv, Believed, Tolerable, Handover
<1>12. Restored'
  BY <1>1, <1>2, <1>4, FieldsOfCalls DEF Restored, Restores
<1>13. CacheRight'
  BY <1>3 DEF Inv, CacheRight, Tolerable
<1>14. ResultRight'
  <2>1. SUFFICES ASSUME Tolerable
                 PROVE  /\ reader.op = "dump" => \A w \in Whole : IsWord(reader.buf[w], reader.s, w)
                        /\ losses <= 1 =>
                             /\ reader.op = "peek" =>
                                  \A w \in Whole : IsWord(reader.buf[w], reader.s, w)
                             /\ reader.op = "poke" => \A w \in Whole : written[reader.s][w] > 0
                             /\ reader.op = "alias" =>
                                  \A w \in {0, Words - 1} : written[reader.s][w] > 0
    BY <1>1, <1>2, <1>3, Kinds DEF ResultRight, Tolerable, Copies
  <2>2. \A w, width : reader.op \in Copies => ~Covered(reader, w, width)
    BY <1>1 DEF Covered
  <2>3. reader.op \in Copies /\ Reached(reader) => CopiedSoFar(reader)
    BY DEF Inv, Copying
  <2>4. Reached(reader) <=> (ByPosition(reader) => losses <= 1)
    BY <2>1 DEF Reached
  <2> QED BY <2>2, <2>3, <2>4, Kinds DEF CopiedSoFar, Tools
<1> QED BY <1>5, <1>6, <1>7, <1>9, <1>10, <1>11, <1>12, <1>13, <1>14 DEF Inv

\* A copier begins with nothing copied, and everything left.
LEMMA CopyKeeps ==
  ASSUME Inv, NEW op \in Copies, NEW s \in Slaves, NEW by \in {2, 4}, NEW rest,
         calls' \in Nat, calls' <= MaxCalls,
         \/ op = "dump" /\ by = Span(s) /\ rest = Strides(by) /\ calls < MaxCalls
            /\ Copy(op, s, rest, by, First(s))
         \/ op = "peek" /\ by = 2 /\ rest = Strides(2) /\ calls' = MaxCalls
            /\ Copy(op, s, rest, by, "claim")
         \/ op = "poke" /\ by = 2 /\ rest = Strides(1) /\ calls' = MaxCalls
            /\ Copy(op, s, rest, by, "claim")
         \/ op = "alias" /\ by = 2 /\ rest = <<0, Words - 1>> /\ calls' = MaxCalls
            /\ Copy(op, s, rest, by, "claim")
  PROVE  Inv'
<1>1. PICK first : Copy(op, s, rest, by, first)
                   /\ first = IF op = "dump" THEN First(s) ELSE "claim"
  OBVIOUS
<1>2. /\ pc = "idle" /\ reader = Idle /\ Start(op, s, 0, first) /\ result' = Idle
      /\ reader' = [op |-> op, s |-> s, eectl |-> eep_pdi[s], left |-> rest, by |-> by,
                    buf |-> [w \in Whole |-> Zero], ok |-> TRUE]
      /\ UNCHANGED <<device, eep_pdi, cache, losses, nacks>>
  BY <1>1 DEF Copy
<1>3. rest \in Seq(Whole) /\ rest # <<>> /\ Head(rest) = 0
  <2>1. CASE \E width \in {1, 2, 4} : rest = Strides(width)
    BY <2>1, StridesCover
  <2>2. CASE rest = <<0, Words - 1>>
    BY <2>2, Numbers
  <2> QED BY <2>1, <2>2
<1>4. Zero \in AnyWord
  BY DEF AnyWord
<1>5. reader' \in Copiers /\ reader'.op = op /\ reader'.s = s /\ reader'.left = rest
      /\ reader'.by = by
  BY <1>2, <1>3, <1>4 DEF Copiers, Inv, SiiType
<1>6. CopiedSoFar(reader')
  <2>1. op \in {"dump", "peek"} => by <= Span(s) /\ rest = Strides(by)
    BY SMT DEF Span
  <2>2. op \in {"dump", "peek"} => \A w \in Whole : Covered(reader', w, by)
    BY <1>5, <2>1, StridesCover DEF Covered
  <2>3. op = "poke" => \A w \in Whole : Covered(reader', w, 1)
    BY <1>5, StridesCover DEF Covered
  <2>4. op = "alias" => \A w \in {0, Words - 1} : Covered(reader', w, 1)
    <3>1. ASSUME op = "alias" PROVE reader'.left[1] = 0 /\ reader'.left[2] = Words - 1
                                    /\ {1, 2} \subseteq DOMAIN reader'.left
      BY <3>1, <1>5
    <3> QED BY <3>1, Numbers, SMT DEF Covered
  <2> QED BY <1>5, <2>1, <2>2, <2>3, <2>4 DEF CopiedSoFar
<1>7. op \notin Tools => ~ByPosition(reader) /\ ~ByPosition(result)
  <2>1. calls \in Nat /\ MaxCalls \in Nat
    BY Numbers DEF Inv, SiiType
  <2> QED BY <2>1, SMT DEF Inv, Counted, Tools
<1>8. Copying'
  <2>1. CopiedSoFar(reader)'
    BY <1>2, <1>5, <1>6 DEF CopiedSoFar, Covered, device
  <2>2. SUFFICES ASSUME Reached(reader)', pc' \notin Handover \union Claims
                 PROVE  owner'[s] = "master"
    BY <1>5, <2>1 DEF Copying
  <2>3. pc' = first
    BY <1>2 DEF Start
  <2>4. op = "dump" /\ ~eep_pdi[s] /\ Tolerable /\ owner[s] \in {"master", "pdi"}
    BY <1>1, <1>2, <2>2, <2>3 DEF First, Handover, Claims, Reached, Tolerable, Inv, SiiType
  <2>5. eep_pdi[s] = (owner[s] = "pdi")
    BY <1>2, <1>7, <2>4 DEF Inv, Believed, Tools, Handover
  <2> QED BY <1>2, <2>4, <2>5 DEF device
<1>9. /\ esislave' \in Slaves \union {NoSlave} /\ esimap' \subseteq Places /\ esibuf' = esibuf
      /\ CacheRight'
  BY <1>2 DEF Inv, SiiType, cache, CacheRight, Tolerable
<1>10. \/ op \in Tools /\ first = "claim" /\ calls' = MaxCalls
       \/ op \notin Tools \union {"pdi"} /\ first = First(s)
  BY <1>1, Kinds DEF Tools
<1>11. op \in {"get", "read", "write", "pdi"} \union Copies /\ 0 \in Whole /\ op # "get"
  BY Numbers DEF Copies
<1>12. /\ reader' \in {Idle} \union Sections \union Copiers
       /\ op \in Copies <=> reader'.op \in Copies
       /\ op = reader'.op /\ s = reader'.s /\ reader'.left # <<>> /\ 0 = Head(reader'.left)
  BY <1>3, <1>5
<1> QED BY <1>2, <1>7, <1>8, <1>9, <1>10, <1>11, <1>12, Begins

LEMMA NextPlaceKeeps ==
  ASSUME Inv, NEW ops \in SUBSET Copies, NextPlace(ops)
  PROVE  Inv'
<1>1. /\ pc = "idle" /\ reader.op \in Copies /\ reader.left # <<>>
      /\ Start(reader.op, reader.s, Head(reader.left), "wait")
      /\ UNCHANGED <<device, eep_pdi, cache, reader, result, bounds>>
  BY DEF NextPlace
<1>2. reader \in Copiers /\ reader.s \in Slaves /\ Head(reader.left) \in Whole
  BY <1>1, Readers, FieldsOfCalls DEF Inv
<1>3. result = Idle /\ ~ByPosition(result)
  BY <1>1, FieldsOfCalls, Kinds DEF Inv, Flow, Tools
<1>4. pc' = "wait" /\ UNCHANGED <<losses, nacks, calls>>
  BY <1>1 DEF Start, bounds
<1>5. Copying'
  BY <1>1, <1>4 DEF Inv, Copying, CopiedSoFar, Covered, device, Reached, Tolerable, Handover,
                    Claims
<1>6. /\ esislave' \in Slaves \union {NoSlave} /\ esimap' \subseteq Places /\ esibuf' = esibuf
      /\ CacheRight'
  BY <1>1, <1>4 DEF Inv, SiiType, cache, CacheRight, Tolerable
<1>7. /\ calls' \in Nat /\ calls' <= MaxCalls
      /\ reader.op \in Tools => calls' = MaxCalls
      /\ reader.op \notin Tools => ~ByPosition(reader)
  BY <1>4, Kinds DEF Inv, Counted, SiiType
<1>8. reader.op # "get"
  BY <1>1 DEF Copies
<1> QED BY <1>1, <1>2, <1>3, <1>4, <1>5, <1>6, <1>7, <1>8, Begins DEF Inv, SiiType

-----------------------------------------------------------------------------
(* The EEPROM is handed over.                                               *)

\* What a datagram that asks for the EEPROM leaves alone.
LEMMA OwnFacts ==
  ASSUME SiiType, call \in Calls, NEW who \in {"master", "pdi"}, Own(who) \/ UNCHANGED device
  PROVE  /\ UNCHANGED <<written, data, refused>>
         /\ owner' \in [Slaves -> {"master", "pdi"}]
         /\ \A s \in Slaves : s # call.s => owner'[s] = owner[s]
         /\ owner'[call.s] \in {owner[call.s], who}
         /\ Own(who) => owner'[call.s] = who
BY FieldsOfCalls DEF SiiType, Own, device

\* A stage that waits for an answer.
LEMMA Waits ==
  ASSUME SiiType, cnt <= losses, NEW here, NEW nxt,
         Repeat(here, nxt) \/ Answered(nxt)
  PROVE  /\ losses' \in {losses, losses + 1} /\ cnt' \in Nat /\ cnt' <= losses'
         /\ pc' \in {here, nxt}
         /\ Repeat(here, nxt) /\ losses' <= Retries => pc' = here
         /\ losses' # losses => losses' = losses + 1
<1>1. cnt \in Nat /\ losses \in Nat /\ Retries \in Nat
  BY Numbers DEF SiiType
<1>2. CASE Answered(nxt)
  BY <1>1, <1>2, SMT DEF Answered, Repeat, Lost
<1>3. CASE Repeat(here, nxt)
  BY <1>1, <1>3, SMT DEF Repeat, Lost, MayRetry
<1> QED BY <1>2, <1>3

\* What goes on within a call.
LEMMA MidCall ==
  ASSUME Inv, pc # "idle", UNCHANGED <<call, reader, cache, result, calls>>, Grows,
         cnt' <= losses', written' = written \/ result = Idle
  PROVE  Counted' /\ CacheRight' /\ ResultRight'
BY CacheKept, ResultKept DEF Inv, Counted

\* ecx_eeprom2master.
LEMMA HandoverKeeps ==
  ASSUME Inv, Seize \/ Take
  PROVE  Inv'
<1>1. /\ pc \in Handover /\ UNCHANGED <<cache, reader, call, nackcnt, result, nacks, calls>>
      /\ Own("master") \/ UNCHANGED device
      /\ \/ pc = "force" /\ Exchange("force", "take", Own("master"))
         \/ pc = "take" /\ Exchange("take", "wait", Own("master"))
      /\ \/ pc' \in Handover /\ eep_pdi' = eep_pdi
         \/ pc' = "wait" /\ pc = "take" /\ eep_pdi' = [eep_pdi EXCEPT ![call.s] = FALSE]
  <2>1. CASE Seize
    BY <2>1 DEF Seize, Exchange, Answered, Repeat, Handover
  <2>2. CASE Take
    BY <2>2 DEF Take, Exchange, Answered, Repeat, Handover
  <2> QED BY <2>1, <2>2
<1>2. /\ call \in Calls /\ call.s \in Slaves /\ call.w \in Whole /\ call.was \in Nat
      /\ call.op \notin Tools \union {"pdi"} /\ call.op # "pdi" /\ pc # "idle"
      /\ result = Idle /\ (call.op \in Copies => call.op = "dump")
  BY <1>1, FieldsOfCalls, Kinds DEF Inv, Flow, Handover
<1>3. /\ UNCHANGED <<written, data, refused>> /\ owner' \in [Slaves -> {"master", "pdi"}]
      /\ \A s \in Slaves : s # call.s => owner'[s] = owner[s]
      /\ Own("master") => owner'[call.s] = "master"
  BY <1>1, <1>2, OwnFacts DEF Inv
<1>4. /\ losses' \in {losses, losses + 1} /\ cnt' \in Nat /\ cnt' <= losses'
      /\ pc' = "wait" /\ losses' <= Retries => Own("master")
  <2>1. \/ /\ Own("master")
           /\ \/ Repeat("force", "take") \/ Answered("take")
              \/ Repeat("take", "wait") \/ Answered("wait")
        \/ Repeat("force", "take") \/ Repeat("take", "wait")
    BY <1>1 DEF Exchange
  <2>2. CASE Repeat("force", "take") \/ Answered("take")
    BY <2>1, <2>2, Waits DEF Inv, Counted
  <2>3. CASE Repeat("take", "wait") \/ Answered("wait")
    BY <2>1, <2>3, Waits DEF Inv, Counted
  <2> QED BY <2>1, <2>2, <2>3
<1>5. Grows /\ losses' \in Nat
  BY <1>1, <1>4, Patience DEF Grows, Inv
<1>6. SiiType'
  BY <1>1, <1>2, <1>3, <1>4, <1>5 DEF Inv, SiiType, cache, Handover, Work
<1>7. Flow'
  BY <1>1, <1>2 DEF Inv, Flow, Handover, Claims, Work, cache
<1>8. Counted' /\ CacheRight' /\ ResultRight'
  BY <1>1, <1>2, <1>3, <1>4, <1>5, MidCall
<1>9. Tolerable' => Tolerable /\ losses' <= Retries
  BY <1>5, Patience DEF Inv, Tolerable
<1>10. Working'
  <2>1. Reached(call)' => Reached(call) /\ losses' <= Retries
    BY <1>1, <1>5, ReachedBefore DEF Inv
  <2> QED BY <1>1, <1>2, <1>3, <1>4, <2>1 DEF Inv, Working, Work, Handover
<1>11. Copying'
  <2>1. \A s \in Slaves, w \in Places : written'[s][w] \in Nat /\ written[s][w] <= written'[s][w]
    <3>1. \A s \in Slaves, w \in Places : written[s][w] \in Nat
      BY DEF Inv, SiiType
    <3> QED BY <1>3, <3>1, SMT
  <2>2. Reached(call)' /\ pc' \notin Handover \union Claims => owner'[call.s] = "master"
    BY <1>1, <1>3, <1>4, <1>9 DEF Reached
  <2> QED BY <1>1, <1>2, <1>5, <2>1, <2>2, CopyKept DEF Inv
<1>12. Believed'
  <2>1. SUFFICES ASSUME Tolerable', ~ByPosition(reader), ~ByPosition(result), NEW s \in Slaves
                 PROVE  \/ eep_pdi'[s] = (owner'[s] = "pdi")
                        \/ pc' \in Handover \union {"give"} /\ call.s = s
    BY <1>1 DEF Believed
  <2>2. CASE s # call.s
    <3>1. eep_pdi[s] = (owner[s] = "pdi") /\ eep_pdi'[s] = eep_pdi[s]
      BY <1>1, <1>9, <2>1, <2>2 DEF Inv, Believed, SiiType
    <3> QED BY <1>3, <2>2, <3>1
  <2>3. CASE s = call.s
    <3>1. pc' = "wait" => eep_pdi'[s] = FALSE /\ owner'[s] = "master"
      BY <1>1, <1>3, <1>4, <1>9, <2>1, <2>3 DEF Inv, SiiType, Handover
    <3> QED BY <1>1, <2>3, <3>1 DEF Handover
  <2> QED BY <2>2, <2>3
<1>13. Restored'
  BY <1>1, <1>2, FieldsOfCalls DEF Restored
<1> QED BY <1>6, <1>7, <1>8, <1>10, <1>11, <1>12, <1>13 DEF Inv

\* ecx_eeprom2pdi.
LEMMA GiveKeeps ==
  ASSUME Inv, Give
  PROVE  Inv'
<1>1. /\ pc = "give" /\ UNCHANGED <<cache, reader, call, nackcnt, result, nacks, calls>>
      /\ Own("pdi") \/ UNCHANGED device
      /\ Exchange("give", "idle", Own("pdi"))
      /\ \/ pc' = "give" /\ eep_pdi' = eep_pdi
         \/ pc' = "idle" /\ eep_pdi' = [eep_pdi EXCEPT ![call.s] = TRUE]
  BY DEF Give, Exchange, Answered, Repeat
<1>2. /\ call \in Calls /\ call.s \in Slaves /\ call.op = "pdi"
      /\ reader.op \notin Copies
  BY <1>1, FieldsOfCalls, Kinds DEF Inv, Flow, Copies
<1>3. /\ UNCHANGED <<written, data, refused>> /\ owner' \in [Slaves -> {"master", "pdi"}]
      /\ \A s \in Slaves : s # call.s => owner'[s] = owner[s]
      /\ Own("pdi") => owner'[call.s] = "pdi"
  BY <1>1, <1>2, OwnFacts DEF Inv
<1>4. /\ losses' \in {losses, losses + 1} /\ cnt' \in Nat /\ cnt' <= losses'
      /\ pc' = "idle" /\ losses' <= Retries => Own("pdi")
  <2>1. CASE Own("pdi") /\ (Repeat("give", "idle") \/ Answered("idle"))
    BY <2>1, Waits DEF Inv, Counted
  <2>2. CASE Repeat("give", "idle")
    BY <2>2, Waits DEF Inv, Counted
  <2> QED BY <1>1, <2>1, <2>2 DEF Exchange
<1>5. Grows /\ losses' \in Nat
  BY <1>1, <1>4, Patience DEF Grows, Inv
<1>6. SiiType'
  BY <1>1, <1>2, <1>3, <1>4, <1>5 DEF Inv, SiiType, cache
<1>7. Flow'
  BY <1>1, <1>2 DEF Inv, Flow, Handover, Claims, Work, cache
<1>8. Counted' /\ CacheRight' /\ ResultRight'
  BY <1>1, <1>3, <1>4, <1>5, MidCall
<1>9. Tolerable' => Tolerable /\ losses' <= Retries
  BY <1>5, Patience DEF Inv, Tolerable
<1>10. Working' /\ Copying'
  <2>1. Reached(call)' => Reached(call)
    BY <1>1, <1>5, ReachedBefore DEF Inv
  <2> QED BY <1>1, <1>2, <1>3, <2>1 DEF Inv, Working, Work, Copying
<1>11. Believed'
  <2>1. SUFFICES ASSUME Tolerable', ~ByPosition(reader), ~ByPosition(result), NEW s \in Slaves
                 PROVE  \/ eep_pdi'[s] = (owner'[s] = "pdi")
                        \/ pc' \in Handover \union {"give"} /\ call.s = s
    BY <1>1 DEF Believed
  <2>2. CASE s # call.s
    <3>1. eep_pdi[s] = (owner[s] = "pdi") /\ eep_pdi'[s] = eep_pdi[s]
      BY <1>1, <1>9, <2>1, <2>2 DEF Inv, Believed, SiiType
    <3> QED BY <1>3, <2>2, <3>1
  <2>3. CASE s = call.s
    <3>1. pc' = "idle" => eep_pdi'[s] /\ owner'[s] = "pdi"
      BY <1>1, <1>3, <1>4, <1>9, <2>1, <2>3 DEF Inv, SiiType
    <3> QED BY <1>1, <2>3, <3>1
  <2> QED BY <2>2, <2>3
<1>12. Restored'
  <2>1. \A s \in Slaves : eep_pdi[s] \/ (pc' = "idle" /\ s = call.s) => eep_pdi'[s]
    BY <1>1, <1>2 DEF Inv, SiiType
  <2>2. result.op \in {"section", "dump"} => result.s \in Slaves
    BY Readers, FieldsOfCalls DEF Inv, Copies
  <2> QED BY <1>1, <2>1, <2>2 DEF Inv, Restored
<1> QED BY <1>6, <1>7, <1>8, <1>10, <1>11, <1>12 DEF Inv

\* eepromtool's claim: of its two writes one is heard, if one is lost.
LEMMA ClaimKeeps ==
  ASSUME Inv, Claim \/ Claim2
  PROVE  Inv'
<1>1. /\ pc \in Claims
      /\ UNCHANGED <<eep_pdi, cache, reader, call, cnt, nackcnt, result, nacks, calls>>
      /\ \/ Own("master") /\ losses' \in {losses, losses + 1}
         \/ UNCHANGED device /\ losses' = losses + 1
      /\ \/ pc = "claim" /\ pc' = "claim2"
         \/ pc = "claim2" /\ pc' = IF call.op = "peek" THEN "status" ELSE "idle"
  BY DEF Claim, Claim2, Once, Claims, Lost
<1>2. /\ call \in Calls /\ call.s \in Slaves /\ call.op \in Tools /\ pc # "idle"
      /\ reader.op = call.op /\ reader.s = call.s /\ reader \in Copiers /\ result = Idle
  <2>1. call \in Calls /\ call.op \in Tools /\ result = Idle /\ pc # "idle"
    BY <1>1 DEF Inv, Flow, Claims
  <2>2. call.op \in Copies
    BY <2>1, Kinds
  <2> QED BY <2>1, <2>2, FieldsOfCalls, Readers DEF Inv, Flow
<1>3. /\ UNCHANGED <<written, data, refused>> /\ owner' \in [Slaves -> {"master", "pdi"}]
      /\ owner'[call.s] \in {owner[call.s], "master"}
      /\ Own("master") => owner'[call.s] = "master"
  BY <1>1, <1>2, OwnFacts DEF Inv
<1>4. Grows /\ losses' \in Nat /\ losses \in Nat
  BY <1>1, Patience DEF Grows, Inv, SiiType
<1>5. SiiType'
  BY <1>1, <1>2, <1>3, <1>4 DEF Inv, SiiType, cache, Claims
<1>6. Flow'
  BY <1>1, <1>2 DEF Inv, Flow, Handover, Claims, Work, cache
<1>7. cnt' <= losses'
  <2>1. cnt \in Nat /\ cnt <= losses
    BY DEF Inv, Counted, SiiType
  <2> QED BY <1>1, <1>4, <2>1, SMT
<1>8. Counted' /\ CacheRight' /\ ResultRight'
  BY <1>1, <1>2, <1>3, <1>4, <1>7, MidCall
<1>9. Tolerable' => Tolerable
  BY <1>4, Patience DEF Inv
<1>10. losses' = 0 => owner'[call.s] = "master"
  BY <1>1, <1>3, <1>4, SMT
<1>11. pc = "claim2" /\ losses' <= 1 => owner'[call.s] = "master"
  <2>1. CASE Own("master")
    BY <2>1, <1>3
  <2>2. CASE UNCHANGED device /\ losses' = losses + 1
    <3>1. losses' <= 1 => losses = 0
      BY <1>4, <2>2, SMT
    <3> QED BY <2>2, <3>1 DEF device, Inv, Working
  <2> QED BY <1>1, <2>1, <2>2
<1>12. Working'
  BY <1>1, <1>2, <1>3, <1>4, <1>9, <1>10, Patience DEF Inv, Working, Work, Reached
<1>13. Copying'
  <2>1. \A s \in Slaves, w \in Places : written'[s][w] \in Nat /\ written[s][w] <= written'[s][w]
    <3>1. \A s \in Slaves, w \in Places : written[s][w] \in Nat
      BY DEF Inv, SiiType
    <3> QED BY <1>3, <3>1, SMT
  <2>2. Reached(call)' /\ pc' \notin Handover \union Claims => owner'[call.s] = "master"
    BY <1>1, <1>2, <1>11, Kinds DEF Reached, Claims
  <2> QED BY <1>1, <1>2, <1>4, <2>1, <2>2, CopyKept DEF Inv
<1>14. Believed' /\ Restored'
  BY <1>1, <1>2, Kinds, FieldsOfCalls DEF Believed, Restored
<1> QED BY <1>5, <1>6, <1>8, <1>12, <1>13, <1>14 DEF Inv

LEMMA StatusKeeps ==
  ASSUME Inv, Status
  PROVE  Inv'
<1>1. /\ pc = "status" /\ pc' = "idle"
      /\ UNCHANGED <<device, eep_pdi, cache, call, cnt, nackcnt, result, nacks, calls>>
      /\ losses' \in {losses, losses + 1}
  BY DEF Status, Lost
<1>2. PICK by \in {2, 4} :
        /\ by = Span(call.s) \/ by = 2
        /\ reader' = [reader EXCEPT !.by = by, !.left = Strides(by)]
  BY DEF Status
<1>3. /\ call.op = "peek" /\ call \in Calls /\ call.s \in Slaves /\ result = Idle
      /\ reader.op = "peek" /\ reader.s = call.s /\ reader \in Copiers
  <2>1. call \in Calls /\ call.op = "peek" /\ result = Idle
    BY <1>1 DEF Inv, Flow
  <2>2. call.op \in Copies
    BY <2>1 DEF Copies
  <2> QED BY <1>1, <2>1, <2>2, FieldsOfCalls, Readers DEF Inv, Flow
<1>4. Strides(by) \in Seq(Whole) /\ \A w \in Whole : \E i \in DOMAIN Strides(by) :
        Strides(by)[i] <= w /\ w < Strides(by)[i] + by
  BY StridesCover
<1>5. /\ reader' \in Copiers /\ reader'.op = "peek" /\ reader'.s = call.s
      /\ reader'.by = by /\ reader'.left = Strides(by) /\ reader'.buf = reader.buf
  BY <1>2, <1>3, <1>4 DEF Copiers
<1>6. Grows /\ losses' \in Nat /\ UNCHANGED <<written, owner, data, refused>>
  BY <1>1, Patience DEF Grows, Inv, device
<1>7. SiiType'
  BY <1>1, <1>5, <1>6 DEF Inv, SiiType, cache
<1>8. Flow' /\ Working'
  BY <1>1, <1>3, <1>5, <1>6, FieldsOfCalls DEF Inv, Flow, Handover, Claims, Work, Tools, Working
<1>9. Counted'
  <2>1. cnt \in Nat /\ losses \in Nat /\ cnt <= losses
    BY DEF Inv, Counted, SiiType
  <2>2. cnt' <= losses'
    BY <1>1, <2>1, SMT
  <2> QED BY <1>1, <1>3, <1>5, <2>2, Kinds DEF Inv, Counted, Tools
<1>10. CacheRight' /\ ResultRight'
  BY <1>1, <1>6, CacheKept, ResultKept DEF Inv
<1>11. Copying'
  <2>1. Reached(reader)' => Reached(reader)
    BY <1>3, <1>5, <1>6, Kinds, Patience DEF Reached, Inv, Tools
  <2>2. Reached(reader) => owner[reader.s] = "master"
    BY <1>1, <1>3 DEF Inv, Copying, Handover, Claims, Copies
  <2>3. by <= Span(call.s)
    BY <1>2, SMT DEF Span
  <2>4. \A w \in Whole : Covered(reader', w, by)
    BY <1>4, <1>5 DEF Covered
  <2>5. CopiedSoFar(reader)'
    BY <1>5, <2>3, <2>4 DEF CopiedSoFar, Covered
  <2> QED BY <1>3, <1>5, <1>6, <2>1, <2>2, <2>5 DEF Copying
<1>12. Believed' /\ Restored'
  BY <1>1, <1>3, <1>5, Kinds, FieldsOfCalls DEF Believed, Restored, Tools
<1> QED BY <1>7, <1>8, <1>9, <1>10, <1>11, <1>12 DEF Inv

-----------------------------------------------------------------------------
(* A command runs.                                                          *)

\* Who holds what does not change while a command runs.
LEMMA BeliefKept ==
  ASSUME Inv, pc \in Work, Grows, UNCHANGED <<owner, eep_pdi, reader, call>>,
         result' = result \/ result'.op \notin {"section", "dump"} \union Tools
  PROVE  Believed' /\ Restored'
<1>1. ~ByPosition(result) /\ result.op \notin {"section", "dump"}
  BY FieldsOfCalls, Kinds DEF Inv, Flow, Work, Tools
<1>2. Believed'
  BY <1>1, Patience DEF Inv, Believed, Work, Handover
<1>3. Restored'
  BY <1>1 DEF Restored
<1> QED BY <1>2, <1>3

LEMMA WaitReadyKeeps ==
  ASSUME Inv, WaitReady
  PROVE  Inv'
<1>1. /\ pc = "wait" /\ refused' = [refused EXCEPT ![call.s] = FALSE]
      /\ pc' = IF call.op \in Writes THEN "putdata" ELSE "command"
      /\ UNCHANGED <<written, owner, data, eep_pdi, cache, reader, call, cnt, nackcnt, result>>
      /\ UNCHANGED <<losses, nacks, calls>>
  BY DEF WaitReady, bounds
<1>2. call \in Calls /\ call.op # "pdi" /\ result = Idle
  BY <1>1 DEF Inv, Flow, Work
<1>3. Grows /\ cnt' <= losses'
  BY <1>1 DEF Grows, Inv, Counted
<1>4. SiiType'
  BY <1>1, <1>2 DEF Inv, SiiType, cache, Work
<1>5. Flow'
  BY <1>1, <1>2 DEF Inv, Flow, Handover, Claims, Work, cache
<1>6. Counted' /\ CacheRight' /\ ResultRight'
  BY <1>1, <1>2, <1>3, MidCall
<1>7. Working'
  <2>1. Reached(call)' => Reached(call)
    BY <1>1, <1>3, ReachedBefore DEF Inv
  <2> QED BY <1>1, <1>2, <2>1 DEF Inv, Working, Work
<1>8. Copying'
  BY <1>1 DEF Inv, Copying, CopiedSoFar, Covered, Reached, Tolerable, Handover, Claims
<1>9. Believed' /\ Restored'
  BY <1>1, <1>3, BeliefKept DEF Work
<1> QED BY <1>4, <1>5, <1>6, <1>7, <1>8, <1>9 DEF Inv

LEMMA PutDataKeeps ==
  ASSUME Inv, PutData
  PROVE  Inv'
<1>1. /\ pc = "putdata" /\ UNCHANGED device
      /\ Repeat("putdata", "command") \/ Answered("command")
      /\ UNCHANGED <<eep_pdi, cache, reader, call, nackcnt, result, nacks, calls>>
  BY DEF PutData, Exchange
<1>2. call \in Calls /\ call.op # "pdi" /\ result = Idle /\ call.op \in Writes
  BY <1>1 DEF Inv, Flow, Work
<1>3. UNCHANGED <<written, owner, data, refused>>
  BY <1>1 DEF device
<1>4. /\ losses' \in {losses, losses + 1} /\ cnt' \in Nat /\ cnt' <= losses'
      /\ pc' \in {"putdata", "command"}
  BY <1>1, Waits DEF Inv, Counted
<1>5. Grows /\ losses' \in Nat
  BY <1>1, <1>4, Patience DEF Grows, Inv
<1>6. SiiType'
  BY <1>1, <1>3, <1>4, <1>5 DEF Inv, SiiType, cache, Work
<1>7. Flow'
  BY <1>1, <1>2, <1>4 DEF Inv, Flow, Handover, Claims, Work, cache
<1>8. Counted' /\ CacheRight' /\ ResultRight'
  BY <1>1, <1>2, <1>4, <1>5, MidCall
<1>9. Working'
  <2>1. Reached(call)' => Reached(call)
    BY <1>1, <1>5, ReachedBefore DEF Inv
  <2> QED BY <1>1, <1>2, <1>3, <1>4, <2>1 DEF Inv, Working, Work
<1>10. Copying'
  <2>1. Reached(reader)' => Reached(reader)
    BY <1>1, <1>5, Patience DEF Inv, Reached, ByPosition
  <2> QED BY <1>1, <1>3, <1>4, <2>1 DEF Inv, Copying, CopiedSoFar, Covered, Handover, Claims
<1>11. Believed' /\ Restored'
  BY <1>1, <1>3, <1>5, BeliefKept DEF Work
<1> QED BY <1>6, <1>7, <1>8, <1>9, <1>10, <1>11 DEF Inv

\* What the slave does when it hears a command.
LEMMA Executes ==
  ASSUME SiiType, call \in Calls, NEW nack \in BOOLEAN, call' = call,
         Execute(nack) \/ UNCHANGED device
  PROVE  /\ owner' = owner
         /\ written' \in [Slaves -> [Places -> Nat]]
         /\ \A s \in Slaves, w \in Places : written[s][w] <= written'[s][w]
         /\ data' \in [Slaves -> [0 .. 3 -> AnyWord]] /\ refused' \in [Slaves -> BOOLEAN]
         /\ Execute(nack) /\ owner[call.s] = "master" =>
              /\ refused'[call.s] = nack
              /\ ~nack /\ call.op \in Writes =>
                   written[call.s][call.w] < written'[call.s][call.w]
              /\ ~nack /\ call.op \notin Writes => ReadSoFar'
<1>1. call.s \in Slaves /\ call.w \in Places /\ call.w \in Nat
  BY FieldsOfCalls, Numbers
<1>2. /\ written \in [Slaves -> [Places -> Nat]]
      /\ \A s \in Slaves, w \in Places : written[s][w] \in Nat
  BY DEF SiiType
<1>3. \A s \in Slaves, w \in Places : written[s][w] <= written[s][w]
  BY <1>2, SMT
<1>4. CASE UNCHANGED device /\ ~(Execute(nack) /\ owner[call.s] = "master")
  BY <1>3, <1>4 DEF device, SiiType
<1>5. CASE Execute(nack) /\ owner[call.s] = "pdi"
  BY <1>3, <1>5 DEF Execute, device, SiiType
<1>6. CASE Execute(nack) /\ owner[call.s] = "master"
  <2> DEFINE words == [i \in 0 .. 3 |-> IF i < Span(call.s) /\ call.w + i \in Places
                                        THEN Word(call.s, call.w + i) ELSE Zero]
  <2>1. /\ refused' = [refused EXCEPT ![call.s] = nack] /\ owner' = owner
        /\ IF ~nack /\ call.op \in Writes
           THEN written' = [written EXCEPT ![call.s][call.w] = @ + 1]
           ELSE written' = written
        /\ IF ~nack /\ call.op \notin Writes
           THEN data' = [data EXCEPT ![call.s] = words]
           ELSE data' = data
    BY <1>6 DEF Execute
  <2>2. words \in [0 .. 3 -> AnyWord]
    <3>1. \A i \in 0 .. 3 : call.w + i \in Places => Word(call.s, call.w + i) \in AnyWord
      BY <1>1, WordIsWord
    <3>2. Zero \in AnyWord
      BY DEF AnyWord
    <3> QED BY <3>1, <3>2
  <2>w. \A i \in 0 .. 3 : i < Span(call.s) /\ call.w + i \in Places =>
          words[i] = Word(call.s, call.w + i)
    OBVIOUS
  <2> HIDE DEF words
  <2>3. data' \in [Slaves -> [0 .. 3 -> AnyWord]]
    <3>1. data \in [Slaves -> [0 .. 3 -> AnyWord]]
      BY DEF SiiType
    <3> QED BY <1>1, <2>1, <2>2, <3>1
  <2>r. refused' \in [Slaves -> BOOLEAN] /\ refused'[call.s] = nack
    BY <1>1, <2>1 DEF SiiType
  <2>4. CASE ~nack /\ call.op \in Writes
    <3>1. written' = [written EXCEPT ![call.s] = [written[call.s] EXCEPT ![call.w] = @ + 1]]
      BY <2>1, <2>4
    <3>2. /\ written' \in [Slaves -> [Places -> Nat]]
          /\ written'[call.s][call.w] = written[call.s][call.w] + 1
          /\ \A s \in Slaves, w \in Places :
               written'[s][w] = written[s][w] \/ written'[s][w] = written[s][w] + 1
      BY <1>1, <1>2, <3>1
    <3>3. /\ written[call.s][call.w] < written'[call.s][call.w]
          /\ \A s \in Slaves, w \in Places : written[s][w] <= written'[s][w]
      BY <1>1, <1>2, <3>2, SMT
    <3> QED BY <2>1, <2>3, <2>r, <2>4, <3>2, <3>3
  <2>5. CASE ~nack /\ call.op \notin Writes
    <3>1. data'[call.s] = words /\ written' = written
      BY <1>1, <2>1, <2>5 DEF SiiType
    <3>2. ReadSoFar'
      BY <2>w, <3>1 DEF ReadSoFar, Word
    <3> QED BY <1>2, <1>3, <2>1, <2>3, <2>r, <2>5, <3>1, <3>2
  <2>6. CASE nack
    BY <1>2, <1>3, <2>1, <2>3, <2>r, <2>6
  <2> QED BY <2>4, <2>5, <2>6
<1>7. owner[call.s] \in {"master", "pdi"}
  BY <1>1 DEF SiiType
<1> QED BY <1>4, <1>5, <1>6, <1>7

LEMMA CommandKeeps ==
  ASSUME Inv, NEW nack \in BOOLEAN, Command(nack)
  PROVE  Inv'
<1>1. /\ pc = "command" /\ nacks' = (IF nack THEN nacks + 1 ELSE nacks)
      /\ \/ Execute(nack) /\ (Repeat("command", "poll") \/ Answered("poll"))
         \/ UNCHANGED device /\ Repeat("command", "poll")
      /\ UNCHANGED <<eep_pdi, cache, reader, call, nackcnt, result, calls>>
  BY DEF Command, Exchange
<1>2. /\ call \in Calls /\ call.op # "pdi" /\ result = Idle
      /\ call.s \in Slaves /\ call.w \in Places
  BY <1>1, FieldsOfCalls, Numbers DEF Inv, Flow, Work
<1>3. /\ losses' \in {losses, losses + 1} /\ cnt' \in Nat /\ cnt' <= losses'
      /\ pc' \in {"command", "poll"}
      /\ losses' <= Retries /\ pc' = "poll" => Execute(nack)
  BY <1>1, Waits DEF Inv, Counted
<1>4. /\ owner' = owner /\ written' \in [Slaves -> [Places -> Nat]]
      /\ \A s \in Slaves, w \in Places : written[s][w] <= written'[s][w]
      /\ data' \in [Slaves -> [0 .. 3 -> AnyWord]] /\ refused' \in [Slaves -> BOOLEAN]
      /\ Execute(nack) /\ owner[call.s] = "master" =>
           /\ refused'[call.s] = nack
           /\ ~nack /\ call.op \in Writes =>
                written[call.s][call.w] < written'[call.s][call.w]
           /\ ~nack /\ call.op \notin Writes => ReadSoFar'
  BY <1>1, <1>2, Executes DEF Inv
<1>5. Grows /\ losses' \in Nat /\ nacks' \in Nat
  BY <1>1, <1>3, Patience DEF Grows, Inv
<1>6. SiiType'
  BY <1>1, <1>3, <1>4, <1>5 DEF Inv, SiiType, cache, Work
<1>7. Flow'
  BY <1>1, <1>2, <1>3 DEF Inv, Flow, Handover, Claims, Work, cache
<1>8. Counted' /\ CacheRight' /\ ResultRight'
  BY <1>1, <1>2, <1>3, <1>5, MidCall
<1>9. Reached(call)' => Reached(call) /\ losses' <= Retries
  BY <1>1, <1>5, ReachedBefore DEF Inv
<1>10. Reached(call) => owner[call.s] = "master" /\ nackcnt <= nacks
  BY <1>1 DEF Inv, Working, Work
<1>11. Working'
  <2>1. call.was <= written'[call.s][call.w]
    <3>1. /\ call.was \in Nat /\ written[call.s][call.w] \in Nat
          /\ written'[call.s][call.w] \in Nat /\ call.was <= written[call.s][call.w]
      BY <1>1, <1>2, <1>4, FieldsOfCalls DEF Inv, SiiType, Working
    <3> QED BY <1>2, <1>4, <3>1, SMT
  <2>2. Reached(call)' => nackcnt <= nacks' /\ (nack => nackcnt + 1 <= nacks')
    <3>1. nackcnt \in Nat /\ nacks \in Nat
      BY DEF Inv, SiiType
    <3> QED BY <1>1, <1>9, <1>10, <3>1, SMT
  <2>3. Reached(call)' /\ pc' = "poll" /\ call.op \in Writes /\ ~nack =>
          call.was < written'[call.s][call.w]
    <3>1. /\ call.was \in Nat /\ written[call.s][call.w] \in Nat
          /\ written'[call.s][call.w] \in Nat /\ call.was <= written[call.s][call.w]
      BY <1>1, <1>2, <1>4, FieldsOfCalls DEF Inv, SiiType, Working
    <3> QED BY <1>3, <1>4, <1>9, <1>10, <3>1, SMT
  <2> QED BY <1>1, <1>3, <1>4, <1>9, <1>10, <2>1, <2>2, <2>3 DEF Working, Work
<1>12. Copying'
  <2>1. \A s \in Slaves, w \in Places : written'[s][w] \in Nat /\ written[s][w] <= written'[s][w]
    BY <1>4
  <2>2. Reached(call)' => owner'[call.s] = "master"
    BY <1>4, <1>9, <1>10
  <2> QED BY <1>1, <1>5, <2>1, <2>2, CopyKept DEF Inv
<1>13. Believed' /\ Restored'
  BY <1>1, <1>4, <1>5, BeliefKept DEF Work
<1> QED BY <1>6, <1>7, <1>8, <1>11, <1>12, <1>13 DEF Inv

-----------------------------------------------------------------------------
(* A call ends.                                                             *)

\* A place is no longer left once it was copied.
LEMMA CoverLess ==
  ASSUME NEW it \in Copiers, it.left # <<>>, NEW w \in Whole, NEW width \in {1, 2, 4},
         Covered(it, w, width), NEW nxt, nxt.left = Tail(it.left)
  PROVE  \/ Head(it.left) <= w /\ w < Head(it.left) + width
         \/ Covered(nxt, w, width)
<1>1. PICK i \in DOMAIN it.left : it.left[i] <= w /\ w < it.left[i] + width
  BY DEF Covered
<1>2. it.left \in Seq(Whole) /\ i \in 1 .. Len(it.left)
  BY FieldsOfCalls
<1>3. CASE i = 1
  BY <1>1, <1>2, <1>3
<1>4. CASE i # 1
  <2>1. i - 1 \in 1 .. Len(it.left) - 1 /\ Len(it.left) \in Nat
    BY <1>2, <1>4
  <2>2. i - 1 \in DOMAIN Tail(it.left) /\ Tail(it.left)[i - 1] = it.left[i]
    BY <1>2, <2>1
  <2> QED BY <1>1, <2>2 DEF Covered
<1> QED BY <1>3, <1>4

\* A copier has copied one more place.
LEMMA CopiedOn ==
  ASSUME Inv, pc \in {"poll", "data"}, call.op \in Copies,
         NEW edat \in [0 .. 3 -> AnyWord], NEW done \in BOOLEAN, Copied(edat, done),
         UNCHANGED <<device, call>>, Grows, pc' = "idle",
         Reached(call)' =>
           /\ done
           /\ call.op \in Writes => call.was < written[call.s][call.w]
           /\ call.op \notin Writes => \A i \in 0 .. 3 :
                i < Span(call.s) /\ call.w + i \in Places => edat[i] = Word(call.s, call.w + i)
  PROVE  reader' \in Copiers /\ reader'.op = reader.op /\ reader'.s = reader.s /\ Copying'
<1>1. /\ call \in Calls /\ call.s \in Slaves /\ call.w \in Whole /\ call.w \in Nat
      /\ call.op = reader.op /\ call.s = reader.s
      /\ reader.left # <<>> /\ call.w = Head(reader.left) /\ reader \in Copiers
  <2>1. call \in Calls /\ reader.op \in Copies
    BY DEF Inv, Flow
  <2> QED BY <2>1, FieldsOfCalls, Numbers, Readers DEF Inv, Flow, Work
<1>2. /\ reader.left \in Seq(Whole) /\ reader.by \in {2, 4} /\ reader.buf \in [Whole -> AnyWord]
      /\ reader.ok \in BOOLEAN
  BY <1>1, FieldsOfCalls
<1> DEFINE rest == IF reader.op = "alias" /\ ~done THEN <<>> ELSE Tail(reader.left)
           buf == [w \in Whole |-> IF w \in call.w .. call.w + reader.by - 1
                                   THEN edat[w - call.w] ELSE reader.buf[w]]
<1>3. reader' = [reader EXCEPT !.left = rest, !.ok = @ /\ done, !.buf = buf]
  BY DEF Copied
<1>4. rest \in Seq(Whole) /\ (done => rest = Tail(reader.left))
  <2>1. Tail(reader.left) \in Seq(Whole)
    BY <1>1, <1>2
  <2> QED BY <2>1
<1>5. buf \in [Whole -> AnyWord]
  <2>1. ASSUME NEW w \in Whole, w \in call.w .. call.w + reader.by - 1
        PROVE  w - call.w \in 0 .. 3
    <3>1. w \in Nat /\ call.w \in Nat
      BY <1>1, Numbers
    <3>2. CASE reader.by = 2
      BY <2>1, <3>1, <3>2, SMT
    <3>3. CASE reader.by = 4
      BY <2>1, <3>1, <3>3, SMT
    <3> QED BY <1>2, <3>2, <3>3
  <2>2. ASSUME NEW w \in Whole
        PROVE  (IF w \in call.w .. call.w + reader.by - 1
                THEN edat[w - call.w] ELSE reader.buf[w]) \in AnyWord
    BY <1>2, <2>1
  <2> QED BY <2>2
<1>6. \A w \in Whole : buf[w] = IF w \in call.w .. call.w + reader.by - 1
                                THEN edat[w - call.w] ELSE reader.buf[w]
  OBVIOUS
<1> HIDE DEF rest, buf
<1>7. /\ reader' \in Copiers /\ reader'.op = reader.op /\ reader'.s = reader.s
      /\ reader'.by = reader.by /\ reader'.left = rest /\ reader'.buf = buf
  BY <1>1, <1>3, <1>4, <1>5 DEF Copiers
<1>8. ASSUME Reached(reader)'
      PROVE  owner'[reader.s] = "master" /\ CopiedSoFar(reader)'
  <2>1. Reached(call)' /\ Reached(call) /\ Reached(reader)
    <3>1. Reached(call)'
      BY <1>1, <1>7, <1>8 DEF Reached, ByPosition
    <3>2. Reached(call)
      BY <3>1, ReachedBefore DEF Inv
    <3> QED BY <1>1, <3>1, <3>2 DEF Reached, ByPosition
  <2>2. done /\ rest = Tail(reader.left)
    BY <1>4, <2>1
  <2>3. CopiedSoFar(reader)
    BY <1>1, <2>1 DEF Inv, Copying
  <2>4. UNCHANGED <<owner, written>> /\ owner[call.s] = "master"
    BY <2>1 DEF device, Inv, Working, Work
  <2>5. ASSUME NEW w \in Whole, NEW width \in {1, 2, 4}, Covered(reader, w, width)
        PROVE  Covered(reader', w, width) \/ (call.w <= w /\ w < call.w + width)
    BY <1>1, <1>7, <2>2, <2>5, CoverLess
  <2>6. ASSUME call.op \in {"dump", "peek"}, NEW w \in Whole
        PROVE  IsWord(buf[w], call.s, w) \/ Covered(reader', w, reader.by)
    <3>1. reader.by <= Span(call.s) /\ Span(call.s) \in {2, 4}
      BY <1>1, <2>3, <2>6, Spans DEF CopiedSoFar
    <3>2. call.op \notin Writes
      BY <2>6 DEF Writes
    <3>3. CASE call.w <= w /\ w < call.w + reader.by
      <4>1. w - call.w \in 0 .. 3 /\ w - call.w < Span(call.s) /\ w = call.w + (w - call.w)
            /\ w \in call.w .. call.w + reader.by - 1
        <5>1. w \in Nat
          BY <2>6, Numbers
        <5> QED BY <5>1, <1>1, <1>2, <3>1, <3>3, SMT
      <4>2. w \in Places
        BY <2>6, Numbers
      <4>3. buf[w] = edat[w - call.w] /\ edat[w - call.w] = Word(call.s, w)
        BY <1>6, <2>1, <2>6, <3>2, <4>1, <4>2
      <4> QED BY <1>1, <4>2, <4>3, WordIsWord DEF Inv
    <3>4. CASE ~(call.w <= w /\ w < call.w + reader.by)
      <4>1. IsWord(reader.buf[w], call.s, w) \/ Covered(reader, w, reader.by)
        BY <1>1, <2>3, <2>6 DEF CopiedSoFar
      <4>2. w \notin call.w .. call.w + reader.by - 1
        BY <1>1, <1>2, <2>6, <3>4, Numbers, SMT
      <4> QED BY <1>2, <1>6, <2>5, <2>6, <3>4, <4>1, <4>2
    <3> QED BY <3>3, <3>4
  <2>7. ASSUME call.op \in Writes, NEW w \in Whole, Covered(reader, w, 1)
        PROVE  written[call.s][w] > 0 \/ Covered(reader', w, 1)
    <3>1. CASE call.w <= w /\ w < call.w + 1
      <4>1. w = call.w
        BY <1>1, <2>7, <3>1, Numbers, SMT
      <4>2. call.was < written[call.s][call.w]
        BY <2>1, <2>7
      <4>3. call.was \in Nat
        BY <1>1, FieldsOfCalls
      <4>4. written[call.s][call.w] \in Nat
        <5>1. written \in [Slaves -> [Places -> Nat]] /\ call.w \in Places
          BY <1>1, Numbers DEF Inv, SiiType
        <5> QED BY <1>1, <5>1
      <4> QED BY <4>1, <4>2, <4>3, <4>4, SMT
    <3> QED BY <2>5, <2>7, <3>1
  <2>8. CopiedSoFar(reader)'
    <3>1. /\ reader'.op = call.op /\ reader'.s = call.s /\ reader'.by = reader.by
          /\ reader'.buf = buf /\ written' = written /\ {0, Words - 1} \subseteq Whole
      BY <1>1, <1>7, <2>4, Numbers
    <3>2. call.op \in {"dump", "peek"} => reader.by <= Span(call.s)
      BY <1>1, <2>3 DEF CopiedSoFar
    <3>3. call.op = "poke" => \A w \in Whole : written[call.s][w] > 0 \/ Covered(reader', w, 1)
      BY <1>1, <2>3, <2>7 DEF CopiedSoFar, Writes
    <3>4. call.op = "alias" =>
            \A w \in {0, Words - 1} : written[call.s][w] > 0 \/ Covered(reader', w, 1)
      BY <1>1, <2>3, <2>7, Numbers DEF CopiedSoFar, Writes
    <3> QED BY <2>6, <3>1, <3>2, <3>3, <3>4 DEF CopiedSoFar, Covered, Span
  <2> QED BY <1>1, <2>4, <2>8
<1> QED BY <1>7, <1>8 DEF Copying

LEMMA FinishKeeps ==
  ASSUME Inv, pc \in {"poll", "data"}, pc' = "idle",
         NEW edat \in [0 .. 3 -> AnyWord], NEW done \in BOOLEAN, Finish(edat, done),
         UNCHANGED <<device, eep_pdi, call, calls>>, Grows,
         cnt' \in Nat, cnt' <= losses', nackcnt' \in Nat,
         Reached(call)' =>
           /\ done
           /\ call.op \in Writes => call.was < written[call.s][call.w]
           /\ call.op \notin Writes => \A i \in 0 .. 3 :
                i < Span(call.s) /\ call.w + i \in Places => edat[i] = Word(call.s, call.w + i)
  PROVE  Inv'
<1>1. /\ call \in Calls /\ call.s \in Slaves /\ call.w \in Whole /\ call.w \in Nat
      /\ call.was \in Nat
      /\ result = Idle /\ (call.op \in Copies <=> reader.op \in Copies)
      /\ call.op \in {"get", "read", "write"} \union Copies
  <2>1. call \in Calls /\ call.op # "pdi" /\ result = Idle
        /\ (call.op \in Copies <=> reader.op \in Copies)
    BY DEF Inv, Flow, Work
  <2> QED BY <2>1, FieldsOfCalls, Numbers
<1>2. UNCHANGED <<written, owner, data, refused>> /\ losses' \in Nat /\ nacks' \in Nat
  BY Patience DEF device, Inv
<1>3. Tolerable' => Tolerable
  BY Patience DEF Inv
<1>4. call.op \notin Copies => call.op \in {"get", "read", "write"}
                               /\ (Reached(call)' <=> Tolerable')
  BY <1>1, Kinds DEF Reached
<1>5. call.op \notin Copies =>
        /\ reader' = reader
        /\ result' = [op |-> call.op, s |-> call.s, w |-> call.w, was |-> call.was,
                      value |-> edat[0], ok |-> done]
  BY DEF Finish
<1>6. edat[0] \in AnyWord
  OBVIOUS
<1>7. call.op \notin Copies =>
        /\ result' \in Answers /\ result'.op = call.op /\ result'.s = call.s
        /\ result'.w = call.w /\ result'.was = call.was /\ result'.value = edat[0]
        /\ result'.ok = done
  BY <1>1, <1>4, <1>5, <1>6 DEF Answers
<1>8. call.op \in Copies =>
        /\ result' = Idle /\ reader' \in Copiers /\ reader'.op = reader.op
        /\ reader'.s = reader.s /\ Copying'
  BY <1>1, CopiedOn DEF Finish
<1>9. call.op # "get" => UNCHANGED <<esislave, esimap, esibuf>>
  BY DEF Finish, cache
<1> DEFINE got == call.w .. call.w + Span(call.s) - 1
<1>10. call.op = "get" =>
         /\ esimap' = esimap \union got /\ esislave' = esislave
         /\ esibuf' = [w \in Places |-> IF w \in got THEN edat[w - call.w] ELSE esibuf[w]]
  BY DEF Finish, Cached
<1>11. got \subseteq Places /\ \A w \in got : w - call.w \in 0 .. 3 /\ w - call.w < Span(call.s)
                                              /\ call.w + (w - call.w) = w
  BY <1>1, Numbers, Spans, SMT DEF Places, Whole
<1> HIDE DEF got
<1>12. esislave' \in Slaves \union {NoSlave} /\ esimap' \subseteq Places
       /\ esibuf' \in [Places -> AnyWord]
  <2>1. esislave \in Slaves \union {NoSlave} /\ esimap \subseteq Places
        /\ esibuf \in [Places -> AnyWord]
    BY DEF Inv, SiiType
  <2>2. CASE call.op = "get"
    <3>1. \A w \in Places : (IF w \in got THEN edat[w - call.w] ELSE esibuf[w]) \in AnyWord
      BY <1>11, <2>1
    <3> QED BY <1>10, <1>11, <2>1, <2>2, <3>1
  <2>3. CASE call.op # "get"
    BY <1>9, <2>1, <2>3
  <2> QED BY <2>2, <2>3
<1>13. CacheRight'
  <2>1. CASE call.op = "get"
    <3>1. SUFFICES ASSUME Tolerable', NEW w \in esimap', w < Words
                   PROVE  IsWord(esibuf'[w], esislave', w)
      BY DEF CacheRight
    <3>2. esislave = call.s /\ call.op \notin Copies /\ call.op \notin Writes /\ w \in Places
      BY <1>12, <2>1, <3>1 DEF Inv, Flow, Copies, Writes
    <3>3. CASE w \in got
      <4>1. esibuf'[w] = edat[w - call.w] /\ edat[w - call.w] = Word(call.s, w)
        BY <1>4, <1>10, <1>11, <2>1, <3>1, <3>2, <3>3
      <4> QED BY <1>1, <1>10, <2>1, <3>2, <4>1, WordIsWord DEF Inv
    <3>4. CASE w \notin got
      BY <1>3, <1>10, <2>1, <3>1, <3>2, <3>4 DEF Inv, CacheRight
    <3> QED BY <3>3, <3>4
  <2>2. CASE call.op # "get"
    BY <1>3, <1>9, <2>2 DEF Inv, CacheRight
  <2> QED BY <2>1, <2>2
<1>14. SiiType'
  BY <1>1, <1>2, <1>5, <1>7, <1>8, <1>12 DEF Inv, SiiType
<1>15. Flow'
  <2>1. reader' # Idle => result'.op \notin Tools
    BY <1>4, <1>7, <1>8, FieldsOfCalls DEF Tools
  <2>2. reader'.op \in Copies => call.op \in Copies
    BY <1>1, <1>5
  <2> QED BY <1>8, <2>1, <2>2 DEF Flow, Claims, Handover, Work
<1>16. Counted'
  <2>1. ByPosition(reader)' => ByPosition(reader)
    BY <1>5, <1>8, Kinds
  <2>2. ~ByPosition(result)'
    BY <1>4, <1>7, <1>8, FieldsOfCalls, Kinds DEF Tools
  <2> QED BY <2>1, <2>2 DEF Inv, Counted
<1>17. Working' /\ Copying'
  BY <1>1, <1>5, <1>8 DEF Working, Work, Copying
<1>18. Believed'
  <2>1. ByPosition(reader)' <=> ByPosition(reader)
    BY <1>5, <1>8, Kinds
  <2>2. ~ByPosition(result)
    BY <1>1, FieldsOfCalls, Kinds DEF Tools
  <2> QED BY <1>2, <1>3, <2>1, <2>2 DEF Inv, Believed, Handover
<1>19. Restored'
  BY <1>4, <1>7, <1>8, FieldsOfCalls DEF Restored
<1>20. ResultRight'
  <2>1. CASE call.op \in Copies
    BY <1>8, <2>1, FieldsOfCalls DEF ResultRight
  <2>2. CASE call.op \notin Copies
    <3>1. SUFFICES ASSUME Tolerable'
                   PROVE  /\ call.op = "get" => IsWord(edat[0], call.s, call.w)
                          /\ call.op = "read" => edat[0] = Word(call.s, call.w)
                          /\ call.op = "write" => done /\ written[call.s][call.w] > call.was
      BY <1>2, <1>4, <1>7, <2>2 DEF ResultRight, Word
    <3>2. done /\ (call.op \in Writes => call.was < written[call.s][call.w])
      BY <1>4, <2>2, <3>1
    <3>3. written[call.s][call.w] \in Nat
      <4>1. written \in [Slaves -> [Places -> Nat]] /\ call.w \in Places
        BY <1>1, Numbers DEF Inv, SiiType
      <4> QED BY <1>1, <4>1
    <3>4. call.op = "write" => written[call.s][call.w] > call.was
      BY <1>1, <3>2, <3>3, SMT DEF Writes
    <3>5. call.op \in {"get", "read"} => edat[0] = Word(call.s, call.w)
      <4>1. 0 < Span(call.s) /\ call.w + 0 = call.w /\ call.w \in Places /\ 0 \in 0 .. 3
        BY <1>1, Numbers, Spans, SMT
      <4>2. call.op \in {"get", "read"} => call.op \notin Writes
        BY DEF Writes
      <4> QED BY <1>4, <2>2, <3>1, <4>1, <4>2
    <3> QED BY <1>1, <3>2, <3>4, <3>5, Numbers, WordIsWord DEF Inv
  <2> QED BY <2>1, <2>2
<1> QED BY <1>13, <1>14, <1>15, <1>16, <1>17, <1>18, <1>19, <1>20 DEF Inv

\* The call is not over: its data is read, or its command repeated.
LEMMA GoesOn ==
  ASSUME Inv, pc \in {"poll", "data"}, pc' \in {"putdata", "command", "data"},
         UNCHANGED <<device, eep_pdi, cache, reader, call, result, calls>>, Grows,
         cnt' \in Nat, cnt' <= losses', nackcnt' \in Nat,
         Reached(call)' => nackcnt' <= nacks',
         pc' = "putdata" => call.op \in Writes,
         pc' = "data" => call.op \notin Writes /\ (Reached(call)' => ReadSoFar)
  PROVE  Inv'
<1>1. call \in Calls /\ call.op # "pdi" /\ pc \in Work /\ pc # "idle" /\ pc' \in Work
  BY DEF Inv, Flow, Work
<1>2. UNCHANGED <<written, owner, data, refused, esislave, esimap, esibuf>>
      /\ losses' \in Nat /\ nacks' \in Nat
  BY Patience DEF device, cache, Inv
<1>3. Reached(call)' => Reached(call)
  BY ReachedBefore DEF Inv
<1>4. SiiType'
  BY <1>1, <1>2 DEF Inv, SiiType
<1>5. Flow'
  BY <1>1, <1>2 DEF Inv, Flow, Handover, Claims, Work
<1>6. Counted' /\ CacheRight' /\ ResultRight'
  BY <1>1, <1>2, MidCall
<1>7. Working'
  BY <1>1, <1>2, <1>3 DEF Inv, Working, Work, ReadSoFar, Word
<1>8. Copying'
  <2>1. Reached(reader)' => Reached(reader)
    BY Patience DEF Inv, Reached, ByPosition
  <2> QED BY <1>1, <1>2, <2>1 DEF Inv, Copying, CopiedSoFar, Covered, Handover, Claims, Work
<1>9. Believed' /\ Restored'
  BY <1>1, <1>2, BeliefKept
<1> QED BY <1>4, <1>5, <1>6, <1>7, <1>8, <1>9 DEF Inv

LEMMA NothingIs == Nothing \in [0 .. 3 -> AnyWord]
BY DEF Nothing, AnyWord

LEMMA PollKeeps ==
  ASSUME Inv, Poll
  PROVE  Inv'
<1>1. /\ pc = "poll" /\ UNCHANGED <<device, eep_pdi, call, cnt, losses, nacks, calls>>
      /\ Grows
  BY DEF Poll, bounds, Grows
<1>2. /\ call \in Calls /\ cnt' \in Nat /\ cnt' <= losses' /\ nackcnt \in Nat /\ nacks \in Nat
      /\ nacks' = nacks /\ (Reached(call)' <=> Reached(call))
      /\ UNCHANGED <<written, refused>>
  BY <1>1 DEF Inv, SiiType, Counted, Flow, Reached, Tolerable, device
<1>3. Reached(call) =>
        /\ nackcnt <= nacks /\ nacks <= 2
        /\ IF refused[call.s] THEN nackcnt + 1 <= nacks
           ELSE IF call.op \in Writes THEN call.was < written[call.s][call.w] ELSE ReadSoFar
  BY <1>1 DEF Inv, Working, Reached, Tolerable
<1>4. CASE ~refused[call.s]
  <2>1. nackcnt' = 0 /\ (Reached(call)' => nackcnt' <= nacks')
    BY <1>2, <1>4, SMT DEF Poll
  <2>2. CASE call.op \in Writes
    <3>1. pc' = "idle" /\ Finish(Nothing, TRUE)
      BY <1>4, <2>2 DEF Poll
    <3> QED BY <1>1, <1>2, <1>3, <1>4, <2>1, <2>2, <3>1, NothingIs, FinishKeeps
  <2>3. CASE call.op \notin Writes
    <3>1. pc' = "data" /\ UNCHANGED <<cache, reader, result>>
      BY <1>4, <2>3 DEF Poll
    <3> QED BY <1>1, <1>2, <1>3, <1>4, <2>1, <2>3, <3>1, GoesOn
  <2> QED BY <2>2, <2>3
<1>5. CASE refused[call.s]
  <2>1. nackcnt' = nackcnt + 1 /\ nackcnt' \in Nat
    BY <1>2, <1>5 DEF Poll
  <2>2. CASE nackcnt + 1 < 3
    <3>1. /\ pc' = IF call.op \in Writes THEN "putdata" ELSE "command"
          /\ UNCHANGED <<cache, reader, result>>
      BY <1>5, <2>2 DEF Poll
    <3> QED BY <1>1, <1>2, <1>3, <1>5, <2>1, <3>1, GoesOn
  <2>3. CASE ~(nackcnt + 1 < 3)
    <3>1. pc' = "idle" /\ Finish(Nothing, FALSE)
      BY <1>5, <2>3 DEF Poll
    <3>2. ~Reached(call)'
      BY <1>2, <1>3, <1>5, <2>3, SMT
    <3> QED BY <1>1, <1>2, <2>1, <3>1, <3>2, NothingIs, FinishKeeps
  <2> QED BY <2>2, <2>3
<1> QED BY <1>4, <1>5

LEMMA GetDataKeeps ==
  ASSUME Inv, GetData
  PROVE  Inv'
<1>1. /\ pc = "data" /\ UNCHANGED <<device, eep_pdi, call, nackcnt, nacks, calls>>
      /\ \/ Answered("idle") /\ Finish(data[call.s], TRUE)
         \/ Repeat("data", "idle") /\ (IF pc' = "idle" THEN Finish(Nothing, FALSE)
                                       ELSE UNCHANGED <<cache, reader, result>>)
  BY DEF GetData
<1>2. /\ call \in Calls /\ call.s \in Slaves /\ call.op \notin Writes
      /\ data[call.s] \in [0 .. 3 -> AnyWord] /\ nackcnt' \in Nat
  <2>1. call \in Calls /\ call.op \notin Writes
    BY <1>1 DEF Inv, Flow
  <2> QED BY <1>1, <2>1, FieldsOfCalls DEF Inv, SiiType
<1>3. /\ losses' \in {losses, losses + 1} /\ cnt' \in Nat /\ cnt' <= losses'
      /\ pc' \in {"data", "idle"}
      /\ Repeat("data", "idle") /\ losses' <= Retries => pc' = "data"
  BY <1>1, Waits DEF Inv, Counted
<1>4. Grows
  BY <1>1, <1>3 DEF Grows
<1>5. Reached(call)' => Reached(call) /\ losses' <= Retries
  BY <1>1, <1>4, ReachedBefore DEF Inv
<1>6. Reached(call) => ReadSoFar /\ nackcnt <= nacks
  BY <1>1 DEF Inv, Working
<1>7. CASE Answered("idle") /\ Finish(data[call.s], TRUE)
  <2>1. pc' = "idle"
    BY <1>7 DEF Answered
  <2>2. Reached(call)' => \A i \in 0 .. 3 : i < Span(call.s) /\ call.w + i \in Places =>
          data[call.s][i] = Word(call.s, call.w + i)
    BY <1>5, <1>6 DEF ReadSoFar
  <2> QED BY <1>1, <1>2, <1>3, <1>4, <1>7, <2>1, <2>2, FinishKeeps
<1>8. CASE Repeat("data", "idle") /\ pc' = "idle" /\ Finish(Nothing, FALSE)
  <2>1. ~Reached(call)'
    BY <1>3, <1>5, <1>8
  <2> QED BY <1>1, <1>2, <1>3, <1>4, <1>8, <2>1, NothingIs, FinishKeeps
<1>9. CASE Repeat("data", "idle") /\ pc' = "data" /\ UNCHANGED <<cache, reader, result>>
  BY <1>1, <1>2, <1>3, <1>4, <1>5, <1>6, <1>9, GoesOn
<1> QED BY <1>1, <1>3, <1>7, <1>8, <1>9

-----------------------------------------------------------------------------
LEMMA InitHolds == Init => Inv
<1> SUFFICES ASSUME Init PROVE Inv
  OBVIOUS
<1>1. \A s \in Slaves : eep_pdi[s] = (owner[s] = "pdi") /\ eep_pdi[s] \in BOOLEAN
  BY DEF Init
<1>2. SiiType
  BY Numbers DEF Init, SiiType, AnyWord
<1>3. Flow /\ Working /\ Copying /\ Restored
  BY FieldsOfCalls, Kinds DEF Init, Flow, Handover, Claims, Work, Tools, Working, Copying, Restored
<1>4. Counted
  BY FieldsOfCalls, Kinds, Numbers, SMT DEF Init, Counted, Tools
<1>5. Believed /\ CacheRight /\ ResultRight
  BY <1>1, FieldsOfCalls DEF Init, Believed, CacheRight, ResultRight
<1> QED BY <1>2, <1>3, <1>4, <1>5 DEF Inv

LEMMA StepKeeps == Inv /\ [Next]_vars => Inv'
<1> SUFFICES ASSUME Inv, [Next]_vars PROVE Inv'
  OBVIOUS
<1>1. ASSUME NEW s \in Slaves, NEW w \in 0 .. Words - 1,
             SiiGetByte(s, w) \/ ReadEeprom(s, w) \/ WriteEeprom(s, w)
      PROVE  Inv'
  <2>1. w \in Whole
    BY DEF Whole
  <2>2. CASE SiiGetByte(s, w)
    BY <2>1, <2>2, SiiGetByteKeeps
  <2>3. CASE ReadEeprom(s, w)
    BY <2>1, <2>3, BypassKeeps DEF ReadEeprom, Bypass
  <2>4. CASE WriteEeprom(s, w)
    BY <2>1, <2>4, BypassKeeps DEF WriteEeprom, Bypass
  <2> QED BY <1>1, <2>2, <2>3, <2>4
<1>2. ASSUME NEW s \in Slaves, EepromToPdi(s) PROVE Inv'
  BY <1>2, Numbers, BypassKeeps DEF EepromToPdi
<1>3. ASSUME NEW s \in Slaves, StartSection(s) PROVE Inv'
  BY <1>3, StartSectionKeeps
<1>4. MaxCalls \in Nat /\ (calls < MaxCalls /\ calls' = calls + 1 => calls' \in Nat
                                                                  /\ calls' <= MaxCalls)
  <2>1. calls \in Nat /\ MaxCalls \in Nat
    BY Numbers DEF Inv, SiiType
  <2> QED BY <2>1, SMT
<1>5. ASSUME NEW s \in Slaves, EsiDump(s) PROVE Inv'
  <2>1. /\ calls < MaxCalls /\ calls' \in Nat /\ calls' <= MaxCalls
        /\ Copy("dump", s, Strides(Span(s)), Span(s), First(s))
    BY <1>4, <1>5 DEF EsiDump
  <2>2. "dump" \in Copies
    BY DEF Copies
  <2> QED BY <2>1, <2>2, Spans, CopyKeeps
<1>6. ASSUME NEW s \in Slaves, eeprom_read(s) \/ eeprom_write(s) \/ eeprom_writealias(s)
      PROVE  Inv'
  <2>1. /\ calls' = MaxCalls /\ calls' \in Nat /\ calls' <= MaxCalls
        /\ \/ Copy("peek", s, Strides(2), 2, "claim")
           \/ Copy("poke", s, Strides(1), 2, "claim")
           \/ Copy("alias", s, <<0, Words - 1>>, 2, "claim")
    BY <1>4, <1>6 DEF eeprom_read, eeprom_write, eeprom_writealias, Tool
  <2>2. {"peek", "poke", "alias"} \subseteq Copies /\ 2 \in {2, 4}
    BY DEF Copies
  <2>3. CASE Copy("peek", s, Strides(2), 2, "claim")
    BY <2>1, <2>2, <2>3, CopyKeeps
  <2>4. CASE Copy("poke", s, Strides(1), 2, "claim")
    BY <2>1, <2>2, <2>4, CopyKeeps
  <2>5. CASE Copy("alias", s, <<0, Words - 1>>, 2, "claim")
    BY <2>1, <2>2, <2>5, CopyKeeps
  <2> QED BY <2>1, <2>3, <2>4, <2>5
<1>7. CASE DumpNext \/ ecx_readeepromAP \/ ecx_writeeepromAP
  <2>1. {"dump"} \subseteq Copies /\ {"peek"} \subseteq Copies /\ {"poke", "alias"} \subseteq Copies
    BY DEF Copies
  <2> QED BY <1>7, <2>1, NextPlaceKeeps DEF DumpNext, ecx_readeepromAP, ecx_writeeepromAP
<1>8. CASE EndSection
  BY <1>8, EndSectionKeeps
<1>9. CASE Seize \/ Take
  BY <1>9, HandoverKeeps
<1>10. CASE Give
  BY <1>10, GiveKeeps
<1>11. CASE Claim \/ Claim2
  BY <1>11, ClaimKeeps
<1>12. CASE Status
  BY <1>12, StatusKeeps
<1>13. CASE WaitReady
  BY <1>13, WaitReadyKeeps
<1>14. CASE PutData
  BY <1>14, PutDataKeeps
<1>15. ASSUME NEW nack \in BOOLEAN, Command(nack) PROVE Inv'
  BY <1>15, CommandKeeps
<1>16. CASE Poll
  BY <1>16, PollKeeps
<1>17. CASE GetData
  BY <1>17, GetDataKeeps
<1>18. CASE UNCHANGED vars
  <2>1. SiiType' /\ Flow' /\ Counted'
    BY <1>18 DEF vars, device, cache, bounds, Inv, SiiType, Flow, Counted
  <2>2. Working'
    BY <1>18 DEF vars, device, cache, bounds, Inv, Working, Reached, Tolerable, ReadSoFar, Word
  <2>3. Copying'
    BY <1>18 DEF vars, device, cache, bounds, Inv, Copying, Reached, Tolerable, CopiedSoFar,
                 Covered
  <2>4. Believed' /\ Restored' /\ CacheRight' /\ ResultRight'
    BY <1>18 DEF vars, device, cache, bounds, Inv, Believed, Restored, CacheRight, ResultRight,
                 Tolerable, Word
  <2> QED BY <2>1, <2>2, <2>3, <2>4 DEF Inv
<1> QED
  BY <1>1, <1>2, <1>3, <1>5, <1>6, <1>7, <1>8, <1>9, <1>10, <1>11, <1>12, <1>13, <1>14, <1>15,
     <1>16, <1>17, <1>18 DEF Next, Access

LEMMA InvAlways == Spec => []Inv
BY InitHolds, StepKeeps, PTL DEF Spec

\* What ecx_siigetbyte has in its cache as valid, what it, ecx_readeepromFP,
\* ecx_esidump and eepromtool read, and what they report as written, is that
\* word of that slave's EEPROM, up to Retries lost datagrams and two refused
\* commands (one lost datagram, for eepromtool).
THEOREM FetchedIsWordAlways == Spec => []FetchedIsWord
<1>1. Inv => FetchedIsWord
  BY DEF Inv, CacheRight, ResultRight, FetchedIsWord
<1> QED BY <1>1, InvAlways, PTL

\* Between calls the slave has its EEPROM with whom ec_slave[].eep_pdi says,
\* and a section reader or a dump leaves with the PDI what the PDI had.
THEOREM OwnerAsBelievedAlways == Spec => []OwnerAsBelieved
<1>1. ASSUME Inv PROVE OwnerAsBelieved
  <2>1. SUFFICES ASSUME pc = "idle", Tolerable, ~ByPosition(reader), ~ByPosition(result)
                 PROVE  /\ \A s \in Slaves : eep_pdi[s] = (owner[s] = "pdi")
                        /\ result.op \in {"section", "dump"} /\ result.eectl =>
                             owner[result.s] = "pdi"
    BY DEF OwnerAsBelieved
  <2>2. \A s \in Slaves : eep_pdi[s] = (owner[s] = "pdi")
    BY <1>1, <2>1 DEF Inv, Believed, Handover
  <2>3. result.op \in {"section", "dump"} => result.s \in Slaves
    BY <1>1, Readers, FieldsOfCalls DEF Inv, Copies
  <2> QED BY <1>1, <2>1, <2>2, <2>3 DEF Inv, Restored
<1> QED BY <1>1, InvAlways, PTL

-----------------------------------------------------------------------------
(* The parents.  First, what is defined by recursion over 0 .. n.           *)

\* Induction over the numbers, over a set.
LEMMA Induction ==
  ASSUME NEW T, 0 \in T, \A n \in Nat : n \in T => n + 1 \in T
  PROVE  Nat \subseteq T
<1> DEFINE M == {n \in Nat : n \notin T}
<1> SUFFICES ASSUME M # {} PROVE FALSE  OBVIOUS
<1>1. PICK x \in M : \A y \in M : <<y, x>> \notin OpToRel(<, Nat)
  <2>1. M \subseteq Nat  OBVIOUS
  <2> HIDE DEF M
  <2> QED BY <2>1, NatLessThanWellFounded, WFMin, Zenon
<1>2. \A y \in M : ~ (y < x)  BY <1>1 DEF OpToRel
<1>3. x # 0 /\ x \in Nat  OBVIOUS
<1>4. x - 1 \in Nat /\ x - 1 < x  BY <1>3
<1>5. x - 1 \notin M  BY <1>2, <1>4
<1>6. x - 1 \in T  BY <1>4, <1>5
<1>7. (x - 1) + 1 \in T  BY <1>4, <1>6
<1> QED BY <1>7, <1>3

\* Over 0 .. n.
LEMMA UpTo ==
  ASSUME NEW n \in Nat, NEW T, 0 \in T, \A i \in 1 .. n : i - 1 \in T => i \in T
  PROVE  0 .. n \subseteq T
<1> DEFINE U == {i \in Nat : i <= n => i \in T}
<1>1. 0 \in U  OBVIOUS
<1>2. ASSUME NEW i \in Nat, i \in U  PROVE i + 1 \in U
  <2> SUFFICES ASSUME i + 1 <= n PROVE i + 1 \in T  OBVIOUS
  <2>1. i \in T  BY <1>2
  <2>2. i + 1 \in 1 .. n /\ (i + 1) - 1 = i  OBVIOUS
  <2> QED BY <2>1, <2>2
<1> HIDE DEF U
<1>3. Nat \subseteq U  BY <1>1, <1>2, Induction
<1> QED BY <1>3 DEF U

\* What is defined step by step exists, as far as the steps stay in a set.
LEMMA RecursionStep ==
  ASSUME NEW n \in Nat, NEW A, NEW a \in A, NEW G \in [A \X (1 .. n) -> A]
  PROVE  \E r \in [0 .. n -> A] :
           r = [i \in 0 .. n |-> IF i = 0 THEN a ELSE G[r[i - 1], i]]
<1> DEFINE Counts(r, k) == /\ r \in [0 .. k -> A]
                           /\ r[0] = a
                           /\ \A i \in 1 .. k : r[i] = G[r[i - 1], i]
           T == {k \in Nat : \E r : Counts(r, k)}
<1>1. 0 \in T
  <2> DEFINE r == [i \in 0 .. 0 |-> a]
  <2>1. Counts(r, 0)  OBVIOUS
  <2> QED BY <2>1
<1>2. ASSUME NEW k \in 1 .. n, k - 1 \in T  PROVE k \in T
  <2>1. PICK r : Counts(r, k - 1)  BY <1>2
  <2>2. k \in Nat /\ k - 1 \in Nat /\ k # 0 /\ k - 1 \in 0 .. k - 1 /\ 0 \in 0 .. k - 1  OBVIOUS
  <2>3. r[k - 1] \in A  BY <2>1, <2>2
  <2>4. PICK v : v = G[r[k - 1], k]  OBVIOUS
  <2>5. v \in A  BY <2>3, <2>4
  <2>6. PICK s : s = [i \in 0 .. k |-> IF i = k THEN v ELSE r[i]]  OBVIOUS
  <2>7. \A i \in 0 .. k - 1 : i \in 0 .. k /\ i # k  BY <2>2
  <2>8. \A i \in 0 .. k : i # k => i \in 0 .. k - 1  BY <2>2
  <2>9. k \in 0 .. k /\ s[k] = v /\ \A i \in 0 .. k - 1 : s[i] = r[i]  BY <2>2, <2>6, <2>7
  <2>10. s \in [0 .. k -> A]  BY <2>1, <2>5, <2>6, <2>8
  <2>11. s[0] = a  BY <2>1, <2>2, <2>9
  <2>12. ASSUME NEW i \in 1 .. k  PROVE s[i] = G[s[i - 1], i]
    <3>1. i - 1 \in 0 .. k - 1 /\ s[i - 1] = r[i - 1]  BY <2>2, <2>9
    <3>2. CASE i = k  BY <3>1, <3>2, <2>4, <2>9
    <3>3. CASE i # k
      <4>1. i \in 1 .. k - 1 /\ i \in 0 .. k - 1  BY <3>3, <2>2
      <4> QED BY <2>1, <2>9, <3>1, <4>1
    <3> QED BY <3>2, <3>3
  <2>13. Counts(s, k)  BY <2>10, <2>11, <2>12
  <2> HIDE DEF Counts
  <2> QED BY <2>2, <2>13
<1>3. n \in T
  <2> HIDE DEF T
  <2> QED BY <1>1, <1>2, UpTo
<1>4. PICK r : Counts(r, n)  BY <1>3
<1>5. ASSUME NEW i \in 0 .. n  PROVE r[i] = IF i = 0 THEN a ELSE G[r[i - 1], i]
  <2>1. i # 0 => i \in 1 .. n  OBVIOUS
  <2> QED BY <1>4, <2>1
<1>6. r = [i \in 0 .. n |-> IF i = 0 THEN a ELSE G[r[i - 1], i]]
  BY <1>4, <1>5
<1> QED BY <1>4, <1>6

StepByStep(n, a, G, r) == r = [i \in 0 .. n |-> IF i = 0 THEN a ELSE G[r[i - 1], i]]
LEMMA Recursion ==
  \A n \in Nat : \A A : \A a \in A : \A G \in [A \X (1 .. n) -> A] :
    \E r \in [0 .. n -> A] : StepByStep(n, a, G, r)
BY RecursionStep DEF StepByStep


-----------------------------------------------------------------------------
(* The count of ecx_config_init.                                            *)

\* What ecx_config_init counts on its way back from slave i.
Branched(topology, i, count) ==
  /\ count[0] = 0
  /\ \A n \in 1 .. i - 1 : count[n] = count[n - 1] + Branches(topology[i - n])

Chosen(topology, i, count) ==
  Max({j \in 1 .. i - 1 : j = 1 \/ (count[i - j] >= 0 /\ topology[j] > 1)})

FindsBy(topology, i, count) ==
  count \in [0 .. i - 1 -> Int] /\ Branched(topology, i, count)
    /\ FindParent(topology, i) = Chosen(topology, i, count)

LEMMA CountDefined ==
  ASSUME NEW topology, NEW i \in Nat, i > 1
  PROVE  \E count : FindsBy(topology, i, count)
<1> DEFINE IsCount(s) ==
             s = [n \in 0 .. i - 1 |-> IF n = 0 THEN 0 ELSE s[n - 1] + Branches(topology[i - n])]
           G == [x \in Int \X (1 .. i - 1) |-> x[1] + Branches(topology[i - x[2]])]
<1>1. PICK k : k = i - 1  OBVIOUS
<1>2. k \in Nat  BY <1>1
<1>3. \A l : Branches(l) \in Int  BY DEF Branches
<1>4. \E s : IsCount(s)
  <2>1. G \in [Int \X (1 .. k) -> Int]  BY <1>1, <1>3
  <2>2. \A x \in Int, n \in 1 .. k : G[x, n] = x + Branches(topology[i - n])  BY <1>1
  <2> HIDE DEF G
  <2>3. PICK r \in [0 .. k -> Int] : StepByStep(k, 0, G, r)
    <3>1. 0 \in Int  OBVIOUS
    <3> QED BY <1>2, <2>1, <3>1, Recursion
  <2>4. \A n \in 0 .. k : n # 0 => n - 1 \in 0 .. k /\ n \in 1 .. k  BY <1>2
  <2>5. \A n \in 0 .. k : n # 0 => G[r[n - 1], n] = r[n - 1] + Branches(topology[i - n])
    BY <2>2, <2>4
  <2>6. IsCount(r)  BY <1>1, <2>3, <2>5 DEF StepByStep
  <2> QED BY <2>6
<1>5. PICK s : s = CHOOSE t : IsCount(t)  OBVIOUS
<1>6. IsCount(s)  BY <1>4, <1>5
<1>7. FindParent(topology, i) = Chosen(topology, i, s)  BY <1>5 DEF FindParent, Chosen
<1>8. s[0] = 0 /\ \A n \in 1 .. k : s[n] = s[n - 1] + Branches(topology[i - n])
  BY <1>1, <1>2, <1>6
<1> DEFINE T == {n \in Nat : s[n] \in Int}
<1>9. 0 \in T  BY <1>8
<1>10. \A n \in 1 .. k : n - 1 \in T => n \in T  BY <1>3, <1>8
<1>11. 0 .. k \subseteq T
  <2> HIDE DEF T
  <2> QED BY <1>2, <1>9, <1>10, UpTo
<1>12. s \in [0 .. k -> Int]  BY <1>1, <1>6, <1>11
<1>13. FindsBy(topology, i, s)  BY <1>1, <1>7, <1>8, <1>12 DEF FindsBy, Branched
<1> QED BY <1>13

-----------------------------------------------------------------------------
\* A slave with n slaves below it has n + 1 open ports, as each is at a port of
\* its own.
Ports(net, i) == {net.port[c] : c \in Children(net, i)}
NodeRight(net, k) ==
  LET links == Cardinality(OpenPorts(net, k))
  IN  /\ IsFiniteSet(Children(net, k))
      /\ Branches(links) = Cardinality(Children(net, k)) - 1
      /\ Children(net, k) # {} => links > 1

LEMMA LinksCounted ==
  ASSUME NEW net, IsNetwork(net), NEW k \in Slaves
  PROVE  NodeRight(net, k)
<1>1. PICK C, P : C = Children(net, k) /\ P = Ports(net, k)  OBVIOUS
<1>2. \A c \in C : c \in Slaves /\ c # 1 /\ net.up[c] = k /\ net.port[c] \in {3, 1, 2}
  <2>1. \A c \in C : c \in Slaves /\ net.up[c] = k  BY <1>1 DEF Children
  <2>2. k # Master  BY DEF Slaves, Master
  <2>3. 1 \notin C  BY <2>1, <2>2 DEF IsNetwork
  <2> QED BY <2>1, <2>3 DEF IsNetwork
<1>3. C \subseteq 1 .. NSlaves /\ IsFiniteSet(C)
  <2>1. NSlaves \in Int /\ 1 \in Int  BY SlaveListAssumption
  <2>2. IsFiniteSet(1 .. NSlaves)  BY <2>1, FS_Interval
  <2>3. C \subseteq 1 .. NSlaves  BY <1>2 DEF Slaves
  <2> QED BY <2>2, <2>3, FS_Subset
<1>4. ASSUME NEW b \in C, NEW c \in C, b < c  PROVE net.port[b] # net.port[c]
  <2>1. c \in Slaves \ {1} /\ b \in Children(net, net.up[c])  BY <1>1, <1>2
  <2>2. Place(net.port[b]) < Place(net.port[c])  BY <1>4, <2>1 DEF IsNetwork
  <2>3. PICK p, q : p = net.port[b] /\ q = net.port[c]  OBVIOUS
  <2>4. p \in {3, 1, 2}  BY <1>2, <2>3
  <2>5. Place(p) \in Int
    <3>1. \E i \in 1 .. 4 : Order[i] = p
      <4>1. Order[2] = 3 /\ Order[3] = 1 /\ Order[4] = 2  BY DEF Order
      <4> QED BY <2>4, <4>1
    <3> QED BY <3>1 DEF Place
  <2>6. p # q  BY <2>2, <2>3, <2>5
  <2> QED BY <2>3, <2>6
<1>5. \A b, c \in C : b # c => net.port[b] # net.port[c]
  <2> TAKE b, c \in C
  <2>1. b \in Int /\ c \in Int  BY <1>3
  <2>2. CASE b < c  BY <1>4, <2>2
  <2>3. CASE c < b  BY <1>4, <2>3
  <2> QED BY <2>1, <2>2, <2>3
<1>6. P = {net.port[c] : c \in C}  BY <1>1 DEF Ports
<1>7. IsFiniteSet(P) /\ Cardinality(P) = Cardinality(C)
  <2>1. PICK f : f = [c \in C |-> net.port[c]]  OBVIOUS
  <2>2. f \in [C -> P]  BY <1>6, <2>1
  <2>3. \A b, c \in C : f[b] = f[c] => b = c  BY <1>5, <2>1
  <2>4. \A p \in P : \E c \in C : f[c] = p  BY <1>6, <2>1
  <2>5. f \in Bijection(C, P)
    BY <2>2, <2>3, <2>4, Zenon DEF Bijection, Injection, Surjection, IsInjective
  <2>6. ExistsBijection(C, P)  BY <2>5 DEF ExistsBijection
  <2> QED BY <1>3, <2>6, FS_Bijection
<1>8. Cardinality(C) \in 0 .. 3
  <2>1. IsFiniteSet(1 .. 3) /\ Cardinality(1 .. 3) = 3
    <3>1. PICK a, b : a = 1 /\ b = 3  OBVIOUS
    <3>2. a \in Int /\ b \in Int /\ ~(a > b) /\ b - a + 1 = 3  BY <3>1
    <3>3. IsFiniteSet(a .. b) /\ Cardinality(a .. b) = b - a + 1  BY <3>2, FS_Interval
    <3> QED BY <3>1, <3>2, <3>3
  <2>2. P \subseteq 1 .. 3  BY <1>2, <1>6
  <2>3. Cardinality(P) <= 3  BY <2>1, <2>2, FS_Subset
  <2>4. Cardinality(P) \in Nat  BY <1>7, FS_CardinalityType
  <2> QED BY <1>7, <2>3, <2>4
<1>9. Cardinality(OpenPorts(net, k)) = Cardinality(C) + 1
  <2>1. OpenPorts(net, k) = P \cup {0}  BY <1>1, <1>6 DEF OpenPorts
  <2>2. 0 \notin P  BY <1>2, <1>6
  <2>3. Cardinality(P \cup {0}) = Cardinality(P) + 1  BY <1>7, <2>2, FS_AddElement
  <2> QED BY <1>7, <2>1, <2>3
<1>10. PICK n : n = Cardinality(C)  OBVIOUS
<1>11. C # {} => n # 0  BY <1>3, <1>10, FS_EmptySet
<1>12. Branches(n + 1) = n - 1
  <2>1. n = 0 \/ n = 1 \/ n = 2 \/ n = 3  BY <1>8, <1>10
  <2>2. CASE n = 0  BY <2>2 DEF Branches
  <2>3. CASE n = 1  BY <2>3 DEF Branches
  <2>4. CASE n = 2  BY <2>4 DEF Branches
  <2>5. CASE n = 3  BY <2>5 DEF Branches
  <2> QED BY <2>1, <2>2, <2>3, <2>4, <2>5
<1>13. C # {} => n + 1 > 1  BY <1>8, <1>10, <1>11
<1> QED BY <1>1, <1>3, <1>9, <1>10, <1>12, <1>13 DEF NodeRight

\* The slaves plugged into those from a to b.
Below(net, a, b) == {c \in Slaves : net.up[c] \in a .. b}
SameLinks(net, topology) ==
  \A k \in Slaves : topology[k] = Cardinality(OpenPorts(net, k))

LEMMA BelowFinite ==
  ASSUME NEW net, NEW a, NEW b
  PROVE  IsFiniteSet(Below(net, a, b)) /\ Cardinality(Below(net, a, b)) \in Nat
<1>1. NSlaves \in Int /\ 1 \in Int  BY SlaveListAssumption
<1>2. IsFiniteSet(Slaves)  BY <1>1, FS_Interval DEF Slaves
<1>3. Below(net, a, b) \subseteq Slaves  BY DEF Below
<1>4. IsFiniteSet(Below(net, a, b))  BY <1>2, <1>3, FS_Subset
<1> QED BY <1>4, FS_CardinalityType

\* The count at a slave is the number of slaves plugged in from there on, less
\* the number of slaves passed.
LEMMA CountIsBelow ==
  ASSUME NEW net, IsNetwork(net), NEW topology, SameLinks(net, topology),
         NEW i \in Slaves, i > 1, NEW count, Branched(topology, i, count),
         NEW m \in 0 .. i - 1
  PROVE  count[m] = Cardinality(Below(net, i - m, i - 1)) - m
<1>1. i \in Nat /\ NSlaves \in Nat /\ i <= NSlaves  BY SlaveListAssumption DEF Slaves
<1> DEFINE T == {n \in Nat : count[n] = Cardinality(Below(net, i - n, i - 1)) - n}
<1>2. 0 \in T
  <2>1. Below(net, i - 0, i - 1) = {}  BY <1>1 DEF Below
  <2>2. Cardinality(Below(net, i - 0, i - 1)) = 0  BY <2>1, FS_EmptySet
  <2> QED BY <2>2 DEF Branched
<1>3. ASSUME NEW n \in 1 .. i - 1, n - 1 \in T  PROVE n \in T
  <2>1. PICK k : k = i - n  OBVIOUS
  <2>2. k \in Slaves /\ k \in Nat /\ n \in Nat  BY <1>1, <2>1 DEF Slaves
  <2>3. PICK A, C, B : /\ A = Below(net, k + 1, i - 1) /\ C = Children(net, k)
                       /\ B = Below(net, k, i - 1)
    OBVIOUS
  <2>4. IsFiniteSet(A) /\ IsFiniteSet(B) /\ Cardinality(A) \in Nat  BY <2>3, BelowFinite
  <2>5. NodeRight(net, k)  BY <2>2, LinksCounted
  <2>6. IsFiniteSet(C) /\ Branches(topology[k]) = Cardinality(C) - 1
    BY <2>2, <2>3, <2>5 DEF NodeRight, SameLinks
  <2>7. Cardinality(C) \in Nat  BY <2>6, FS_CardinalityType
  <2>8. B = A \cup C /\ A \cap C = {}
    <3>1. \A c : c \in k .. i - 1 <=> c \in k + 1 .. i - 1 \/ c = k  BY <1>1, <2>1, <2>2
    <3>2. k \notin k + 1 .. i - 1  BY <2>2
    <3> QED BY <2>3, <3>1, <3>2 DEF Below, Children
  <2>9. Cardinality(B) = Cardinality(A) + Cardinality(C)
    <3>1. Cardinality(A \cup C) = Cardinality(A) + Cardinality(C) - Cardinality(A \cap C)
      BY <2>4, <2>6, FS_Union
    <3>2. Cardinality(A \cap C) = 0  BY <2>8, FS_EmptySet
    <3> QED BY <2>4, <2>7, <2>8, <3>1, <3>2
  <2>10. count[n] = count[n - 1] + Branches(topology[k])  BY <2>1 DEF Branched
  <2>11. count[n - 1] = Cardinality(A) - (n - 1)
    <3>1. i - (n - 1) = k + 1  BY <1>1, <2>1
    <3> QED BY <1>3, <2>3, <3>1
  <2>12. count[n] = Cardinality(B) - n
    BY <2>2, <2>4, <2>6, <2>7, <2>9, <2>10, <2>11
  <2> QED BY <2>1, <2>2, <2>3, <2>12
<1>4. PICK l : l = i - 1  OBVIOUS
<1>5. l \in Nat  BY <1>1, <1>4
<1>6. 0 .. l \subseteq T
  <2>1. \A n \in 1 .. l : n - 1 \in T => n \in T  BY <1>3, <1>4
  <2> HIDE DEF T
  <2> QED BY <1>2, <1>5, <2>1, UpTo
<1> QED BY <1>4, <1>6

\* Whatever the tree: the search finds the slave that i is plugged into.
LEMMA ParentFound ==
  ASSUME NEW net, IsNetwork(net), NEW topology, SameLinks(net, topology), NEW i \in Slaves
  PROVE  FindParent(topology, i) = net.up[i]
<1>1. i \in Nat /\ NSlaves \in Nat /\ 1 <= i /\ i <= NSlaves
  BY SlaveListAssumption DEF Slaves
<1>2. CASE i = 1
  <2>1. FindParent(topology, i) = Master  BY <1>2 DEF FindParent
  <2> QED BY <1>2, <2>1 DEF IsNetwork
<1>3. CASE i # 1
  <2>1. i > 1 /\ i \in Slaves \ {1}  BY <1>1, <1>3
  <2>2. PICK p : p = net.up[i]  OBVIOUS
  <2>3. p \in 1 .. i - 1  BY <2>1, <2>2 DEF IsNetwork
  <2>4. p \in Nat /\ p \in Slaves  BY <1>1, <2>3 DEF Slaves
  <2>5. PICK count : FindsBy(topology, i, count)  BY <1>1, <2>1, CountDefined
  <2>6. Branched(topology, i, count) /\ FindParent(topology, i) = Chosen(topology, i, count)
    BY <2>5 DEF FindsBy
  <2>7. ASSUME NEW j \in 1 .. i - 1
        PROVE  count[i - j] = Cardinality(Below(net, j, i - 1)) - (i - j)
    <3>1. PICK m : m = i - j  OBVIOUS
    <3>2. m \in 0 .. i - 1 /\ i - m = j  BY <1>1, <3>1
    <3>3. count[m] = Cardinality(Below(net, i - m, i - 1)) - m
      BY <2>1, <2>6, <3>2, CountIsBelow
    <3> QED BY <3>1, <3>2, <3>3
  <2>8. count[i - p] >= 0
    <3>1. PICK B : B = Below(net, p, i - 1)  OBVIOUS
    <3>2. IsFiniteSet(B) /\ Cardinality(B) \in Nat  BY <3>1, BelowFinite
    <3>3. ASSUME NEW c \in p + 1 .. i  PROVE c \in B
      <4>1. c \in Slaves /\ c # 1 /\ c \in Nat /\ p < c /\ c <= i
        BY <1>1, <2>4, <3>3 DEF Slaves
      <4>2. net.up[c] \in 1 .. c - 1  BY <4>1 DEF IsNetwork
      <4>3. net.up[c] >= p
        <5>1. CASE c = i  BY <2>2, <2>4, <5>1
        <5>2. CASE c # i
          <6>1. c < i  BY <1>1, <4>1, <5>2
          <6>2. net.up[c] >= net.up[i]  BY <2>1, <2>2, <4>1, <6>1 DEF IsNetwork
          <6> QED BY <2>2, <6>2
        <5> QED BY <5>1, <5>2
      <4>4. net.up[c] \in p .. i - 1  BY <1>1, <2>4, <4>1, <4>2, <4>3
      <4> QED BY <3>1, <4>1, <4>4 DEF Below
    <3>4. PICK a : a = p + 1  OBVIOUS
    <3>5. a \in Int /\ i \in Int /\ ~(a > i) /\ i - a + 1 = i - p  BY <1>1, <2>3, <2>4, <3>4
    <3>6. IsFiniteSet(a .. i) /\ Cardinality(a .. i) = i - p  BY <3>5, FS_Interval
    <3>7. a .. i \subseteq B  BY <3>3, <3>4
    <3>8. Cardinality(a .. i) <= Cardinality(B)  BY <3>2, <3>7, FS_Subset
    <3>9. count[i - p] = Cardinality(B) - (i - p)  BY <2>3, <2>7, <3>1
    <3> QED BY <1>1, <2>4, <3>2, <3>6, <3>8, <3>9
  <2>9. topology[p] > 1
    <3>1. i \in Children(net, p)  BY <2>2 DEF Children
    <3>2. NodeRight(net, p)  BY <2>4, LinksCounted
    <3> QED BY <2>4, <3>1, <3>2 DEF NodeRight, SameLinks
  <2>10. ASSUME NEW j \in p + 1 .. i - 1  PROVE ~(count[i - j] >= 0)
    <3>1. PICK B : B = Below(net, j, i - 1)  OBVIOUS
    <3>2. j \in Nat /\ p < j /\ j < i  BY <1>1, <2>4, <2>10
    <3>3. ASSUME NEW c \in B  PROVE c \in j + 1 .. i - 1
      <4>1. PICK u : u = net.up[c]  OBVIOUS
      <4>2. c \in Slaves /\ c \in Nat /\ u \in j .. i - 1  BY <1>1, <3>1, <4>1 DEF Below, Slaves
      <4>3. u \in Nat /\ u >= j /\ u < i  BY <1>1, <3>2, <4>2
      <4>4. c # 1
        <5>1. ASSUME c = 1  PROVE FALSE
          <6>1. u = Master  BY <4>1, <5>1 DEF IsNetwork
          <6> QED BY <2>4, <3>2, <4>3, <6>1 DEF Master
        <5> QED BY <5>1
      <4>5. u \in 1 .. c - 1  BY <4>1, <4>2, <4>4 DEF IsNetwork
      <4>6. c # i  BY <2>2, <2>4, <3>2, <4>1, <4>3
      <4>7. ~ (i < c)
        <5>1. ASSUME i < c  PROVE FALSE
          <6>1. net.up[i] >= net.up[c]
            BY <1>1, <4>1, <4>2, <4>3, <4>4, <5>1 DEF IsNetwork
          <6> QED BY <2>2, <2>4, <3>2, <4>1, <4>3, <6>1
        <5> QED BY <5>1
      <4> QED BY <1>1, <3>2, <4>2, <4>3, <4>5, <4>6, <4>7
    <3>4. PICK a, b : a = j + 1 /\ b = i - 1  OBVIOUS
    <3>5. a \in Int /\ b \in Int /\ (IF a > b THEN 0 ELSE b - a + 1) = i - 1 - j
      BY <1>1, <3>2, <3>4
    <3>6. IsFiniteSet(a .. b) /\ Cardinality(a .. b) = i - 1 - j  BY <3>5, FS_Interval
    <3>7. B \subseteq a .. b  BY <3>3, <3>4
    <3>8. Cardinality(B) <= i - 1 - j  BY <3>6, <3>7, FS_Subset
    <3>9. Cardinality(B) \in Nat  BY <3>1, BelowFinite
    <3>10. j \in 1 .. i - 1  BY <1>1, <2>4, <3>2
    <3>11. count[i - j] = Cardinality(B) - (i - j)  BY <2>7, <3>1, <3>10
    <3> QED BY <1>1, <3>2, <3>8, <3>9, <3>11
  <2>11. PICK S : S = {j \in 1 .. i - 1 : j = 1 \/ (count[i - j] >= 0 /\ topology[j] > 1)}
    OBVIOUS
  <2>12. p \in S  BY <2>3, <2>8, <2>9, <2>11
  <2>13. ASSUME NEW j \in S  PROVE p >= j
    <3>1. j \in 1 .. i - 1  BY <2>11
    <3>2. j \in Nat  BY <1>1, <3>1
    <3>3. ASSUME j > p  PROVE FALSE
      <4>1. j \in p + 1 .. i - 1 /\ j # 1  BY <1>1, <2>3, <2>4, <3>1, <3>2, <3>3
      <4> QED BY <2>10, <2>11, <4>1
    <3> QED BY <2>4, <3>2, <3>3
  <2>14. Max(S) \in S /\ \A j \in S : Max(S) >= j  BY <2>12, <2>13, Zenon DEF Max
  <2>15. Max(S) = p
    <3>1. PICK x : x = Max(S)  OBVIOUS
    <3>2. x \in S /\ x >= p  BY <2>12, <2>14, <3>1
    <3>3. p >= x /\ x \in Nat  BY <1>1, <2>11, <2>13, <3>2
    <3>4. x = p  BY <2>4, <3>2, <3>3
    <3> QED BY <3>1, <3>4
  <2> QED BY <2>2, <2>6, <2>11, <2>15 DEF Chosen
<1> QED BY <1>2, <1>3

\* The clocks do not change the tree.
HasTree(r) == "parent" \in DOMAIN r /\ "topology" \in DOMAIN r
IsTree(tree) == \A s \in DOMAIN tree : HasTree(tree[s])
SameTree(a, b) ==
  /\ DOMAIN a = DOMAIN b
  /\ \A s \in DOMAIN b : /\ HasTree(a[s]) /\ a[s].parent = b[s].parent
                         /\ a[s].topology = b[s].topology

LEMMA SameTreeItself ==
  ASSUME NEW tree, IsTree(tree)
  PROVE  SameTree(tree, tree)
BY DEF IsTree, SameTree

\* A field of one entry is set.
Sets(a, b, k) ==
  /\ DOMAIN b = DOMAIN a /\ \A s \in DOMAIN a : s # k => b[s] = a[s]
  /\ k \in DOMAIN a /\ HasTree(a[k]) =>
       HasTree(b[k]) /\ b[k].parent = a[k].parent /\ b[k].topology = a[k].topology

LEMMA TreeKept ==
  ASSUME NEW tree, NEW a, SameTree(a, tree), NEW b, NEW k, Sets(a, b, k)
  PROVE  SameTree(b, tree)
<1>1. DOMAIN b = DOMAIN tree  BY DEF SameTree, Sets
<1>2. ASSUME NEW s \in DOMAIN tree
      PROVE  HasTree(b[s]) /\ b[s].parent = tree[s].parent /\ b[s].topology = tree[s].topology
  <2>1. HasTree(a[s]) /\ a[s].parent = tree[s].parent /\ a[s].topology = tree[s].topology
        /\ s \in DOMAIN a
    BY DEF SameTree
  <2>2. CASE s = k  BY <2>1, <2>2 DEF Sets
  <2>3. CASE s # k  BY <2>1, <2>3 DEF Sets
  <2> QED BY <2>2, <2>3
<1> QED BY <1>1, <1>2 DEF SameTree

LEMMA SetsHasdc ==
  ASSUME NEW a, NEW k, NEW v
  PROVE  Sets(a, [a EXCEPT ![k].hasdc = v], k)
BY DEF Sets, HasTree
LEMMA SetsDCnext ==
  ASSUME NEW a, NEW k, NEW v
  PROVE  Sets(a, [a EXCEPT ![k].DCnext = v], k)
BY DEF Sets, HasTree
LEMMA SetsDCprevious ==
  ASSUME NEW a, NEW k, NEW v
  PROVE  Sets(a, [a EXCEPT ![k].DCprevious = v], k)
BY DEF Sets, HasTree
LEMMA SetsTimes ==
  ASSUME NEW a, NEW k, NEW v
  PROVE  Sets(a, [a EXCEPT ![k].times = v], k)
BY DEF Sets, HasTree
LEMMA SetsEntryport ==
  ASSUME NEW a, NEW k, NEW v
  PROVE  Sets(a, [a EXCEPT ![k].entryport = v], k)
BY DEF Sets, HasTree
LEMMA SetsConsumed ==
  ASSUME NEW a, NEW k, NEW v
  PROVE  Sets(a, [a EXCEPT ![k].consumedports = v], k)
BY DEF Sets, HasTree
LEMMA SetsParentport ==
  ASSUME NEW a, NEW k, NEW v
  PROVE  Sets(a, [a EXCEPT ![k].parentport = v], k)
BY DEF Sets, HasTree
LEMMA SetsPdelay ==
  ASSUME NEW a, NEW k, NEW v
  PROVE  Sets(a, [a EXCEPT ![k].pdelay = v], k)
BY DEF Sets, HasTree

LEMMA ConsumeSets ==
  ASSUME NEW a, NEW k
  PROVE  Sets(a, Consume(a, k), k)
<1>1. PICK v : v = a[k].consumedports \ {ParentPort(a[k].consumedports)}  OBVIOUS
<1>2. Consume(a, k) = [a EXCEPT ![k].consumedports = v]  BY <1>1 DEF Consume
<1>3. PICK b : b = [a EXCEPT ![k].consumedports = v]  OBVIOUS
<1>4. Sets(a, b, k)  BY <1>3, SetsConsumed
<1> QED BY <1>2, <1>3, <1>4

LEMMA ChainKeepsTree ==
  ASSUME NEW net, NEW tree, IsTree(tree), NEW prev, NEW i
  PROVE  SameTree(Chained(net, tree, prev, i), tree)
<1>1. SameTree(tree, tree)  BY SameTreeItself
<1>2. PICK active : active = tree[i].activeports  OBVIOUS
<1>3. PICK times : times = [p \in 0 .. 3 |-> IF p \in active THEN Latched(net, i, p) ELSE 0]
  OBVIOUS
<1>4. PICK port : port = EntryPort(active, times)  OBVIOUS
<1>5. PICK ports : ports = active \ {port}  OBVIOUS
<1>6. PICK l1 : l1 = [tree EXCEPT ![0].hasdc = TRUE]  OBVIOUS
<1>7. PICK l2 : l2 = [l1 EXCEPT ![prev].DCnext = i]  OBVIOUS
<1>8. PICK l3 : l3 = [l2 EXCEPT ![i].DCprevious = prev]  OBVIOUS
<1>9. PICK l4 : l4 = [l3 EXCEPT ![i].times = times]  OBVIOUS
<1>10. PICK l5 : l5 = [l4 EXCEPT ![i].entryport = port]  OBVIOUS
<1>11. PICK l6 : l6 = [l5 EXCEPT ![i].consumedports = ports]  OBVIOUS
<1>12. SameTree(l6, tree)
  <2>1. SameTree(l1, tree)  BY <1>1, <1>6, SetsHasdc, TreeKept
  <2>2. SameTree(l2, tree)  BY <1>7, <2>1, SetsDCnext, TreeKept
  <2>3. SameTree(l3, tree)  BY <1>8, <2>2, SetsDCprevious, TreeKept
  <2>4. SameTree(l4, tree)  BY <1>9, <2>3, SetsTimes, TreeKept
  <2>5. SameTree(l5, tree)  BY <1>10, <2>4, SetsEntryport, TreeKept
  <2> QED BY <1>11, <2>5, SetsConsumed, TreeKept
<1>13. l6 = [tree EXCEPT ![0].hasdc = TRUE, ![prev].DCnext = i, ![i].DCprevious = prev,
                         ![i].times = times, ![i].entryport = port,
                         ![i].consumedports = ports]
  BY <1>6, <1>7, <1>8, <1>9, <1>10, <1>11, Zenon
<1>14. l6 = Chained(net, tree, prev, i)
  BY <1>2, <1>3, <1>4, <1>5, <1>13, Zenon DEF Chained
<1> QED BY <1>12, <1>14

LEMMA DelayKeepsTree ==
  ASSUME NEW tree, NEW a, SameTree(a, tree), NEW i
  PROVE  SameTree(Delayed(a, i), tree)
<1>1. PICK child : child = DcChild(a, i)  OBVIOUS
<1>2. PICK parent : parent = a[child].parent  OBVIOUS
<1>3. PICK port : port = IF a[parent].topology = 1 THEN a[parent].entryport
                         ELSE ParentPort(a[parent].consumedports)
  OBVIOUS
<1>4. PICK b : b = Consume(a, parent)  OBVIOUS
<1>5. PICK placed : placed = [b EXCEPT ![i].parentport = port]  OBVIOUS
<1>6. PICK delay : delay = Delay(placed, i, parent, child)  OBVIOUS
<1>7. PICK c : c = [placed EXCEPT ![i].pdelay = delay]  OBVIOUS
<1>8. Delayed(a, i) = IF parent = Master THEN a ELSE c
  BY <1>1, <1>2, <1>3, <1>4, <1>5, <1>6, <1>7, Zenon DEF Delayed
<1>9. Sets(a, b, parent)  BY <1>4, ConsumeSets
<1>10. SameTree(b, tree)  BY <1>9, TreeKept
<1>11. Sets(b, placed, i)  BY <1>5, SetsParentport
<1>12. SameTree(placed, tree)  BY <1>10, <1>11, TreeKept
<1>13. Sets(placed, c, i)  BY <1>7, SetsPdelay
<1>14. SameTree(c, tree)  BY <1>12, <1>13, TreeKept
<1> QED BY <1>8, <1>14

LEMMA ClockKeepsTree ==
  ASSUME NEW net, NEW tree, IsTree(tree), NEW hold, NEW prev, NEW i
  PROVE  SameTree(ConfigDc(net, tree, hold, prev, i).list, tree)
<1>1. CASE ~ tree[i].hasdc
  <2>1. PICK plain : plain = [tree EXCEPT ![i].consumedports = tree[i].activeports]  OBVIOUS
  <2>2. PICK split : split = IF tree[i].parent # Master /\ tree[tree[i].parent].topology > 2
                             THEN tree[i].parent ELSE hold
    OBVIOUS
  <2>3. SameTree(plain, tree)
    <3>1. PICK v : v = tree[i].activeports  OBVIOUS
    <3>2. plain = [tree EXCEPT ![i].consumedports = v]  BY <2>1, <3>1
    <3>3. Sets(tree, plain, i)  BY <3>2, SetsConsumed
    <3> QED BY <3>3, SameTreeItself, TreeKept
  <2>4. PICK l : l = Consume(plain, split)  OBVIOUS
  <2>5. Sets(plain, l, split)  BY <2>4, ConsumeSets
  <2>6. SameTree(l, tree)  BY <2>3, <2>5, TreeKept
  <2>7. PICK r : r = PlainSlave(tree, hold, prev, i)  OBVIOUS
  <2>8. r.list = plain \/ r.list = l  BY <2>1, <2>2, <2>4, <2>7 DEF PlainSlave
  <2>9. SameTree(r.list, tree)  BY <2>3, <2>6, <2>8
  <2> QED BY <1>1, <2>7, <2>9 DEF ConfigDc
<1>2. CASE tree[i].hasdc
  <2>1. PICK a : a = Chained(net, tree, prev, i)  OBVIOUS
  <2>2. SameTree(a, tree)  BY <2>1, ChainKeepsTree
  <2>3. PICK b : b = Delayed(a, i)  OBVIOUS
  <2>4. SameTree(b, tree)  BY <2>2, <2>3, DelayKeepsTree
  <2>5. ConfigDc(net, tree, hold, prev, i).list = b
    BY <1>2, <2>1, <2>3 DEF ConfigDc, DcSlave
  <2> QED BY <2>4, <2>5
<1> QED BY <1>1, <1>2

-----------------------------------------------------------------------------
(* The tree that the configuration finds.                                   *)

\* A list has the network's slaves with their open ports.
HasLinks(tree, net) ==
  /\ DOMAIN tree = {Master} \union Slaves
  /\ IsTree(tree)
  /\ \A s \in Slaves : tree[s].topology = Cardinality(OpenPorts(net, s))

TreeInv ==
  /\ setup \in Setups
  /\ slave \in Slaves
  /\ HasLinks(slavelist, setup.net)
ParentInv == TreeInv /\ ParentsRight

LEMMA LinksStay ==
  ASSUME NEW a, NEW net, HasLinks(a, net), NEW b, SameTree(b, a)
  PROVE  HasLinks(b, net) /\ \A s \in Slaves : b[s].parent = a[s].parent
<1>1. \A s \in Slaves : s \in DOMAIN a  BY DEF HasLinks
<1> QED BY <1>1 DEF HasLinks, SameTree, IsTree

LEMMA ParentInvInit ==
  ASSUME InitConfiguration
  PROVE  ParentInv
<1>1. setup \in Setups /\ slave = 1 /\ phase = "init"  BY DEF InitConfiguration
<1>2. 1 \in Slaves  BY SlaveListAssumption DEF Slaves
<1>3. HasLinks(slavelist, setup.net)
  <2>1. slavelist = [s \in {Master} \union Slaves |->
                       IF s = Master THEN InTree({}, FALSE)
                       ELSE InTree(OpenPorts(setup.net, s), setup.net.dc[s])]
    BY DEF InitConfiguration
  <2>2. \A s \in Slaves : s # Master  BY SlaveListAssumption DEF Slaves, Master
  <2>3. DOMAIN slavelist = {Master} \union Slaves  BY <2>1
  <2>4. ASSUME NEW s \in Slaves
        PROVE  HasTree(slavelist[s]) /\ slavelist[s].topology = Cardinality(OpenPorts(setup.net, s))
    <3>1. PICK open, dc : open = OpenPorts(setup.net, s) /\ dc = setup.net.dc[s]  OBVIOUS
    <3>2. slavelist[s] = InTree(open, dc)  BY <2>1, <2>2, <3>1
    <3> QED BY <3>1, <3>2 DEF InTree, HasTree
  <2>5. HasTree(slavelist[Master])
    <3>1. slavelist[Master] = InTree({}, FALSE)  BY <2>1
    <3> QED BY <3>1 DEF InTree, HasTree
  <2> QED BY <2>3, <2>4, <2>5 DEF HasLinks, IsTree
<1>4. ParentsRight
  <2>1. \A s \in Slaves : ~ (1 > s)  BY SlaveListAssumption DEF Slaves
  <2> QED BY <1>1, <2>1 DEF ParentsRight, Configured
<1> QED BY <1>1, <1>2, <1>3, <1>4 DEF ParentInv, TreeInv

LEMMA ParentInvConfigInit ==
  ASSUME ParentInv, ConfigInit
  PROVE  ParentInv'
<1>1. PICK net : net = setup.net  OBVIOUS
<1>2. IsNetwork(net) /\ setup \in Setups /\ slave \in Slaves /\ HasLinks(slavelist, net)
  BY <1>1, ConfigurationAssumption DEF ParentInv, TreeInv
<1>3. PICK topology : topology = [k \in Slaves |-> slavelist[k].topology]  OBVIOUS
<1>4. SameLinks(net, topology)  BY <1>2, <1>3 DEF SameLinks, HasLinks
<1>5. FindParent(topology, slave) = net.up[slave]  BY <1>2, <1>4, ParentFound
<1>6. PICK up : up = net.up[slave]  OBVIOUS
<1>7. slavelist' = [slavelist EXCEPT ![slave].parent = up]
  BY <1>3, <1>5, <1>6 DEF ConfigInit
<1>8. setup' = setup /\ phase = "init"  BY DEF ConfigInit
<1>9. slave \in DOMAIN slavelist /\ HasTree(slavelist[slave])
  BY <1>2 DEF HasLinks, IsTree
<1>10. DOMAIN slavelist' = DOMAIN slavelist /\ \A s \in DOMAIN slavelist : s # slave =>
         slavelist'[s] = slavelist[s]
  BY <1>7
<1>11. slavelist'[slave] = [slavelist[slave] EXCEPT !.parent = up]  BY <1>7, <1>9
<1>12. slavelist'[slave].parent = up /\ HasTree(slavelist'[slave])
       /\ slavelist'[slave].topology = slavelist[slave].topology
  BY <1>9, <1>11 DEF HasTree
<1>13. HasLinks(slavelist', net)
  BY <1>2, <1>10, <1>12 DEF HasLinks, IsTree
<1>14. Continue(phase' = (IF left = <<>> THEN "dc" ELSE "coe") /\ UNCHANGED left)
  BY DEF ConfigInit
<1>15. NSlaves \in Nat \ {0} /\ slave \in 1 .. NSlaves  BY <1>2, SlaveListAssumption DEF Slaves
<1>16. slave' \in Slaves /\ \A s \in Slaves : Configured(s)' => slave >= s
  <2>1. CASE slave < NSlaves
    <3>1. slave' = slave + 1 /\ phase' = "init"  BY <1>8, <1>14, <2>1 DEF Continue
    <3> QED BY <1>15, <2>1, <3>1 DEF Slaves, Configured
  <2>2. CASE ~ (slave < NSlaves)
    <3>1. slave' = 1  BY <1>14, <2>2 DEF Continue
    <3> QED BY <1>15, <2>2, <3>1 DEF Slaves
  <2> QED BY <2>1, <2>2
<1>17. ASSUME NEW s \in Slaves, Configured(s)'  PROVE slavelist'[s].parent = net.up[s]
  <2>1. CASE s = slave  BY <1>6, <1>12, <2>1
  <2>2. CASE s # slave
    <3>1. slave > s  BY <1>15, <1>16, <1>17, <2>2 DEF Slaves
    <3>2. slavelist[s].parent = net.up[s]
      BY <1>1, <3>1 DEF ParentInv, ParentsRight, Configured
    <3>3. s \in DOMAIN slavelist  BY <1>2 DEF HasLinks
    <3> QED BY <1>10, <2>2, <3>2, <3>3
  <2> QED BY <2>1, <2>2
<1>18. setup'.net = net  BY <1>1, <1>8
<1>19. ParentsRight'  BY <1>17, <1>18 DEF ParentsRight
<1>20. TreeInv'  BY <1>2, <1>8, <1>13, <1>16, <1>18 DEF TreeInv
<1> QED BY <1>19, <1>20 DEF ParentInv

\* A later round: the tree stays and the configuration has been through.
LEMMA ParentInvLater ==
  ASSUME ParentInv, setup' = setup, phase # "init", slave' \in Slaves,
         SameTree(slavelist', slavelist)
  PROVE  ParentInv'
<1>1. PICK net : net = setup.net /\ net = setup'.net  OBVIOUS
<1>2. HasLinks(slavelist, net) /\ setup \in Setups  BY <1>1 DEF ParentInv, TreeInv
<1>3. HasLinks(slavelist', net) /\ \A s \in Slaves : slavelist'[s].parent = slavelist[s].parent
  <2>1. PICK a, b : a = slavelist /\ b = slavelist'  OBVIOUS
  <2>2. HasLinks(a, net) /\ SameTree(b, a)  BY <1>2, <2>1
  <2>3. HasLinks(b, net) /\ \A s \in Slaves : b[s].parent = a[s].parent  BY <2>2, LinksStay
  <2> QED BY <2>1, <2>3
<1>4. \A s \in Slaves : slavelist[s].parent = net.up[s]
  BY <1>1 DEF ParentInv, ParentsRight, Configured
<1>5. \A s \in Slaves : slavelist'[s].parent = net.up[s]  BY <1>3, <1>4
<1>6. ParentsRight'  BY <1>1, <1>5 DEF ParentsRight
<1>7. TreeInv'  BY <1>1, <1>2, <1>3 DEF TreeInv
<1> QED BY <1>6, <1>7 DEF ParentInv

LEMMA ParentInvStep ==
  ASSUME ParentInv, [NextConfiguration]_allVars
  PROVE  ParentInv'
<1>1. IsTree(slavelist) /\ slave \in Slaves  BY DEF ParentInv, TreeInv, HasLinks
<1>2. SameTree(slavelist, slavelist)  BY <1>1, SameTreeItself
<1>3. CASE ConfigInit  BY <1>3, ParentInvConfigInit
<1>4. CASE \E answers \in SUBSET Ways(setup.units[slave]) : FindMapping(answers)
  <2>1. PICK answers : FindMapping(answers)  BY <1>4
  <2>2. phase = "coe" /\ setup' = setup /\ slavelist' = slavelist  BY <2>1 DEF FindMapping
  <2>3. Continue(phase' = "sii" /\ UNCHANGED left)  BY <2>1 DEF FindMapping
  <2>4. slave' \in Slaves
    BY <1>1, <2>3, SlaveListAssumption DEF Continue, Slaves
  <2>5. SameTree(slavelist', slavelist)  BY <1>2, <2>2
  <2> QED BY <2>2, <2>4, <2>5, ParentInvLater
<1>5. CASE MapSlave
  <2>1. phase = "sii" /\ setup' = setup /\ slavelist' = slavelist  BY <1>5 DEF MapSlave
  <2>2. slave' \in Slaves
    <3>1. slave' = IF slave < NSlaves THEN slave + 1 ELSE 1  BY <1>5 DEF MapSlave, Continue
    <3> QED BY <1>1, <3>1, SlaveListAssumption DEF Slaves
  <2>3. SameTree(slavelist', slavelist)  BY <1>2, <2>1
  <2> QED BY <2>1, <2>2, <2>3, ParentInvLater
<1>6. CASE ConfigClock
  <2>1. PICK net, tree, hold, prev, i : /\ net = setup.net /\ tree = slavelist
                                       /\ hold = parenthold /\ prev = prevDCslave /\ i = slave
    OBVIOUS
  <2>2. slavelist' = ConfigDc(net, tree, hold, prev, i).list  BY <1>6, <2>1 DEF ConfigClock
  <2>3. IsTree(tree)  BY <1>1, <2>1
  <2>4. SameTree(ConfigDc(net, tree, hold, prev, i).list, tree)  BY <2>3, ClockKeepsTree
  <2>5. SameTree(slavelist', slavelist)  BY <2>1, <2>2, <2>4
  <2>6. phase = "dc" /\ setup' = setup  BY <1>6 DEF ConfigClock
  <2>7. slave' \in Slaves
    <3>1. slave' = IF slave < NSlaves THEN slave + 1 ELSE 1  BY <1>6 DEF ConfigClock, Continue
    <3> QED BY <1>1, <3>1, SlaveListAssumption DEF Slaves
  <2> QED BY <2>5, <2>6, <2>7, ParentInvLater
<1>7. CASE UseEeprom \/ UNCHANGED allVars
  <2>1. UNCHANGED configVars  BY <1>7 DEF UseEeprom, allVars
  <2>2. UNCHANGED <<setup, slave, slavelist, phase>>
    BY <2>1 DEF configVars, found, loop
  <2> QED BY <2>2 DEF ParentInv, TreeInv, ParentsRight, Configured
<1> QED BY <1>3, <1>4, <1>5, <1>6, <1>7 DEF NextConfiguration

\* Whatever the tree, the parent that ecx_config_init finds for a slave from the
\* numbers of open ports is the slave it is plugged into, and the measuring of
\* the delays leaves it so.
THEOREM ParentsRightAlways == ConfigurationSpec => []ParentsRight
<1>1. InitConfiguration => ParentInv  BY ParentInvInit
<1>2. ParentInv /\ [NextConfiguration]_allVars => ParentInv'  BY ParentInvStep
<1>3. ParentInv => ParentsRight  BY DEF ParentInv
<1> QED BY <1>1, <1>2, <1>3, PTL DEF ConfigurationSpec
=============================================================================
