---------------------------- MODULE ForceTorque ----------------------------
(***************************************************************************)
(* The Arduino program as a whole: how samples move through it, which does *)
(* not depend on their values (FtAcquisition), what becomes of the bytes   *)
(* of one reading (FtConvert), and its two drivers with what the program   *)
(* leaves unused of them: the CAN library (CanMessages) and the EtherCAT   *)
(* shield (EasyCat).  A behaviour shows one of the four; the others rest.  *)
(***************************************************************************)
EXTENDS FtAcquisition

CONSTANTS
  NumBytes, LowBytes, Factor,                              \* FtConvert
  Identifiers, Retries, nReservedTx, RateKnown, Fresh, ModesLate,
  MaxSends, MaxArrivals, MaxSetups,                        \* CanMessages
  Sizes, Fifo, Tout, MaxImages                             \* EasyCat

ASSUME ConvertAssumption ==
  NumBytes \in Nat \ {0} /\ LowBytes \subseteq 0 .. 255 /\ Factor \in Nat \ {0}

VARIABLES
  part,                          \* what the behaviour shows
  step, buf, count, published,   \* the reading
  \* the CAN library and its controller
  call, at, canTries, canBuf, ext_flg, status, sends, setups, mode, filters,
  txb, pending, txif, rxb, sent, arrived, accepted, asked, read,
  \* the shield's library and its controller
  sizeout, sizein, place, looks, lookfor, inits, initialised, WatchDog, Status,
  outputs, inputs, groups, awake, csr, rd, wr, out, image, wdog, al, was

reading == <<step, buf, count, published>>
messages == <<call, at, canTries, canBuf, ext_flg, status, sends, setups, mode, filters,
              txb, pending, txif, rxb, sent, arrived, accepted, asked, read>>
exchange == <<sizeout, sizein, place, looks, lookfor, inits, initialised, WatchDog, Status,
              outputs, inputs, groups, awake, csr, rd, wr, out, image, wdog, al, was>>

Conversion == INSTANCE FtConvert WITH pc <- step
Can == INSTANCE CanMessages WITH tries <- canTries, buf <- canBuf
Shield == INSTANCE EasyCat WITH pc <- place, tries <- looks, i <- groups,
                                BufferOut <- outputs, BufferIn <- inputs

ASSUME DriverAssumption == Can!CanMessagesParameters /\ Shield!EasyCatParameters

InitBoth ==
  /\ part \in {"samples", "values", "messages", "shield"}
  /\ Init
  /\ IF part = "values" THEN Conversion!Init
     ELSE step = "none" /\ buf = <<>> /\ count = 0 /\ published = 0
  /\ Can!CanInit /\ Shield!ShieldInit
  /\ part = "shield" \/ <<sizeout, sizein>> = CHOOSE s \in Sizes \X Sizes : TRUE

Show(A) == part = "samples" /\ A /\ UNCHANGED <<part, reading, messages, exchange>>
Convert ==
  /\ part = "values"
  /\ Conversion!Convert \/ Conversion!sendToMaster
  /\ UNCHANGED <<part, vars, messages, exchange>>
Message ==
  /\ part = "messages" /\ Can!CanNext
  /\ UNCHANGED <<part, vars, reading, exchange>>
Exchange ==
  /\ part = "shield" /\ Shield!ShieldNext
  /\ UNCHANGED <<part, vars, reading, messages>>

NextBoth == Show(Next) \/ Convert \/ Message \/ Exchange

BridgeSpec ==
  /\ InitBoth /\ [][NextBoth]_<<part, reading, messages, exchange, vars>>
  /\ WF_vars(Show(Cycle)) /\ WF_vars(Show(Bus)) /\ WF_vars(Show(Sensor))

-----------------------------------------------------------------------------
\* Values and messages arrive: the strings yield the two's complement number
\* of the bytes (FtConvert); a CAN message taken over is sent, and one that
\* came is read, with its identifier, and settings hold (CanMessages); the
\* shield passes images whole, and zeros if it must (EasyCat).
ValuesArrive ==
  /\ part = "values" => Conversion!ConvertsExactly
  /\ part = "messages" => Can!MessagesArrive
  /\ part = "shield" => Shield!ShieldExchanges

\* A force that fits in an int8_t arrives as such: FtConvert.
SmallForceArrives == part = "values" => Conversion!SmallForceArrives
=============================================================================
