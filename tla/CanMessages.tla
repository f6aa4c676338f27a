---------------------------- MODULE CanMessages ----------------------------
(***************************************************************************)
(* The MCP_CAN library under the Arduino program (mcp_can.cpp): messages   *)
(* go out by one of three transmit buffers of the MCP2515 controller and   *)
(* come in by one of two receive buffers.  A call is several accesses to   *)
(* the controller, which sends and receives in between.                    *)
(*                                                                         *)
(* The controller and the bus are external.  A message is its identifier,  *)
(* of 11 or 29 bits, and a number that stands for its data; what is in a   *)
(* buffer are the four registers of the identifier.  Which messages a      *)
(* filter lets pass is the controller's business: here, all.               *)
(***************************************************************************)
EXTENDS Integers, Sequences, FiniteSets

CONSTANTS
  Identifiers,   \* identifiers [id, ext] of masks and filters; messages take
                 \* them in turn
  Retries,       \* TIMEOUTVALUE
  nReservedTx,   \* transmit buffers kept for calls that name them
  RateKnown,     \* what configRate may find: subset of BOOLEAN
  Fresh,         \* a saved status is not used after another call to send
  ModesLate,     \* the controller changes its mode when nothing is pending
  MaxSends, MaxArrivals, MaxSetups  \* bounds: calls to send, messages from the
                                    \* bus, calls that set the controller up

CanMessagesParameters ==
  /\ \A k \in DOMAIN Identifiers :
       Identifiers[k].id \in 0 .. IF Identifiers[k].ext THEN 2^29 - 1 ELSE 2^11 - 1
  /\ Retries \in Nat \ {0} /\ nReservedTx \in 0 .. 2
  /\ RateKnown \subseteq BOOLEAN /\ Fresh \in BOOLEAN /\ ModesLate \in BOOLEAN

TxBuffers == 0 .. 2
Empty == [n |-> 0]

\* The identifier of message number n, from here or to here.
Nth(n) == Identifiers[((n - 1) % Len(Identifiers)) + 1]

VARIABLES
  call, at, tries, buf,   \* the call, its next access and its locals
  ext_flg,                \* field of MCP_CAN: the last message read was extended
  status,                 \* application: transmit flags it got from readRxTxStatus
  sends, setups,          \* calls so far
  mode, filters,          \* controller: its mode, the mask and the filter
  txb, pending, txif,     \* transmit buffers, TXREQ and TXnIF of each
  rxb,                    \* receive buffers
  sent, arrived,          \* messages on the bus from here, number of those to here
  accepted, asked, read   \* messages that calls took over, masks and filters
                          \* they set, messages they read

driver == <<call, at, tries, buf, ext_flg, status>>
transmit == <<txb, pending, txif>>
modes == <<mode, filters>>
counters == <<sends, setups>>
outcome == <<accepted, asked, read>>
canVars == <<driver, counters, modes, transmit, rxb, sent, arrived, outcome>>

NoCall == [op |-> "none"]
NoFilters == [o \in {} |-> 0]

CanInit ==
  /\ call = NoCall /\ at = "idle" /\ tries = 0 /\ buf = 0
  /\ ext_flg = FALSE /\ status = {}
  /\ sends = 0 /\ setups = 0
  /\ mode = "config" /\ filters = NoFilters
  /\ txb = [i \in TxBuffers |-> Empty] /\ pending = {} /\ txif = {}
  /\ rxb = [i \in 0 .. 1 |-> Empty]
  /\ sent = {} /\ arrived = 0
  /\ accepted = {} /\ asked = NoFilters /\ read = {}

-----------------------------------------------------------------------------
(* Identifiers and registers.                                               *)

\* mcp2515_id_to_buf: a byte is the result modulo 256.
IdToBuf(ext, id) ==
  LET low == id % 2^16
      high == id \div 2^16
  IN  IF ext
      THEN [SIDH |-> (high \div 32) % 256,
            SIDL |-> (high % 4) + ((high \div 4) % 8) * 32 + 8,
            EID8 |-> low \div 256, EID0 |-> low % 256]
      ELSE [SIDH |-> (low \div 8) % 256, SIDL |-> (low % 8) * 32, EID8 |-> 0, EID0 |-> 0]

Extended(b) == (b.SIDL \div 8) % 2 = 1
IdOf(b) ==
  LET standard == b.SIDH * 8 + b.SIDL \div 32
  IN  IF Extended(b) THEN ((standard * 4 + (b.SIDL % 4)) * 256 + b.EID8) * 256 + b.EID0
      ELSE standard

\* On the bus: the identifier's first eleven bits, and the other eighteen.
OnBus(m) ==
  IF m.ext THEN [first |-> m.id \div 2^18, rest |-> m.id % 2^18, ext |-> TRUE]
  ELSE [first |-> m.id, rest |-> 0, ext |-> FALSE]
Wire(b) ==
  [first |-> b.SIDH * 8 + b.SIDL \div 32, ext |-> Extended(b),
   rest |-> IF Extended(b) THEN (b.SIDL % 4) * 2^16 + b.EID8 * 2^8 + b.EID0 ELSE 0]
Registers(m) ==
  LET w == OnBus(m)
  IN  [SIDH |-> w.first \div 8, EID8 |-> (w.rest \div 2^8) % 2^8, EID0 |-> w.rest % 2^8,
       SIDL |-> (w.first % 8) * 32 + (IF m.ext THEN 8 ELSE 0) + w.rest \div 2^16]

-----------------------------------------------------------------------------
(* Setting up.                                                              *)

Return == at' = "idle" /\ call' = NoCall

\* mcp2515_setCANCTRL_Mode: it reads back the mode it asked for, not the one
\* the controller is in, and so never fails.
SetMode(newmode) == mode' = IF ModesLate /\ pending # {} THEN mode ELSE newmode

\* mcp2515_init: reset, configuration mode, bit rate, buffers, normal mode.  An
\* unknown rate ends it in configuration mode, and without an error.
begin ==
  /\ at = "idle" /\ setups = 0 /\ setups' = 1
  /\ \E known \in RateKnown : mode' = IF known THEN "normal" ELSE "config"
  /\ Return
  /\ UNCHANGED <<tries, buf, ext_flg, status, sends, filters, transmit, rxb, sent, arrived, outcome>>

\* init_Mask and init_Filt: configuration mode, the registers, normal mode.
Configure(op) ==
  /\ at = "idle" /\ setups \in 1 .. MaxSetups - 1 /\ setups' = setups + 1
  /\ \E k \in DOMAIN Identifiers : call' = [op |-> op, m |-> Identifiers[k]]
  /\ at' = "registers" /\ SetMode("config")
  /\ UNCHANGED <<tries, buf, ext_flg, status, sends, filters, transmit, rxb, sent, arrived, outcome>>
init_Mask == Configure("mask")
init_Filt == Configure("filter")

With(f, x, value) == [y \in DOMAIN f \union {x} |-> IF y = x THEN value ELSE f[y]]

\* The controller lets them be written in configuration mode only.
WriteId ==
  /\ at = "registers" /\ at' = "back"
  /\ filters' = IF mode = "config" THEN With(filters, call.op, IdToBuf(call.m.ext, call.m.id))
                ELSE filters
  /\ UNCHANGED <<call, tries, buf, ext_flg, status, counters, mode, transmit, rxb, sent, arrived, outcome>>

BackToNormal ==
  /\ at = "back" /\ Return /\ SetMode("normal")
  /\ asked' = With(asked, call.op, call.m)
  /\ UNCHANGED <<tries, buf, ext_flg, status, counters, filters, transmit, rxb, sent, arrived, accepted, read>>

-----------------------------------------------------------------------------
(* Sending.                                                                 *)

Least(S) == CHOOSE i \in S : \A j \in S : i <= j

\* A call to send the next message, with what else it is given.
Send(op, first, more) ==
  /\ at = "idle" /\ setups > 0 /\ sends < MaxSends /\ sends' = sends + 1
  /\ call' = [op |-> op, n |-> sends + 1, m |-> Nth(sends + 1), with |-> more]
  /\ at' = first /\ tries' = 0
  /\ UNCHANGED <<buf, setups, modes, transmit, rxb, sent, arrived, outcome>>

\* The saved status is for the calls that take a buffer from it.
Saved == status' = IF Fresh THEN {} ELSE status

\* sendMsg, with or without wait_sent, enters the identifier in can_id and
\* ext_flg as well, like a read.
sendMsg ==
  /\ \E wait_sent \in BOOLEAN : Send("sendMsg", "find", wait_sent)
  /\ Saved
  /\ ext_flg' = call'.m.ext
\* trySendMsgBuf: any free buffer, or the one it is given.
trySendMsgBuf ==
  /\ \/ Send("trySendMsgBuf", "find", << >>)
     \/ \E i \in TxBuffers : Send("trySendMsgBuf", "named", i)
  /\ Saved /\ UNCHANGED ext_flg
\* checkClearTxStatus takes a buffer from the saved status, sendMsgBuf uses it.
sendMsgBuf ==
  /\ \E i \in status : Send("sendMsgBuf", "flagged", i) /\ status' = status \ {i}
  /\ UNCHANGED ext_flg

\* readRxTxStatus: the buffers whose message was sent.
readRxTxStatus ==
  /\ at = "idle" /\ status # txif /\ status' = txif
  /\ UNCHANGED <<call, at, tries, buf, ext_flg, counters, modes, transmit, rxb, sent, arrived, outcome>>

\* A buffer is taken: its flag is cleared, the message goes in next.
Take(i) ==
  /\ buf' = i /\ txif' = txif \ {i} /\ at' = "load"
  /\ UNCHANGED <<call>>

\* Wrong: it is asked only whether all buffers are pending.
Available_Wrong == IF pending = TxBuffers THEN {} ELSE 0 .. 2 - nReservedTx
Available == {i \in 0 .. 2 - nReservedTx : i \notin pending}

\* mcp2515_getNextFreeTXBuf, in sendMsg for Retries times.  A buffer found at
\* the very last time is not used.
FindFree ==
  /\ at = "find" /\ tries' = tries + 1
  /\ LET last == IF call.op = "sendMsg" THEN tries + 1 = Retries ELSE FALSE
         once == call.op = "trySendMsgBuf"
     IN  IF Available # {} /\ ~last THEN Take(Least(Available))
         ELSE /\ txif' = IF Available # {} THEN txif \ {Least(Available)} ELSE txif
              /\ UNCHANGED buf
              /\ IF last \/ once THEN Return ELSE UNCHANGED <<call, at>>
  /\ UNCHANGED <<ext_flg, status, counters, modes, txb, pending, rxb, sent, arrived, outcome>>

\* mcp2515_isTXBufFree
TakeNamed ==
  /\ at = "named"
  /\ IF call.with \in pending THEN Return /\ UNCHANGED <<buf, txif>>
     ELSE Take(call.with)
  /\ UNCHANGED <<tries, ext_flg, status, counters, modes, txb, pending, rxb, sent, arrived, outcome>>

\* The status said that the buffer was free.
TakeFlagged ==
  /\ at = "flagged" /\ Take(call.with)
  /\ UNCHANGED <<tries, ext_flg, status, counters, modes, txb, pending, rxb, sent, arrived, outcome>>

\* mcp2515_write_canMsg: the registers and the data, then the request to send.
Load ==
  /\ at = "load" /\ at' = "request"
  /\ txb' = [txb EXCEPT ![buf] = [n |-> call.n, id |-> IdToBuf(call.m.ext, call.m.id)]]
  /\ UNCHANGED <<call, tries, buf, ext_flg, status, counters, modes, pending, txif, rxb, sent, arrived, outcome>>

StartTransmit ==
  /\ at = "request" /\ pending' = pending \union {buf}
  /\ accepted' = accepted \union {call.n}
  /\ tries' = 0
  /\ IF call.op = "sendMsg" /\ call.with THEN at' = "wait" /\ UNCHANGED <<call>> ELSE Return
  /\ UNCHANGED <<buf, ext_flg, status, counters, modes, txb, txif, rxb, sent, arrived, asked, read>>

\* With wait_sent sendMsg waits until the message is sent, or for Retries times.
WaitSent ==
  /\ at = "wait" /\ tries' = tries + 1
  /\ IF tries + 1 = Retries THEN Return
     ELSE IF buf \notin pending THEN Return ELSE UNCHANGED <<call, at>>
  /\ UNCHANGED <<buf, ext_flg, status, counters, modes, transmit, rxb, sent, arrived, outcome>>

-----------------------------------------------------------------------------
(* Receiving.                                                               *)

\* readMsgBuf: the status is read, then a buffer that it says is full, number
\* 0 before 1.  That empties the buffer.  ext_flg is set, but never cleared.
readMsgBuf ==
  /\ at = "idle" /\ setups > 0
  /\ \E i \in 0 .. 1 : rxb[i] # Empty
  /\ buf' = IF rxb[0] # Empty THEN 0 ELSE 1
  /\ at' = "take" /\ call' = [op |-> "readMsgBuf"]
  /\ UNCHANGED <<tries, ext_flg, status, counters, modes, transmit, rxb, sent, arrived, outcome>>

ReadCanMsg ==
  /\ at = "take" /\ Return
  /\ LET full == rxb[buf]
     IN  /\ ext_flg' = (ext_flg \/ Extended(full.id))
         /\ read' = read \union {[n |-> full.n, id |-> IdOf(full.id), ext |-> ext_flg']}
  /\ rxb' = [rxb EXCEPT ![buf] = Empty]
  /\ UNCHANGED <<tries, buf, status, counters, modes, transmit, sent, arrived, accepted, asked>>

-----------------------------------------------------------------------------
(* The controller and the bus (external).                                   *)

Transmit(i) ==
  /\ mode = "normal" /\ i \in pending
  /\ sent' = sent \union {[n |-> txb[i].n, m |-> Wire(txb[i].id)]}
  /\ txb' = [txb EXCEPT ![i] = Empty] /\ pending' = pending \ {i} /\ txif' = txif \union {i}
  /\ UNCHANGED <<driver, counters, modes, rxb, arrived, outcome>>

\* Buffer 0, or buffer 1 while that is full; else the message is lost.
Arrive ==
  /\ mode = "normal" /\ arrived < MaxArrivals
  /\ \E i \in 0 .. 1 : rxb[i] = Empty
  /\ arrived' = arrived + 1
  /\ rxb' = [rxb EXCEPT ![IF rxb[0] = Empty THEN 0 ELSE 1] =
               [n |-> arrived + 1, id |-> Registers(Nth(arrived + 1))]]
  /\ UNCHANGED <<driver, counters, modes, transmit, sent, outcome>>

CanNext ==
  \/ begin \/ init_Mask \/ init_Filt \/ WriteId \/ BackToNormal
  \/ sendMsg \/ trySendMsgBuf \/ sendMsgBuf \/ readRxTxStatus
  \/ FindFree \/ TakeNamed \/ TakeFlagged \/ Load \/ StartTransmit \/ WaitSent
  \/ readMsgBuf \/ ReadCanMsg
  \/ \E i \in TxBuffers : Transmit(i)
  \/ Arrive

-----------------------------------------------------------------------------
(* Properties.                                                              *)

\* A message that a call took over is sent with the identifier the call was
\* given, once, and until then it is in a buffer of its own: no other call
\* writes over it.  A message that was refused is never sent.
TakenOverIsSent ==
  LET waiting == {[n |-> txb[i].n, m |-> Wire(txb[i].id)] : i \in pending}
  IN  /\ sent \union waiting = {[n |-> k, m |-> OnBus(Nth(k))] : k \in accepted}
      /\ sent \intersect waiting = {} /\ Cardinality(waiting) = Cardinality(pending)

\* Messages that were read are those that arrived, each read once, with their
\* identifiers.  (An extended one is known as such, but one that is not may be
\* taken for extended: ext_flg stays set.)
ReadIsArrived ==
  LET readable == {i \in 0 .. 1 : rxb[i] # Empty}
  IN  /\ \A k \in read : k.id = Nth(k.n).id /\ (Nth(k.n).ext => k.ext)
      /\ {k.n : k \in read} \union {rxb[i].n : i \in readable} = 1 .. arrived
      /\ Cardinality(read) + Cardinality(readable) = arrived

\* A mask or filter whose setting was reported holds the identifier asked for,
\* and a controller that was set up is back on the bus.
SettingsHold ==
  /\ \A o \in DOMAIN asked : o \in DOMAIN filters /\ Wire(filters[o]) = OnBus(asked[o])
  /\ at = "idle" /\ setups > 0 => mode = "normal"

MessagesArrive == TakenOverIsSent /\ ReadIsArrived /\ SettingsHold
=============================================================================
