--------------------------- MODULE MailboxService ---------------------------
(***************************************************************************)
(* What the services of a slave's mailbox have in common: calls of SDO,    *)
(* SoE and EoE functions, one after the other, that send requests and wait *)
(* for answers.  The mailbox calls they make keep the order of mails       *)
(* (Mailbox): sending succeeds, fails, or fails although the slave got the *)
(* mail; receiving gets the oldest answer in the slave's mailbox or times  *)
(* out, and the answer stays for a later call.                             *)
(*                                                                         *)
(* The slave is external: it serves a request when it gets it.  A byte of  *)
(* data is the number of its writer and its position.                      *)
(***************************************************************************)
EXTENDS Integers, Sequences, SequencesExt

CONSTANTS
  Indexes,     \* objects of the slave's dictionary
  Idns,        \* IDNs of the slave's drive
  Sizes,       \* sizes of data written, and of parameter buffers
  MailData,    \* what fits in a mail behind the header of an SDO request
  MaxCalls,    \* bound: calls, and frames of the slave
  MaxFaults,   \* bound: mailbox calls that fail while the slave runs
  SlaveStops   \* may the slave stop answering for good?

\* What is assumed of them (the module that takes them states it).
ServiceParameters ==
  /\ Sizes \subseteq Nat
  /\ MailData \in Nat \ {0}
  /\ MaxCalls \in Nat
  /\ MaxFaults \in Nat
  /\ SlaveStops \in BOOLEAN

VARIABLES
  hook,                          \* is a hook for fragments of EoE defined?
  calls, job,                    \* calls made, arguments of the present one
  at, stage,                     \* place in the call: first request or segments
  MbxOut,                        \* the request
  bytes, rest,                   \* bytes read, bytes still to write
  toggle, result,                \* toggle of the next segment, what was returned
  clean,                         \* the slave holds nothing of earlier calls
  objects, server, box,          \* slave: data, transfer, mails not yet read
  running, faults, mishaps       \* failed mailbox calls in all and in this call

slaveState == <<objects, server, box>>
locals     == <<hook, job, stage, MbxOut, bytes, rest, toggle>>
serviceVars ==
  <<calls, locals, at, result, clean, slaveState, running, faults, mishaps>>

Octets(writer, size) == [i \in 1 .. size |-> <<writer, i>>]
Take(data, n) == SubSeq(data, 1, IF n < Len(data) THEN n ELSE Len(data))
Skip(data, n) == SubSeq(data, n + 1, Len(data))

NoTransfer == [mode |-> "none"]
Stored     == Indexes \cup Idns \cup {"ip", "frame", "list", "rxpdo", "txpdo"}

ServiceInit ==
  /\ hook \in BOOLEAN
  /\ calls = 0
  /\ job = [kind |-> "none"]
  /\ at = "idle"
  /\ stage = "first"
  /\ MbxOut = [cmd |-> "none"]
  /\ bytes = <<>>
  /\ rest = <<>>
  /\ toggle = FALSE
  /\ result = "none"
  /\ clean = TRUE
  /\ \E n \in Sizes : objects = [i \in Stored |-> Octets(0, n)]
  /\ server = NoTransfer
  /\ box = <<>>
  /\ running = TRUE
  /\ faults = 0
  /\ mishaps = 0

-----------------------------------------------------------------------------
(* The slave.                                                              *)

Answer(m) == box' = Append(box, m)
Silent    == UNCHANGED box
Abort     == Answer([cmd |-> "abort", idx |-> "none"])

Accept(i, data) ==
  /\ objects' = [objects EXCEPT ![i] = data]
  /\ server' = NoTransfer

Stop ==
  /\ SlaveStops
  /\ running
  /\ running' = FALSE
  /\ UNCHANGED <<calls, locals, at, result, clean, slaveState, faults, mishaps>>

-----------------------------------------------------------------------------
(* The steps of a call.                                                    *)

\* A mailbox call fails, by chance, or as it must: the slave has stopped, or it
\* owes no mail.
Fault ==
  IF running /\ ~ (at = "receive" /\ box = <<>>)
             THEN /\ faults < MaxFaults
                  /\ faults' = faults + 1
                  /\ mishaps' = mishaps + 1
             ELSE UNCHANGED <<faults, mishaps>>

\* The mail that is next is for the call: the hook does not take it.
ForCall == hook /\ box # <<>> => Head(box).cmd # "eoe"

\* A call begins with its first request ready.
Begin(j, request) ==
  /\ at = "idle"
  /\ calls < MaxCalls
  /\ calls' = calls + 1
  /\ job' = j
  /\ MbxOut' = request
  /\ stage' = "first"
  /\ toggle' = FALSE
  /\ bytes' = <<>>
  /\ result' = "none"
  /\ mishaps' = 0
  /\ UNCHANGED <<hook, slaveState, running, faults>>

\* "Empty slave out mailbox if something is in": one mail is read, or none was
\* there, or it had not come yet.
Drained ==
  /\ at = "drain"
  /\ \/ box = <<>> /\ UNCHANGED <<box, faults, mishaps>>
     \/ /\ box # <<>> /\ running /\ ForCall
        /\ box' = Tail(box) /\ UNCHANGED <<faults, mishaps>>
     \/ box # <<>> /\ UNCHANGED box /\ Fault
  /\ clean' = (box' = <<>> /\ server.mode # "soe")
  /\ at' = "send"
  /\ UNCHANGED <<calls, locals, result, objects, server, running>>

Return(r) ==
  /\ result' = r
  /\ at' = "idle"
  /\ stage' = "first"
  /\ MbxOut' = [cmd |-> "none"]
  /\ toggle' = FALSE
  /\ rest' = <<>>

\* The request gets there, and after is the next step.
Sent(after) ==
  /\ at = "send"
  /\ running
  /\ at' = after
  /\ UNCHANGED <<calls, locals, result, clean, running, faults, mishaps>>

\* wkc <= 0 from ecx_mbxsend or ecx_mbxreceive.
Failing(where) ==
  /\ at = where
  /\ Fault
  /\ UNCHANGED <<hook, calls, job, bytes, clean, running>>

\* The oldest mail is read.
MailRead ==
  /\ at = "receive"
  /\ running
  /\ ForCall
  /\ box # <<>>
  /\ box' = Tail(box)
  /\ UNCHANGED <<hook, calls, job, clean, objects, server, running, faults, mishaps>>
=============================================================================
