------------------------------ MODULE EasyCat ------------------------------
(***************************************************************************)
(* The EasyCAT shield under the Arduino program (EasyCAT.h): Init resets   *)
(* its LAN9252 controller and waits for it; MainTask reads the watchdog    *)
(* and the EtherCAT state, fetches the outputs through one FIFO, or clears *)
(* them, and passes the inputs through another, in one round or in two.    *)
(* The controller works on its own meanwhile: registers are read by a      *)
(* command that takes time, the FIFOs fill and drain 4 bytes at a time.    *)
(*                                                                         *)
(* The controller and the EtherCAT master are external; the controller     *)
(* gives and takes images as wholes (its sync managers are buffered).  The *)
(* data of an image is its number.                                         *)
(***************************************************************************)
EXTENDS Naturals, Sequences

CONSTANTS
  Sizes,       \* TOT_BYTE_NUM_OUT and _IN: numbers of bytes, at most two FIFOs
  Fifo,        \* bytes of a FIFO: 64
  Tout,        \* times Init looks at a register
  MaxImages    \* bound: images written by the master, and by the application

EasyCatParameters ==
  /\ Fifo \in Nat \ {0} /\ Fifo % 4 = 0 /\ Sizes \subseteq 0 .. 2 * Fifo
  /\ Tout \in Nat \ {0} /\ MaxImages \in Nat

VARIABLES
  sizeout, sizein,     \* fixed when the program is compiled
  pc, tries, lookfor,  \* place; i of Init, and what it waits for
  inits, initialised,  \* calls of Init that succeeded, what the last one returned
  WatchDog, Status,    \* locals of MainTask
  BufferOut, BufferIn, \* by groups of 4 bytes; number of the application's image
  i,                   \* groups transferred in MainTask's loop
  awake,               \* controller: how far it is after a reset
  csr,                 \* register it reads, or what it read
  rd, wr,              \* transfers through the FIFOs
  out, image,          \* the master's outputs, and the inputs it sees
  wdog, al,            \* watchdog expired, state of the state machine
  was                  \* of the last MainTask: was the watchdog not expired, the
                       \* state operational, and what outputs were there

constant == <<sizeout, sizein>>
setup == <<tries, lookfor, inits, initialised>>
task == <<WatchDog, Status, i>>
buffers == <<BufferOut, BufferIn>>
controller == <<awake, csr, rd, wr, image>>
network == <<out, wdog, al>>
shieldVars == <<constant, pc, setup, task, buffers, controller, network, was>>

\* Groups of 4 bytes: "rounded to long".
Groups(n) == (n + 3) \div 4
First(n) == IF n > Fifo THEN Fifo \div 4 ELSE Groups(n)
Second(n) == IF n > Fifo THEN Groups(n - Fifo) ELSE 0

Image(v, n) == [k \in 1 .. Groups(n) |-> <<v, k>>]
Zeros(n) == [k \in 1 .. Groups(n) |-> <<0, k>>]
Nothing == <<MaxImages + 1, 0>>
Idle == [reg |-> "none", busy |-> FALSE, value |-> "none"]

ShieldInit ==
  /\ sizeout \in Sizes /\ sizein \in Sizes
  /\ pc = "reset" /\ tries = 0 /\ lookfor = 1 /\ inits = 0 /\ initialised = FALSE
  /\ WatchDog = FALSE /\ Status = "INIT" /\ i = 0
  /\ BufferOut = Zeros(sizeout) /\ BufferIn = 0
  /\ awake = 0 /\ csr = Idle
  /\ rd = [of |-> 0, left |-> 0, fill |-> 0]
  /\ wr = [data |-> << >>, fill |-> << >>] /\ image = Image(0, sizein)
  /\ out = 1 /\ wdog = FALSE /\ al = "SAFEOP" /\ was = [alive |-> FALSE, op |-> FALSE, out |-> {}]

-----------------------------------------------------------------------------
(* setup() and EasyCAT::Init                                                *)

Reset ==
  /\ pc = "reset" /\ pc' = "look" /\ tries' = 0 /\ lookfor' = 1
  /\ awake' = 0
  /\ UNCHANGED <<constant, inits, initialised, task, buffers, csr, rd, wr, image, network, was>>

\* setup() calls Init until it succeeds, and then again: what that call
\* returns is printed, and the timer is started.
EndInit(ok) ==
  /\ initialised' = ok
  /\ inits' = IF ok \/ inits = 1 THEN inits + 1 ELSE inits
  /\ pc' = IF inits' = 2 THEN "idle" ELSE "reset"

\* Reset done, byte order test, ready flag, one after the other.
Seen == awake >= lookfor

\* A register is looked at; the last time, what is seen does not help.
Look ==
  /\ pc = "look"
  /\ IF tries + 1 = Tout THEN EndInit(FALSE) /\ UNCHANGED <<tries, lookfor>>
     ELSE IF ~Seen THEN tries' = tries + 1 /\ UNCHANGED <<pc, lookfor, inits, initialised>>
     ELSE IF lookfor < 3
     THEN tries' = 0 /\ lookfor' = lookfor + 1 /\ UNCHANGED <<pc, inits, initialised>>
     ELSE EndInit(TRUE) /\ UNCHANGED <<tries, lookfor>>
  /\ UNCHANGED <<constant, task, buffers, controller, network, was>>

-----------------------------------------------------------------------------
(* EasyCAT::MainTask                                                        *)

\* SPIReadRegisterIndirect: the command is written.
Command(reg) == csr' = [csr EXCEPT !.reg = reg, !.busy = TRUE]

Now == [alive |-> ~wdog, op |-> al = "OP", out |-> {out}]

\* (A controller that is not up answers anything: not modelled.)
MainTask ==
  /\ pc = "idle" /\ awake = 3
  /\ pc' = "watchdog" /\ Command("wdog") /\ was' = Now
  /\ UNCHANGED <<constant, setup, task, buffers, awake, rd, wr, image, network>>

\* The loop that waits until the command is carried out ends.
Answered(reg) == csr.reg = reg /\ ~csr.busy

ReadWatchdog ==
  /\ pc = "watchdog" /\ Answered("wdog")
  /\ WatchDog' = (csr.value # "alive")
  /\ pc' = "status" /\ Command("al")
  /\ UNCHANGED <<constant, setup, Status, i, buffers, awake, rd, wr, image, network, was>>

ReadStatus ==
  /\ pc = "status" /\ Answered("al")
  /\ Status' = csr.value /\ pc' = "outputs"
  /\ UNCHANGED <<constant, setup, WatchDog, i, buffers, controller, network, was>>

\* The program makes no use of what MainTask returns of them.
Forget == WatchDog' = FALSE /\ Status' = "INIT"

\* Watchdog expired or not operational: the output buffer is cleared.
ClearOutputs ==
  /\ pc = "outputs" /\ (WatchDog \/ Status # "OP")
  /\ BufferOut' = Zeros(sizeout) /\ pc' = "inputs" /\ Forget
  /\ UNCHANGED <<constant, setup, i, BufferIn, controller, network, was>>

\* SPIReadProcRamFifo: a pending transfer is aborted, another started.
StartRead ==
  /\ pc = "outputs" /\ ~WatchDog /\ Status = "OP"
  /\ rd' = [of |-> out, left |-> Groups(sizeout), fill |-> 0]
  /\ i' = 0 /\ pc' = (IF sizeout > 0 THEN "readfirst" ELSE "inputs") /\ Forget
  /\ UNCHANGED <<constant, setup, buffers, awake, csr, wr, image, network, was>>

FillAwaited(fill, groups) == fill = groups

\* The loop that waits for a round to be in the FIFO ends.
RoundRead ==
  \/ pc = "readfirst" /\ FillAwaited(rd.fill, First(sizeout)) /\ pc' = "gofirst"
  \/ pc = "readsecond" /\ FillAwaited(rd.fill, Second(sizeout)) /\ pc' = "gosecond"
AwaitOutputs ==
  /\ RoundRead
  /\ UNCHANGED <<constant, setup, task, buffers, controller, network, was>>

\* The next group, or what an empty FIFO gives.
ReadGroup ==
  /\ pc \in {"gofirst", "gosecond"}
  /\ LET next == Groups(sizeout) - rd.left - rd.fill + 1
     IN  BufferOut' = [BufferOut EXCEPT ![i + 1] =
                         IF rd.fill > 0 THEN <<rd.of, next>> ELSE Nothing]
  /\ rd' = [rd EXCEPT !.fill = IF rd.fill > 0 THEN rd.fill - 1 ELSE 0]
  /\ i' = i + 1
  /\ pc' = IF pc = "gofirst" /\ i + 1 = First(sizeout)
           THEN IF Second(sizeout) > 0 THEN "readsecond" ELSE "inputs"
           ELSE IF i + 1 = Groups(sizeout) THEN "inputs" ELSE pc
  /\ UNCHANGED <<constant, setup, WatchDog, Status, BufferIn, awake, csr, wr, image, network, was>>

\* SPIWriteProcRamFifo
StartWrite ==
  /\ pc = "inputs"
  /\ wr' = [data |-> << >>, fill |-> << >>]
  /\ i' = 0 /\ pc' = IF sizein > 0 THEN "writefirst" ELSE "idle"
  /\ UNCHANGED <<constant, setup, WatchDog, Status, buffers, awake, csr, rd, image, network, was>>

Space == Fifo \div 4 - Len(wr.fill)

\* The loop that waits for room for a round ends.
RoundWrite ==
  \/ pc = "writefirst" /\ Space >= First(sizein) /\ pc' = "putfirst"
  \/ pc = "writesecond" /\ Space >= Second(sizein) /\ pc' = "putsecond"
AwaitSpace ==
  /\ RoundWrite
  /\ UNCHANGED <<constant, setup, task, buffers, controller, network, was>>

\* A group that finds no room is lost.
WriteGroup ==
  /\ pc \in {"putfirst", "putsecond"}
  /\ wr' = [wr EXCEPT !.fill = IF Space > 0 THEN Append(@, <<BufferIn, i + 1>>) ELSE @]
  /\ i' = i + 1
  /\ pc' = IF pc = "putfirst" /\ i + 1 = First(sizein)
           THEN IF Second(sizein) > 0 THEN "writesecond" ELSE "idle"
           ELSE IF i + 1 = Groups(sizein) THEN "idle" ELSE pc
  /\ UNCHANGED <<constant, setup, WatchDog, Status, buffers, awake, csr, rd, image, network, was>>

\* sendToMaster, between two calls.
StoreInput ==
  /\ pc = "idle" /\ BufferIn < MaxImages /\ BufferIn' = BufferIn + 1
  /\ wr.fill = << >>    \* a cycle later
  /\ UNCHANGED <<constant, pc, setup, task, BufferOut, controller, network, was>>

-----------------------------------------------------------------------------
(* The controller and the master (external).                                *)

Wake ==
  /\ awake < 3 /\ awake' = awake + 1
  /\ UNCHANGED <<constant, pc, setup, task, buffers, csr, rd, wr, image, network, was>>

Execute ==
  /\ csr.busy
  /\ csr' = [csr EXCEPT !.busy = FALSE,
                        !.value = IF csr.reg = "al" THEN al ELSE IF wdog THEN "expired" ELSE "alive"]
  /\ UNCHANGED <<constant, pc, setup, task, buffers, awake, rd, wr, image, network, was>>

Fetch ==
  /\ rd.left > 0 /\ rd.fill < Fifo \div 4
  /\ rd' = [rd EXCEPT !.left = rd.left - 1, !.fill = rd.fill + 1]
  /\ UNCHANGED <<constant, pc, setup, task, buffers, awake, csr, wr, image, network, was>>

\* The last group of the image makes it the one the master sees.
Drain ==
  /\ wr.fill # << >>
  /\ LET data == Append(wr.data, Head(wr.fill))
     IN  /\ wr' = [data |-> data, fill |-> Tail(wr.fill)]
         /\ image' = IF Len(data) = Groups(sizein) THEN data ELSE image
  /\ UNCHANGED <<constant, pc, setup, task, buffers, awake, csr, rd, network, was>>

Network ==
  /\ awake = 3
  /\ \/ out < MaxImages /\ out' = out + 1 /\ wdog' = FALSE /\ UNCHANGED al
     \/ ~wdog /\ wdog' = TRUE /\ UNCHANGED <<out, al>>
     \/ al' \in {"SAFEOP", "OP"} \ {al} /\ UNCHANGED <<out, wdog>>
  /\ was' = IF pc = "idle" THEN was
            ELSE [alive |-> was.alive \/ Now'.alive, op |-> was.op \/ Now'.op,
                  out |-> was.out \union Now'.out]
  /\ UNCHANGED <<constant, pc, setup, task, buffers, controller>>

ShieldNext ==
  \/ Reset \/ Look
  \/ MainTask \/ ReadWatchdog \/ ReadStatus \/ ClearOutputs
  \/ StartRead \/ AwaitOutputs \/ ReadGroup
  \/ StartWrite \/ AwaitSpace \/ WriteGroup \/ StoreInput
  \/ Wake \/ Execute \/ Fetch \/ Drain \/ Network

-----------------------------------------------------------------------------
(* Properties.                                                              *)

\* When MainTask has returned, the outputs are zero, or all of one image that
\* the master had written while the task ran; and they are zero if all that
\* time the watchdog had expired or the slave was not operational.
OutputsWhole ==
  pc \in {"inputs", "idle"} /\ was.out # {} =>
    \/ BufferOut = Zeros(sizeout)
    \/ /\ was.alive /\ was.op
       /\ \E v \in was.out : BufferOut = Image(v, sizeout)

\* The master sees one image of the inputs, never groups of two: that of the
\* last call, once it is through the FIFO.
InputsWhole ==
  /\ \E v \in 0 .. BufferIn : image = Image(v, sizein)
  /\ pc = "idle" /\ sizein > 0 /\ wr.fill = << >> /\ wr.data # << >> =>
       image = wr.data /\ Len(wr.data) = Groups(sizein)

\* After an Init that succeeded the controller is up.
UpWhenInitialised == pc = "idle" /\ initialised => awake = 3

ShieldExchanges == OutputsWhole /\ InputsWhole /\ UpWhenInitialised
=============================================================================
