------------------------------ MODULE RedPort ------------------------------
(***************************************************************************)
(* The redundant mode of the port driver (oshw/linux/nicdrv.c): the slaves *)
(* stand in a ring between two network interfaces, a datagram leaves       *)
(* over the primary one and a dummy with the same index over the secondary *)
(* one, and ecx_waitinframe_red decides by the routes of the two answers   *)
(* what to return and whether to send again.  One index and one call of    *)
(* ecx_srconfirm; what threads do to each other's indices is in NicPort.   *)
(*                                                                         *)
(* The ring is external: a slave works on a frame that comes from the side *)
(* of the primary interface or was turned round at a break before it.      *)
(*                                                                         *)
(* The ports to win32, macosx and rtems do the same; that to VxWorks has    *)
(* the same decision tree over queues that hold one frame and take only    *)
(* frames that are awaited.                                                *)
(***************************************************************************)
EXTENDS Integers, Sequences, Functions

CONSTANTS
  Rings,        \* the ports to look at
  RingSlaves,   \* slaves in the ring
  RingSends,    \* bound: transmissions of a call before its timeout
  MaxLosses,    \* bound: frames lost
  MaxChanges,   \* bound: times the cable breaks or is mended during the call
  LateFrames,   \* may a timer expire while an awaited frame is under way?
  Absent        \* no break, no frame

ASSUME RingAssumption ==
  /\ Rings \subseteq {"linux", "win32", "macosx", "rtems", "vxworks"}
  /\ RingSlaves \in Nat \ {0}
  /\ Absent \notin 0 .. RingSlaves
  /\ RingSends \in Nat \ {0}
  /\ MaxLosses \in Nat
  /\ MaxChanges \in Nat
  /\ LateFrames \in BOOLEAN

Slaves == 1 .. RingSlaves
\* A break at 0 is in front of the first slave, at RingSlaves behind the last one.
Breaks == 0 .. RingSlaves
Stacks == {0, 1}                    \* primary and secondary interface
\* How often each slave has worked on a datagram.
Work   == [Slaves -> 0 .. 2 * RingSends]
Fresh  == [i \in Slaves |-> 0]
\* sa is the source address, which tells the interface the frame left from.
RingFrames == [kind : {"datagram", "dummy"}, sa : {"RX_PRIM", "RX_SEC"}, work : Work]

VARIABLES
  ringsystem,
  cable,        \* where the ring is broken
  out, sock,    \* frames sent and under way, frames in the socket, per stack
  ringtx,       \* the datagram in the transmit buffer
  ringrx,       \* receive buffer of the index, per stack
  awaited,      \* the status of the index is EC_BUF_TX, per stack
  ringgot,      \* wkc > EC_NOFRAME, wkc2 > EC_NOFRAME
  ringpc, sends,
  losses, changes, \* what happened to the ring during the call
  hasty         \* vxworks: a frame came in before the dummy was sent

ring == <<ringsystem, cable, losses, changes, hasty>>
ringVars == <<ring, out, sock, ringtx, ringrx, awaited, ringgot, ringpc, sends>>

RingInit ==
  /\ ringsystem \in Rings
  /\ awaited = [s \in Stacks |-> FALSE]
  /\ hasty = FALSE
  /\ cable \in Breaks \union {Absent}
  /\ out = [s \in Stacks |-> <<>>]
  /\ sock = [s \in Stacks |-> <<>>]
  /\ ringtx = Fresh
  /\ ringrx = [s \in Stacks |-> Absent]
  /\ ringgot = [s \in Stacks |-> FALSE]
  /\ ringpc = "outframe"
  /\ sends = 0
  /\ losses = 0
  /\ changes = 0

-----------------------------------------------------------------------------
(* ecx_outframe_red                                                        *)

Transmit(s, f) ==
  /\ out' = [out EXCEPT ![s] = Append(@, f)]
  /\ awaited' = [awaited EXCEPT ![s] = TRUE]

\* ec_outfram_send: "Clean up any abandoned frames", but those of the primary
\* interface for both.
CleanUp == sock' = IF ringsystem = "vxworks" THEN [sock EXCEPT ![0] = <<>>] ELSE sock

OutPrimary ==
  /\ ringpc = "outframe"
  /\ Transmit(0, [kind |-> "datagram", sa |-> "RX_PRIM", work |-> ringtx])
  /\ ringgot' = [s \in Stacks |-> FALSE]
  /\ sends' = sends + 1
  /\ CleanUp
  /\ ringpc' = "outdummy"
  /\ UNCHANGED <<ring, ringtx, ringrx>>

\* "use dummy frame for secondary socket transmit (BRD)"
OutDummy(S) ==
  /\ ringsystem = S /\ ringpc = "outdummy"
  /\ Transmit(1, [kind |-> "dummy", sa |-> "RX_SEC", work |-> Fresh])
  /\ CleanUp
  /\ ringpc' = "wait"
  /\ UNCHANGED <<ring, ringtx, ringrx, ringgot, sends>>

LinuxDummy == OutDummy("linux")
WinDummy   == OutDummy("win32")
MacDummy   == OutDummy("macosx")
RtemsDummy == OutDummy("rtems")
VxDummy    == OutDummy("vxworks")

-----------------------------------------------------------------------------
(* The ring.                                                               *)

\* The slaves that work on a frame from stack s.
Worked(s) ==
  CASE cable = Absent -> IF s = 0 THEN Slaves ELSE {}
    [] OTHER        -> IF s = 0 THEN 1 .. cable ELSE cable + 1 .. RingSlaves

\* The cable of the interface itself is broken.
Unplugged(s) == cable = (IF s = 0 THEN 0 ELSE RingSlaves)

\* The stack at which a frame from s comes out.
Target(s) == IF cable = Absent THEN 1 - s ELSE s

\* mux_rx_callback drops a frame nobody awaits, and keeps the latest.
Delivered(s, f) ==
  CASE ringsystem # "vxworks" -> [sock EXCEPT ![s] = Append(@, f)]
    [] ringsystem = "vxworks" /\ awaited[s] -> [sock EXCEPT ![s] = <<f>>]
    [] OTHER              -> sock

Cross(s) ==
  /\ out[s] # <<>>
  /\ out' = [out EXCEPT ![s] = Tail(@)]
  /\ LET f == Head(out[s])
         worked == [f EXCEPT !.work =
                      [i \in Slaves |-> IF i \in Worked(s) THEN @[i] + 1 ELSE @[i]]]
     IN  sock' = IF Unplugged(s) THEN sock ELSE Delivered(Target(s), worked)
  /\ hasty' = (hasty \/ (ringsystem = "vxworks" /\ ringpc = "outdummy"))
  /\ UNCHANGED <<ringsystem, cable, losses, changes, ringtx, ringrx, awaited, ringgot,
                 ringpc, sends>>

LoseInRing(s) ==
  /\ losses < MaxLosses
  /\ out[s] # <<>>
  /\ out' = [out EXCEPT ![s] = Tail(@)]
  /\ losses' = losses + 1
  /\ UNCHANGED <<ringsystem, cable, changes, hasty, sock, ringtx, ringrx, awaited, ringgot, ringpc,
                 sends>>

CableChanges ==
  /\ changes < MaxChanges
  /\ ringpc # "done"
  /\ cable' \in IF cable = Absent THEN Breaks ELSE {Absent}
  /\ changes' = changes + 1
  /\ UNCHANGED <<ringsystem, losses, hasty, out, sock, ringtx, ringrx, awaited, ringgot,
                 ringpc, sends>>

-----------------------------------------------------------------------------
(* ecx_waitinframe_red                                                     *)

\* "only read frame if not already in"
ReadFrame(s) ==
  /\ ringpc = "wait"
  /\ ~ ringgot[s]
  /\ sock[s] # <<>>
  /\ ringrx' = [ringrx EXCEPT ![s] = Head(sock[s])]
  /\ sock' = [sock EXCEPT ![s] = Tail(@)]
  /\ ringgot' = [ringgot EXCEPT ![s] = TRUE]
  /\ awaited' = [awaited EXCEPT ![s] = FALSE]
  /\ UNCHANGED <<ring, out, ringtx, ringpc, sends>>

\* Without LateFrames the timeouts exceed the round trip of a frame.
Expired(s) == LateFrames \/ (out = [r \in Stacks |-> <<>>] /\ sock[s] = <<>>)

WaitOver == \A s \in Stacks : ringgot[s] \/ Expired(s)

\* The route of what a stack received, 0 if nothing.
Route(s) == IF ringgot[s] THEN ringrx[s].sa ELSE "0"

\* Wrong: whatever the secondary stack has is taken for the answer.
Crossed_Wrong == Route(1) # "0"

Crossed == Route(0) = "RX_SEC" /\ Route(1) = "RX_PRIM"

Divided == Route(1) = "RX_SEC" /\ Route(0) \in {"0", "RX_PRIM"}

\* "copy secondary buffer to primary"
TakeSecondary ==
  /\ ringpc = "wait"
  /\ WaitOver
  /\ Crossed
  /\ ringrx' = [ringrx EXCEPT ![0] = ringrx[1]]
  /\ ringpc' = "confirm"
  /\ UNCHANGED <<ring, out, sock, ringtx, awaited, ringgot, sends>>

\* Wrong: what the first part of the ring did is not sent on.
Onward_Wrong == ringtx

\* "copy primary rx to tx buffer"
Onward == IF Route(0) = "RX_PRIM" THEN ringrx[0].work ELSE ringtx

\* "retransmit the primary received frame over the secondary socket"
SendOn ==
  /\ ringpc = "wait"
  /\ WaitOver
  /\ Divided
  /\ ringtx' = Onward
  /\ Transmit(1, [kind |-> "datagram", sa |-> "RX_PRIM", work |-> ringtx'])
  /\ CleanUp
  /\ ringpc' = "rewait"
  /\ UNCHANGED <<ring, ringrx, ringgot, sends>>

\* No case of the decision tree: what the primary stack has, if anything.
TakePrimary ==
  /\ ringpc = "wait"
  /\ WaitOver
  /\ ~ Crossed
  /\ ~ Divided
  /\ ringpc' = "confirm"
  /\ UNCHANGED <<ring, out, sock, ringtx, ringrx, awaited, ringgot, sends>>

\* "copy secondary result to primary rx buffer"
InAgain ==
  /\ ringpc = "rewait"
  /\ sock[1] # <<>>
  /\ ringrx' = [s \in Stacks |-> Head(sock[1])]
  /\ sock' = [sock EXCEPT ![1] = Tail(@)]
  /\ ringgot' = [ringgot EXCEPT ![0] = TRUE]
  /\ awaited' = [awaited EXCEPT ![1] = FALSE]
  /\ ringpc' = "confirm"
  /\ UNCHANGED <<ring, out, ringtx, sends>>

AgainExpires ==
  /\ ringpc = "rewait"
  /\ Expired(1)
  /\ ringpc' = "confirm"
  /\ UNCHANGED <<ring, out, sock, ringtx, ringrx, awaited, ringgot, sends>>

\* ecx_srconfirm: return an answer, or send again until the timeout.
Confirm ==
  /\ ringpc = "confirm"
  /\ \/ ringgot[0] /\ ringpc' = "done"
     \/ ~ ringgot[0] /\ sends < RingSends /\ ringpc' = "outframe"
     \/ ~ ringgot[0] /\ sends = RingSends /\ ringpc' = "done"
  /\ UNCHANGED <<ring, out, sock, ringtx, ringrx, awaited, ringgot, sends>>

RingRest == ringpc = "done" /\ UNCHANGED ringVars

WaitInFrame(S) ==
  /\ ringsystem = S
  /\ \/ \E s \in Stacks : ReadFrame(s)
     \/ TakeSecondary \/ SendOn \/ TakePrimary \/ InAgain \/ AgainExpires

LinuxWait == WaitInFrame("linux")
WinWait   == WaitInFrame("win32")
MacWait   == WaitInFrame("macosx")
RtemsWait == WaitInFrame("rtems")
VxWait    == WaitInFrame("vxworks")

RingNext == \/ OutPrimary \/ Confirm
        \/ LinuxDummy \/ WinDummy \/ MacDummy \/ RtemsDummy \/ VxDummy
        \/ LinuxWait \/ WinWait \/ MacWait \/ RtemsWait \/ VxWait
        \/ \E s \in Stacks : Cross(s) \/ LoseInRing(s)
        \/ CableChanges
        \/ RingRest

RingSpec == RingInit /\ [][RingNext]_ringVars

-----------------------------------------------------------------------------
(* Properties                                                              *)

RingTypeOK ==
  /\ cable \in Breaks \union {Absent}
  /\ out \in [Stacks -> Seq(RingFrames)]
  /\ sock \in [Stacks -> Seq(RingFrames)]
  /\ ringtx \in Work
  /\ ringrx \in [Stacks -> RingFrames \union {Absent}]
  /\ ringgot \in [Stacks -> BOOLEAN]
  /\ ringpc \in {"outframe", "outdummy", "wait", "rewait", "confirm", "done"}
  /\ sends \in 0 .. RingSends
  /\ losses \in 0 .. MaxLosses
  /\ changes \in 0 .. MaxChanges

\* The call returns an answer with a work counter that is not 0.
Answered == ringgot[0] /\ \E i \in Slaves : ringrx[0].work[i] > 0

\* "Any one of the connections can be removed and the slaves are still
\* serviced": wherever the ring is broken, a call during which nothing else
\* happens returns its datagram, worked on by every slave exactly once.  (In
\* VxWorks unless a frame comes in before the dummy leaves: then it is
\* thrown away.)
BreakTolerated ==
  ringpc = "done" /\ losses = 0 /\ changes = 0 /\ ~ hasty =>
    /\ ringgot[0]
    /\ ringrx[0] = [kind |-> "datagram", sa |-> "RX_PRIM", work |-> [i \in Slaves |-> 1]]

\* What is returned as an answer is never the dummy, although frames are lost
\* and the cable breaks or is mended between any two steps; and no slave has
\* worked on it twice, unless the break moves during the call, which takes two
\* changes.  A call that had to send again is covered with an unchanged cable:
\* two transmissions can leave a dummy that is taken for the answer.
AnswerIsDatagram ==
  ringpc = "done" /\ Answered =>
    /\ changes = 0 \/ sends = 1 => ringrx[0].kind = "datagram"
    /\ changes = 0 \/ (sends = 1 /\ changes = 1) => \A i \in Slaves : ringrx[0].work[i] <= 1

\* Whatever happens: the code does not have this property.
AnswerNeverDummy == ringpc = "done" /\ Answered => ringrx[0].kind = "datagram"
=============================================================================
