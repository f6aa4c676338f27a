------------------------------ MODULE MCPorts ------------------------------
(***************************************************************************)
(* Three views of the port drivers beside the threads of NicPort: the      *)
(* datagrams within a frame (Datagrams), one call in redundant mode over a *)
(* ring that breaks (RedPort), and the ports to other systems (Ports).  A  *)
(* behaviour shows one of them while the others rest.                      *)
(***************************************************************************)
EXTENDS Ports, Datagrams, RedPort

VARIABLES part

allVars == <<part, portVars, datagramVars, ringVars>>

\* A part that rests has one state.
InitAny ==
  /\ part \in {"threads", "frame", "ring"}
  /\ PortInit /\ DatagramInit /\ RingInit
  /\ part # "threads" => system = "erika"
  /\ part # "frame" => call = [kind |-> "states", n |-> 1]
  /\ part # "ring" => cable = Absent /\ ringsystem = "linux"

ShowThreads == part = "threads" /\ PortNext /\ UNCHANGED <<part, datagramVars, ringVars>>
ShowFrame == part = "frame" /\ DatagramNext /\ UNCHANGED <<part, portVars, ringVars>>
ShowRing == part = "ring" /\ RingNext /\ UNCHANGED <<part, portVars, datagramVars>>

AnyPart == InitAny /\ [][ShowThreads \/ ShowFrame \/ ShowRing]_allVars

Live(t) == part = "threads" /\ Step(t)
Locks(t) == part = "threads" /\ (ErikaGetIndex(t) \/ ErikaEnter(t))
FrameRead(t) == part = "threads" /\ Reads(t)
Expires(t) == part = "threads" /\ GiveUp(t)
Delivers == part = "threads" /\ NetworkTask

\* Every thread and the network task run; a thread that asks for the lock
\* again and again gets it; frames arrive, so that who polls again and again
\* reads one that is under way; and time passes, so that he finds his timers
\* expired when none is.  The other two parts are not shown to end, only that
\* nothing goes wrong in them.
FairAnyPart ==
  /\ AnyPart
  /\ WF_portVars(Delivers)
  /\ \A t \in Threads :
       /\ WF_portVars(Live(t)) /\ SF_portVars(Locks(t))
       /\ SF_portVars(FrameRead(t)) /\ SF_portVars(Expires(t))
=============================================================================
