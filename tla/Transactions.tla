---------------------------- MODULE Transactions ----------------------------
(***************************************************************************)
(* What the blocking datagram primitives (ecx_BRD, ecx_FPRD, ecx_LWR, ...) *)
(* promise to the layers above, whatever the port does underneath: each    *)
(* call of a thread ends, with the reply to the datagram of that very call *)
(* or with nothing.  How many calls there are is for the ports to bound.   *)
(***************************************************************************)
EXTENDS Naturals

CONSTANTS
  Threads,       \* threads that call the primitives
  None           \* no reply

VARIABLES
  phase,    \* where each thread's call stands
  asked,    \* how many calls each thread has made
  answer    \* what its last call brought

vars == <<phase, asked, answer>>

Init ==
  /\ phase = [t \in Threads |-> "idle"]
  /\ asked = [t \in Threads |-> 0]
  /\ answer = [t \in Threads |-> None]

Ask(t) ==
  /\ phase[t] = "idle"
  /\ phase' = [phase EXCEPT ![t] = "asking"]
  /\ asked' = [asked EXCEPT ![t] = @ + 1]
  /\ answer' = [answer EXCEPT ![t] = None]

Answer(t) ==
  /\ phase[t] = "asking"
  /\ phase' = [phase EXCEPT ![t] = "done"]
  /\ answer' = [answer EXCEPT ![t] = [thread |-> t, seq |-> asked[t]]]
  /\ UNCHANGED asked

Fail(t) ==
  /\ phase[t] = "asking"
  /\ phase' = [phase EXCEPT ![t] = "done"]
  /\ UNCHANGED <<asked, answer>>

Return(t) ==
  /\ phase[t] = "done"
  /\ phase' = [phase EXCEPT ![t] = "idle"]
  /\ UNCHANGED <<asked, answer>>

Next == \E t \in Threads : Ask(t) \/ Answer(t) \/ Fail(t) \/ Return(t)

Spec == Init /\ [][Next]_vars
=============================================================================
