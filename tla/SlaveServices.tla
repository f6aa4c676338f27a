--------------------------- MODULE SlaveServices ---------------------------
(***************************************************************************)
(* What a slave's mailbox is used for: the transfer of a file (FoE), or    *)
(* calls of the other services (Services).  A behaviour shows one of the   *)
(* two; the other rests.                                                   *)
(***************************************************************************)
EXTENDS FoE, Services

VARIABLE part      \* what the behaviour shows

InitAny ==
  /\ part \in {"file", "services"}
  /\ Init /\ CallsInit
  /\ part = "file" => /\ ~ hook
                      /\ \A i \in DOMAIN objects, n \in Sizes : Len(objects[i]) <= n
  /\ part = "services" => op = "FOEread" /\ size = MinSize /\ buffersize = 0

ShowFile == part = "file" /\ Next /\ UNCHANGED <<part, callsVars>>
Show(A) == part = "services" /\ A /\ UNCHANGED <<part, vars>>

AnyService == InitAny /\ [][ShowFile \/ Show(CallsNext)]_<<part, vars, callsVars>>

\* The fairness of Services.
FairServices == AnyService /\ WF_<<callsVars>>(Show(Calling))
=============================================================================
