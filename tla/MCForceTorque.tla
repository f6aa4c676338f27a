--------------------------- MODULE MCForceTorque ---------------------------
(***************************************************************************)
(* ForceTorque for TLC: the identifiers of CAN messages, of which the      *)
(* sensor's 432 (0x1B0) is one.  All three have bits in every register     *)
(* that their kind uses.                                                   *)
(***************************************************************************)
EXTENDS ForceTorque

CanIdentifiers ==
  <<[id |-> 1365, ext |-> FALSE], [id |-> 305419896, ext |-> TRUE],
    [id |-> 432, ext |-> FALSE]>>
=============================================================================
