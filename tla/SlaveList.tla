----------------------------- MODULE SlaveList -----------------------------
(* The entries of ec_slave: 0 stands for the master, the slaves that were   *)
(* found on the network follow in their order.                              *)
EXTENDS Integers

CONSTANT NSlaves       \* slavecount

ASSUME SlaveListAssumption == NSlaves \in Nat \ {0}

Master == 0
Slaves == 1 .. NSlaves
=============================================================================
