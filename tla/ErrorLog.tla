------------------------------ MODULE ErrorLog ------------------------------
(***************************************************************************)
(* What the error list of the EtherCAT master promises: a queue of reports *)
(* that is read in order and forgets its oldest report when a new one does *)
(* not fit, and a flag that tells the application to read it.              *)
(***************************************************************************)
EXTENDS Naturals, Sequences

CONSTANTS
  Reports,    \* what can be reported
  Capacity,   \* how many reports are kept
  None        \* nothing was read

VARIABLES
  log,     \* reports not yet read, oldest first
  alarm,   \* are there reports to read?
  read     \* what the last read returned

vars == <<log, alarm, read>>

Init ==
  /\ log = << >>
  /\ alarm = FALSE
  /\ read = None

Report(r) ==
  /\ log' = IF Len(log) < Capacity THEN Append(log, r) ELSE Append(Tail(log), r)
  /\ alarm' = TRUE
  /\ UNCHANGED read

ReadOldest ==
  /\ log # << >>
  /\ read' = Head(log)
  /\ log' = Tail(log)
  /\ UNCHANGED alarm

FindEmpty ==
  /\ log = << >>
  /\ read' = None
  /\ alarm' = FALSE
  /\ UNCHANGED log

Next == (\E r \in Reports : Report(r)) \/ ReadOldest \/ FindEmpty

Spec == Init /\ [][Next]_vars
=============================================================================
