---------------------------- MODULE MCSleepQueue ------------------------------
(***************************************************************************)
(* The constants of SleepQueue for TLC: a child and its parent, and one    *)
(* event.  LOOKUP is a hash: the identifiers share one queue, and either   *)
(* the swapper has its own (Apart), or the address of the child has that   *)
(* of &proc0 (Colliding), where the panic of wakeup is reached and ends    *)
(* the behaviour.                                                          *)
(***************************************************************************)
EXTENDS SleepQueue, TLC

CONSTANTS child, parent, ev

MCParent == child :> parent @@ parent :> NoProc

Apart == [i \in {child, parent, ev, Proc0} |-> IF i = Proc0 THEN 0 ELSE 1]

Colliding == [i \in {child, parent, ev, Proc0} |-> IF i \in {child, Proc0} THEN 0 ELSE 1]

WithoutTstp == AllSignals \ {"TSTP"}
NoParent    == [p \in {child, parent} |-> NoProc]
===============================================================================
