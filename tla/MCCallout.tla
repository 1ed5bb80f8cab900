------------------------------ MODULE MCCallout -------------------------------
(* The constants of Callout for TLC. *)
EXTENDS Callout

CONSTANTS f1, f2

MCTicks == {0, 1, 2, 4}
===============================================================================
