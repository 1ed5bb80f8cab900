------------------------------- MODULE MCLockmgr -------------------------------
(***************************************************************************)
(* Small instances of Lockmgr for TLC.                                     *)
(***************************************************************************)
EXTENDS Lockmgr, TLC

\* The processes are interchangeable.
Symmetry == Permutations(Proc)

================================================================================
