------------------------------- MODULE MCSysVSem -------------------------------
(***************************************************************************)
(* The vectors of operations that TLC uses with SysVSem.                   *)
(***************************************************************************)
EXTENDS SysVSem, TLC

Symmetry == Permutations(Proc)

Op(n, o)     == [num |-> n, op |-> o, nowait |-> FALSE, undo |-> FALSE]
UndoOp(n, o) == [Op(n, o) EXCEPT !.undo = TRUE]
PollOp(n, o) == [Op(n, o) EXCEPT !.nowait = TRUE]

\* Vectors without undo that wait for one another
Waiting == {<<Op(0, 1)>>, <<Op(0, 0)>>, <<Op(0, -1), Op(1, -1)>>,
            <<Op(1, 1), Op(0, -2)>>}
\* Vectors with undo entries for one semaphore of a set only.  The second polls.  The
\* last has to wait, or finds no room for its entry, after its first operation has been
\* performed; in a set of one semaphore it is abandoned before.
Undoing == {<<UndoOp(0, 1)>>, <<[PollOp(0, -1) EXCEPT !.undo = TRUE]>>,
            <<PollOp(1, -1), UndoOp(0, -1)>>}
================================================================================
