---------------------------- MODULE MCAdvisoryLock ----------------------------
(***************************************************************************)
(* The constants of AdvisoryLock for TLC.  Finite ranges end in bytes 0    *)
(* and 1, and byte 2 stands for all that only a range up to EOF holds.     *)
(***************************************************************************)
EXTENDS AdvisoryLock

CONSTANTS p1, p2, p3, f1, f2

MCFileOf == [p \in Proc |-> IF p = p3 THEN f2 ELSE f1]

Posix(t, s, e) == [posix |-> TRUE, type |-> t, start |-> s, end |-> e]
Flock(t)       == [posix |-> FALSE, type |-> t, start |-> 0, end |-> EOF]

\* POSIX locks of three processes: the whole file, its two parts, and a byte that
\* is inside the whole file and at the start of the second part
PosixRequests ==
    [p \in Proc |-> {Posix("RD", 0, EOF), Posix("WR", 0, 0), Posix("WR", 1, EOF)}
                    \cup IF p = p1 THEN {Posix("WR", 1, 1), Posix("RD", 0, 1)} ELSE {}]
PosixUnlocks ==
    [p \in Proc |-> {Posix("UN", 0, EOF)}
                    \cup IF p = p1 THEN {Posix("UN", 1, 1)} ELSE {}]

\* Two processes that share an open file, and one with POSIX locks
MixedRequests ==
    [p \in Proc |-> IF p = p3 THEN {Posix("WR", 0, EOF), Posix("RD", 1, 1)}
                    ELSE {Flock("RD"), Flock("WR")}]
MixedUnlocks ==
    [p \in Proc |-> IF p = p3 THEN {Posix("UN", 0, EOF), Posix("UN", 1, 1)}
                    ELSE {Flock("UN")}]
===============================================================================
