------------------------------- MODULE ByteLocks -------------------------------
(***************************************************************************)
(* What advisory locks promise (lib/libc/sys/fcntl.2, flock.2): for every  *)
(* owner and byte of a file a shared lock, an exclusive lock or none.  A   *)
(* lock is set on all bytes of a range at once, when no other owner has a  *)
(* lock on one of them that excludes it; it replaces what the owner had on *)
(* these bytes and nothing else.  There are no lists, splits or sleeps.    *)
(***************************************************************************)
CONSTANTS Owner, Byte

VARIABLE held        \* held[o][b]: o's lock on byte b, "UN", "RD" or "WR"

Init == held = [o \in Owner |-> [b \in Byte |-> "UN"]]

Put(o, range, type) ==
    held' = [held EXCEPT ![o] = [b \in Byte |-> IF b \in range THEN type
                                                ELSE held[o][b]]]

Set(o, range, type) ==
    /\ \A q \in Owner \ {o}, b \in range :
          held[q][b] # "WR" /\ (type = "WR" => held[q][b] = "UN")
    /\ Put(o, range, type)

\* An owner sets or clears a range; with it goes what it had of that type before.
Next == \E o \in Owner, type \in {"UN", "RD", "WR"} :
            LET range == {b \in Byte : held'[o][b] = type}
            IN  IF type = "UN" THEN Put(o, range, type) ELSE Set(o, range, type)

Spec == Init /\ [][Next]_held
===============================================================================
