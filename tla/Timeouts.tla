------------------------------- MODULE Timeouts -------------------------------
(***************************************************************************)
(* What timeout and untimeout promise (share/man/man9/timeout.9): a bag of *)
(* scheduled calls, each with the ticks it still has to wait.  A call that *)
(* is due is made some time later, the calls that are due longer first,    *)
(* and untimeout cancels the matching call with the shortest delay left.   *)
(* There is no list here and no difference between neighbours.             *)
(***************************************************************************)
EXTENDS Integers, Bags

CONSTANTS Func,      \* the functions that can be scheduled, with their argument
          Ticks,     \* the delays that are asked for
          NoFunc     \* no call is being made

VARIABLES scheduled, \* the bag of scheduled calls, [func, left] each
          calling    \* the function that is being called, or NoFunc

Calls(f) == {c \in BagToSet(scheduled) : c.func = f}
Call(f, left) == [func |-> f, left |-> left]

Init == scheduled = EmptyBag /\ calling = NoFunc

\* A delay that is not positive counts as one tick.
Schedule(f, ticks) ==
    /\ scheduled' = scheduled (+)
                    SetToBag({Call(f, IF ticks <= 0 THEN 1 ELSE ticks)})
    /\ UNCHANGED calling

Cancel(f) ==
    /\ \E c \in Calls(f) :
          /\ \A d \in Calls(f) : c.left <= d.left
          /\ scheduled' = scheduled (-) SetToBag({c})
    /\ UNCHANGED calling

Tick ==
    /\ scheduled' = [d \in {Call(c.func, c.left - 1) : c \in DOMAIN scheduled}
                        |-> scheduled[Call(d.func, d.left + 1)]]
    /\ UNCHANGED calling

Make ==
    /\ calling = NoFunc
    /\ \E c \in BagToSet(scheduled) :
          /\ c.left <= 0
          /\ \A d \in BagToSet(scheduled) : c.left <= d.left
          /\ scheduled' = scheduled (-) SetToBag({c})
          /\ calling' = c.func

Return ==
    /\ calling # NoFunc
    /\ calling' = NoFunc
    /\ UNCHANGED scheduled

Next == \/ \E f \in Func : Cancel(f) \/ \E t \in Ticks : Schedule(f, t)
        \/ Tick
        \/ Make
        \/ Return

Spec == Init /\ [][Next]_<<scheduled, calling>>
===============================================================================
