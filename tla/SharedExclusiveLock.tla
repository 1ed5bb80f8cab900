-------------------------- MODULE SharedExclusiveLock --------------------------
(***************************************************************************)
(* What kern/kern_lock.c promises to its callers, without saying how.      *)
(*                                                                         *)
(* A lock is held by a set of readers or by one writer.  A process that    *)
(* has to wait is in "waiting".  The first reader that asks for an upgrade *)
(* gives its shared hold away in exchange for a promise: nobody else will  *)
(* have the lock exclusively before it does.  A drain closes the lock once *)
(* no other process has anything to do with it, and nobody can come in     *)
(* while the lock is closed.                                               *)
(***************************************************************************)

CONSTANTS Proc,    \* the processes
          NoProc   \* "no process"

VARIABLES readers,    \* the processes that have a shared hold
          writer,     \* the process that has the exclusive hold, or NoProc
          promised,   \* the process whose upgrade comes next, or NoProc
          waiting,    \* the processes that wait for a hold
          closed      \* TRUE between a drain and the release that reopens

absVars == <<readers, writer, promised, waiting, closed>>

Init ==
    /\ readers = {}
    /\ writer = NoProc
    /\ promised = NoProc
    /\ waiting = {}
    /\ closed = FALSE

--------------------------------------------------------------------------------

\* p starts to wait; a reader that waits for more than it has gives its hold up.
Wait(p) ==
    /\ waiting' = waiting \cup {p}
    /\ readers' = readers \ {p}
    /\ UNCHANGED <<writer, promised, closed>>

\* p is refused; whatever it asked for, it holds nothing afterwards.
Refuse(p) ==
    /\ waiting' = waiting \ {p}
    /\ readers' = readers \ {p}
    /\ promised' = IF promised = p THEN NoProc ELSE promised
    /\ writer # p
    /\ UNCHANGED <<writer, closed>>

\* p gets a shared hold.
Share(p) ==
    /\ writer = NoProc
    /\ promised = NoProc
    /\ ~closed
    /\ readers' = readers \cup {p}
    /\ waiting' = waiting \ {p}
    /\ UNCHANGED <<writer, promised, closed>>

\* The reader p is promised the next exclusive hold.
Promise(p) ==
    /\ p \in readers
    /\ promised = NoProc
    /\ promised' = p
    /\ readers' = readers \ {p}
    /\ waiting' = waiting \cup {p}
    /\ UNCHANGED <<writer, closed>>

\* p gets the exclusive hold: nobody else has one, or is promised one.
Own(p) ==
    /\ readers \subseteq {p}
    /\ writer = NoProc
    /\ promised \in {NoProc, p}
    /\ ~closed
    /\ writer' = p
    /\ readers' = {}
    /\ promised' = NoProc
    /\ waiting' = waiting \ {p}
    /\ UNCHANGED closed

\* p drains the lock: nobody holds it and nobody waits for it.
Close(p) ==
    /\ readers = {}
    /\ writer = NoProc
    /\ promised = NoProc
    /\ waiting = {}
    /\ writer' = p
    /\ closed' = TRUE
    /\ UNCHANGED <<readers, promised, waiting>>

\* The writer turns its hold into a shared one.
Downgrade(p) ==
    /\ writer = p
    /\ ~closed
    /\ writer' = NoProc
    /\ readers' = {p}
    /\ UNCHANGED <<promised, waiting, closed>>

\* A holder leaves; the process that drained the lock may reopen it.
Leave(p) ==
    \/ /\ p \in readers
       /\ readers' = readers \ {p}
       /\ UNCHANGED <<writer, closed>>
       /\ UNCHANGED <<promised, waiting>>
    \/ /\ writer = p
       /\ writer' = NoProc
       /\ closed' \in {closed, FALSE}
       /\ UNCHANGED <<readers, promised, waiting>>

Next ==
    \E p \in Proc :
        \/ Wait(p) \/ Refuse(p)
        \/ Share(p) \/ Own(p) \/ Close(p)
        \/ Promise(p) \/ Downgrade(p) \/ Leave(p)

Spec == Init /\ [][Next]_absVars

================================================================================
