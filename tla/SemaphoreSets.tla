----------------------------- MODULE SemaphoreSets -----------------------------
(***************************************************************************)
(* What System V semaphores promise (lib/libc/sys/semop.2, semctl.2): sets *)
(* of counters on which a vector of operations is performed as a whole or  *)
(* not at all, and for each process the changes that it asked to have      *)
(* undone when it ends.  Nobody sleeps here: a vector that cannot be       *)
(* performed is not.                                                       *)
(***************************************************************************)
EXTENDS Integers, Sequences

CONSTANTS Proc,      \* the processes
          SemId,     \* the slots for sets
          SetSizes,  \* the sizes a set can be created with
          Vectors,   \* the vectors of operations in use
          Values,    \* the values a semaphore can be set to
          NoSet      \* what is in a slot without a set

VARIABLES set,       \* for each slot, the values of its semaphores, or NoSet
          owed       \* owed[p][id][n]: what p's end adds to semaphore n of id

Num == 0 .. 4        \* MAX_SOPS bounds the numbers that one vector can name

\* The values of a set after each prefix of a vector
After(v, sops) ==
    LET a[k \in 0 .. Len(sops)] ==
          IF k = 0 THEN v
          ELSE [a[k-1] EXCEPT ![sops[k].num] = @ + sops[k].op]
    IN  a

\* Operation k can be performed when those before it have been.
Possible(v, sops, k) ==
    LET x == After(v, sops)[k-1][sops[k].num]
    IN  IF sops[k].op = 0 THEN x = 0 ELSE x + sops[k].op >= 0

\* The changes of a vector that are to be undone, semaphore by semaphore
Undone(o, sops) ==
    After(o, [k \in DOMAIN sops |->
                [num |-> sops[k].num,
                 op  |-> IF sops[k].undo THEN -sops[k].op ELSE 0]])[Len(sops)]

\* A change that is undone takes a counter no lower than 0.
AtLeast0(x) == IF x < 0 THEN 0 ELSE x

Init ==
    /\ set = [id \in SemId |-> NoSet]
    /\ owed = [p \in Proc |-> [id \in SemId |-> [n \in Num |-> 0]]]

Create(id, n) ==
    /\ set[id] = NoSet
    /\ set' = [set EXCEPT ![id] = [k \in 0 .. n-1 |-> 0]]
    /\ UNCHANGED owed

Remove(id) ==
    /\ set[id] # NoSet
    /\ set' = [set EXCEPT ![id] = NoSet]
    /\ owed' = [p \in Proc |-> [owed[p] EXCEPT ![id] = [n \in Num |-> 0]]]

\* SETVAL: what is owed to the old value is forgotten with it.
SetOne(id, n, v) ==
    /\ set[id] # NoSet /\ n \in DOMAIN set[id]
    /\ set' = [set EXCEPT ![id][n] = v]
    /\ owed' = [p \in Proc |-> [owed[p] EXCEPT ![id][n] = 0]]

Operate(p, id, sops) ==
    /\ set[id] # NoSet
    /\ \A k \in DOMAIN sops : /\ sops[k].num \in DOMAIN set[id]
                              /\ Possible(set[id], sops, k)
    /\ set' = [set EXCEPT ![id] = After(@, sops)[Len(sops)]]
    /\ owed' = [owed EXCEPT ![p][id] = Undone(@, sops)]

End(p) ==
    /\ set' = [id \in SemId |->
                 IF set[id] = NoSet THEN NoSet
                 ELSE [n \in DOMAIN set[id] |->
                         AtLeast0(set[id][n] + owed[p][id][n])]]
    /\ owed' = [owed EXCEPT ![p] = [id \in SemId |-> [n \in Num |-> 0]]]

Next ==
    \/ \E id \in SemId :
         \/ \E n \in SetSizes : Create(id, n)
         \/ Remove(id)
         \/ \E n \in Num, v \in Values : SetOne(id, n, v)
         \/ \E p \in Proc, sops \in Vectors : Operate(p, id, sops)
    \/ \E p \in Proc : End(p)

Spec == Init /\ [][Next]_<<set, owed>>

================================================================================
