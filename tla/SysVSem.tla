-------------------------------- MODULE SysVSem --------------------------------
(***************************************************************************)
(* System V semaphores: kern/sysv_sem.c.                                   *)
(*                                                                         *)
(* A process in the kernel is not preempted, so what a system call does    *)
(* from its beginning, or from the return of a sleep, to its end or its    *)
(* next sleep is one action.  It can sleep in tsleep (semop), in sleep     *)
(* (semlock, semexit), and in copyin, when the page of its arguments has   *)
(* to be brought in ("fault" below).                                       *)
(*                                                                         *)
(* A call that is rejected before it changes anything is left out, and so  *)
(* are permissions, keys, sempid and the calls that only read: semget is   *)
(* the creation of a set, and the identifiers in use are valid when the    *)
(* call begins.  Waiting in semlock is the guard MayEnter: a process that  *)
(* waits there has done nothing yet, and every thaw wakes all of them.     *)
(***************************************************************************)
EXTENDS Integers, Sequences, FiniteSets

CONSTANTS Proc, NoProc,
          SemMni,    \* seminfo.semmni: slots for sets
          SemMns,    \* seminfo.semmns: semaphores in the pool
          SemMnu,    \* seminfo.semmnu: undo structures
          SemUme,    \* SEMUME: entries of one undo structure
          SetSizes,  \* the sizes semget is called with
          Vectors,   \* the vectors semop is called with
          Values,    \* the values of SETVAL and SETALL
          Calls,     \* the calls and events in use
          MaxVal,    \* bound: no vector takes a value beyond it
          MaxSeq,    \* bound: a slot is used no more often
          MaxCnt,    \* bound: nobody joins the wait for a semaphore at this count
          NoSet      \* what SemaphoreSets has in a free slot

SemId == 0 .. SemMni - 1
Num   == 0 .. 4      \* the numbers a vector can name
Pool  == 0 .. SemMns - 1
U16   == 0 .. 65535  \* u_short
AllCalls == {"rmid", "setval", "setall", "freeze", "exit", "signal", "fault"}

ASSUME ProcAssumption == IsFiniteSet(Proc) /\ NoProc \notin Proc
ASSUME SizeAssumption ==
    /\ SemMni \in Nat \ {0} /\ SemMns \in Nat /\ SemMnu \in Nat /\ SemUme \in Nat
    /\ MaxVal \in Nat /\ MaxSeq \in Nat /\ MaxCnt \in Nat
    /\ SetSizes \subseteq 1 .. 5
ASSUME ArgumentAssumption == Values \subseteq U16 /\ Calls \subseteq AllCalls
ASSUME VectorAssumption ==
    Vectors \subseteq Seq([num : Num, op : Int, nowait : BOOLEAN, undo : BOOLEAN])

VARIABLES sema,      \* the semid_ds of each slot
          sem,       \* the pool of struct sem
          semtot,    \* how many of the pool are in use
          undo,      \* undo[p][id][n]: un_adjval, 0 where there is no entry
          semu,      \* the processes that have an undo structure
          holder,    \* semlock_holder
          call,      \* where each process is
          panicked

vars == <<sema, sem, semtot, undo, semu, holder, call, panicked>>

u16(x) == x % 65536

SemRec == [val : U16, ncnt : U16, zcnt : U16]

Idle == [pc |-> "user", id |-> 0, seq |-> 0, sops |-> << >>, at |-> 0,
         semptr |-> 0, num |-> 0]

TypeOK ==
    /\ sema \in [SemId -> [alloc : BOOLEAN, seq : 0 .. MaxSeq,
                           base : 0 .. SemMns, nsems : 0 .. 5]]
    /\ sem \in [Pool -> SemRec]
    /\ semtot \in 0 .. SemMns
    /\ undo \in [Proc -> [SemId -> [Num -> Int]]]
    /\ semu \subseteq Proc
    /\ holder \in Proc \cup {NoProc}
    /\ DOMAIN call = Proc
    /\ panicked \in BOOLEAN

NoEntries == [id \in SemId |-> [n \in Num |-> 0]]

Init ==
    /\ sema = [id \in SemId |-> [alloc |-> FALSE, seq |-> 0, base |-> 0, nsems |-> 0]]
    /\ sem = [j \in Pool |-> [val |-> 0, ncnt |-> 0, zcnt |-> 0]]
    /\ semtot = 0
    /\ undo = [p \in Proc |-> NoEntries]
    /\ semu = {}
    /\ holder = NoProc
    /\ call = [p \in Proc |-> Idle]
    /\ panicked = FALSE

--------------------------------------------------------------------------------
\* Helpers.  Definitions whose names start with Bad are slips a maintainer could
\* make, and no part of the specification.

\* semlock lets p through.
MayEnter(p) == holder \in {NoProc, p}

\* p begins a system call.
Enters(p) == ~panicked /\ call[p].pc = "user" /\ MayEnter(p)

\* The place in the pool of semaphore n of the set in slot id
At(id, n) == sema[id].base + n

\* The values of the set in slot id, given the pool S
ValuesOf(S, id) == [n \in 0 .. sema[id].nsems - 1 |-> S[At(id, n)].val]

\* The pool S with the values v for the set in slot id
WithValues(S, id, v) ==
    [j \in Pool |-> IF \E n \in DOMAIN v : At(id, n) = j
                    THEN [S[j] EXCEPT !.val = u16(v[j - sema[id].base])]
                    ELSE S[j]]

\* wakeup(semaptr): what becomes of the calls C
Wakeup(C, id) ==
    [q \in Proc |-> IF C[q].pc = "semwait" /\ C[q].id = id
                    THEN [C[q] EXCEPT !.pc = "woken"] ELSE C[q]]

\* The values, or the undo entries, v after each prefix of the vector sops
After(v, sops) ==
    LET a[k \in 0 .. Len(sops)] ==
          IF k = 0 THEN v
          ELSE [a[k-1] EXCEPT ![sops[k].num] = @ + sops[k].op]
    IN  a

OutOfRange(v, sops, k) == sops[k].num \notin DOMAIN v

\* Operation k has to wait, the ones before it having been performed.
MustWait(v, sops, k) ==
    LET x == After(v, sops)[k-1][sops[k].num]
    IN  \/ sops[k].op < 0 /\ x + sops[k].op < 0
        \/ sops[k].op = 0 /\ x > 0

\* Where the loop over the vector ends: at the first operation that is out of
\* range or has to wait, or past the last
StopsAt(v, sops) ==
    CHOOSE k \in 1 .. Len(sops) + 1 :
      /\ \A j \in 1 .. k-1 : ~OutOfRange(v, sops, j) /\ ~MustWait(v, sops, j)
      /\ k <= Len(sops) => OutOfRange(v, sops, k) \/ MustWait(v, sops, k)

\* A do_wakeup that looks at the first operation only
BadDoWakeup(S, id, sops) ==
    sops # << >> /\ sops[1].op > 0 /\ S[At(id, sops[1].num)].ncnt > 0

\* do_wakeup, after the whole vector has been performed on the pool S
DoWakeup(S, id, sops) ==
    \E k \in DOMAIN sops :
      LET s == S[At(id, sops[k].num)]
          x == After(ValuesOf(S, id), sops)[k][sops[k].num]
      IN  \/ sops[k].op > 0 /\ s.ncnt > 0
          \/ sops[k].op < 0 /\ x = 0 /\ s.zcnt > 0

--------------------------------------------------------------------------------
\* Undo structures

\* The entries in use, un_cnt
UnCnt(e) == Cardinality({x \in SemId \X Num : e[x[1]][x[2]] # 0})

\* semu_alloc for p, which has no structure: a free one, or else one of those
\* that are purged because they are empty.  The result is the new semu, or
\* semu itself where nothing is to be had.
SemuAlloc(p) ==
    IF Cardinality(semu) < SemMnu THEN semu \cup {p}
    ELSE LET used == {q \in semu : UnCnt(undo[q]) > 0}
         IN  IF used = semu THEN semu ELSE used \cup {p}

\* What is entered for each operation of sops: nothing, or its inverse
Adjustments(sops) ==
    [k \in DOMAIN sops |->
        [num |-> sops[k].num, op |-> IF sops[k].undo THEN -sops[k].op ELSE 0]]

\* The entries e after each of the adjustments adj to the set in slot id
Adjusted(e, id, adj) ==
    [k \in 0 .. Len(adj) |-> [e EXCEPT ![id] = After(@, adj)[k]]]

\* semundo_adjust, which is not called for nothing, never meets a full structure.
EntriesSuffice(e, id, adj) ==
    \A k \in DOMAIN adj :
      LET b == Adjusted(e, id, adj)[k-1]
      IN  adj[k].op = 0 \/ b[id][adj[k].num] # 0 \/ UnCnt(b) < SemUme

\* semundo_clear(id, n): an undo structure is searched up to its first entry
\* for the set, whichever semaphore of the set that is for.
UndoCleared(id, n) ==
    {u \in [Proc -> {undo[p] : p \in Proc}
                      \cup {[undo[p] EXCEPT ![id][n] = 0] : p \in Proc}] :
       \A p \in Proc :
         \/ u[p] = [undo[p] EXCEPT ![id][n] = 0]
         \/ /\ u[p] = undo[p]
            /\ \E m \in Num \ {n} : undo[p][id][m] # 0}

\* A removal that keeps what is owed to the set
BadAllUndoCleared(id) == undo

\* semundo_clear(id, -1)
AllUndoCleared(id) == [p \in Proc |-> [undo[p] EXCEPT ![id] = [n \in Num |-> 0]]]

--------------------------------------------------------------------------------
\* semop

\* The call of p returns.
Return(p) == [call EXCEPT ![p] = Idle]

InBound(v) == \A n \in DOMAIN v : v[n] <= MaxVal

\* A vector that is abandoned at its k-th operation: sem_num is out of range.
TooBig(p, S, c, v, k) ==
    /\ InBound(After(v, c.sops)[k-1])
    /\ sem' = WithValues(S, c.id, After(v, c.sops)[k-1])
    /\ call' = Return(p)
    /\ UNCHANGED <<undo, semu>>

\* A rollback that is forgotten: what was performed before the k-th operation stays.
BadWouldWait(p, S, c, k) ==
    LET op  == c.sops[k]
        ptr == At(c.id, op.num)
        T   == WithValues(S, c.id, After(ValuesOf(S, c.id), c.sops)[k-1])
    IN  /\ UNCHANGED <<undo, semu>>
        /\ \/ /\ op.nowait
              /\ sem' = T
              /\ call' = Return(p)
           \/ /\ ~op.nowait
              /\ T[ptr].ncnt < MaxCnt /\ T[ptr].zcnt < MaxCnt
              /\ sem' = IF op.op = 0 THEN [T EXCEPT ![ptr].zcnt = u16(@ + 1)]
                                     ELSE [T EXCEPT ![ptr].ncnt = u16(@ + 1)]
              /\ call' = [call EXCEPT ![p] = [c EXCEPT !.pc = "semwait",
                                                !.at = k, !.semptr = ptr]]

\* It has to wait at its k-th operation: all is rolled back.
WouldWait(p, S, c, k) ==
    LET op  == c.sops[k]
        ptr == At(c.id, op.num)
    IN  /\ UNCHANGED <<undo, semu>>
        /\ \/ /\ op.nowait
              /\ sem' = S
              /\ call' = Return(p)
           \/ /\ ~op.nowait
              /\ S[ptr].ncnt < MaxCnt /\ S[ptr].zcnt < MaxCnt
              /\ sem' = IF op.op = 0 THEN [S EXCEPT ![ptr].zcnt = u16(@ + 1)]
                                     ELSE [S EXCEPT ![ptr].ncnt = u16(@ + 1)]
              /\ call' = [call EXCEPT ![p] = [c EXCEPT !.pc = "semwait",
                                                !.at = k, !.semptr = ptr]]

\* It was performed: the undo entries are made, or all of it is rolled back.
Performed(p, S, c, v) ==
    LET adj  == Adjustments(c.sops)
        none == \A k \in DOMAIN adj : adj[k].op = 0
        new  == IF none \/ p \in semu THEN semu ELSE SemuAlloc(p)
        ok   == none \/ (p \in new /\ EntriesSuffice(undo[p], c.id, adj))
        res  == After(v, c.sops)[Len(c.sops)]
    IN  /\ semu' = new
        /\ \/ /\ ok
              /\ InBound(res)
              /\ undo' = [undo EXCEPT ![p] = Adjusted(@, c.id, adj)[Len(adj)]]
              /\ sem' = WithValues(S, c.id, res)
              /\ call' = IF DoWakeup(S, c.id, c.sops) THEN Wakeup(Return(p), c.id)
                                                      ELSE Return(p)
           \/ /\ ~ok
              /\ sem' = S
              /\ call' = Return(p)
              /\ UNCHANGED undo

\* The loop of semop, with the pool S, up to the return or the next sleep
Try(p, S, c) ==
    LET v == ValuesOf(S, c.id)
        k == StopsAt(v, c.sops)
    IN  \/ k <= Len(c.sops) /\ OutOfRange(v, c.sops, k) /\ TooBig(p, S, c, v, k)
        \/ k <= Len(c.sops) /\ ~OutOfRange(v, c.sops, k) /\ WouldWait(p, S, c, k)
        \/ k = Len(c.sops) + 1 /\ Performed(p, S, c, v)

\* semop(id, sops); copyin may have to wait for the page of sops.
Semop(p, id, sops) ==
    LET c == [Idle EXCEPT !.pc = "copyin", !.id = id, !.seq = sema[id].seq,
                          !.sops = sops]
    IN  /\ Enters(p) /\ sema[id].alloc
        /\ UNCHANGED <<sema, semtot, holder, panicked>>
        /\ \/ Try(p, sem, c)
           \/ /\ "fault" \in Calls
              /\ call' = [call EXCEPT ![p] = c]
              /\ UNCHANGED <<sem, undo, semu>>

SemopCopied(p) ==
    /\ ~panicked /\ call[p].pc = "copyin"
    /\ Try(p, sem, call[p])
    /\ UNCHANGED <<sema, semtot, holder, panicked>>

\* A wake-up after which the process stays in the count
BadUncounted(p) == sem

\* p leaves the count of the semaphore it has waited for.
Uncounted(p) ==
    LET c == call[p]
    IN  IF c.sops[c.at].op = 0
        THEN [sem EXCEPT ![c.semptr].zcnt = u16(@ - 1)]
        ELSE [sem EXCEPT ![c.semptr].ncnt = u16(@ - 1)]

\* A process that was woken finds its set gone, or starts all over again.
SemopWoken(p) ==
    LET c == call[p]
    IN  /\ ~panicked /\ c.pc = "woken"
        /\ UNCHANGED <<sema, semtot, holder, panicked>>
        /\ \/ /\ ~sema[c.id].alloc \/ sema[c.id].seq # c.seq
              /\ call' = Return(p)
              /\ UNCHANGED <<sem, undo, semu>>
           \/ /\ sema[c.id].alloc /\ sema[c.id].seq = c.seq
              /\ Try(p, Uncounted(p), c)

\* A signal ends the sleep of p.
SemopInterrupted(p) ==
    /\ ~panicked /\ "signal" \in Calls
    /\ call[p].pc \in {"semwait", "woken"}
    /\ call' = Return(p)
    /\ UNCHANGED <<sema, sem, semtot, undo, semu, holder, panicked>>

--------------------------------------------------------------------------------
\* semget, semctl, semconfig

\* A test for room that sees only whether there is any
BadRoom(nsems) == semtot < SemMns

\* The pool has room for a set.
Room(nsems) == nsems <= SemMns - semtot

\* semget of a new set, in the first slot that is free
Semget(p, nsems) ==
    \E id \in SemId :
        /\ Enters(p)
        /\ Room(nsems)
        /\ ~sema[id].alloc /\ \A i \in SemId : i < id => sema[i].alloc
        /\ sema[id].seq < MaxSeq
        /\ sema' = [sema EXCEPT ![id] = [alloc |-> TRUE, seq |-> @.seq + 1,
                                         base |-> semtot, nsems |-> nsems]]
        /\ semtot' = semtot + nsems
        /\ sem' = [j \in Pool |-> IF j \in semtot .. semtot + nsems - 1
                                  THEN [val |-> 0, ncnt |-> 0, zcnt |-> 0]
                                  ELSE sem[j]]
        /\ UNCHANGED <<undo, semu, holder, call, panicked>>

\* An IPC_RMID that leaves the other sets where they were
BadMoved(id) == sema

\* The sets above the one in slot id move down in the pool when it goes.
Moved(id) ==
    [i \in SemId |-> IF sema[i].alloc /\ sema[i].base > sema[id].base
                     THEN [sema[i] EXCEPT !.base = @ - sema[id].nsems] ELSE sema[i]]

\* IPC_RMID
Rmid(p, id) ==
    /\ Enters(p) /\ "rmid" \in Calls
    /\ sema[id].alloc
    /\ semtot' = semtot - sema[id].nsems
    /\ sem' = [j \in Pool |-> IF j \in sema[id].base .. semtot' - 1
                              THEN sem[j + sema[id].nsems] ELSE sem[j]]
    /\ sema' = [Moved(id) EXCEPT ![id].alloc = FALSE]
    /\ undo' = AllUndoCleared(id)
    /\ call' = Wakeup(call, id)
    /\ UNCHANGED <<semu, holder, panicked>>

\* The end of SETVAL, with the value v
SetVal(p, id, n, v) ==
    /\ sem' = [sem EXCEPT ![At(id, n)].val = v]
    /\ undo' \in UndoCleared(id, n)
    /\ call' = Wakeup(Return(p), id)

\* SETVAL; copyin may have to wait for the page of its argument.
Setval(p, id, n) ==
    /\ Enters(p) /\ "setval" \in Calls
    /\ sema[id].alloc /\ n < sema[id].nsems
    /\ UNCHANGED <<sema, semtot, semu, holder, panicked>>
    /\ \/ \E v \in Values : SetVal(p, id, n, v)
       \/ /\ "fault" \in Calls
          /\ call' = [call EXCEPT ![p] = [Idle EXCEPT !.pc = "setval", !.id = id,
                                                      !.num = n]]
          /\ UNCHANGED <<sem, undo>>

SetvalCopied(p) ==
    /\ ~panicked /\ call[p].pc = "setval"
    /\ \E v \in Values : SetVal(p, call[p].id, call[p].num, v)
    /\ UNCHANGED <<sema, semtot, semu, holder, panicked>>

\* SETALL copies in its argument, and then one value after the other; it may have
\* to wait before each, for the page, and the place that the value goes to was
\* computed before that.
Setall(p, id) ==
    /\ Enters(p) /\ "setall" \in Calls
    /\ sema[id].alloc
    /\ call' = [call EXCEPT ![p] = [Idle EXCEPT !.pc = "setallarg", !.id = id]]
    /\ UNCHANGED <<sema, sem, semtot, undo, semu, holder, panicked>>

SetallArg(p) ==
    /\ ~panicked /\ call[p].pc = "setallarg"
    /\ call' = [call EXCEPT ![p].pc = "setall", ![p].semptr = At(call[p].id, 0)]
    /\ UNCHANGED <<sema, sem, semtot, undo, semu, holder, panicked>>

SetallEnds(p) ==
    /\ undo' = AllUndoCleared(call[p].id)
    /\ call' = Wakeup(Return(p), call[p].id)

\* A value arrives: SETALL goes on to the next, or ends after the last.  It ends
\* too at one that cannot be read.
SetallCopied(p) ==
    LET c    == call[p]
        next == c.num + 1
    IN  /\ ~panicked /\ c.pc = "setall"
        /\ UNCHANGED <<sema, semtot, semu, holder, panicked>>
        /\ \/ /\ \E v \in Values : sem' = [sem EXCEPT ![c.semptr].val = v]
              /\ IF next < sema[c.id].nsems
                 THEN /\ call' = [call EXCEPT ![p].num = next,
                                              ![p].semptr = At(c.id, next)]
                      /\ UNCHANGED undo
                 ELSE SetallEnds(p)
           \/ SetallEnds(p) /\ UNCHANGED sem

Freeze(p) ==
    /\ Enters(p) /\ "freeze" \in Calls
    /\ holder' = p
    /\ UNCHANGED <<sema, sem, semtot, undo, semu, call, panicked>>

Thaw(p) ==
    /\ Enters(p) /\ "freeze" \in Calls
    /\ holder' = NoProc
    /\ UNCHANGED <<sema, sem, semtot, undo, semu, call, panicked>>

--------------------------------------------------------------------------------
\* semexit

\* The entries of p: which sets they are for, and whether all make sense
Entries(p) == {x \in SemId \X Num : undo[p][x[1]][x[2]] # 0}
EntriesMakeSense(p) ==
    \A e \in Entries(p) : sema[e[1]].alloc /\ e[2] < sema[e[1]].nsems

\* What an entry makes of a value
UndoneVal(val, adj) == IF adj < 0 /\ val < -adj THEN 0 ELSE u16(val + adj)

\* The entries of p are applied, and its structure is given back.
ApplyUndo(p) ==
    LET hit(j) == {e \in Entries(p) : At(e[1], e[2]) = j}
        ids    == {e[1] : e \in Entries(p)}
    IN  /\ sem' = [j \in Pool |->
                     IF hit(j) = {} THEN sem[j]
                     ELSE LET e == CHOOSE e \in hit(j) : TRUE
                          IN  [sem[j] EXCEPT !.val = UndoneVal(@, undo[p][e[1]][e[2]])]]
        /\ call' = [q \in Proc |-> IF q = p THEN Idle
                                   ELSE IF call[q].pc = "semwait" /\ call[q].id \in ids
                                   THEN [call[q] EXCEPT !.pc = "woken"]
                                   ELSE call[q]]
        /\ undo' = [undo EXCEPT ![p] = NoEntries]
        /\ semu' = semu \ {p}

Panic == panicked' = TRUE /\ UNCHANGED <<sema, sem, semtot, undo, semu, holder, call>>

\* The end of semexit: the undo structure, if any, and then the lock.
Finish(p) ==
    \/ /\ EntriesMakeSense(p)
       /\ ApplyUndo(p)
       /\ holder' = IF holder = p THEN NoProc ELSE holder
       /\ UNCHANGED <<sema, semtot, panicked>>
    \/ ~EntriesMakeSense(p) /\ Panic

\* p exits, and a new process takes its name.  It waits only if the facility is
\* frozen by another process and it has an undo structure.
Semexit(p) ==
    /\ ~panicked /\ "exit" \in Calls
    /\ call[p].pc = "user"
    /\ \/ MayEnter(p) /\ Finish(p)
       \/ /\ ~MayEnter(p) /\ p \in semu
          /\ call' = [call EXCEPT ![p] = [Idle EXCEPT !.pc = "exiting"]]
          /\ UNCHANGED <<sema, sem, semtot, undo, semu, holder, panicked>>

SemexitThawed(p) ==
    /\ ~panicked /\ call[p].pc = "exiting"
    /\ holder = NoProc
    /\ IF p \in semu THEN Finish(p) ELSE Panic

--------------------------------------------------------------------------------
\* What p does
Step(p) ==
    \/ \E id \in SemId, sops \in Vectors : Semop(p, id, sops)
    \/ SemopCopied(p) \/ SemopWoken(p) \/ SemopInterrupted(p)
    \/ \E n \in SetSizes : Semget(p, n)
    \/ \E id \in SemId : Rmid(p, id) \/ Setall(p, id)
    \/ \E id \in SemId, n \in Num : Setval(p, id, n)
    \/ SetvalCopied(p) \/ SetallArg(p) \/ SetallCopied(p)
    \/ Freeze(p) \/ Thaw(p)
    \/ Semexit(p) \/ SemexitThawed(p)

Next == \E p \in Proc : Step(p)

Spec == Init /\ [][Next]_vars

--------------------------------------------------------------------------------
\* Properties

Live == {id \in SemId : sema[id].alloc}

\* The sets lie in the pool one beside the other, none over another and none past
\* semtot, and nothing is left between them, whatever was created and removed:
\* IPC_RMID moves semaphores and pointers by hand (sysv_sem.c:330-337).
PoolPacked ==
    /\ \A id \in Live : sema[id].base + sema[id].nsems <= semtot
    /\ \A i, j \in Live :
         i # j => \/ sema[i].base + sema[i].nsems <= sema[j].base
                  \/ sema[j].base + sema[j].nsems <= sema[i].base
    /\ \A k \in 0 .. semtot - 1 :
         \E id \in Live : k \in sema[id].base .. sema[id].base + sema[id].nsems - 1

\* p is in the wait of semop for semaphore n of the set in slot id.
Awaits(p, id, n) ==
    LET c == call[p]
    IN  /\ c.pc \in {"semwait", "woken"}
        /\ c.id = id /\ c.seq = sema[id].seq
        /\ c.sops[c.at].num = n

\* semncnt and semzcnt, which decide about the wake-ups of semop and are what
\* GETNCNT and GETZCNT report, are the numbers of processes that wait
\* (sys/sem.h, semctl.2:117-120).
CountsAgree ==
    \A id \in Live : \A n \in 0 .. sema[id].nsems - 1 :
      LET waiters == {p \in Proc : Awaits(p, id, n)}
          zero    == {p \in waiters : call[p].sops[call[p].at].op = 0}
      IN  /\ sem[At(id, n)].zcnt = Cardinality(zero)
          /\ sem[At(id, n)].ncnt = Cardinality(waiters \ zero)

\* Nobody sleeps in semop whose vector could be performed now, or whose set is
\* gone: every change that lets a waiter through comes with a wake-up
\* (sysv_sem.c:628-641, 767-776), except while a SETALL is under way.
NoMissedWakeup ==
    \A p \in Proc :
      LET c == call[p]
          v == ValuesOf(sem, c.id)
      IN  c.pc = "semwait" =>
            /\ sema[c.id].alloc /\ sema[c.id].seq = c.seq
            /\ \/ StopsAt(v, c.sops) <= Len(c.sops)
               \/ \E q \in Proc : call[q].pc = "setall" /\ call[q].id = c.id

\* What is to be undone at the end of a process is for semaphores that exist:
\* semexit panics otherwise (sysv_sem.c:915-918).
UndoFits == \A p \in Proc : EntriesMakeSense(p)

\* The values and what is owed, as SemaphoreSets has them
Sets == INSTANCE SemaphoreSets
          WITH set  <- [id \in SemId |-> IF sema[id].alloc THEN ValuesOf(sem, id)
                                                           ELSE NoSet],
               owed <- undo

\* A vector that sleeps, polls or finds no room for what it owes is rolled back
\* (sysv_sem.c:658-660, 741-753) and one that returns is performed as a whole, an end
\* undoes exactly what was asked to be undone, and no set is touched through another:
\* sysv_sem.c implements the semaphores of semop.2 and semctl.2.  It does so under
\* conditions only: no vector performs an operation before one on a semaphore that does
\* not exist (EFBIG at :612 keeps what was performed); where SETVAL is used, vectors
\* owe to one semaphore of a set only (:278); there is no SETALL, which sets one value
\* after the other; no set is removed while copyin sleeps; and no value exceeds 16 bits.
AtomicSets == Sets!Spec

================================================================================
