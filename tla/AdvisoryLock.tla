----------------------------- MODULE AdvisoryLock -----------------------------
(***************************************************************************)
(* The advisory locks of one file, kern/vfs_lockf.c: lf_advlock with all   *)
(* that lf_setlock and lf_clearlock do to the list of locks, the lists of  *)
(* requests blocked on a lock, the sleeps and the detection of deadlocks.  *)
(*                                                                         *)
(* A request that finds a lock in its way is put on the list lf_block of   *)
(* the first such lock and sleeps on itself; its lf_next then names that   *)
(* lock.  Whoever changes a lock wakes its list, and each request is tried *)
(* anew.  Nothing here runs at interrupt level, so a call is one action up *)
(* to its sleep.  With MallocSleeps the MALLOC of lf_split sleeps too.     *)
(* A request without F_WAIT that is blocked changes nothing and is left    *)
(* out, and so is F_GETLK.                                                 *)
(***************************************************************************)
EXTENDS Integers, Sequences, Functions, FiniteSets

CONSTANTS Proc,          \* the processes: the owners of their POSIX locks
          FileOf,        \* FileOf[p]: the open file that p's flock calls use
          Requests,      \* Requests[p]: the locks p asks for, [posix, type, start, end]
          Unlocks,       \* Unlocks[p]: the ranges that p gives up
          Byte,          \* the bytes told apart; the last stands for all to EOF
          EOF,           \* the end of a range that has none, -1 in the code
          maxlockdepth,  \* how far the detection of deadlocks looks
          MallocSleeps   \* whether the MALLOC in lf_split may sleep

\* The ranges there are: one that has an end does not end before it starts
\* (fcntl.2: with a negative l_len "the result is undefined").
Ranges(types) ==
    {r \in [posix : BOOLEAN, type : types, start : Nat, end : Nat \cup {EOF}] :
        r.end = EOF \/ r.start <= r.end}

\* Where the detection of deadlocks stops
Stop == "stop"

\* A process is no open file: the code tells owners by their addresses.
ASSUME ProcAssumption ==
    IsFiniteSet(Proc) /\ Stop \notin Proc /\ \A p, q \in Proc : FileOf[p] # q
ASSUME EOFAssumption == EOF \notin Nat
ASSUME ByteAssumption == Byte \subseteq Nat
ASSUME DepthAssumption == maxlockdepth \in Nat
ASSUME MallocAssumption == MallocSleeps \in BOOLEAN
ASSUME RequestAssumption ==
    \A p \in Proc : /\ Requests[p] \subseteq Ranges({"RD", "WR"})
                    /\ Unlocks[p] \subseteq Ranges({"UN"})

VARIABLES locks,         \* the list of the file: the locks in force
          at,            \* at[p]: "user", "asleep" (p_wchan is set), "ready"
                         \*   (it is not any more), "malloc" or "unmalloc": in
                         \*   lf_split, called by lf_setlock or lf_clearlock
          req,           \* req[p]: the request p is in lf_setlock with
          next,          \* lf_next of p's request: "none", the lock whose list
                         \*   it is on ("lock") or a lock that was freed ("freed")
          sig,           \* p's sleep is to end with EINTR
          broken         \* a structure was used after it was freed

vars == <<locks, at, req, next, sig, broken>>

NoReq == [posix |-> TRUE, type |-> "UN", start |-> 0, end |-> EOF]

Id(p, r) == IF r.posix THEN p ELSE FileOf[p]

Lock(p, r) == [id |-> Id(p, r), posix |-> r.posix, type |-> r.type,
               start |-> r.start, end |-> r.end, blocks |-> <<>>]

Init == /\ locks = <<>>
        /\ at = [p \in Proc |-> "user"]
        /\ req = [p \in Proc |-> NoReq]
        /\ next = [p \in Proc |-> "none"]
        /\ sig = [p \in Proc |-> FALSE]
        /\ broken = FALSE
--------------------------------------------------------------------------------
\* A mistake: a lock that starts at the last byte of a range counts as after it.
BadIsAfter(x, new) == new.end # EOF /\ x.start >= new.end

\* lf_findoverlap: x ends before new starts, and x starts after new ends
IsBefore(x, new) == x.end # EOF /\ new.start > x.end
IsAfter(x, new)  == new.end # EOF /\ x.start > new.end
Overlap(x, new)  == ~IsBefore(x, new) /\ ~IsAfter(x, new)
Same(x, new)     == x.start = new.start /\ x.end = new.end

\* What is left of a lock on either side of a range (cases 2, 4 and 5), with the
\* requests blocked on it woken
Piece(x, s, e) == [x EXCEPT !.start = s, !.end = e, !.blocks = <<>>]
LeftOf(x, new) ==
    IF x.start < new.start THEN <<Piece(x, x.start, new.start - 1)>> ELSE <<>>
RightOf(x, new) ==
    IF new.end # EOF /\ (x.end = EOF \/ x.end > new.end)
    THEN <<Piece(x, new.end + 1, x.end)>> ELSE <<>>
Covers(new, x) == LeftOf(x, new) = <<>> /\ RightOf(x, new) = <<>>

\* A mistake: nobody is woken when an exclusive lock becomes a shared one.
BadDowngrade(x, new) == FALSE

Downgrade(x, new) == new.type = "RD" /\ x.type = "WR"

\* A mistake: the first of the list is woken and the others are dropped with it.
BadWake(a, x) ==
    IF x.blocks = <<>> THEN a ELSE [a EXCEPT !.woken = @ \cup {Head(x.blocks)}]

\* A pass over the list: the list so far, the place of the new lock in it (0:
\* needtolink), whether the search has ended, the requests woken, and those whose
\* lock was freed when the new lock took its list over.
Pass == [out |-> <<>>, place |-> 0, done |-> FALSE, woken |-> {}, freed |-> {}]
Keep(a, x)  == [a EXCEPT !.out = Append(@, x)]
Wake(a, x)  == [a EXCEPT !.woken = @ \cup Range(x.blocks)]
Link(a, new) == IF a.place # 0 THEN a
                ELSE [a EXCEPT !.out = Append(@, new), !.place = Len(a.out) + 1]
\* Case 3: the new lock takes the list of the lock it replaces.
Take(a, x)  == [a EXCEPT !.out[a.place].blocks = x.blocks \o @,
                         !.freed = @ \cup Range(x.blocks)]
Add(a, s)   == [a EXCEPT !.out = @ \o s]

\* What setting new does when the search comes to a lock x of the same owner
SetCase(a, x, new) ==
    CASE IsAfter(x, new)  -> [Keep(Link(a, new), x) EXCEPT !.done = TRUE]
      [] IsBefore(x, new) -> Keep(a, x)
      [] Same(x, new) ->
            IF Downgrade(x, new)
            THEN [Keep(Wake(a, x), [x EXCEPT !.type = "RD", !.blocks = <<>>])
                    EXCEPT !.done = TRUE, !.place = Len(a.out) + 1]
            ELSE [Keep(a, [x EXCEPT !.type = new.type])
                    EXCEPT !.done = TRUE, !.place = Len(a.out) + 1]
      [] Overlap(x, new) /\ Covers(new, x) /\ ~Same(x, new) ->
            IF Downgrade(x, new) THEN Wake(Link(a, new), x)
                                 ELSE Take(Link(a, new), x)
      [] Overlap(x, new) /\ ~Covers(new, x) ->
            IF Covers(x, new) /\ x.type = new.type
            THEN [Keep(a, x) EXCEPT !.done = TRUE, !.place = Len(a.out) + 1]
            ELSE Add(Link(Add(Wake(a, x), LeftOf(x, new)), new), RightOf(x, new))

\* The pass of setting new after each of the locks
SetPasses(new) ==
    LET pass[k \in 0 .. Len(locks)] ==
          IF k = 0 THEN Pass
          ELSE IF pass[k-1].done \/ locks[k].id # new.id THEN Keep(pass[k-1], locks[k])
          ELSE SetCase(pass[k-1], locks[k], new)
    IN  pass
SetPass(new) == Link(SetPasses(new)[Len(locks)], new)

\* What clearing a range does when the search comes to a lock x of the same owner:
\* it is woken and cut.
ClearCase(a, x, gone) ==
    IF IsBefore(x, gone) THEN Keep(a, x)
    ELSE IF IsAfter(x, gone) THEN [Keep(a, x) EXCEPT !.done = TRUE]
    ELSE Add(Wake(a, x), LeftOf(x, gone) \o RightOf(x, gone))

\* lf_clearlock: the pass after each of the locks, and after all of them
ClearPasses(list, gone) ==
    LET pass[k \in 0 .. Len(list)] ==
          IF k = 0 THEN Pass
          ELSE IF pass[k-1].done \/ list[k].id # gone.id THEN Keep(pass[k-1], list[k])
          ELSE ClearCase(pass[k-1], list[k], gone)
    IN  pass
ClearPass(list, gone) == ClearPasses(list, gone)[Len(list)]

\* lf_split needs a structure more when what it splits has two ends left.
SplitBy(new) ==
    {i \in DOMAIN locks :
        LET x == locks[i]
        IN  /\ x.id = new.id /\ Overlap(x, new) /\ x.type # new.type
            /\ LeftOf(x, new) # <<>> /\ RightOf(x, new) # <<>>}

\* lf_getblock: x is the lock of another owner and in the way of new.
InTheWay(x, new) ==
    x.id # new.id /\ Overlap(x, new) /\ "WR" \in {x.type, new.type}

\* A mistake: an exclusive request passes the shared locks of others.
BadBlocks(new) ==
    {i \in DOMAIN locks : InTheWay(locks[i], new) /\ locks[i].type = "WR"}

\* The places of such locks, and the first of them, 0 if there is none
Blocks(new) == {i \in DOMAIN locks : InTheWay(locks[i], new)}
GetBlock(new) ==
    IF Blocks(new) = {} THEN 0
    ELSE CHOOSE i \in Blocks(new) : \A j \in Blocks(new) : i <= j

\* The lock whose list p's request is on, and that lock's owner
BlockOf(p) == CHOOSE i \in DOMAIN locks : p \in Range(locks[i].blocks)

\* The process that the detection of deadlocks looks at after q: the owner of the
\* lock that q sleeps for
Blocker(q) ==
    IF q = Stop \/ at[q] # "asleep" THEN Stop
    ELSE LET x == locks[BlockOf(q)] IN IF x.posix THEN x.id ELSE Stop
Chain(q) ==
    LET chain[i \in 0 .. maxlockdepth] == IF i = 0 THEN q ELSE Blocker(chain[i-1])
    IN  chain

\* It ends at p itself, which would wait for itself, or else at a request whose
\* lf_next names a lock that is gone.
Reaches(p, q, n) == \A i \in 0 .. n-1 : Chain(q)[i] \notin {p, Stop}
\* A mistake: only cycles of two processes are looked for.
BadDeadlock(p, q) == Chain(q)[1] = p

Deadlock(p, q) ==
    \E n \in 1 .. maxlockdepth : Reaches(p, q, n) /\ Chain(q)[n] = p
UsesFreed(p, q) ==
    \E n \in 0 .. maxlockdepth - 1 :
        /\ Reaches(p, q, n + 1)
        /\ at[Chain(q)[n]] = "asleep" /\ next[Chain(q)[n]] = "freed"

\* What a pass does to the processes: whom it wakes, and whose lock it freed
Ready(pass) == [q \in Proc |-> IF q \in pass.woken /\ at[q] = "asleep"
                               THEN "ready" ELSE at[q]]
NextAfter(pass) == [q \in Proc |-> IF q \in pass.woken THEN "none"
                               ELSE IF q \in pass.freed THEN "freed" ELSE next[q]]
--------------------------------------------------------------------------------
Break == broken' = TRUE /\ UNCHANGED <<locks, at, req, next, sig>>

Return(p) ==
    /\ at' = [at EXCEPT ![p] = "user"]
    /\ req' = [req EXCEPT ![p] = NoReq]
    /\ UNCHANGED <<locks, next, sig, broken>>

\* No blocks: the list takes the new lock.
Grant(p, r) ==
    LET pass == SetPass(Lock(p, r))
    IN  /\ locks' = pass.out
        /\ at' = [Ready(pass) EXCEPT ![p] = "user"]
        /\ req' = [req EXCEPT ![p] = NoReq]
        /\ next' = NextAfter(pass)
        /\ UNCHANGED <<sig, broken>>

WaitForMemory(p, r) ==
    /\ MallocSleeps
    /\ SplitBy(Lock(p, r)) # {}
    /\ at' = [at EXCEPT ![p] = "malloc"]
    /\ req' = [req EXCEPT ![p] = r]
    /\ UNCHANGED <<locks, next, sig, broken>>

\* The request goes to the end of the block's list.  An exclusive flock gives up
\* the shared lock it has first.
Sleep(p, r, b) ==
    LET new  == Lock(p, r)
        list == [locks EXCEPT ![b].blocks = Append(@, p)]
        pass == IF r.posix \/ r.type # "WR" THEN [Pass EXCEPT !.out = list]
                ELSE ClearPass(list, new)
    IN  /\ locks' = pass.out
        /\ at' = [Ready(pass) EXCEPT ![p] = "asleep"]
        /\ req' = [req EXCEPT ![p] = r]
        /\ next' = [NextAfter(pass) EXCEPT ![p] = "lock"]
        /\ UNCHANGED <<sig, broken>>

\* One turn of the loop of lf_setlock
Try(p, r) ==
    LET new == Lock(p, r)
        b   == GetBlock(new)
    IN  IF b = 0 THEN Grant(p, r) \/ WaitForMemory(p, r)
        ELSE IF ~(r.posix /\ locks[b].posix) THEN Sleep(p, r, b)
        ELSE IF UsesFreed(p, locks[b].id) THEN Break
        ELSE IF Deadlock(p, locks[b].id) THEN Return(p)
        ELSE Sleep(p, r, b)
--------------------------------------------------------------------------------
SetLock(p, r) ==
    /\ ~broken
    /\ at[p] = "user"
    /\ Try(p, r)

ClearLock(p, u) ==
    /\ ~broken
    /\ at[p] = "user"
    /\ LET pass == ClearPass(locks, Lock(p, u))
       IN  /\ locks' = pass.out
           /\ at' = Ready(pass)
           /\ next' = NextAfter(pass)
    /\ UNCHANGED <<req, sig, broken>>

\* lf_clearlock has woken the requests on the lock that it goes on to split.
ClearWaits(p, u) ==
    /\ ~broken
    /\ at[p] = "user" /\ MallocSleeps
    /\ \E i \in SplitBy(Lock(p, u)) :
          LET pass == Wake(Pass, locks[i])
          IN  /\ locks' = [locks EXCEPT ![i].blocks = <<>>]
              /\ at' = [Ready(pass) EXCEPT ![p] = "unmalloc"]
              /\ next' = NextAfter(pass)
    /\ req' = [req EXCEPT ![p] = u]
    /\ UNCHANGED <<sig, broken>>

\* Requests that were blocked on the lock meanwhile stay on its first part.
FirstPart(x, gone) == <<[x EXCEPT !.end = gone.start - 1]>>
ClearSplits(p) ==
    /\ ~broken
    /\ at[p] = "unmalloc"
    /\ LET gone == Lock(p, req[p])
       IN  \E i \in SplitBy(gone) :
             locks' = SubSeq(locks, 1, i-1) \o FirstPart(locks[i], gone)
                      \o RightOf(locks[i], gone) \o SubSeq(locks, i+1, Len(locks))
    /\ at' = [at EXCEPT ![p] = "user"]
    /\ req' = [req EXCEPT ![p] = NoReq]
    /\ UNCHANGED <<next, sig, broken>>

\* A signal ends the sleep, or the call of a process that was woken already.
Signal(p) ==
    /\ ~broken
    /\ at[p] \in {"asleep", "ready"}
    /\ sig' = [sig EXCEPT ![p] = TRUE]
    /\ at' = [at EXCEPT ![p] = "ready"]
    /\ UNCHANGED <<locks, req, next, broken>>

Retry(p) ==
    /\ ~broken
    /\ at[p] = "ready" /\ ~sig[p]
    /\ Try(p, req[p])

\* A mistake: a request that ends with an error stays on its list.
BadGiveUp(p) ==
    /\ ~broken
    /\ at[p] = "ready" /\ sig[p]
    /\ IF next[p] = "freed" THEN Break
       ELSE /\ at' = [at EXCEPT ![p] = "user"]
            /\ req' = [req EXCEPT ![p] = NoReq]
            /\ next' = [next EXCEPT ![p] = "none"]
            /\ sig' = [sig EXCEPT ![p] = FALSE]
            /\ UNCHANGED <<locks, broken>>

\* The list s without p
Without(s, p) ==
    IF p \notin Range(s) THEN s
    ELSE LET i == CHOOSE i \in DOMAIN s : s[i] = p
         IN  SubSeq(s, 1, i-1) \o SubSeq(s, i+1, Len(s))

\* The request is looked for on the list that its lf_next leads to.
GiveUp(p) ==
    /\ ~broken
    /\ at[p] = "ready" /\ sig[p]
    /\ IF next[p] = "freed" THEN Break
       ELSE /\ locks' = [i \in DOMAIN locks |->
                            [locks[i] EXCEPT !.blocks = Without(@, p)]]
            /\ at' = [at EXCEPT ![p] = "user"]
            /\ req' = [req EXCEPT ![p] = NoReq]
            /\ next' = [next EXCEPT ![p] = "none"]
            /\ sig' = [sig EXCEPT ![p] = FALSE]
            /\ UNCHANGED broken

\* The structure is there, and lf_split goes on with what it was called for.
GetMemory(p) ==
    /\ ~broken
    /\ at[p] = "malloc"
    /\ Grant(p, req[p])

\* A process that sleeps no more goes on where it was.
Run(p) == Retry(p) \/ GiveUp(p) \/ GetMemory(p) \/ ClearSplits(p)

Next == \E p \in Proc :
            \/ \E r \in Requests[p] : SetLock(p, r)
            \/ \E u \in Unlocks[p] : ClearLock(p, u) \/ ClearWaits(p, u)
            \/ Signal(p)
            \/ Run(p)

Spec == Init /\ [][Next]_vars

\* Sleeps end, and a process gives up all its locks in the end (at its exit, if
\* not before: closef).
ClearAll(p) == \E u \in Unlocks[p] : u.start = 0 /\ u.end = EOF /\ ClearLock(p, u)

FairSpec == Spec /\ \A p \in Proc : WF_vars(Run(p)) /\ WF_vars(ClearAll(p))
--------------------------------------------------------------------------------
\* The fields of locks and requests (sys/lockf.h), and the state of each process
\* in lf_setlock.  The locks of one owner do not overlap and lie on the list in
\* order: lf_findoverlap relies on it when it stops at the first lock past the
\* range.
LockType ==
    [id : Proc \cup {FileOf[p] : p \in Proc}, posix : BOOLEAN, type : {"RD", "WR"},
     start : Nat, end : Nat \cup {EOF}, blocks : Seq(Proc)]

TypeOK ==
    /\ locks \in Seq(LockType)
    /\ \A i \in DOMAIN locks :
         /\ \E p \in Proc : locks[i].id = Id(p, locks[i])
         /\ locks[i].end = EOF \/ locks[i].start <= locks[i].end
         /\ \A j \in DOMAIN locks :
                i < j /\ locks[i].id = locks[j].id => IsBefore(locks[i], locks[j])
    /\ at \in [Proc -> {"user", "asleep", "ready", "malloc", "unmalloc"}]
    /\ \A p \in Proc : req[p] \in Requests[p] \cup Unlocks[p] \cup {NoReq}
    /\ next \in [Proc -> {"none", "lock", "freed"}]
    /\ sig \in [Proc -> BOOLEAN]
    /\ broken \in BOOLEAN

\* A request is on the list of one lock, once, from its sleep until it is woken
\* or leaves, and on no list otherwise: "lost lock" is never true.
Places(p) == {x \in UNION {{i} \X DOMAIN locks[i].blocks : i \in DOMAIN locks} :
                locks[x[1]].blocks[x[2]] = p}
OnItsList ==
    \A p \in Proc :
        /\ Cardinality(Places(p)) = IF next[p] = "none" THEN 0 ELSE 1
        /\ at[p] = "asleep" => next[p] # "none"
        /\ at[p] \in {"user", "malloc", "unmalloc"} => next[p] = "none"

\* Every process asleep in lf_setlock is on the list of a lock that is in its way
\* still: what no longer excludes a request has woken it.
NoMissedWakeup ==
    \A p \in Proc : at[p] = "asleep" =>
        LET new == Lock(p, req[p]) IN
        \E i \in DOMAIN locks :
            /\ p \in Range(locks[i].blocks)
            /\ locks[i].id # new.id /\ Overlap(locks[i], new)
            /\ "WR" \in {locks[i].type, new.type}

\* No processes sleep for one another's locks, whatever locks were taken over,
\* split and retried since each one's check (fcntl.2: EDEADLK).
NoDeadlock ==
    \A S \in (SUBSET Proc) \ {{}} :
        \E p \in S : at[p] = "asleep" => locks[BlockOf(p)].id \notin S

\* The code reads and writes no lock that it has freed (the assertion "lost lock"
\* and the comment "remember who blocked us" take lf_next to be in force).
NoFreedUse == ~broken

\* The list with its splits and the sleeps in between sets and clears whole ranges
\* at once, and each owner's locks are what it asked for and nothing else.
Held(o, b) ==
    LET on == {i \in DOMAIN locks : locks[i].id = o /\ locks[i].start <= b
                                       /\ (locks[i].end = EOF \/ b <= locks[i].end)}
    IN  IF on = {} THEN "UN" ELSE locks[CHOOSE i \in on : TRUE].type
Owners == UNION {{Id(p, r) : r \in Requests[p]} : p \in Proc}
Bytes == INSTANCE ByteLocks
           WITH Owner <- Owners, held <- [o \in Owners |-> [b \in Byte |-> Held(o, b)]]
KeepsPromise == Bytes!Spec

\* When no new locks are asked for, every request that sleeps comes to an end as
\* the locks are given up: none is left behind on a list.
NewRequests == \E p \in Proc : \E r \in Requests[p] : SetLock(p, r)
AllServed ==
    <>[][~NewRequests]_vars =>
        \A p \in Proc : at[p] = "asleep" ~> (at[p] = "user" \/ broken)
===============================================================================
