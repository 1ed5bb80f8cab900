-------------------------------- MODULE Lockmgr --------------------------------
(***************************************************************************)
(* The lock manager, kern/kern_lock.c, on one processor (NCPUS == 1, so    *)
(* simple_lock does nothing) with DIAGNOSTIC.  The kernel is not           *)
(* preemptive: lockmgr runs from its entry, or from a wake-up, to the next *)
(* tsleep or to its return without another process in between, and each    *)
(* such run is one action.                                                 *)
(*                                                                         *)
(* The processes are the callers.  They keep the protocol of lock.h: they  *)
(* release, downgrade and upgrade only what they hold, ask for an          *)
(* exclusive lock only when they have no shared one, and one of them       *)
(* drains at a time.  A request on a lock that is draining or drained is   *)
(* not excluded: the code checks for it.                                   *)
(***************************************************************************)
EXTENDS Naturals, FiniteSets

CONSTANTS Proc,        \* the processes
          NoProc,      \* LK_NOPROC
          Types,       \* the request types in use
          Opts,        \* the external flags in use
          MaxRecurse,  \* bound: the exclusive holds one process may pile up
          Pcatch,      \* TRUE iff lk_prio has PCATCH: signals end a sleep
          Timo         \* TRUE iff lk_timo # 0: a timeout ends a sleep

AllTypes == {"SHARED", "EXCLUSIVE", "UPGRADE", "EXCLUPGRADE",
             "DOWNGRADE", "RELEASE", "DRAIN"}
AllOpts == {"NOWAIT", "SLEEPFAIL", "CANRECURSE", "REENABLE"}

ASSUME ProcAssumption == IsFiniteSet(Proc) /\ NoProc \notin Proc
ASSUME RequestAssumption == Types \subseteq AllTypes /\ Opts \subseteq AllOpts
ASSUME BoundAssumption == MaxRecurse \in Nat \ {0}
ASSUME SleepAssumption == Pcatch \in BOOLEAN /\ Timo \in BOOLEAN

Flags == {"WANT_UPGRADE", "WANT_EXCL", "HAVE_EXCL",
          "WAITDRAIN", "DRAINING", "DRAINED"}

Holds == Proc \X (0 .. MaxRecurse)   \* a process and the rank of its hold

VARIABLES lk,       \* struct lock, the fields lockmgr changes
          at,       \* the tsleep of lockmgr a process is in, or "out"
          wchan,    \* what it sleeps on; "none" once woken, "intr" once the
                    \* sleep has been ended by a signal or a timeout
          opts,     \* which of these flags the request it is in has
          panicked, \* "no", or the panic that stopped the machine
          shares,   \* the shared holds granted and not given back
          excls     \* the exclusive holds granted and not given back

vars == <<lk, at, wchan, opts, panicked, shares, excls>>

LkpStages == {"SHARED", "UPGRADE", "EXCL1", "EXCL2"}   \* tsleep(lkp, ...)
Stages == LkpStages \cup {"DRAIN"}                     \* tsleep(&lkp->lk_flags)

TypeOK ==
    /\ lk \in [flags : SUBSET Flags, sharecount : Nat, waitcount : Nat,
               exclusivecount : Nat, lockholder : Proc \cup {NoProc}]
    /\ at \in [Proc -> Stages \cup {"out"}]
    /\ wchan \in [Proc -> {"none", "lkp", "flags", "intr"}]
    /\ opts \in [Proc -> SUBSET AllOpts]
    /\ panicked \in {"no", "decommissioned", "draining", "exclcount"}
    /\ shares \subseteq Holds
    /\ excls \subseteq Holds

\* lockinit
Init ==
    /\ lk = [flags |-> {}, sharecount |-> 0, waitcount |-> 0,
             exclusivecount |-> 0, lockholder |-> NoProc]
    /\ at = [p \in Proc |-> "out"]
    /\ wchan = [p \in Proc |-> "none"]
    /\ opts = [p \in Proc |-> {}]
    /\ panicked = "no"
    /\ shares = {}
    /\ excls = {}

\* lockstatus
LockStatus ==
    IF lk.exclusivecount # 0 THEN "EXCLUSIVE"
    ELSE IF lk.sharecount # 0 THEN "SHARED"
    ELSE "none"

--------------------------------------------------------------------------------
\* The parts of a request.  l is the lock so far and w the wait channels so far.

\* Slips a maintainer could make are written next to what they would break, as
\* definitions whose names start with Bad; the specification uses none of them.
BadHaveOrWantNoHave == {"WANT_EXCL", "WANT_UPGRADE"}
BadHaveOrWantNoWriter == {"HAVE_EXCL", "WANT_UPGRADE"}
BadHaveOrWantNoUpgrader == {"HAVE_EXCL", "WANT_EXCL"}

HaveOrWant == {"HAVE_EXCL", "WANT_EXCL", "WANT_UPGRADE"}

BadReadersRemain(l) == l.sharecount # 0

\* What an exclusive request that has set WANT_EXCL waits for.
ReadersRemain(l) == l.sharecount # 0 \/ "WANT_UPGRADE" \in l.flags

BadAtRest(l) == l.flags \cap HaveOrWant = {} /\ l.sharecount = 0

\* What a drain waits for.
AtRest(l) ==
    l.flags \cap HaveOrWant = {} /\ l.sharecount = 0 /\ l.waitcount = 0

\* The condition each of the five loops sleeps on.
Wanted(stage, l) ==
    \/ stage = "SHARED"  /\ l.flags \cap HaveOrWant # {}
    \/ stage = "UPGRADE" /\ l.sharecount # 0
    \/ stage = "EXCL1"   /\ l.flags \cap {"HAVE_EXCL", "WANT_EXCL"} # {}
    \/ stage = "EXCL2"   /\ ReadersRemain(l)
    \/ stage = "DRAIN"   /\ ~AtRest(l)

\* LK_NOWAIT on an exclusive request: would it sleep?
WouldBlock(l) == l.flags \cap HaveOrWant # {} \/ l.sharecount # 0

\* wakeup(ident): every process that sleeps on it is runnable
Woken(w, ident) == [q \in Proc |-> IF w[q] = ident THEN "none" ELSE w[q]]

BadWokenIf(l, w) == IF l.waitcount > 1 THEN Woken(w, "lkp") ELSE w

\* "if (lkp->lk_waitcount) wakeup(lkp)"
WokenIf(l, w) == IF l.waitcount # 0 THEN Woken(w, "lkp") ELSE w

\* An upgrade that gives way and leaves the other one asleep
BadYieldWake(l, w) == w

\* The reader that gives its hold up behind another upgrade wakes that upgrade
\* if it was the last reader.
YieldWake(l, w) == IF l.sharecount = 0 THEN WokenIf(l, w) ELSE w

Panic(why) ==
    /\ panicked' = why
    /\ UNCHANGED <<lk, at, wchan, opts, shares, excls>>

BadReturn(p, l, w) ==
    /\ lk' = [l EXCEPT !.flags = IF AtRest(l) THEN @ \ {"WAITDRAIN"} ELSE @]
    /\ wchan' = w
    /\ at' = [at EXCEPT ![p] = "out"]
    /\ opts' = [opts EXCEPT ![p] = {}]
    /\ UNCHANGED panicked

\* The end of lockmgr, which tells a drain that the lock has come to rest.
Return(p, l, w) ==
    LET idle == "WAITDRAIN" \in l.flags /\ AtRest(l)
    IN  /\ lk' = IF idle THEN [l EXCEPT !.flags = @ \ {"WAITDRAIN"}] ELSE l
        /\ wchan' = IF idle THEN Woken(w, "flags") ELSE w
        /\ at' = [at EXCEPT ![p] = "out"]
        /\ opts' = [opts EXCEPT ![p] = {}]
        /\ UNCHANGED panicked

BadSleep(p, stage, o, l, w) ==
    /\ lk' = l
    /\ wchan' = [w EXCEPT ![p] = "lkp"]
    /\ at' = [at EXCEPT ![p] = stage]
    /\ opts' = [opts EXCEPT ![p] = o \cap {"NOWAIT", "SLEEPFAIL"}]
    /\ UNCHANGED panicked

\* The part of ACQUIRE up to tsleep.
Sleep(p, stage, o, l, w) ==
    /\ lk' = [l EXCEPT !.waitcount = @ + 1]
    /\ wchan' = [w EXCEPT ![p] = "lkp"]
    /\ at' = [at EXCEPT ![p] = stage]
    /\ opts' = [opts EXCEPT ![p] = o \cap {"NOWAIT", "SLEEPFAIL"}]
    /\ UNCHANGED panicked

\* p has waited long enough: the lock is its own.  left is what remains of the
\* shared holds.
Grant(p, l, w, left) ==
    IF l.exclusivecount # 0
    THEN Panic("exclcount")
    ELSE /\ Return(p, [l EXCEPT !.flags = @ \cup {"HAVE_EXCL"},
                                !.lockholder = p,
                                !.exclusivecount = 1], w)
         /\ excls' = excls \cup {<<p, 0>>}
         /\ shares' = left

AcquireShared(p, o, l, w) ==
    /\ UNCHANGED excls
    /\ IF Wanted("SHARED", l)
       THEN Sleep(p, "SHARED", o, l, w) /\ UNCHANGED shares
       ELSE /\ Return(p, [l EXCEPT !.sharecount = @ + 1], w)
            /\ shares' = shares \cup {<<p, 0>>}

AcquireUpgrade(p, o, l, w, left) ==
    IF Wanted("UPGRADE", l)
    THEN Sleep(p, "UPGRADE", o, l, w) /\ shares' = left /\ UNCHANGED excls
    ELSE Grant(p, [l EXCEPT !.flags = @ \ {"WANT_UPGRADE"}], w, left)

AcquireExcl2(p, o, l, w, left) ==
    IF Wanted("EXCL2", l)
    THEN Sleep(p, "EXCL2", o, l, w) /\ shares' = left /\ UNCHANGED excls
    ELSE Grant(p, [l EXCEPT !.flags = @ \ {"WANT_EXCL"}], w, left)

AcquireExcl1(p, o, l, w, left) ==
    IF Wanted("EXCL1", l)
    THEN Sleep(p, "EXCL1", o, l, w) /\ shares' = left /\ UNCHANGED excls
    ELSE AcquireExcl2(p, o, [l EXCEPT !.flags = @ \cup {"WANT_EXCL"}], w, left)

AcquireDrain(p, o) ==
    /\ UNCHANGED <<panicked, shares>>
    /\ IF ~AtRest(lk)
       THEN /\ lk' = [lk EXCEPT !.flags = @ \cup {"WAITDRAIN"}]
            /\ wchan' = [wchan EXCEPT ![p] = "flags"]
            /\ at' = [at EXCEPT ![p] = "DRAIN"]
            /\ opts' = [opts EXCEPT ![p] = o \cap {"NOWAIT", "SLEEPFAIL"}]
            /\ UNCHANGED excls
       ELSE /\ Return(p, [lk EXCEPT !.flags = @ \cup {"DRAINING", "HAVE_EXCL"},
                                    !.lockholder = p,
                                    !.exclusivecount = 1],
                      [wchan EXCEPT ![p] = "none"])
            /\ excls' = excls \cup {<<p, 0>>}

--------------------------------------------------------------------------------
\* The requests

SharesOf(p) == {h \in shares : h[1] = p}
ExclsOf(p) == {h \in excls : h[1] = p}

\* p is at a point where it may call lockmgr for a request of this type.
MayCall(p, type) == panicked = "no" /\ at[p] = "out" /\ type \in Types

\* The DIAGNOSTIC test at the entry has nothing against the request.
InService == lk.flags \cap {"DRAINING", "DRAINED"} = {}

\* The request of a process that comes after the drain.
UseAfterDrain(p) ==
    /\ \E type \in AllTypes \ {"RELEASE", "DOWNGRADE"} : MayCall(p, type)
    /\ lk.lockholder # p
    /\ \/ "DRAINED" \in lk.flags /\ Panic("decommissioned")
       \/ /\ "DRAINED" \notin lk.flags
          /\ "DRAINING" \in lk.flags
          /\ Panic("draining")

\* LK_SHARED of a process that has no exclusive hold
Shared(p, o) ==
    /\ MayCall(p, "SHARED") /\ InService /\ lk.lockholder # p
    /\ SharesOf(p) = {}
    /\ IF "NOWAIT" \in o /\ Wanted("SHARED", lk)
       THEN Return(p, lk, wchan) /\ UNCHANGED <<shares, excls>>
       ELSE AcquireShared(p, o, lk, wchan)

BadDowngraded(more) ==
    [lk EXCEPT !.sharecount = @ + more + 1,
               !.exclusivecount = 0,
               !.flags = @ \ {"HAVE_EXCL"},
               !.lockholder = NoProc]

\* All the exclusive holds become shared ones, and there may be one more.
Downgraded(more) ==
    [lk EXCEPT !.sharecount = @ + more + lk.exclusivecount,
               !.exclusivecount = 0,
               !.flags = @ \ {"HAVE_EXCL"},
               !.lockholder = NoProc]

\* LK_DOWNGRADE, and LK_SHARED of the process that has the exclusive hold: it
\* counts one shared hold more and falls into the downgrade.
Downgrade(p) ==
    \E more \in {0, 1} :
        /\ MayCall(p, IF more = 0 THEN "DOWNGRADE" ELSE "SHARED") /\ InService
        /\ lk.lockholder = p
        /\ Return(p, Downgraded(more), WokenIf(Downgraded(more), wchan))
        /\ shares' = shares \cup excls \cup
                     {h \in {<<p, lk.exclusivecount>>} : more = 1}
        /\ excls' = {}

\* LK_UPGRADE and LK_EXCLUPGRADE of the only shared hold of p.  The poll looks
\* at the count of the shared holds after its own has been taken off.
Upgrade(p, o) ==
    \E type \in {"UPGRADE", "EXCLUPGRADE"}, h \in SharesOf(p) :
        LET behind == "WANT_UPGRADE" \in lk.flags
            l == [lk EXCEPT !.sharecount = @ - 1]
            left == shares \ {h}
            refused == \/ behind /\ type = "EXCLUPGRADE"
                       \/ "NOWAIT" \in o /\ (behind \/ l.sharecount > 1)
        IN  /\ MayCall(p, type) /\ InService
            /\ SharesOf(p) = {h}
            /\ IF refused
               THEN /\ Return(p, l, wchan)
                    /\ shares' = left /\ UNCHANGED excls
               ELSE IF ~behind
               THEN AcquireUpgrade(p, o, [l EXCEPT !.flags =
                                            @ \cup {"WANT_UPGRADE"}],
                                   wchan, left)
               ELSE AcquireExcl1(p, o, l,
                                 YieldWake(l, wchan), left)

\* LK_EXCLUSIVE
Exclusive(p, o) ==
    /\ MayCall(p, "EXCLUSIVE") /\ InService
    /\ SharesOf(p) = {}
    /\ IF lk.lockholder = p
       THEN /\ "CANRECURSE" \in o /\ lk.exclusivecount < MaxRecurse
            /\ Return(p, [lk EXCEPT !.exclusivecount = @ + 1], wchan)
            /\ excls' = excls \cup {<<p, lk.exclusivecount>>}
            /\ UNCHANGED shares
       ELSE IF "NOWAIT" \in o /\ WouldBlock(lk)
       THEN Return(p, lk, wchan) /\ UNCHANGED <<shares, excls>>
       ELSE AcquireExcl1(p, o, lk, wchan, shares)

\* LK_RELEASE of an exclusive hold
ReleaseExclusive(p, o) ==
    LET drained == IF "DRAINING" \notin lk.flags \/ "REENABLE" \in o THEN {}
                   ELSE {"DRAINED"}
        n == lk.exclusivecount - 1
        l == [lk EXCEPT !.flags = (@ \cup drained) \
                            (IF n = 0 THEN {"DRAINING", "HAVE_EXCL"}
                                      ELSE {"DRAINING"}),
                        !.exclusivecount = n,
                        !.lockholder = IF n = 0 THEN NoProc ELSE @]
    IN  /\ lk.lockholder = p
        /\ Return(p, l, WokenIf(l, wchan))
        /\ excls' = excls \ {<<p, n>>}
        /\ UNCHANGED shares

\* LK_RELEASE of a shared hold, the last one p got
ReleaseShared(p) ==
    \E h \in SharesOf(p) :
        LET l == [lk EXCEPT !.sharecount = @ - 1]
        IN  /\ \A g \in SharesOf(p) : g[2] <= h[2]
            /\ InService
            /\ Return(p, l, WokenIf(l, wchan))
            /\ shares' = shares \ {h}
            /\ UNCHANGED excls

Release(p, o) ==
    /\ MayCall(p, "RELEASE")
    /\ ReleaseExclusive(p, o) \/ ReleaseShared(p)

\* LK_DRAIN
Drain(p, o) ==
    /\ MayCall(p, "DRAIN") /\ InService
    /\ lk.lockholder # p /\ SharesOf(p) = {}
    /\ \A q \in Proc : at[q] # "DRAIN"
    /\ IF "NOWAIT" \in o /\ ~AtRest(lk)
       THEN Return(p, lk, wchan) /\ UNCHANGED <<shares, excls>>
       ELSE AcquireDrain(p, o)

--------------------------------------------------------------------------------
\* The sleeps

BadTaken(stage) == IF stage = "EXCL2" THEN {"WANT_EXCL"} ELSE {}

\* The flag a failed wait takes back.
Taken(stage) ==
    CASE stage = "UPGRADE" -> {"WANT_UPGRADE"}
      [] stage = "EXCL2"   -> {"WANT_EXCL"}
      [] OTHER             -> {}

\* p runs again after tsleep(lkp): the rest of ACQUIRE and what follows it.
Resume(p) ==
    LET stage == at[p]
        l == [lk EXCEPT !.waitcount = @ - 1]
        w == [wchan EXCEPT ![p] = "none"]
    IN  /\ panicked = "no"
        /\ stage \in LkpStages
        /\ wchan[p] \in {"none", "intr"}
        /\ IF wchan[p] = "intr" \/ "SLEEPFAIL" \in opts[p]
           THEN /\ Return(p, [l EXCEPT !.flags = @ \ Taken(stage)], w)
                /\ UNCHANGED <<shares, excls>>
           ELSE \/ stage = "SHARED"  /\ AcquireShared(p, opts[p], l, w)
                \/ stage = "UPGRADE" /\ AcquireUpgrade(p, opts[p], l, w, shares)
                \/ stage = "EXCL1"   /\ AcquireExcl1(p, opts[p], l, w, shares)
                \/ stage = "EXCL2"   /\ AcquireExcl2(p, opts[p], l, w, shares)

\* p runs again after tsleep(&lkp->lk_flags); a failure returns at once.
ResumeDrain(p) ==
    /\ panicked = "no"
    /\ at[p] = "DRAIN"
    /\ wchan[p] \in {"none", "intr"}
    /\ IF wchan[p] = "intr" \/ "SLEEPFAIL" \in opts[p]
       THEN /\ at' = [at EXCEPT ![p] = "out"]
            /\ wchan' = [wchan EXCEPT ![p] = "none"]
            /\ opts' = [opts EXCEPT ![p] = {}]
            /\ UNCHANGED <<lk, panicked, shares, excls>>
       ELSE AcquireDrain(p, opts[p])

\* endtsleep: the timeout ends the sleep of a process nobody has woken yet.
EndTsleep(p) ==
    /\ panicked = "no" /\ Timo
    /\ wchan[p] \in {"lkp", "flags"}
    /\ wchan' = [wchan EXCEPT ![p] = "intr"]
    /\ UNCHANGED <<lk, at, opts, panicked, shares, excls>>

\* A signal comes: tsleep finds it when it looks for one after the switch, so
\* a process that has been woken already is interrupted all the same.
Signal(p) ==
    /\ panicked = "no" /\ Pcatch
    /\ at[p] # "out"
    /\ wchan[p] # "intr"
    /\ wchan' = [wchan EXCEPT ![p] = "intr"]
    /\ UNCHANGED <<lk, at, opts, panicked, shares, excls>>

--------------------------------------------------------------------------------

Request(p, o) ==
    Shared(p, o) \/ Upgrade(p, o) \/ Exclusive(p, o) \/ Drain(p, o)

Next ==
    \E p \in Proc :
        \/ \E o \in SUBSET (Opts \ {"REENABLE"}) : Request(p, o)
        \/ \E o \in SUBSET (Opts \cap {"REENABLE"}) : Release(p, o)
        \/ Downgrade(p)
        \/ UseAfterDrain(p)
        \/ Resume(p) \/ ResumeDrain(p)
        \/ EndTsleep(p) \/ Signal(p)

Spec == Init /\ [][Next]_vars

LetsGo(p) == \A h \in shares \cup excls : h[1] # p

\* A process that is runnable runs, and one that holds the lock lets go of all of
\* it now and again, which upgrades and downgrades alone are not; nothing makes
\* anyone ask for the lock.
Fairness ==
    \A p \in Proc : /\ WF_vars(Resume(p))
                    /\ WF_vars(ResumeDrain(p))
                    /\ WF_vars(Release(p, {}))
                    /\ []<>(LetsGo(p) \/ panicked # "no")

FairSpec == Spec /\ Fairness

--------------------------------------------------------------------------------
\* Safety

\* Readers and a writer, or two writers, are never inside together: the point
\* of the lock, and what every wake-up in any order must keep.
MutualExclusion ==
    /\ excls # {} => shares = {}
    /\ \A g, h \in excls : g[1] = h[1]

\* The counters lockmgr decides by are the numbers of holds and of sleepers,
\* whatever mix of errors, timeouts and fall-throughs changed them, so that
\* lockstatus tells the truth.
CountsAgree ==
    /\ lk.sharecount = Cardinality(shares)
    /\ lk.exclusivecount = Cardinality(excls)
    /\ lk.waitcount = Cardinality({p \in Proc : at[p] \in LkpStages})
    /\ LockStatus = "EXCLUSIVE" <=> excls # {}
    /\ \A h \in excls : lk.lockholder = h[1]

\* The drain is over only when nobody else is inside lockmgr or the lock: what
\* a caller needs that frees the memory of the lock next.
DrainedIdle ==
    ~InService =>
        /\ shares = {}
        /\ \A h \in excls : h[1] = lk.lockholder
        /\ \A p \in Proc : at[p] \notin LkpStages

\* The bits that bar others from the lock have an owner that will clear them.
BarsHaveOwner ==
    /\ "WANT_UPGRADE" \in lk.flags <=> \E p \in Proc : at[p] = "UPGRADE"
    /\ "WANT_EXCL" \in lk.flags <=> \E p \in Proc : at[p] = "EXCL2"
    /\ \A p, q \in Proc : at[p] = at[q] /\ at[p] \in {"UPGRADE", "EXCL2"} => p = q

\* A drain that sleeps is never asleep on a lock at rest, and the flag by which it
\* is told is set: whoever leaves lockmgr last, by a release, a refusal or a
\* failure after its sleep, wakes it (kern_lock.c:398-420).
DrainTold ==
    \A p \in Proc : wchan[p] = "flags" => "WAITDRAIN" \in lk.flags /\ ~AtRest(lk)

\* The process is in lockmgr, and only the scheduler stands between it and its
\* next step.
Running(p) == at[p] # "out" /\ wchan[p] \in {"none", "intr"}

\* Nobody sleeps on a free lock: as long as a process waits, another one holds
\* the lock, or runs, that will wake it.  A lost wake-up breaks it, and so does a
\* request that fails, polls or is an LK_EXCLUPGRADE: lockmgr takes the flag or the
\* hold of such a one away without a wake-up (kern_lock.c:250, 274, 287, 341).  Without
\* these it holds.
NoStranded ==
    (\E p \in Proc : wchan[p] = "lkp") =>
        shares \cup excls # {} \/ \E q \in Proc : Running(q)

--------------------------------------------------------------------------------
\* The abstract lock this one implements

UpgraderOf == {p \in Proc : at[p] = "UPGRADE"}

Abstract == INSTANCE SharedExclusiveLock WITH
    readers  <- {h[1] : h \in shares},
    writer   <- IF excls = {} THEN NoProc ELSE lk.lockholder,
    promised <- IF UpgraderOf = {} THEN NoProc ELSE CHOOSE p \in UpgraderOf : TRUE,
    waiting  <- {p \in Proc : at[p] \in LkpStages},
    closed   <- ~InService

\* The lock keeps the promises of SharedExclusiveLock: in particular nobody
\* comes between an upgrade that was accepted and its exclusive hold.
AbstractSpec == Abstract!Spec

--------------------------------------------------------------------------------
\* Liveness

\* The process that has set WANT_EXCL gets its hold, unless the machine stops,
\* however many readers and upgrades come (kern_lock.c:328-350).
WriterServed == \A p \in Proc : at[p] = "EXCL2" ~> at[p] = "out" \/ panicked # "no"

\* The process that was promised the upgrade gets it (kern_lock.c:280-298).
UpgradeServed == \A p \in Proc : at[p] = "UPGRADE" ~> at[p] = "out" \/ panicked # "no"

\* A sleeper is always woken again, to look whether its turn has come: no release
\* or downgrade (kern_lock.c:241, 369) and no upgrade that gives way (:305) leaves
\* one behind.  Like NoStranded it holds where no request fails, polls or is an
\* LK_EXCLUPGRADE.
SleeperWoken ==
    \A p \in Proc : wchan[p] = "lkp" ~> wchan[p] # "lkp" \/ panicked # "no"

================================================================================
