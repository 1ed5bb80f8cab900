----------------------------- MODULE LockmgrProofs -----------------------------
(***************************************************************************)
(* The safety of the lock manager, for every set of processes, every mix   *)
(* of request types and flags and every bound.                             *)
(*                                                                         *)
(* lockmgr works on the lock in small steps (take the own hold off, set a  *)
(* flag, look at the counters, sleep or go on), so the argument follows    *)
(* the lock through them: LockOK(l, sh, ex) says that the record l is      *)
(* right for the holds sh and ex, and each part of a request is a lemma    *)
(* that takes a good record to a good next state.                          *)
(*                                                                         *)
(* The second part shows that the lock implements SharedExclusiveLock, the *)
(* third that no wake-up is lost as long as requests neither fail nor      *)
(* poll, and the last, without that condition, that a drain is told.       *)
(***************************************************************************)
EXTENDS Lockmgr, FiniteSetTheorems, TLAPS

LockType == [flags : SUBSET Flags, sharecount : Nat, waitcount : Nat,
             exclusivecount : Nat, lockholder : Proc \cup {NoProc}]

WchanType == [Proc -> {"none", "lkp", "flags", "intr"}]

Waiters == {p \in Proc : at[p] \in LkpStages}

\* The record l counts the holds sh and ex, the exclusive ones are the first
\* ranks of the lock holder, and both kinds never exist together.
LockOK(l, sh, ex) ==
    /\ l \in LockType
    /\ sh \subseteq Holds /\ IsFiniteSet(sh)
    /\ ex \subseteq Holds /\ IsFiniteSet(ex)
    /\ l.sharecount = Cardinality(sh)
    /\ l.exclusivecount = Cardinality(ex) /\ l.exclusivecount <= MaxRecurse
    /\ \A h \in Holds : h \in ex <=> h[1] = l.lockholder /\ h[2] < l.exclusivecount
    /\ l.lockholder = NoProc <=> l.exclusivecount = 0
    /\ "HAVE_EXCL" \in l.flags <=> l.exclusivecount # 0
    /\ l.exclusivecount # 0 => sh = {}

OpenFor(l) == l.flags \cap {"DRAINING", "DRAINED"} = {}

\* Nobody who is inside lockmgr has a hold.
SleepersHoldNothing ==
    \A p \in Proc, h \in shares \cup excls : at[p] # "out" => h[1] # p

\* The invariant: the counters are right, sleepers hold nothing, and a lock
\* that has been drained has no readers and nobody waiting.
IInv ==
    /\ TypeOK
    /\ LockOK(lk, shares, excls)
    /\ lk.waitcount = Cardinality(Waiters)
    /\ SleepersHoldNothing
    /\ ~OpenFor(lk) => shares = {} /\ Waiters = {}

\* p is inside a request with the lock at l, the wait channels at w and the
\* shared holds at sh, and it has no hold itself.
Ready(p, l, w, sh) ==
    /\ LockOK(l, sh, excls)
    /\ OpenFor(l)
    /\ w \in WchanType
    /\ l.waitcount = Cardinality(Waiters \ {p})
    /\ sh \subseteq shares
    /\ \A h \in sh \cup excls : h[1] # p

--------------------------------------------------------------------------------

\* The sleepers are processes, and finitely many, so that they can be counted.
LEMMA WaitersFinite == IsFiniteSet(Waiters) /\ Waiters \subseteq Proc
<1>1. Waiters \in SUBSET Proc
  BY DEF Waiters
<1> QED
  BY <1>1, FS_Subset, ProcAssumption

\* wakeup changes only who is runnable.
LEMMA WokenType ==
  ASSUME NEW w \in WchanType, NEW ident
  PROVE  Woken(w, ident) \in WchanType
BY DEF Woken, WchanType

\* Neither do the two conditional wake-ups of kern_lock.c.
LEMMA WokenIfType ==
  ASSUME NEW w \in WchanType, NEW l
  PROVE  WokenIf(l, w) \in WchanType /\ YieldWake(l, w) \in WchanType
BY WokenType DEF WokenIf, YieldWake

\* A return that leaves a good lock behind, on which only the holds of p have
\* changed, keeps the invariant.
LEMMA ReturnStep ==
  ASSUME IInv, NEW p \in Proc, NEW l, NEW w \in WchanType,
         LockOK(l, shares', excls'),
         l.waitcount = Cardinality(Waiters \ {p}),
         \A h \in shares' \cup excls' : h \in shares \cup excls \/ h[1] = p,
         ~OpenFor(l) => shares' = {} /\ Waiters \ {p} = {},
         Return(p, l, w)
  PROVE  IInv'
<1>1. at' = [at EXCEPT ![p] = "out"] /\ at' \in [Proc -> Stages \cup {"out"}]
  BY DEF Return, IInv, TypeOK
<1>2. Waiters' = Waiters \ {p}
  BY <1>1 DEF Waiters, LkpStages, IInv, TypeOK
<1>3. /\ lk' \in LockType
      /\ lk'.flags \in {l.flags, l.flags \ {"WAITDRAIN"}}
      /\ lk'.sharecount = l.sharecount /\ lk'.waitcount = l.waitcount
      /\ lk'.exclusivecount = l.exclusivecount
      /\ lk'.lockholder = l.lockholder
  BY DEF Return, LockOK, LockType
<1>4. wchan' \in WchanType
  BY WokenType DEF Return
<1>5. opts' \in [Proc -> SUBSET AllOpts] /\ panicked' = panicked
  BY DEF Return, IInv, TypeOK
<1>6. LockOK(lk, shares, excls)'
  BY <1>3 DEF LockOK
<1>7. TypeOK'
  BY <1>1, <1>3, <1>4, <1>5, <1>6 DEF TypeOK, IInv, LockOK, LockType, WchanType
<1>8. SleepersHoldNothing'
  BY <1>1 DEF SleepersHoldNothing, IInv, TypeOK
<1>9. (~OpenFor(lk) => shares = {} /\ Waiters = {})'
  BY <1>2, <1>3 DEF OpenFor
<1> QED
  BY <1>2, <1>3, <1>6, <1>7, <1>8, <1>9 DEF IInv

\* Going to sleep on the lock keeps the invariant.
LEMMA SleepStep ==
  ASSUME IInv, NEW p \in Proc, NEW stage \in LkpStages, NEW o, NEW l, NEW w,
         Ready(p, l, w, shares'), excls' = excls,
         Sleep(p, stage, o, l, w)
  PROVE  IInv'
<1>1. at' = [at EXCEPT ![p] = stage] /\ at' \in [Proc -> Stages \cup {"out"}]
  BY DEF Sleep, IInv, TypeOK, Stages
<1>2. Waiters' = (Waiters \ {p}) \cup {p}
  BY <1>1 DEF Waiters, LkpStages, IInv, TypeOK
<1>3. Cardinality(Waiters') = l.waitcount + 1
  <2>1. IsFiniteSet(Waiters \ {p})
    BY WaitersFinite, FS_RemoveElement
  <2> QED
    BY <1>2, <2>1, FS_AddElement DEF Ready
<1>4. /\ lk' \in LockType
      /\ lk'.flags = l.flags
      /\ lk'.sharecount = l.sharecount /\ lk'.waitcount = l.waitcount + 1
      /\ lk'.exclusivecount = l.exclusivecount
      /\ lk'.lockholder = l.lockholder
  BY DEF Sleep, Ready, LockOK, LockType
<1>5. wchan' \in WchanType
  BY DEF Sleep, Ready, WchanType
<1>6. opts' \in [Proc -> SUBSET AllOpts] /\ panicked' = panicked
  BY DEF Sleep, IInv, TypeOK, AllOpts
<1>7. LockOK(lk, shares, excls)'
  BY <1>4 DEF LockOK, Ready
<1>8. TypeOK'
  BY <1>1, <1>4, <1>5, <1>6, <1>7 DEF TypeOK, IInv, LockOK, LockType, WchanType
<1>9. SleepersHoldNothing'
  BY <1>1 DEF SleepersHoldNothing, IInv, TypeOK, Ready
<1>10. (~OpenFor(lk) => shares = {} /\ Waiters = {})'
  BY <1>4 DEF OpenFor, Ready
<1> QED
  BY <1>3, <1>4, <1>7, <1>8, <1>9, <1>10 DEF IInv

\* A panic leaves the state it found.
LEMMA PanicStep ==
  ASSUME IInv, NEW why \in {"decommissioned", "draining", "exclcount"},
         Panic(why)
  PROVE  IInv'
<1>1. /\ lk' = lk /\ at' = at /\ wchan' = wchan /\ opts' = opts
      /\ shares' = shares /\ excls' = excls
  BY DEF Panic
<1>2. TypeOK'
  BY <1>1 DEF IInv, TypeOK, Panic
<1> QED
  BY <1>1, <1>2 DEF IInv, LockOK, SleepersHoldNothing, OpenFor, Waiters

\* A process that has no hold gets the exclusive hold, once there are no readers.
LEMMA GrantStep ==
  ASSUME IInv, NEW p \in Proc, NEW l, NEW w, NEW left,
         Ready(p, l, w, left), l.sharecount = 0,
         Grant(p, l, w, left)
  PROVE  IInv'
<1>1. CASE l.exclusivecount # 0
  BY <1>1, PanicStep DEF Grant
<1>2. CASE l.exclusivecount = 0
  <2> DEFINE m == [l EXCEPT !.flags = @ \cup {"HAVE_EXCL"},
                            !.lockholder = p, !.exclusivecount = 1]
  <2>1. Return(p, m, w) /\ excls' = excls \cup {<<p, 0>>} /\ shares' = left
    BY <1>2 DEF Grant
  <2>2. excls = {} /\ left = {}
    BY <1>2, FS_EmptySet DEF Ready, LockOK
  <2>3. excls' = {<<p, 0>>} /\ Cardinality(excls') = 1 /\ IsFiniteSet(excls')
    <3>1. excls' = {<<p, 0>>}
      BY <2>1, <2>2
    <3> QED
      BY <3>1, FS_Singleton, Zenon
  <2>4. /\ m \in LockType /\ m.flags = l.flags \cup {"HAVE_EXCL"}
        /\ m.sharecount = 0 /\ m.waitcount = l.waitcount
        /\ m.exclusivecount = 1 /\ m.lockholder = p
    BY DEF Ready, LockOK, LockType, Flags
  <2>5. <<p, 0>> \in Holds
    BY BoundAssumption DEF Holds
  <2>6. \A h \in Holds : h \in excls' <=> h[1] = p /\ h[2] < 1
    BY <2>3, BoundAssumption DEF Holds
  <2>7. LockOK(m, shares', excls')
    BY <2>1, <2>2, <2>3, <2>4, <2>5, <2>6, FS_EmptySet,
       ProcAssumption, BoundAssumption DEF LockOK
  <2>8. OpenFor(m)
    BY <2>4 DEF OpenFor, Ready
  <2> HIDE DEF m
  <2> QED
    BY <2>1, <2>2, <2>3, <2>4, <2>7, <2>8, ReturnStep DEF Ready
<1> QED
  BY <1>1, <1>2

--------------------------------------------------------------------------------
\* The parts of a request

\* The second wait of an exclusive request, for the readers and the upgrade
\* (kern_lock.c:339-350), from wherever the request comes to it.
LEMMA Excl2Step ==
  ASSUME IInv, NEW p \in Proc, NEW o, NEW l, NEW w, NEW left,
         Ready(p, l, w, left), AcquireExcl2(p, o, l, w, left)
  PROVE  IInv'
<1> DEFINE m == [l EXCEPT !.flags = @ \ {"WANT_EXCL"}]
<1>1. CASE Wanted("EXCL2", l)
  BY <1>1, SleepStep DEF AcquireExcl2, LkpStages
<1>2. CASE ~Wanted("EXCL2", l)
  <2>1. Grant(p, m, w, left)
    BY <1>2 DEF AcquireExcl2
  <2>2. l.sharecount = 0
    BY <1>2 DEF Wanted, ReadersRemain
  <2>3. Ready(p, m, w, left) /\ m.sharecount = 0
    BY <2>2 DEF Ready, LockOK, LockType, OpenFor
  <2> QED
    BY <2>1, <2>3, GrantStep
<1> QED
  BY <1>1, <1>2

\* The first wait of an exclusive request, for LK_WANT_EXCL (kern_lock.c:328-334).
LEMMA Excl1Step ==
  ASSUME IInv, NEW p \in Proc, NEW o, NEW l, NEW w, NEW left,
         Ready(p, l, w, left), AcquireExcl1(p, o, l, w, left)
  PROVE  IInv'
<1> DEFINE m == [l EXCEPT !.flags = @ \cup {"WANT_EXCL"}]
<1>1. CASE Wanted("EXCL1", l)
  BY <1>1, SleepStep DEF AcquireExcl1, LkpStages
<1>2. CASE ~Wanted("EXCL1", l)
  <2>1. AcquireExcl2(p, o, m, w, left)
    BY <1>2 DEF AcquireExcl1
  <2>2. Ready(p, m, w, left)
    BY DEF Ready, LockOK, LockType, OpenFor, Flags
  <2> QED
    BY <2>1, <2>2, Excl2Step
<1> QED
  BY <1>1, <1>2

\* The wait of an upgrade for the other readers (kern_lock.c:285-298).
LEMMA UpgradeStep ==
  ASSUME IInv, NEW p \in Proc, NEW o, NEW l, NEW w, NEW left,
         Ready(p, l, w, left), AcquireUpgrade(p, o, l, w, left)
  PROVE  IInv'
<1> DEFINE m == [l EXCEPT !.flags = @ \ {"WANT_UPGRADE"}]
<1>1. CASE Wanted("UPGRADE", l)
  BY <1>1, SleepStep DEF AcquireUpgrade, LkpStages
<1>2. CASE ~Wanted("UPGRADE", l)
  <2>1. Grant(p, m, w, left)
    BY <1>2 DEF AcquireUpgrade
  <2>2. l.sharecount = 0
    BY <1>2 DEF Wanted
  <2>3. Ready(p, m, w, left) /\ m.sharecount = 0
    BY <2>2 DEF Ready, LockOK, LockType, OpenFor
  <2> QED
    BY <2>1, <2>3, GrantStep
<1> QED
  BY <1>1, <1>2

\* The wait of a shared request, and the hold it ends in (kern_lock.c:219-225).
LEMMA SharedStep ==
  ASSUME IInv, NEW p \in Proc, NEW o, NEW l, NEW w,
         Ready(p, l, w, shares), AcquireShared(p, o, l, w)
  PROVE  IInv'
<1> DEFINE m == [l EXCEPT !.sharecount = @ + 1]
<1>1. CASE Wanted("SHARED", l)
  BY <1>1, SleepStep DEF AcquireShared, LkpStages
<1>2. CASE ~Wanted("SHARED", l)
  <2>1. Return(p, m, w) /\ shares' = shares \cup {<<p, 0>>} /\ excls' = excls
    BY <1>2 DEF AcquireShared
  <2>2. l.exclusivecount = 0
    BY <1>2 DEF Wanted, HaveOrWant, Ready, LockOK
  <2>3. <<p, 0>> \in Holds /\ <<p, 0>> \notin shares
    BY BoundAssumption DEF Holds, Ready
  <2>4. IsFiniteSet(shares') /\ Cardinality(shares') = l.sharecount + 1
    <3>1. IsFiniteSet(shares) /\ Cardinality(shares) = l.sharecount
      BY DEF Ready, LockOK
    <3>2. shares' = shares \cup {<<p, 0>>} /\ <<p, 0>> \notin shares
      BY <2>1, <2>3
    <3> HIDE DEF m
    <3> QED
      BY ONLY <3>1, <3>2, FS_AddElement
  <2>5. /\ m \in LockType /\ m.flags = l.flags
        /\ m.sharecount = l.sharecount + 1 /\ m.waitcount = l.waitcount
        /\ m.exclusivecount = 0 /\ m.lockholder = l.lockholder
    BY <2>2 DEF Ready, LockOK, LockType
  <2>6. LockOK(m, shares', excls')
    BY <2>1, <2>2, <2>3, <2>4, <2>5 DEF LockOK, Ready
  <2>7. OpenFor(m)
    BY <2>5 DEF OpenFor, Ready
  <2>8. \A h \in shares' \cup excls' : h \in shares \cup excls \/ h[1] = p
    BY <2>1
  <2>9. m.waitcount = Cardinality(Waiters \ {p}) /\ w \in WchanType
    BY <2>5 DEF Ready
  <2> HIDE DEF m
  <2> QED
    BY <2>1, <2>6, <2>7, <2>8, <2>9, ReturnStep
<1> QED
  BY <1>1, <1>2

--------------------------------------------------------------------------------
\* The requests

\* A caller is not a waiter, so that the count is right for it as it is.
LEMMA CallerReady ==
  ASSUME IInv, NEW p \in Proc, at[p] = "out", InService,
         SharesOf(p) = {}, lk.lockholder # p
  PROVE  Ready(p, lk, wchan, shares)
<1>1. Waiters \ {p} = Waiters
  BY DEF Waiters, LkpStages
<1>2. \A h \in shares \cup excls : h[1] # p
  BY DEF SharesOf, IInv, LockOK
<1>3. wchan \in WchanType
  BY DEF IInv, TypeOK, WchanType
<1> QED
  BY <1>1, <1>2, <1>3 DEF Ready, IInv, InService, OpenFor

\* A caller that returns at once with the lock as it was.
LEMMA RefusedStep ==
  ASSUME IInv, NEW p \in Proc, at[p] = "out", InService,
         Return(p, lk, wchan), UNCHANGED <<shares, excls>>
  PROVE  IInv'
<1>1. Waiters \ {p} = Waiters
  BY DEF Waiters, LkpStages
<1>2. wchan \in WchanType /\ OpenFor(lk)
  BY DEF IInv, TypeOK, WchanType, InService, OpenFor
<1>3. LockOK(lk, shares', excls')
  BY DEF IInv
<1>4. lk.waitcount = Cardinality(Waiters \ {p})
  BY <1>1 DEF IInv
<1>5. \A h \in shares' \cup excls' : h \in shares \cup excls \/ h[1] = p
  OBVIOUS
<1> QED
  BY <1>2, <1>3, <1>4, <1>5, ReturnStep

\* LK_SHARED keeps the invariant.
LEMMA SharedKeeps ==
  ASSUME IInv, NEW p \in Proc, NEW o, Shared(p, o)
  PROVE  IInv'
BY CallerReady, RefusedStep, SharedStep DEF Shared, MayCall

\* LK_EXCLUSIVE keeps the invariant, whether it recurses, polls or waits.
LEMMA ExclusiveKeeps ==
  ASSUME IInv, NEW p \in Proc, NEW o, Exclusive(p, o)
  PROVE  IInv'
<1>1. CASE lk.lockholder # p
  BY <1>1, CallerReady, RefusedStep, Excl1Step DEF Exclusive, MayCall
<1>2. CASE lk.lockholder = p
  <2> DEFINE n == lk.exclusivecount
             m == [lk EXCEPT !.exclusivecount = @ + 1]
  <2>1. /\ Return(p, m, wchan) /\ excls' = excls \cup {<<p, n>>}
        /\ shares' = shares /\ n < MaxRecurse /\ at[p] = "out"
        /\ InService
    BY <1>2 DEF Exclusive, MayCall
  <2>2. n \in Nat /\ n # 0
    BY <1>2, ProcAssumption DEF IInv, LockOK, LockType
  <2>3. <<p, n>> \in Holds /\ <<p, n>> \notin excls
    BY <1>2, <2>1, <2>2, BoundAssumption DEF Holds, IInv, LockOK
  <2>4. IsFiniteSet(excls') /\ Cardinality(excls') = n + 1
    BY <2>1, <2>3, FS_AddElement DEF IInv, LockOK
  <2>5. /\ m \in LockType /\ m.flags = lk.flags
        /\ m.sharecount = lk.sharecount /\ m.waitcount = lk.waitcount
        /\ m.exclusivecount = n + 1 /\ m.lockholder = p
    BY <1>2 DEF IInv, LockOK, LockType
  <2>6. \A h \in Holds : h \in excls' <=> h[1] = p /\ h[2] < n + 1
    <3> SUFFICES ASSUME NEW q \in Proc, NEW i \in 0 .. MaxRecurse
                 PROVE  <<q, i>> \in excls' <=> q = p /\ i < n + 1
      BY DEF Holds
    <3>1. <<q, i>> \in excls <=> q = p /\ i < n
      BY <1>2 DEF IInv, LockOK, Holds
    <3> QED
      BY <2>1, <2>2, <3>1, BoundAssumption
  <2>7. LockOK(m, shares', excls')
    <3>1. shares = {} /\ "HAVE_EXCL" \in lk.flags /\ p # NoProc
      BY <1>2, <2>2, ProcAssumption DEF IInv, LockOK
    <3> HIDE DEF m, n
    <3> QED
      BY <2>1, <2>2, <2>3, <2>4, <2>5, <2>6, <3>1,
         BoundAssumption DEF LockOK, IInv
  <2>8. m.waitcount = Cardinality(Waiters \ {p}) /\ OpenFor(m)
    <3>1. Waiters \ {p} = Waiters
      BY <2>1 DEF Waiters, LkpStages
    <3> QED
      BY <2>1, <2>5, <3>1 DEF IInv, InService, OpenFor
  <2>9. \A h \in shares' \cup excls' : h \in shares \cup excls \/ h[1] = p
    BY <2>1
  <2>10. wchan \in WchanType
    BY DEF IInv, TypeOK, WchanType
  <2> HIDE DEF m
  <2> QED
    BY <2>1, <2>7, <2>8, <2>9, <2>10, ReturnStep
<1> QED
  BY <1>1, <1>2

\* A reader that has given its only hold up is ready to wait, with LK_WANT_UPGRADE and
\* without.
LEMMA UpgraderReady ==
  ASSUME IInv, NEW p \in Proc, NEW h \in SharesOf(p), at[p] = "out", InService,
         SharesOf(p) = {h}, NEW l, l = [lk EXCEPT !.sharecount = @ - 1]
  PROVE  /\ Ready(p, l, wchan, shares \ {h})
         /\ Ready(p, l, YieldWake(l, wchan), shares \ {h})
         /\ Ready(p, [l EXCEPT !.flags = @ \cup {"WANT_UPGRADE"}], wchan, shares \ {h})
         /\ l.flags = lk.flags /\ l.lockholder = lk.lockholder
<1> DEFINE m == [l EXCEPT !.flags = @ \cup {"WANT_UPGRADE"}]
<1>1. h \in shares /\ h[1] = p /\ lk.exclusivecount = 0 /\ excls = {}
  BY FS_EmptySet DEF SharesOf, IInv, LockOK
<1>2. /\ IsFiniteSet(shares \ {h})
      /\ Cardinality(shares \ {h}) = lk.sharecount - 1
      /\ Cardinality(shares \ {h}) \in Nat
  BY <1>1, FS_RemoveElement, FS_CardinalityType DEF IInv, LockOK
<1>3. /\ l \in LockType /\ l.flags = lk.flags
      /\ l.sharecount = lk.sharecount - 1 /\ l.waitcount = lk.waitcount
      /\ l.exclusivecount = 0 /\ l.lockholder = lk.lockholder
  BY <1>1, <1>2 DEF IInv, LockOK, LockType
<1>4. \A g \in (shares \ {h}) \cup excls : g[1] # p
  BY <1>1 DEF SharesOf
<1>5. Waiters \ {p} = Waiters
  BY DEF Waiters, LkpStages
<1>6. OpenFor(l)
  BY <1>3 DEF OpenFor, InService
<1>7. LockOK(l, shares \ {h}, excls)
  BY <1>1, <1>2, <1>3 DEF LockOK, IInv
<1>8. wchan \in WchanType /\ YieldWake(l, wchan) \in WchanType
  BY WokenIfType DEF IInv, TypeOK, WchanType
<1>9. /\ Ready(p, l, wchan, shares \ {h})
      /\ Ready(p, l, YieldWake(l, wchan), shares \ {h})
  BY <1>3, <1>4, <1>5, <1>6, <1>7, <1>8 DEF Ready, IInv
<1>10. Ready(p, m, wchan, shares \ {h})
  <2>1. /\ m \in LockType /\ m.flags = l.flags \cup {"WANT_UPGRADE"}
        /\ m.sharecount = l.sharecount /\ m.waitcount = l.waitcount
        /\ m.exclusivecount = l.exclusivecount /\ m.lockholder = l.lockholder
    BY <1>3 DEF LockType, Flags
  <2> HIDE DEF m
  <2> QED
    BY <1>9, <2>1 DEF Ready, LockOK, OpenFor
<1> QED
  BY <1>3, <1>9, <1>10

\* LK_UPGRADE and LK_EXCLUPGRADE keep it, whichever of their four ends they take.
LEMMA UpgradeKeeps ==
  ASSUME IInv, NEW p \in Proc, NEW o, Upgrade(p, o)
  PROVE  IInv'
<1> DEFINE l == [lk EXCEPT !.sharecount = @ - 1]
           m == [l EXCEPT !.flags = @ \cup {"WANT_UPGRADE"}]
<1>1. PICK h \in SharesOf(p) :
        /\ at[p] = "out" /\ InService /\ SharesOf(p) = {h}
        /\ \/ /\ Return(p, l, wchan)
              /\ shares' = shares \ {h} /\ excls' = excls
           \/ AcquireUpgrade(p, o, m, wchan, shares \ {h})
           \/ AcquireExcl1(p, o, l, YieldWake(l, wchan), shares \ {h})
  BY DEF Upgrade, MayCall
<1>2. /\ Ready(p, l, wchan, shares \ {h})
      /\ Ready(p, l, YieldWake(l, wchan), shares \ {h})
      /\ Ready(p, m, wchan, shares \ {h})
  BY <1>1, UpgraderReady
<1> HIDE DEF l, m
<1>3. CASE /\ Return(p, l, wchan)
           /\ shares' = shares \ {h} /\ excls' = excls
  <2>1. \A g \in shares' \cup excls' : g \in shares \cup excls \/ g[1] = p
    BY <1>3
  <2>2. /\ LockOK(l, shares', excls') /\ OpenFor(l) /\ wchan \in WchanType
        /\ l.waitcount = Cardinality(Waiters \ {p})
    BY <1>2, <1>3 DEF Ready
  <2> QED
    BY <1>3, <2>1, <2>2, ReturnStep
<1>4. CASE AcquireUpgrade(p, o, m, wchan, shares \ {h})
  BY <1>2, <1>4, UpgradeStep
<1>5. CASE AcquireExcl1(p, o, l, YieldWake(l, wchan), shares \ {h})
  BY <1>2, <1>5, Excl1Step
<1> QED
  BY <1>1, <1>3, <1>4, <1>5

\* LK_DOWNGRADE keeps it: as many shared holds appear as exclusive ones go.
LEMMA DowngradeKeeps ==
  ASSUME IInv, NEW p \in Proc, Downgrade(p)
  PROVE  IInv'
<1>1. PICK more \in {0, 1} :
        /\ at[p] = "out" /\ InService /\ lk.lockholder = p
        /\ Return(p, Downgraded(more), WokenIf(Downgraded(more), wchan))
        /\ shares' = shares \cup excls \cup
                     {h \in {<<p, lk.exclusivecount>>} : more = 1}
        /\ excls' = {}
  BY DEF Downgrade, MayCall
<1> DEFINE l == Downgraded(more)
           n == lk.exclusivecount
<1>2. n \in Nat /\ n # 0 /\ n <= MaxRecurse /\ shares = {} /\ lk.sharecount = 0
  <2>1. n \in Nat /\ n # 0 /\ n <= MaxRecurse /\ shares = {}
    BY <1>1, ProcAssumption DEF IInv, LockOK, LockType
  <2>2. lk.sharecount = 0
    BY <2>1, FS_EmptySet DEF IInv, LockOK
  <2> QED
    BY <2>1, <2>2
<1>3. /\ l \in LockType /\ l.flags = lk.flags \ {"HAVE_EXCL"}
      /\ l.sharecount = more + n /\ l.waitcount = lk.waitcount
      /\ l.exclusivecount = 0 /\ l.lockholder = NoProc
  <2>1. lk \in LockType
    BY DEF IInv, LockOK
  <2>2. lk.sharecount + more + lk.exclusivecount = more + n /\ more + n \in Nat
    BY <1>2
  <2> QED
    BY <1>2, <2>1, <2>2 DEF LockType, Downgraded
<1>4. /\ shares' \subseteq Holds /\ IsFiniteSet(shares')
      /\ Cardinality(shares') = more + n
  <2>1. CASE more = 0
    <3>1. shares' = excls /\ more + n = n
      BY <1>1, <1>2, <2>1
    <3> QED
      BY <3>1 DEF IInv, LockOK
  <2>2. CASE more = 1
    <3>1. <<p, n>> \in Holds /\ <<p, n>> \notin excls
      BY <1>1, <1>2, BoundAssumption DEF Holds, IInv, LockOK
    <3>2. shares' = excls \cup {<<p, n>>}
      BY <1>1, <1>2, <2>2
    <3>3. IsFiniteSet(shares') /\ Cardinality(shares') = n + 1
      BY <3>1, <3>2, FS_AddElement DEF IInv, LockOK
    <3> QED
      BY <1>2, <2>2, <3>1, <3>2, <3>3 DEF IInv, LockOK
  <2> QED
    BY <2>1, <2>2
<1>5. LockOK(l, shares', excls')
  <2> HIDE DEF l
  <2>1. n \in Nat /\ \A h \in Holds : ~ (h[1] = NoProc /\ h[2] < 0)
    BY <1>2, ProcAssumption DEF Holds
  <2> QED
    BY <1>1, <1>3, <1>4, <2>1, FS_EmptySet, BoundAssumption DEF LockOK
<1>6. \A h \in shares' \cup excls' : h \in shares \cup excls \/ h[1] = p
  BY <1>1
<1>7. l.waitcount = Cardinality(Waiters \ {p})
  <2>1. Waiters \ {p} = Waiters
    BY <1>1 DEF Waiters, LkpStages
  <2> QED
    BY <1>3, <2>1 DEF IInv
<1>8. OpenFor(l)
  BY <1>1, <1>3 DEF OpenFor, InService
<1>9. WokenIf(l, wchan) \in WchanType
  BY WokenIfType DEF IInv, TypeOK, WchanType
<1> HIDE DEF l
<1> QED
  BY <1>1, <1>5, <1>6, <1>7, <1>8, <1>9, ReturnStep DEF l

\* LK_RELEASE keeps it: the hold that goes is one of the kind the code counts down.
LEMMA ReleaseKeeps ==
  ASSUME IInv, NEW p \in Proc, NEW o, Release(p, o)
  PROVE  IInv'
<1>1. at[p] = "out" /\ Waiters \ {p} = Waiters /\ wchan \in WchanType
  BY DEF Release, MayCall, Waiters, LkpStages, IInv, TypeOK, WchanType
<1>2. CASE ReleaseExclusive(p, o)
  <2> DEFINE drained == IF "DRAINING" \notin lk.flags \/ "REENABLE" \in o THEN {}
                        ELSE {"DRAINED"}
             n == lk.exclusivecount - 1
             l == [lk EXCEPT !.flags = (@ \cup drained) \
                                 (IF n = 0 THEN {"DRAINING", "HAVE_EXCL"}
                                           ELSE {"DRAINING"}),
                             !.exclusivecount = n,
                             !.lockholder = IF n = 0 THEN NoProc ELSE @]
  <2>1. /\ lk.lockholder = p /\ Return(p, l, WokenIf(l, wchan))
        /\ excls' = excls \ {<<p, n>>} /\ shares' = shares
    BY <1>2 DEF ReleaseExclusive
  <2>2. /\ n \in Nat /\ n < MaxRecurse /\ n + 1 = lk.exclusivecount
        /\ shares = {} /\ "HAVE_EXCL" \in lk.flags
    <3>1. /\ lk.exclusivecount \in Nat /\ lk.exclusivecount <= MaxRecurse
          /\ lk.exclusivecount # 0
      BY <2>1, ProcAssumption DEF IInv, LockOK, LockType
    <3>2. shares = {} /\ "HAVE_EXCL" \in lk.flags
      BY <3>1 DEF IInv, LockOK
    <3> QED
      BY <3>1, <3>2, BoundAssumption
  <2>3. <<p, n>> \in Holds /\ <<p, n>> \in excls
    BY <2>1, <2>2, BoundAssumption DEF Holds, IInv, LockOK
  <2>4. IsFiniteSet(excls') /\ Cardinality(excls') = n
    <3>1. IsFiniteSet(excls) /\ Cardinality(excls) = n + 1
      BY <2>2 DEF IInv, LockOK
    <3> HIDE DEF n
    <3>2. IsFiniteSet(excls') /\ Cardinality(excls') = Cardinality(excls) - 1
      BY <2>1, <2>3, <3>1, FS_RemoveElement
    <3> QED
      BY <2>2, <3>1, <3>2
  <2>5. /\ l \in LockType
        /\ l.sharecount = lk.sharecount /\ l.waitcount = lk.waitcount
        /\ l.exclusivecount = n
        /\ l.lockholder = IF n = 0 THEN NoProc ELSE p
        /\ "HAVE_EXCL" \in l.flags <=> n # 0
        /\ ~OpenFor(l) => ~OpenFor(lk)
    <3>1. lk \in LockType
      BY DEF IInv, LockOK
    <3>2. drained \in SUBSET {"DRAINED"} /\ ("DRAINING" \notin lk.flags => drained = {})
      OBVIOUS
    <3>3. l.flags = (lk.flags \cup drained) \
                      (IF n = 0 THEN {"DRAINING", "HAVE_EXCL"} ELSE {"DRAINING"})
      BY <3>1 DEF LockType
    <3>4. l.flags \in SUBSET Flags
      BY <3>1, <3>2, <3>3 DEF LockType, Flags
    <3>5. /\ l.sharecount = lk.sharecount /\ l.waitcount = lk.waitcount
          /\ l.exclusivecount = n
          /\ l.lockholder = IF n = 0 THEN NoProc ELSE p
      BY <2>1, <3>1 DEF LockType
    <3>6. l \in LockType
      BY <2>1, <2>2, <3>1, <3>4 DEF LockType
    <3>7. "HAVE_EXCL" \in l.flags <=> n # 0
      BY <2>2, <3>2, <3>3
    <3>8. ~OpenFor(l) => ~OpenFor(lk)
      BY <3>2, <3>3 DEF OpenFor
    <3> QED
      BY <3>5, <3>6, <3>7, <3>8
  <2>6. \A h \in Holds : h \in excls' <=> h[1] = l.lockholder /\ h[2] < n
    <3> SUFFICES ASSUME NEW q \in Proc, NEW i \in 0 .. MaxRecurse
                 PROVE  <<q, i>> \in excls' <=> q = l.lockholder /\ i < n
      BY DEF Holds
    <3>1. <<q, i>> \in excls <=> q = p /\ i < n + 1
      BY <2>1, <2>2 DEF IInv, LockOK, Holds
    <3> HIDE DEF l
    <3> QED
      BY <2>1, <2>2, <2>5, <3>1, BoundAssumption, ProcAssumption
  <2>7. LockOK(l, shares', excls')
    <3> HIDE DEF l, n
    <3>1. excls' \subseteq Holds /\ n <= MaxRecurse /\ lk.sharecount = Cardinality(shares')
      BY <2>1, <2>2, BoundAssumption DEF LockOK, IInv
    <3>2. IsFiniteSet(shares') /\ shares' \subseteq Holds /\ (n # 0 => shares' = {})
      BY <2>1, <2>2 DEF LockOK, IInv
    <3>3. l.lockholder = NoProc <=> n = 0
      BY <2>5, ProcAssumption
    <3> QED
      BY <2>4, <2>5, <2>6, <3>1, <3>2, <3>3 DEF LockOK
  <2>8. ~OpenFor(l) => shares' = {} /\ Waiters \ {p} = {}
    BY <1>1, <2>1, <2>5 DEF IInv
  <2>9. l.waitcount = Cardinality(Waiters \ {p})
    BY <1>1, <2>5 DEF IInv
  <2>10. \A h \in shares' \cup excls' : h \in shares \cup excls \/ h[1] = p
    BY <2>1
  <2> HIDE DEF l
  <2> QED
    BY <1>1, <2>1, <2>7, <2>8, <2>9, <2>10, WokenIfType, ReturnStep
<1>3. CASE ReleaseShared(p)
  <2> DEFINE l == [lk EXCEPT !.sharecount = @ - 1]
  <2>1. PICK h \in SharesOf(p) :
          /\ InService /\ Return(p, l, WokenIf(l, wchan))
          /\ shares' = shares \ {h} /\ excls' = excls
    BY <1>3 DEF ReleaseShared
  <2>2. h \in shares /\ lk.exclusivecount = 0
    BY FS_EmptySet DEF SharesOf, IInv, LockOK
  <2>3. /\ IsFiniteSet(shares')
        /\ Cardinality(shares') = lk.sharecount - 1
        /\ Cardinality(shares') \in Nat
    BY <2>1, <2>2, FS_RemoveElement, FS_CardinalityType DEF IInv, LockOK
  <2>4. /\ l \in LockType /\ l.flags = lk.flags
        /\ l.sharecount = lk.sharecount - 1 /\ l.waitcount = lk.waitcount
        /\ l.exclusivecount = 0 /\ l.lockholder = lk.lockholder
    BY <2>2, <2>3 DEF IInv, LockOK, LockType
  <2>5. OpenFor(l)
    BY <2>1, <2>4 DEF OpenFor, InService
  <2> HIDE DEF l
  <2>6. LockOK(l, shares', excls')
    BY <2>1, <2>2, <2>3, <2>4 DEF LockOK, IInv
  <2>7. l.waitcount = Cardinality(Waiters \ {p})
    BY <1>1, <2>4 DEF IInv
  <2>8. \A g \in shares' \cup excls' : g \in shares \cup excls \/ g[1] = p
    BY <2>1
  <2> QED
    BY <1>1, <2>1, <2>5, <2>6, <2>7, <2>8, WokenIfType, ReturnStep
<1> QED
  BY <1>2, <1>3 DEF Release

\* The two ends of a wait for the lock to come to rest.
LEMMA DrainStep ==
  ASSUME IInv, NEW p \in Proc, NEW o,
         \A h \in shares \cup excls : h[1] # p, at[p] \notin LkpStages,
         AcquireDrain(p, o)
  PROVE  IInv'
<1>0. Waiters \ {p} = Waiters /\ lk \in LockType
  BY DEF Waiters, IInv, LockOK
<1>1. CASE ~AtRest(lk)
  <2>1. /\ lk' = [lk EXCEPT !.flags = @ \cup {"WAITDRAIN"}]
        /\ wchan' = [wchan EXCEPT ![p] = "flags"]
        /\ at' = [at EXCEPT ![p] = "DRAIN"]
        /\ opts' = [opts EXCEPT ![p] = o \cap {"NOWAIT", "SLEEPFAIL"}]
        /\ panicked' = panicked /\ shares' = shares /\ excls' = excls
    BY <1>1 DEF AcquireDrain
  <2>2. Waiters' = Waiters
    BY <2>1 DEF Waiters, LkpStages, IInv, TypeOK
  <2>3. /\ lk' \in LockType /\ lk'.flags = lk.flags \cup {"WAITDRAIN"}
        /\ lk'.sharecount = lk.sharecount /\ lk'.waitcount = lk.waitcount
        /\ lk'.exclusivecount = lk.exclusivecount
        /\ lk'.lockholder = lk.lockholder
    BY <1>0, <2>1 DEF LockType, Flags
  <2>4. LockOK(lk, shares, excls)'
    BY <2>1, <2>3 DEF LockOK, IInv
  <2>5. TypeOK'
    BY <2>1, <2>3 DEF TypeOK, IInv, LockType, Stages, AllOpts
  <2>6. SleepersHoldNothing'
    BY <2>1 DEF SleepersHoldNothing, IInv, TypeOK
  <2> QED
    BY <2>1, <2>2, <2>3, <2>4, <2>5, <2>6 DEF IInv, OpenFor
<1>2. CASE AtRest(lk)
  <2> DEFINE m == [lk EXCEPT !.flags = @ \cup {"DRAINING", "HAVE_EXCL"},
                             !.lockholder = p, !.exclusivecount = 1]
             w == [wchan EXCEPT ![p] = "none"]
  <2>1. /\ Return(p, m, w) /\ excls' = excls \cup {<<p, 0>>}
        /\ shares' = shares
    BY <1>2 DEF AcquireDrain
  <2>2. shares = {} /\ Waiters = {} /\ lk.exclusivecount = 0 /\ excls = {}
    <3>1. lk.sharecount = 0 /\ lk.waitcount = 0 /\ "HAVE_EXCL" \notin lk.flags
      BY <1>2 DEF AtRest, HaveOrWant
    <3> QED
      BY <3>1, WaitersFinite, FS_EmptySet DEF IInv, LockOK
  <2>3. excls' = {<<p, 0>>}
    BY <2>1, <2>2
  <2>4. Cardinality(excls') = 1 /\ IsFiniteSet(excls')
    BY <2>3, FS_Singleton, Zenon
  <2>5. /\ m \in LockType /\ "HAVE_EXCL" \in m.flags
        /\ m.sharecount = lk.sharecount /\ m.waitcount = lk.waitcount
        /\ m.exclusivecount = 1 /\ m.lockholder = p
    BY <1>0 DEF LockType, Flags
  <2>6. <<p, 0>> \in Holds /\ \A h \in Holds : h \in excls' <=> h[1] = p /\ h[2] < 1
    BY <2>3, BoundAssumption DEF Holds
  <2>7. w \in WchanType
    BY DEF IInv, TypeOK, WchanType
  <2> HIDE DEF m, w
  <2>8. LockOK(m, shares', excls')
    BY <2>1, <2>2, <2>3, <2>4, <2>5, <2>6, BoundAssumption, ProcAssumption
       DEF LockOK, IInv
  <2>9. m.waitcount = Cardinality(Waiters \ {p})
    BY <1>0, <2>5 DEF IInv
  <2>10. shares' = {} /\ Waiters \ {p} = {}
    BY <2>1, <2>2
  <2>11. \A h \in shares' \cup excls' : h \in shares \cup excls \/ h[1] = p
    BY <2>1
  <2> QED
    BY <2>1, <2>7, <2>8, <2>9, <2>10, <2>11, ReturnStep
<1> QED
  BY <1>1, <1>2

\* LK_DRAIN keeps it.
LEMMA DrainKeeps ==
  ASSUME IInv, NEW p \in Proc, NEW o, Drain(p, o)
  PROVE  IInv'
<1>1. at[p] = "out" /\ InService /\ at[p] \notin LkpStages
  BY DEF Drain, MayCall, LkpStages
<1>2. \A h \in shares \cup excls : h[1] # p
  BY DEF Drain, SharesOf, IInv, LockOK
<1>3. CASE "NOWAIT" \in o /\ ~AtRest(lk)
  BY <1>1, <1>3, RefusedStep DEF Drain
<1>4. CASE ~("NOWAIT" \in o /\ ~AtRest(lk))
  BY <1>1, <1>2, <1>4, DrainStep DEF Drain
<1> QED
  BY <1>3, <1>4

--------------------------------------------------------------------------------
\* The sleeps

\* A request is ready again when it has taken itself off the count of the waiters.
LEMMA ResumeReady ==
  ASSUME IInv, NEW p \in Proc, at[p] \in LkpStages,
         NEW l, l = [lk EXCEPT !.waitcount = @ - 1],
         NEW w, w = [wchan EXCEPT ![p] = "none"]
  PROVE  /\ Ready(p, l, w, shares) /\ OpenFor(lk)
         /\ l.flags = lk.flags /\ l.lockholder = lk.lockholder
<1>1. p \in Waiters /\ OpenFor(lk)
  BY DEF Waiters, IInv
<1>2. Cardinality(Waiters \ {p}) = lk.waitcount - 1 /\ lk.waitcount - 1 \in Nat
  <2>1. /\ IsFiniteSet(Waiters \ {p})
        /\ Cardinality(Waiters \ {p}) = Cardinality(Waiters) - 1
    BY <1>1, WaitersFinite, FS_RemoveElement
  <2>2. Cardinality(Waiters \ {p}) \in Nat
    BY <2>1, FS_CardinalityType
  <2> QED
    BY <2>1, <2>2 DEF IInv
<1>3. \A h \in shares \cup excls : h[1] # p
  BY DEF IInv, SleepersHoldNothing, LkpStages
<1>4. w \in WchanType
  BY DEF IInv, TypeOK, WchanType
<1>5. /\ l \in LockType /\ l.flags = lk.flags
      /\ l.sharecount = lk.sharecount /\ l.waitcount = lk.waitcount - 1
      /\ l.exclusivecount = lk.exclusivecount
      /\ l.lockholder = lk.lockholder
  BY <1>2 DEF IInv, LockOK, LockType
<1> QED
  BY <1>1, <1>2, <1>3, <1>4, <1>5 DEF Ready, IInv, LockOK, OpenFor

\* A request that goes on after its sleep, or fails there, keeps it.
LEMMA ResumeKeeps ==
  ASSUME IInv, NEW p \in Proc, Resume(p)
  PROVE  IInv'
<1> DEFINE l == [lk EXCEPT !.waitcount = @ - 1]
           w == [wchan EXCEPT ![p] = "none"]
           m == [l EXCEPT !.flags = @ \ Taken(at[p])]
<1>1. /\ at[p] \in LkpStages
      /\ \/ Return(p, m, w) /\ shares' = shares /\ excls' = excls
         \/ AcquireShared(p, opts[p], l, w)
         \/ AcquireUpgrade(p, opts[p], l, w, shares)
         \/ AcquireExcl1(p, opts[p], l, w, shares)
         \/ AcquireExcl2(p, opts[p], l, w, shares)
  BY DEF Resume
<1>2. Ready(p, l, w, shares)
  BY <1>1, ResumeReady
<1> HIDE DEF l, w
<1>3. CASE Return(p, m, w) /\ shares' = shares /\ excls' = excls
  <2>1. /\ m \in LockType /\ m.flags = l.flags \ Taken(at[p])
        /\ m.sharecount = l.sharecount /\ m.waitcount = l.waitcount
        /\ m.exclusivecount = l.exclusivecount
        /\ m.lockholder = l.lockholder
    BY <1>2 DEF Ready, LockOK, LockType
  <2>2. "HAVE_EXCL" \notin Taken(at[p])
    BY <1>1 DEF Taken, LkpStages
  <2> HIDE DEF m
  <2>3. LockOK(m, shares', excls') /\ OpenFor(m)
    BY <1>2, <1>3, <2>1, <2>2 DEF LockOK, Ready, OpenFor
  <2>4. m.waitcount = Cardinality(Waiters \ {p}) /\ w \in WchanType
    BY <1>2, <2>1 DEF Ready
  <2>5. \A h \in shares' \cup excls' : h \in shares \cup excls \/ h[1] = p
    BY <1>3
  <2> QED
    BY <1>3, <2>3, <2>4, <2>5, ReturnStep
<1> QED
  BY <1>1, <1>2, <1>3, SharedStep, UpgradeStep, Excl1Step, Excl2Step

\* So does a drain.
LEMMA ResumeDrainKeeps ==
  ASSUME IInv, NEW p \in Proc, ResumeDrain(p)
  PROVE  IInv'
<1>1. at[p] = "DRAIN" /\ at[p] \notin LkpStages
  BY DEF ResumeDrain, LkpStages
<1>2. CASE AcquireDrain(p, opts[p])
  BY <1>1, <1>2, DrainStep DEF IInv, SleepersHoldNothing
<1>3. CASE /\ at' = [at EXCEPT ![p] = "out"]
           /\ wchan' = [wchan EXCEPT ![p] = "none"]
           /\ opts' = [opts EXCEPT ![p] = {}]
           /\ UNCHANGED <<lk, panicked, shares, excls>>
  <2>1. Waiters' = Waiters
    BY <1>1, <1>3 DEF Waiters, LkpStages, IInv, TypeOK
  <2>2. TypeOK'
    BY <1>3 DEF IInv, TypeOK
  <2>3. SleepersHoldNothing'
    BY <1>3 DEF IInv, TypeOK, SleepersHoldNothing
  <2> QED
    BY <1>3, <2>1, <2>2, <2>3 DEF IInv, LockOK, OpenFor
<1> QED
  BY <1>2, <1>3 DEF ResumeDrain

\* The end of a sleep by a timeout or a signal touches the wait channel only.
LEMMA InterruptKeeps ==
  ASSUME IInv, NEW p \in Proc, EndTsleep(p) \/ Signal(p)
  PROVE  IInv'
<1>1. /\ wchan' = [wchan EXCEPT ![p] = "intr"]
      /\ UNCHANGED <<lk, at, opts, panicked, shares, excls>>
  BY DEF EndTsleep, Signal
<1>2. TypeOK'
  BY <1>1 DEF IInv, TypeOK
<1> QED
  BY <1>1, <1>2 DEF IInv, LockOK, OpenFor, Waiters, SleepersHoldNothing

--------------------------------------------------------------------------------

\* lockinit establishes the invariant.
LEMMA InitIInv == Init => IInv
<1> SUFFICES ASSUME Init PROVE IInv
  OBVIOUS
<1>1. TypeOK
  BY DEF Init, TypeOK, Holds
<1>2. LockOK(lk, shares, excls)
  <2>1. \A h \in Holds : h[1] # NoProc
    BY ProcAssumption DEF Holds
  <2> QED
    BY <2>1, FS_EmptySet, BoundAssumption DEF Init, LockOK, LockType
<1>3. Waiters = {}
  BY DEF Init, Waiters, LkpStages
<1> QED
  BY <1>1, <1>2, <1>3, FS_EmptySet
  DEF Init, IInv, SleepersHoldNothing, OpenFor

\* Every step keeps it.
LEMMA NextIInv == IInv /\ [Next]_vars => IInv'
<1> SUFFICES ASSUME IInv, [Next]_vars PROVE IInv'
  OBVIOUS
<1>1. CASE UNCHANGED vars
  <2>1. TypeOK'
    BY <1>1 DEF vars, IInv, TypeOK
  <2>2. LockOK(lk, shares, excls)'
    BY <1>1 DEF vars, IInv, LockOK
  <2> QED
    BY <1>1, <2>1, <2>2 DEF vars, IInv, OpenFor, Waiters, SleepersHoldNothing
<1>2. ASSUME NEW p \in Proc, NEW o, Request(p, o) \/ Release(p, o)
      PROVE  IInv'
  BY <1>2, SharedKeeps, UpgradeKeeps, ExclusiveKeeps, DrainKeeps, ReleaseKeeps
  DEF Request
<1>3. ASSUME NEW p \in Proc, Downgrade(p)
      PROVE  IInv'
  BY <1>3, DowngradeKeeps
<1>4. ASSUME NEW p \in Proc, UseAfterDrain(p)
      PROVE  IInv'
  BY <1>4, PanicStep DEF UseAfterDrain
<1>5. ASSUME NEW p \in Proc,
             Resume(p) \/ ResumeDrain(p) \/ EndTsleep(p) \/ Signal(p)
      PROVE  IInv'
  BY <1>5, ResumeKeeps, ResumeDrainKeeps, InterruptKeeps
<1> QED
  BY <1>1, <1>2, <1>3, <1>4, <1>5 DEF Next

\* In every reachable state the record of the lock agrees with the holds, and
\* whoever sleeps in lockmgr holds nothing (kern_lock.c:158-425).
THEOREM Invariant == Spec => []IInv
BY InitIInv, NextIInv, PTL DEF Spec

\* The fields of struct lock and the wait channels keep their types.
THEOREM TypeCorrect == Spec => []TypeOK
<1>1. IInv => TypeOK
  BY DEF IInv
<1> QED
  BY <1>1, Invariant, PTL

\* Readers and a writer, or two writers, are never inside together, for every
\* number of processes and every mix of requests, signals and timeouts.
THEOREM Exclusion == Spec => []MutualExclusion
<1>1. IInv => MutualExclusion
  <2> SUFFICES ASSUME IInv PROVE MutualExclusion
    OBVIOUS
  <2>1. excls # {} => shares = {}
    BY FS_EmptySet DEF IInv, LockOK
  <2>2. \A h \in excls : h[1] = lk.lockholder
    BY DEF IInv, LockOK
  <2> QED
    BY <2>1, <2>2 DEF MutualExclusion
<1> QED
  BY <1>1, Invariant, PTL

\* lk_sharecount, lk_exclusivecount and lk_waitcount are the numbers of shared
\* holds, of exclusive holds and of sleepers, so lockstatus tells the truth.
THEOREM Counts == Spec => []CountsAgree
<1>1. IInv => CountsAgree
  <2> SUFFICES ASSUME IInv PROVE CountsAgree
    OBVIOUS
  <2>1. lk.exclusivecount = 0 <=> excls = {}
    BY FS_EmptySet DEF IInv, LockOK
  <2>2. LockStatus = "EXCLUSIVE" <=> excls # {}
    BY <2>1 DEF LockStatus
  <2> QED
    BY <2>2 DEF CountsAgree, IInv, LockOK, Waiters
<1> QED
  BY <1>1, Invariant, PTL

\* A lock that has been drained has no readers and nobody asleep on it, until
\* it is released for good or reopened.
THEOREM Drained == Spec => []DrainedIdle
<1>1. IInv => DrainedIdle
  BY DEF IInv, LockOK, DrainedIdle, OpenFor, InService, Waiters
<1> QED
  BY <1>1, Invariant, PTL

--------------------------------------------------------------------------------
\* The lock implements SharedExclusiveLock.  What the abstract lock promises to an upgrade
\* the code keeps with the flag LK_WANT_UPGRADE, so the argument needs that each of the two
\* flags that bar others belongs to the process that waits for its end.

\* What the abstract lock sees of this one
ReadersOf == {h[1] : h \in shares}
WriterOf == IF excls = {} THEN NoProc ELSE lk.lockholder
PromisedTo == IF UpgraderOf = {} THEN NoProc ELSE CHOOSE p \in UpgraderOf : TRUE
Closed == ~InService

seen == <<ReadersOf, WriterOf, PromisedTo, Waiters, Closed>>

Owned == {"UPGRADE", "EXCL2"}

\* With p at s, the flags F that bar others have the owners they should.
Bars(F, p, s) ==
    /\ "WANT_UPGRADE" \in F <=> s = "UPGRADE" \/ \E q \in Proc \ {p} : at[q] = "UPGRADE"
    /\ "WANT_EXCL" \in F <=> s = "EXCL2" \/ \E q \in Proc \ {p} : at[q] = "EXCL2"
    /\ \A q \in Proc \ {p} : at[q] \in Owned =>
         at[q] # s /\ \A r \in Proc \ {p} : at[r] = at[q] => r = q

\* Who drained the lock has one exclusive hold.
Once(l) == "DRAINING" \in l.flags => l.exclusivecount = 1

RInv == IInv /\ BarsHaveOwner /\ Once(lk)

\* A step of the abstract lock, or none
Allowed == Abstract!Next \/ UNCHANGED seen

Good == BarsHaveOwner' /\ Once(lk') /\ Allowed

--------------------------------------------------------------------------------
\* The abstract lock

\* Its steps, in terms of what it sees.  Somebody waits.
LEMMA Waits ==
  ASSUME NEW p \in Proc, Waiters' = Waiters \cup {p}, ReadersOf' = ReadersOf \ {p},
         UNCHANGED <<WriterOf, PromisedTo, Closed>>
  PROVE  Allowed
<1>1. Abstract!Wait(p)
  BY DEF Abstract!Wait, ReadersOf, WriterOf, PromisedTo, Waiters, Closed
<1> QED BY <1>1 DEF Abstract!Next, Allowed

\* A request is refused.
LEMMA Refuses ==
  ASSUME NEW p \in Proc, Waiters' = Waiters \ {p}, ReadersOf' = ReadersOf \ {p},
         PromisedTo' = IF PromisedTo = p THEN NoProc ELSE PromisedTo,
         WriterOf # p, UNCHANGED <<WriterOf, Closed>>
  PROVE  Allowed
<1>1. Abstract!Refuse(p)
  BY DEF Abstract!Refuse, ReadersOf, WriterOf, PromisedTo, Waiters, Closed
<1> QED BY <1>1 DEF Abstract!Next, Allowed

\* A process gets a shared hold.
LEMMA Shares ==
  ASSUME NEW p \in Proc, WriterOf = NoProc, PromisedTo = NoProc, ~Closed,
         Waiters' = Waiters \ {p}, ReadersOf' = ReadersOf \cup {p},
         UNCHANGED <<WriterOf, PromisedTo, Closed>>
  PROVE  Allowed
<1>1. Abstract!Share(p)
  BY DEF Abstract!Share, ReadersOf, WriterOf, PromisedTo, Waiters, Closed
<1> QED BY <1>1 DEF Abstract!Next, Allowed

\* A reader is promised the next exclusive hold.
LEMMA Promises ==
  ASSUME NEW p \in Proc, p \in ReadersOf, PromisedTo = NoProc, PromisedTo' = p,
         Waiters' = Waiters \cup {p}, ReadersOf' = ReadersOf \ {p},
         UNCHANGED <<WriterOf, Closed>>
  PROVE  Allowed
<1>1. Abstract!Promise(p)
  BY DEF Abstract!Promise, ReadersOf, WriterOf, PromisedTo, Waiters, Closed
<1> QED BY <1>1 DEF Abstract!Next, Allowed

\* A process gets the exclusive hold.
LEMMA Owns ==
  ASSUME NEW p \in Proc, ReadersOf \subseteq {p}, WriterOf = NoProc,
         PromisedTo \in {NoProc, p}, ~Closed, WriterOf' = p, ReadersOf' = {},
         PromisedTo' = NoProc, Waiters' = Waiters \ {p}, UNCHANGED Closed
  PROVE  Allowed
<1>1. Abstract!Own(p)
  BY DEF Abstract!Own, ReadersOf, WriterOf, PromisedTo, Waiters, Closed
<1> QED BY <1>1 DEF Abstract!Next, Allowed

\* The lock is drained.
LEMMA Closes ==
  ASSUME NEW p \in Proc, ReadersOf = {}, WriterOf = NoProc, PromisedTo = NoProc,
         Waiters = {}, WriterOf' = p, Closed',
         UNCHANGED <<ReadersOf, PromisedTo, Waiters>>
  PROVE  Allowed
<1>1. Abstract!Close(p)
  BY DEF Abstract!Close, ReadersOf, WriterOf, PromisedTo, Waiters, Closed
<1> QED BY <1>1 DEF Abstract!Next, Allowed

\* The writer turns its hold into a shared one.
LEMMA Downgrades ==
  ASSUME NEW p \in Proc, WriterOf = p, ~Closed, WriterOf' = NoProc, ReadersOf' = {p},
         UNCHANGED <<PromisedTo, Waiters, Closed>>
  PROVE  Allowed
<1>1. Abstract!Downgrade(p)
  BY DEF Abstract!Downgrade, ReadersOf, WriterOf, PromisedTo, Waiters, Closed
<1> QED BY <1>1 DEF Abstract!Next, Allowed

\* A holder leaves.
LEMMA Leaves ==
  ASSUME NEW p \in Proc, UNCHANGED <<PromisedTo, Waiters>>,
         \/ /\ p \in ReadersOf /\ ReadersOf' = ReadersOf \ {p}
            /\ UNCHANGED <<WriterOf, Closed>>
         \/ /\ WriterOf = p /\ WriterOf' = NoProc /\ UNCHANGED ReadersOf
            /\ Closed' \in {Closed, FALSE}
  PROVE  Allowed
<1>1. Abstract!Leave(p)
  BY DEF Abstract!Leave, ReadersOf, WriterOf, PromisedTo, Waiters, Closed
<1> QED BY <1>1 DEF Abstract!Next, Allowed

\* The writer is the lock holder.
WriterShown == WriterOf = lk.lockholder /\ (excls = {} <=> lk.lockholder = NoProc)

\* There is one just when there are exclusive holds.
LEMMA WriterIs == IInv => WriterShown
<1> SUFFICES ASSUME IInv PROVE WriterShown
  OBVIOUS
<1>1. excls = {} <=> lk.exclusivecount = 0
  BY FS_EmptySet DEF IInv, LockOK
<1> QED BY <1>1 DEF WriterOf, IInv, LockOK, WriterShown

\* The promise is to the one process that waits for its upgrade.
PromiseOwned ==
    /\ \A p \in Proc : at[p] = "UPGRADE" => PromisedTo = p
    /\ (\A p \in Proc : at[p] # "UPGRADE") => PromisedTo = NoProc
    /\ PromisedTo = NoProc <=> "WANT_UPGRADE" \notin lk.flags

\* That is because there is one at most.
LEMMA PromiseIs == BarsHaveOwner => PromiseOwned
<1> SUFFICES ASSUME BarsHaveOwner PROVE PromiseOwned
  OBVIOUS
<1>1. ASSUME NEW p \in Proc, at[p] = "UPGRADE" PROVE PromisedTo = p
  <2>1. UpgraderOf = {p}
    BY <1>1 DEF BarsHaveOwner, UpgraderOf
  <2> QED BY <2>1 DEF PromisedTo
<1>2. ASSUME \A p \in Proc : at[p] # "UPGRADE" PROVE PromisedTo = NoProc
  BY <1>2 DEF PromisedTo, UpgraderOf
<1> QED BY <1>1, <1>2, ProcAssumption DEF BarsHaveOwner, PromiseOwned

\* The bars are right before a step of p, seen from p.
LEMMA BarsNow ==
  ASSUME BarsHaveOwner, NEW p \in Proc
  PROVE  Bars(lk.flags, p, at[p])
BY DEF BarsHaveOwner, Bars, Owned

\* And after one that takes p to s.
LEMMA BarsThen ==
  ASSUME RInv, NEW p \in Proc, NEW s \in Stages \cup {"out"}, NEW F, Bars(F, p, s),
         at' = [at EXCEPT ![p] = s],
         "WANT_UPGRADE" \in lk'.flags <=> "WANT_UPGRADE" \in F,
         "WANT_EXCL" \in lk'.flags <=> "WANT_EXCL" \in F
  PROVE  /\ BarsHaveOwner'
         /\ PromisedTo' = IF s = "UPGRADE" THEN p
                          ELSE IF at[p] = "UPGRADE" THEN NoProc ELSE PromisedTo
<1>1. /\ at'[p] = s /\ \A q \in Proc \ {p} : at'[q] = at[q]
  BY DEF RInv, IInv, TypeOK
<1>2. BarsHaveOwner'
  <2>1. ("WANT_UPGRADE" \in lk.flags <=> \E q \in Proc : at[q] = "UPGRADE")'
    BY <1>1 DEF Bars
  <2>2. ("WANT_EXCL" \in lk.flags <=> \E q \in Proc : at[q] = "EXCL2")'
    BY <1>1 DEF Bars
  <2>3. (\A q, r \in Proc : at[q] = at[r] /\ at[q] \in {"UPGRADE", "EXCL2"} => q = r)'
    BY <1>1 DEF Bars, Owned
  <2> QED BY <2>1, <2>2, <2>3 DEF BarsHaveOwner
<1>3. PromiseOwned'
  BY <1>2, PromiseIs, PTL
<1>4. CASE s = "UPGRADE"
  <2>1. at'[p] = "UPGRADE"
    BY <1>1, <1>4
  <2>2. PromisedTo' = p
    BY <1>3, <2>1 DEF PromiseOwned
  <2> QED BY <1>2, <1>4, <2>2
<1>5. CASE s # "UPGRADE" /\ at[p] = "UPGRADE"
  BY <1>1, <1>2, <1>3, <1>5 DEF RInv, BarsHaveOwner, PromiseOwned
<1>6. CASE s # "UPGRADE" /\ at[p] # "UPGRADE"
  <2>1. CASE \E q \in Proc : at[q] = "UPGRADE"
    BY <1>1, <1>2, <1>3, <1>6, <2>1, PromiseIs DEF RInv, PromiseOwned
  <2>2. CASE \A q \in Proc : at[q] # "UPGRADE"
    BY <1>1, <1>2, <1>3, <1>6, <2>2, PromiseIs DEF RInv, PromiseOwned
  <2> QED BY <2>1, <2>2
<1> QED BY <1>2, <1>4, <1>5, <1>6

\* What a return of p shows to the abstract lock
LEMMA ReturnSeen ==
  ASSUME RInv, NEW p \in Proc, NEW l \in LockType, NEW w, Bars(l.flags, p, "out"),
         Once(l), Return(p, l, w)
  PROVE  /\ BarsHaveOwner' /\ Once(lk') /\ Waiters' = Waiters \ {p}
         /\ PromisedTo' = IF at[p] = "UPGRADE" THEN NoProc ELSE PromisedTo
         /\ lk'.lockholder = l.lockholder /\ (Closed' <=> ~OpenFor(l))
<1>1. at' = [at EXCEPT ![p] = "out"] /\ "out" \in Stages \cup {"out"}
  BY DEF Return
<1>2. /\ lk'.flags \in {l.flags, l.flags \ {"WAITDRAIN"}}
      /\ lk'.exclusivecount = l.exclusivecount /\ lk'.lockholder = l.lockholder
  BY DEF Return, LockType
<1>3. Once(lk') /\ (Closed' <=> ~OpenFor(l))
  BY <1>2 DEF Once, Closed, InService, OpenFor
<1>4. Waiters' = Waiters \ {p}
  BY <1>1 DEF Waiters, LkpStages, RInv, IInv, TypeOK
<1>5. /\ "WANT_UPGRADE" \in lk'.flags <=> "WANT_UPGRADE" \in l.flags
      /\ "WANT_EXCL" \in lk'.flags <=> "WANT_EXCL" \in l.flags
  BY <1>2
<1> QED BY <1>1, <1>2, <1>3, <1>4, <1>5, BarsThen

\* What a sleep of p on the lock shows
LEMMA SleepSeen ==
  ASSUME RInv, NEW p \in Proc, NEW s \in LkpStages, NEW o, NEW l \in LockType, NEW w,
         Bars(l.flags, p, s), Once(l), Sleep(p, s, o, l, w)
  PROVE  /\ BarsHaveOwner' /\ Once(lk') /\ Waiters' = Waiters \cup {p}
         /\ PromisedTo' = IF s = "UPGRADE" THEN p
                          ELSE IF at[p] = "UPGRADE" THEN NoProc ELSE PromisedTo
         /\ lk'.lockholder = l.lockholder /\ (Closed' <=> ~OpenFor(l))
<1>1. at' = [at EXCEPT ![p] = s] /\ s \in Stages \cup {"out"}
  BY DEF Sleep, Stages
<1>2. /\ lk'.flags = l.flags
      /\ lk'.exclusivecount = l.exclusivecount /\ lk'.lockholder = l.lockholder
  BY DEF Sleep, LockType
<1>3. Once(lk') /\ (Closed' <=> ~OpenFor(l))
  BY <1>2 DEF Once, Closed, InService, OpenFor
<1>4. Waiters' = Waiters \cup {p}
  BY <1>1 DEF Waiters, LkpStages, RInv, IInv, TypeOK
<1> QED BY <1>1, <1>2, <1>3, <1>4, BarsThen

\* p is inside a request, as Ready says, and all that has changed for the others is that
\* it has given up the holds that are not left.
Within(p, l, w, left) ==
    /\ Ready(p, l, w, left)
    /\ OpenFor(lk) /\ l.lockholder = lk.lockholder
    /\ \A h \in shares \ left : h[1] = p

\* Then p does not hold the lock, and once it has only what is left it does not read.
LEMMA WithinSeen ==
  ASSUME RInv, IInv', NEW p \in Proc, NEW l, NEW w, NEW left, Within(p, l, w, left)
  PROVE  /\ l \in LockType /\ Once(l) /\ ~Closed
         /\ WriterOf # p /\ WriterOf = l.lockholder /\ WriterOf' = lk'.lockholder
         /\ (shares' = left => ReadersOf' = ReadersOf \ {p})
<1>1. l \in LockType /\ Once(l) /\ ~Closed
  BY DEF Within, Ready, LockOK, Once, OpenFor, Closed, InService
<1>2. WriterShown /\ WriterShown'
  BY WriterIs, PTL DEF RInv
<1>3. WriterOf = l.lockholder /\ WriterOf' = lk'.lockholder
  BY <1>2 DEF Within, WriterShown
<1>4. WriterOf # p
  <2>1. excls # {} => \E h \in excls : h[1] = lk.lockholder
    BY DEF RInv, IInv, LockOK
  <2> QED BY <1>2, <2>1, ProcAssumption DEF WriterShown, Within, Ready
<1>5. ASSUME shares' = left PROVE ReadersOf' = ReadersOf \ {p}
  BY <1>5 DEF ReadersOf, Within, Ready
<1> QED BY <1>1, <1>3, <1>4, <1>5

\* Nothing happens to the lock.
LEMMA NothingSeen ==
  ASSUME RInv, UNCHANGED <<lk, at, shares, excls>>
  PROVE  Good
<1>1. UNCHANGED seen
  BY DEF seen, ReadersOf, WriterOf, PromisedTo, UpgraderOf, Waiters, Closed, InService
<1>2. BarsHaveOwner' /\ Once(lk')
  BY DEF RInv, BarsHaveOwner, Once
<1> QED BY <1>1, <1>2 DEF Good, Allowed

\* The exclusive hold of a process that has waited long enough
LEMMA GrantSeen ==
  ASSUME RInv, IInv', NEW p \in Proc, NEW l, NEW w, NEW left, Within(p, l, w, left),
         Bars(l.flags, p, "out"), "WANT_UPGRADE" \notin l.flags, l.sharecount = 0,
         Grant(p, l, w, left)
  PROVE  Good
<1>1. CASE l.exclusivecount # 0
  BY <1>1, NothingSeen DEF Grant, Panic
<1>2. CASE l.exclusivecount = 0
  <2> DEFINE m == [l EXCEPT !.flags = @ \cup {"HAVE_EXCL"},
                            !.lockholder = p, !.exclusivecount = 1]
  <2>1. Return(p, m, w) /\ shares' = left
    BY <1>2 DEF Grant
  <2>2. /\ l \in LockType /\ ~Closed /\ WriterOf = l.lockholder
        /\ WriterOf' = lk'.lockholder /\ ReadersOf' = ReadersOf \ {p}
    BY <2>1, WithinSeen
  <2>3. /\ m \in LockType /\ m.flags = l.flags \cup {"HAVE_EXCL"}
        /\ m.exclusivecount = 1 /\ m.lockholder = p
    BY <2>2 DEF LockType, Flags
  <2> HIDE DEF m
  <2>4. Bars(m.flags, p, "out") /\ Once(m) /\ OpenFor(m)
    BY <2>3 DEF Bars, Once, OpenFor, Within, Ready
  <2>5. /\ BarsHaveOwner' /\ Once(lk') /\ Waiters' = Waiters \ {p}
        /\ PromisedTo' = IF at[p] = "UPGRADE" THEN NoProc ELSE PromisedTo
        /\ lk'.lockholder = p /\ ~Closed'
    BY <2>1, <2>3, <2>4, ReturnSeen
  <2>6. WriterOf = NoProc /\ ReadersOf' = {} /\ ReadersOf \subseteq {p}
    <3>1. left = {} /\ l.lockholder = NoProc
      BY <1>2, FS_EmptySet DEF Within, Ready, LockOK
    <3> QED BY <2>1, <2>2, <3>1 DEF ReadersOf
  <2>7. IF at[p] = "UPGRADE" THEN PromisedTo = p ELSE PromisedTo = NoProc
    <3>1. \A q \in Proc \ {p} : at[q] # "UPGRADE"
      BY DEF Bars
    <3>2. PromiseOwned
      BY PromiseIs DEF RInv
    <3> QED BY <3>1, <3>2 DEF PromiseOwned
  <2>8. PromisedTo \in {NoProc, p} /\ PromisedTo' = NoProc
    BY <2>5, <2>7
  <2>9. Closed' = Closed
    BY <2>2, <2>5 DEF Closed
  <2>10. Allowed
    BY <2>2, <2>5, <2>6, <2>8, <2>9, Owns
  <2> QED BY <2>5, <2>10 DEF Good
<1> QED BY <1>1, <1>2

\* A process that sleeps, and has no promise, waits.
LEMMA SleepWaits ==
  ASSUME RInv, IInv', NEW p \in Proc, NEW s \in LkpStages \ {"UPGRADE"}, NEW o, NEW l,
         NEW w, NEW left, Within(p, l, w, left), Bars(l.flags, p, s),
         at[p] # "UPGRADE", Sleep(p, s, o, l, w), shares' = left
  PROVE  Good
<1>1. /\ l \in LockType /\ Once(l) /\ ~Closed /\ WriterOf = l.lockholder
      /\ WriterOf' = lk'.lockholder /\ ReadersOf' = ReadersOf \ {p}
  BY WithinSeen
<1>2. /\ BarsHaveOwner' /\ Once(lk') /\ Waiters' = Waiters \cup {p}
      /\ PromisedTo' = PromisedTo
      /\ lk'.lockholder = l.lockholder /\ (Closed' <=> ~OpenFor(l))
  BY <1>1, SleepSeen
<1>3. Closed' = Closed /\ WriterOf' = WriterOf
  BY <1>1, <1>2 DEF Within, Ready, Closed
<1> QED BY <1>1, <1>2, <1>3, Waits DEF Good

\* The second wait of an exclusive request: WANT_EXCL is its own.
LEMMA Excl2Seen ==
  ASSUME RInv, IInv', NEW p \in Proc, NEW o, NEW l, NEW w, NEW left,
         Within(p, l, w, left), Bars(l.flags, p, "EXCL2"), at[p] # "UPGRADE",
         AcquireExcl2(p, o, l, w, left)
  PROVE  Good
<1>1. CASE Wanted("EXCL2", l)
  <2>1. Sleep(p, "EXCL2", o, l, w) /\ shares' = left
    BY <1>1 DEF AcquireExcl2
  <2> QED BY <2>1, SleepWaits DEF LkpStages
<1>2. CASE ~Wanted("EXCL2", l)
  <2> DEFINE m == [l EXCEPT !.flags = @ \ {"WANT_EXCL"}]
  <2>1. Grant(p, m, w, left)
    BY <1>2 DEF AcquireExcl2
  <2>2. l.sharecount = 0 /\ "WANT_UPGRADE" \notin l.flags
    BY <1>2 DEF Wanted, ReadersRemain
  <2>3. /\ m \in LockType /\ m.flags = l.flags \ {"WANT_EXCL"}
        /\ m.sharecount = l.sharecount /\ m.waitcount = l.waitcount
        /\ m.exclusivecount = l.exclusivecount /\ m.lockholder = l.lockholder
    BY DEF Within, Ready, LockOK, LockType
  <2> HIDE DEF m
  <2>4. Within(p, m, w, left)
    BY <2>3 DEF Within, Ready, LockOK, OpenFor
  <2>5. Bars(m.flags, p, "out")
    BY <2>3 DEF Bars, Owned
  <2> QED BY <2>1, <2>2, <2>3, <2>4, <2>5, GrantSeen
<1> QED BY <1>1, <1>2

\* The first wait of an exclusive request, and the flag it sets when it goes on
LEMMA Excl1Seen ==
  ASSUME RInv, IInv', NEW p \in Proc, NEW o, NEW l, NEW w, NEW left,
         Within(p, l, w, left), Bars(l.flags, p, "out"), at[p] # "UPGRADE",
         AcquireExcl1(p, o, l, w, left)
  PROVE  Good
<1>1. CASE Wanted("EXCL1", l)
  <2>1. Sleep(p, "EXCL1", o, l, w) /\ shares' = left
    BY <1>1 DEF AcquireExcl1
  <2>2. Bars(l.flags, p, "EXCL1")
    BY DEF Bars, Owned
  <2> QED BY <2>1, <2>2, SleepWaits DEF LkpStages
<1>2. CASE ~Wanted("EXCL1", l)
  <2> DEFINE m == [l EXCEPT !.flags = @ \cup {"WANT_EXCL"}]
  <2>1. AcquireExcl2(p, o, m, w, left)
    BY <1>2 DEF AcquireExcl1
  <2>2. "WANT_EXCL" \notin l.flags
    BY <1>2 DEF Wanted
  <2>3. /\ m \in LockType /\ m.flags = l.flags \cup {"WANT_EXCL"}
        /\ m.sharecount = l.sharecount /\ m.waitcount = l.waitcount
        /\ m.exclusivecount = l.exclusivecount /\ m.lockholder = l.lockholder
    BY DEF Within, Ready, LockOK, LockType, Flags
  <2> HIDE DEF m
  <2>4. Within(p, m, w, left)
    BY <2>3 DEF Within, Ready, LockOK, OpenFor
  <2>5. Bars(m.flags, p, "EXCL2")
    BY <2>2, <2>3 DEF Bars, Owned
  <2> QED BY <2>1, <2>4, <2>5, Excl2Seen
<1> QED BY <1>1, <1>2

\* The wait of an upgrade: its process has the promise already, or is a reader and gets it.
LEMMA UpgradeSeen ==
  ASSUME RInv, IInv', NEW p \in Proc, NEW o, NEW l, NEW w, NEW left,
         Within(p, l, w, left), Bars(l.flags, p, "UPGRADE"),
         at[p] = "UPGRADE" \/ (p \in ReadersOf /\ PromisedTo = NoProc),
         AcquireUpgrade(p, o, l, w, left)
  PROVE  Good
<1>1. CASE Wanted("UPGRADE", l)
  <2>1. Sleep(p, "UPGRADE", o, l, w) /\ shares' = left
    BY <1>1 DEF AcquireUpgrade
  <2>2. /\ l \in LockType /\ Once(l) /\ ~Closed /\ WriterOf = l.lockholder
        /\ WriterOf' = lk'.lockholder /\ ReadersOf' = ReadersOf \ {p}
    BY <2>1, WithinSeen
  <2>3. "UPGRADE" \in LkpStages
    BY DEF LkpStages
  <2>4. /\ BarsHaveOwner' /\ Once(lk') /\ Waiters' = Waiters \cup {p}
        /\ PromisedTo' = p
        /\ lk'.lockholder = l.lockholder /\ (Closed' <=> ~OpenFor(l))
    BY <2>1, <2>2, <2>3, SleepSeen
  <2>5. Closed' = Closed /\ WriterOf' = WriterOf
    BY <2>2, <2>4 DEF Within, Ready, Closed
  <2>6. CASE at[p] = "UPGRADE"
    <3>1. PromisedTo = p
      BY <2>6, PromiseIs DEF RInv, PromiseOwned
    <3> QED BY <2>2, <2>4, <2>5, <3>1, Waits DEF Good
  <2>7. CASE p \in ReadersOf /\ PromisedTo = NoProc
    BY <2>2, <2>4, <2>5, <2>7, Promises DEF Good
  <2> QED BY <2>6, <2>7
<1>2. CASE ~Wanted("UPGRADE", l)
  <2> DEFINE m == [l EXCEPT !.flags = @ \ {"WANT_UPGRADE"}]
  <2>1. Grant(p, m, w, left)
    BY <1>2 DEF AcquireUpgrade
  <2>2. l.sharecount = 0
    BY <1>2 DEF Wanted
  <2>3. /\ m \in LockType /\ m.flags = l.flags \ {"WANT_UPGRADE"}
        /\ m.sharecount = l.sharecount /\ m.waitcount = l.waitcount
        /\ m.exclusivecount = l.exclusivecount /\ m.lockholder = l.lockholder
    BY DEF Within, Ready, LockOK, LockType
  <2> HIDE DEF m
  <2>4. Within(p, m, w, left)
    BY <2>3 DEF Within, Ready, LockOK, OpenFor
  <2>5. Bars(m.flags, p, "out") /\ "WANT_UPGRADE" \notin m.flags
    BY <2>3 DEF Bars, Owned
  <2> QED BY <2>1, <2>2, <2>3, <2>4, <2>5, GrantSeen
<1> QED BY <1>1, <1>2

\* The wait of a shared request, and the hold it ends in
LEMMA SharedSeen ==
  ASSUME RInv, IInv', NEW p \in Proc, NEW o, NEW l, NEW w, Within(p, l, w, shares),
         Bars(l.flags, p, "out"), at[p] # "UPGRADE", AcquireShared(p, o, l, w)
  PROVE  Good
<1>1. CASE Wanted("SHARED", l)
  <2>1. Sleep(p, "SHARED", o, l, w) /\ shares' = shares
    BY <1>1 DEF AcquireShared
  <2>2. Bars(l.flags, p, "SHARED")
    BY DEF Bars, Owned
  <2> QED BY <2>1, <2>2, SleepWaits DEF LkpStages
<1>2. CASE ~Wanted("SHARED", l)
  <2> DEFINE m == [l EXCEPT !.sharecount = @ + 1]
  <2>1. Return(p, m, w) /\ shares' = shares \cup {<<p, 0>>}
    BY <1>2 DEF AcquireShared
  <2>2. l.flags \cap HaveOrWant = {}
    BY <1>2 DEF Wanted
  <2>3. /\ l \in LockType /\ Once(l) /\ ~Closed /\ WriterOf = l.lockholder
        /\ WriterOf' = lk'.lockholder
    BY WithinSeen
  <2>4. /\ m \in LockType /\ m.flags = l.flags
        /\ m.exclusivecount = l.exclusivecount /\ m.lockholder = l.lockholder
    BY <2>3 DEF LockType
  <2> HIDE DEF m
  <2>5. Bars(m.flags, p, "out") /\ Once(m)
    BY <2>3, <2>4 DEF Once
  <2>6. /\ BarsHaveOwner' /\ Once(lk') /\ Waiters' = Waiters \ {p}
        /\ PromisedTo' = PromisedTo
        /\ lk'.lockholder = m.lockholder /\ (Closed' <=> ~OpenFor(m))
    BY <2>1, <2>4, <2>5, ReturnSeen
  <2>7. WriterOf = NoProc /\ WriterOf' = WriterOf
    BY <2>2, <2>3, <2>4, <2>6 DEF Within, Ready, LockOK, HaveOrWant
  <2>8. PromisedTo = NoProc
    <3>1. \A q \in Proc : at[q] # "UPGRADE"
      BY <2>2 DEF Bars, HaveOrWant
    <3> QED BY <3>1, PromiseIs DEF RInv, PromiseOwned
  <2>9. ReadersOf' = ReadersOf \cup {p}
    <3>1. shares' = shares \cup {<<p, 0>>} /\ <<p, 0>>[1] = p
      BY <2>1
    <3> QED BY ONLY <3>1 DEF ReadersOf
  <2>10. Closed' = Closed
    BY <2>3, <2>4, <2>6 DEF Within, Ready, OpenFor, Closed
  <2> QED BY <2>3, <2>6, <2>7, <2>8, <2>9, <2>10, Shares DEF Good
<1> QED BY <1>1, <1>2

--------------------------------------------------------------------------------
\* The requests

\* A caller is within its request with the lock as it is.
LEMMA CallerWithin ==
  ASSUME RInv, NEW p \in Proc, at[p] = "out", InService, SharesOf(p) = {},
         lk.lockholder # p
  PROVE  Within(p, lk, wchan, shares) /\ Bars(lk.flags, p, "out")
<1>1. Ready(p, lk, wchan, shares)
  BY CallerReady DEF RInv
<1>2. OpenFor(lk)
  BY DEF InService, OpenFor
<1>3. Bars(lk.flags, p, "out")
  BY BarsNow DEF RInv
<1> QED BY <1>1, <1>2, <1>3 DEF Within

\* A return that changes no more than the number of exclusive holds of the holder, if
\* that much, is not seen.
LEMMA RefusedSeen ==
  ASSUME RInv, IInv', NEW p \in Proc, NEW l \in LockType, at[p] = "out",
         Return(p, l, wchan), Once(l), l.flags = lk.flags, l.lockholder = lk.lockholder,
         UNCHANGED shares
  PROVE  Good
<1>1. Bars(l.flags, p, "out")
  BY BarsNow DEF RInv
<1>2. /\ BarsHaveOwner' /\ Once(lk') /\ Waiters' = Waiters \ {p}
      /\ PromisedTo' = PromisedTo
      /\ lk'.lockholder = l.lockholder /\ (Closed' <=> ~OpenFor(l))
  BY <1>1, ReturnSeen
<1>3. Waiters' = Waiters
  BY <1>2 DEF Waiters, LkpStages
<1>4. Closed' = Closed
  BY <1>2 DEF Closed, InService, OpenFor
<1>5. WriterShown /\ WriterShown'
  BY WriterIs, PTL DEF RInv
<1>6. WriterOf' = WriterOf /\ ReadersOf' = ReadersOf
  BY <1>2, <1>5 DEF WriterShown, ReadersOf
<1> QED BY <1>2, <1>3, <1>4, <1>6 DEF Good, Allowed, seen

\* LK_SHARED
LEMMA SharedRefines ==
  ASSUME RInv, IInv', NEW p \in Proc, NEW o, Shared(p, o)
  PROVE  Good
<1>1. at[p] = "out" /\ InService /\ lk.lockholder # p /\ SharesOf(p) = {}
  BY DEF Shared, MayCall
<1>2. Within(p, lk, wchan, shares) /\ Bars(lk.flags, p, "out")
  BY <1>1, CallerWithin
<1>3. CASE AcquireShared(p, o, lk, wchan)
  BY <1>1, <1>2, <1>3, SharedSeen
<1>4. CASE Return(p, lk, wchan) /\ UNCHANGED <<shares, excls>>
  BY <1>1, <1>4, RefusedSeen DEF RInv, IInv, LockOK
<1> QED BY <1>3, <1>4 DEF Shared

\* LK_EXCLUSIVE: a recursion is not seen.
LEMMA ExclusiveRefines ==
  ASSUME RInv, IInv', NEW p \in Proc, NEW o, Exclusive(p, o)
  PROVE  Good
<1>1. at[p] = "out" /\ InService /\ SharesOf(p) = {} /\ lk \in LockType
  BY DEF Exclusive, MayCall, RInv, IInv, LockOK
<1>2. CASE lk.lockholder # p
  <2>1. Within(p, lk, wchan, shares) /\ Bars(lk.flags, p, "out")
    BY <1>1, <1>2, CallerWithin
  <2>2. CASE AcquireExcl1(p, o, lk, wchan, shares)
    BY <1>1, <2>1, <2>2, Excl1Seen
  <2>3. CASE Return(p, lk, wchan) /\ UNCHANGED <<shares, excls>>
    BY <1>1, <2>3, RefusedSeen DEF RInv
  <2> QED BY <1>2, <2>2, <2>3 DEF Exclusive
<1>3. CASE lk.lockholder = p
  <2> DEFINE m == [lk EXCEPT !.exclusivecount = @ + 1]
  <2>1. Return(p, m, wchan) /\ UNCHANGED shares
    BY <1>3 DEF Exclusive
  <2>2. m \in LockType /\ m.flags = lk.flags /\ m.lockholder = lk.lockholder
    BY <1>1 DEF LockType
  <2> HIDE DEF m
  <2>3. Once(m)
    BY <1>1, <2>2 DEF Once, InService
  <2> QED BY <1>1, <2>1, <2>2, <2>3, RefusedSeen
<1> QED BY <1>2, <1>3

\* LK_UPGRADE and LK_EXCLUPGRADE: refused, promised, or behind another upgrade
LEMMA UpgradeRefines ==
  ASSUME RInv, IInv', NEW p \in Proc, NEW o, Upgrade(p, o)
  PROVE  Good
<1> DEFINE l == [lk EXCEPT !.sharecount = @ - 1]
           m == [l EXCEPT !.flags = @ \cup {"WANT_UPGRADE"}]
<1>1. PICK h \in SharesOf(p) :
        /\ at[p] = "out" /\ InService /\ SharesOf(p) = {h}
        /\ \/ Return(p, l, wchan) /\ shares' = shares \ {h}
           \/ /\ "WANT_UPGRADE" \notin lk.flags
              /\ AcquireUpgrade(p, o, m, wchan, shares \ {h})
           \/ AcquireExcl1(p, o, l, YieldWake(l, wchan), shares \ {h})
  BY DEF Upgrade, MayCall
<1>2. /\ Ready(p, l, wchan, shares \ {h})
      /\ Ready(p, l, YieldWake(l, wchan), shares \ {h})
      /\ Ready(p, m, wchan, shares \ {h})
      /\ l.flags = lk.flags /\ l.lockholder = lk.lockholder
  BY <1>1, UpgraderReady DEF RInv
<1>3. /\ m.flags = lk.flags \cup {"WANT_UPGRADE"} /\ m.lockholder = lk.lockholder
      /\ l \in LockType
  BY <1>2 DEF LockType, Ready, LockOK
<1> HIDE DEF l, m
<1>4. h \in shares /\ h[1] = p /\ p \in ReadersOf
  BY DEF SharesOf, ReadersOf
<1>5. /\ Within(p, l, wchan, shares \ {h})
      /\ Within(p, l, YieldWake(l, wchan), shares \ {h})
      /\ Within(p, m, wchan, shares \ {h})
  BY <1>1, <1>2, <1>3, <1>4 DEF Within, InService, OpenFor
<1>6. Bars(l.flags, p, "out") /\ at[p] # "UPGRADE"
  BY <1>1, <1>2, BarsNow DEF RInv
<1>7. CASE Return(p, l, wchan) /\ shares' = shares \ {h}
  <2>1. /\ l \in LockType /\ Once(l) /\ ~Closed /\ WriterOf # p
        /\ WriterOf = l.lockholder /\ WriterOf' = lk'.lockholder
        /\ ReadersOf' = ReadersOf \ {p}
    BY <1>5, <1>7, WithinSeen
  <2>2. /\ BarsHaveOwner' /\ Once(lk') /\ Waiters' = Waiters \ {p}
        /\ PromisedTo' = PromisedTo
        /\ lk'.lockholder = l.lockholder /\ (Closed' <=> ~OpenFor(l))
    BY <1>6, <1>7, <2>1, ReturnSeen
  <2>3. Closed' = Closed
    BY <1>5, <2>1, <2>2 DEF Within, Ready, Closed
  <2>4. PromisedTo # p
    <3>1. PromisedTo \in UpgraderOf \/ PromisedTo = NoProc
      BY DEF PromisedTo
    <3> QED BY <1>6, <3>1, ProcAssumption DEF UpgraderOf
  <2>5. PromisedTo' = IF PromisedTo = p THEN NoProc ELSE PromisedTo
    BY <2>2, <2>4
  <2>6. WriterOf' = WriterOf
    BY <2>1, <2>2
  <2> QED BY <2>1, <2>2, <2>3, <2>5, <2>6, Refuses DEF Good
<1>8. CASE /\ "WANT_UPGRADE" \notin lk.flags
           /\ AcquireUpgrade(p, o, m, wchan, shares \ {h})
  <2>1. Bars(m.flags, p, "UPGRADE")
    BY <1>2, <1>3, <1>6, <1>8 DEF Bars, Owned
  <2>2. PromisedTo = NoProc
    BY <1>8, PromiseIs DEF RInv, PromiseOwned
  <2> QED BY <1>4, <1>5, <1>8, <2>1, <2>2, UpgradeSeen
<1>9. CASE AcquireExcl1(p, o, l, YieldWake(l, wchan), shares \ {h})
  BY <1>5, <1>6, <1>9, Excl1Seen
<1> QED BY <1>1, <1>7, <1>8, <1>9

\* The wait for the lock to come to rest, and its end, which closes the lock
LEMMA DrainSeen ==
  ASSUME RInv, IInv', NEW p \in Proc, NEW o, at[p] \notin LkpStages,
         AcquireDrain(p, o)
  PROVE  Good
<1>1. WriterShown /\ WriterShown' /\ lk \in LockType
  BY WriterIs, PTL DEF RInv, IInv, LockOK
<1>2. at[p] # "UPGRADE" /\ at[p] # "EXCL2"
  BY DEF LkpStages
<1>3. CASE ~AtRest(lk)
  <2>1. /\ lk' = [lk EXCEPT !.flags = @ \cup {"WAITDRAIN"}]
        /\ at' = [at EXCEPT ![p] = "DRAIN"] /\ UNCHANGED <<shares, excls>>
    BY <1>3 DEF AcquireDrain
  <2>2. /\ lk'.flags = lk.flags \cup {"WAITDRAIN"} /\ lk'.lockholder = lk.lockholder
        /\ lk'.exclusivecount = lk.exclusivecount
    BY <1>1, <2>1 DEF LockType
  <2>3. Bars(lk.flags, p, "DRAIN")
    BY <1>2, BarsNow DEF RInv, Bars, Owned
  <2>4. /\ "WANT_UPGRADE" \in lk'.flags <=> "WANT_UPGRADE" \in lk.flags
        /\ "WANT_EXCL" \in lk'.flags <=> "WANT_EXCL" \in lk.flags
        /\ "DRAIN" \in Stages \cup {"out"}
    BY <2>2 DEF Stages
  <2>5. BarsHaveOwner' /\ PromisedTo' = PromisedTo
    BY <1>2, <2>1, <2>3, <2>4, BarsThen
  <2>6. Once(lk') /\ Closed' = Closed
    BY <2>2 DEF RInv, Once, Closed, InService
  <2>7. Waiters' = Waiters
    BY <2>1 DEF Waiters, LkpStages, RInv, IInv, TypeOK
  <2>8. ReadersOf' = ReadersOf /\ WriterOf' = WriterOf
    BY <2>1, <2>2 DEF ReadersOf, WriterOf
  <2> QED BY <2>5, <2>6, <2>7, <2>8 DEF Good, Allowed, seen
<1>4. CASE AtRest(lk)
  <2> DEFINE m == [lk EXCEPT !.flags = @ \cup {"DRAINING", "HAVE_EXCL"},
                             !.lockholder = p, !.exclusivecount = 1]
  <2>1. Return(p, m, [wchan EXCEPT ![p] = "none"]) /\ UNCHANGED shares
    BY <1>4 DEF AcquireDrain
  <2>2. /\ m \in LockType /\ m.flags = lk.flags \cup {"DRAINING", "HAVE_EXCL"}
        /\ m.exclusivecount = 1 /\ m.lockholder = p
    BY <1>1 DEF LockType, Flags
  <2> HIDE DEF m
  <2>3. Bars(m.flags, p, "out")
    BY <1>2, <2>2, BarsNow DEF RInv, Bars, Owned
  <2>4. Once(m) /\ ~OpenFor(m)
    BY <2>2 DEF Once, OpenFor
  <2>5. /\ BarsHaveOwner' /\ Once(lk') /\ Waiters' = Waiters \ {p}
        /\ PromisedTo' = PromisedTo /\ lk'.lockholder = p /\ Closed'
    BY <1>2, <2>1, <2>2, <2>3, <2>4, ReturnSeen
  <2>6. ReadersOf = {} /\ WriterOf = NoProc /\ Waiters = {}
    <3>1. lk.sharecount = 0 /\ lk.waitcount = 0 /\ "HAVE_EXCL" \notin lk.flags
      BY <1>4 DEF AtRest, HaveOrWant
    <3>2. shares = {} /\ Waiters = {} /\ lk.lockholder = NoProc
      BY <3>1, WaitersFinite, FS_EmptySet DEF RInv, IInv, LockOK
    <3> QED BY <1>1, <3>2 DEF ReadersOf, WriterShown
  <2>7. PromisedTo = NoProc
    BY <1>4, PromiseIs DEF AtRest, HaveOrWant, RInv, PromiseOwned
  <2>8. WriterOf' = p /\ ReadersOf' = ReadersOf
    BY <1>1, <2>1, <2>5 DEF WriterShown, ReadersOf
  <2>9. Waiters' = Waiters
    BY <2>5, <2>6
  <2>10. Allowed
    BY <2>5, <2>6, <2>7, <2>8, <2>9, Closes
  <2> QED BY <2>5, <2>10 DEF Good
<1> QED BY <1>3, <1>4

\* LK_DRAIN
LEMMA DrainRefines ==
  ASSUME RInv, IInv', NEW p \in Proc, NEW o, Drain(p, o)
  PROVE  Good
<1>1. at[p] = "out" /\ InService /\ lk \in LockType /\ at[p] \notin LkpStages
  BY DEF Drain, MayCall, RInv, IInv, LockOK, LkpStages
<1>2. CASE AcquireDrain(p, o)
  BY <1>1, <1>2, DrainSeen
<1>3. CASE Return(p, lk, wchan) /\ UNCHANGED <<shares, excls>>
  BY <1>1, <1>3, RefusedSeen DEF RInv
<1> QED BY <1>2, <1>3 DEF Drain

\* LK_DOWNGRADE
LEMMA DowngradeRefines ==
  ASSUME RInv, IInv', NEW p \in Proc, Downgrade(p)
  PROVE  Good
<1>1. PICK more \in {0, 1} :
        /\ at[p] = "out" /\ InService /\ lk.lockholder = p
        /\ Return(p, Downgraded(more), WokenIf(Downgraded(more), wchan))
        /\ shares' = shares \cup excls \cup
                     {h \in {<<p, lk.exclusivecount>>} : more = 1}
        /\ excls' = {}
  BY DEF Downgrade, MayCall
<1> DEFINE l == Downgraded(more)
<1>2. /\ lk \in LockType /\ lk.exclusivecount \in Nat /\ lk.exclusivecount # 0
      /\ shares = {} /\ excls # {} /\ \A h \in excls : h[1] = p
  <2>1. /\ lk \in LockType /\ lk.exclusivecount \in Nat /\ lk.exclusivecount # 0
        /\ shares = {} /\ \A h \in excls : h[1] = p
    BY <1>1, ProcAssumption DEF RInv, IInv, LockOK, LockType
  <2> QED BY <2>1, FS_EmptySet DEF RInv, IInv, LockOK
<1>3. /\ l \in LockType /\ l.flags = lk.flags \ {"HAVE_EXCL"}
      /\ l.lockholder = NoProc
  <2>1. lk.sharecount + more + lk.exclusivecount \in Nat
    BY <1>2 DEF LockType
  <2> QED BY <1>2, <2>1 DEF LockType, Downgraded
<1> HIDE DEF l
<1>4. Bars(l.flags, p, "out") /\ Once(l) /\ OpenFor(l)
  BY <1>1, <1>3, BarsNow DEF RInv, Bars, Once, OpenFor, InService
<1>5. /\ BarsHaveOwner' /\ Once(lk') /\ Waiters' = Waiters \ {p}
      /\ PromisedTo' = PromisedTo /\ lk'.lockholder = NoProc /\ ~Closed'
  BY <1>1, <1>3, <1>4, ReturnSeen DEF l
<1>6. Waiters' = Waiters
  BY <1>1, <1>5 DEF Waiters, LkpStages
<1>7. WriterShown /\ WriterShown'
  BY WriterIs, PTL DEF RInv
<1>8. WriterOf = p /\ WriterOf' = NoProc
  BY <1>1, <1>5, <1>7 DEF WriterShown
<1>9. ReadersOf' = {p}
  <2>1. \A h \in shares' : h[1] = p
    BY <1>1, <1>2
  <2>2. \E h \in shares' : h[1] = p
    BY <1>1, <1>2
  <2> QED BY <2>1, <2>2 DEF ReadersOf
<1>10. ~Closed /\ Closed' = Closed
  BY <1>1, <1>5 DEF Closed
<1>11. Allowed
  BY <1>5, <1>6, <1>8, <1>9, <1>10, Downgrades
<1> QED BY <1>5, <1>11 DEF Good

\* LK_RELEASE of an exclusive hold: the last one opens the lock or leaves it closed, and
\* of those below it nothing is seen.
LEMMA ReleaseExclusiveRefines ==
  ASSUME RInv, IInv', NEW p \in Proc, NEW o, at[p] = "out", ReleaseExclusive(p, o)
  PROVE  Good
<1> DEFINE drained == IF "DRAINING" \notin lk.flags \/ "REENABLE" \in o THEN {}
                      ELSE {"DRAINED"}
           n == lk.exclusivecount - 1
           l == [lk EXCEPT !.flags = (@ \cup drained) \
                               (IF n = 0 THEN {"DRAINING", "HAVE_EXCL"}
                                         ELSE {"DRAINING"}),
                           !.exclusivecount = n,
                           !.lockholder = IF n = 0 THEN NoProc ELSE @]
<1>1. /\ lk.lockholder = p /\ Return(p, l, WokenIf(l, wchan))
      /\ shares' = shares
  BY DEF ReleaseExclusive
<1>2. lk \in LockType /\ n \in Nat /\ n + 1 = lk.exclusivecount
  <2>1. lk \in LockType /\ lk.exclusivecount \in Nat /\ lk.exclusivecount # 0
    BY <1>1, ProcAssumption DEF RInv, IInv, LockOK, LockType
  <2> QED BY <2>1
<1>3. /\ drained \in SUBSET {"DRAINED"}
      /\ "DRAINING" \notin lk.flags => drained = {}
  OBVIOUS
<1>4. /\ l.flags = (lk.flags \cup drained) \
                     (IF n = 0 THEN {"DRAINING", "HAVE_EXCL"} ELSE {"DRAINING"})
      /\ l.exclusivecount = n /\ l.lockholder = IF n = 0 THEN NoProc ELSE p
  BY <1>1, <1>2 DEF LockType
<1>5. l \in LockType
  <2>1. l.flags \in SUBSET Flags
    BY <1>2, <1>3, <1>4 DEF LockType, Flags
  <2> QED BY <1>1, <1>2, <2>1 DEF LockType
<1> HIDE DEF l
<1>6. Bars(l.flags, p, "out") /\ Once(l)
  <2>1. /\ "WANT_UPGRADE" \in l.flags <=> "WANT_UPGRADE" \in lk.flags
        /\ "WANT_EXCL" \in l.flags <=> "WANT_EXCL" \in lk.flags
        /\ "DRAINING" \notin l.flags
    BY <1>3, <1>4
  <2>2. Bars(lk.flags, p, "out")
    BY BarsNow DEF RInv
  <2> QED BY <2>1, <2>2 DEF Bars, Once
<1>7. n # 0 => "DRAINING" \notin lk.flags
  BY <1>2 DEF RInv, Once
<1> HIDE DEF drained, n
<1>8. /\ BarsHaveOwner' /\ Once(lk') /\ Waiters' = Waiters \ {p}
      /\ PromisedTo' = PromisedTo
      /\ lk'.lockholder = l.lockholder /\ (Closed' <=> ~OpenFor(l))
  BY <1>1, <1>5, <1>6, ReturnSeen
<1>9. Waiters' = Waiters /\ ReadersOf' = ReadersOf
  BY <1>1, <1>8 DEF Waiters, LkpStages, ReadersOf
<1>10. WriterShown /\ WriterShown'
  BY WriterIs, PTL DEF RInv
<1>11. WriterOf = p /\ WriterOf' = IF n = 0 THEN NoProc ELSE p
  BY <1>1, <1>4, <1>8, <1>10 DEF WriterShown
<1>12. Closed' \in {Closed, FALSE}
  <2>1. OpenFor(lk) => OpenFor(l)
    BY <1>3, <1>4 DEF OpenFor
  <2> QED BY <1>8, <2>1 DEF Closed, InService, OpenFor
<1>13. CASE n = 0
  BY <1>8, <1>9, <1>11, <1>12, <1>13, Leaves DEF Good
<1>14. CASE n # 0
  <2>1. l.flags = lk.flags
    BY <1>3, <1>4, <1>7, <1>14
  <2>2. Closed' = Closed
    BY <1>8, <2>1 DEF Closed, InService, OpenFor
  <2> QED BY <1>8, <1>9, <1>11, <1>14, <2>2 DEF Good, Allowed, seen
<1> QED BY <1>13, <1>14

\* LK_RELEASE of a shared hold: the process may have more of them.
LEMMA ReleaseSharedRefines ==
  ASSUME RInv, IInv', NEW p \in Proc, at[p] = "out", ReleaseShared(p)
  PROVE  Good
<1> DEFINE l == [lk EXCEPT !.sharecount = @ - 1]
<1>1. PICK h \in SharesOf(p) :
        /\ InService /\ Return(p, l, WokenIf(l, wchan))
        /\ shares' = shares \ {h} /\ excls' = excls
  BY DEF ReleaseShared
<1>2. h \in shares /\ h[1] = p /\ p \in ReadersOf
  BY DEF SharesOf, ReadersOf
<1>3. /\ l \in LockType /\ l.flags = lk.flags
      /\ l.exclusivecount = lk.exclusivecount /\ l.lockholder = lk.lockholder
  <2>1. IsFiniteSet(shares) /\ Cardinality(shares) = lk.sharecount
    BY DEF RInv, IInv, LockOK
  <2>2. /\ IsFiniteSet(shares \ {h})
        /\ Cardinality(shares \ {h}) = Cardinality(shares) - 1
    BY <1>2, <2>1, FS_RemoveElement
  <2>3. lk.sharecount - 1 \in Nat
    BY <2>1, <2>2, FS_CardinalityType
  <2> QED BY <2>3 DEF RInv, IInv, LockOK, LockType
<1> HIDE DEF l
<1>4. Bars(l.flags, p, "out") /\ Once(l) /\ OpenFor(l)
  BY <1>1, <1>3, BarsNow DEF RInv, Once, OpenFor, InService
<1>5. /\ BarsHaveOwner' /\ Once(lk') /\ Waiters' = Waiters \ {p}
      /\ PromisedTo' = PromisedTo
      /\ lk'.lockholder = l.lockholder /\ (Closed' <=> ~OpenFor(l))
  BY <1>1, <1>3, <1>4, ReturnSeen
<1>6. Waiters' = Waiters
  BY <1>5 DEF Waiters, LkpStages
<1>7. Closed' = Closed
  BY <1>1, <1>4, <1>5 DEF Closed
<1>8. WriterShown /\ WriterShown'
  BY WriterIs, PTL DEF RInv
<1>9. WriterOf' = WriterOf
  BY <1>3, <1>5, <1>8 DEF WriterShown
<1>10. CASE \E g \in shares \ {h} : g[1] = p
  <2>1. ReadersOf' = ReadersOf
    BY <1>1, <1>2, <1>10 DEF ReadersOf
  <2> QED BY <1>5, <1>6, <1>7, <1>9, <2>1 DEF Good, Allowed, seen
<1>11. CASE ~\E g \in shares \ {h} : g[1] = p
  <2>1. ReadersOf' = ReadersOf \ {p}
    BY <1>1, <1>2, <1>11 DEF ReadersOf
  <2> QED BY <1>2, <1>5, <1>6, <1>7, <1>9, <2>1, Leaves DEF Good
<1> QED BY <1>10, <1>11

--------------------------------------------------------------------------------
\* The sleeps

\* A request that goes on after its sleep, or fails there and takes its flag back
LEMMA ResumeRefines ==
  ASSUME RInv, IInv', NEW p \in Proc, Resume(p)
  PROVE  Good
<1> DEFINE l == [lk EXCEPT !.waitcount = @ - 1]
           w == [wchan EXCEPT ![p] = "none"]
           m == [l EXCEPT !.flags = @ \ Taken(at[p])]
<1>1. /\ at[p] \in LkpStages
      /\ \/ Return(p, m, w) /\ shares' = shares /\ excls' = excls
         \/ at[p] = "SHARED" /\ AcquireShared(p, opts[p], l, w)
         \/ at[p] = "UPGRADE" /\ AcquireUpgrade(p, opts[p], l, w, shares)
         \/ at[p] = "EXCL1" /\ AcquireExcl1(p, opts[p], l, w, shares)
         \/ at[p] = "EXCL2" /\ AcquireExcl2(p, opts[p], l, w, shares)
  BY DEF Resume
<1>2. Ready(p, l, w, shares) /\ OpenFor(lk) /\ l.flags = lk.flags
      /\ l.lockholder = lk.lockholder
  BY <1>1, ResumeReady DEF RInv
<1> HIDE DEF l, w
<1>3. Within(p, l, w, shares) /\ Bars(l.flags, p, at[p])
  BY <1>2, BarsNow DEF Within, RInv
<1>4. CASE Return(p, m, w) /\ shares' = shares /\ excls' = excls
  <2>1. /\ l \in LockType /\ Once(l) /\ ~Closed /\ WriterOf # p
        /\ WriterOf = l.lockholder /\ WriterOf' = lk'.lockholder
        /\ ReadersOf' = ReadersOf \ {p}
    BY <1>3, <1>4, WithinSeen
  <2>2. /\ m \in LockType /\ m.flags = l.flags \ Taken(at[p])
        /\ m.exclusivecount = l.exclusivecount /\ m.lockholder = l.lockholder
    BY <2>1 DEF LockType
  <2> HIDE DEF m
  <2>3. Bars(m.flags, p, "out")
    BY <1>1, <1>3, <2>2 DEF Bars, Owned, Taken, LkpStages
  <2>4. Once(m) /\ OpenFor(m)
    BY <1>2, <2>1, <2>2 DEF Once, OpenFor
  <2>5. /\ BarsHaveOwner' /\ Once(lk') /\ Waiters' = Waiters \ {p}
        /\ PromisedTo' = IF at[p] = "UPGRADE" THEN NoProc ELSE PromisedTo
        /\ lk'.lockholder = m.lockholder /\ ~Closed'
    BY <1>4, <2>2, <2>3, <2>4, ReturnSeen
  <2>6. at[p] = "UPGRADE" <=> PromisedTo = p
    <3>1. PromisedTo \in UpgraderOf \/ PromisedTo = NoProc
      BY DEF PromisedTo
    <3> QED BY <3>1, PromiseIs, ProcAssumption DEF UpgraderOf, RInv, PromiseOwned
  <2>7. PromisedTo' = IF PromisedTo = p THEN NoProc ELSE PromisedTo
    BY <2>5, <2>6
  <2>8. WriterOf' = WriterOf /\ Closed' = Closed
    BY <2>1, <2>2, <2>5 DEF Closed
  <2> QED BY <2>1, <2>5, <2>7, <2>8, Refuses DEF Good
<1>5. CASE at[p] = "SHARED" /\ AcquireShared(p, opts[p], l, w)
  <2>1. Bars(l.flags, p, "out")
    BY <1>3, <1>5 DEF Bars, Owned
  <2> QED BY <1>3, <1>5, <2>1, SharedSeen
<1>6. CASE at[p] = "UPGRADE" /\ AcquireUpgrade(p, opts[p], l, w, shares)
  BY <1>3, <1>6, UpgradeSeen
<1>7. CASE at[p] = "EXCL1" /\ AcquireExcl1(p, opts[p], l, w, shares)
  <2>1. Bars(l.flags, p, "out")
    BY <1>3, <1>7 DEF Bars, Owned
  <2> QED BY <1>3, <1>7, <2>1, Excl1Seen
<1>8. CASE at[p] = "EXCL2" /\ AcquireExcl2(p, opts[p], l, w, shares)
  BY <1>3, <1>8, Excl2Seen
<1> QED BY <1>1, <1>4, <1>5, <1>6, <1>7, <1>8

\* A drain that goes on waiting, comes to its end or is given up
LEMMA ResumeDrainRefines ==
  ASSUME RInv, IInv', NEW p \in Proc, ResumeDrain(p)
  PROVE  Good
<1>1. at[p] = "DRAIN" /\ at[p] \notin LkpStages
  BY DEF ResumeDrain, LkpStages
<1>2. CASE AcquireDrain(p, opts[p])
  BY <1>1, <1>2, DrainSeen
<1>3. CASE at' = [at EXCEPT ![p] = "out"] /\ UNCHANGED <<lk, panicked, shares, excls>>
  <2>1. Bars(lk.flags, p, "out")
    BY <1>1, BarsNow DEF RInv, Bars, Owned
  <2>2. BarsHaveOwner' /\ PromisedTo' = PromisedTo
    <3>1. at' = [at EXCEPT ![p] = "out"] /\ "out" \in Stages \cup {"out"}
      BY <1>3
    <3>2. /\ "WANT_UPGRADE" \in lk'.flags <=> "WANT_UPGRADE" \in lk.flags
          /\ "WANT_EXCL" \in lk'.flags <=> "WANT_EXCL" \in lk.flags
      BY <1>3
    <3> QED BY <1>1, <2>1, <3>1, <3>2, BarsThen
  <2>3. Waiters' = Waiters
    BY <1>1, <1>3 DEF Waiters, LkpStages, RInv, IInv, TypeOK
  <2>4. UNCHANGED <<ReadersOf, WriterOf, Closed>> /\ Once(lk')
    BY <1>3 DEF ReadersOf, WriterOf, Closed, InService, RInv
  <2> QED BY <2>2, <2>3, <2>4 DEF Good, Allowed, seen
<1> QED BY <1>2, <1>3 DEF ResumeDrain

--------------------------------------------------------------------------------

\* Every step is one of the abstract lock, or is not seen.
LEMMA NextSeen == RInv /\ [Next]_vars => RInv' /\ Allowed
<1> SUFFICES ASSUME RInv, [Next]_vars PROVE RInv' /\ Allowed
  OBVIOUS
<1>1. IInv'
  BY NextIInv DEF RInv
<1>2. Good
  <2>1. CASE UNCHANGED vars
    BY <2>1, NothingSeen DEF vars
  <2>2. ASSUME NEW p \in Proc, NEW o, Request(p, o) PROVE Good
    BY <1>1, <2>2, SharedRefines, UpgradeRefines, ExclusiveRefines, DrainRefines
    DEF Request
  <2>3. ASSUME NEW p \in Proc, NEW o, Release(p, o) PROVE Good
    BY <1>1, <2>3, ReleaseExclusiveRefines, ReleaseSharedRefines DEF Release, MayCall
  <2>4. ASSUME NEW p \in Proc, Downgrade(p) PROVE Good
    BY <1>1, <2>4, DowngradeRefines
  <2>5. ASSUME NEW p \in Proc, UseAfterDrain(p) PROVE Good
    BY <2>5, NothingSeen DEF UseAfterDrain, Panic
  <2>6. ASSUME NEW p \in Proc, Resume(p) \/ ResumeDrain(p) PROVE Good
    BY <1>1, <2>6, ResumeRefines, ResumeDrainRefines
  <2>7. ASSUME NEW p \in Proc, EndTsleep(p) \/ Signal(p) PROVE Good
    BY <2>7, NothingSeen DEF EndTsleep, Signal
  <2> QED BY <2>1, <2>2, <2>3, <2>4, <2>5, <2>6, <2>7 DEF Next
<1> QED BY <1>1, <1>2 DEF Good, RInv

\* lockinit leaves a lock nobody holds, waits for or has closed.
LEMMA InitSeen == Init => RInv /\ Abstract!Init
<1> SUFFICES ASSUME Init PROVE RInv /\ Abstract!Init
  OBVIOUS
<1>1. RInv
  BY InitIInv DEF Init, RInv, BarsHaveOwner, Once
<1>2. ReadersOf = {} /\ WriterOf = NoProc /\ PromisedTo = NoProc /\ Waiters = {} /\ ~Closed
  BY DEF Init, ReadersOf, WriterOf, PromisedTo, UpgraderOf, Waiters, LkpStages, Closed,
         InService
<1>3. Abstract!Init
  BY <1>2 DEF Abstract!Init, ReadersOf, WriterOf, PromisedTo, Waiters, Closed
<1> QED BY <1>1, <1>3

\* LK_WANT_UPGRADE and LK_WANT_EXCL are set just while a process sleeps that will clear
\* them, and each has one such process (kern_lock.c:285-298, 335-350).
THEOREM BarsOwned == Spec => []BarsHaveOwner
<1>1. Spec => []RInv
  BY InitSeen, NextSeen, PTL DEF Spec
<1>2. RInv => BarsHaveOwner
  BY DEF RInv
<1> QED BY <1>1, <1>2, PTL

\* The lock manager implements the lock of SharedExclusiveLock: nobody comes between an
\* upgrade that was accepted and its exclusive hold, and a drain ends with nobody else
\* inside or waiting.
THEOREM LockImplements == Spec => AbstractSpec
<1>1. Init => RInv /\ Abstract!Init
  BY InitSeen
<1>2. RInv /\ [Next]_vars => RInv' /\
        [Abstract!Next]_<<{h[1] : h \in shares},
                          IF excls = {} THEN NoProc ELSE lk.lockholder,
                          IF UpgraderOf = {} THEN NoProc
                          ELSE CHOOSE p \in UpgraderOf : TRUE,
                          {p \in Proc : at[p] \in LkpStages},
                          ~InService>>
  BY NextSeen DEF Allowed, seen, ReadersOf, WriterOf, PromisedTo, Waiters, Closed
<1> QED BY <1>1, <1>2, PTL DEF Spec, AbstractSpec, Abstract!Spec, Abstract!absVars

--------------------------------------------------------------------------------
\* The wake-ups: each of the sleeps of lockmgr has a reason in the lock, and whatever takes
\* the reason away wakes the sleepers or leaves another one.

\* No request fails after a sleep, and none gives a hold up and is refused.
NoFailures ==
    /\ ~Pcatch /\ ~Timo
    /\ Opts \cap {"NOWAIT", "SLEEPFAIL"} = {}
    /\ "EXCLUPGRADE" \notin Types

\* What keeps a process asleep in the wait s
Reason(s, l) ==
    \/ s \in {"UPGRADE", "EXCL2"} /\ l.sharecount # 0
    \/ s = "EXCL2" /\ l.flags \cap {"WANT_UPGRADE", "HAVE_EXCL"} # {}
    \/ s \in {"SHARED", "EXCL1"} /\ l.flags \cap HaveOrWant # {}

\* q sleeps, if it does, for a reason, and no failure is on its way.
Justified(q) ==
    /\ wchan[q] # "intr" /\ "SLEEPFAIL" \notin opts[q]
    /\ wchan[q] = "lkp" => at[q] \in LkpStages /\ Reason(at[q], lk)
    /\ wchan[q] = "flags" => at[q] = "DRAIN"

AllJustified == \A q \in Proc : Justified(q)

WInv == RInv /\ AllJustified

\* Within a step of p, with the lock at l and the wait channels at w: the others sleep
\* on what they slept, and for a reason, or have been woken.
Still(p, l, w) ==
    /\ l \in LockType /\ w \in WchanType
    /\ \A q \in Proc \ {p} : /\ w[q] \in {"none", wchan[q]}
                             /\ w[q] = "lkp" => Reason(at[q], l)

--------------------------------------------------------------------------------
\* The ends of a step

\* The others after a step of p
LEMMA OthersJustified ==
  ASSUME WInv, NEW p \in Proc, NEW s, at' = [at EXCEPT ![p] = s], NEW o,
         opts' = [opts EXCEPT ![p] = o],
         \A q \in Proc \ {p} : /\ wchan'[q] \in {"none", wchan[q]}
                               /\ wchan'[q] = "lkp" => Reason(at[q], lk')
  PROVE  \A q \in Proc \ {p} : Justified(q)'
<1>1. \A q \in Proc \ {p} : at'[q] = at[q] /\ opts'[q] = opts[q]
  BY DEF WInv, RInv, IInv, TypeOK
<1> QED BY <1>1 DEF WInv, AllJustified, Justified

\* p returns.
LEMMA ReturnJustified ==
  ASSUME WInv, NEW p \in Proc, NEW l, NEW w, Still(p, l, w), w[p] = "none",
         Return(p, l, w)
  PROVE  AllJustified'
<1>1. at' = [at EXCEPT ![p] = "out"] /\ opts' = [opts EXCEPT ![p] = {}]
  BY DEF Return
<1>2. /\ lk'.flags \in {l.flags, l.flags \ {"WAITDRAIN"}}
      /\ lk'.sharecount = l.sharecount
  BY DEF Return, Still, LockType
<1>3. \A q \in Proc : wchan'[q] \in {"none", w[q]}
  BY DEF Return, Woken
<1>4. \A s : Reason(s, l) => Reason(s, lk')
  BY <1>2 DEF Reason, HaveOrWant
<1>5. \A q \in Proc \ {p} : Justified(q)'
  BY <1>1, <1>3, <1>4, OthersJustified DEF Still
<1>6. Justified(p)'
  BY <1>1, <1>3 DEF Justified, WInv, RInv, IInv, TypeOK
<1> QED BY <1>5, <1>6 DEF AllJustified

\* p sleeps, for the reason its loop has found.
LEMMA SleepJustified ==
  ASSUME WInv, NEW p \in Proc, NEW s \in LkpStages, NEW o, "SLEEPFAIL" \notin o,
         NEW l, NEW w, Still(p, l, w), Wanted(s, l), Sleep(p, s, o, l, w)
  PROVE  AllJustified'
<1>1. /\ at' = [at EXCEPT ![p] = s]
      /\ opts' = [opts EXCEPT ![p] = o \cap {"NOWAIT", "SLEEPFAIL"}]
      /\ wchan' = [w EXCEPT ![p] = "lkp"]
  BY DEF Sleep
<1>2. lk'.flags = l.flags /\ lk'.sharecount = l.sharecount
  BY DEF Sleep, Still, LockType
<1>3. \A q \in Proc \ {p} : wchan'[q] = w[q]
  BY <1>1 DEF Still, WchanType
<1>4. \A t : Reason(t, l) => Reason(t, lk')
  BY <1>2 DEF Reason
<1>5. \A q \in Proc \ {p} : Justified(q)'
  BY <1>1, <1>3, <1>4, OthersJustified DEF Still
<1>6. Reason(s, l)
  BY DEF Wanted, Reason, ReadersRemain, HaveOrWant, LkpStages
<1>7. /\ wchan'[p] = "lkp" /\ at'[p] = s
      /\ opts'[p] = o \cap {"NOWAIT", "SLEEPFAIL"}
  BY <1>1 DEF WInv, RInv, IInv, TypeOK, Still, WchanType
<1>8. Justified(p)'
  BY <1>4, <1>6, <1>7 DEF Justified
<1> QED BY <1>5, <1>8 DEF AllJustified

\* The lock does not change, nor who sleeps.
LEMMA SameJustified ==
  ASSUME WInv, UNCHANGED <<lk, at, wchan, opts>>
  PROVE  AllJustified'
BY DEF WInv, AllJustified, Justified

\* p gets the exclusive hold when nobody sleeps in an upgrade: that is a reason for all
\* others to sleep.
LEMMA GrantJustified ==
  ASSUME WInv, NEW p \in Proc, NEW l \in LockType, NEW w \in WchanType, NEW left,
         w[p] = "none",
         \A q \in Proc \ {p} : /\ w[q] \in {"none", wchan[q]}
                               /\ w[q] = "lkp" => at[q] # "UPGRADE",
         Grant(p, l, w, left)
  PROVE  AllJustified'
<1>1. CASE l.exclusivecount # 0
  BY <1>1, SameJustified DEF Grant, Panic
<1>2. CASE l.exclusivecount = 0
  <2> DEFINE m == [l EXCEPT !.flags = @ \cup {"HAVE_EXCL"},
                            !.lockholder = p, !.exclusivecount = 1]
  <2>1. Return(p, m, w)
    BY <1>2 DEF Grant
  <2>2. m \in LockType /\ m.flags = l.flags \cup {"HAVE_EXCL"}
    BY DEF LockType, Flags
  <2> HIDE DEF m
  <2>3. ASSUME NEW q \in Proc \ {p}, w[q] = "lkp" PROVE Reason(at[q], m)
    <3>1. at[q] \in LkpStages \ {"UPGRADE"}
      BY <2>3 DEF WInv, AllJustified, Justified
    <3> QED BY <2>2, <3>1 DEF Reason, HaveOrWant, LkpStages
  <2>4. Still(p, m, w)
    BY <2>2, <2>3 DEF Still
  <2> QED BY <2>1, <2>4, ReturnJustified
<1> QED BY <1>1, <1>2

--------------------------------------------------------------------------------
\* The parts of a request

\* The second wait of an exclusive request
LEMMA Excl2Justified ==
  ASSUME WInv, NEW p \in Proc, NEW o, "SLEEPFAIL" \notin o, NEW l, NEW w, NEW left,
         Still(p, l, w), w[p] = "none", AcquireExcl2(p, o, l, w, left)
  PROVE  AllJustified'
<1>1. CASE Wanted("EXCL2", l)
  BY <1>1, SleepJustified DEF AcquireExcl2, LkpStages
<1>2. CASE ~Wanted("EXCL2", l)
  <2> DEFINE m == [l EXCEPT !.flags = @ \ {"WANT_EXCL"}]
  <2>1. Grant(p, m, w, left)
    BY <1>2 DEF AcquireExcl2
  <2>2. m \in LockType /\ m.flags = l.flags \ {"WANT_EXCL"}
    BY DEF Still, LockType
  <2> HIDE DEF m
  <2>3. \A q \in Proc \ {p} : w[q] = "lkp" => at[q] # "UPGRADE"
    BY <1>2 DEF Still, Reason, Wanted, ReadersRemain
  <2> QED BY <2>1, <2>2, <2>3, GrantJustified DEF Still
<1> QED BY <1>1, <1>2

\* The first wait of an exclusive request
LEMMA Excl1Justified ==
  ASSUME WInv, NEW p \in Proc, NEW o, "SLEEPFAIL" \notin o, NEW l, NEW w, NEW left,
         Still(p, l, w), w[p] = "none", AcquireExcl1(p, o, l, w, left)
  PROVE  AllJustified'
<1>1. CASE Wanted("EXCL1", l)
  BY <1>1, SleepJustified DEF AcquireExcl1, LkpStages
<1>2. CASE ~Wanted("EXCL1", l)
  <2> DEFINE m == [l EXCEPT !.flags = @ \cup {"WANT_EXCL"}]
  <2>1. AcquireExcl2(p, o, m, w, left)
    BY <1>2 DEF AcquireExcl1
  <2>2. /\ m \in LockType /\ m.flags = l.flags \cup {"WANT_EXCL"}
        /\ m.sharecount = l.sharecount
    BY DEF Still, LockType, Flags
  <2> HIDE DEF m
  <2>3. \A s : Reason(s, l) => Reason(s, m)
    BY <2>2 DEF Reason
  <2>4. Still(p, m, w)
    BY <2>2, <2>3 DEF Still
  <2> QED BY <2>1, <2>4, Excl2Justified
<1> QED BY <1>1, <1>2

\* The wait of an upgrade
LEMMA UpgradeJustified ==
  ASSUME WInv, NEW p \in Proc, NEW o, "SLEEPFAIL" \notin o, NEW l, NEW w, NEW left,
         Still(p, l, w), w[p] = "none", AcquireUpgrade(p, o, l, w, left)
  PROVE  AllJustified'
<1>1. CASE Wanted("UPGRADE", l)
  BY <1>1, SleepJustified DEF AcquireUpgrade, LkpStages
<1>2. CASE ~Wanted("UPGRADE", l)
  <2> DEFINE m == [l EXCEPT !.flags = @ \ {"WANT_UPGRADE"}]
  <2>1. Grant(p, m, w, left)
    BY <1>2 DEF AcquireUpgrade
  <2>2. m \in LockType /\ m.flags = l.flags \ {"WANT_UPGRADE"}
    BY DEF Still, LockType
  <2> HIDE DEF m
  <2>3. \A q \in Proc \ {p} : w[q] = "lkp" => at[q] # "UPGRADE"
    BY <1>2 DEF Still, Reason, Wanted
  <2> QED BY <2>1, <2>2, <2>3, GrantJustified DEF Still
<1> QED BY <1>1, <1>2

\* The wait of a shared request
LEMMA SharedJustified ==
  ASSUME WInv, NEW p \in Proc, NEW o, "SLEEPFAIL" \notin o, NEW l, NEW w,
         Still(p, l, w), w[p] = "none", AcquireShared(p, o, l, w)
  PROVE  AllJustified'
<1>1. CASE Wanted("SHARED", l)
  BY <1>1, SleepJustified DEF AcquireShared, LkpStages
<1>2. CASE ~Wanted("SHARED", l)
  <2> DEFINE m == [l EXCEPT !.sharecount = @ + 1]
  <2>1. Return(p, m, w)
    BY <1>2 DEF AcquireShared
  <2>2. /\ m \in LockType /\ m.flags = l.flags /\ l.sharecount \in Nat
        /\ m.sharecount = l.sharecount + 1
    BY DEF Still, LockType
  <2> HIDE DEF m
  <2>3. \A s : Reason(s, l) => Reason(s, m)
    BY <2>2 DEF Reason
  <2>4. Still(p, m, w)
    BY <2>2, <2>3 DEF Still
  <2> QED BY <2>1, <2>4, ReturnJustified
<1> QED BY <1>1, <1>2

\* The wait for the lock to come to rest: nobody sleeps on it then.
LEMMA DrainJustified ==
  ASSUME WInv, NEW p \in Proc, NEW o, "SLEEPFAIL" \notin o, AcquireDrain(p, o)
  PROVE  AllJustified'
<1>1. lk \in LockType /\ wchan \in WchanType
  BY DEF WInv, RInv, IInv, TypeOK, LockOK, WchanType
<1>2. CASE ~AtRest(lk)
  <2>1. /\ lk' = [lk EXCEPT !.flags = @ \cup {"WAITDRAIN"}]
        /\ wchan' = [wchan EXCEPT ![p] = "flags"]
        /\ at' = [at EXCEPT ![p] = "DRAIN"]
        /\ opts' = [opts EXCEPT ![p] = o \cap {"NOWAIT", "SLEEPFAIL"}]
    BY <1>2 DEF AcquireDrain
  <2>2. /\ lk'.flags = lk.flags \cup {"WAITDRAIN"}
        /\ lk'.sharecount = lk.sharecount /\ lk'.waitcount = lk.waitcount
    BY <1>1, <2>1 DEF LockType
  <2>3. \A s : Reason(s, lk) => Reason(s, lk')
    BY <2>2 DEF Reason, HaveOrWant
  <2>4. \A q \in Proc \ {p} : wchan'[q] = wchan[q]
    BY <1>1, <2>1 DEF WchanType
  <2>5. \A q \in Proc \ {p} : wchan[q] = "lkp" => Reason(at[q], lk')
    BY <2>3 DEF WInv, AllJustified, Justified
  <2>6. \A q \in Proc \ {p} : Justified(q)'
    BY <2>1, <2>2, <2>3, <2>4, <2>5, OthersJustified
  <2>7. Justified(p)'
    BY <2>1, <2>2, <2>3 DEF Justified, WInv, RInv, IInv, TypeOK
  <2> QED BY <2>6, <2>7 DEF AllJustified
<1>3. CASE AtRest(lk)
  <2> DEFINE m == [lk EXCEPT !.flags = @ \cup {"DRAINING", "HAVE_EXCL"},
                             !.lockholder = p, !.exclusivecount = 1]
             w == [wchan EXCEPT ![p] = "none"]
  <2>1. Return(p, m, w)
    BY <1>3 DEF AcquireDrain
  <2>2. m \in LockType /\ m.flags = lk.flags \cup {"DRAINING", "HAVE_EXCL"}
    BY <1>1 DEF LockType, Flags
  <2>3. Waiters = {}
    BY <1>3, WaitersFinite, FS_EmptySet DEF WInv, RInv, IInv, AtRest
  <2>4. \A q \in Proc : wchan[q] # "lkp"
    BY <2>3 DEF WInv, AllJustified, Justified, Waiters
  <2>5. w \in WchanType /\ w[p] = "none" /\ \A q \in Proc \ {p} : w[q] = wchan[q]
    BY <1>1 DEF WchanType
  <2> HIDE DEF m, w
  <2>6. Still(p, m, w)
    BY <2>2, <2>4, <2>5 DEF Still
  <2> QED BY <2>1, <2>5, <2>6, ReturnJustified
<1> QED BY <1>2, <1>3

--------------------------------------------------------------------------------
\* The requests

\* A caller sleeps on nothing, and the others as they do.
LEMMA CallerStill ==
  ASSUME WInv, NEW p \in Proc, at[p] = "out"
  PROVE  Still(p, lk, wchan) /\ wchan[p] = "none"
<1>1. lk \in LockType /\ wchan \in WchanType
  BY DEF WInv, RInv, IInv, TypeOK, LockOK, WchanType
<1>2. wchan[p] = "none"
  BY <1>1 DEF WInv, AllJustified, Justified, LkpStages, WchanType
<1> QED BY <1>1, <1>2 DEF Still, WInv, AllJustified, Justified

\* After the conditional wake-up nobody is asleep on the lock.
LEMMA AllWoken ==
  ASSUME WInv, NEW l, l.waitcount = lk.waitcount
  PROVE  \A q \in Proc : /\ WokenIf(l, wchan)[q] \in {"none", wchan[q]}
                         /\ WokenIf(l, wchan)[q] # "lkp"
<1>1. CASE l.waitcount # 0
  BY <1>1 DEF WokenIf, Woken
<1>2. CASE l.waitcount = 0
  <2>1. Waiters = {}
    BY <1>2, WaitersFinite, FS_EmptySet DEF WInv, RInv, IInv
  <2>2. WokenIf(l, wchan) = wchan
    BY <1>2 DEF WokenIf
  <2> QED BY <2>1, <2>2 DEF WInv, AllJustified, Justified, Waiters
<1> QED BY <1>1, <1>2

\* So that a hold may be given up.
LEMMA WokenReturn ==
  ASSUME WInv, NEW p \in Proc, at[p] = "out", NEW l \in LockType,
         l.waitcount = lk.waitcount,
         Return(p, l, WokenIf(l, wchan))
  PROVE  AllJustified'
<1>1. wchan[p] = "none" /\ wchan \in WchanType
  BY CallerStill DEF Still
<1>2. \A q \in Proc : /\ WokenIf(l, wchan)[q] \in {"none", wchan[q]}
                      /\ WokenIf(l, wchan)[q] # "lkp"
  BY AllWoken
<1>3. WokenIf(l, wchan) \in WchanType
  BY <1>1, WokenIfType
<1>4. Still(p, l, WokenIf(l, wchan)) /\ WokenIf(l, wchan)[p] = "none"
  BY <1>1, <1>2, <1>3 DEF Still
<1> QED BY <1>4, ReturnJustified

\* LK_SHARED, LK_EXCLUSIVE and LK_DRAIN
LEMMA RequestJustified ==
  ASSUME WInv, NEW p \in Proc, NEW o, "SLEEPFAIL" \notin o,
         Shared(p, o) \/ Exclusive(p, o) \/ Drain(p, o)
  PROVE  AllJustified'
<1>1. at[p] = "out"
  BY DEF Shared, Exclusive, Drain, MayCall
<1>2. Still(p, lk, wchan) /\ wchan[p] = "none"
  BY <1>1, CallerStill
<1>3. CASE Shared(p, o)
  BY <1>2, <1>3, SharedJustified, ReturnJustified DEF Shared
<1>4. CASE Exclusive(p, o) /\ lk.lockholder # p
  BY <1>2, <1>4, Excl1Justified, ReturnJustified DEF Exclusive
<1>5. CASE Exclusive(p, o) /\ lk.lockholder = p
  <2> DEFINE m == [lk EXCEPT !.exclusivecount = @ + 1]
  <2>1. Return(p, m, wchan)
    BY <1>5 DEF Exclusive
  <2>2. m \in LockType /\ m.flags = lk.flags /\ m.sharecount = lk.sharecount
    BY <1>2 DEF Still, LockType
  <2> HIDE DEF m
  <2>3. \A s : Reason(s, lk) => Reason(s, m)
    BY <2>2 DEF Reason
  <2>4. Still(p, m, wchan)
    BY <1>2, <2>2, <2>3 DEF Still
  <2> QED BY <1>2, <2>1, <2>4, ReturnJustified
<1>6. CASE Drain(p, o)
  BY <1>2, <1>6, DrainJustified, ReturnJustified DEF Drain
<1> QED BY <1>3, <1>4, <1>5, <1>6

\* LK_UPGRADE: the hold that goes is a reason to sleep for an upgrade before it, and for
\* a writer, which WANT_UPGRADE or the wake-up of the yield makes good.
LEMMA UpgradesJustified ==
  ASSUME WInv, NoFailures, NEW p \in Proc, NEW o, o \cap {"NOWAIT", "SLEEPFAIL"} = {},
         Upgrade(p, o)
  PROVE  AllJustified'
<1> DEFINE l == [lk EXCEPT !.sharecount = @ - 1]
           m == [l EXCEPT !.flags = @ \cup {"WANT_UPGRADE"}]
<1>1. PICK h \in SharesOf(p) :
        /\ at[p] = "out" /\ InService /\ SharesOf(p) = {h}
        /\ \/ /\ "WANT_UPGRADE" \notin lk.flags
              /\ AcquireUpgrade(p, o, m, wchan, shares \ {h})
           \/ AcquireExcl1(p, o, l, YieldWake(l, wchan), shares \ {h})
  BY DEF Upgrade, MayCall, NoFailures
<1>2. Still(p, lk, wchan) /\ wchan[p] = "none"
  BY <1>1, CallerStill
<1>3. /\ Ready(p, l, wchan, shares \ {h}) /\ Ready(p, m, wchan, shares \ {h})
      /\ l.flags = lk.flags
  BY <1>1, UpgraderReady DEF WInv, RInv
<1>4. l \in LockType /\ m \in LockType
  BY <1>3 DEF Ready, LockOK
<1>5. /\ m.flags = lk.flags \cup {"WANT_UPGRADE"} /\ l.waitcount = lk.waitcount
  BY <1>3, <1>4 DEF LockType, WInv, RInv, IInv, LockOK
<1> HIDE DEF l, m
<1>6. CASE /\ "WANT_UPGRADE" \notin lk.flags
           /\ AcquireUpgrade(p, o, m, wchan, shares \ {h})
  <2>1. \A q \in Proc : at[q] # "UPGRADE"
    BY <1>6 DEF WInv, RInv, BarsHaveOwner
  <2>2. \A s : s # "UPGRADE" /\ Reason(s, lk) => Reason(s, m)
    BY <1>5 DEF Reason
  <2>3. Still(p, m, wchan)
    BY <1>2, <1>4, <1>5, <2>1, <2>2 DEF Still
  <2> QED BY <1>2, <1>6, <2>3, UpgradeJustified
<1>7. CASE AcquireExcl1(p, o, l, YieldWake(l, wchan), shares \ {h})
  <2>1. CASE l.sharecount = 0
    <3>1. YieldWake(l, wchan) = WokenIf(l, wchan)
      BY <2>1 DEF YieldWake
    <3>2. \A q \in Proc : /\ WokenIf(l, wchan)[q] \in {"none", wchan[q]}
                          /\ WokenIf(l, wchan)[q] # "lkp"
      BY <1>5, AllWoken
    <3>3. WokenIf(l, wchan) \in WchanType
      BY <1>2, WokenIfType DEF Still
    <3>4. Still(p, l, WokenIf(l, wchan)) /\ WokenIf(l, wchan)[p] = "none"
      BY <1>2, <1>3, <1>4, <3>2, <3>3 DEF Still
    <3> QED BY <1>7, <3>1, <3>4, Excl1Justified
  <2>2. CASE l.sharecount # 0
    <3>1. YieldWake(l, wchan) = wchan
      BY <2>2 DEF YieldWake
    <3>2. \A s : Reason(s, lk) => Reason(s, l)
      BY <1>3, <2>2 DEF Reason
    <3>3. Still(p, l, wchan)
      BY <1>2, <1>3, <1>4, <3>2 DEF Still
    <3> QED BY <1>2, <1>7, <3>1, <3>3, Excl1Justified
  <2> QED BY <2>1, <2>2
<1> QED BY <1>1, <1>6, <1>7

\* LK_DOWNGRADE and LK_RELEASE wake whoever waits.
LEMMA LetGoJustified ==
  ASSUME WInv, NEW p \in Proc, NEW o, Downgrade(p) \/ Release(p, o)
  PROVE  AllJustified'
<1>1. at[p] = "out" /\ lk \in LockType
  BY DEF Downgrade, Release, MayCall, WInv, RInv, IInv, LockOK
<1>2. CASE Downgrade(p)
  <2>1. PICK more \in {0, 1} :
          Return(p, Downgraded(more), WokenIf(Downgraded(more), wchan))
    BY <1>2 DEF Downgrade
  <2> DEFINE l == Downgraded(more)
  <2>2. l \in LockType /\ l.flags = lk.flags \ {"HAVE_EXCL"} /\ l.waitcount = lk.waitcount
    <3>1. lk.sharecount + more + lk.exclusivecount \in Nat
      BY <1>1 DEF LockType
    <3> QED BY <1>1, <3>1 DEF LockType, Downgraded
  <2> HIDE DEF l
  <2>3. Return(p, l, WokenIf(l, wchan))
    BY <2>1 DEF l
  <2> QED BY <1>1, <2>2, <2>3, WokenReturn
<1>3. CASE ReleaseExclusive(p, o)
  <2> DEFINE drained == IF "DRAINING" \notin lk.flags \/ "REENABLE" \in o THEN {}
                        ELSE {"DRAINED"}
             n == lk.exclusivecount - 1
             l == [lk EXCEPT !.flags = (@ \cup drained) \
                                 (IF n = 0 THEN {"DRAINING", "HAVE_EXCL"}
                                           ELSE {"DRAINING"}),
                             !.exclusivecount = n,
                             !.lockholder = IF n = 0 THEN NoProc ELSE @]
  <2>1. lk.lockholder = p /\ Return(p, l, WokenIf(l, wchan))
    BY <1>3 DEF ReleaseExclusive
  <2>2. n \in Nat
    <3>1. lk.exclusivecount \in Nat /\ lk.exclusivecount # 0
      BY <1>1, <2>1, ProcAssumption DEF WInv, RInv, IInv, LockOK, LockType
    <3> QED BY <3>1
  <2>3. drained \in SUBSET {"DRAINED"}
    OBVIOUS
  <2>4. /\ l.flags = (lk.flags \cup drained) \
                       (IF n = 0 THEN {"DRAINING", "HAVE_EXCL"} ELSE {"DRAINING"})
        /\ l.waitcount = lk.waitcount
    BY <1>1 DEF LockType
  <2>5. l \in LockType
    <3>1. l.flags \in SUBSET Flags
      BY <1>1, <2>3, <2>4 DEF LockType, Flags
    <3> QED BY <1>1, <2>2, <3>1 DEF LockType
  <2> HIDE DEF l
  <2> QED BY <1>1, <2>1, <2>4, <2>5, WokenReturn
<1>4. CASE ReleaseShared(p)
  <2> DEFINE l == [lk EXCEPT !.sharecount = @ - 1]
  <2>1. PICK h \in SharesOf(p) : Return(p, l, WokenIf(l, wchan))
    BY <1>4 DEF ReleaseShared
  <2>2. lk.sharecount - 1 \in Nat
    <3>1. h \in shares
      BY DEF SharesOf
    <3>2. /\ IsFiniteSet(shares \ {h})
          /\ Cardinality(shares \ {h}) = lk.sharecount - 1
      BY <3>1, FS_RemoveElement DEF WInv, RInv, IInv, LockOK
    <3> QED BY <3>2, FS_CardinalityType
  <2>3. l \in LockType /\ l.flags = lk.flags /\ l.waitcount = lk.waitcount
    BY <1>1, <2>2 DEF LockType
  <2> HIDE DEF l
  <2> QED BY <1>1, <2>1, <2>3, WokenReturn
<1> QED BY <1>2, <1>3, <1>4 DEF Release

\* A request that goes on after its sleep
LEMMA ResumeJustified ==
  ASSUME WInv, NEW p \in Proc, Resume(p) \/ ResumeDrain(p)
  PROVE  AllJustified'
<1> DEFINE l == [lk EXCEPT !.waitcount = @ - 1]
           w == [wchan EXCEPT ![p] = "none"]
<1>1. wchan[p] # "intr" /\ "SLEEPFAIL" \notin opts[p]
  BY DEF WInv, AllJustified, Justified
<1>2. CASE ResumeDrain(p)
  BY <1>1, <1>2, DrainJustified DEF ResumeDrain
<1>3. CASE Resume(p)
  <2>1. /\ at[p] \in LkpStages
        /\ \/ AcquireShared(p, opts[p], l, w)
           \/ AcquireUpgrade(p, opts[p], l, w, shares)
           \/ AcquireExcl1(p, opts[p], l, w, shares)
           \/ AcquireExcl2(p, opts[p], l, w, shares)
    BY <1>1, <1>3 DEF Resume
  <2>2. Ready(p, l, w, shares) /\ l.flags = lk.flags
    BY <2>1, ResumeReady DEF WInv, RInv
  <2>3. l.sharecount = lk.sharecount /\ w[p] = "none"
        /\ \A q \in Proc \ {p} : w[q] = wchan[q]
    BY DEF WInv, RInv, IInv, LockOK, LockType, TypeOK
  <2> HIDE DEF l, w
  <2>4. \A s : Reason(s, lk) => Reason(s, l)
    BY <2>2, <2>3 DEF Reason
  <2>5. Still(p, l, w)
    BY <2>2, <2>3, <2>4 DEF Still, Ready, LockOK, WInv, AllJustified, Justified
  <2> QED BY <1>1, <2>1, <2>3, <2>5, SharedJustified, UpgradeJustified, Excl1Justified,
             Excl2Justified
<1> QED BY <1>2, <1>3

--------------------------------------------------------------------------------

\* Every step leaves each sleeper with a reason.
LEMMA NextJustified ==
  ASSUME NoFailures
  PROVE  WInv /\ [Next]_vars => WInv'
<1> SUFFICES ASSUME WInv, [Next]_vars PROVE AllJustified'
  BY NextSeen DEF WInv
<1>1. CASE UNCHANGED vars
  BY <1>1, SameJustified DEF vars
<1>2. ASSUME NEW p \in Proc, NEW o \in SUBSET (Opts \ {"REENABLE"}), Request(p, o)
      PROVE  AllJustified'
  <2>1. o \cap {"NOWAIT", "SLEEPFAIL"} = {} /\ "SLEEPFAIL" \notin o
    BY DEF NoFailures
  <2> QED BY <1>2, <2>1, RequestJustified, UpgradesJustified DEF Request
<1>3. ASSUME NEW p \in Proc, NEW o, Release(p, o) \/ Downgrade(p) PROVE AllJustified'
  BY <1>3, LetGoJustified
<1>4. ASSUME NEW p \in Proc, UseAfterDrain(p) PROVE AllJustified'
  BY <1>4, SameJustified DEF UseAfterDrain, Panic
<1>5. ASSUME NEW p \in Proc, Resume(p) \/ ResumeDrain(p) PROVE AllJustified'
  BY <1>5, ResumeJustified
<1>6. ASSUME NEW p \in Proc, EndTsleep(p) \/ Signal(p) PROVE FALSE
  BY <1>6 DEF EndTsleep, Signal, NoFailures
<1> QED BY <1>1, <1>2, <1>3, <1>4, <1>5, <1>6 DEF Next

\* As long as a process sleeps on the lock another one holds it, or runs, that will wake
\* it, if no request fails, polls or is an LK_EXCLUPGRADE: the sleeps of ACQUIRE and the
\* wake-ups for them (kern_lock.c:94-110, 240-241, 304-305, 368-369).
THEOREM NobodyStranded ==
  ASSUME NoFailures
  PROVE  Spec => []NoStranded
<1>1. Init => WInv
  BY InitSeen DEF WInv, AllJustified, Justified, Init
<1>2. WInv => NoStranded
  <2> SUFFICES ASSUME WInv PROVE NoStranded
    OBVIOUS
  <2>1. /\ lk.sharecount # 0 => shares # {}
        /\ "HAVE_EXCL" \in lk.flags => excls # {}
    BY FS_EmptySet DEF WInv, RInv, IInv, LockOK
  <2>2. ASSUME NEW u \in Proc, at[u] \in LkpStages
        PROVE  Running(u) \/ Reason(at[u], lk)
    BY <2>2 DEF WInv, AllJustified, Justified, Running, LkpStages, RInv, IInv, TypeOK
  <2>3. "WANT_UPGRADE" \in lk.flags => lk.sharecount # 0 \/ \E q \in Proc : Running(q)
    <3> SUFFICES ASSUME NEW u \in Proc, at[u] = "UPGRADE"
                 PROVE  lk.sharecount # 0 \/ \E q \in Proc : Running(q)
      BY DEF WInv, RInv, BarsHaveOwner
    <3>1. Running(u) \/ Reason("UPGRADE", lk)
      BY <2>2 DEF LkpStages
    <3> QED BY <3>1 DEF Reason
  <2>4. ASSUME NEW u \in Proc, at[u] = "EXCL2"
        PROVE  shares \cup excls # {} \/ \E q \in Proc : Running(q)
    <3>1. Running(u) \/ Reason("EXCL2", lk)
      BY <2>2, <2>4 DEF LkpStages
    <3> QED BY <2>1, <2>3, <3>1 DEF Reason
  <2>5. "WANT_EXCL" \in lk.flags =>
          shares \cup excls # {} \/ \E q \in Proc : Running(q)
    BY <2>4 DEF WInv, RInv, BarsHaveOwner
  <2>6. ASSUME NEW p \in Proc, wchan[p] = "lkp"
        PROVE  shares \cup excls # {} \/ \E q \in Proc : Running(q)
    <3>1. Reason(at[p], lk)
      BY <2>6 DEF WInv, AllJustified, Justified
    <3> QED BY <2>1, <2>3, <2>5, <3>1 DEF Reason, HaveOrWant
  <2> QED BY <2>6 DEF NoStranded
<1>3. WInv /\ [Next]_vars => WInv'
  BY NextJustified
<1> QED BY <1>1, <1>2, <1>3, PTL DEF Spec

--------------------------------------------------------------------------------
\* The drain is told.  This needs no condition: every way out of lockmgr but that of a drain
\* that fails ends in the test of WAITDRAIN.

\* A wake-up, conditional or not, puts nobody to sleep.
LEMMA WokenSleeps ==
  ASSUME NEW w, NEW l, NEW ident, NEW q \in Proc
  PROVE  /\ Woken(w, ident)[q] = "flags" => w[q] = "flags"
         /\ WokenIf(l, w)[q] = "flags" => w[q] = "flags"
         /\ YieldWake(l, w)[q] = "flags" => w[q] = "flags"
<1>1. \A i : Woken(w, i)[q] = "flags" => w[q] = "flags"
  BY DEF Woken
<1> QED BY <1>1 DEF WokenIf, YieldWake

\* Within a step the flag of a drain that sleeps stays set, and nobody falls asleep on it.
Awaited(l, w) ==
    /\ l \in LockType
    /\ \A q \in Proc : w[q] = "flags" => "WAITDRAIN" \in l.flags

\* The return either leaves the lock in use or wakes the drain.
LEMMA ReturnTells ==
  ASSUME NEW p \in Proc, NEW l, NEW w, Awaited(l, w), Return(p, l, w)
  PROVE  DrainTold'
<1>1. CASE "WAITDRAIN" \in l.flags /\ AtRest(l)
  BY <1>1 DEF Return, DrainTold, Woken
<1>2. CASE ~("WAITDRAIN" \in l.flags /\ AtRest(l))
  BY <1>2 DEF Return, DrainTold, Awaited
<1> QED BY <1>1, <1>2

\* Who sleeps on the lock keeps it in use.
LEMMA SleepTells ==
  ASSUME NEW p \in Proc, NEW s, NEW o, NEW l, NEW w \in WchanType, Awaited(l, w),
         Sleep(p, s, o, l, w)
  PROVE  DrainTold'
<1>1. lk'.flags = l.flags /\ lk'.waitcount = l.waitcount + 1 /\ l.waitcount \in Nat
  BY DEF Sleep, Awaited, LockType
<1>2. ~AtRest(lk')
  BY <1>1 DEF AtRest
<1>3. \A q \in Proc : wchan'[q] = "flags" => w[q] = "flags"
  BY DEF Sleep, WchanType
<1> QED BY <1>1, <1>2, <1>3 DEF DrainTold, Awaited

\* A panic changes nothing that a drain looks at.
LEMMA SameTells ==
  ASSUME DrainTold, UNCHANGED <<lk, wchan>>
  PROVE  DrainTold'
BY DEF DrainTold

\* The exclusive hold is a reason for a drain to wait, as any other is.
LEMMA GrantTells ==
  ASSUME DrainTold, NEW p \in Proc, NEW l, NEW w, NEW left, Awaited(l, w),
         Grant(p, l, w, left)
  PROVE  DrainTold'
<1> DEFINE m == [l EXCEPT !.flags = @ \cup {"HAVE_EXCL"},
                          !.lockholder = p, !.exclusivecount = 1]
<1>1. m \in LockType /\ m.flags = l.flags \cup {"HAVE_EXCL"}
  BY DEF Awaited, LockType, Flags
<1>2. Panic("exclcount") \/ Return(p, m, w)
  BY DEF Grant
<1> HIDE DEF m
<1>3. Awaited(m, w)
  BY <1>1 DEF Awaited
<1> QED BY <1>2, <1>3, ReturnTells, SameTells DEF Panic

\* So is each of the four waits on the lock.
LEMMA AcquireTells ==
  ASSUME DrainTold, NEW p \in Proc, NEW o, NEW l, NEW w \in WchanType, NEW left,
         Awaited(l, w),
         \/ AcquireShared(p, o, l, w)
         \/ AcquireUpgrade(p, o, l, w, left)
         \/ AcquireExcl1(p, o, l, w, left)
         \/ AcquireExcl2(p, o, l, w, left)
  PROVE  DrainTold'
<1>3. ASSUME NEW l2, Awaited(l2, w), AcquireExcl2(p, o, l2, w, left)
      PROVE  DrainTold'
  <2>1. CASE Wanted("EXCL2", l2)
    BY <1>3, <2>1, SleepTells DEF AcquireExcl2
  <2>2. CASE ~Wanted("EXCL2", l2)
    <3> DEFINE m == [l2 EXCEPT !.flags = @ \ {"WANT_EXCL"}]
    <3>1. Awaited(m, w)
      BY <1>3 DEF Awaited, LockType
    <3>2. Grant(p, m, w, left)
      BY <1>3, <2>2 DEF AcquireExcl2
    <3> HIDE DEF m
    <3> QED BY <3>1, <3>2, GrantTells
  <2> QED BY <2>1, <2>2
<1>4. CASE AcquireExcl1(p, o, l, w, left)
  <2>1. CASE Wanted("EXCL1", l)
    BY <1>4, <2>1, SleepTells DEF AcquireExcl1
  <2>2. CASE ~Wanted("EXCL1", l)
    <3> DEFINE m == [l EXCEPT !.flags = @ \cup {"WANT_EXCL"}]
    <3>1. Awaited(m, w)
      BY DEF Awaited, LockType, Flags
    <3>2. AcquireExcl2(p, o, m, w, left)
      BY <1>4, <2>2 DEF AcquireExcl1
    <3> HIDE DEF m
    <3> QED BY <1>3, <3>1, <3>2
  <2> QED BY <2>1, <2>2
<1>5. CASE AcquireUpgrade(p, o, l, w, left)
  <2>1. CASE Wanted("UPGRADE", l)
    BY <1>5, <2>1, SleepTells DEF AcquireUpgrade
  <2>2. CASE ~Wanted("UPGRADE", l)
    <3> DEFINE m == [l EXCEPT !.flags = @ \ {"WANT_UPGRADE"}]
    <3>1. Awaited(m, w)
      BY DEF Awaited, LockType
    <3>2. Grant(p, m, w, left)
      BY <1>5, <2>2 DEF AcquireUpgrade
    <3> HIDE DEF m
    <3> QED BY <3>1, <3>2, GrantTells
  <2> QED BY <2>1, <2>2
<1>6. CASE AcquireShared(p, o, l, w)
  <2>1. CASE Wanted("SHARED", l)
    BY <1>6, <2>1, SleepTells DEF AcquireShared
  <2>2. CASE ~Wanted("SHARED", l)
    <3> DEFINE m == [l EXCEPT !.sharecount = @ + 1]
    <3>1. Awaited(m, w)
      BY DEF Awaited, LockType
    <3>2. Return(p, m, w)
      BY <1>6, <2>2 DEF AcquireShared
    <3> HIDE DEF m
    <3> QED BY <3>1, <3>2, ReturnTells
  <2> QED BY <2>1, <2>2
<1> QED BY <1>3, <1>4, <1>5, <1>6

\* A drain sleeps on a lock that is not at rest.
LEMMA DrainTells ==
  ASSUME IInv, DrainTold, NEW p \in Proc, NEW o, AcquireDrain(p, o)
  PROVE  DrainTold'
<1>1. lk \in LockType /\ wchan \in WchanType
  BY DEF IInv, TypeOK, LockOK, WchanType
<1>2. CASE ~AtRest(lk)
  <2>1. lk' = [lk EXCEPT !.flags = @ \cup {"WAITDRAIN"}]
    BY <1>2 DEF AcquireDrain
  <2>2. /\ lk'.flags = lk.flags \cup {"WAITDRAIN"}
        /\ lk'.sharecount = lk.sharecount /\ lk'.waitcount = lk.waitcount
    BY <1>1, <2>1 DEF LockType
  <2>3. ~AtRest(lk')
    BY <1>2, <2>2 DEF AtRest, HaveOrWant
  <2> QED BY <2>2, <2>3 DEF DrainTold
<1>3. CASE AtRest(lk)
  <2> DEFINE m == [lk EXCEPT !.flags = @ \cup {"DRAINING", "HAVE_EXCL"},
                             !.lockholder = p, !.exclusivecount = 1]
             w == [wchan EXCEPT ![p] = "none"]
  <2>1. Return(p, m, w)
    BY <1>3 DEF AcquireDrain
  <2>2. m \in LockType /\ m.flags = lk.flags \cup {"DRAINING", "HAVE_EXCL"}
    BY <1>1 DEF LockType, Flags
  <2>3. \A q \in Proc : w[q] = "flags" => wchan[q] = "flags"
    BY <1>1 DEF WchanType
  <2> HIDE DEF m, w
  <2>4. Awaited(m, w)
    BY <2>2, <2>3 DEF Awaited, DrainTold
  <2> QED BY <2>1, <2>4, ReturnTells
<1> QED BY <1>2, <1>3

\* A caller comes with the lock and the sleepers as they are, and what it takes off the
\* counts or the flags before it waits or returns leaves WAITDRAIN alone.
LEMMA CallTells ==
  ASSUME IInv, DrainTold, NEW p \in Proc, NEW o,
         Request(p, o) \/ Release(p, o) \/ Downgrade(p)
  PROVE  DrainTold'
<1>1. lk \in LockType /\ wchan \in WchanType
  BY DEF IInv, TypeOK, LockOK, WchanType
<1>2. Awaited(lk, wchan)
  BY <1>1 DEF Awaited, DrainTold
<1>3. ASSUME NEW l \in LockType, "WAITDRAIN" \in lk.flags => "WAITDRAIN" \in l.flags
      PROVE  /\ Awaited(l, wchan)
             /\ Awaited(l, WokenIf(l, wchan)) /\ Awaited(l, YieldWake(l, wchan))
  BY <1>2, <1>3, WokenSleeps DEF Awaited
<1>4. CASE Shared(p, o)
  BY <1>1, <1>2, <1>4, ReturnTells, AcquireTells DEF Shared
<1>5. CASE Drain(p, o)
  BY <1>1, <1>2, <1>5, ReturnTells, DrainTells DEF Drain
<1>6. CASE Exclusive(p, o)
  <2> DEFINE m == [lk EXCEPT !.exclusivecount = @ + 1]
  <2>1. m \in LockType /\ m.flags = lk.flags
    BY <1>1 DEF LockType
  <2>2. \/ Return(p, m, wchan) \/ Return(p, lk, wchan)
        \/ AcquireExcl1(p, o, lk, wchan, shares)
    BY <1>6 DEF Exclusive
  <2> HIDE DEF m
  <2> QED BY <1>1, <1>2, <1>3, <2>1, <2>2, ReturnTells, AcquireTells
<1>7. CASE Upgrade(p, o)
  <2> DEFINE l == [lk EXCEPT !.sharecount = @ - 1]
             m == [l EXCEPT !.flags = @ \cup {"WANT_UPGRADE"}]
  <2>1. PICK h \in SharesOf(p) :
          /\ at[p] = "out" /\ InService /\ SharesOf(p) = {h}
          /\ \/ Return(p, l, wchan)
             \/ AcquireUpgrade(p, o, m, wchan, shares \ {h})
             \/ AcquireExcl1(p, o, l, YieldWake(l, wchan), shares \ {h})
    BY <1>7 DEF Upgrade, MayCall
  <2>2. /\ Ready(p, l, wchan, shares \ {h}) /\ Ready(p, m, wchan, shares \ {h})
        /\ l.flags = lk.flags
    BY <2>1, UpgraderReady
  <2>3. l \in LockType /\ m \in LockType
    BY <2>2 DEF Ready, LockOK
  <2>4. m.flags = lk.flags \cup {"WANT_UPGRADE"}
    BY <2>2, <2>3 DEF LockType
  <2> HIDE DEF l, m
  <2>5. Awaited(l, wchan) /\ Awaited(m, wchan) /\ Awaited(l, YieldWake(l, wchan))
    BY <1>3, <2>2, <2>3, <2>4
  <2>6. YieldWake(l, wchan) \in WchanType
    BY <1>1, WokenIfType
  <2> QED BY <1>1, <2>1, <2>5, <2>6, ReturnTells, AcquireTells
<1>8. CASE Downgrade(p)
  <2>1. PICK more \in {0, 1} :
          Return(p, Downgraded(more), WokenIf(Downgraded(more), wchan))
    BY <1>8 DEF Downgrade
  <2> DEFINE l == Downgraded(more)
  <2>2. l \in LockType /\ l.flags = lk.flags \ {"HAVE_EXCL"}
    <3>1. lk.sharecount + more + lk.exclusivecount \in Nat
      BY <1>1 DEF LockType
    <3> QED BY <1>1, <3>1 DEF LockType, Downgraded
  <2> HIDE DEF l
  <2>3. Return(p, l, WokenIf(l, wchan))
    BY <2>1 DEF l
  <2> QED BY <1>3, <2>2, <2>3, ReturnTells
<1>9. CASE ReleaseExclusive(p, o)
  <2> DEFINE drained == IF "DRAINING" \notin lk.flags \/ "REENABLE" \in o THEN {}
                        ELSE {"DRAINED"}
             n == lk.exclusivecount - 1
             l == [lk EXCEPT !.flags = (@ \cup drained) \
                                 (IF n = 0 THEN {"DRAINING", "HAVE_EXCL"}
                                           ELSE {"DRAINING"}),
                             !.exclusivecount = n,
                             !.lockholder = IF n = 0 THEN NoProc ELSE @]
  <2>1. lk.lockholder = p /\ Return(p, l, WokenIf(l, wchan))
    BY <1>9 DEF ReleaseExclusive
  <2>2. n \in Nat
    <3>1. lk.exclusivecount \in Nat /\ lk.exclusivecount # 0
      BY <1>1, <2>1, ProcAssumption DEF IInv, LockOK, LockType
    <3> QED BY <3>1
  <2>3. drained \in SUBSET {"DRAINED"}
    OBVIOUS
  <2>4. l.flags = (lk.flags \cup drained) \
                    (IF n = 0 THEN {"DRAINING", "HAVE_EXCL"} ELSE {"DRAINING"})
    BY <1>1 DEF LockType
  <2>5. l \in LockType
    BY <1>1, <2>2, <2>3 DEF LockType, Flags
  <2> HIDE DEF l, n, drained
  <2>6. "WAITDRAIN" \in lk.flags => "WAITDRAIN" \in l.flags
    BY <2>4
  <2> QED BY <1>3, <2>1, <2>5, <2>6, ReturnTells
<1>10. CASE ReleaseShared(p)
  <2> DEFINE l == [lk EXCEPT !.sharecount = @ - 1]
  <2>1. Return(p, l, WokenIf(l, wchan)) /\ shares # {}
    BY <1>10 DEF ReleaseShared, SharesOf
  <2>2. lk.sharecount # 0
    BY <2>1, FS_EmptySet DEF IInv, LockOK
  <2>3. l \in LockType /\ l.flags = lk.flags
    BY <1>1, <2>2 DEF LockType
  <2> HIDE DEF l
  <2> QED BY <1>3, <2>1, <2>3, ReturnTells
<1> QED BY <1>4, <1>5, <1>6, <1>7, <1>8, <1>9, <1>10 DEF Request, Release

\* Neither does a request that goes on or fails after its sleep, nor a drain that fails.
LEMMA ResumeTells ==
  ASSUME IInv, DrainTold, NEW p \in Proc, Resume(p) \/ ResumeDrain(p)
  PROVE  DrainTold'
<1>1. wchan \in WchanType
  BY DEF IInv, TypeOK, WchanType
<1>2. CASE Resume(p)
  <2> DEFINE l == [lk EXCEPT !.waitcount = @ - 1]
             w == [wchan EXCEPT ![p] = "none"]
             m == [l EXCEPT !.flags = @ \ Taken(at[p])]
  <2>1. /\ at[p] \in LkpStages
        /\ \/ Return(p, m, w)
           \/ AcquireShared(p, opts[p], l, w)
           \/ AcquireUpgrade(p, opts[p], l, w, shares)
           \/ AcquireExcl1(p, opts[p], l, w, shares)
           \/ AcquireExcl2(p, opts[p], l, w, shares)
    BY <1>2 DEF Resume
  <2>2. Ready(p, l, w, shares) /\ l.flags = lk.flags
    BY <2>1, ResumeReady
  <2>3. \A q \in Proc : w[q] = "flags" => wchan[q] = "flags"
    BY <1>1 DEF WchanType
  <2>4. l \in LockType /\ w \in WchanType
    BY <2>2 DEF Ready, LockOK
  <2>5. m \in LockType /\ m.flags = l.flags \ Taken(at[p])
    BY <2>4 DEF LockType
  <2> HIDE DEF l, m, w
  <2>6. Awaited(l, w) /\ Awaited(m, w)
    BY <2>1, <2>2, <2>3, <2>4, <2>5 DEF Awaited, DrainTold, Taken, LkpStages
  <2> QED BY <2>1, <2>4, <2>6, ReturnTells, AcquireTells
<1>3. CASE ResumeDrain(p)
  <2>1. CASE lk' = lk /\ wchan' = [wchan EXCEPT ![p] = "none"]
    BY <1>1, <2>1 DEF DrainTold, WchanType
  <2> QED BY <1>3, <2>1, DrainTells DEF ResumeDrain
<1> QED BY <1>2, <1>3

\* A drain that sleeps sleeps on a lock that is held, wanted or waited for, and is told
\* when that ends, whatever requests fail, poll or are refused meanwhile: the test of
\* LK_WAITDRAIN at the end of lockmgr (kern_lock.c:391-424).
THEOREM DrainsTold == Spec => []DrainTold
<1>1. Init => DrainTold
  BY DEF Init, DrainTold
<1>2. IInv /\ DrainTold /\ [Next]_vars => DrainTold'
  <2> SUFFICES ASSUME IInv, DrainTold, [Next]_vars PROVE DrainTold'
    OBVIOUS
  <2>1. CASE UNCHANGED vars
    BY <2>1, SameTells DEF vars
  <2>2. ASSUME NEW p \in Proc, NEW o, Request(p, o) \/ Release(p, o) PROVE DrainTold'
    BY <2>2, CallTells
  <2>3. ASSUME NEW p \in Proc, Downgrade(p) PROVE DrainTold'
    BY <2>3, CallTells
  <2>4. ASSUME NEW p \in Proc, UseAfterDrain(p) PROVE DrainTold'
    BY <2>4, SameTells DEF UseAfterDrain, Panic
  <2>5. ASSUME NEW p \in Proc, Resume(p) \/ ResumeDrain(p) PROVE DrainTold'
    BY <2>5, ResumeTells
  <2>6. ASSUME NEW p \in Proc, EndTsleep(p) \/ Signal(p) PROVE DrainTold'
    BY <2>6 DEF EndTsleep, Signal, DrainTold, IInv, TypeOK
  <2> QED BY <2>1, <2>2, <2>3, <2>4, <2>5, <2>6 DEF Next
<1> QED BY <1>1, <1>2, Invariant, PTL DEF Spec

================================================================================
