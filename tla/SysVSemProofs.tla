----------------------------- MODULE SysVSemProofs -----------------------------
(***************************************************************************)
(* Semaphores, for every number of slots, semaphores and processes and for *)
(* all vectors: the layout of the pool, the types and what is owed to      *)
(* semaphores at an exit, the counts of those that wait, the wake-ups, and *)
(* the refinement of SemaphoreSets.                                        *)
(* What a vector makes of the values is a fold: its lemmas go over the     *)
(* operations one by one with the induction of Recursion.                  *)
(***************************************************************************)
EXTENDS SysVSem, Recursion, FiniteSetTheorems, TLAPS

--------------------------------------------------------------------------------
\* The layout of the pool: semget and IPC_RMID keep the sets side by side, and nothing
\* else moves them.

\* The part of TypeOK that the layout depends on.  A set has at least one
\* semaphore, or two sets could share their beginning and IPC_RMID of one would
\* not move the other.
SlotType ==
    /\ sema \in [SemId -> [alloc : BOOLEAN, seq : 0 .. MaxSeq,
                           base : Nat, nsems : 0 .. 5]]
    /\ \A id \in SemId : sema[id].alloc => sema[id].nsems > 0
    /\ semtot \in 0 .. SemMns

PoolInv == SlotType /\ PoolPacked

\* seminit establishes the invariant of the pool.
LEMMA PoolInit == Init => PoolInv
<1> SUFFICES ASSUME Init PROVE PoolInv
  OBVIOUS
<1>1. /\ sema = [id \in SemId |-> [alloc |-> FALSE, seq |-> 0, base |-> 0, nsems |-> 0]]
      /\ semtot = 0
  BY DEF Init
<1>2. SemMns \in Nat /\ MaxSeq \in Nat
  BY SizeAssumption
<1>3. SlotType
  BY <1>1, <1>2 DEF SlotType
<1>4. Live = {}
  BY <1>1 DEF Live
<1>5. 0 .. semtot - 1 = {}
  BY <1>1
<1>6. PoolPacked
  BY <1>4, <1>5 DEF PoolPacked
<1> QED BY <1>3, <1>6 DEF PoolInv

\* semget puts the new set past all the others.
LEMMA PoolSemget ==
  ASSUME PoolInv, NEW p \in Proc, NEW n \in SetSizes, Semget(p, n)
  PROVE  PoolInv'
<1>1. PICK new \in SemId :
        /\ Room(n)
        /\ ~sema[new].alloc
        /\ sema[new].seq < MaxSeq
        /\ sema' = [sema EXCEPT ![new] = [alloc |-> TRUE, seq |-> @.seq + 1,
                                          base |-> semtot, nsems |-> n]]
        /\ semtot' = semtot + n
  BY DEF Semget
<1>2. n \in 1 .. 5 /\ semtot \in Nat /\ SemMns \in Nat /\ MaxSeq \in Nat
  <2>1. SemMns \in Nat /\ MaxSeq \in Nat
    BY SizeAssumption
  <2>2. n \in 1 .. 5
    BY SizeAssumption
  <2>3. semtot \in Nat
    BY <2>1 DEF PoolInv, SlotType
  <2> QED BY <2>1, <2>2, <2>3
<1>3. semtot' \in 0 .. SemMns /\ semtot' = semtot + n
  BY <1>1, <1>2 DEF Room, PoolInv, SlotType
<1>4. /\ sema' \in [SemId -> [alloc : BOOLEAN, seq : 0 .. MaxSeq,
                              base : Nat, nsems : 0 .. 5]]
      /\ sema'[new].alloc /\ sema'[new].base = semtot /\ sema'[new].nsems = n
      /\ \A id \in SemId \ {new} : sema'[id] = sema[id]
  <2>1. sema \in [SemId -> [alloc : BOOLEAN, seq : 0 .. MaxSeq,
                            base : Nat, nsems : 0 .. 5]]
    BY DEF PoolInv, SlotType
  <2>2. sema[new].seq + 1 \in 0 .. MaxSeq
    BY <1>1, <1>2, <2>1
  <2> QED BY <1>1, <1>2, <2>1, <2>2
<1>5. Live' = Live \cup {new} /\ new \notin Live
  BY <1>1, <1>4 DEF Live
<1>6. SlotType'
  BY <1>2, <1>3, <1>4 DEF PoolInv, SlotType
<1>7. PoolPacked'
  <2> DEFINE End(id) == sema[id].base + sema[id].nsems
  <2>1. \A id \in Live : /\ id \in SemId \ {new} /\ sema'[id] = sema[id]
                         /\ sema[id].base \in Nat /\ sema[id].nsems \in Nat
                         /\ End(id) <= semtot
    BY <1>4, <1>5 DEF PoolInv, SlotType, PoolPacked, Live
  <2>2. ASSUME NEW id \in Live' PROVE sema'[id].base + sema'[id].nsems <= semtot'
    BY <1>2, <1>3, <1>4, <1>5, <2>1
  <2>3. ASSUME NEW i \in Live', NEW j \in Live', i # j
        PROVE  \/ sema'[i].base + sema'[i].nsems <= sema'[j].base
               \/ sema'[j].base + sema'[j].nsems <= sema'[i].base
    <3>1. CASE i = new
      BY <1>4, <1>5, <2>1, <2>3, <3>1
    <3>2. CASE j = new
      BY <1>4, <1>5, <2>1, <2>3, <3>2
    <3>3. CASE i # new /\ j # new
      BY <1>5, <2>1, <2>3, <3>3 DEF PoolInv, PoolPacked
    <3> QED BY <3>1, <3>2, <3>3
  <2>4. ASSUME NEW k \in 0 .. semtot' - 1
        PROVE  \E id \in Live' :
                 k \in sema'[id].base .. sema'[id].base + sema'[id].nsems - 1
    <3>1. CASE k < semtot
      <4>1. PICK id \in Live : k \in sema[id].base .. sema[id].base + sema[id].nsems - 1
        BY <1>2, <3>1 DEF PoolInv, PoolPacked
      <4> QED BY <1>5, <2>1, <4>1
    <3>2. CASE k >= semtot
      BY <1>2, <1>3, <1>4, <1>5, <3>2
    <3> QED BY <1>2, <1>3, <3>1, <3>2
  <2> QED BY <2>2, <2>3, <2>4 DEF PoolPacked
<1> QED BY <1>6, <1>7 DEF PoolInv

\* IPC_RMID closes the gap the set leaves.
LEMMA PoolRmid ==
  ASSUME PoolInv, NEW p \in Proc, NEW old \in SemId, Rmid(p, old)
  PROVE  PoolInv'
<1> DEFINE Size == sema[old].nsems
           Beyond(id) == sema[id].base > sema[old].base
<1>1. /\ sema[old].alloc
      /\ semtot' = semtot - Size
      /\ sema' = [Moved(old) EXCEPT ![old].alloc = FALSE]
  BY DEF Rmid
<1>2. /\ sema \in [SemId -> [alloc : BOOLEAN, seq : 0 .. MaxSeq,
                             base : Nat, nsems : 0 .. 5]]
      /\ \A id \in SemId : sema[id].alloc => sema[id].nsems > 0
      /\ semtot \in 0 .. SemMns /\ SemMns \in Nat
  <2>1. SlotType
    BY DEF PoolInv
  <2>2. SemMns \in Nat
    BY SizeAssumption
  <2> QED BY <2>1, <2>2, Zenon DEF SlotType
<1>3. /\ \A id \in Live : sema[id].base + sema[id].nsems <= semtot
      /\ \A i, j \in Live :
           i # j => \/ sema[i].base + sema[i].nsems <= sema[j].base
                    \/ sema[j].base + sema[j].nsems <= sema[i].base
      /\ \A k \in 0 .. semtot - 1 :
           \E id \in Live : k \in sema[id].base .. sema[id].base + sema[id].nsems - 1
  BY DEF PoolInv, PoolPacked
<1>4. old \in Live /\ Size \in 1 .. 5 /\ sema[old].base \in Nat
  BY <1>1, <1>2 DEF Live
<1>5. \A id \in Live \ {old} :
        /\ Beyond(id) => sema[id].base >= sema[old].base + Size
        /\ ~Beyond(id) => sema[id].base + sema[id].nsems <= sema[old].base
  <2> TAKE id \in Live \ {old}
  <2>1. sema[id].base \in Nat /\ sema[id].nsems \in 1 .. 5
    BY <1>2 DEF Live
  <2> QED BY <1>3, <1>4, <2>1
<1>6. \A id \in SemId \ {old} :
        sema'[id] = IF id \in Live /\ Beyond(id)
                    THEN [sema[id] EXCEPT !.base = @ - Size] ELSE sema[id]
  BY <1>1, <1>2 DEF Moved, Live
<1>7. /\ ~sema'[old].alloc
      /\ sema'[old] \in [alloc : BOOLEAN, seq : 0 .. MaxSeq, base : Nat, nsems : 0 .. 5]
  <2>1. Moved(old)[old] = sema[old] /\ DOMAIN Moved(old) = SemId
    BY <1>2 DEF Moved
  <2> QED BY <1>1, <1>2, <2>1
<1>8. \A id \in Live \ {old} :
        /\ sema'[id].base = IF Beyond(id) THEN sema[id].base - Size ELSE sema[id].base
        /\ sema'[id].nsems = sema[id].nsems
        /\ sema'[id].alloc
        /\ sema[id].base \in Nat /\ sema[id].nsems \in 1 .. 5
  <2> TAKE id \in Live \ {old}
  <2>1. id \in SemId \ {old} /\ sema[id].alloc /\ sema[id].nsems > 0
    BY <1>2 DEF Live
  <2>2. sema[id] \in [alloc : BOOLEAN, seq : 0 .. MaxSeq, base : Nat, nsems : 0 .. 5]
    BY <1>2, <2>1
  <2>3. sema'[id] = IF Beyond(id) THEN [sema[id] EXCEPT !.base = @ - Size] ELSE sema[id]
    BY <1>6, <2>1
  <2>4. sema[id].base \in Nat /\ sema[id].nsems \in 1 .. 5
    BY <2>1, <2>2
  <2> QED BY <2>1, <2>2, <2>3, <2>4
<1>9. Live' = Live \ {old}
  <2>1. \A id \in SemId \ {old} : sema'[id].alloc = sema[id].alloc
    BY <1>2, <1>6
  <2> QED BY <1>7, <2>1 DEF Live
<1>10. SlotType'
  <2>1. \A id \in SemId : sema'[id] \in [alloc : BOOLEAN, seq : 0 .. MaxSeq,
                                         base : Nat, nsems : 0 .. 5]
    <3> TAKE id \in SemId
    <3>1. CASE id = old
      BY <1>7, <3>1
    <3>2. CASE id # old /\ id \in Live /\ Beyond(id)
      <4>1. sema[id].base - Size \in Nat
        BY <1>4, <1>5, <1>8, <3>2
      <4> QED BY <1>2, <1>6, <3>2, <4>1
    <3>3. CASE id # old /\ ~(id \in Live /\ Beyond(id))
      BY <1>2, <1>6, <3>3
    <3> QED BY <3>1, <3>2, <3>3
  <2>2. sema' = [id \in SemId |-> sema'[id]]
    BY <1>1, <1>2 DEF Moved
  <2>3. \A id \in SemId : sema'[id].alloc => sema'[id].nsems > 0
    <3> TAKE id \in SemId
    <3>1. CASE id = old
      BY <1>7, <3>1
    <3>2. CASE id \in Live \ {old}
      BY <1>8, <3>2
    <3>3. CASE id # old /\ id \notin Live
      BY <1>9, <3>3 DEF Live
    <3> QED BY <3>1, <3>2, <3>3
  <2>4. semtot' \in 0 .. SemMns
    BY <1>1, <1>2, <1>3, <1>4
  <2> QED BY <2>1, <2>2, <2>3, <2>4 DEF SlotType
<1>11. PoolPacked'
  <2>1. ASSUME NEW id \in Live' PROVE sema'[id].base + sema'[id].nsems <= semtot'
    <3>1. id \in Live \ {old} /\ sema[id].base + sema[id].nsems <= semtot
      BY <1>3, <1>9
    <3>2. sema[old].base + Size <= semtot
      BY <1>3, <1>4
    <3> QED BY <1>1, <1>2, <1>4, <1>5, <1>8, <3>1, <3>2
  <2>2. ASSUME NEW i \in Live', NEW j \in Live', i # j
        PROVE  \/ sema'[i].base + sema'[i].nsems <= sema'[j].base
               \/ sema'[j].base + sema'[j].nsems <= sema'[i].base
    <3>1. i \in Live \ {old} /\ j \in Live \ {old}
      BY <1>9
    <3>2. \/ sema[i].base + sema[i].nsems <= sema[j].base
          \/ sema[j].base + sema[j].nsems <= sema[i].base
      BY <1>3, <2>2, <3>1
    <3> QED BY <1>4, <1>5, <1>8, <3>1, <3>2
  <2>3. ASSUME NEW k \in 0 .. semtot' - 1
        PROVE  \E id \in Live' :
                 k \in sema'[id].base .. sema'[id].base + sema'[id].nsems - 1
    <3>1. CASE k < sema[old].base
      <4>1. PICK id \in Live : k \in sema[id].base .. sema[id].base + sema[id].nsems - 1
        BY <1>1, <1>2, <1>3, <1>4
      <4>2. id \in Live \ {old} /\ ~Beyond(id)
        BY <1>2, <1>4, <3>1, <4>1 DEF Live
      <4> QED BY <1>8, <1>9, <4>1, <4>2
    <3>2. CASE k >= sema[old].base
      <4>1. k + Size \in 0 .. semtot - 1
        BY <1>1, <1>2, <1>4
      <4>2. PICK id \in Live :
               k + Size \in sema[id].base .. sema[id].base + sema[id].nsems - 1
        BY <1>3, <4>1
      <4>3. id \in Live \ {old}
        BY <1>2, <1>4, <3>2, <4>2
      <4>4. Beyond(id)
        BY <1>4, <1>5, <1>8, <3>2, <4>2, <4>3
      <4> QED BY <1>4, <1>8, <1>9, <4>2, <4>3, <4>4
    <3> QED BY <1>1, <1>2, <1>4, <3>1, <3>2
  <2> QED BY <2>1, <2>2, <2>3 DEF PoolPacked
<1> QED BY <1>10, <1>11 DEF PoolInv

\* No other step moves a set or changes how much of the pool is in use.
LEMMA PoolStep == PoolInv /\ [Next]_vars => PoolInv'
<1> SUFFICES ASSUME PoolInv, [Next]_vars PROVE PoolInv'
  OBVIOUS
<1>1. ASSUME UNCHANGED <<sema, semtot>> PROVE PoolInv'
  BY <1>1 DEF PoolInv, SlotType, PoolPacked, Live
<1>2. CASE UNCHANGED vars
  BY <1>1, <1>2 DEF vars
<1>3. ASSUME NEW p \in Proc, Step(p) PROVE PoolInv'
  <2>1. CASE \E id \in SemId, sops \in Vectors : Semop(p, id, sops)
    BY <1>1, <2>1 DEF Semop
  <2>2. CASE SemopCopied(p) \/ SemopWoken(p) \/ SemopInterrupted(p)
    BY <1>1, <2>2 DEF SemopCopied, SemopWoken, SemopInterrupted
  <2>3. CASE \E n \in SetSizes : Semget(p, n)
    BY PoolSemget, <2>3
  <2>4. CASE \E id \in SemId : Rmid(p, id)
    BY PoolRmid, <2>4
  <2>5. CASE \E id \in SemId : Setall(p, id)
    BY <1>1, <2>5 DEF Setall
  <2>6. CASE \E id \in SemId, n \in Num : Setval(p, id, n)
    BY <1>1, <2>6 DEF Setval
  <2>7. CASE SetvalCopied(p) \/ SetallArg(p) \/ SetallCopied(p)
    BY <1>1, <2>7 DEF SetvalCopied, SetallArg, SetallCopied
  <2>8. CASE Freeze(p) \/ Thaw(p)
    BY <1>1, <2>8 DEF Freeze, Thaw
  <2>9. CASE Semexit(p) \/ SemexitThawed(p)
    BY <1>1, <2>9 DEF Semexit, SemexitThawed, Finish, Panic
  <2> QED BY <1>3, <2>1, <2>2, <2>3, <2>4, <2>5, <2>6, <2>7, <2>8, <2>9 DEF Step
<1> QED BY <1>2, <1>3 DEF Next

\* However sets are created and removed, and whatever else goes on, the sets lie
\* in the pool side by side: none runs into another or past semtot, and all of
\* the pool below semtot belongs to one (semget and IPC_RMID of sysv_sem.c).
THEOREM PoolStaysPacked == Spec => []PoolPacked
<1>1. PoolInv => PoolPacked
  BY DEF PoolInv
<1> QED BY <1>1, PoolInit, PoolStep, PTL DEF Spec

--------------------------------------------------------------------------------
\* The operators on vectors and pools, and the types


\* s is a vector of n adjustments
Vector(s, n) == \A k \in 1 .. n : s[k].num \in Num /\ s[k].op \in Int

\* After performs the operations one by one.
LEMMA AfterSteps ==
  ASSUME NEW D, NEW v \in [D -> Int], NEW s, Len(s) \in Nat, Vector(s, Len(s))
  PROVE  /\ After(v, s) \in [0 .. Len(s) -> [D -> Int]]
         /\ After(v, s)[0] = v
         /\ \A k \in 1 .. Len(s) :
              After(v, s)[k] = [After(v, s)[k-1] EXCEPT ![s[k].num] = @ + s[k].op]
<1> DEFINE n == Len(s)
           S == [D -> Int]
           b == After(v, s)
           One(u, k) == [u EXCEPT ![s[k].num] = @ + s[k].op]
           Rec(a) == a = [k \in 0 .. n |-> IF k = 0 THEN v ELSE One(a[k-1], k)]
           step == [x \in (1 .. n) \X S |-> One(x[2], x[1])]
<1>1. v \in S /\ n \in Nat
  OBVIOUS
<1>2. \A u \in S : \A k \in 1 .. n : One(u, k) \in S
  <2> SUFFICES ASSUME NEW u \in [D -> Int], NEW k \in 1 .. n
               PROVE  [u EXCEPT ![s[k].num] = u[s[k].num] + s[k].op] \in [D -> Int]
    OBVIOUS
  <2>1. s[k].op \in Int
    BY DEF Vector
  <2> DEFINE x == s[k].num
             y == s[k].op
  <2>2. y \in Int
    BY <2>1
  <2> HIDE DEF x, y
  <2>3. [u EXCEPT ![x] = u[x] + y] = [d \in D |-> IF d = x THEN u[d] + y ELSE u[d]]
    OBVIOUS
  <2>4. \A d \in D : (IF d = x THEN u[d] + y ELSE u[d]) \in Int
    BY <2>2
  <2>5. [u EXCEPT ![x] = u[x] + y] \in [D -> Int]
    BY <2>3, <2>4
  <2> QED BY <2>5 DEF x, y
<1>3. b = CHOOSE a : Rec(a)
  BY DEF After
<1>4. b \in [0 .. n -> S] /\ b[0] = v /\ \A k \in 1 .. n : b[k] = One(b[k-1], k)
  <2> HIDE DEF S, n, b, One
  <2>1. step \in [(1 .. n) \X S -> S]
    BY <1>2
  <2>2. \A k \in 1 .. n : \A u \in S : step[<<k, u>>] = One(u, k)
    OBVIOUS
  <2> HIDE DEF step
  <2>3. PICK a \in [0 .. n -> S] : a[0] = v /\ \A k \in 1 .. n : a[k] = step[<<k, a[k-1]>>]
    <3>1. n \in Nat
      BY <1>1
    <3>2. v \in S
      BY <1>1
    <3>3. \E a : a \in [0 .. n -> S] /\ Iterates(a, n, v, step)
      BY ONLY <3>1, <3>2, <2>1, Iteration, Zenon
    <3> QED BY <3>3 DEF Iterates
  <2>4. a = [k \in 0 .. n |-> IF k = 0 THEN v ELSE One(a[k-1], k)]
    <3>1. \A k \in 1 .. n : a[k-1] \in S
      BY <1>1
    <3>2. \A k \in 0 .. n : a[k] = IF k = 0 THEN v ELSE One(a[k-1], k)
      <4> SUFFICES ASSUME NEW k \in 0 .. n PROVE a[k] = IF k = 0 THEN v ELSE One(a[k-1], k)
        OBVIOUS
      <4>1. CASE k = 0
        BY <2>3, <4>1
      <4>2. CASE k # 0
        <5>1. k \in 1 .. n
          BY <4>2, <1>1
        <5> QED BY <2>2, <2>3, <3>1, <5>1, <4>2
      <4> QED BY <4>1, <4>2
    <3> QED BY <3>2
  <2>5. Rec(b)
    <3>1. Rec(a)
      BY <2>4
    <3> HIDE DEF Rec
    <3> QED BY <1>3, <3>1
  <2>6. b[0] = v /\ \A k \in 1 .. n : b[k] = One(b[k-1], k)
    BY <2>5, <1>1
  <2> DEFINE T == {k \in 0 .. n : b[k] \in S}
  <2>7. 0 .. n \subseteq T
    <3>1. 0 \in T
      BY <1>1, <2>6
    <3>2. ASSUME NEW k \in 1 .. n, k-1 \in T PROVE k \in T
      BY <1>1, <1>2, <2>6, <3>2
    <3> HIDE DEF T
    <3> QED BY <1>1, <3>1, <3>2, UpTo
  <2>8. b = [k \in 0 .. n |-> b[k]]
    <3> DEFINE R == [k \in 0 .. n |-> IF k = 0 THEN v ELSE One(b[k-1], k)]
    <3>1. b = R
      BY <2>5
    <3>2. R = [k \in 0 .. n |-> R[k]]
      OBVIOUS
    <3> HIDE DEF R
    <3> QED BY <3>1, <3>2
  <2> QED BY <2>6, <2>7, <2>8
<1> QED BY <1>4

--------------------------------------------------------------------------------
\* What a call can be
CallType == [pc : {"user", "copyin", "semwait", "woken", "setval", "setallarg",
                   "setall", "exiting"},
             id : SemId, seq : 0 .. MaxSeq, sops : Vectors \cup {<< >>}, at : Nat,
             semptr : Int, num : Nat]

\* A process in semop has a vector, and one that waits has an operation in it.
InSemop(c) ==
    /\ c.pc \in {"copyin", "semwait", "woken"} => c.sops \in Vectors
    /\ c.pc \in {"semwait", "woken"} => c.at \in 1 .. Len(c.sops)
    /\ c.pc = "copyin" => sema[c.id].alloc /\ "fault" \in Calls

\* The types of the variables, apart from those of the pool
Types ==
    /\ \A id \in SemId : sema[id].base <= SemMns
    /\ sem \in [Pool -> SemRec]
    /\ undo \in [Proc -> [SemId -> [Num -> Int]]]
    /\ semu \subseteq Proc
    /\ holder \in Proc \cup {NoProc}
    /\ call \in [Proc -> CallType]
    /\ panicked \in BOOLEAN

\* The inductive invariant of the types and of the undo entries
TInv ==
    /\ PoolInv /\ Types /\ UndoFits
    /\ \A p \in Proc : InSemop(call[p])

\* A set is not removed while copyin sleeps.
Settled == {"rmid", "fault"} \cap Calls # {"rmid", "fault"}

\* The invariant has what TypeOK says.
LEMMA TInvTypeOK == TInv => TypeOK
<1> SUFFICES ASSUME TInv PROVE TypeOK
  OBVIOUS
<1>1. sema \in [SemId -> [alloc : BOOLEAN, seq : 0 .. MaxSeq, base : 0 .. SemMns,
                          nsems : 0 .. 5]]
  BY SizeAssumption DEF TInv, Types, PoolInv, SlotType
<1>2. semtot \in 0 .. SemMns
  BY DEF TInv, PoolInv, SlotType
<1>3. DOMAIN call = Proc
  BY DEF TInv, Types
<1>4. /\ sem \in [Pool -> SemRec] /\ undo \in [Proc -> [SemId -> [Num -> Int]]]
      /\ semu \subseteq Proc /\ holder \in Proc \cup {NoProc} /\ panicked \in BOOLEAN
  BY DEF TInv, Types
<1> QED BY <1>1, <1>2, <1>3, <1>4, Zenon DEF TypeOK

\* seminit establishes it.
LEMMA TInvInit == Init => TInv
<1> SUFFICES ASSUME Init PROVE TInv
  OBVIOUS
<1>1. PoolInv
  BY PoolInit
<1>2. 0 \in SemId /\ Idle \in CallType
  BY SizeAssumption DEF SemId, Idle, CallType
<1>3. Types
  <2>1. \A id \in SemId : sema[id].base <= SemMns
    BY SizeAssumption DEF Init
  <2>2. sem \in [Pool -> SemRec]
    BY DEF Init, SemRec, U16
  <2>3. undo \in [Proc -> [SemId -> [Num -> Int]]]
    BY DEF Init, NoEntries
  <2>4. call \in [Proc -> CallType]
    BY <1>2 DEF Init
  <2> QED BY <2>1, <2>2, <2>3, <2>4 DEF Types, Init
<1>4. UndoFits
  BY DEF Init, UndoFits, EntriesMakeSense, Entries, NoEntries
<1>5. \A p \in Proc : InSemop(call[p])
  BY DEF Init, InSemop, Idle
<1> QED BY <1>1, <1>3, <1>4, <1>5 DEF TInv

\* What PoolInv says of one set
LEMMA SetFacts ==
  ASSUME PoolInv, NEW id \in SemId, sema[id].alloc
  PROVE  /\ id \in Live /\ sema[id].base \in Nat /\ sema[id].nsems \in 1 .. 5
         /\ sema[id].base + sema[id].nsems <= semtot /\ semtot \in 0 .. SemMns
         /\ SemMns \in Nat
         /\ \A n \in 0 .. sema[id].nsems - 1 : At(id, n) \in Pool /\ n \in Num
<1>1. id \in Live
  BY DEF Live
<1>2. /\ sema[id].base \in Nat /\ sema[id].nsems \in 1 .. 5
      /\ semtot \in 0 .. SemMns /\ SemMns \in Nat
  BY SizeAssumption DEF PoolInv, SlotType
<1>3. sema[id].base + sema[id].nsems <= semtot
  BY <1>1 DEF PoolInv, PoolPacked
<1> QED BY <1>1, <1>2, <1>3 DEF At, Pool, Num

\* The values of a set are 16 bits wide.
LEMMA ValuesType ==
  ASSUME PoolInv, NEW id \in SemId, sema[id].alloc, NEW S \in [Pool -> SemRec]
  PROVE  ValuesOf(S, id) \in [0 .. sema[id].nsems - 1 -> U16]
<1>1. \A n \in 0 .. sema[id].nsems - 1 : S[At(id, n)].val \in U16
  BY SetFacts DEF SemRec
<1> QED BY <1>1 DEF ValuesOf

\* The fields of a semaphore, and what writing one leaves
LEMMA SemFields ==
  ASSUME NEW r \in SemRec
  PROVE  /\ r.val \in U16 /\ r.ncnt \in U16 /\ r.zcnt \in U16
         /\ r.val \in Nat /\ r.ncnt \in Nat /\ r.zcnt \in Nat
<1>1. r.val \in U16 /\ r.ncnt \in U16 /\ r.zcnt \in U16
  BY DEF SemRec
<1>2. U16 \subseteq Nat
  BY DEF U16
<1> QED BY <1>1, <1>2

\* What a u_short holds
LEMMA Is16 == \A x \in Int : u16(x) \in U16
BY DEF u16, U16

\* Writing values keeps the type of the pool.
LEMMA WithValuesType ==
  ASSUME PoolInv, NEW id \in SemId, NEW S \in [Pool -> SemRec],
         NEW D \in SUBSET Nat, NEW v \in [D -> Int]
  PROVE  WithValues(S, id, v) \in [Pool -> SemRec]
<1> SUFFICES ASSUME NEW j \in Pool PROVE WithValues(S, id, v)[j] \in SemRec
  BY DEF WithValues
<1>1. CASE \E n \in DOMAIN v : At(id, n) = j
  <2>1. PICK n \in D : At(id, n) = j
    BY <1>1
  <2>2. CASE j - sema[id].base \in D
    BY <1>1, <2>2, Is16 DEF WithValues, SemRec
  <2> QED BY <2>1, <2>2 DEF At, PoolInv, SlotType
<1>2. CASE ~\E n \in DOMAIN v : At(id, n) = j
  BY <1>2 DEF WithValues
<1> QED BY <1>1, <1>2

\* The loop over a vector ends at its first operation that cannot be performed.
LEMMA Stops ==
  ASSUME NEW v, NEW sops, Len(sops) \in Nat, NEW k, k = StopsAt(v, sops)
  PROVE  /\ k \in 1 .. Len(sops) + 1
         /\ \A j \in 1 .. k-1 : ~OutOfRange(v, sops, j) /\ ~MustWait(v, sops, j)
         /\ k <= Len(sops) => OutOfRange(v, sops, k) \/ MustWait(v, sops, k)
<1> DEFINE n == Len(sops)
           Bad(j) == OutOfRange(v, sops, j) \/ MustWait(v, sops, j)
           T == {j \in 1 .. n+1 : j <= n => Bad(j)}
           P(j) == (\A i \in 1 .. j-1 : ~OutOfRange(v, sops, i) /\ ~MustWait(v, sops, i))
                   /\ (j <= n => OutOfRange(v, sops, j) \/ MustWait(v, sops, j))
<1>1. T \subseteq Nat /\ n+1 \in T
  OBVIOUS
<1>2. PICK j \in T : \A i \in T : j <= i
  <2> HIDE DEF T
  <2> QED BY <1>1, Least, Zenon
<1>3. j \in 1 .. n+1 /\ P(j)
  <2>1. \A i \in 1 .. j-1 : i \notin T
    BY <1>2
  <2> QED BY <1>2, <2>1
<1>4. k = CHOOSE i \in 1 .. n+1 : P(i)
  BY DEF StopsAt
<1> HIDE DEF P
<1>5. k \in 1 .. n+1 /\ P(k)
  BY <1>3, <1>4
<1> QED BY <1>5 DEF P

\* Vectors and what they enter for undo are sequences of adjustments.
LEMMA VectorFacts ==
  ASSUME NEW sops \in Vectors
  PROVE  /\ Len(sops) \in Nat /\ DOMAIN sops = 1 .. Len(sops) /\ Vector(sops, Len(sops))
         /\ \A k \in 1 .. Len(sops) : sops[k].nowait \in BOOLEAN /\ sops[k].undo \in BOOLEAN
         /\ Len(Adjustments(sops)) = Len(sops)
         /\ DOMAIN Adjustments(sops) = 1 .. Len(sops)
         /\ Vector(Adjustments(sops), Len(sops))
         /\ \A k \in 1 .. Len(sops) : Adjustments(sops)[k].num = sops[k].num
<1> DEFINE Op == [num : Num, op : Int, nowait : BOOLEAN, undo : BOOLEAN]
<1>1. sops \in Seq(Op)
  BY VectorAssumption
<1>2. /\ Len(sops) \in Nat /\ DOMAIN sops = 1 .. Len(sops)
      /\ \A k \in 1 .. Len(sops) : sops[k] \in Op
  <2> HIDE DEF Op
  <2> QED BY <1>1
<1>3. /\ Vector(sops, Len(sops))
      /\ \A k \in 1 .. Len(sops) : sops[k].nowait \in BOOLEAN /\ sops[k].undo \in BOOLEAN
  BY <1>2 DEF Vector
<1>4. DOMAIN Adjustments(sops) = 1 .. Len(sops) /\ Len(Adjustments(sops)) = Len(sops)
  <2>1. Adjustments(sops) = [k \in 1 .. Len(sops) |->
           [num |-> sops[k].num, op |-> IF sops[k].undo THEN -sops[k].op ELSE 0]]
    BY <1>2 DEF Adjustments
  <2> QED BY <1>2, <2>1
<1>5. \A k \in 1 .. Len(sops) : Adjustments(sops)[k] =
          [num |-> sops[k].num, op |-> IF sops[k].undo THEN -sops[k].op ELSE 0]
  BY <1>2 DEF Adjustments
<1>6. Vector(Adjustments(sops), Len(sops))
  <2> SUFFICES ASSUME NEW k \in 1 .. Len(sops)
               PROVE  Adjustments(sops)[k].num \in Num /\ Adjustments(sops)[k].op \in Int
    BY DEF Vector
  <2>1. sops[k].num \in Num /\ sops[k].op \in Int
    BY <1>3 DEF Vector
  <2> DEFINE num == sops[k].num
             op == IF sops[k].undo THEN -sops[k].op ELSE 0
  <2>2. op \in Int
    BY <2>1
  <2>3. Adjustments(sops)[k] = [num |-> num, op |-> op]
    BY <1>5
  <2>4. num \in Num
    BY <2>1
  <2> HIDE DEF num, op
  <2> QED BY <2>2, <2>3, <2>4
<1> QED BY <1>2, <1>3, <1>4, <1>5, <1>6

\* What a vector does not name it leaves as it is.
LEMMA AfterKeeps ==
  ASSUME NEW D, NEW v \in [D -> Int], NEW s, Len(s) \in Nat, Vector(s, Len(s)),
         NEW d \in D, \A k \in 1 .. Len(s) : s[k].num # d
  PROVE  \A k \in 0 .. Len(s) : After(v, s)[k][d] = v[d]
<1> DEFINE n == Len(s)
           a == After(v, s)
           T == {k \in 0 .. n : a[k][d] = v[d]}
<1>1. /\ a \in [0 .. n -> [D -> Int]] /\ a[0] = v
      /\ \A k \in 1 .. n : a[k] = [a[k-1] EXCEPT ![s[k].num] = @ + s[k].op]
  BY AfterSteps
<1> HIDE DEF a
<1>2. 0 \in T
  BY <1>1
<1>3. ASSUME NEW k \in 1 .. n, k-1 \in T PROVE k \in T
  <2>1. a[k-1] \in [D -> Int] /\ s[k].num # d /\ a[k-1][d] = v[d]
    BY <1>1, <1>3
  <2>2. a[k] = [a[k-1] EXCEPT ![s[k].num] = @ + s[k].op]
    BY <1>1
  <2>3. a[k][d] = a[k-1][d]
    BY <2>1, <2>2
  <2> QED BY <2>1, <2>3
<1>4. 0 .. n \subseteq T
  <2> HIDE DEF T
  <2> QED BY <1>2, <1>3, UpTo
<1> QED BY <1>4 DEF a

\* UndoFits, entry by entry
Fit(u, q, i, m) == u[q][i][m] # 0 => sema[i].alloc /\ m < sema[i].nsems

\* UndoFits, entry by entry
LEMMA FitEntries ==
  UndoFits <=> \A q \in Proc : \A i \in SemId : \A m \in Num : Fit(undo, q, i, m)
<1>1. ASSUME UndoFits, NEW q \in Proc, NEW i \in SemId, NEW m \in Num
      PROVE  Fit(undo, q, i, m)
  <2> SUFFICES ASSUME undo[q][i][m] # 0 PROVE sema[i].alloc /\ m < sema[i].nsems
    BY DEF Fit
  <2> DEFINE e == <<i, m>>
  <2>1. e \in Entries(q) /\ e[1] = i /\ e[2] = m
    BY DEF Entries
  <2>2. sema[e[1]].alloc /\ e[2] < sema[e[1]].nsems
    BY <1>1, <2>1 DEF UndoFits, EntriesMakeSense
  <2> QED BY <2>1, <2>2
<1>2. ASSUME \A q \in Proc : \A i \in SemId : \A m \in Num : Fit(undo, q, i, m)
      PROVE  UndoFits
  BY <1>2 DEF UndoFits, EntriesMakeSense, Entries, Fit
<1> QED BY <1>1, <1>2

\* The call of one process changes.
LEMMA OneCall ==
  ASSUME Types, NEW p \in Proc, NEW c \in CallType
  PROVE  [call EXCEPT ![p] = c] \in [Proc -> CallType]
BY DEF Types

\* A process in user mode
LEMMA IdleType == Idle \in CallType /\ InSemop(Idle)
BY SizeAssumption DEF Idle, CallType, SemId, InSemop

\* A wake-up keeps the types of the calls.
LEMMA WakeupType ==
  ASSUME NEW C \in [Proc -> CallType], NEW id, \A q \in Proc : InSemop(C[q])
  PROVE  /\ Wakeup(C, id) \in [Proc -> CallType]
         /\ \A q \in Proc : InSemop(Wakeup(C, id)[q])
<1> SUFFICES ASSUME NEW q \in Proc
             PROVE  Wakeup(C, id)[q] \in CallType /\ InSemop(Wakeup(C, id)[q])
  BY DEF Wakeup
<1>1. CASE Wakeup(C, id)[q] = C[q]
  BY <1>1
<1>2. CASE C[q].pc = "semwait" /\ Wakeup(C, id)[q] = [C[q] EXCEPT !.pc = "woken"]
  BY <1>2 DEF CallType, InSemop
<1> QED BY <1>1, <1>2 DEF Wakeup

\* semop performs or rolls back.
LEMMA TryTypes ==
  ASSUME TInv, NEW p \in Proc, NEW S \in [Pool -> SemRec], NEW c \in CallType,
         c.sops \in Vectors, sema[c.id].alloc, Try(p, S, c),
         UNCHANGED <<sema, semtot, holder, panicked>>
  PROVE  TInv'
<1> DEFINE v == ValuesOf(S, c.id)
           n == Len(c.sops)
           D == 0 .. sema[c.id].nsems - 1
           k == StopsAt(v, c.sops)
           Fine == sem' \in [Pool -> SemRec] /\ semu' \subseteq Proc
                   /\ call' \in [Proc -> CallType] /\ \A q \in Proc : InSemop(call'[q])
<1>1. c.id \in SemId /\ PoolInv /\ Types
  BY DEF TInv, CallType
<1>2. v \in [D -> U16] /\ v \in [D -> Int] /\ D \subseteq Nat /\ DOMAIN v = D
  <2>1. v \in [D -> U16]
    BY <1>1, ValuesType
  <2>2. U16 \subseteq Int
    BY DEF U16
  <2>3. D \subseteq Nat
    OBVIOUS
  <2> HIDE DEF D, v
  <2> QED BY <2>1, <2>2, <2>3
<1>3. n \in Nat /\ Vector(c.sops, n)
  BY VectorFacts
<1> HIDE DEF D
<1>4. k \in 1 .. n+1 /\ \A j \in 1 .. k-1 : ~OutOfRange(v, c.sops, j)
  BY <1>3, Stops
<1>5. \A j \in 0 .. n : After(v, c.sops)[j] \in [D -> Int]
  <2>1. After(v, c.sops) \in [0 .. n -> [D -> Int]]
    BY <1>2, <1>3, AfterSteps
  <2> HIDE DEF v, n
  <2> QED BY <2>1
<1>6. \A j \in 0 .. n : WithValues(S, c.id, After(v, c.sops)[j]) \in [Pool -> SemRec]
  <2> TAKE j \in 0 .. n
  <2> DEFINE w == After(v, c.sops)[j]
  <2>1. w \in [D -> Int]
    BY <1>5
  <2> HIDE DEF w, D
  <2>2. WithValues(S, c.id, w) \in [Pool -> SemRec]
    BY <1>1, <1>2, <2>1, WithValuesType
  <2> QED BY <2>2 DEF w
<1>7. Return(p) \in [Proc -> CallType] /\ \A q \in Proc : InSemop(Return(p)[q])
  BY <1>1, OneCall, IdleType DEF Return, TInv, Types
<1> HIDE DEF v, k, n
<1>8. ASSUME k <= n, TooBig(p, S, c, v, k) PROVE Fine /\ undo' = undo
  BY <1>1, <1>3, <1>4, <1>6, <1>7, <1>8 DEF TooBig, Types
<1>9. ASSUME k <= n, ~OutOfRange(v, c.sops, k), WouldWait(p, S, c, k)
      PROVE  Fine /\ undo' = undo
  <2> DEFINE op == c.sops[k]
             ptr == At(c.id, op.num)
             new == [c EXCEPT !.pc = "semwait", !.at = k, !.semptr = ptr]
             inc == IF op.op = 0 THEN [S EXCEPT ![ptr].zcnt = u16(@ + 1)]
                                 ELSE [S EXCEPT ![ptr].ncnt = u16(@ + 1)]
  <2>1. undo' = undo /\ semu' \subseteq Proc
    BY <1>1, <1>9 DEF WouldWait, Types
  <2>2. CASE sem' = S /\ call' = Return(p)
    BY <1>7, <2>1, <2>2
  <2>3. CASE sem' = inc /\ call' = [call EXCEPT ![p] = new]
    <3>1. ptr \in Pool /\ ptr \in Int
      <4>1. op.num \in 0 .. sema[c.id].nsems - 1
        BY <1>2, <1>9 DEF OutOfRange, D
      <4> QED BY <1>1, <4>1, SetFacts DEF Pool
    <3>2. S[ptr] \in SemRec
      BY <3>1
    <3>3. u16(S[ptr].zcnt + 1) \in U16 /\ u16(S[ptr].ncnt + 1) \in U16
      <4>1. S[ptr].zcnt + 1 \in Int /\ S[ptr].ncnt + 1 \in Int
        <5>1. S[ptr].zcnt \in Nat /\ S[ptr].ncnt \in Nat
          BY <3>2, SemFields
        <5> HIDE DEF ptr
        <5> QED BY <5>1
      <4> QED BY <4>1, Is16
    <3> HIDE DEF ptr
    <3>4. inc \in [Pool -> SemRec]
      BY <3>3 DEF SemRec
    <3>5. new \in CallType /\ new.pc = "semwait" /\ new.sops = c.sops /\ new.at = k
      <4>1. k \in Nat
        BY <1>3, <1>4
      <4> QED BY <3>1, <4>1 DEF CallType
    <3>6. InSemop(new)
      BY <1>3, <1>4, <1>9, <3>5 DEF InSemop, n
    <3> HIDE DEF new
    <3>7. call' \in [Proc -> CallType] /\ \A q \in Proc : InSemop(call'[q])
      BY <1>1, <2>3, <3>5, <3>6, OneCall DEF TInv, Types
    <3> QED BY <2>1, <2>3, <3>4, <3>7
  <2> QED BY <1>9, <2>1, <2>2, <2>3 DEF WouldWait
<1> DEFINE adj == Adjustments(c.sops)
           owed == [undo EXCEPT ![p] = Adjusted(@, c.id, adj)[Len(adj)]]
           Owed == undo' = undo \/ (k = n+1 /\ undo' = owed)
<1>10. ASSUME k = n+1, Performed(p, S, c, v) PROVE Fine /\ Owed
  <2>1. semu' \subseteq Proc
    BY <1>1, <1>10 DEF Performed, SemuAlloc, Types
  <2>2. Owed
    BY <1>10 DEF Performed, n
  <2>3. sem' \in [Pool -> SemRec]
    BY <1>3, <1>6, <1>10 DEF Performed, n
  <2>4. call' \in {Return(p), Wakeup(Return(p), c.id)}
    BY <1>10 DEF Performed
  <2>5. call' \in [Proc -> CallType] /\ \A q \in Proc : InSemop(call'[q])
    BY <1>7, <2>4, WakeupType
  <2> QED BY <2>1, <2>2, <2>3, <2>5
<1>11. Fine /\ Owed
  BY <1>3, <1>4, <1>8, <1>9, <1>10 DEF Try, v, k, n
<1>12. undo' \in [Proc -> [SemId -> [Num -> Int]]] /\ UndoFits'
  <2>1. CASE undo' = undo
    BY <2>1 DEF TInv, Types, UndoFits, EntriesMakeSense, Entries
  <2>2. CASE k = n+1 /\ undo' = owed
    <3> DEFINE e == undo[p][c.id]
               a == After(e, adj)[n]
    <3>1. undo[p] \in [SemId -> [Num -> Int]] /\ e \in [Num -> Int]
      BY <1>1 DEF Types
    <3>2. Len(adj) = n /\ Vector(adj, n) /\ \A j \in 1 .. n : adj[j].num = c.sops[j].num
      BY VectorFacts DEF n
    <3> HIDE DEF adj, e
    <3>3. a \in [Num -> Int]
      <4>1. After(e, adj) \in [0 .. n -> [Num -> Int]]
        BY <1>3, <3>1, <3>2, AfterSteps
      <4> QED BY <1>3, <4>1
    <3>4. undo' = [undo EXCEPT ![p] = [undo[p] EXCEPT ![c.id] = a]]
      <4>1. Adjusted(undo[p], c.id, adj)[n] = [undo[p] EXCEPT ![c.id] = a]
        BY <1>3, <3>2 DEF Adjusted, e
      <4> QED BY <2>2, <3>2, <4>1
    <3>5. ASSUME NEW m \in Num, a[m] # 0, e[m] = 0
          PROVE  m < sema[c.id].nsems
      <4>1. PICK j \in 1 .. n : adj[j].num = m
        <5> SUFFICES ASSUME \A j \in 1 .. n : adj[j].num # m PROVE FALSE
          OBVIOUS
        <5>1. \A j \in 0 .. n : After(e, adj)[j][m] = e[m]
          <6>1. Len(adj) \in Nat /\ Vector(adj, Len(adj))
            BY <1>3, <3>2
          <6>2. \A j \in 1 .. Len(adj) : adj[j].num # m
            BY <3>2
          <6> QED BY <3>1, <3>2, <6>1, <6>2, AfterKeeps
        <5> QED BY <1>3, <3>5, <5>1
      <4>2. ~OutOfRange(v, c.sops, j)
        BY <1>3, <1>4, <2>2
      <4>3. m \in D
        BY <1>2, <3>2, <4>1, <4>2 DEF OutOfRange
      <4>4. sema[c.id].nsems \in 1 .. 5
        BY <1>1, SetFacts
      <4> QED BY <4>3, <4>4 DEF D
    <3> HIDE DEF a
    <3>6. undo' \in [Proc -> [SemId -> [Num -> Int]]]
      BY <1>1, <3>1, <3>3, <3>4 DEF Types
    <3>7. ASSUME NEW q \in Proc, NEW i \in SemId, NEW m \in Num, undo'[q][i][m] # 0
          PROVE  sema[i].alloc /\ m < sema[i].nsems
      <4>1. ASSUME undo[q][i][m] # 0 PROVE sema[i].alloc /\ m < sema[i].nsems
        BY <4>1, FitEntries DEF TInv, Fit
      <4>2. CASE q = p /\ i = c.id
        <5>1. undo'[q][i][m] = a[m]
          BY <1>1, <3>1, <3>4, <4>2 DEF Types
        <5> QED BY <3>5, <3>7, <4>1, <4>2, <5>1 DEF e
      <4>3. CASE ~(q = p /\ i = c.id)
        BY <1>1, <3>1, <3>4, <3>7, <4>1, <4>3 DEF Types
      <4> QED BY <4>2, <4>3
    <3>8. UndoFits'
      <4>1. (\A q \in Proc : \A i \in SemId : \A m \in Num : Fit(undo, q, i, m))'
        BY <3>7 DEF Fit
      <4> QED BY <4>1, FitEntries, PTL
    <3> QED BY <3>6, <3>8
  <2> QED BY <1>11, <2>1, <2>2
<1>13. PoolInv'
  BY <1>1 DEF PoolInv, SlotType, PoolPacked, Live
<1>14. Types'
  BY <1>1, <1>11, <1>12 DEF Types
<1>15. \A q \in Proc : InSemop(call[q])'
  BY <1>11 DEF InSemop
<1> QED BY <1>12, <1>13, <1>14, <1>15 DEF TInv

\* A step that leaves the sets alone preserves the invariant if it does so to the rest.
LEMMA SameSets ==
  ASSUME TInv, UNCHANGED <<sema, semtot>>,
         sem' \in [Pool -> SemRec], semu' \subseteq Proc, holder' \in Proc \cup {NoProc},
         panicked' \in BOOLEAN, undo' \in [Proc -> [SemId -> [Num -> Int]]],
         \A q \in Proc : \A i \in SemId : \A m \in Num :
            undo'[q][i][m] \in {0, undo[q][i][m]},
         call' \in [Proc -> CallType], \A q \in Proc : InSemop(call'[q])
  PROVE  TInv'
<1>1. PoolInv'
  BY DEF TInv, PoolInv, SlotType, PoolPacked, Live
<1>2. Types'
  BY DEF TInv, Types
<1>3. UndoFits'
  <2>1. (\A q \in Proc : \A i \in SemId : \A m \in Num : Fit(undo, q, i, m))'
    BY FitEntries DEF TInv, Fit
  <2> QED BY <2>1, FitEntries, PTL
<1>4. \A q \in Proc : InSemop(call[q])'
  BY DEF InSemop
<1> QED BY <1>1, <1>2, <1>3, <1>4 DEF TInv

\* The pool when one value is written, wherever that is
LEMMA OneValue ==
  ASSUME NEW S \in [Pool -> SemRec], NEW j, NEW v \in U16
  PROVE  [S EXCEPT ![j].val = v] \in [Pool -> SemRec]
<1>1. CASE j \in Pool
  <2>1. [S[j] EXCEPT !.val = v] \in SemRec
    BY <1>1 DEF SemRec
  <2> QED BY <2>1
<1>2. CASE j \notin Pool
  BY <1>2
<1> QED BY <1>1, <1>2

\* An undo structure, or its entries for one set, changed
LEMMA EntriesType ==
  ASSUME Types, NEW q \in Proc, NEW id \in SemId, NEW z \in [Num -> Int]
  PROVE  /\ [undo[q] EXCEPT ![id] = z] \in [SemId -> [Num -> Int]]
         /\ \A i \in SemId : [undo[q] EXCEPT ![id] = z][i] = IF i = id THEN z
                                                                ELSE undo[q][i]
         /\ undo[q] \in [SemId -> [Num -> Int]]
BY DEF Types

\* After IPC_RMID and SETALL nothing is owed to the set.
LEMMA ClearedType ==
  ASSUME Types, NEW id \in SemId
  PROVE  /\ AllUndoCleared(id) \in [Proc -> [SemId -> [Num -> Int]]]
         /\ \A q \in Proc : \A i \in SemId : \A m \in Num :
              AllUndoCleared(id)[q][i][m] = IF i = id THEN 0 ELSE undo[q][i][m]
<1> DEFINE zero == [n \in Num |-> 0]
<1>1. zero \in [Num -> Int] /\ \A m \in Num : zero[m] = 0
  OBVIOUS
<1>2. /\ \A q \in Proc : AllUndoCleared(id)[q] = [undo[q] EXCEPT ![id] = zero]
      /\ AllUndoCleared(id) = [q \in Proc |-> [undo[q] EXCEPT ![id] = zero]]
  BY DEF AllUndoCleared
<1> HIDE DEF zero
<1>3. \A q \in Proc : /\ [undo[q] EXCEPT ![id] = zero] \in [SemId -> [Num -> Int]]
                      /\ \A i \in SemId : \A m \in Num :
                           [undo[q] EXCEPT ![id] = zero][i][m] =
                             IF i = id THEN 0 ELSE undo[q][i][m]
  <2> SUFFICES ASSUME NEW q \in Proc
               PROVE  /\ [undo[q] EXCEPT ![id] = zero] \in [SemId -> [Num -> Int]]
                      /\ \A i \in SemId : \A m \in Num :
                           [undo[q] EXCEPT ![id] = zero][i][m] =
                             IF i = id THEN 0 ELSE undo[q][i][m]
    OBVIOUS
  <2>1. /\ [undo[q] EXCEPT ![id] = zero] \in [SemId -> [Num -> Int]]
        /\ \A i \in SemId : [undo[q] EXCEPT ![id] = zero][i] =
                              IF i = id THEN zero ELSE undo[q][i]
    BY <1>1, EntriesType
  <2> QED BY <1>1, <2>1
<1> QED BY <1>2, <1>3

\* SETVAL clears one entry or none of a structure.
LEMMA OneClearedType ==
  ASSUME Types, NEW id \in SemId, NEW n, NEW u \in UndoCleared(id, n)
  PROVE  /\ u \in [Proc -> [SemId -> [Num -> Int]]]
         /\ \A q \in Proc : \A i \in SemId : \A m \in Num :
               u[q][i][m] \in {0, undo[q][i][m]}
<1> DEFINE Cleared(q) == [undo[q] EXCEPT ![id][n] = 0]
<1>1. DOMAIN u = Proc /\ \A q \in Proc : u[q] = Cleared(q) \/ u[q] = undo[q]
  BY DEF UndoCleared
<1>2. \A q \in Proc : undo[q] \in [SemId -> [Num -> Int]]
  BY DEF Types
<1>3. ASSUME NEW q \in Proc
      PROVE  /\ Cleared(q) \in [SemId -> [Num -> Int]]
             /\ \A i \in SemId : \A m \in Num : Cleared(q)[i][m] \in {0, undo[q][i][m]}
  <2> DEFINE z == [undo[q][id] EXCEPT ![n] = 0]
  <2>1. z \in [Num -> Int] /\ \A m \in Num : z[m] \in {0, undo[q][id][m]}
    <3>1. undo[q][id] \in [Num -> Int]
      BY <1>2
    <3> DEFINE e == undo[q][id]
    <3> HIDE DEF e
    <3>2. e \in [Num -> Int]
      BY <3>1 DEF e
    <3>3. \A m \in Num : [e EXCEPT ![n] = 0][m] = IF m = n THEN 0 ELSE e[m]
      BY <3>2
    <3>4. [e EXCEPT ![n] = 0] = [m \in Num |-> IF m = n THEN 0 ELSE e[m]]
      BY <3>2
    <3>5. \A m \in Num : (IF m = n THEN 0 ELSE e[m]) \in Int
      BY <3>2
    <3> QED BY <3>3, <3>4, <3>5 DEF e
  <2>2. Cleared(q) = [undo[q] EXCEPT ![id] = z]
    OBVIOUS
  <2> HIDE DEF z, Cleared
  <2> QED BY <2>1, <2>2, EntriesType
<1>4. u = [q \in Proc |-> u[q]]
  BY DEF UndoCleared
<1> HIDE DEF Cleared
<1>5. \A q \in Proc : u[q] \in [SemId -> [Num -> Int]]
  BY <1>1, <1>2, <1>3
<1>6. u \in [Proc -> [SemId -> [Num -> Int]]]
  <2> DEFINE E == [SemId -> [Num -> Int]]
  <2> HIDE DEF E
  <2>1. \A q \in Proc : u[q] \in E
    BY <1>5 DEF E
  <2>2. u \in [Proc -> E]
    BY <1>4, <2>1
  <2> QED BY <2>2 DEF E
<1>7. ASSUME NEW q \in Proc, NEW i \in SemId, NEW m \in Num
      PROVE  u[q][i][m] \in {0, undo[q][i][m]}
  <2>1. CASE u[q] = undo[q]
    BY <2>1
  <2>2. CASE u[q] = Cleared(q)
    BY <1>3, <2>2
  <2> QED BY <1>1, <2>1, <2>2
<1> QED BY <1>6, <1>7

\* The end of SETVAL
LEMMA SetValTypes ==
  ASSUME TInv, NEW p \in Proc, NEW id \in SemId, NEW n, NEW v \in Values,
         SetVal(p, id, n, v),
         UNCHANGED <<sema, semtot, semu, holder, panicked>>
  PROVE  TInv'
<1>1. Types
  BY DEF TInv
<1>2. sem' \in [Pool -> SemRec]
  BY <1>1, OneValue, ArgumentAssumption DEF SetVal, Types
<1>3. Return(p) \in [Proc -> CallType] /\ \A q \in Proc : InSemop(Return(p)[q])
  BY <1>1, OneCall, IdleType DEF Return, TInv, Types
<1>4. call' \in [Proc -> CallType] /\ \A q \in Proc : InSemop(call'[q])
  BY <1>3, WakeupType DEF SetVal
<1>5. undo' \in UndoCleared(id, n)
  BY DEF SetVal
<1> QED BY <1>1, <1>2, <1>4, <1>5, OneClearedType, SameSets DEF Types

\* semget
LEMMA SemgetTypes ==
  ASSUME TInv, NEW p \in Proc, NEW n \in SetSizes, Semget(p, n)
  PROVE  TInv'
<1>1. PoolInv /\ Types
  BY DEF TInv
<1>2. PoolInv'
  BY <1>1, PoolSemget
<1>3. PICK new \in SemId :
        /\ ~sema[new].alloc
        /\ sema' = [sema EXCEPT ![new] = [alloc |-> TRUE, seq |-> @.seq + 1,
                                          base |-> semtot, nsems |-> n]]
        /\ sem' = [j \in Pool |-> IF j \in semtot .. semtot + n - 1
                                  THEN [val |-> 0, ncnt |-> 0, zcnt |-> 0]
                                  ELSE sem[j]]
        /\ UNCHANGED <<undo, semu, holder, call, panicked>>
  BY DEF Semget
<1>4. /\ \A i \in SemId \ {new} : sema'[i] = sema[i]
      /\ sema'[new].base = semtot /\ sema'[new].alloc
  BY <1>1, <1>3 DEF PoolInv, SlotType
<1>5. Types'
  <2>1. [val |-> 0, ncnt |-> 0, zcnt |-> 0] \in SemRec
    BY DEF SemRec, U16
  <2>2. sem' \in [Pool -> SemRec]
    BY <1>1, <1>3, <2>1 DEF Types
  <2>3. \A i \in SemId : sema'[i].base <= SemMns
    BY <1>1, <1>4, SizeAssumption DEF Types, PoolInv, SlotType
  <2> QED BY <1>1, <1>3, <2>2, <2>3 DEF Types
<1>6. UndoFits'
  <2>1. (\A q \in Proc : \A i \in SemId : \A m \in Num : Fit(undo, q, i, m))'
    BY <1>3, <1>4, FitEntries DEF TInv, Fit
  <2> QED BY <2>1, FitEntries, PTL
<1>7. ASSUME NEW q \in Proc PROVE InSemop(call[q])'
  <2>1. InSemop(call[q]) /\ call[q].id \in SemId
    BY <1>1 DEF TInv, Types, CallType
  <2> QED BY <1>3, <1>4, <2>1 DEF InSemop
<1> QED BY <1>2, <1>5, <1>6, <1>7 DEF TInv

\* IPC_RMID
LEMMA RmidTypes ==
  ASSUME TInv, Settled, NEW p \in Proc, NEW old \in SemId, Rmid(p, old)
  PROVE  TInv'
<1> DEFINE size == sema[old].nsems
<1>1. PoolInv /\ Types
  BY DEF TInv
<1>2. PoolInv'
  BY <1>1, PoolRmid
<1>3. /\ sema[old].alloc
      /\ semtot' = semtot - size
      /\ sem' = [j \in Pool |-> IF j \in sema[old].base .. semtot' - 1
                                THEN sem[j + size] ELSE sem[j]]
      /\ sema' = [Moved(old) EXCEPT ![old].alloc = FALSE]
      /\ undo' = AllUndoCleared(old)
      /\ call' = Wakeup(call, old)
      /\ UNCHANGED <<semu, holder, panicked>>
  BY DEF Rmid
<1>4. /\ sema[old].base \in Nat /\ size \in 1 .. 5 /\ semtot \in 0 .. SemMns
      /\ SemMns \in Nat
  BY <1>1, <1>3, SetFacts
<1>5. \A i \in SemId : /\ sema'[i].base \in {sema[i].base, sema[i].base - size}
                       /\ sema'[i].nsems = sema[i].nsems
                       /\ i # old => sema'[i].alloc = sema[i].alloc
  <2>1. \A i \in SemId : sema[i] \in [alloc : BOOLEAN, seq : 0 .. MaxSeq,
                                      base : Nat, nsems : 0 .. 5]
    BY <1>1 DEF PoolInv, SlotType
  <2>2. \A i \in SemId : /\ Moved(old)[i].base \in {sema[i].base, sema[i].base - size}
                         /\ Moved(old)[i].nsems = sema[i].nsems
                         /\ Moved(old)[i].alloc = sema[i].alloc
    BY <2>1 DEF Moved
  <2>6. Moved(old)[old] = sema[old]
    BY <2>1 DEF Moved
  <2>3. sema'[old] = [Moved(old)[old] EXCEPT !.alloc = FALSE]
        /\ \A i \in SemId \ {old} : sema'[i] = Moved(old)[i]
    BY <1>3 DEF Moved
  <2> HIDE DEF size
  <2> TAKE i \in SemId
  <2>4. CASE i = old
    <3>1. sema'[i] = [sema[i] EXCEPT !.alloc = FALSE]
      BY <2>3, <2>4, <2>6
    <3> QED BY <2>1, <2>4, <3>1
  <2>5. CASE i # old
    BY <2>2, <2>3, <2>5
  <2> QED BY <2>4, <2>5
<1>6. Types'
  <2>1. sem' \in [Pool -> SemRec]
    <3>1. ASSUME NEW j \in Pool, j \in sema[old].base .. semtot' - 1
          PROVE  j + size \in Pool
      <4> DEFINE base == sema[old].base
                 tot == semtot'
      <4>1. base \in Nat /\ tot = semtot - size /\ j \in base .. tot - 1
        BY <1>3, <1>4, <3>1
      <4> HIDE DEF base, tot, size
      <4> QED BY <1>4, <4>1 DEF Pool
    <3> HIDE DEF size
    <3> QED BY <1>1, <1>3, <3>1 DEF Types
  <2>2. \A i \in SemId : sema'[i].base <= SemMns
    <3> SUFFICES ASSUME NEW i \in SemId PROVE sema'[i].base <= SemMns
      OBVIOUS
    <3> DEFINE base == sema[i].base
               to == sema'[i].base
    <3>1. base \in Nat /\ base <= SemMns /\ to \in {base, base - size}
      BY <1>1, <1>5 DEF Types, PoolInv, SlotType
    <3> HIDE DEF base, to, size
    <3>2. to <= SemMns
      BY <1>4, <3>1
    <3> QED BY <3>2 DEF to
  <2>3. call' \in [Proc -> CallType]
    BY <1>1, <1>3, WakeupType DEF Types, TInv
  <2>4. undo' \in [Proc -> [SemId -> [Num -> Int]]]
    BY <1>1, <1>3, ClearedType
  <2> QED BY <1>1, <1>3, <2>1, <2>2, <2>3, <2>4 DEF Types
<1>7. UndoFits'
  <2>1. ASSUME NEW q \in Proc, NEW i \in SemId, NEW m \in Num, undo'[q][i][m] # 0
        PROVE  sema'[i].alloc /\ m < sema'[i].nsems
    <3>1. i # old /\ undo[q][i][m] # 0
      BY <1>1, <1>3, <2>1, ClearedType
    <3>2. sema[i].alloc /\ m < sema[i].nsems
      BY <3>1, FitEntries DEF TInv, Fit
    <3> QED BY <1>5, <3>1, <3>2
  <2>2. (\A q \in Proc : \A i \in SemId : \A m \in Num : Fit(undo, q, i, m))'
    BY <2>1 DEF Fit
  <2> QED BY <2>2, FitEntries, PTL
<1>8. ASSUME NEW q \in Proc PROVE InSemop(call[q])'
  <2>1. InSemop(call'[q])
    BY <1>1, <1>3, WakeupType DEF Types, TInv
  <2>2. call'[q].pc # "copyin"
    BY DEF Rmid, Settled, Wakeup, TInv, InSemop
  <2> QED BY <1>3, <2>1, <2>2 DEF InSemop
<1> QED BY <1>2, <1>6, <1>7, <1>8 DEF TInv

\* The pool when one count is changed, wherever that is
LEMMA UncountedType ==
  ASSUME Types, NEW p \in Proc
  PROVE  Uncounted(p) \in [Pool -> SemRec]
<1> DEFINE j == call[p].semptr
<1> HIDE DEF j
<1>1. sem \in [Pool -> SemRec]
  BY DEF Types
<1>2. Uncounted(p) = [sem EXCEPT ![j].zcnt = u16(@ - 1)] \/
      Uncounted(p) = [sem EXCEPT ![j].ncnt = u16(@ - 1)]
  BY DEF Uncounted, j
<1>3. CASE j \notin Pool
  BY <1>1, <1>2, <1>3
<1>4. CASE j \in Pool
  <2>1. sem[j] \in SemRec
    BY <1>1, <1>4
  <2>2. sem[j].zcnt - 1 \in Int /\ sem[j].ncnt - 1 \in Int
    <3>1. sem[j].zcnt \in Nat /\ sem[j].ncnt \in Nat
      BY <2>1, SemFields
    <3> QED BY <3>1
  <2>3. u16(sem[j].zcnt - 1) \in U16 /\ u16(sem[j].ncnt - 1) \in U16
    BY <2>2, Is16
  <2>4. /\ [sem[j] EXCEPT !.zcnt = u16(@ - 1)] \in SemRec
        /\ [sem[j] EXCEPT !.ncnt = u16(@ - 1)] \in SemRec
    BY <2>1, <2>3 DEF SemRec
  <2> QED BY <1>1, <1>2, <2>4
<1> QED BY <1>3, <1>4

\* semexit gives back what is owed.
LEMMA UndoneType ==
  ASSUME Types, NEW p \in Proc, ApplyUndo(p)
  PROVE  /\ sem' \in [Pool -> SemRec] /\ semu' \subseteq Proc
         /\ undo' \in [Proc -> [SemId -> [Num -> Int]]]
         /\ \A q \in Proc : \A i \in SemId : \A m \in Num :
               undo'[q][i][m] \in {0, undo[q][i][m]}
<1> DEFINE hit(j) == {e \in Entries(p) : At(e[1], e[2]) = j}
           new(j) == [sem[j] EXCEPT !.val =
                        UndoneVal(@, undo[p][(CHOOSE e \in hit(j) : TRUE)[1]]
                                            [(CHOOSE e \in hit(j) : TRUE)[2]])]
<1>1. ASSUME NEW j \in Pool, hit(j) # {} PROVE new(j) \in SemRec
  <2> DEFINE e == CHOOSE e \in hit(j) : TRUE
             adj == undo[p][e[1]][e[2]]
             val == UndoneVal(sem[j].val, adj)
  <2>1. e \in SemId \X Num
    <3>1. e \in hit(j)
      BY <1>1
    <3> HIDE DEF e
    <3> QED BY <3>1 DEF Entries
  <2> HIDE DEF e
  <2>2. adj \in Int
    BY <2>1 DEF Types
  <2>3. sem[j] \in SemRec /\ sem[j].val \in Nat
    BY SemFields DEF Types
  <2> HIDE DEF adj
  <2>4. val \in U16
    <3>1. 0 \in U16 /\ sem[j].val + adj \in Int
      BY <2>2, <2>3 DEF U16
    <3> QED BY <3>1, Is16 DEF UndoneVal
  <2>5. new(j) = [sem[j] EXCEPT !.val = val]
    BY DEF e, adj
  <2> HIDE DEF val, new
  <2> QED BY <2>3, <2>4, <2>5 DEF SemRec
<1>2. sem' = [j \in Pool |-> IF hit(j) = {} THEN sem[j] ELSE new(j)]
  BY DEF ApplyUndo
<1>3. sem' \in [Pool -> SemRec]
  <2> HIDE DEF hit, new
  <2> QED BY <1>1, <1>2 DEF Types
<1>4. NoEntries \in [SemId -> [Num -> Int]]
      /\ \A i \in SemId : \A m \in Num : NoEntries[i][m] = 0
  BY DEF NoEntries
<1>5. undo' = [undo EXCEPT ![p] = NoEntries] /\ semu' \subseteq semu
  BY DEF ApplyUndo
<1>6. /\ undo' \in [Proc -> [SemId -> [Num -> Int]]]
      /\ \A q \in Proc : undo'[q] = IF q = p THEN NoEntries ELSE undo[q]
  BY <1>4, <1>5 DEF Types
<1>7. ASSUME NEW q \in Proc, NEW i \in SemId, NEW m \in Num
      PROVE  undo'[q][i][m] \in {0, undo[q][i][m]}
  BY <1>4, <1>6, <1>7
<1> QED BY <1>3, <1>5, <1>6, <1>7 DEF Types

\* The end of a process
LEMMA FinishTypes ==
  ASSUME TInv, NEW p \in Proc, Finish(p)
  PROVE  TInv'
<1>1. Types /\ \A q \in Proc : InSemop(call[q])
  BY DEF TInv
<1>2. CASE ApplyUndo(p) /\ holder' = (IF holder = p THEN NoProc ELSE holder)
           /\ UNCHANGED <<sema, semtot, panicked>>
  <2>1. /\ sem' \in [Pool -> SemRec] /\ semu' \subseteq Proc
        /\ undo' \in [Proc -> [SemId -> [Num -> Int]]]
        /\ \A q \in Proc : \A i \in SemId : \A m \in Num :
              undo'[q][i][m] \in {0, undo[q][i][m]}
    BY <1>1, <1>2, UndoneType
  <2>2. ASSUME NEW q \in Proc PROVE call'[q] \in CallType /\ InSemop(call'[q])
    <3>1. call[q] \in CallType /\ InSemop(call[q])
      BY <1>1 DEF Types
    <3>2. \/ call'[q] = Idle
          \/ call'[q] = call[q]
          \/ call[q].pc = "semwait" /\ call'[q] = [call[q] EXCEPT !.pc = "woken"]
      BY <1>2 DEF ApplyUndo
    <3>3. CASE call[q].pc = "semwait" /\ call'[q] = [call[q] EXCEPT !.pc = "woken"]
      BY <3>1, <3>3 DEF CallType, InSemop
    <3> QED BY <3>1, <3>2, <3>3, IdleType
  <2>3. call' = [q \in Proc |-> call'[q]]
    BY <1>2 DEF ApplyUndo
  <2>4. call' \in [Proc -> CallType]
    <3>1. \A q \in Proc : call'[q] \in CallType
      BY <2>2
    <3> QED BY <2>3, <3>1
  <2>5. holder' \in Proc \cup {NoProc} /\ panicked' \in BOOLEAN
    BY <1>1, <1>2 DEF Types
  <2> QED BY <1>2, <2>1, <2>2, <2>4, <2>5, SameSets
<1>3. CASE Panic
  BY <1>1, <1>3, SameSets DEF Panic, Types
<1> QED BY <1>2, <1>3 DEF Finish

\* A step that changes nothing but calls, and the lock
LEMMA CallTypes ==
  ASSUME TInv, NEW p \in Proc, NEW c \in CallType, InSemop(c),
         call' = [call EXCEPT ![p] = c], holder' \in Proc \cup {NoProc},
         UNCHANGED <<sema, sem, semtot, undo, semu, panicked>>
  PROVE  TInv'
<1>1. Types /\ \A q \in Proc : InSemop(call[q])
  BY DEF TInv
<1>2. call' \in [Proc -> CallType] /\ \A q \in Proc : InSemop(call'[q])
  BY <1>1, OneCall DEF Types
<1> QED BY <1>1, <1>2, SameSets DEF Types

\* SETALL: a value, or the end
LEMMA SetallTypes ==
  ASSUME TInv, NEW p \in Proc, SetallCopied(p)
  PROVE  TInv'
<1> DEFINE c == call[p]
<1>1. Types /\ PoolInv /\ (\A q \in Proc : InSemop(call[q])) /\ c \in CallType
      /\ c.id \in SemId
  BY DEF TInv, Types, CallType
<1>2. UNCHANGED <<sema, semtot, semu, holder, panicked>> /\ c.pc = "setall"
  BY DEF SetallCopied
<1>3. sem' \in [Pool -> SemRec]
  <2>1. sem \in [Pool -> SemRec]
    BY <1>1 DEF Types
  <2>2. CASE sem' = sem
    BY <2>1, <2>2
  <2>3. CASE \E x \in Values : sem' = [sem EXCEPT ![c.semptr].val = x]
    <3>1. PICK x \in Values : sem' = [sem EXCEPT ![c.semptr].val = x]
      BY <2>3
    <3>2. x \in U16
      BY ArgumentAssumption
    <3> HIDE DEF c
    <3>3. [sem EXCEPT ![c.semptr].val = x] \in [Pool -> SemRec]
      BY <2>1, <3>2, OneValue
    <3> QED BY <3>1, <3>3
  <2> QED BY <2>2, <2>3 DEF SetallCopied
<1>4. ASSUME SetallEnds(p) PROVE TInv'
  <2>1. Return(p) \in [Proc -> CallType] /\ \A q \in Proc : InSemop(Return(p)[q])
    BY <1>1, OneCall, IdleType DEF Return, Types
  <2>2. call' \in [Proc -> CallType] /\ \A q \in Proc : InSemop(call'[q])
    BY <1>4, <2>1, WakeupType DEF SetallEnds
  <2>3. /\ undo' \in [Proc -> [SemId -> [Num -> Int]]]
        /\ \A q \in Proc : \A i \in SemId : \A m \in Num :
              undo'[q][i][m] \in {0, undo[q][i][m]}
    BY <1>1, <1>4, ClearedType DEF SetallEnds
  <2> QED BY <1>1, <1>2, <1>3, <2>2, <2>3, SameSets DEF Types
<1>5. ASSUME call' = [call EXCEPT ![p].num = c.num + 1, ![p].semptr = At(c.id, c.num + 1)],
             UNCHANGED undo
      PROVE  TInv'
  <2> DEFINE new == [c EXCEPT !.num = c.num + 1, !.semptr = At(c.id, c.num + 1)]
  <2>1. call' = [call EXCEPT ![p] = new]
    BY <1>5
  <2>2. At(c.id, c.num + 1) \in Int /\ c.num + 1 \in Nat
    BY <1>1 DEF At, PoolInv, SlotType, CallType
  <2>3. new \in CallType /\ new.pc = "setall"
    BY <1>1, <1>2, <2>2 DEF CallType
  <2>4. InSemop(new)
    BY <2>3 DEF InSemop
  <2> HIDE DEF new
  <2>5. call' \in [Proc -> CallType] /\ \A q \in Proc : InSemop(call'[q])
    BY <1>1, <2>1, <2>3, <2>4, OneCall DEF Types
  <2> QED BY <1>1, <1>2, <1>3, <1>5, <2>5, SameSets DEF Types
<1> QED BY <1>4, <1>5 DEF SetallCopied

\* What semop keeps while copyin sleeps
Begun(id, seq, sops) == [Idle EXCEPT !.pc = "copyin", !.id = id, !.seq = seq, !.sops = sops]

\* The call of a semop that begins
LEMMA BeginType ==
  ASSUME NEW id \in SemId, NEW seq \in 0 .. MaxSeq, NEW sops \in Vectors
  PROVE  /\ Begun(id, seq, sops) \in CallType
         /\ Begun(id, seq, sops).id = id /\ Begun(id, seq, sops).seq = seq
         /\ Begun(id, seq, sops).sops = sops /\ Begun(id, seq, sops).pc = "copyin"
<1> DEFINE none == << >>
           idle == [pc |-> "user", id |-> 0, seq |-> 0, sops |-> none, at |-> 0,
                    semptr |-> 0, num |-> 0]
           c == Begun(id, seq, sops)
<1>1. c = [idle EXCEPT !.pc = "copyin", !.id = id, !.seq = seq, !.sops = sops]
  BY DEF Idle, Begun
<1> HIDE DEF none, c
<1>2. c = [pc |-> "copyin", id |-> id, seq |-> seq, sops |-> sops, at |-> 0,
           semptr |-> 0, num |-> 0]
  BY <1>1
<1>3. c \in CallType /\ c.id = id /\ c.seq = seq /\ c.sops = sops /\ c.pc = "copyin"
  BY <1>2 DEF CallType
<1> QED BY <1>3 DEF c

\* semop begins, copies in its vector, or was woken.
LEMMA SemopTypes ==
  ASSUME TInv, NEW p \in Proc,
         \/ \E id \in SemId, sops \in Vectors : Semop(p, id, sops)
         \/ SemopCopied(p) \/ SemopWoken(p)
  PROVE  TInv'
<1>1. Types /\ PoolInv /\ (\A q \in Proc : InSemop(call[q])) /\ call[p] \in CallType
  BY DEF TInv, Types
<1>2. ASSUME NEW id \in SemId, NEW sops \in Vectors, Semop(p, id, sops) PROVE TInv'
  <2> DEFINE c == [Idle EXCEPT !.pc = "copyin", !.id = id, !.seq = sema[id].seq,
                               !.sops = sops]
  <2>1. sema[id].alloc /\ UNCHANGED <<sema, semtot, holder, panicked>>
    BY <1>2 DEF Semop
  <2>2. c \in CallType /\ c.id = id /\ c.sops = sops /\ c.pc = "copyin"
    <3>1. sema[id].seq \in 0 .. MaxSeq
      BY <1>1 DEF PoolInv, SlotType
    <3>2. c = Begun(id, sema[id].seq, sops)
      BY DEF Begun
    <3> HIDE DEF c
    <3> QED BY <3>1, <3>2, BeginType
  <2>3. CASE Try(p, sem, c)
    <3> HIDE DEF c
    <3> QED BY <1>1, <2>1, <2>2, <2>3, TryTypes DEF Types
  <2>4. CASE /\ "fault" \in Calls
             /\ call' = [call EXCEPT ![p] = c]
             /\ UNCHANGED <<sem, undo, semu>>
    <3>1. InSemop(c)
      BY <2>1, <2>2, <2>4 DEF InSemop
    <3> HIDE DEF c
    <3> QED BY <1>1, <2>1, <2>2, <2>4, <3>1, CallTypes DEF Types
  <2> QED BY <1>2, <2>3, <2>4 DEF Semop
<1>3. ASSUME SemopCopied(p) PROVE TInv'
  <2>1. Try(p, sem, call[p]) /\ UNCHANGED <<sema, semtot, holder, panicked>>
    BY <1>3 DEF SemopCopied
  <2>2. call[p].sops \in Vectors /\ sema[call[p].id].alloc
    BY <1>1, <1>3 DEF SemopCopied, InSemop
  <2> QED BY <1>1, <2>1, <2>2, TryTypes DEF Types
<1>4. ASSUME SemopWoken(p) PROVE TInv'
  <2> DEFINE c == call[p]
  <2>1. UNCHANGED <<sema, semtot, holder, panicked>> /\ c.pc = "woken" /\ c.sops \in Vectors
    BY <1>1, <1>4 DEF SemopWoken, InSemop
  <2>2. CASE call' = Return(p) /\ UNCHANGED <<sem, undo, semu>>
    BY <1>1, <2>1, <2>2, IdleType, CallTypes DEF Return, Types
  <2>3. CASE sema[c.id].alloc /\ Try(p, Uncounted(p), c)
    <3>1. Uncounted(p) \in [Pool -> SemRec]
      BY <1>1, UncountedType
    <3> QED BY <1>1, <2>1, <2>3, <3>1, TryTypes
  <2> QED BY <1>4, <2>2, <2>3 DEF SemopWoken
<1> QED BY <1>2, <1>3, <1>4

\* What the other calls keep while they sleep
LEMMA PausedType ==
  ASSUME NEW pc \in {"setallarg", "exiting"}, NEW id \in SemId
  PROVE  /\ [Idle EXCEPT !.pc = pc] \in CallType
         /\ [Idle EXCEPT !.pc = pc].pc = pc
         /\ [Idle EXCEPT !.pc = pc, !.id = id] \in CallType
         /\ [Idle EXCEPT !.pc = pc, !.id = id].pc = pc
<1>1. Idle \in CallType
  BY IdleType
<1>2. ASSUME NEW c \in CallType
      PROVE  /\ [c EXCEPT !.pc = pc] \in CallType
             /\ [c EXCEPT !.pc = pc].pc = pc
             /\ [c EXCEPT !.pc = pc, !.id = id] \in CallType
             /\ [c EXCEPT !.pc = pc, !.id = id].pc = pc
  BY DEF CallType
<1> QED BY <1>1, <1>2

\* Each step preserves the invariant.
LEMMA TInvStep ==
  ASSUME TInv, Settled, NEW p \in Proc, Step(p)
  PROVE  TInv'
<1> USE DEF Step
<1>1. Types /\ (\A q \in Proc : InSemop(call[q])) /\ call[p] \in CallType
  BY DEF TInv, Types
<1>2. ASSUME NEW c \in CallType,
             c.pc \in {"user", "setval", "setallarg", "setall", "exiting"},
             call' = [call EXCEPT ![p] = c],
             UNCHANGED <<sema, sem, semtot, undo, semu, holder, panicked>>
      PROVE  TInv'
  BY <1>1, <1>2, CallTypes DEF InSemop, Types
<1>3. 0 \in Num /\ 0 \in SemId
  BY SizeAssumption DEF Num, SemId
<1>4. CASE \/ \E id \in SemId, sops \in Vectors : Semop(p, id, sops)
           \/ SemopCopied(p) \/ SemopWoken(p)
  BY <1>4, SemopTypes
<1>5. CASE SemopInterrupted(p)
  BY <1>2, <1>5, IdleType DEF SemopInterrupted, Return, Idle
<1>6. CASE \E n \in SetSizes : Semget(p, n)
  BY <1>6, SemgetTypes
<1>7. ASSUME NEW id \in SemId, Rmid(p, id) PROVE TInv'
  BY <1>7, RmidTypes
<1>8. ASSUME NEW id \in SemId, Setall(p, id) PROVE TInv'
  <2> DEFINE c == [Idle EXCEPT !.pc = "setallarg", !.id = id]
  <2>1. c \in CallType /\ c.pc = "setallarg"
    BY <1>3, PausedType, Zenon
  <2> HIDE DEF c
  <2>2. call' = [call EXCEPT ![p] = c]
        /\ UNCHANGED <<sema, sem, semtot, undo, semu, holder, panicked>>
    BY <1>8 DEF Setall, c
  <2> QED BY <1>2, <2>1, <2>2
<1>9. ASSUME NEW id \in SemId, NEW n \in Num, Setval(p, id, n) PROVE TInv'
  <2>1. CASE \E v \in Values : SetVal(p, id, n, v)
    BY <1>9, <2>1, SetValTypes DEF Setval
  <2>2. CASE UNCHANGED <<sem, undo>>
             /\ call' = [call EXCEPT ![p] =
                            [Idle EXCEPT !.pc = "setval", !.id = id, !.num = n]]
    <3> DEFINE c == [Idle EXCEPT !.pc = "setval", !.id = id, !.num = n]
    <3>1. c \in CallType /\ c.pc = "setval"
      <4>1. Idle \in CallType /\ n \in Nat
        BY IdleType DEF Num
      <4> QED BY <4>1 DEF CallType
    <3> HIDE DEF c
    <3>2. call' = [call EXCEPT ![p] = c]
      BY <2>2 DEF c
    <3> QED BY <1>2, <1>9, <2>2, <3>1, <3>2 DEF Setval
  <2> QED BY <1>9, <2>1, <2>2 DEF Setval
<1>10. CASE SetvalCopied(p)
  BY <1>1, <1>10, SetValTypes DEF SetvalCopied, CallType
<1>11. CASE SetallArg(p)
  <2> DEFINE c == [call[p] EXCEPT !.pc = "setall", !.semptr = At(call[p].id, 0)]
  <2>1. At(call[p].id, 0) \in Int
    BY <1>1 DEF TInv, PoolInv, SlotType, At, CallType
  <2>2. c \in CallType /\ c.pc = "setall"
    BY <1>1, <2>1 DEF CallType
  <2>3. call' = [call EXCEPT ![p] = c]
        /\ UNCHANGED <<sema, sem, semtot, undo, semu, holder, panicked>>
    BY <1>11 DEF SetallArg
  <2> HIDE DEF c
  <2> QED BY <1>2, <2>2, <2>3
<1>12. CASE SetallCopied(p)
  BY <1>12, SetallTypes
<1>13. CASE Freeze(p) \/ Thaw(p)
  BY <1>1, <1>13, SameSets DEF Freeze, Thaw, Types
<1>14. CASE Semexit(p)
  <2>1. CASE Finish(p)
    BY <2>1, FinishTypes
  <2>2. CASE call' = [call EXCEPT ![p] = [Idle EXCEPT !.pc = "exiting"]]
             /\ UNCHANGED <<sema, sem, semtot, undo, semu, holder, panicked>>
    <3> DEFINE c == [Idle EXCEPT !.pc = "exiting"]
    <3>1. c \in CallType /\ c.pc = "exiting"
      BY <1>3, PausedType, Zenon
    <3> HIDE DEF c
    <3>2. call' = [call EXCEPT ![p] = c]
      BY <2>2 DEF c
    <3> QED BY <1>2, <2>2, <3>1, <3>2
  <2> QED BY <1>14, <2>1, <2>2 DEF Semexit
<1>15. CASE SemexitThawed(p)
  <2>1. CASE Panic
    BY <1>1, <2>1, SameSets DEF Panic, Types
  <2> QED BY <1>15, <2>1, FinishTypes DEF SemexitThawed
<1> QED BY <1>4, <1>5, <1>6, <1>7, <1>8, <1>9, <1>10, <1>11, <1>12, <1>13, <1>14, <1>15

\* The invariant holds in every state.
LEMMA Typed == ASSUME Settled PROVE Spec => []TInv
<1>1. ASSUME TInv, [Next]_vars PROVE TInv'
  <2>1. ASSUME NEW p \in Proc, Step(p) PROVE TInv'
    BY <1>1, <2>1, TInvStep
  <2>2. CASE UNCHANGED vars
    BY <1>1, <2>2, SameSets DEF vars, TInv, Types
  <2> QED BY <1>1, <2>1, <2>2 DEF Next
<1> QED BY <1>1, TInvInit, PTL DEF Spec

\* The state has its type, however many sets, processes and vectors there are, as long
\* as IPC_RMID and a page that is not there do not come together (sysv_sem.c:330-337 and
\* copyin at :587).
THEOREM TypeCorrect == ASSUME Settled PROVE Spec => []TypeOK
BY Typed, TInvTypeOK, PTL

\* Each entry of an undo structure is for a semaphore that exists, so semexit does not
\* panic on it (sysv_sem.c:915-918), under the same condition.
THEOREM UndosFit == ASSUME Settled PROVE Spec => []UndoFits
<1>1. TInv => UndoFits
  BY DEF TInv
<1> QED BY <1>1, Typed, PTL

--------------------------------------------------------------------------------
\* The counts and the wake-ups, where no set is removed and no sleep interrupted
Undisturbed == {"rmid", "signal"} \cap Calls = {}

\* The greatest value of a u_short
Top == 65535

\* There are no more processes than a count can count: PID_MAX is 30000 (sys/proc.h:255).
FewProcesses == Cardinality(Proc) <= Top

\* q waits for semaphore n of the set in slot id, z telling whether for it to be zero,
\* if the calls are C.
Waits(C, q, id, n, z) ==
    /\ C[q].pc \in {"semwait", "woken"}
    /\ C[q].id = id /\ C[q].seq = sema[id].seq
    /\ C[q].sops[C[q].at].num = n
    /\ z = (C[q].sops[C[q].at].op = 0)

\* Those of Q that do
Waiters(C, Q, id, n, z) == {q \in Q : Waits(C, q, id, n, z)}

\* The count of the pool S for semaphore n
Count(S, id, n, z) == IF z THEN S[At(id, n)].zcnt ELSE S[At(id, n)].ncnt

\* The counts of S are those of the processes of Q that wait.
Counted(S, C, Q) ==
    \A id \in Live : \A n \in 0 .. sema[id].nsems - 1 : \A z \in BOOLEAN :
      Count(S, id, n, z) = Cardinality(Waiters(C, Q, id, n, z))

\* A process that sleeps in the middle of a call has a set, and a place in it.
InPlace(c) ==
    /\ c.pc \in {"semwait", "woken"} =>
         /\ c.sops[c.at].num < sema[c.id].nsems
         /\ c.semptr = At(c.id, c.sops[c.at].num)
    /\ c.pc \in {"copyin", "semwait", "woken"} => c.seq = sema[c.id].seq
    /\ c.pc \in {"setval", "setall"} => c.num < sema[c.id].nsems
    /\ c.pc = "setallarg" => c.num = 0
    /\ c.pc = "setall" => c.semptr = At(c.id, c.num)
    /\ c.pc \in {"copyin", "semwait", "woken", "setval", "setallarg", "setall"} =>
         sema[c.id].alloc

\* The inductive invariant of the counts
CInv ==
    /\ TInv
    /\ Counted(sem, call, Proc)
    /\ \A p \in Proc : InPlace(call[p])

\* A SETALL of the set in slot id is under way.
InSetall(id) == \E q \in Proc : call[q].pc = "setall" /\ call[q].id = id

\* The operation that p waits in cannot be performed.
Blocked(p) == MustWait(ValuesOf(sem, call[p].id), call[p].sops, call[p].at)

\* The inductive invariant of the wake-ups: who sleeps in semop has to, unless a SETALL that
\* will wake it is under way.
BInv ==
    /\ CInv
    /\ \A id \in Live : sema[id].nsems \in SetSizes
    /\ \A p \in Proc : call[p].pc = "semwait" => Blocked(p) \/ InSetall(call[p].id)

\* Two semaphores of sets in use are not in the same place.
LEMMA Apart ==
  ASSUME PoolInv, NEW i \in Live, NEW j \in Live, NEW n \in 0 .. sema[i].nsems - 1,
         NEW m \in 0 .. sema[j].nsems - 1, At(i, n) = At(j, m)
  PROVE  i = j /\ n = m
<1>1. /\ sema[i].base \in Nat /\ sema[j].base \in Nat
      /\ sema[i].nsems \in Nat /\ sema[j].nsems \in Nat
  BY DEF PoolInv, SlotType, Live
<1>2. i # j => \/ sema[i].base + sema[i].nsems <= sema[j].base
               \/ sema[j].base + sema[j].nsems <= sema[i].base
  BY DEF PoolInv, PoolPacked
<1>3. sema[i].base + n = sema[j].base + m
  BY DEF At
<1> DEFINE a == sema[i].base
           b == sema[j].base
           k == sema[i].nsems
           l == sema[j].nsems
<1> HIDE DEF a, b, k, l
<1>4. ~(a + k <= b) /\ ~(b + l <= a)
  BY <1>1, <1>3 DEF a, b, k, l
<1>5. i = j
  BY <1>2, <1>4 DEF a, b, k, l
<1>6. n = m
  BY <1>1, <1>3, <1>5
<1> QED BY <1>5, <1>6

\* The counts of S2 are those of S.
SameCounts(S, S2) == \A j \in Pool : S2[j].zcnt = S[j].zcnt /\ S2[j].ncnt = S[j].ncnt

\* What becomes of the call of another process: nothing, or a wake-up
Woken(C, D, q) ==
    \/ D[q] = C[q]
    \/ C[q].pc = "semwait" /\ D[q] = [C[q] EXCEPT !.pc = "woken"]

\* A process that was woken still counts.
LEMMA WokenWaits ==
  ASSUME NEW C, NEW D, NEW q, C[q] \in CallType, Woken(C, D, q)
  PROVE  /\ D[q] \in CallType
         /\ \A id : \A n : \A z : Waits(D, q, id, n, z) <=> Waits(C, q, id, n, z)
         /\ InPlace(C[q]) => InPlace(D[q])
<1>1. CASE D[q] = C[q]
  BY <1>1 DEF Waits
<1>2. CASE C[q].pc = "semwait" /\ D[q] = [C[q] EXCEPT !.pc = "woken"]
  <2> DEFINE c == C[q]
             d == D[q]
  <2>1. /\ d.pc = "woken" /\ d.id = c.id /\ d.seq = c.seq /\ d.sops = c.sops /\ d.at = c.at
        /\ d.num = c.num /\ d.semptr = c.semptr /\ d \in CallType
    BY <1>2 DEF CallType
  <2> HIDE DEF c, d
  <2>2. c.pc = "semwait"
    BY <1>2 DEF c
  <2>3. InPlace(c) => InPlace(d)
    BY <2>1, <2>2 DEF InPlace
  <2>4. \A id : \A n : \A z : Waits(D, q, id, n, z) <=> Waits(C, q, id, n, z)
    BY <2>1, <2>2 DEF Waits, c, d
  <2> QED BY <2>1, <2>3, <2>4 DEF c, d
<1> QED BY <1>1, <1>2 DEF Woken

\* p does not wait, and the others wait for what they did.
LEMMA Away ==
  ASSUME PoolInv, NEW p \in Proc, NEW S, NEW S2, NEW C \in [Proc -> CallType], NEW D,
         Counted(S, C, Proc \ {p}), SameCounts(S, S2), D[p].pc \notin {"semwait", "woken"},
         \A q \in Proc \ {p} : Woken(C, D, q)
  PROVE  Counted(S2, D, Proc)
<1> SUFFICES ASSUME NEW id \in Live, NEW n \in 0 .. sema[id].nsems - 1, NEW z \in BOOLEAN
             PROVE  Count(S2, id, n, z) = Cardinality(Waiters(D, Proc, id, n, z))
  BY DEF Counted
<1>1. Count(S2, id, n, z) = Count(S, id, n, z)
  BY SetFacts DEF SameCounts, Count, Live
<1>2. Waiters(D, Proc, id, n, z) = Waiters(C, Proc \ {p}, id, n, z)
  <2>1. \A q \in Proc \ {p} : Waits(D, q, id, n, z) <=> Waits(C, q, id, n, z)
    BY WokenWaits
  <2>2. ~Waits(D, p, id, n, z)
    BY DEF Waits
  <2> QED BY <2>1, <2>2 DEF Waiters
<1> QED BY <1>1, <1>2 DEF Counted

\* p was not among those that wait.
LEMMA Without ==
  ASSUME NEW p \in Proc, NEW S, NEW C, Counted(S, C, Proc),
         C[p].pc \notin {"semwait", "woken"}
  PROVE  Counted(S, C, Proc \ {p})
<1> SUFFICES ASSUME NEW id \in Live, NEW n \in 0 .. sema[id].nsems - 1, NEW z \in BOOLEAN
             PROVE  Count(S, id, n, z) = Cardinality(Waiters(C, Proc \ {p}, id, n, z))
  BY DEF Counted
<1>1. Waiters(C, Proc, id, n, z) = Waiters(C, Proc \ {p}, id, n, z)
  BY DEF Waiters, Waits
<1> QED BY <1>1 DEF Counted

\* Those that wait are few.
LEMMA WaitersFew ==
  ASSUME FewProcesses, NEW C, NEW Q, Q \subseteq Proc, NEW id, NEW n, NEW z
  PROVE  /\ IsFiniteSet(Waiters(C, Q, id, n, z))
         /\ Cardinality(Waiters(C, Q, id, n, z)) \in Nat
         /\ Cardinality(Waiters(C, Q, id, n, z)) <= Top
<1>1. IsFiniteSet(Proc) /\ Cardinality(Proc) <= Top
  BY ProcAssumption DEF FewProcesses
<1> DEFINE W == Waiters(C, Q, id, n, z)
<1>2. W \in SUBSET Proc
  BY DEF Waiters
<1> HIDE DEF W
<1>3. IsFiniteSet(W) /\ Cardinality(W) <= Cardinality(Proc)
  BY <1>1, <1>2, FS_Subset
<1>4. Cardinality(W) \in Nat /\ Cardinality(Proc) \in Nat
  BY <1>1, <1>3, FS_CardinalityType
<1>5. Cardinality(W) <= Top
  <2>1. Top \in Nat
    BY DEF Top
  <2> QED BY <1>1, <1>3, <1>4, <2>1
<1> QED BY <1>3, <1>4, <1>5, Zenon DEF W

\* No count wraps that stays within 16 bits.
LEMMA Same16 == \A x \in Nat : x <= Top => u16(x) = x
BY DEF u16, Top

\* p begins to wait, and is counted.
LEMMA Join ==
  ASSUME PoolInv, FewProcesses, NEW p \in Proc, NEW S, NEW S2, NEW C \in [Proc -> CallType],
         NEW D, Counted(S, C, Proc \ {p}), NEW i \in Live, NEW m \in 0 .. sema[i].nsems - 1,
         NEW y \in BOOLEAN, Waits(D, p, i, m, y), \A q \in Proc \ {p} : D[q] = C[q],
         Count(S2, i, m, y) = u16(Count(S, i, m, y) + 1),
         \A id \in Live : \A n \in 0 .. sema[id].nsems - 1 : \A z \in BOOLEAN :
            ~(id = i /\ n = m /\ z = y) => Count(S2, id, n, z) = Count(S, id, n, z)
  PROVE  Counted(S2, D, Proc)
<1> SUFFICES ASSUME NEW id \in Live, NEW n \in 0 .. sema[id].nsems - 1, NEW z \in BOOLEAN
             PROVE  Count(S2, id, n, z) = Cardinality(Waiters(D, Proc, id, n, z))
  BY DEF Counted
<1> DEFINE W == Waiters(C, Proc \ {p}, id, n, z)
           V == Waiters(D, Proc, id, n, z)
<1>1. \A q \in Proc \ {p} : Waits(D, q, id, n, z) <=> Waits(C, q, id, n, z)
  BY DEF Waits
<1>2. Count(S, id, n, z) = Cardinality(W)
  BY DEF Counted
<1>3. CASE id = i /\ n = m /\ z = y
  <2>1. V = W \cup {p} /\ p \notin W
    BY <1>1, <1>3 DEF Waiters
  <2>2. /\ IsFiniteSet(W) /\ Cardinality(W) \in Nat
        /\ Cardinality(V) \in Nat /\ Cardinality(V) <= Top
    <3>1. Proc \ {p} \subseteq Proc /\ Proc \subseteq Proc
      OBVIOUS
    <3> QED BY <3>1, WaitersFew, Zenon
  <2> HIDE DEF V, W
  <2>3. Cardinality(V) = Cardinality(W) + 1
    <3>1. Cardinality(W \cup {p}) = IF p \in W THEN Cardinality(W) ELSE Cardinality(W) + 1
      BY <2>2, FS_AddElement, Zenon
    <3> QED BY <2>1, <3>1, Zenon
  <2>4. Count(S2, id, n, z) = u16(Cardinality(W) + 1)
    BY <1>2, <1>3
  <2>5. Count(S2, id, n, z) = Cardinality(V)
    BY <2>2, <2>3, <2>4, Same16, Zenon
  <2> QED BY <2>5 DEF V
<1>4. CASE ~(id = i /\ n = m /\ z = y)
  <2>1. ~Waits(D, p, id, n, z)
    BY <1>4 DEF Waits
  <2>2. V = W
    BY <1>1, <2>1 DEF Waiters
  <2>3. Count(S2, id, n, z) = Count(S, id, n, z)
    BY <1>4
  <2> QED BY <1>2, <2>2, <2>3
<1> QED BY <1>3, <1>4

\* p goes on, and is no longer counted.
LEMMA Leave ==
  ASSUME CInv, FewProcesses, NEW p \in Proc, call[p].pc = "woken"
  PROVE  Counted(Uncounted(p), call, Proc \ {p})
<1> DEFINE c == call[p]
           i == c.id
           m == c.sops[c.at].num
           y == (c.sops[c.at].op = 0)
           S == Uncounted(p)
<1>1. PoolInv /\ Types /\ c \in CallType /\ InSemop(c) /\ InPlace(c) /\ i \in SemId
  BY DEF CInv, TInv, Types, CallType
<1>2. i \in Live /\ m \in 0 .. sema[i].nsems - 1 /\ c.semptr = At(i, m)
      /\ c.seq = sema[i].seq
  <2>1. c.sops \in Vectors /\ c.at \in 1 .. Len(c.sops)
    BY <1>1 DEF InSemop
  <2>2. m \in Num
    BY <2>1, VectorFacts DEF Vector
  <2>3. m < sema[i].nsems /\ sema[i].alloc /\ sema[i].nsems \in 0 .. 5
    BY <1>1 DEF InPlace, PoolInv, SlotType
  <2>4. c.semptr = At(i, m) /\ c.seq = sema[i].seq
    BY <1>1 DEF InPlace
  <2> HIDE DEF m, i
  <2> QED BY <1>1, <2>2, <2>3, <2>4 DEF Live, Num
<1>3. Waits(call, p, i, m, y)
  BY <1>2 DEF Waits
<1>4. At(i, m) \in Pool /\ sem \in [Pool -> SemRec]
  BY <1>1, <1>2, SetFacts DEF Live, Types
<1>5. S = IF y THEN [sem EXCEPT ![At(i, m)].zcnt = u16(@ - 1)]
               ELSE [sem EXCEPT ![At(i, m)].ncnt = u16(@ - 1)]
  BY <1>2 DEF Uncounted
<1> SUFFICES ASSUME NEW id \in Live, NEW n \in 0 .. sema[id].nsems - 1, NEW z \in BOOLEAN
             PROVE  Count(S, id, n, z) = Cardinality(Waiters(call, Proc \ {p}, id, n, z))
  BY DEF Counted
<1> DEFINE W == Waiters(call, Proc, id, n, z)
           V == Waiters(call, Proc \ {p}, id, n, z)
<1>6. Count(sem, id, n, z) = Cardinality(W)
  BY DEF CInv, Counted
<1>7. At(id, n) \in Pool
  BY <1>1, SetFacts DEF Live
<1> HIDE DEF S, i, m, y, c
<1>8. CASE id = i /\ n = m /\ z = y
  <2>1. V = W \ {p} /\ p \in W
    BY <1>3, <1>8 DEF Waiters
  <2>2. /\ IsFiniteSet(W) /\ Cardinality(W) \in Nat
        /\ Cardinality(V) \in Nat /\ Cardinality(V) <= Top
    <3>1. Proc \ {p} \subseteq Proc /\ Proc \subseteq Proc
      OBVIOUS
    <3> QED BY <3>1, WaitersFew, Zenon
  <2> HIDE DEF V, W
  <2>3. Cardinality(V) = Cardinality(W) - 1
    <3>1. Cardinality(W \ {p}) = IF p \in W THEN Cardinality(W) - 1 ELSE Cardinality(W)
      BY <2>2, FS_RemoveElement, Zenon
    <3> QED BY <2>1, <3>1, Zenon
  <2>4. Count(S, id, n, z) = u16(Count(sem, id, n, z) - 1)
    BY <1>4, <1>5, <1>8 DEF Count, SemRec
  <2>5. Count(S, id, n, z) = Cardinality(V)
    BY <1>6, <2>2, <2>3, <2>4, Same16, Zenon
  <2> QED BY <2>5 DEF V
<1>9. CASE ~(id = i /\ n = m /\ z = y)
  <2>1. ~Waits(call, p, id, n, z)
    BY <1>3, <1>9 DEF Waits
  <2>2. V = W
    BY <2>1 DEF Waiters
  <2>3. Count(S, id, n, z) = Count(sem, id, n, z)
    <3>1. At(id, n) = At(i, m) => id = i /\ n = m
      BY <1>1, <1>2, Apart
    <3> DEFINE j == At(id, n)
               k == At(i, m)
    <3>2. j = k => z # y
      BY <1>9, <3>1
    <3> HIDE DEF j, k
    <3>3. sem[j] \in SemRec /\ sem[k] \in SemRec
      BY <1>4, <1>7 DEF j, k
    <3>5. /\ j \in Pool /\ k \in Pool
          /\ S = IF y THEN [sem EXCEPT ![k].zcnt = u16(@ - 1)]
                      ELSE [sem EXCEPT ![k].ncnt = u16(@ - 1)]
      BY <1>4, <1>5, <1>7 DEF j, k
    <3>6. j # k => S[j] = sem[j]
      BY <1>4, <3>5
    <3>7. j = k => S[j] = IF y THEN [sem[j] EXCEPT !.zcnt = u16(@ - 1)]
                              ELSE [sem[j] EXCEPT !.ncnt = u16(@ - 1)]
      BY <1>4, <3>5
    <3>8. j = k /\ y => S[j].ncnt = sem[j].ncnt
      BY <3>3, <3>7 DEF SemRec
    <3>9. j = k /\ ~y => S[j].zcnt = sem[j].zcnt
      BY <3>3, <3>7 DEF SemRec
    <3>10. y \in BOOLEAN
      BY DEF y
    <3>4. (IF z THEN S[j].zcnt ELSE S[j].ncnt) = (IF z THEN sem[j].zcnt ELSE sem[j].ncnt)
      BY <3>2, <3>6, <3>8, <3>9, <3>10
    <3> QED BY <3>4 DEF Count, j
  <2> QED BY <1>6, <2>2, <2>3
<1> QED BY <1>8, <1>9

\* Values are not counts.
LEMMA ValuesNotCounts ==
  ASSUME NEW S \in [Pool -> SemRec]
  PROVE  /\ SameCounts(S, S)
         /\ \A id : \A v : SameCounts(S, WithValues(S, id, v))
         /\ \A j : \A x : SameCounts(S, [S EXCEPT ![j].val = x])
<1>1. ASSUME NEW j \in Pool, NEW x
      PROVE  [S[j] EXCEPT !.val = x].zcnt = S[j].zcnt
             /\ [S[j] EXCEPT !.val = x].ncnt = S[j].ncnt
  BY DEF SemRec
<1>2. ASSUME NEW id, NEW v PROVE SameCounts(S, WithValues(S, id, v))
  <2> SUFFICES ASSUME NEW j \in Pool
               PROVE  /\ WithValues(S, id, v)[j].zcnt = S[j].zcnt
                      /\ WithValues(S, id, v)[j].ncnt = S[j].ncnt
    BY DEF SameCounts
  <2>1. WithValues(S, id, v)[j] \in {S[j], [S[j] EXCEPT !.val = u16(v[j - sema[id].base])]}
    BY DEF WithValues
  <2> QED BY <1>1, <2>1
<1>3. ASSUME NEW i, NEW x PROVE SameCounts(S, [S EXCEPT ![i].val = x])
  <2> SUFFICES ASSUME NEW j \in Pool
               PROVE  /\ [S EXCEPT ![i].val = x][j].zcnt = S[j].zcnt
                      /\ [S EXCEPT ![i].val = x][j].ncnt = S[j].ncnt
    BY DEF SameCounts
  <2>1. [S EXCEPT ![i].val = x][j] \in {S[j], [S[j] EXCEPT !.val = x]}
    OBVIOUS
  <2> QED BY <1>1, <2>1
<1>4. SameCounts(S, S)
  BY DEF SameCounts
<1> QED BY <1>2, <1>3, <1>4

\* The counts and the places in the next state, where the sets are the same
LEMMA SameSlots ==
  ASSUME UNCHANGED sema, Counted(sem', call', Proc), \A q \in Proc : InPlace(call'[q])
  PROVE  Counted(sem, call, Proc)' /\ \A q \in Proc : InPlace(call[q])'
<1>1. Counted(sem, call, Proc)'
  BY DEF Counted, Count, Waiters, Waits, At, Live
<1>2. \A q \in Proc : InPlace(call[q])'
  BY DEF InPlace, At
<1> QED BY <1>1, <1>2

\* What Wakeup does to a call
LEMMA WakeupWoken ==
  ASSUME NEW C, NEW id, NEW q \in Proc
  PROVE  Woken(C, Wakeup(C, id), q)
BY DEF Woken, Wakeup

\* p returns, and others may be woken.
LEMMA ReturnWoken ==
  ASSUME Types, NEW p \in Proc, NEW D, \/ D = Return(p) \/ \E id : D = Wakeup(Return(p), id)
  PROVE  D[p] = Idle /\ \A q \in Proc \ {p} : Woken(call, D, q)
<1>1. Return(p)[p] = Idle /\ \A q \in Proc \ {p} : Return(p)[q] = call[q]
  BY DEF Types, Return
<1>2. CASE D = Return(p)
  BY <1>1, <1>2 DEF Woken
<1>3. ASSUME NEW id, D = Wakeup(Return(p), id)
      PROVE  D[p] = Idle /\ \A q \in Proc \ {p} : Woken(call, D, q)
  BY <1>1, <1>3 DEF Woken, Wakeup, Idle
<1> QED BY <1>2, <1>3

\* A step that changes no count, by p, which neither waited nor waits
LEMMA OtherCounts ==
  ASSUME CInv, NEW p \in Proc, UNCHANGED sema, SameCounts(sem, sem'),
         call[p].pc \notin {"semwait", "woken"}, call'[p].pc \notin {"semwait", "woken"},
         InPlace(call'[p]), \A q \in Proc \ {p} : Woken(call, call', q)
  PROVE  Counted(sem, call, Proc)' /\ \A q \in Proc : InPlace(call[q])'
<1>1. PoolInv /\ call \in [Proc -> CallType] /\ Counted(sem, call, Proc)
      /\ \A q \in Proc : InPlace(call[q])
  BY DEF CInv, TInv, Types
<1>2. Counted(sem, call, Proc \ {p})
  BY <1>1, Without
<1>3. Counted(sem', call', Proc)
  BY <1>1, <1>2, Away
<1>4. \A q \in Proc : InPlace(call'[q])
  BY <1>1, WokenWaits
<1> QED BY <1>3, <1>4, SameSlots

\* An attempt to perform a vector, by p, which is not counted in S
LEMMA TryCounts ==
  ASSUME CInv, FewProcesses, NEW p \in Proc, NEW S \in [Pool -> SemRec], NEW c \in CallType,
         c.sops \in Vectors, sema[c.id].alloc, c.seq = sema[c.id].seq,
         Counted(S, call, Proc \ {p}), Try(p, S, c), UNCHANGED sema
  PROVE  Counted(sem, call, Proc)' /\ \A q \in Proc : InPlace(call[q])'
<1> DEFINE v == ValuesOf(S, c.id)
           k == StopsAt(v, c.sops)
           n == Len(c.sops)
<1>1. /\ PoolInv /\ Types /\ call \in [Proc -> CallType] /\ c.id \in SemId /\ c.id \in Live
      /\ \A q \in Proc : InPlace(call[q])
  BY DEF CInv, TInv, Types, CallType, Live
<1>2. ASSUME SameCounts(S, sem'), call'[p] = Idle,
             \A q \in Proc \ {p} : Woken(call, call', q)
      PROVE  Counted(sem, call, Proc)' /\ \A q \in Proc : InPlace(call[q])'
  <2>1. call'[p].pc = "user"
    BY <1>2 DEF Idle
  <2>2. Counted(sem', call', Proc)
    BY <1>1, <1>2, <2>1, Away
  <2>3. \A q \in Proc : InPlace(call'[q])
    <3>1. InPlace(call'[p])
      BY <2>1 DEF InPlace
    <3> QED BY <1>1, <1>2, <3>1, WokenWaits
  <2> QED BY <2>2, <2>3, SameSlots
<1>3. CASE TooBig(p, S, c, v, k)
  <2>1. SameCounts(S, sem') /\ call' = Return(p)
    BY <1>3, ValuesNotCounts DEF TooBig
  <2> QED BY <1>1, <1>2, <2>1, ReturnWoken
<1>4. CASE Performed(p, S, c, v)
  <2>1. SameCounts(S, sem')
    BY <1>4, ValuesNotCounts DEF Performed
  <2>2. call' = Return(p) \/ call' = Wakeup(Return(p), c.id)
    BY <1>4 DEF Performed
  <2> QED BY <1>1, <1>2, <2>1, <2>2, ReturnWoken
<1>5. CASE k <= n /\ ~OutOfRange(v, c.sops, k) /\ WouldWait(p, S, c, k)
  <2> DEFINE op == c.sops[k]
             ptr == At(c.id, op.num)
             new == [c EXCEPT !.pc = "semwait", !.at = k, !.semptr = ptr]
  <2>1. CASE sem' = S /\ call' = Return(p)
    BY <1>1, <1>2, <2>1, ValuesNotCounts, ReturnWoken
  <2>2. CASE /\ sem' = IF op.op = 0 THEN [S EXCEPT ![ptr].zcnt = u16(@ + 1)]
                                    ELSE [S EXCEPT ![ptr].ncnt = u16(@ + 1)]
             /\ call' = [call EXCEPT ![p] = new]
    <3> DEFINE m == op.num
               z == (op.op = 0)
               i == c.id
    <3>1. m \in 0 .. sema[i].nsems - 1
      BY <1>5 DEF OutOfRange, ValuesOf
    <3>2. i \in Live /\ ptr \in Pool /\ ptr = At(i, m)
      BY <1>1, <3>1, SetFacts DEF Live
    <3>3. n \in Nat /\ k \in 1 .. n
      <4>1. n \in Nat
        BY VectorFacts
      <4>2. k \in 1 .. n+1
        BY <4>1, Stops
      <4> HIDE DEF k, n
      <4> QED BY <1>5, <4>1, <4>2
    <3> HIDE DEF k, n
    <3>4. /\ new.pc = "semwait" /\ new.sops = c.sops /\ new.at = k /\ new.semptr = ptr
          /\ new.id = i /\ new.seq = c.seq
      BY DEF CallType
    <3> HIDE DEF new
    <3>5. call'[p] = new /\ \A q \in Proc \ {p} : call'[q] = call[q]
      BY <1>1, <2>2
    <3>6. Waits(call', p, i, m, z)
      BY <3>4, <3>5 DEF Waits
    <3>7. InPlace(new)
      <4>1. m < sema[i].nsems
        BY <1>1, <3>1 DEF PoolInv, SlotType
      <4> QED BY <3>4, <4>1 DEF InPlace
    <3>8. Count(sem', i, m, z) = u16(Count(S, i, m, z) + 1)
      BY <2>2, <3>2 DEF Count, SemRec
    <3>9. ASSUME NEW id \in Live, NEW l \in 0 .. sema[id].nsems - 1, NEW y \in BOOLEAN,
                 ~(id = i /\ l = m /\ y = z)
          PROVE  Count(sem', id, l, y) = Count(S, id, l, y)
      <4>1. At(id, l) = At(i, m) => id = i /\ l = m
        BY <1>1, <3>1, <3>2, Apart
      <4>2. At(id, l) \in Pool
        BY <1>1, SetFacts DEF Live
      <4> DEFINE j == At(id, l)
                 s == sem'
      <4>3. s = IF z THEN [S EXCEPT ![ptr].zcnt = u16(@ + 1)]
                     ELSE [S EXCEPT ![ptr].ncnt = u16(@ + 1)]
        BY <2>2
      <4>4. j = ptr => y # z
        BY <3>2, <3>9, <4>1
      <4>5. j \in Pool /\ z \in BOOLEAN
        BY <4>2
      <4> HIDE DEF s, j, ptr, z
      <4>6. j # ptr => s[j] = S[j]
        BY <4>3, <4>5
      <4>7. j = ptr => s[j] = IF z THEN [S[j] EXCEPT !.zcnt = u16(@ + 1)]
                                   ELSE [S[j] EXCEPT !.ncnt = u16(@ + 1)]
        BY <4>3, <4>5
      <4>8. S[j] \in SemRec
        BY <4>5
      <4>9. j = ptr /\ z => s[j].ncnt = S[j].ncnt
        BY <4>7, <4>8 DEF SemRec
      <4>10. j = ptr /\ ~z => s[j].zcnt = S[j].zcnt
        BY <4>7, <4>8 DEF SemRec
      <4>11. (IF y THEN s[j].zcnt ELSE s[j].ncnt) = (IF y THEN S[j].zcnt ELSE S[j].ncnt)
        BY <4>4, <4>5, <4>6, <4>9, <4>10
      <4> QED BY <4>11 DEF Count, s, j
    <3>10. Counted(sem', call', Proc)
      <4>1. z \in BOOLEAN
        OBVIOUS
      <4> HIDE DEF z, m, i
      <4> QED BY <1>1, <3>1, <3>2, <3>5, <3>6, <3>8, <3>9, <4>1, Join
    <3>11. \A q \in Proc : InPlace(call'[q])
      BY <1>1, <3>5, <3>7
    <3> QED BY <3>10, <3>11, SameSlots
  <2> QED BY <1>5, <2>1, <2>2 DEF WouldWait
<1> QED BY <1>3, <1>4, <1>5 DEF Try

\* semop begins, copies in its vector, or was woken: the counts stay right.
LEMMA SemopCounts ==
  ASSUME CInv, Undisturbed, FewProcesses, NEW p \in Proc,
         \/ \E id \in SemId, sops \in Vectors : Semop(p, id, sops)
         \/ SemopCopied(p) \/ SemopWoken(p)
  PROVE  Counted(sem, call, Proc)' /\ \A q \in Proc : InPlace(call[q])'
<1>1. /\ Types /\ PoolInv /\ (\A q \in Proc : InSemop(call[q])) /\ call[p] \in CallType
      /\ Counted(sem, call, Proc) /\ sem \in [Pool -> SemRec]
      /\ call \in [Proc -> CallType] /\ (\A q \in Proc : InPlace(call[q]))
  BY DEF CInv, TInv, Types
<1>2. ASSUME NEW id \in SemId, NEW sops \in Vectors, Semop(p, id, sops)
      PROVE  Counted(sem, call, Proc)' /\ \A q \in Proc : InPlace(call[q])'
  <2> DEFINE c == [Idle EXCEPT !.pc = "copyin", !.id = id, !.seq = sema[id].seq,
                               !.sops = sops]
  <2>1. sema[id].alloc /\ UNCHANGED sema /\ call[p].pc = "user"
    BY <1>2 DEF Semop, Enters
  <2>2. c \in CallType /\ c.id = id /\ c.seq = sema[id].seq /\ c.sops = sops
        /\ c.pc = "copyin"
    <3>1. sema[id].seq \in 0 .. MaxSeq
      BY <1>1 DEF PoolInv, SlotType
    <3>2. c = Begun(id, sema[id].seq, sops)
      BY DEF Begun
    <3> HIDE DEF c
    <3> QED BY <3>1, <3>2, BeginType
  <2>3. CASE Try(p, sem, c)
    <3>1. Counted(sem, call, Proc \ {p})
      BY <1>1, <2>1, Without
    <3> HIDE DEF c
    <3> QED BY <1>1, <2>1, <2>2, <2>3, <3>1, TryCounts
  <2>4. CASE call' = [call EXCEPT ![p] = c] /\ UNCHANGED sem
    <3> HIDE DEF c
    <3>1. call'[p] = c /\ \A q \in Proc \ {p} : Woken(call, call', q)
      BY <1>1, <2>4 DEF Woken
    <3>2. InPlace(c)
      BY <2>1, <2>2 DEF InPlace
    <3>3. SameCounts(sem, sem')
      BY <2>4 DEF SameCounts
    <3> QED BY <2>1, <2>2, <3>1, <3>2, <3>3, OtherCounts
  <2> QED BY <1>2, <2>3, <2>4 DEF Semop
<1>3. ASSUME SemopCopied(p)
      PROVE  Counted(sem, call, Proc)' /\ \A q \in Proc : InPlace(call[q])'
  <2>1. Try(p, sem, call[p]) /\ UNCHANGED sema /\ call[p].pc = "copyin"
    BY <1>3 DEF SemopCopied
  <2>2. call[p].sops \in Vectors /\ sema[call[p].id].alloc
    BY <1>1, <2>1 DEF InSemop
  <2>3. Counted(sem, call, Proc \ {p})
    BY <1>1, <2>1, Without
  <2>4. call[p].seq = sema[call[p].id].seq
    BY <1>1, <2>1 DEF InPlace
  <2> QED BY <1>1, <2>1, <2>2, <2>3, <2>4, TryCounts
<1>4. ASSUME SemopWoken(p)
      PROVE  Counted(sem, call, Proc)' /\ \A q \in Proc : InPlace(call[q])'
  <2> DEFINE c == call[p]
  <2>1. UNCHANGED sema /\ c.pc = "woken" /\ c.sops \in Vectors
    BY <1>1, <1>4 DEF SemopWoken, InSemop
  <2>2. sema[c.id].alloc /\ c.seq = sema[c.id].seq
    BY <1>1, <2>1 DEF InPlace
  <2>3. Try(p, Uncounted(p), c)
    BY <1>4, <2>2 DEF SemopWoken
  <2>4. Uncounted(p) \in [Pool -> SemRec] /\ Counted(Uncounted(p), call, Proc \ {p})
    BY <1>1, <2>1, UncountedType, Leave
  <2> QED BY <1>1, <2>1, <2>2, <2>3, <2>4, TryCounts
<1> QED BY <1>2, <1>3, <1>4

\* semget: nobody waits for a new set.
LEMMA SemgetCounts ==
  ASSUME CInv, NEW p \in Proc, NEW n \in SetSizes, Semget(p, n)
  PROVE  Counted(sem, call, Proc)' /\ \A q \in Proc : InPlace(call[q])'
<1>1. /\ PoolInv /\ Counted(sem, call, Proc) /\ (\A q \in Proc : InPlace(call[q]))
      /\ \A q \in Proc : call[q].id \in SemId
      /\ sem \in [Pool -> SemRec]
  BY DEF CInv, TInv, Types, CallType
<1>2. PICK new \in SemId :
        /\ ~sema[new].alloc /\ Room(n)
        /\ sema' = [sema EXCEPT ![new] = [alloc |-> TRUE, seq |-> @.seq + 1,
                                          base |-> semtot, nsems |-> n]]
        /\ sem' = [j \in Pool |-> IF j \in semtot .. semtot + n - 1
                                  THEN [val |-> 0, ncnt |-> 0, zcnt |-> 0]
                                  ELSE sem[j]]
        /\ call' = call
  BY DEF Semget
<1>3. /\ \A i \in SemId \ {new} : sema'[i] = sema[i]
      /\ sema'[new].base = semtot /\ sema'[new].nsems = n
  BY <1>1, <1>2 DEF PoolInv, SlotType
<1>4. ASSUME NEW q \in Proc, InPlace(call[q]) PROVE InPlace(call[q])'
  <2>1. call[q].id = new \/ sema'[call[q].id] = sema[call[q].id]
    BY <1>1, <1>3
  <2> QED BY <1>2, <1>4, <2>1 DEF InPlace, At
<1>5. ASSUME NEW id \in Live', NEW m \in 0 .. sema'[id].nsems - 1, NEW z \in BOOLEAN
      PROVE  Count(sem, id, m, z)' = Cardinality(Waiters(call, Proc, id, m, z)')
  <2>1. CASE id = new
    <3>1. \A q \in Proc : ~Waits(call, q, new, m, z)'
      BY <1>1, <1>2 DEF Waits, InPlace
    <3>2. Waiters(call, Proc, id, m, z)' = {}
      BY <2>1, <3>1 DEF Waiters
    <3>3. /\ semtot + m \in Pool /\ semtot + m \in semtot .. semtot + n - 1
      BY <1>1, <1>2, <1>3, <2>1, SizeAssumption DEF Pool, Room, PoolInv, SlotType
    <3>4. sem'[semtot + m] = [val |-> 0, ncnt |-> 0, zcnt |-> 0]
      BY <1>2, <3>3
    <3>5. Count(sem, id, m, z)' = 0
      BY <1>3, <2>1, <3>4 DEF Count, At
    <3> QED BY <3>2, <3>5, FS_EmptySet
  <2>2. CASE id # new
    <3>1. id \in Live /\ sema'[id] = sema[id] /\ m \in 0 .. sema[id].nsems - 1
      BY <1>3, <2>2 DEF Live
    <3>2. At(id, m) \in Pool /\ At(id, m) < semtot
      BY <1>1, <3>1, SetFacts DEF Live, At
    <3>3. Count(sem, id, m, z)' = Count(sem, id, m, z)
      <4> DEFINE j == At(id, m)
      <4>1. At(id, m)' = j
        BY <3>1 DEF At
      <4>2. j \in Pool /\ ~(j \in semtot .. semtot + n - 1)
        <5>1. j < semtot /\ j \in Pool /\ j \in Int /\ semtot \in Int
          BY <1>1, <3>2 DEF Pool, PoolInv, SlotType
        <5> HIDE DEF j
        <5> QED BY <5>1
      <4> HIDE DEF j
      <4>3. sem'[j] = sem[j]
        BY <1>2, <4>2
      <4> QED BY <4>1, <4>3 DEF Count, j
    <3>4. Waiters(call, Proc, id, m, z)' = Waiters(call, Proc, id, m, z)
      BY <1>2, <3>1 DEF Waiters, Waits
    <3> QED BY <1>1, <3>1, <3>3, <3>4 DEF Counted
  <2> QED BY <2>1, <2>2
<1>6. Counted(sem, call, Proc)'
  BY <1>5 DEF Counted
<1> QED BY <1>1, <1>4, <1>6

\* Each step preserves the counts.
LEMMA CountsStep ==
  ASSUME CInv, Undisturbed, FewProcesses, NEW p \in Proc, Step(p)
  PROVE  Counted(sem, call, Proc)' /\ \A q \in Proc : InPlace(call[q])'
<1> DEFINE Goal == Counted(sem, call, Proc)' /\ \A q \in Proc : InPlace(call[q])'
           c == call[p]
<1>1. /\ Types /\ PoolInv /\ sem \in [Pool -> SemRec] /\ call \in [Proc -> CallType]
      /\ (\A q \in Proc : InPlace(call[q])) /\ c \in CallType /\ c.id \in SemId
      /\ SameCounts(sem, sem)
  BY ValuesNotCounts DEF CInv, TInv, Types, CallType
<1>2. ASSUME NEW d, InPlace(d), call' = [call EXCEPT ![p] = d], UNCHANGED <<sema, sem>>,
             c.pc \notin {"semwait", "woken"}, d.pc \notin {"semwait", "woken"}
      PROVE  Goal
  <2>1. call'[p] = d /\ \A q \in Proc \ {p} : Woken(call, call', q)
    BY <1>1, <1>2 DEF Woken
  <2> QED BY <1>1, <1>2, <2>1, OtherCounts
<1>3. ASSUME call'[p] = Idle, \A q \in Proc \ {p} : Woken(call, call', q), UNCHANGED sema,
             SameCounts(sem, sem'), c.pc \notin {"semwait", "woken"}
      PROVE  Goal
  <2>1. call'[p].pc = "user" /\ InPlace(call'[p])
    BY <1>3 DEF Idle, InPlace
  <2> QED BY <1>3, <2>1, OtherCounts
<1>4. CASE \/ \E id \in SemId, sops \in Vectors : Semop(p, id, sops)
           \/ SemopCopied(p) \/ SemopWoken(p)
  BY <1>4, SemopCounts
<1>5. ~SemopInterrupted(p) /\ \A id \in SemId : ~Rmid(p, id)
  BY DEF SemopInterrupted, Rmid, Undisturbed
<1>6. CASE \E n \in SetSizes : Semget(p, n)
  BY <1>6, SemgetCounts
<1>7. ASSUME NEW id \in SemId, Setall(p, id) PROVE Goal
  <2> DEFINE d == [Idle EXCEPT !.pc = "setallarg", !.id = id]
  <2>1. d.pc = "setallarg" /\ d.id = id /\ d.num = 0
    BY DEF Idle
  <2>2. InPlace(d)
    BY <1>7, <2>1 DEF InPlace, Setall
  <2>3. call' = [call EXCEPT ![p] = d] /\ UNCHANGED <<sema, sem>> /\ c.pc = "user"
    BY <1>7 DEF Setall, Enters
  <2> HIDE DEF d
  <2> QED BY <1>2, <2>1, <2>2, <2>3
<1>8. ASSUME NEW id \in SemId, NEW n, NEW v \in Values, SetVal(p, id, n, v), UNCHANGED sema,
             c.pc \notin {"semwait", "woken"}
      PROVE  Goal
  <2>1. SameCounts(sem, sem') /\ call' = Wakeup(Return(p), id)
    BY <1>1, <1>8, ValuesNotCounts DEF SetVal
  <2> QED BY <1>1, <1>3, <1>8, <2>1, ReturnWoken
<1>9. ASSUME NEW id \in SemId, NEW n \in Num, Setval(p, id, n) PROVE Goal
  <2>1. UNCHANGED sema /\ c.pc = "user" /\ sema[id].alloc /\ n < sema[id].nsems
    BY <1>9 DEF Setval, Enters
  <2>2. CASE \E v \in Values : SetVal(p, id, n, v)
    BY <1>8, <2>1, <2>2
  <2>3. CASE call' = [call EXCEPT ![p] =
                           [Idle EXCEPT !.pc = "setval", !.id = id, !.num = n]]
             /\ UNCHANGED sem
    <3> DEFINE d == [Idle EXCEPT !.pc = "setval", !.id = id, !.num = n]
    <3>1. d.pc = "setval" /\ d.id = id /\ d.num = n
      BY DEF Idle
    <3>2. InPlace(d)
      BY <2>1, <3>1 DEF InPlace
    <3> HIDE DEF d
    <3>3. call' = [call EXCEPT ![p] = d]
      BY <2>3 DEF d
    <3> QED BY <1>2, <2>1, <2>3, <3>1, <3>2, <3>3
  <2> QED BY <1>9, <2>2, <2>3 DEF Setval
<1>10. CASE SetvalCopied(p)
  BY <1>1, <1>8, <1>10 DEF SetvalCopied
<1>11. CASE SetallArg(p)
  <2> DEFINE d == [c EXCEPT !.pc = "setall", !.semptr = At(c.id, 0)]
  <2>1. d.pc = "setall" /\ d.id = c.id /\ d.num = c.num /\ d.semptr = At(c.id, 0)
    BY <1>1 DEF CallType
  <2>2. c.pc = "setallarg" /\ call' = [call EXCEPT ![p] = d] /\ UNCHANGED <<sema, sem>>
    BY <1>11 DEF SetallArg
  <2> HIDE DEF d
  <2>3. sema[c.id].alloc /\ c.num = 0
    BY <1>1, <2>2 DEF InPlace
  <2>4. 0 < sema[c.id].nsems
    BY <1>1, <2>3, SetFacts
  <2>5. InPlace(d)
    BY <2>1, <2>3, <2>4 DEF InPlace
  <2> QED BY <1>2, <2>1, <2>2, <2>5
<1>12. CASE SetallCopied(p)
  <2>1. SameCounts(sem, sem') /\ UNCHANGED sema /\ c.pc = "setall"
    <3>1. UNCHANGED sema /\ c.pc = "setall"
      BY <1>12 DEF SetallCopied
    <3>2. CASE sem' = sem
      BY <1>1, <3>1, <3>2
    <3>3. ASSUME NEW x, sem' = [sem EXCEPT ![c.semptr].val = x]
          PROVE  SameCounts(sem, sem')
      <4> DEFINE j == c.semptr
      <4>1. sem' = [sem EXCEPT ![j].val = x]
        BY <3>3
      <4> HIDE DEF j
      <4>2. SameCounts(sem, [sem EXCEPT ![j].val = x])
        BY <1>1, ValuesNotCounts
      <4> QED BY <4>1, <4>2
    <3>4. SameCounts(sem, sem')
      BY <1>12, <3>2, <3>3 DEF SetallCopied
    <3> QED BY <3>1, <3>4
  <2>2. CASE SetallEnds(p)
    <3>1. call' = Wakeup(Return(p), c.id)
      BY <2>2 DEF SetallEnds
    <3> QED BY <1>1, <1>3, <2>1, <3>1, ReturnWoken
  <2>3. CASE c.num + 1 < sema[c.id].nsems /\
             call' = [call EXCEPT ![p].num = c.num + 1, ![p].semptr = At(c.id, c.num + 1)]
    <3> DEFINE d == [c EXCEPT !.num = c.num + 1, !.semptr = At(c.id, c.num + 1)]
    <3>1. /\ d.pc = "setall" /\ d.id = c.id /\ d.num = c.num + 1
          /\ d.semptr = At(c.id, c.num + 1)
      BY <1>1, <2>1 DEF CallType
    <3>2. call' = [call EXCEPT ![p] = d]
      BY <2>3
    <3> HIDE DEF d
    <3>3. InPlace(d)
      BY <1>1, <2>1, <2>3, <3>1 DEF InPlace
    <3>4. call'[p] = d /\ \A q \in Proc \ {p} : Woken(call, call', q)
      BY <1>1, <3>2 DEF Woken
    <3> QED BY <2>1, <3>1, <3>3, <3>4, OtherCounts
  <2> QED BY <1>12, <2>2, <2>3 DEF SetallCopied
<1>13. ASSUME UNCHANGED <<sema, sem, call>> PROVE Goal
  BY <1>13 DEF CInv, Counted, Count, Waiters, Waits, At, Live, InPlace
<1>14. CASE Freeze(p) \/ Thaw(p)
  BY <1>13, <1>14 DEF Freeze, Thaw
<1>15. ASSUME Finish(p), c.pc \in {"user", "exiting"} PROVE Goal
  <2>1. CASE ApplyUndo(p) /\ UNCHANGED sema
    <3>1. SameCounts(sem, sem')
      <4> SUFFICES ASSUME NEW j \in Pool
                   PROVE  sem'[j].zcnt = sem[j].zcnt /\ sem'[j].ncnt = sem[j].ncnt
        BY DEF SameCounts
      <4>1. \/ sem'[j] = sem[j]
            \/ \E x : sem'[j] = [sem[j] EXCEPT !.val = x]
        BY <2>1 DEF ApplyUndo
      <4> QED BY <1>1, <4>1 DEF SemRec
    <3>2. call'[p] = Idle /\ \A q \in Proc \ {p} : Woken(call, call', q)
      BY <2>1 DEF ApplyUndo, Woken
    <3> QED BY <1>3, <1>15, <2>1, <3>1, <3>2
  <2>2. CASE Panic
    BY <1>13, <2>2 DEF Panic
  <2> QED BY <1>15, <2>1, <2>2 DEF Finish
<1>16. CASE Semexit(p)
  <2>1. c.pc = "user"
    BY <1>16 DEF Semexit
  <2>2. CASE call' = [call EXCEPT ![p] = [Idle EXCEPT !.pc = "exiting"]]
             /\ UNCHANGED <<sema, sem>>
    <3> DEFINE d == [Idle EXCEPT !.pc = "exiting"]
    <3>1. d.pc = "exiting" /\ InPlace(d)
      BY DEF Idle, InPlace
    <3> HIDE DEF d
    <3>2. call' = [call EXCEPT ![p] = d]
      BY <2>2 DEF d
    <3> QED BY <1>2, <2>1, <2>2, <3>1, <3>2
  <2> QED BY <1>15, <1>16, <2>1, <2>2 DEF Semexit
<1>17. CASE SemexitThawed(p)
  BY <1>13, <1>15, <1>17 DEF SemexitThawed, Panic
<1> QED BY <1>4, <1>5, <1>6, <1>7, <1>9, <1>10, <1>11, <1>12, <1>14, <1>16, <1>17 DEF Step

\* The invariant of the counts holds in every state.
LEMMA CountedStays == ASSUME Undisturbed, FewProcesses PROVE Spec => []CInv
<1>1. Settled
  BY DEF Undisturbed, Settled
<1>2. Init => CInv
  <2> SUFFICES ASSUME Init PROVE CInv
    OBVIOUS
  <2>1. TInv
    BY TInvInit
  <2>2. Live = {}
    BY DEF Init, Live
  <2>3. \A p \in Proc : InPlace(call[p])
    BY DEF Init, Idle, InPlace
  <2> QED BY <2>1, <2>2, <2>3 DEF CInv, Counted
<1>3. ASSUME CInv, [Next]_vars PROVE CInv'
  <2>1. ASSUME NEW p \in Proc, Step(p) PROVE CInv'
    BY <1>1, <1>3, <2>1, TInvStep, CountsStep DEF CInv
  <2>2. CASE UNCHANGED vars
    <3>1. TInv'
      BY <1>3, <2>2, SameSets DEF vars, CInv, TInv, Types
    <3>2. Counted(sem, call, Proc)' /\ \A q \in Proc : InPlace(call[q])'
      BY <1>3, <2>2 DEF vars, CInv, Counted, Count, Waiters, Waits, At, Live, InPlace
    <3> QED BY <3>1, <3>2 DEF CInv
  <2> QED BY <1>3, <2>1, <2>2 DEF Next
<1> QED BY <1>2, <1>3, PTL DEF Spec

\* semncnt and semzcnt are the numbers of processes that wait, for every number of
\* processes that a count can hold, as long as no set is removed and no sleep is
\* interrupted: semop counts up and down around the sleep (sysv_sem.c:669-672, 703-706).
THEOREM CountsAreRight == ASSUME Undisturbed, FewProcesses PROVE Spec => []CountsAgree
<1>1. ASSUME CInv PROVE CountsAgree
  <2> SUFFICES ASSUME NEW id \in Live, NEW n \in 0 .. sema[id].nsems - 1
               PROVE  LET waiters == {p \in Proc : Awaits(p, id, n)}
                          zero    == {p \in waiters : call[p].sops[call[p].at].op = 0}
                      IN  /\ sem[At(id, n)].zcnt = Cardinality(zero)
                          /\ sem[At(id, n)].ncnt = Cardinality(waiters \ zero)
    BY DEF CountsAgree
  <2> DEFINE waiters == {p \in Proc : Awaits(p, id, n)}
             zero    == {p \in waiters : call[p].sops[call[p].at].op = 0}
  <2>1. zero = Waiters(call, Proc, id, n, TRUE)
    BY DEF Awaits, Waiters, Waits
  <2>2. waiters \ zero = Waiters(call, Proc, id, n, FALSE)
    BY DEF Awaits, Waiters, Waits
  <2>3. /\ Count(sem, id, n, TRUE) = Cardinality(Waiters(call, Proc, id, n, TRUE))
        /\ Count(sem, id, n, FALSE) = Cardinality(Waiters(call, Proc, id, n, FALSE))
    BY <1>1 DEF CInv, Counted
  <2> QED BY <2>1, <2>2, <2>3 DEF Count
<1> QED BY <1>1, CountedStays, PTL

--------------------------------------------------------------------------------
\* Every operation names a semaphore of every set.
InRange == \A sops \in Vectors : \A k \in DOMAIN sops : \A n \in SetSizes : sops[k].num < n

\* No operation that waits for zero comes after one on the same semaphore that takes.
ZeroFirst ==
    \A sops \in Vectors : \A k \in DOMAIN sops : \A j \in 1 .. k-1 :
      sops[k].op = 0 /\ sops[j].num = sops[k].num => sops[j].op >= 0

\* One operation, seen from one semaphore
LEMMA AfterOne ==
  ASSUME NEW D, NEW v \in [D -> Int], NEW s, Len(s) \in Nat, Vector(s, Len(s)), NEW d \in D
  PROVE  /\ After(v, s)[0][d] = v[d]
         /\ \A k \in 0 .. Len(s) : After(v, s)[k][d] \in Int
         /\ \A k \in 1 .. Len(s) :
              /\ s[k].op \in Int
              /\ After(v, s)[k][d] = IF s[k].num = d THEN After(v, s)[k-1][d] + s[k].op
                                                     ELSE After(v, s)[k-1][d]
<1> DEFINE n == Len(s)
           a == After(v, s)
<1>0. /\ After(v, s) \in [0 .. Len(s) -> [D -> Int]]
      /\ After(v, s)[0] = v
      /\ \A k \in 1 .. Len(s) :
           After(v, s)[k] = [After(v, s)[k-1] EXCEPT ![s[k].num] = @ + s[k].op]
  BY ONLY v \in [D -> Int], Len(s) \in Nat, Vector(s, Len(s)), AfterSteps
<1>1. /\ a \in [0 .. n -> [D -> Int]] /\ a[0] = v
      /\ \A k \in 1 .. n : a[k] = [a[k-1] EXCEPT ![s[k].num] = @ + s[k].op]
  BY <1>0
<1> HIDE DEF a
<1>2. ASSUME NEW k \in 1 .. n
      PROVE  /\ s[k].op \in Int
             /\ a[k][d] = IF s[k].num = d THEN a[k-1][d] + s[k].op ELSE a[k-1][d]
  <2> DEFINE x == s[k].num
             y == s[k].op
  <2>0. y \in Int /\ n \in Nat
    BY DEF Vector
  <2>1. a[k-1] \in [D -> Int] /\ y \in Int
    <3>1. k-1 \in 0 .. n
      BY <2>0
    <3> HIDE DEF n, y
    <3> QED BY <1>1, <2>0, <3>1
  <2>2. a[k] = [a[k-1] EXCEPT ![x] = @ + y]
    BY <1>1
  <2> HIDE DEF x, y
  <2>3. y \in Int /\ a[k][d] = IF x = d THEN a[k-1][d] + y ELSE a[k-1][d]
    BY <2>1, <2>2
  <2> QED BY <2>3 DEF x, y
<1>3. \A k \in 0 .. n : a[k][d] \in Int
  BY <1>1
<1> QED BY <1>1, <1>2, <1>3 DEF a

\* s adds up on the values v, in which d is.
Adds(D, v, s, d) == v \in [D -> Int] /\ Len(s) \in Nat /\ Vector(s, Len(s)) /\ d \in D

\* The values after each prefix of s are as far apart as v and w are.
Differ(v, w, s, d) ==
    \A k \in 0 .. Len(s) : After(w, s)[k][d] = After(v, s)[k][d] + (w[d] - v[d])

\* A value that another takes the place of makes the same difference to the end.
LEMMA AfterDiff ==
  ASSUME NEW D, NEW v, NEW w, NEW s, NEW d, Adds(D, v, s, d), Adds(D, w, s, d)
  PROVE  Differ(v, w, s, d)
<1> DEFINE n == Len(s)
           a(k) == After(v, s)[k][d]
           b(k) == After(w, s)[k][d]
           T == {k \in 0 .. n : b(k) = a(k) + (w[d] - v[d])}
<1>1. /\ a(0) = v[d] /\ b(0) = w[d] /\ v[d] \in Int /\ w[d] \in Int
      /\ \A k \in 0 .. n : a(k) \in Int /\ b(k) \in Int
      /\ \A k \in 1 .. n : /\ s[k].op \in Int
                           /\ a(k) = IF s[k].num = d THEN a(k-1) + s[k].op ELSE a(k-1)
                           /\ b(k) = IF s[k].num = d THEN b(k-1) + s[k].op ELSE b(k-1)
  BY AfterOne DEF Adds
<1> HIDE DEF a, b
<1>5. n \in Nat
  BY DEF Adds
<1>2. 0 \in T
  BY <1>1, <1>5
<1>3. ASSUME NEW k \in 1 .. n, k-1 \in T PROVE k \in T
  <2>1. b(k-1) = a(k-1) + (w[d] - v[d]) /\ k-1 \in 0 .. n
    BY <1>3
  <2>2. /\ a(k-1) \in Int /\ b(k-1) \in Int /\ s[k].op \in Int
        /\ a(k) = IF s[k].num = d THEN a(k-1) + s[k].op ELSE a(k-1)
        /\ b(k) = IF s[k].num = d THEN b(k-1) + s[k].op ELSE b(k-1)
    BY <1>1, <2>1
  <2> DEFINE x == a(k-1)
             y == b(k-1)
             op == s[k].op
             Here == s[k].num = d
  <2>3. b(k) = a(k) + (w[d] - v[d])
    <3>1. /\ x \in Int /\ y \in Int /\ op \in Int /\ y = x + (w[d] - v[d])
          /\ a(k) = (IF Here THEN x + op ELSE x) /\ b(k) = (IF Here THEN y + op ELSE y)
      BY <2>1, <2>2
    <3> HIDE DEF x, y, op, Here
    <3>2. CASE Here
      BY <1>1, <3>1, <3>2
    <3>3. CASE ~Here
      BY <1>1, <3>1, <3>3
    <3> QED BY <3>2, <3>3
  <2>4. k \in 0 .. n
    OBVIOUS
  <2> QED BY <2>3, <2>4
<1>4. 0 .. n \subseteq T
  <2> HIDE DEF T
  <2> QED BY <1>2, <1>3, <1>5, UpTo
<1> QED BY <1>4 DEF a, b, Differ

\* Operations that take nothing from d leave it as great as it was.
LEMMA AfterUp ==
  ASSUME NEW D, NEW v \in [D -> Int], NEW s, Len(s) \in Nat, Vector(s, Len(s)), NEW d \in D,
         NEW top \in 0 .. Len(s), \A j \in 1 .. top : s[j].num = d => s[j].op >= 0
  PROVE  After(v, s)[top][d] >= v[d]
<1> DEFINE n == Len(s)
           a(k) == After(v, s)[k][d]
           T == {k \in 0 .. top : a(k) >= v[d]}
<1>1. /\ a(0) = v[d] /\ v[d] \in Int
      /\ \A k \in 0 .. n : a(k) \in Int
      /\ \A k \in 1 .. n : /\ s[k].op \in Int
                           /\ a(k) = IF s[k].num = d THEN a(k-1) + s[k].op ELSE a(k-1)
  BY AfterOne
<1> HIDE DEF a
<1>2. 0 \in T
  BY <1>1
<1>3. ASSUME NEW k \in 1 .. top, k-1 \in T PROVE k \in T
  <2>1. a(k-1) >= v[d] /\ k-1 \in 0 .. n /\ k \in 1 .. n /\ k \in 0 .. top
    BY <1>3
  <2>3. /\ a(k-1) \in Int /\ s[k].op \in Int
        /\ a(k) = IF s[k].num = d THEN a(k-1) + s[k].op ELSE a(k-1)
    BY <1>1, <2>1
  <2> DEFINE x == a(k-1)
             op == s[k].op
             Here == s[k].num = d
  <2>2. a(k) >= v[d]
    <3>1. /\ x \in Int /\ op \in Int /\ x >= v[d] /\ (Here => op >= 0)
          /\ a(k) = (IF Here THEN x + op ELSE x)
      BY <2>1, <2>3
    <3> HIDE DEF x, op, Here
    <3> QED BY <1>1, <3>1
  <2> QED BY <2>1, <2>2
<1>4. 0 .. top \subseteq T
  <2> HIDE DEF T
  <2>1. top \in Nat
    OBVIOUS
  <2> QED BY <1>2, <1>3, <2>1, UpTo
<1> QED BY <1>4 DEF a

\* A vector that was performed leaves d where a do_wakeup that is not due says.
LEMMA AfterPerformed ==
  ASSUME NEW D, NEW v \in [D -> Int], NEW s, Len(s) \in Nat, Vector(s, Len(s)), NEW d \in D,
         v[d] >= 0, \A j \in 1 .. Len(s) : ~MustWait(v, s, j)
  PROVE  LET res == After(v, s)[Len(s)]
         IN  /\ res[d] \in Int /\ res[d] >= 0
             /\ (\A k \in 1 .. Len(s) : ~(s[k].num = d /\ s[k].op > 0)) => res[d] <= v[d]
             /\ (\A k \in 1 .. Len(s) :
                   ~(s[k].num = d /\ s[k].op < 0 /\ After(v, s)[k][d] = 0))
                  => (v[d] > 0 => res[d] > 0)
<1> DEFINE n == Len(s)
           a(k) == After(v, s)[k][d]
           Puts == \A k \in 1 .. n : ~(s[k].num = d /\ s[k].op > 0)
           Zero == \A k \in 1 .. n : ~(s[k].num = d /\ s[k].op < 0 /\ a(k) = 0)
           Good(k) == /\ a(k) >= 0
                      /\ Puts => a(k) <= v[d]
                      /\ Zero => (v[d] > 0 => a(k) > 0)
           T == {k \in 0 .. n : Good(k)}
<1>1. /\ a(0) = v[d] /\ v[d] \in Int
      /\ \A k \in 0 .. n : a(k) \in Int
      /\ \A k \in 1 .. n : /\ s[k].op \in Int
                           /\ a(k) = IF s[k].num = d THEN a(k-1) + s[k].op ELSE a(k-1)
  BY AfterOne
<1>2. \A k \in 1 .. n : s[k].num = d /\ s[k].op < 0 => ~(a(k-1) + s[k].op < 0)
  BY DEF MustWait
<1> HIDE DEF a
<1>3. 0 \in T
  BY <1>1
<1>4. ASSUME NEW k \in 1 .. n, k-1 \in T PROVE k \in T
  <2>1. Good(k-1) /\ k-1 \in 0 .. n /\ k \in 0 .. n
    BY <1>4
  <2>2. CASE s[k].num # d
    BY <1>1, <2>1, <2>2
  <2>3. CASE s[k].num = d
    <3>1. a(k) = a(k-1) + s[k].op /\ s[k].op \in Int /\ a(k-1) \in Int
      BY <1>1, <2>1, <2>3
    <3>2. a(k) >= 0
      <4> DEFINE x == a(k-1)
                 op == s[k].op
      <4>1. /\ x \in Int /\ op \in Int /\ x >= 0 /\ ~(op < 0 /\ x + op < 0) /\ a(k) = x + op
        BY <1>2, <2>1, <2>3, <3>1
      <4> HIDE DEF x, op
      <4> QED BY <4>1
    <3>3. Puts => a(k) <= v[d]
      BY <1>1, <2>1, <2>3, <3>1
    <3>4. Zero => (v[d] > 0 => a(k) > 0)
      BY <1>1, <2>1, <2>3, <3>1, <3>2
    <3> QED BY <2>1, <3>2, <3>3, <3>4
  <2> QED BY <2>2, <2>3
<1>5. 0 .. n \subseteq T
  <2> HIDE DEF T
  <2> QED BY <1>3, <1>4, UpTo
<1>6. Good(n) /\ a(n) \in Int
  BY <1>1, <1>5
<1> QED BY <1>6 DEF a

\* What keeps an operation waiting when the value of its semaphore changes from that of v
\* to that of w
LEMMA StillBlocked ==
  ASSUME NEW D, NEW v \in [D -> Int], NEW w \in [D -> Int], ZeroFirst, NEW s \in Vectors,
         NEW at \in 1 .. Len(s), s[at].num \in D, MustWait(v, s, at),
         s[at].op # 0 => w[s[at].num] <= v[s[at].num],
         s[at].op = 0 => w[s[at].num] >= 0 /\ (v[s[at].num] > 0 => w[s[at].num] > 0)
  PROVE  MustWait(w, s, at)
<1> DEFINE d == s[at].num
           op == s[at].op
           x == After(v, s)[at-1][d]
           y == After(w, s)[at-1][d]
<1>1. Len(s) \in Nat /\ Vector(s, Len(s)) /\ DOMAIN s = 1 .. Len(s)
  BY VectorFacts
<1>2. at-1 \in 0 .. Len(s) /\ d \in D /\ op \in Int /\ v[d] \in Int /\ w[d] \in Int
  BY <1>1 DEF Vector
<1>3. y = x + (w[d] - v[d]) /\ x \in Int
  <2> HIDE DEF d
  <2>1. After(w, s)[at-1][d] = After(v, s)[at-1][d] + (w[d] - v[d])
    <3>1. Adds(D, v, s, d) /\ Adds(D, w, s, d)
      BY <1>1, <1>2 DEF Adds
    <3>2. Differ(v, w, s, d)
      BY <3>1, AfterDiff, Zenon
    <3> QED BY <1>2, <3>2 DEF Differ
  <2>2. \A k \in 0 .. Len(s) : After(v, s)[k][d] \in Int
    BY ONLY v \in [D -> Int], <1>1, <1>2, AfterOne
  <2> QED BY <1>2, <2>1, <2>2
<1>4. CASE op < 0
  <2>1. x + op < 0 /\ w[d] <= v[d]
    BY <1>4 DEF MustWait
  <2> HIDE DEF x, y, op, d
  <2>2. y + op < 0
    BY <1>2, <1>3, <1>4, <2>1
  <2> QED BY <1>4, <2>2 DEF MustWait, op, y, d
<1>5. CASE op = 0
  <2>1. x > 0 /\ w[d] >= 0 /\ (v[d] > 0 => w[d] > 0)
    BY <1>5 DEF MustWait
  <2>2. \A j \in 1 .. at-1 : s[j].num = d => s[j].op >= 0
    BY <1>1, <1>5 DEF ZeroFirst
  <2>3. x >= v[d]
    <3> HIDE DEF d
    <3> QED BY <1>1, <1>2, <2>2, AfterUp
  <2> HIDE DEF x, y, op, d
  <2>4. y > 0
    BY <1>2, <1>3, <2>1, <2>3
  <2> QED BY <1>5, <2>4 DEF MustWait, op, y, d
<1>6. op < 0 \/ op = 0
  BY DEF MustWait
<1> QED BY <1>2, <1>4, <1>5, <1>6

\* No vector brings a value past 16 bits.
Fits16 == MaxVal <= Top

\* Values of the set in slot id, before and after the step
SameValues(id) == ValuesOf(sem', id) = ValuesOf(sem, id)

\* The wait of q in the next state, where the sets are the same
WaitsWell(q) == call'[q].pc = "semwait" => Blocked(q)' \/ InSetall(call[q].id)'

\* What the invariant says of a process that waits
LEMMA WaiterFacts ==
  ASSUME CInv, NEW q \in Proc, call[q].pc = "semwait"
  PROVE  /\ call[q].id \in Live /\ call[q].id \in SemId /\ call[q].sops \in Vectors
         /\ call[q].at \in 1 .. Len(call[q].sops)
         /\ call[q].sops[call[q].at].num \in 0 .. sema[call[q].id].nsems - 1
         /\ call[q].seq = sema[call[q].id].seq
<1> DEFINE c == call[q]
           m == c.sops[c.at].num
<1>1. PoolInv /\ c \in CallType /\ InSemop(c) /\ InPlace(c) /\ c.id \in SemId
  BY DEF CInv, TInv, Types, CallType
<1>2. c.sops \in Vectors /\ c.at \in 1 .. Len(c.sops)
  BY <1>1 DEF InSemop
<1>3. m \in Num
  BY <1>2, VectorFacts DEF Vector
<1>4. m < sema[c.id].nsems /\ sema[c.id].alloc /\ sema[c.id].nsems \in 0 .. 5
      /\ c.seq = sema[c.id].seq
  BY <1>1 DEF InPlace, PoolInv, SlotType
<1> HIDE DEF m
<1>5. m \in 0 .. sema[c.id].nsems - 1
  BY <1>3, <1>4 DEF Num
<1> QED BY <1>1, <1>2, <1>4, <1>5 DEF Live, m

\* A process goes on waiting while its set has the values it had.
LEMMA SameBlocked ==
  ASSUME CInv, UNCHANGED sema, NEW q \in Proc, call'[q] = call[q], Blocked(q),
         SameValues(call[q].id)
  PROVE  Blocked(q)'
BY DEF Blocked, SameValues, ValuesOf, At

\* Others wait on, if the values of their sets are the same, those whose set changed have
\* been woken or wait for a SETALL, and the end of a SETALL leaves nobody asleep.
LEMMA OtherBlocked ==
  ASSUME BInv, NEW p \in Proc, UNCHANGED sema, NEW q \in Proc \ {p}, Woken(call, call', q),
         \A r \in Proc \ {p} : Woken(call, call', r),
         call'[q].pc = "semwait" =>
            SameValues(call[q].id) \/ Blocked(q)' \/ InSetall(call[q].id)',
         /\ call'[q].pc = "semwait" /\ call[p].pc = "setall" /\ call[p].id = call[q].id
            => call'[p].pc = "setall" /\ call'[p].id = call[p].id
  PROVE  WaitsWell(q)
<1> SUFFICES ASSUME call'[q].pc = "semwait" PROVE Blocked(q)' \/ InSetall(call[q].id)'
  BY DEF WaitsWell
<1>1. call \in [Proc -> CallType]
  BY DEF BInv, CInv, TInv, Types
<1>2. call'[q] = call[q] /\ call[q].pc = "semwait"
  BY <1>1 DEF Woken, CallType
<1>3. CASE Blocked(q)
  BY <1>2, <1>3, SameBlocked DEF BInv
<1>4. CASE InSetall(call[q].id)
  <2>1. PICK r \in Proc : call[r].pc = "setall" /\ call[r].id = call[q].id
    BY <1>4 DEF InSetall
  <2>2. CASE r = p
    BY <1>2, <2>1, <2>2 DEF InSetall
  <2>3. CASE r # p
    <3>1. call'[r] = call[r]
      BY <2>1, <2>3 DEF Woken
    <3> QED BY <1>2, <2>1, <3>1 DEF InSetall
  <2> QED BY <2>2, <2>3
<1> QED BY <1>2, <1>3, <1>4 DEF BInv

\* The values of a set that a step writes no value of
LEMMA Untouched ==
  ASSUME PoolInv, NEW id \in Live,
         \A m \in 0 .. sema[id].nsems - 1 : sem'[At(id, m)].val = sem[At(id, m)].val
  PROVE  SameValues(id)
BY DEF SameValues, ValuesOf

\* WithValues writes values of its set only.
LEMMA OnlyItsSet ==
  ASSUME PoolInv, NEW S \in [Pool -> SemRec], NEW i \in Live, NEW id \in Live,
         NEW v \in [0 .. sema[i].nsems - 1 -> Int], NEW m \in 0 .. sema[id].nsems - 1
  PROVE  WithValues(S, i, v)[At(id, m)].val = IF id = i THEN u16(v[m]) ELSE S[At(id, m)].val
<1> DEFINE j == At(id, m)
<1>1. j \in Pool /\ S[j] \in SemRec
  BY SetFacts DEF Live
<1>2. DOMAIN v = 0 .. sema[i].nsems - 1
  OBVIOUS
<1>3. \A n \in 0 .. sema[i].nsems - 1 : At(i, n) = j => i = id /\ n = m
  BY Apart
<1>4. CASE id = i
  <2>1. \E n \in DOMAIN v : At(i, n) = j
    BY <1>2, <1>4
  <2>2. j - sema[i].base = m
    BY <1>4 DEF At, PoolInv, SlotType, Live
  <2>3. WithValues(S, i, v)[j] = [S[j] EXCEPT !.val = u16(v[m])]
    BY <1>1, <2>1, <2>2 DEF WithValues
  <2> HIDE DEF j
  <2>4. [S[j] EXCEPT !.val = u16(v[m])].val = u16(v[m])
    BY <1>1 DEF SemRec
  <2> QED BY <1>4, <2>3, <2>4 DEF j
<1>5. CASE id # i
  <2>1. ~\E n \in DOMAIN v : At(i, n) = j
    BY <1>2, <1>3, <1>5
  <2>2. WithValues(S, i, v)[j] = S[j]
    BY <1>1, <2>1 DEF WithValues
  <2> QED BY <1>5, <2>2
<1> QED BY <1>4, <1>5

\* The value that WithValues writes
LEMMA ItsSet ==
  ASSUME PoolInv, NEW S \in [Pool -> SemRec], NEW i \in Live,
         NEW v \in [0 .. sema[i].nsems - 1 -> Int], NEW m \in 0 .. sema[i].nsems - 1
  PROVE  WithValues(S, i, v)[At(i, m)].val = u16(v[m])
<1>1. WithValues(S, i, v)[At(i, m)].val = IF i = i THEN u16(v[m]) ELSE S[At(i, m)].val
  BY OnlyItsSet, Zenon
<1> QED BY <1>1

\* A set that a vector was performed on without a wake-up: who waits there still has to.
LEMMA PerformedBlocked ==
  ASSUME CInv, FewProcesses, Fits16, ZeroFirst, NEW p \in Proc, NEW S \in [Pool -> SemRec],
         \A j \in Pool : S[j].val = sem[j].val,
         NEW i \in Live, NEW sops \in Vectors, Counted(S, call, Proc \ {p}),
         LET v == ValuesOf(S, i)
             n == Len(sops)
         IN  /\ \A j \in 1 .. n : ~OutOfRange(v, sops, j) /\ ~MustWait(v, sops, j)
             /\ InBound(After(v, sops)[n])
             /\ sem' = WithValues(S, i, After(v, sops)[n]),
         ~DoWakeup(S, i, sops), UNCHANGED sema,
         NEW q \in Proc \ {p}, call[q].pc = "semwait", call[q].id = i, call'[q] = call[q],
         Blocked(q)
  PROVE  Blocked(q)'
<1> DEFINE v == ValuesOf(S, i)
           n == Len(sops)
           D == 0 .. sema[i].nsems - 1
           c == call[q]
           m == c.sops[c.at].num
           op == c.sops[c.at].op
           res == After(v, sops)[n]
           w == ValuesOf(sem, i)'
<1>1. /\ PoolInv /\ i \in SemId /\ c.sops \in Vectors /\ c.at \in 1 .. Len(c.sops)
      /\ m \in D
      /\ c.seq = sema[i].seq
  BY WaiterFacts DEF CInv, TInv
<1>2. v \in [D -> U16] /\ v \in [D -> Int] /\ \A d \in D : v[d] >= 0
  <2>1. v \in [D -> U16]
    BY <1>1, ValuesType DEF Live
  <2>2. U16 \subseteq Nat /\ U16 \subseteq Int
    BY DEF U16
  <2> HIDE DEF D, v
  <2>3. v \in [D -> Int]
    BY <2>1, <2>2
  <2>4. \A d \in D : v[d] \in Nat
    BY <2>1, <2>2
  <2>5. \A d \in D : v[d] >= 0
    BY <2>4
  <2> QED BY <2>1, <2>3, <2>5
<1>3. n \in Nat /\ Vector(sops, n) /\ DOMAIN sops = 1 .. n
  BY VectorFacts
<1>4. res \in [D -> Int]
  <2>1. After(v, sops) \in [0 .. n -> [D -> Int]]
    BY <1>2, <1>3, AfterSteps
  <2> HIDE DEF v, n, D
  <2> QED BY <1>3, <2>1
<1>5. ASSUME NEW d \in D PROVE res[d] >= 0 /\ u16(res[d]) = res[d]
  <2>1. \A j \in 1 .. n : ~MustWait(v, sops, j)
    OBVIOUS
  <2>2. res[d] \in Int /\ res[d] >= 0
    <3> HIDE DEF v, D
    <3> QED BY <1>2, <1>3, <2>1, AfterPerformed
  <2>3. res[d] <= MaxVal
    <3>1. DOMAIN res = D
      BY <1>4
    <3> QED BY <3>1 DEF InBound
  <2>4. MaxVal \in Nat /\ Top \in Nat
    BY SizeAssumption DEF Top
  <2> HIDE DEF res
  <2>5. res[d] \in Nat /\ res[d] <= Top
    BY <2>2, <2>3, <2>4 DEF Fits16
  <2> QED BY <2>5, Same16
<1>6. w \in [D -> Int] /\ \A d \in D : w[d] = res[d]
  <2>1. w = [d \in D |-> sem'[At(i, d)].val]
    BY DEF ValuesOf, At
  <2>2. \A d \in D : sem'[At(i, d)].val = u16(res[d])
    <3>1. sem' = WithValues(S, i, res)
      OBVIOUS
    <3> HIDE DEF res
    <3> TAKE d \in D
    <3>2. PoolInv /\ res \in [0 .. sema[i].nsems - 1 -> Int] /\ d \in 0 .. sema[i].nsems - 1
      BY <1>1, <1>4
    <3>3. WithValues(S, i, res)[At(i, d)].val = u16(res[d])
      BY <3>2, ItsSet, Zenon
    <3> QED BY <3>1, <3>3
  <2> HIDE DEF w, res
  <2> QED BY <1>4, <1>5, <2>1, <2>2
<1>7. ValuesOf(sem, i) = v
  <2>1. \A d \in D : S[At(i, d)].val = sem[At(i, d)].val
    BY <1>1, SetFacts DEF Live
  <2> QED BY <2>1 DEF ValuesOf
<1>8. MustWait(v, c.sops, c.at)
  BY <1>7 DEF Blocked
<1>9. Count(S, i, m, op = 0) > 0
  <2> DEFINE W == Waiters(call, Proc \ {p}, i, m, op = 0)
  <2>1. Count(S, i, m, op = 0) = Cardinality(W)
    BY <1>1 DEF Counted
  <2>2. q \in W
    BY <1>1 DEF Waiters, Waits
  <2>3. IsFiniteSet(W) /\ Cardinality(W) \in Nat
    <3>1. Proc \ {p} \subseteq Proc
      OBVIOUS
    <3> QED BY <3>1, WaitersFew, Zenon
  <2> HIDE DEF W
  <2>4. Cardinality(W) # 0
    BY <2>2, <2>3, FS_EmptySet
  <2> QED BY <2>1, <2>3, <2>4
<1>10. \A k \in 1 .. n : /\ ~(sops[k].op > 0 /\ S[At(i, sops[k].num)].ncnt > 0)
                         /\ ~(sops[k].op < 0 /\ After(v, sops)[k][sops[k].num] = 0
                              /\ S[At(i, sops[k].num)].zcnt > 0)
  BY <1>3 DEF DoWakeup
<1>11. op # 0 => w[m] <= v[m]
  <2> SUFFICES ASSUME op # 0 PROVE w[m] <= v[m]
    OBVIOUS
  <2>1. S[At(i, m)].ncnt > 0
    BY <1>9 DEF Count
  <2>2. \A k \in 1 .. n : ~(sops[k].num = m /\ sops[k].op > 0)
    BY <1>10, <2>1
  <2>3. \A j \in 1 .. n : ~MustWait(v, sops, j)
    OBVIOUS
  <2>4. res[m] <= v[m]
    <3> HIDE DEF v, D, m
    <3> QED BY <1>1, <1>2, <1>3, <2>2, <2>3, AfterPerformed
  <2> QED BY <1>1, <1>6, <2>4
<1>12. op = 0 => w[m] >= 0 /\ (v[m] > 0 => w[m] > 0)
  <2> SUFFICES ASSUME op = 0 PROVE w[m] >= 0 /\ (v[m] > 0 => w[m] > 0)
    OBVIOUS
  <2>1. S[At(i, m)].zcnt > 0
    BY <1>9 DEF Count
  <2>2. \A k \in 1 .. n : ~(sops[k].num = m /\ sops[k].op < 0 /\ After(v, sops)[k][m] = 0)
    BY <1>10, <2>1
  <2>3. \A j \in 1 .. n : ~MustWait(v, sops, j)
    OBVIOUS
  <2>4. v[m] > 0 => res[m] > 0
    <3> HIDE DEF v, D, m
    <3> QED BY <1>1, <1>2, <1>3, <2>2, <2>3, AfterPerformed
  <2> QED BY <1>1, <1>5, <1>6, <2>4
<1>13. MustWait(w, c.sops, c.at)
  <2> DEFINE s == c.sops
             at == c.at
  <2>1. /\ s \in Vectors /\ at \in 1 .. Len(s) /\ s[at].num \in D /\ MustWait(v, s, at)
        /\ s[at].op # 0 => w[s[at].num] <= v[s[at].num]
        /\ s[at].op = 0 => w[s[at].num] >= 0 /\ (v[s[at].num] > 0 => w[s[at].num] > 0)
    BY <1>1, <1>8, <1>11, <1>12
  <2> HIDE DEF v, w, D, s, at
  <2>2. MustWait(w, s, at)
    BY <1>2, <1>6, <2>1, StillBlocked
  <2> QED BY <2>2 DEF s, at
<1> QED BY <1>13 DEF Blocked, MustWait

\* A set has every semaphore that a vector names.
LEMMA NotOut ==
  ASSUME BInv, InRange, NEW id \in Live, NEW S, NEW sops \in Vectors,
         NEW k \in 1 .. Len(sops)
  PROVE  ~OutOfRange(ValuesOf(S, id), sops, k)
<1> DEFINE m == sops[k].num
<1>1. k \in DOMAIN sops /\ m \in Num
  BY VectorFacts DEF Vector
<1>2. sema[id].nsems \in SetSizes /\ sema[id].nsems \in 0 .. 5
  BY DEF BInv, CInv, TInv, PoolInv, SlotType, Live
<1>3. m < sema[id].nsems
  BY <1>1, <1>2 DEF InRange
<1> HIDE DEF m
<1>4. m \in 0 .. sema[id].nsems - 1
  BY <1>1, <1>2, <1>3 DEF Num
<1> QED BY <1>4 DEF OutOfRange, ValuesOf, m

\* Counting writes no value.
LEMMA CountsNotValues ==
  ASSUME NEW S \in [Pool -> SemRec], NEW j, NEW x
  PROVE  /\ \A i \in Pool : [S EXCEPT ![j].zcnt = x][i].val = S[i].val
         /\ \A i \in Pool : [S EXCEPT ![j].ncnt = x][i].val = S[i].val
<1>1. ASSUME NEW i \in Pool
      PROVE  [S[i] EXCEPT !.zcnt = x].val = S[i].val
             /\ [S[i] EXCEPT !.ncnt = x].val = S[i].val
  BY DEF SemRec
<1>2. ASSUME NEW i \in Pool
      PROVE  /\ [S EXCEPT ![j].zcnt = x][i] \in {S[i], [S[i] EXCEPT !.zcnt = x]}
             /\ [S EXCEPT ![j].ncnt = x][i] \in {S[i], [S[i] EXCEPT !.ncnt = x]}
  OBVIOUS
<1> QED BY <1>1, <1>2

\* An attempt to perform a vector leaves nobody asleep who need not be.
LEMMA TryBlocked ==
  ASSUME BInv, FewProcesses, Fits16, ZeroFirst, InRange, NEW p \in Proc,
         NEW S \in [Pool -> SemRec], \A j \in Pool : S[j].val = sem[j].val,
         NEW c \in CallType, c.sops \in Vectors, sema[c.id].alloc,
         Counted(S, call, Proc \ {p}), Try(p, S, c), UNCHANGED sema, call[p].pc # "setall"
  PROVE  \A q \in Proc : WaitsWell(q)
<1> DEFINE v == ValuesOf(S, c.id)
           k == StopsAt(v, c.sops)
           n == Len(c.sops)
<1>1. /\ CInv /\ PoolInv /\ Types /\ call \in [Proc -> CallType] /\ c.id \in SemId
      /\ c.id \in Live
  BY DEF BInv, CInv, TInv, Types, CallType, Live
<1>2. /\ n \in Nat /\ k \in 1 .. n+1
      /\ \A j \in 1 .. k-1 : ~OutOfRange(v, c.sops, j) /\ ~MustWait(v, c.sops, j)
      /\ (k <= n => OutOfRange(v, c.sops, k) \/ MustWait(v, c.sops, k))
  <2>1. n \in Nat
    BY VectorFacts
  <2> QED BY <2>1, Stops
<1>3. \A j \in 1 .. n : ~OutOfRange(v, c.sops, j)
  BY <1>1, NotOut
<1>4. ASSUME \A j \in Pool : sem'[j].val = S[j].val,
             \A q \in Proc \ {p} : Woken(call, call', q),
             NEW q \in Proc \ {p}
      PROVE  WaitsWell(q)
  <2>1. SameValues(call[q].id) \/ call'[q].pc # "semwait"
    <3> SUFFICES ASSUME call'[q].pc = "semwait" PROVE SameValues(call[q].id)
      OBVIOUS
    <3>1. call[q].pc = "semwait"
      BY <1>1, <1>4 DEF Woken, CallType
    <3>2. call[q].id \in Live
      BY <1>1, <3>1, WaiterFacts
    <3>3. \A m \in 0 .. sema[call[q].id].nsems - 1 :
            sem'[At(call[q].id, m)].val = sem[At(call[q].id, m)].val
      BY <1>1, <1>4, <3>2, SetFacts DEF Live
    <3> QED BY <1>1, <3>2, <3>3, Untouched
  <2> QED BY <1>4, <2>1, OtherBlocked
<1>5. ASSUME \A j \in Pool : sem'[j].val = S[j].val, call' = Return(p)
      PROVE  \A q \in Proc : WaitsWell(q)
  <2>1. call'[p].pc # "semwait" /\ \A q \in Proc \ {p} : Woken(call, call', q)
    BY <1>1, <1>5, ReturnWoken DEF Idle
  <2>2. WaitsWell(p)
    BY <2>1 DEF WaitsWell
  <2> QED BY <1>4, <1>5, <2>1, <2>2
<1>6. CASE k <= n /\ WouldWait(p, S, c, k)
  <2> DEFINE op == c.sops[k]
             ptr == At(c.id, op.num)
             new == [c EXCEPT !.pc = "semwait", !.at = k, !.semptr = ptr]
  <2>1. CASE sem' = S /\ call' = Return(p)
    BY <1>5, <2>1
  <2>2. CASE /\ sem' = IF op.op = 0 THEN [S EXCEPT ![ptr].zcnt = u16(@ + 1)]
                                    ELSE [S EXCEPT ![ptr].ncnt = u16(@ + 1)]
             /\ call' = [call EXCEPT ![p] = new]
    <3>1. \A j \in Pool : sem'[j].val = S[j].val
      <4> HIDE DEF ptr
      <4>1. CASE sem' = [S EXCEPT ![ptr].zcnt = u16(@ + 1)]
        BY <4>1, CountsNotValues
      <4>2. CASE sem' = [S EXCEPT ![ptr].ncnt = u16(@ + 1)]
        BY <4>2, CountsNotValues
      <4> QED BY <2>2, <4>1, <4>2
    <3>2. /\ new.sops = c.sops /\ new.at = k /\ new.id = c.id /\ new.pc = "semwait"
      BY DEF CallType
    <3> HIDE DEF new
    <3>3. call'[p] = new /\ \A q \in Proc \ {p} : Woken(call, call', q)
      BY <1>1, <2>2 DEF Woken
    <3>4. Blocked(p)'
      <4>1. MustWait(v, c.sops, k)
        <5> HIDE DEF v, n, k
        <5> QED BY <1>2, <1>3, <1>6
      <4>2. ValuesOf(sem', c.id) = v
        BY <1>1, <3>1, SetFacts DEF ValuesOf, Live
      <4>3. ValuesOf(sem, call[p].id)' = v
        BY <3>2, <3>3, <4>2 DEF ValuesOf, At
      <4> HIDE DEF v, k
      <4> QED BY <3>2, <3>3, <4>1, <4>3 DEF Blocked, MustWait
    <3>5. WaitsWell(p)
      BY <3>4 DEF WaitsWell
    <3> QED BY <1>4, <3>1, <3>3, <3>5
  <2> QED BY <1>6, <2>1, <2>2 DEF WouldWait
<1>7. CASE k = n+1 /\ Performed(p, S, c, v)
  <2>1. CASE sem' = S /\ call' = Return(p)
    BY <1>5, <2>1
  <2> DEFINE res == After(v, c.sops)[n]
  <2>2. CASE /\ InBound(res)
             /\ sem' = WithValues(S, c.id, res)
             /\ call' = IF DoWakeup(S, c.id, c.sops) THEN Wakeup(Return(p), c.id)
                           ELSE Return(p)
    <3>1. call'[p] = Idle /\ \A q \in Proc \ {p} : Woken(call, call', q)
      BY <1>1, <2>2, ReturnWoken
    <3>2. WaitsWell(p)
      BY <3>1 DEF WaitsWell, Idle
    <3>3. ASSUME NEW q \in Proc \ {p} PROVE WaitsWell(q)
      <4>1. CASE call'[q].pc # "semwait"
        BY <4>1 DEF WaitsWell
      <4>2. CASE call'[q].pc = "semwait"
        <5>1. call'[q] = call[q] /\ call[q].pc = "semwait"
          BY <1>1, <3>1, <4>2 DEF Woken, CallType
        <5>2. call[q].id \in Live
          BY <1>1, <5>1, WaiterFacts
        <5>3. CASE call[q].id = c.id
          <6>1. ~DoWakeup(S, c.id, c.sops)
            <7> SUFFICES ASSUME DoWakeup(S, c.id, c.sops) PROVE FALSE
              OBVIOUS
            <7>1. call'[q] = Wakeup(Return(p), c.id)[q]
              BY <2>2
            <7>2. Return(p)[q] = call[q]
              BY <1>1 DEF Return
            <7>3. call'[q] = [call[q] EXCEPT !.pc = "woken"]
              BY <5>1, <5>3, <7>1, <7>2 DEF Wakeup
            <7> QED BY <1>1, <4>2, <7>3 DEF CallType
          <6>2. CASE Blocked(q)
            <7>1. /\ \A j \in 1 .. n : ~OutOfRange(v, c.sops, j) /\ ~MustWait(v, c.sops, j)
              <8> HIDE DEF k, n, v
              <8> QED BY <1>2, <1>7
            <7>2. Blocked(q)'
              BY <1>1, <2>2, <5>1, <5>3, <6>1, <6>2, <7>1, PerformedBlocked
            <7> QED BY <7>2 DEF WaitsWell
          <6>3. CASE InSetall(call[q].id)
            <7>1. PICK r \in Proc : call[r].pc = "setall" /\ call[r].id = call[q].id
              BY <6>3 DEF InSetall
            <7>2. r # p
              BY <7>1
            <7>3. call'[r] = call[r]
              BY <3>1, <7>1, <7>2 DEF Woken
            <7> QED BY <5>1, <7>1, <7>3 DEF WaitsWell, InSetall
          <6> QED BY <5>1, <6>2, <6>3 DEF BInv
        <5>4. CASE call[q].id # c.id
          <6> DEFINE i == c.id
                     id == call[q].id
          <6>1. res \in [0 .. sema[i].nsems - 1 -> Int]
            <7>1. v \in [0 .. sema[i].nsems - 1 -> U16]
              BY <1>1, ValuesType
            <7>2. v \in [0 .. sema[i].nsems - 1 -> Int]
              <8>1. U16 \subseteq Int
                BY DEF U16
              <8> HIDE DEF v, i
              <8> QED BY <7>1, <8>1
            <7>3. n \in Nat /\ Vector(c.sops, n)
              BY VectorFacts
            <7>4. After(v, c.sops) \in [0 .. n -> [0 .. sema[i].nsems - 1 -> Int]]
              BY <7>2, <7>3, AfterSteps
            <7> HIDE DEF v, n, i
            <7> QED BY <7>3, <7>4
          <6>2. i \in Live /\ id \in Live /\ i # id
            BY <1>1, <5>2, <5>4
          <6>3. ASSUME NEW m \in 0 .. sema[id].nsems - 1
                PROVE  sem'[At(id, m)].val = sem[At(id, m)].val
            <7>1. sem' = WithValues(S, i, res)
              BY <2>2
            <7>2. At(id, m) \in Pool
              BY <1>1, <6>2, SetFacts DEF Live
            <7> HIDE DEF res, i, id
            <7>3. WithValues(S, i, res)[At(id, m)].val =
                    IF id = i THEN u16(res[m]) ELSE S[At(id, m)].val
              BY <1>1, <6>1, <6>2, OnlyItsSet
            <7> QED BY <6>2, <7>1, <7>2, <7>3
          <6>4. SameValues(id)
            <7> HIDE DEF id
            <7> QED BY <1>1, <6>2, <6>3, Untouched
          <6> QED BY <3>1, <6>4, OtherBlocked
        <5> QED BY <5>3, <5>4
      <4> QED BY <4>1, <4>2
    <3> QED BY <3>2, <3>3
  <2> QED BY <1>7, <2>1, <2>2 DEF Performed
<1>8. ~(k <= n /\ OutOfRange(v, c.sops, k))
  <2> HIDE DEF k, n, v
  <2> QED BY <1>2, <1>3
<1> QED BY <1>6, <1>7, <1>8 DEF Try

\* A step by which p does not begin to sleep, that leaves the sets of those who sleep on as
\* they were, or has a SETALL go on in them
LEMMA StepBlocked ==
  ASSUME BInv, NEW p \in Proc, UNCHANGED sema, call'[p].pc # "semwait",
         \A q \in Proc \ {p} : Woken(call, call', q),
         \A q \in Proc \ {p} : call'[q].pc = "semwait" =>
            \/ SameValues(call[q].id)
            \/ call'[p].pc = "setall" /\ call'[p].id = call[q].id,
         \A q \in Proc \ {p} : call'[q].pc = "semwait" /\ call[p].pc = "setall"
            /\ call[p].id = call[q].id => call'[p].pc = "setall" /\ call'[p].id = call[p].id
  PROVE  \A q \in Proc : WaitsWell(q)
<1>1. WaitsWell(p)
  BY DEF WaitsWell
<1>2. ASSUME NEW q \in Proc \ {p} PROVE WaitsWell(q)
  <2>1. CASE call'[q].pc # "semwait"
    BY <2>1 DEF WaitsWell
  <2>2. CASE call'[q].pc = "semwait"
    <3>1. call'[q] = call[q]
      <4>1. call[q] \in CallType
        BY DEF BInv, CInv, TInv, Types
      <4> QED BY <2>2, <4>1 DEF Woken, CallType
    <3>2. SameValues(call[q].id) \/ Blocked(q)' \/ InSetall(call[q].id)'
      BY <2>2, <3>1 DEF InSetall
    <3> QED BY <3>2, OtherBlocked
  <2> QED BY <2>1, <2>2
<1> QED BY <1>1, <1>2

\* A value is written, and it is not one of the set in slot i.
LEMMA OneWrite ==
  ASSUME PoolInv, sem \in [Pool -> SemRec], NEW i \in Live, NEW id \in Live, i # id,
         NEW n \in 0 .. sema[id].nsems - 1, NEW v, sem' = [sem EXCEPT ![At(id, n)].val = v]
  PROVE  SameValues(i)
<1>1. ASSUME NEW m \in 0 .. sema[i].nsems - 1
      PROVE  sem'[At(i, m)].val = sem[At(i, m)].val
  <2> DEFINE j == At(i, m)
             k == At(id, n)
  <2>1. j # k /\ j \in Pool
    BY Apart, SetFacts DEF Live
  <2> HIDE DEF j, k
  <2>2. sem'[j] = sem[j]
    BY <2>1 DEF k
  <2> QED BY <2>2 DEF j
<1> QED BY <1>1, Untouched

\* p writes in its set, or not, and its call ends: all that sleep on the set are woken.
LEMMA EndBlocked ==
  ASSUME BInv, NEW p \in Proc, UNCHANGED sema, NEW id \in Live,
         NEW n \in 0 .. sema[id].nsems - 1,
         sem' = sem \/ \E v : sem' = [sem EXCEPT ![At(id, n)].val = v],
         call' = Wakeup(Return(p), id), call[p].pc = "setall" => call[p].id = id
  PROVE  \A q \in Proc : WaitsWell(q)
<1>1. CInv /\ Types /\ PoolInv /\ sem \in [Pool -> SemRec] /\ call \in [Proc -> CallType]
  BY DEF BInv, CInv, TInv, Types
<1>2. call'[p] = Idle /\ \A q \in Proc \ {p} : Woken(call, call', q)
  BY <1>1, ReturnWoken
<1>3. ASSUME NEW q \in Proc \ {p}, call'[q].pc = "semwait"
      PROVE  call[q].pc = "semwait" /\ call[q].id # id
  <2>1. call[q] \in CallType /\ Return(p)[q] = call[q]
    BY <1>1 DEF Return
  <2>2. call'[q] = IF call[q].pc = "semwait" /\ call[q].id = id
                   THEN [call[q] EXCEPT !.pc = "woken"] ELSE call[q]
    BY <2>1 DEF Wakeup
  <2> QED BY <1>3, <2>1, <2>2 DEF CallType
<1>4. ASSUME NEW q \in Proc \ {p}, call'[q].pc = "semwait"
      PROVE  SameValues(call[q].id)
  <2>1. call[q].id \in Live /\ call[q].id # id
    BY <1>1, <1>3, <1>4, WaiterFacts
  <2>2. CASE sem' = sem
    BY <1>1, <2>1, <2>2, Untouched
  <2>3. CASE \E v : sem' = [sem EXCEPT ![At(id, n)].val = v]
    BY <1>1, <2>1, <2>3, OneWrite
  <2> QED BY <2>2, <2>3
<1>5. call'[p].pc # "semwait"
  BY <1>2 DEF Idle
<1> QED BY <1>2, <1>3, <1>4, <1>5, StepBlocked

\* SETALL goes on, and who sleeps on its set sleeps on.
LEMMA SetallBlocked ==
  ASSUME BInv, NEW p \in Proc, SetallCopied(p)
  PROVE  \A q \in Proc : WaitsWell(q)
<1> DEFINE c == call[p]
<1>1. CInv /\ PoolInv /\ sem \in [Pool -> SemRec] /\ call \in [Proc -> CallType]
  BY DEF BInv, CInv, TInv, Types
<1>2. UNCHANGED sema /\ c.pc = "setall"
  BY DEF SetallCopied
<1>3. c.id \in Live /\ c.num \in 0 .. sema[c.id].nsems - 1 /\ c.semptr = At(c.id, c.num)
  <2>1. c \in CallType /\ InPlace(c)
    BY <1>1 DEF CInv
  <2>2. /\ c.id \in SemId /\ sema[c.id].alloc /\ c.num \in Nat /\ c.num < sema[c.id].nsems
        /\ c.semptr = At(c.id, c.num)
    BY <1>2, <2>1 DEF CallType, InPlace
  <2>3. c.id \in Live /\ sema[c.id].nsems \in 1 .. 5
    BY <1>1, <2>2, SetFacts
  <2> QED BY <2>2, <2>3
<1> DEFINE n == c.num
           id == c.id
<1>4. sem' = sem \/ \E v : sem' = [sem EXCEPT ![At(id, n)].val = v]
  BY <1>3 DEF SetallCopied
<1>5. CASE SetallEnds(p)
  <2>1. call' = Wakeup(Return(p), id)
    BY <1>5 DEF SetallEnds
  <2> HIDE DEF n, id
  <2>2. call[p].pc = "setall" => call[p].id = id
    BY DEF id
  <2> QED BY <1>2, <1>3, <1>4, <2>1, <2>2, EndBlocked DEF n, id
<1>6. CASE call' = [call EXCEPT ![p].num = n + 1, ![p].semptr = At(id, n + 1)]
  <2> DEFINE d == [c EXCEPT !.num = n + 1, !.semptr = At(id, n + 1)]
  <2>1. d.pc = "setall" /\ d.id = id
    BY <1>1, <1>2 DEF CallType
  <2>2. call' = [call EXCEPT ![p] = d]
    BY <1>6
  <2> HIDE DEF d
  <2>3. call'[p] = d /\ \A q \in Proc \ {p} : call'[q] = call[q] /\ Woken(call, call', q)
    BY <1>1, <2>2 DEF Woken
  <2>4. ASSUME NEW q \in Proc \ {p}, call'[q].pc = "semwait"
        PROVE  \/ SameValues(call[q].id)
               \/ call'[p].pc = "setall" /\ call'[p].id = call[q].id
    <3>1. call[q].id \in Live
      BY <1>1, <2>3, <2>4, WaiterFacts
    <3>2. CASE call[q].id = id
      BY <2>1, <2>3, <3>2
    <3>3. CASE call[q].id # id
      <4>1. CASE sem' = sem
        BY <1>1, <3>1, <4>1, Untouched
      <4>2. CASE \E v : sem' = [sem EXCEPT ![At(id, n)].val = v]
        BY <1>1, <1>3, <3>1, <3>3, <4>2, OneWrite
      <4> QED BY <1>4, <4>1, <4>2
    <3> QED BY <3>2, <3>3
  <2>5. call'[p].pc # "semwait" /\ call'[p].pc = "setall" /\ call'[p].id = call[p].id
    BY <2>1, <2>3
  <2> QED BY <1>2, <2>3, <2>4, <2>5, StepBlocked
<1> QED BY <1>5, <1>6 DEF SetallCopied

\* An exit wakes the sets that it adjusts.
LEMMA UndoBlocked ==
  ASSUME BInv, NEW p \in Proc, EntriesMakeSense(p), ApplyUndo(p), UNCHANGED sema,
         call[p].pc # "setall"
  PROVE  \A q \in Proc : WaitsWell(q)
<1> DEFINE ids == {e[1] : e \in Entries(p)}
<1>1. CInv /\ PoolInv /\ sem \in [Pool -> SemRec] /\ call \in [Proc -> CallType]
  BY DEF BInv, CInv, TInv, Types
<1>2. call'[p] = Idle /\ \A q \in Proc \ {p} : Woken(call, call', q)
  BY DEF ApplyUndo, Woken
<1>3. ASSUME NEW q \in Proc \ {p}, call'[q].pc = "semwait"
      PROVE  SameValues(call[q].id)
  <2> DEFINE i == call[q].id
  <2>1. call[q].pc = "semwait" /\ i \notin ids
    <3>1. call'[q] = IF call[q].pc = "semwait" /\ i \in ids
                     THEN [call[q] EXCEPT !.pc = "woken"] ELSE call[q]
      BY DEF ApplyUndo
    <3> HIDE DEF ids
    <3>2. call[q] \in CallType
      BY <1>1
    <3> QED BY <1>3, <3>1, <3>2 DEF CallType
  <2>2. i \in Live
    BY <1>1, <2>1, WaiterFacts
  <2>3. ASSUME NEW m \in 0 .. sema[i].nsems - 1
        PROVE  sem'[At(i, m)] = sem[At(i, m)]
    <3> DEFINE j == At(i, m)
    <3>1. j \in Pool
      BY <1>1, <2>2, SetFacts DEF Live
    <3>2. {e \in Entries(p) : At(e[1], e[2]) = j} = {}
      <4> SUFFICES ASSUME NEW e \in Entries(p), At(e[1], e[2]) = j PROVE FALSE
        OBVIOUS
      <4>1. e[1] \in SemId /\ e[2] \in Num /\ sema[e[1]].alloc /\ e[2] < sema[e[1]].nsems
        BY DEF Entries, EntriesMakeSense
      <4>2. sema[e[1]].nsems \in 1 .. 5 /\ e[1] \in Live
        BY <1>1, <4>1, SetFacts
      <4>3. e[2] \in 0 .. sema[e[1]].nsems - 1
        BY <4>1, <4>2 DEF Num
      <4>4. e[1] = i
        BY <1>1, <2>2, <4>2, <4>3, Apart
      <4> QED BY <2>1, <4>4
    <3>3. sem'[j] = sem[j]
      <4> HIDE DEF j
      <4> QED BY <3>1, <3>2 DEF ApplyUndo
    <3> QED BY <3>3
  <2> QED BY <1>1, <2>2, <2>3, Untouched
<1>4. call'[p].pc # "semwait"
  BY <1>2 DEF Idle
<1> QED BY <1>2, <1>3, <1>4, StepBlocked

\* semop leaves nobody asleep who need not be.
LEMMA SemopBlocked ==
  ASSUME BInv, Undisturbed, FewProcesses, Fits16, ZeroFirst, InRange, NEW p \in Proc,
         \/ \E id \in SemId, sops \in Vectors : Semop(p, id, sops)
         \/ SemopCopied(p) \/ SemopWoken(p)
  PROVE  \A q \in Proc : WaitsWell(q)
<1>1. /\ CInv /\ Types /\ PoolInv /\ (\A q \in Proc : InSemop(call[q]))
      /\ call[p] \in CallType
      /\ Counted(sem, call, Proc) /\ sem \in [Pool -> SemRec]
      /\ call \in [Proc -> CallType] /\ (\A q \in Proc : InPlace(call[q]))
  BY DEF BInv, CInv, TInv, Types
<1>2. ASSUME NEW id \in SemId, NEW sops \in Vectors, Semop(p, id, sops)
      PROVE  \A q \in Proc : WaitsWell(q)
  <2> DEFINE c == [Idle EXCEPT !.pc = "copyin", !.id = id, !.seq = sema[id].seq,
                               !.sops = sops]
  <2>1. sema[id].alloc /\ UNCHANGED sema /\ call[p].pc = "user"
    BY <1>2 DEF Semop, Enters
  <2>2. c \in CallType /\ c.id = id /\ c.sops = sops /\ c.pc = "copyin"
    <3>1. sema[id].seq \in 0 .. MaxSeq
      BY <1>1 DEF PoolInv, SlotType
    <3>2. c = Begun(id, sema[id].seq, sops)
      BY DEF Begun
    <3> HIDE DEF c
    <3> QED BY <3>1, <3>2, BeginType
  <2>3. CASE Try(p, sem, c)
    <3>1. Counted(sem, call, Proc \ {p})
      BY <1>1, <2>1, Without
    <3> HIDE DEF c
    <3> QED BY <1>1, <2>1, <2>2, <2>3, <3>1, TryBlocked
  <2>4. CASE call' = [call EXCEPT ![p] = c] /\ UNCHANGED sem
    <3> HIDE DEF c
    <3>1. call'[p] = c /\ \A q \in Proc \ {p} : call'[q] = call[q] /\ Woken(call, call', q)
      BY <1>1, <2>4 DEF Woken
    <3>2. ASSUME NEW q \in Proc \ {p}, call'[q].pc = "semwait"
          PROVE  SameValues(call[q].id)
      <4>1. call[q].id \in Live
        BY <1>1, <3>1, <3>2, WaiterFacts
      <4> QED BY <1>1, <2>4, <4>1, Untouched
    <3> QED BY <2>1, <2>2, <3>1, <3>2, StepBlocked
  <2> QED BY <1>2, <2>3, <2>4 DEF Semop
<1>3. ASSUME SemopCopied(p)
      PROVE  \A q \in Proc : WaitsWell(q)
  <2>1. Try(p, sem, call[p]) /\ UNCHANGED sema /\ call[p].pc = "copyin"
    BY <1>3 DEF SemopCopied
  <2>2. call[p].sops \in Vectors /\ sema[call[p].id].alloc
    BY <1>1, <2>1 DEF InSemop
  <2>3. Counted(sem, call, Proc \ {p})
    BY <1>1, <2>1, Without
  <2> QED BY <1>1, <2>1, <2>2, <2>3, TryBlocked
<1>4. ASSUME SemopWoken(p)
      PROVE  \A q \in Proc : WaitsWell(q)
  <2> DEFINE c == call[p]
  <2>1. UNCHANGED sema /\ c.pc = "woken" /\ c.sops \in Vectors
    BY <1>1, <1>4 DEF SemopWoken, InSemop
  <2>2. sema[c.id].alloc /\ c.seq = sema[c.id].seq
    BY <1>1, <2>1 DEF InPlace
  <2>3. Try(p, Uncounted(p), c)
    BY <1>4, <2>2 DEF SemopWoken
  <2>4. Uncounted(p) \in [Pool -> SemRec] /\ Counted(Uncounted(p), call, Proc \ {p})
    BY <1>1, <2>1, UncountedType, Leave
  <2>5. \A j \in Pool : Uncounted(p)[j].val = sem[j].val
    <3> DEFINE k == c.semptr
    <3>1. \/ Uncounted(p) = [sem EXCEPT ![k].zcnt = u16(@ - 1)]
          \/ Uncounted(p) = [sem EXCEPT ![k].ncnt = u16(@ - 1)]
      BY DEF Uncounted
    <3> HIDE DEF k
    <3>2. CASE Uncounted(p) = [sem EXCEPT ![k].zcnt = u16(@ - 1)]
      BY <1>1, <3>2, CountsNotValues
    <3>3. CASE Uncounted(p) = [sem EXCEPT ![k].ncnt = u16(@ - 1)]
      BY <1>1, <3>3, CountsNotValues
    <3> QED BY <3>1, <3>2, <3>3
  <2> QED BY <1>1, <2>1, <2>2, <2>3, <2>4, <2>5, TryBlocked
<1> QED BY <1>2, <1>3, <1>4

\* semget makes a set beside those that somebody sleeps on.
LEMMA SemgetBlocked ==
  ASSUME BInv, NEW p \in Proc, NEW n \in SetSizes, Semget(p, n)
  PROVE  /\ \A q \in Proc : WaitsWell(q)
         /\ \A id \in Live' : sema'[id].nsems \in SetSizes
<1>1. CInv /\ PoolInv /\ sem \in [Pool -> SemRec] /\ SlotType
  BY DEF BInv, CInv, TInv, Types, PoolInv
<1>2. PICK new \in SemId :
        /\ ~sema[new].alloc
        /\ sema' = [sema EXCEPT ![new] = [alloc |-> TRUE, seq |-> @.seq + 1,
                                          base |-> semtot, nsems |-> n]]
        /\ sem' = [j \in Pool |-> IF j \in semtot .. semtot + n - 1
                                  THEN [val |-> 0, ncnt |-> 0, zcnt |-> 0]
                                  ELSE sem[j]]
        /\ call' = call
  BY DEF Semget
<1>3. (\A i \in SemId \ {new} : sema'[i] = sema[i]) /\ sema'[new].nsems = n
  BY <1>1, <1>2 DEF SlotType
<1>4. \A id \in Live' : sema'[id].nsems \in SetSizes
  BY <1>3 DEF BInv, Live
<1>5. ASSUME NEW q \in Proc, call'[q].pc = "semwait"
      PROVE  Blocked(q)' \/ InSetall(call[q].id)'
  <2> DEFINE i == call[q].id
  <2>1. call'[q] = call[q] /\ call[q].pc = "semwait" /\ i \in Live /\ i # new
    BY <1>1, <1>2, <1>5, WaiterFacts DEF Live
  <2>2. sema'[i] = sema[i]
    BY <1>3, <2>1 DEF Live
  <2>3. CASE InSetall(i)
    BY <1>2, <2>3 DEF InSetall
  <2>4. CASE Blocked(q)
    <3>1. ASSUME NEW m \in 0 .. sema[i].nsems - 1
          PROVE  sem'[At(i, m)].val = sem[At(i, m)].val
      <4> DEFINE j == At(i, m)
      <4>1. j \in Pool /\ j < semtot /\ j \in Int /\ semtot \in Int
        <5>1. j \in Pool /\ j < semtot
          BY <1>1, <2>1, SetFacts DEF Live, At
        <5> QED BY <1>1, <5>1 DEF Pool, SlotType
      <4> HIDE DEF j
      <4>2. ~(j \in semtot .. semtot + n - 1)
        BY <4>1
      <4>3. sem'[j] = sem[j]
        BY <1>2, <4>1, <4>2
      <4> QED BY <4>3 DEF j
    <3>2. SameValues(i)
      BY <1>1, <2>1, <3>1, Untouched
    <3>3. ValuesOf(sem, call[q].id)' = ValuesOf(sem, i)
      <4>1. ValuesOf(sem, call[q].id)' =
              [m \in 0 .. sema[i].nsems - 1 |-> sem'[At(i, m)].val]
        BY <2>1, <2>2 DEF ValuesOf, At
      <4> QED BY <3>1, <4>1 DEF ValuesOf
    <3> QED BY <2>1, <2>4, <3>3 DEF Blocked, MustWait
  <2> QED BY <2>1, <2>3, <2>4 DEF BInv
<1> QED BY <1>4, <1>5 DEF WaitsWell

\* Each step leaves nobody asleep who need not be.
LEMMA BlockedStep ==
  ASSUME BInv, Undisturbed, FewProcesses, Fits16, ZeroFirst, InRange, NEW p \in Proc,
         Step(p)
  PROVE  /\ \A q \in Proc : WaitsWell(q)
         /\ \A id \in Live' : sema'[id].nsems \in SetSizes
<1> DEFINE Goal == \A q \in Proc : WaitsWell(q)
           Sizes == \A id \in Live' : sema'[id].nsems \in SetSizes
           c == call[p]
<1>1. /\ CInv /\ Types /\ PoolInv /\ sem \in [Pool -> SemRec] /\ call \in [Proc -> CallType]
      /\ (\A q \in Proc : InPlace(call[q])) /\ c \in CallType /\ c.id \in SemId
  BY DEF BInv, CInv, TInv, Types, CallType
<1>2. UNCHANGED sema => Sizes
  BY DEF BInv, Live
<1>3. ASSUME NEW d, \/ call' = [call EXCEPT ![p] = d] /\ d.pc # "semwait"
                    \/ call' = call /\ c.pc # "semwait",
             UNCHANGED <<sema, sem>>, c.pc # "setall"
      PROVE  Goal
  <2>1. call'[p].pc # "semwait" /\ \A q \in Proc \ {p} : call'[q] = call[q]
        /\ Woken(call, call', q)
    BY <1>1, <1>3 DEF Woken
  <2>2. ASSUME NEW q \in Proc \ {p}, call'[q].pc = "semwait"
        PROVE  SameValues(call[q].id)
    <3>1. call[q].id \in Live
      BY <1>1, <2>1, <2>2, WaiterFacts
    <3> QED BY <1>1, <1>3, <3>1, Untouched
  <2> QED BY <1>3, <2>1, <2>2, StepBlocked
<1>4. ASSUME \/ \E id \in SemId, sops \in Vectors : Semop(p, id, sops)
             \/ SemopCopied(p) \/ SemopWoken(p)
      PROVE  Goal /\ Sizes
  <2>1. UNCHANGED sema
    BY <1>4 DEF Semop, SemopCopied, SemopWoken
  <2> QED BY <1>2, <1>4, <2>1, SemopBlocked
<1>5. ~SemopInterrupted(p) /\ \A id \in SemId : ~Rmid(p, id)
  BY DEF SemopInterrupted, Rmid, Undisturbed
<1>6. ASSUME NEW n \in SetSizes, Semget(p, n) PROVE Goal /\ Sizes
  BY <1>6, SemgetBlocked
<1>7. ASSUME NEW id \in SemId, Setall(p, id) PROVE Goal /\ Sizes
  <2> DEFINE d == [Idle EXCEPT !.pc = "setallarg", !.id = id]
  <2>1. d.pc = "setallarg"
    BY PausedType
  <2>2. call' = [call EXCEPT ![p] = d] /\ UNCHANGED <<sema, sem>> /\ c.pc = "user"
    BY <1>7 DEF Setall, Enters
  <2> HIDE DEF d
  <2> QED BY <1>2, <1>3, <2>1, <2>2
<1>8. ASSUME NEW id \in Live, NEW n \in 0 .. sema[id].nsems - 1, NEW v, SetVal(p, id, n, v),
             UNCHANGED sema, c.pc # "setall"
      PROVE  Goal
  <2>1. (\E x : sem' = [sem EXCEPT ![At(id, n)].val = x]) /\ call' = Wakeup(Return(p), id)
    BY <1>8 DEF SetVal
  <2> QED BY <1>8, <2>1, EndBlocked
<1>9. ASSUME NEW id \in SemId, NEW n \in Num, Setval(p, id, n) PROVE Goal /\ Sizes
  <2>1. UNCHANGED sema /\ c.pc = "user" /\ id \in Live /\ n < sema[id].nsems
    BY <1>9 DEF Setval, Enters, Live
  <2>2. n \in 0 .. sema[id].nsems - 1
    <3>1. sema[id].nsems \in 1 .. 5
      BY <1>1, <2>1, SetFacts DEF Live
    <3> QED BY <2>1, <3>1 DEF Num
  <2>3. CASE \E v \in Values : SetVal(p, id, n, v)
    BY <1>2, <1>8, <2>1, <2>2, <2>3
  <2>4. CASE call' = [call EXCEPT ![p] =
                           [Idle EXCEPT !.pc = "setval", !.id = id, !.num = n]]
             /\ UNCHANGED sem
    <3> DEFINE d == [Idle EXCEPT !.pc = "setval", !.id = id, !.num = n]
    <3>1. d.pc = "setval"
      BY DEF Idle
    <3> HIDE DEF d
    <3>2. call' = [call EXCEPT ![p] = d]
      BY <2>4 DEF d
    <3> QED BY <1>2, <1>3, <2>1, <2>4, <3>1, <3>2
  <2> QED BY <1>9, <2>3, <2>4 DEF Setval
<1>10. ASSUME SetvalCopied(p) PROVE Goal /\ Sizes
  <2>1. UNCHANGED sema /\ c.pc = "setval"
    BY <1>10 DEF SetvalCopied
  <2>2. c.id \in Live /\ c.num \in 0 .. sema[c.id].nsems - 1
    <3>1. sema[c.id].alloc /\ c.num < sema[c.id].nsems /\ c.num \in Nat
      BY <1>1, <2>1 DEF InPlace, CallType
    <3>2. sema[c.id].nsems \in 1 .. 5 /\ c.id \in Live
      BY <1>1, <3>1, SetFacts
    <3> QED BY <3>1, <3>2
  <2> QED BY <1>2, <1>8, <1>10, <2>1, <2>2 DEF SetvalCopied
<1>11. ASSUME SetallArg(p) PROVE Goal /\ Sizes
  <2> DEFINE d == [c EXCEPT !.pc = "setall", !.semptr = At(c.id, 0)]
  <2>1. d.pc = "setall"
    BY <1>1 DEF CallType
  <2>2. c.pc = "setallarg" /\ call' = [call EXCEPT ![p] = d] /\ UNCHANGED <<sema, sem>>
    BY <1>11 DEF SetallArg
  <2> HIDE DEF d
  <2> QED BY <1>2, <1>3, <2>1, <2>2
<1>12. ASSUME SetallCopied(p) PROVE Goal /\ Sizes
  <2>1. UNCHANGED sema
    BY <1>12 DEF SetallCopied
  <2> QED BY <1>2, <1>12, <2>1, SetallBlocked
<1>13. ASSUME Freeze(p) \/ Thaw(p) PROVE Goal /\ Sizes
  <2>1. UNCHANGED <<sema, sem, call>> /\ c.pc = "user"
    BY <1>13 DEF Freeze, Thaw, Enters
  <2> QED BY <1>2, <1>3, <2>1
<1>14. ASSUME Finish(p), c.pc \in {"user", "exiting"} PROVE Goal /\ Sizes
  <2>1. CASE EntriesMakeSense(p) /\ ApplyUndo(p) /\ UNCHANGED sema
    BY <1>2, <1>14, <2>1, UndoBlocked
  <2>2. CASE Panic
    BY <1>2, <1>3, <1>14, <2>2 DEF Panic
  <2> QED BY <1>14, <2>1, <2>2 DEF Finish
<1>15. ASSUME Semexit(p) PROVE Goal /\ Sizes
  <2>1. c.pc = "user"
    BY <1>15 DEF Semexit
  <2>2. CASE call' = [call EXCEPT ![p] = [Idle EXCEPT !.pc = "exiting"]]
             /\ UNCHANGED <<sema, sem>>
    <3> DEFINE d == [Idle EXCEPT !.pc = "exiting"]
    <3>1. d.pc = "exiting"
      BY <1>1, PausedType
    <3> HIDE DEF d
    <3>2. call' = [call EXCEPT ![p] = d]
      BY <2>2 DEF d
    <3> QED BY <1>2, <1>3, <2>1, <2>2, <3>1, <3>2
  <2> QED BY <1>14, <1>15, <2>1, <2>2 DEF Semexit
<1>16. ASSUME SemexitThawed(p) PROVE Goal /\ Sizes
  <2>1. c.pc = "exiting"
    BY <1>16 DEF SemexitThawed
  <2>2. CASE Panic
    BY <1>2, <1>3, <2>1, <2>2 DEF Panic
  <2> QED BY <1>14, <1>16, <2>1, <2>2 DEF SemexitThawed
<1> QED BY <1>4, <1>5, <1>6, <1>7, <1>9, <1>10, <1>11, <1>12, <1>13, <1>15, <1>16 DEF Step

\* Nobody sleeps in semop whose vector could be performed, in every reachable state and for
\* all values of the constants, if no set is removed and no sleep interrupted, every
\* operation names a semaphore that its set has, no vector takes from a semaphore before it
\* awaits that one's zero, and values and counts fit 16 bits: do_wakeup compares the counts
\* with what the vector did, and SETVAL, SETALL and semexit wake everybody
\* (sysv_sem.c:628-641, 767-776).
THEOREM NobodyIsForgotten ==
  ASSUME Undisturbed, FewProcesses, Fits16, ZeroFirst, InRange
  PROVE  Spec => []NoMissedWakeup
<1>1. Init => \A p \in Proc : call[p].pc # "semwait"
  BY DEF Init, Idle
<1>2. Init => Live = {}
  BY DEF Init, Live
<1>3. ASSUME CInv, BInv, CInv', [Next]_vars PROVE BInv'
  <2>1. ASSUME NEW p \in Proc, Step(p) PROVE BInv'
    BY <1>3, <2>1, BlockedStep DEF BInv, WaitsWell
  <2>2. CASE UNCHANGED vars
    BY <1>3, <2>2 DEF vars, BInv, Live, Blocked, MustWait, ValuesOf, At, InSetall
  <2> QED BY <1>3, <2>1, <2>2 DEF Next
<1>4. ASSUME BInv PROVE NoMissedWakeup
  <2> SUFFICES ASSUME NEW p \in Proc, call[p].pc = "semwait"
               PROVE  LET c == call[p]
                          v == ValuesOf(sem, c.id)
                      IN  /\ sema[c.id].alloc /\ sema[c.id].seq = c.seq
                          /\ \/ StopsAt(v, c.sops) <= Len(c.sops)
                             \/ \E q \in Proc : call[q].pc = "setall" /\ call[q].id = c.id
    BY DEF NoMissedWakeup
  <2> DEFINE c == call[p]
             v == ValuesOf(sem, c.id)
             k == StopsAt(v, c.sops)
             n == Len(c.sops)
  <2>1. /\ c.id \in Live /\ c.seq = sema[c.id].seq /\ c.sops \in Vectors /\ c.at \in 1 .. n
    BY <1>4, WaiterFacts DEF BInv
  <2>2. CASE InSetall(c.id)
    BY <2>1, <2>2 DEF InSetall, Live
  <2>3. CASE MustWait(v, c.sops, c.at)
    <3>1. n \in Nat
      BY <2>1, VectorFacts
    <3>2. k \in 1 .. n+1 /\ \A j \in 1 .. k-1 : ~MustWait(v, c.sops, j)
      BY <3>1, Stops
    <3> HIDE DEF v, k, n
    <3>3. k <= n
      BY <2>1, <2>3, <3>1, <3>2
    <3> QED BY <2>1, <3>3 DEF Live, k, n, v
  <2> QED BY <1>4, <2>2, <2>3 DEF BInv, Blocked
<1>5. Spec => []CInv
  <2>1. Undisturbed /\ FewProcesses
    OBVIOUS
  <2> QED BY <2>1, CountedStays
<1>6. Init /\ CInv => BInv
  BY <1>1, <1>2 DEF BInv
<1> QED BY <1>3, <1>4, <1>5, <1>6, PTL DEF Spec

--------------------------------------------------------------------------------
\* The refinement of SemaphoreSets: each vector is performed as a whole or not at all.

\* The semaphores that vectors with undo name
Owing == {m \in Num : \E sops \in Vectors : \E k \in 1 .. Len(sops) :
                         sops[k].undo /\ sops[k].num = m}

\* A vector that is abandoned because a semaphore does not exist has not changed one
\* before: the return(EFBIG) of sysv_sem.c:612 leaves what it did in place.
Whole ==
    \A sops \in Vectors : \A n \in SetSizes : \A k \in 1 .. Len(sops) :
      sops[k].num >= n => sops[1].num >= n

\* Where SETVAL is used, undo is for one semaphore of a set only: semundo_clear stops at
\* the first entry for the set (sysv_sem.c:269-280).
OneOwed == "setval" \in Calls => \A m, n \in Owing : m = n

\* A slot without a set is told from one with a set.
NoSetApart == \A n \in 1 .. 5 : NoSet \notin [0 .. n-1 -> U16]

\* What SemaphoreSets needs of the constants
Orderly == /\ Settled /\ "setall" \notin Calls /\ Whole /\ OneOwed /\ Fits16 /\ NoSetApart

\* No value runs over when what is owed to it is added (sysv_sem.c:926-930).
NoOverrun ==
    \A p \in Proc : \A id \in Live : \A n \in 0 .. sema[id].nsems - 1 :
      sem[At(id, n)].val + undo[p][id][n] <= Top

\* No SETALL is under way, and a SETVAL that sleeps is for a semaphore that exists.
SetvalWell(c) ==
    /\ c.pc \notin {"setallarg", "setall"}
    /\ c.pc = "setval" => /\ {"setval", "fault"} \subseteq Calls
                          /\ sema[c.id].alloc /\ c.num < sema[c.id].nsems

\* Only semaphores that vectors with undo name are owed anything.
OwedOnly(u) == \A q \in Proc : \A i \in SemId : \A n \in Num : u[q][i][n] # 0 => n \in Owing

\* The inductive invariant behind AtomicSets
SInv ==
    /\ TInv
    /\ \A id \in Live : sema[id].nsems \in SetSizes
    /\ \A q \in Proc : SetvalWell(call[q])
    /\ OwedOnly(undo)

\* The step changes no value and nothing that is owed.
Quiet == UNCHANGED <<sema, undo>> /\ \A j \in Pool : sem'[j].val = sem[j].val

\* p performs the vector sops on the set in slot id.
Operated(p, id, sops) ==
    LET v   == ValuesOf(sem, id)
        res == After(v, sops)[Len(sops)]
    IN  /\ UNCHANGED sema /\ sema[id].alloc
        /\ \A k \in 1 .. Len(sops) : ~OutOfRange(v, sops, k) /\ ~MustWait(v, sops, k)
        /\ InBound(res)
        /\ \A i \in Live : \A m \in 0 .. sema[i].nsems - 1 :
             sem'[At(i, m)].val = IF i = id THEN u16(res[m]) ELSE sem[At(i, m)].val
        /\ undo' = [undo EXCEPT ![p] =
                      Adjusted(@, id, Adjustments(sops))[Len(Adjustments(sops))]]

\* What a vector does to a semaphore for which it has only operations that do nothing
LEMMA AfterNothing ==
  ASSUME NEW D, NEW v \in [D -> Int], NEW s, Len(s) \in Nat, Vector(s, Len(s)),
         NEW d \in D, \A k \in 1 .. Len(s) : s[k].num = d => s[k].op = 0
  PROVE  \A k \in 0 .. Len(s) : After(v, s)[k][d] = v[d]
<1> DEFINE n == Len(s)
           a(k) == After(v, s)[k][d]
           T == {k \in 0 .. n : a(k) = v[d]}
<1>1. /\ a(0) = v[d] /\ v[d] \in Int /\ n \in Nat
      /\ \A k \in 0 .. n : a(k) \in Int
      /\ \A k \in 1 .. n : /\ s[k].op \in Int
                           /\ a(k) = IF s[k].num = d THEN a(k-1) + s[k].op ELSE a(k-1)
  BY AfterOne
<1> HIDE DEF a
<1>2. 0 \in T
  BY <1>1
<1>3. ASSUME NEW k \in 1 .. n, k-1 \in T PROVE k \in T
  BY <1>1, <1>3
<1>4. 0 .. n \subseteq T
  <2> HIDE DEF T
  <2> QED BY <1>1, <1>2, <1>3, UpTo
<1> QED BY <1>4 DEF a

\* No value goes below 0 on the way through a vector that is performed.
LEMMA AfterNat ==
  ASSUME NEW D, NEW v \in [D -> Int], NEW s, Len(s) \in Nat, Vector(s, Len(s)), NEW d \in D,
         v[d] >= 0, \A j \in 1 .. Len(s) : ~MustWait(v, s, j)
  PROVE  \A k \in 0 .. Len(s) : After(v, s)[k][d] \in Nat
<1> DEFINE n == Len(s)
           a(k) == After(v, s)[k][d]
           T == {k \in 0 .. n : a(k) >= 0}
<1>1. /\ a(0) = v[d] /\ v[d] \in Int /\ n \in Nat
      /\ \A k \in 0 .. n : a(k) \in Int
      /\ \A k \in 1 .. n : /\ s[k].op \in Int
                           /\ a(k) = IF s[k].num = d THEN a(k-1) + s[k].op ELSE a(k-1)
  BY AfterOne
<1>2. \A k \in 1 .. n : s[k].num = d /\ s[k].op < 0 => ~(a(k-1) + s[k].op < 0)
  BY DEF MustWait
<1> HIDE DEF a
<1>3. 0 \in T
  BY <1>1
<1>4. ASSUME NEW k \in 1 .. n, k-1 \in T PROVE k \in T
  <2> DEFINE x == a(k-1)
             op == s[k].op
  <2>1. /\ x \in Int /\ op \in Int /\ x >= 0 /\ a(k) \in Int
        /\ a(k) = x \/ (a(k) = x + op /\ ~(op < 0 /\ x + op < 0))
    BY <1>1, <1>2, <1>4
  <2> HIDE DEF x, op
  <2>2. a(k) >= 0
    BY <2>1
  <2> QED BY <2>2
<1>5. 0 .. n \subseteq T
  <2> HIDE DEF T
  <2> QED BY <1>1, <1>3, <1>4, UpTo
<1>6. \A k \in 0 .. n : a(k) \in Nat
  BY <1>1, <1>5
<1> QED BY <1>6 DEF a

\* A value of 16 bits stays as it is when it is stored.
LEMMA Keeps16 == \A x \in U16 : u16(x) = x /\ x \in Nat /\ x <= Top
<1>1. \A x \in U16 : x \in Nat /\ x <= Top
  BY DEF U16, Top
<1> QED BY <1>1, Same16

\* The values of a set depend on the values in the pool only.
LEMMA SameValuesOf ==
  ASSUME PoolInv, NEW id \in SemId, sema[id].alloc,
         NEW S, NEW R, \A j \in Pool : S[j].val = R[j].val
  PROVE  ValuesOf(S, id) = ValuesOf(R, id)
BY SetFacts DEF ValuesOf

\* An attempt to perform a vector does so, or changes no value.
LEMMA TryKinds ==
  ASSUME SInv, Orderly, NEW p \in Proc, NEW S \in [Pool -> SemRec],
         \A j \in Pool : S[j].val = sem[j].val,
         NEW c \in CallType, c.sops \in Vectors, sema[c.id].alloc,
         Try(p, S, c), UNCHANGED sema
  PROVE  Quiet \/ Operated(p, c.id, c.sops)
<1> DEFINE v == ValuesOf(S, c.id)
           n == Len(c.sops)
           D == 0 .. sema[c.id].nsems - 1
           k == StopsAt(v, c.sops)
<1>1. c.id \in SemId /\ PoolInv /\ Types /\ c.id \in Live
  BY DEF SInv, TInv, CallType, Live
<1>2. v \in [D -> U16] /\ v \in [D -> Int] /\ D \subseteq Nat /\ DOMAIN v = D
  <2>1. v \in [D -> U16]
    BY <1>1, ValuesType
  <2>2. U16 \subseteq Int
    BY DEF U16
  <2>3. D \subseteq Nat
    OBVIOUS
  <2> HIDE DEF D, v
  <2> QED BY <2>1, <2>2, <2>3
<1>3. n \in Nat /\ Vector(c.sops, n)
  BY VectorFacts
<1>4. v = ValuesOf(sem, c.id)
  BY <1>1, SameValuesOf
<1> HIDE DEF v
<1>5. /\ k \in 1 .. n+1
      /\ \A j \in 1 .. k-1 : ~OutOfRange(v, c.sops, j) /\ ~MustWait(v, c.sops, j)
  BY <1>3, Stops
<1>6. \A w \in [D -> Int] : \A i \in Live : \A m \in 0 .. sema[i].nsems - 1 :
        WithValues(S, c.id, w)[At(i, m)].val = IF i = c.id THEN u16(w[m]) ELSE S[At(i, m)].val
  BY <1>1, OnlyItsSet
<1> HIDE DEF k, n, D
<1>7. ASSUME k <= n, OutOfRange(v, c.sops, k), TooBig(p, S, c, v, k) PROVE Quiet
  <2>1. k = 1
    <3>1. sema[c.id].nsems \in SetSizes /\ sema[c.id].nsems \in 1 .. 5
      BY <1>1, SetFacts DEF SInv
    <3>2. c.sops[k].num \in Num /\ c.sops[1].num \in Num /\ k \in 1 .. n
      BY <1>3, <1>5, <1>7 DEF Vector
    <3>3. c.sops[k].num >= sema[c.id].nsems
      BY <1>2, <1>7, <3>1, <3>2 DEF OutOfRange, D, Num
    <3>4. c.sops[1].num >= sema[c.id].nsems
      BY <3>1, <3>2, <3>3 DEF Orderly, Whole, n
    <3>5. OutOfRange(v, c.sops, 1)
      BY <1>2, <3>1, <3>2, <3>4 DEF OutOfRange, D, Num
    <3> QED BY <1>3, <1>5, <3>5
  <2>2. sem' = WithValues(S, c.id, v) /\ undo' = undo
    <3>1. After(v, c.sops)[0] = v
      BY <1>2, <1>3, AfterSteps DEF n
    <3> QED BY <1>7, <2>1, <3>1 DEF TooBig
  <2>3. \A j \in Pool : WithValues(S, c.id, v)[j].val = S[j].val
    <3> SUFFICES ASSUME NEW j \in Pool PROVE WithValues(S, c.id, v)[j].val = S[j].val
      OBVIOUS
    <3>1. CASE \E m \in DOMAIN v : At(c.id, m) = j
      <4>1. PICK m \in D : At(c.id, m) = j
        BY <1>2, <3>1
      <4>2. WithValues(S, c.id, v)[At(c.id, m)].val = u16(v[m])
        <5>1. m \in 0 .. sema[c.id].nsems - 1 /\ v \in [0 .. sema[c.id].nsems - 1 -> Int]
          BY <1>2 DEF D
        <5> QED BY <1>1, <5>1, ItsSet
      <4>3. v[m] = S[At(c.id, m)].val
        BY DEF v, ValuesOf, D
      <4>4. v[m] \in U16
        BY <1>2
      <4>5. u16(v[m]) = v[m]
        BY <4>4, Keeps16
      <4> QED BY <4>1, <4>2, <4>3, <4>5
    <3>2. CASE ~\E m \in DOMAIN v : At(c.id, m) = j
      BY <3>2 DEF WithValues
    <3> QED BY <3>1, <3>2
  <2> QED BY <2>2, <2>3 DEF Quiet
<1>8. ASSUME WouldWait(p, S, c, k) PROVE Quiet
  <2>1. undo' = undo
    BY <1>8 DEF WouldWait
  <2> DEFINE j == At(c.id, c.sops[k].num)
  <2>2. \/ sem' = S
        \/ sem' = [S EXCEPT ![j].zcnt = u16(@ + 1)]
        \/ sem' = [S EXCEPT ![j].ncnt = u16(@ + 1)]
    BY <1>8 DEF WouldWait
  <2> DEFINE x == u16(S[j].zcnt + 1)
             y == u16(S[j].ncnt + 1)
  <2>3. sem' = S \/ sem' = [S EXCEPT ![j].zcnt = x] \/ sem' = [S EXCEPT ![j].ncnt = y]
    BY <2>2
  <2> HIDE DEF j, x, y
  <2>4. \A i \in Pool : sem'[i].val = S[i].val
    <3>1. CASE sem' = S
      BY <3>1
    <3>2. CASE sem' = [S EXCEPT ![j].zcnt = x]
      <4>1. \A i \in Pool : [S EXCEPT ![j].zcnt = x][i].val = S[i].val
        BY CountsNotValues
      <4> QED BY <3>2, <4>1
    <3>3. CASE sem' = [S EXCEPT ![j].ncnt = y]
      <4>1. \A i \in Pool : [S EXCEPT ![j].ncnt = y][i].val = S[i].val
        BY CountsNotValues
      <4> QED BY <3>3, <4>1
    <3> QED BY <2>3, <3>1, <3>2, <3>3
  <2> QED BY <2>1, <2>4 DEF Quiet
<1>9. ASSUME k = n+1, Performed(p, S, c, v) PROVE Quiet \/ Operated(p, c.id, c.sops)
  <2> DEFINE res == After(v, c.sops)[n]
             adj == Adjustments(c.sops)
  <2>1. CASE sem' = S /\ UNCHANGED undo
    BY <2>1 DEF Quiet
  <2>2. CASE /\ InBound(res)
             /\ undo' = [undo EXCEPT ![p] = Adjusted(@, c.id, adj)[Len(adj)]]
             /\ sem' = WithValues(S, c.id, res)
    <3>1. \A j \in 1 .. n : ~OutOfRange(v, c.sops, j) /\ ~MustWait(v, c.sops, j)
      BY <1>3, <1>5, <1>9
    <3>2. res \in [D -> Int]
      <4>1. After(v, c.sops) \in [0 .. n -> [D -> Int]]
        BY <1>2, <1>3, AfterSteps DEF n
      <4> QED BY <1>3, <4>1
    <3> HIDE DEF adj, res
    <3>3. \A i \in Live : \A m \in 0 .. sema[i].nsems - 1 :
            sem'[At(i, m)].val = IF i = c.id THEN u16(res[m]) ELSE sem[At(i, m)].val
      <4>1. \A i \in Live : \A m \in 0 .. sema[i].nsems - 1 : At(i, m) \in Pool
        BY <1>1, SetFacts DEF Live
      <4> QED BY <1>6, <2>2, <3>2, <4>1
    <3> QED BY <1>4, <2>2, <3>1, <3>3 DEF Operated, res, adj, n
  <2> QED BY <1>9, <2>1, <2>2 DEF Performed, n
<1> QED BY <1>7, <1>8, <1>9 DEF Try, v, k, n

\* The values of the sets, as SemaphoreSets has them
SetMap == [id \in SemId |-> IF sema[id].alloc THEN ValuesOf(sem, id) ELSE NoSet]

\* What SemaphoreSets does or leaves
Mapped == [Sets!Next]_<<SetMap, undo>>

\* The sets that exist, in SemaphoreSets
LEMMA MapFacts ==
  ASSUME SInv, NoSetApart, NEW id \in SemId
  PROVE  /\ ~sema[id].alloc => SetMap[id] = NoSet
         /\ sema[id].alloc => /\ SetMap[id] = ValuesOf(sem, id) /\ SetMap[id] # NoSet
                              /\ SetMap[id] \in [0 .. sema[id].nsems - 1 -> U16]
                              /\ SetMap[id] \in [0 .. sema[id].nsems - 1 -> Int]
<1>1. ~sema[id].alloc => SetMap[id] = NoSet
  BY DEF SetMap
<1>2. ASSUME sema[id].alloc
      PROVE  /\ SetMap[id] = ValuesOf(sem, id) /\ SetMap[id] # NoSet
             /\ SetMap[id] \in [0 .. sema[id].nsems - 1 -> U16]
             /\ SetMap[id] \in [0 .. sema[id].nsems - 1 -> Int]
  <2>1. SetMap[id] = ValuesOf(sem, id)
    BY <1>2 DEF SetMap
  <2>2. ValuesOf(sem, id) \in [0 .. sema[id].nsems - 1 -> U16]
    BY <1>2, ValuesType DEF SInv, TInv, Types
  <2>3. sema[id].nsems \in 1 .. 5
    BY <1>2, SetFacts DEF SInv, TInv
  <2>4. ValuesOf(sem, id) # NoSet
    BY <2>2, <2>3 DEF NoSetApart
  <2>5. U16 \subseteq Int
    BY DEF U16
  <2>6. SetMap[id] \in [0 .. sema[id].nsems - 1 -> Int]
    BY <2>1, <2>2, <2>5
  <2> QED BY <2>1, <2>2, <2>4, <2>6
<1> QED BY <1>1, <1>2

\* A step that changes no value is none of SemaphoreSets.
LEMMA QuietMaps ==
  ASSUME SInv, Quiet
  PROVE  Mapped
<1>1. ASSUME NEW id \in SemId, sema[id].alloc PROVE ValuesOf(sem, id)' = ValuesOf(sem, id)
  <2>1. \A n \in 0 .. sema[id].nsems - 1 : sem'[At(id, n)].val = sem[At(id, n)].val
    BY <1>1, SetFacts DEF SInv, TInv, Quiet
  <2>2. SameValues(id)
    BY <1>1, <2>1, Untouched DEF SInv, TInv, Live
  <2> QED BY <2>2 DEF SameValues, ValuesOf, At, Quiet
<1>2. SetMap' = SetMap
  BY <1>1 DEF SetMap, Quiet
<1> QED BY <1>2 DEF Mapped, Quiet

\* semop, when it performs the vector
LEMMA OperateMaps ==
  ASSUME SInv, NoSetApart, Fits16, NEW p \in Proc, NEW id \in SemId, NEW sops \in Vectors,
         Operated(p, id, sops)
  PROVE  Mapped
<1> DEFINE v == SetMap[id]
           n == Len(sops)
           D == 0 .. sema[id].nsems - 1
           res == After(v, sops)[n]
           adj == Adjustments(sops)
<1>1. /\ sema[id].alloc /\ id \in Live /\ PoolInv /\ Types /\ UNCHANGED sema
      /\ sema[id].nsems \in 1 .. 5
  BY SetFacts DEF Operated, SInv, TInv, Live
<1>2. /\ v = ValuesOf(sem, id) /\ v # NoSet /\ v \in [D -> U16] /\ v \in [D -> Int]
      /\ DOMAIN v = D
  <2>1. /\ v = ValuesOf(sem, id) /\ v # NoSet /\ v \in [D -> U16] /\ v \in [D -> Int]
    BY <1>1, MapFacts
  <2> HIDE DEF v, D
  <2> QED BY <2>1
<1>3. n \in Nat /\ Vector(sops, n) /\ DOMAIN sops = 1 .. n /\ Len(adj) = n
  BY VectorFacts
<1>4. \A k \in 1 .. n : ~OutOfRange(v, sops, k) /\ ~MustWait(v, sops, k)
  BY <1>2 DEF Operated
<1> HIDE DEF v, D
<1>5. \A k \in 0 .. n : \A d \in D : After(v, sops)[k][d] \in Nat
  <2> SUFFICES ASSUME NEW d \in D PROVE \A k \in 0 .. n : After(v, sops)[k][d] \in Nat
    OBVIOUS
  <2>1. v[d] >= 0
    <3>1. v[d] \in U16
      BY <1>2
    <3>2. v[d] \in Nat
      BY <3>1, Keeps16
    <3> QED BY <3>2
  <2>2. /\ v \in [D -> Int] /\ Len(sops) \in Nat /\ Vector(sops, Len(sops))
        /\ \A j \in 1 .. Len(sops) : ~MustWait(v, sops, j)
    BY <1>2, <1>3, <1>4
  <2>3. \A k \in 0 .. Len(sops) : After(v, sops)[k][d] \in Nat
    BY ONLY d \in D, <2>1, <2>2, AfterNat
  <2> QED BY <2>3
<1>6. res \in [D -> Int] /\ \A d \in D : u16(res[d]) = res[d]
  <2>1. After(v, sops) \in [0 .. n -> [D -> Int]]
    BY <1>2, <1>3, AfterSteps
  <2>2. res \in [D -> Int] /\ \A d \in D : res[d] \in Nat
    BY <1>3, <1>5, <2>1
  <2>3. \A d \in D : res[d] <= MaxVal
    <3>1. InBound(After(v, sops)[n])
      BY <1>2 DEF Operated
    <3> HIDE DEF res, n
    <3>2. InBound(res)
      BY <3>1 DEF res
    <3> QED BY <2>2, <3>2 DEF InBound
  <2>4. MaxVal \in Nat /\ MaxVal <= Top /\ Top \in Nat
    BY SizeAssumption DEF Fits16, Top
  <2> HIDE DEF res
  <2>5. \A d \in D : res[d] <= Top
    BY <2>2, <2>3, <2>4
  <2> QED BY <2>2, <2>5, Same16
<1> DEFINE w == ValuesOf(sem, id)'
<1>7. w = res
  <2>1. \A i \in Live : \A m \in 0 .. sema[i].nsems - 1 :
          sem'[At(i, m)].val = IF i = id THEN u16(res[m]) ELSE sem[At(i, m)].val
    BY <1>2 DEF Operated
  <2>2. w = [d \in D |-> sem'[At(id, d)].val]
    BY <1>1 DEF ValuesOf, At, D
  <2> HIDE DEF w, res
  <2>3. \A d \in D : sem'[At(id, d)].val = res[d]
    BY <1>1, <1>6, <2>1 DEF D
  <2> QED BY <1>6, <2>2, <2>3
<1>8. ASSUME NEW i \in Live, i # id PROVE ValuesOf(sem, i)' = ValuesOf(sem, i)
  <2>1. \A m \in 0 .. sema[i].nsems - 1 : sem'[At(i, m)].val = sem[At(i, m)].val
    BY <1>8 DEF Operated
  <2>2. SameValues(i)
    BY <1>1, <2>1, Untouched
  <2> QED BY <1>1, <2>2 DEF SameValues, ValuesOf, At
<1>9. SetMap' = [SetMap EXCEPT ![id] = After(@, sops)[n]]
  <2>1. ASSUME NEW i \in SemId
        PROVE  (SetMap')[i] = IF i = id THEN res ELSE SetMap[i]
    <3>1. (SetMap')[i] = IF sema[i].alloc THEN ValuesOf(sem, i)' ELSE NoSet
      BY <1>1 DEF SetMap
    <3>2. SetMap[i] = IF sema[i].alloc THEN ValuesOf(sem, i) ELSE NoSet
      BY DEF SetMap
    <3>3. CASE i = id
      BY <1>1, <1>7, <3>1, <3>3
    <3>4. CASE i # id
      BY <1>8, <3>1, <3>2, <3>4 DEF Live
    <3> QED BY <3>3, <3>4
  <2>2. SetMap' = [i \in SemId |-> (SetMap')[i]] /\ SetMap = [i \in SemId |-> SetMap[i]]
    BY DEF SetMap
  <2>3. [SetMap EXCEPT ![id] = After(@, sops)[n]] = [SetMap EXCEPT ![id] = res]
    BY DEF v
  <2> HIDE DEF res
  <2>4. [SetMap EXCEPT ![id] = res] = [i \in SemId |-> IF i = id THEN res ELSE SetMap[i]]
    BY <2>2
  <2> QED BY <2>1, <2>2, <2>3, <2>4
<1>10. undo' = [undo EXCEPT ![p][id] = Sets!Undone(@, sops)]
  <2> DEFINE e == undo[p]
             a == After(e[id], adj)[n]
  <2>1. Sets!Undone(e[id], sops) = a
    BY <1>3 DEF Sets!Undone, Sets!After, After, Adjustments
  <2>2. Adjusted(e, id, adj)[n] = [e EXCEPT ![id] = a]
    BY <1>3 DEF Adjusted
  <2>3. undo' = [undo EXCEPT ![p] = Adjusted(e, id, adj)[n]]
    BY <1>3 DEF Operated
  <2>4. [undo EXCEPT ![p][id] = Sets!Undone(@, sops)] =
          [undo EXCEPT ![p] = [e EXCEPT ![id] = Sets!Undone(e[id], sops)]]
    OBVIOUS
  <2> QED BY <2>1, <2>2, <2>3, <2>4
<1>11. \A k \in 1 .. n : sops[k].num \in D /\ Sets!Possible(v, sops, k)
  <2> SUFFICES ASSUME NEW k \in 1 .. n PROVE sops[k].num \in D /\ Sets!Possible(v, sops, k)
    OBVIOUS
  <2>1. sops[k].num \in D /\ sops[k].op \in Int
    BY <1>2, <1>3, <1>4 DEF OutOfRange, Vector
  <2> DEFINE x == After(v, sops)[k-1][sops[k].num]
             op == sops[k].op
  <2>2. x \in Nat
    BY <1>3, <1>5, <2>1
  <2>3. ~(op < 0 /\ x + op < 0) /\ ~(op = 0 /\ x > 0)
    BY <1>4 DEF MustWait
  <2>4. Sets!Possible(v, sops, k) <=> IF op = 0 THEN x = 0 ELSE x + op >= 0
    BY DEF Sets!Possible, Sets!After, After
  <2> HIDE DEF x, op
  <2>5. IF op = 0 THEN x = 0 ELSE x + op >= 0
    <3>1. op \in Int
      BY <2>1 DEF op
    <3> QED BY <2>2, <2>3, <3>1
  <2> QED BY <2>1, <2>4, <2>5
<1>12. Sets!Operate(p, id, sops)
  <2>1. SetMap' = [SetMap EXCEPT ![id] = Sets!After(@, sops)[n]]
    BY <1>9 DEF Sets!After, After
  <2> QED BY <1>2, <1>3, <1>10, <1>11, <2>1 DEF Sets!Operate, v, SetMap
<1> QED BY <1>12 DEF Mapped, Sets!Next

\* The map of the sets, when one slot changes
LEMMA OneSlotMaps ==
  ASSUME NEW id \in SemId, NEW x,
         (SetMap')[id] = x, \A i \in SemId \ {id} : (SetMap')[i] = SetMap[i]
  PROVE  SetMap' = [SetMap EXCEPT ![id] = x]
<1>1. SetMap' = [i \in SemId |-> (SetMap')[i]] /\ SetMap = [i \in SemId |-> SetMap[i]]
  BY DEF SetMap
<1> DEFINE f == SetMap
           g == SetMap'
<1> HIDE DEF f, g
<1>2. /\ g = [i \in SemId |-> g[i]] /\ f = [i \in SemId |-> f[i]]
      /\ g[id] = x /\ \A i \in SemId \ {id} : g[i] = f[i]
  BY <1>1 DEF f, g
<1>3. g = [f EXCEPT ![id] = x]
  BY ONLY <1>2, id \in SemId
<1> QED BY <1>3 DEF f, g

\* A set that a step neither moves nor writes to
LEMMA KeptMaps ==
  ASSUME SInv, NEW i \in SemId, sema'[i].alloc = sema[i].alloc, sema'[i].nsems = sema[i].nsems,
         sema[i].alloc => \A m \in 0 .. sema[i].nsems - 1 :
                            sem'[sema'[i].base + m].val = sem[At(i, m)].val
  PROVE  (SetMap')[i] = SetMap[i]
<1>1. (SetMap')[i] = IF sema'[i].alloc THEN ValuesOf(sem, i)' ELSE NoSet
  BY DEF SetMap
<1>2. SetMap[i] = IF sema[i].alloc THEN ValuesOf(sem, i) ELSE NoSet
  BY DEF SetMap
<1>3. sema[i].alloc => ValuesOf(sem, i)' = ValuesOf(sem, i)
  BY DEF ValuesOf, At
<1> QED BY <1>1, <1>2, <1>3

\* semget
LEMMA SemgetMaps ==
  ASSUME SInv, NoSetApart, NEW p \in Proc, NEW n \in SetSizes, Semget(p, n)
  PROVE  Mapped
<1>1. PoolInv /\ Types
  BY DEF SInv, TInv
<1>2. PICK new \in SemId :
        /\ Room(n)
        /\ ~sema[new].alloc
        /\ sema' = [sema EXCEPT ![new] = [alloc |-> TRUE, seq |-> @.seq + 1,
                                          base |-> semtot, nsems |-> n]]
        /\ sem' = [j \in Pool |-> IF j \in semtot .. semtot + n - 1
                                  THEN [val |-> 0, ncnt |-> 0, zcnt |-> 0]
                                  ELSE sem[j]]
        /\ UNCHANGED undo
  BY DEF Semget
<1>3. n \in 1 .. 5 /\ semtot \in Nat /\ SemMns \in Nat /\ semtot + n <= SemMns
  <2>1. SemMns \in Nat /\ n \in 1 .. 5
    BY SizeAssumption
  <2>2. semtot \in Nat
    BY <1>1, <2>1 DEF PoolInv, SlotType
  <2> QED BY <1>2, <2>1, <2>2 DEF Room
<1>4. /\ sema'[new].alloc /\ sema'[new].base = semtot /\ sema'[new].nsems = n
      /\ \A i \in SemId \ {new} : sema'[i] = sema[i]
  BY <1>1, <1>2 DEF PoolInv, SlotType
<1>5. (SetMap')[new] = [k \in 0 .. n-1 |-> 0]
  <2>1. (SetMap')[new] = [k \in 0 .. n-1 |-> sem'[semtot + k].val]
    BY <1>4 DEF SetMap, ValuesOf, At
  <2>2. \A k \in 0 .. n-1 : semtot + k \in Pool /\ semtot + k \in semtot .. semtot + n - 1
    BY <1>3 DEF Pool
  <2>3. \A k \in 0 .. n-1 : sem'[semtot + k].val = 0
    BY <1>2, <2>2
  <2> QED BY <2>1, <2>3
<1>6. ASSUME NEW i \in SemId \ {new} PROVE (SetMap')[i] = SetMap[i]
  <2>1. ASSUME sema[i].alloc, NEW m \in 0 .. sema[i].nsems - 1
        PROVE  sem'[sema'[i].base + m].val = sem[At(i, m)].val
    <3> DEFINE j == At(i, m)
    <3>1. j \in Pool /\ j < semtot
      BY <1>1, <1>3, <2>1, SetFacts DEF At
    <3>2. sema'[i].base + m = j
      BY <1>4 DEF At
    <3> HIDE DEF j
    <3>3. j \notin semtot .. semtot + n - 1
      BY <1>3, <3>1
    <3> QED BY <1>2, <3>1, <3>2, <3>3 DEF j
  <2> QED BY <1>4, <2>1, KeptMaps
<1>7. SetMap' = [SetMap EXCEPT ![new] = [k \in 0 .. n-1 |-> 0]]
  BY <1>5, <1>6, OneSlotMaps
<1>8. SetMap[new] = NoSet
  BY <1>2, MapFacts
<1>9. Sets!Create(new, n)
  BY <1>2, <1>7, <1>8 DEF Sets!Create, SetMap
<1> QED BY <1>9 DEF Mapped, Sets!Next

\* IPC_RMID
LEMMA RmidMaps ==
  ASSUME SInv, NoSetApart, NEW p \in Proc, NEW old \in SemId, Rmid(p, old)
  PROVE  Mapped
<1> DEFINE size == sema[old].nsems
           base == sema[old].base
<1>1. PoolInv /\ Types
  BY DEF SInv, TInv
<1>2. /\ sema[old].alloc
      /\ semtot' = semtot - size
      /\ sem' = [j \in Pool |-> IF j \in base .. semtot' - 1 THEN sem[j + size] ELSE sem[j]]
      /\ sema' = [Moved(old) EXCEPT ![old].alloc = FALSE]
      /\ undo' = AllUndoCleared(old)
  BY DEF Rmid
<1>3. /\ old \in Live /\ base \in Nat /\ size \in 1 .. 5 /\ semtot \in 0 .. SemMns
      /\ SemMns \in Nat /\ base + size <= semtot
  BY <1>1, <1>2, SetFacts
<1>4. /\ ~sema'[old].alloc
      /\ \A i \in SemId \ {old} :
           /\ sema'[i].alloc = sema[i].alloc /\ sema'[i].nsems = sema[i].nsems
           /\ sema'[i].base = IF sema[i].alloc /\ sema[i].base > base
                              THEN sema[i].base - size ELSE sema[i].base
  <2>1. \A i \in SemId : sema[i] \in [alloc : BOOLEAN, seq : 0 .. MaxSeq,
                                      base : Nat, nsems : 0 .. 5]
    BY <1>1 DEF PoolInv, SlotType
  <2>2. DOMAIN Moved(old) = SemId /\ Moved(old)[old] = sema[old]
    BY <2>1 DEF Moved
  <2>3. sema'[old] = [sema[old] EXCEPT !.alloc = FALSE]
        /\ \A i \in SemId \ {old} : sema'[i] = Moved(old)[i]
    BY <1>2, <2>2
  <2>4. \A i \in SemId :
           /\ Moved(old)[i].alloc = sema[i].alloc /\ Moved(old)[i].nsems = sema[i].nsems
           /\ Moved(old)[i].base = IF sema[i].alloc /\ sema[i].base > base
                                   THEN sema[i].base - size ELSE sema[i].base
    BY <2>1 DEF Moved
  <2>5. ~sema'[old].alloc
    BY <2>1, <2>3
  <2> QED BY <2>3, <2>4, <2>5
<1>5. (SetMap')[old] = NoSet
  BY <1>4 DEF SetMap
<1>6. ASSUME NEW i \in SemId \ {old} PROVE (SetMap')[i] = SetMap[i]
  <2>1. ASSUME sema[i].alloc, NEW m \in 0 .. sema[i].nsems - 1
        PROVE  sem'[sema'[i].base + m].val = sem[At(i, m)].val
    <3> DEFINE b == sema[i].base
               l == sema[i].nsems
               tot == semtot'
               to == sema'[i].base + m
    <3>1. /\ i \in Live /\ b \in Nat /\ l \in 1 .. 5 /\ b + l <= semtot
          /\ At(i, m) = b + m /\ m \in 0 .. l-1
      BY <1>1, <2>1, SetFacts DEF At
    <3>2. b + l <= base \/ base + size <= b
      BY <1>1, <1>3, <1>6, <3>1 DEF PoolInv, PoolPacked
    <3>3. to = (IF b > base THEN b - size ELSE b) + m /\ tot = semtot - size
      BY <1>2, <1>4, <2>1
    <3>4. sem' = [j \in Pool |-> IF j \in base .. tot - 1 THEN sem[j + size] ELSE sem[j]]
      BY <1>2
    <3> HIDE DEF b, l, tot, to, base, size
    <3>5. CASE b > base
      <4>1. to \in Pool /\ to \in base .. tot - 1 /\ to + size = b + m
        BY <1>3, <3>1, <3>2, <3>3, <3>5 DEF Pool
      <4>2. sem'[to] = sem[b + m]
        BY <3>4, <4>1
      <4> QED BY <3>1, <4>2 DEF to
    <3>6. CASE ~(b > base)
      <4>1. to \in Pool /\ to \notin base .. tot - 1 /\ to = b + m
        BY <1>3, <3>1, <3>2, <3>3, <3>6 DEF Pool
      <4>2. sem'[to] = sem[b + m]
        BY <3>4, <4>1
      <4> QED BY <3>1, <4>2 DEF to
    <3> QED BY <3>5, <3>6
  <2> QED BY <1>4, <2>1, KeptMaps
<1>7. SetMap' = [SetMap EXCEPT ![old] = NoSet]
  BY <1>5, <1>6, OneSlotMaps
<1>8. SetMap[old] # NoSet
  BY <1>2, MapFacts
<1>9. undo' = [q \in Proc |-> [undo[q] EXCEPT ![old] = [k \in Sets!Num |-> 0]]]
  BY <1>2 DEF AllUndoCleared, Sets!Num, Num
<1>10. Sets!Remove(old)
  BY <1>7, <1>8, <1>9 DEF Sets!Remove, SetMap
<1> QED BY <1>10 DEF Mapped, Sets!Next

\* SETVAL clears all that is owed to the semaphore.
LEMMA OneCleared ==
  ASSUME SInv, OneOwed, "setval" \in Calls, NEW id \in SemId, NEW n \in Num,
         NEW u \in UndoCleared(id, n)
  PROVE  u = [q \in Proc |-> [undo[q] EXCEPT ![id][n] = 0]]
<1> DEFINE cleared(q) == [undo[q] EXCEPT ![id][n] = 0]
<1>1. /\ u = [q \in Proc |-> u[q]]
      /\ \A q \in Proc : \/ u[q] = cleared(q)
                         \/ u[q] = undo[q] /\ \E m \in Num \ {n} : undo[q][id][m] # 0
  BY DEF UndoCleared
<1>2. \A q \in Proc : undo[q] \in [SemId -> [Num -> Int]]
  BY DEF SInv, TInv, Types
<1>3. ASSUME NEW q \in Proc, u[q] = undo[q], NEW m \in Num \ {n}, undo[q][id][m] # 0
      PROVE  u[q] = cleared(q)
  <2>1. undo[q][id][n] = 0
    <3>1. m \in Owing
      BY <1>3 DEF SInv, OwedOnly
    <3>2. undo[q][id][n] # 0 => n \in Owing
      BY DEF SInv, OwedOnly
    <3> QED BY <1>3, <3>1, <3>2 DEF OneOwed
  <2> DEFINE e == undo[q]
             z == [e[id] EXCEPT ![n] = 0]
  <2>2. e \in [SemId -> [Num -> Int]] /\ e[id] \in [Num -> Int] /\ e[id][n] = 0
    BY <1>2, <2>1
  <2>3. cleared(q) = [e EXCEPT ![id] = z]
    OBVIOUS
  <2> HIDE DEF e
  <2>4. z = e[id]
    BY <2>2
  <2> HIDE DEF z
  <2>5. [e EXCEPT ![id] = z] = e
    BY <2>2, <2>4
  <2> QED BY <1>3, <2>3, <2>5 DEF e
<1> HIDE DEF cleared
<1>4. \A q \in Proc : u[q] = cleared(q)
  BY <1>1, <1>3
<1>5. u = [q \in Proc |-> cleared(q)]
  BY <1>1, <1>4
<1> QED BY <1>5 DEF cleared

\* The end of SETVAL
LEMMA SetValMaps ==
  ASSUME SInv, NoSetApart, OneOwed, "setval" \in Calls, NEW p \in Proc, NEW id \in SemId,
         sema[id].alloc, NEW n \in Num, n < sema[id].nsems, NEW v \in Values,
         SetVal(p, id, n, v), UNCHANGED sema
  PROVE  Mapped
<1> DEFINE D == 0 .. sema[id].nsems - 1
<1>1. PoolInv /\ Types /\ id \in Live /\ sema[id].nsems \in 1 .. 5 /\ n \in D
  BY SetFacts DEF SInv, TInv, Num
<1>2. sem' = [sem EXCEPT ![At(id, n)].val = v] /\ undo' \in UndoCleared(id, n)
  BY DEF SetVal
<1>3. undo' = [q \in Proc |-> [undo[q] EXCEPT ![id][n] = 0]]
  BY <1>2, OneCleared
<1>4. sem \in [Pool -> SemRec] /\ \A m \in D : At(id, m) \in Pool
  BY <1>1, SetFacts DEF Types
<1>5. (SetMap')[id] = [SetMap[id] EXCEPT ![n] = v]
  <2>1. (SetMap')[id] = [m \in D |-> sem'[At(id, m)].val]
    BY DEF SetMap, ValuesOf, At
  <2>2. SetMap[id] = [m \in D |-> sem[At(id, m)].val]
    BY DEF SetMap, ValuesOf, At
  <2>3. ASSUME NEW m \in D PROVE sem'[At(id, m)].val = IF m = n THEN v ELSE sem[At(id, m)].val
    <3> DEFINE j == At(id, m)
               k == At(id, n)
    <3>1. j \in Pool /\ (j = k => m = n) /\ (m = n => j = k)
      BY <1>1, <1>4, Apart
    <3>2. sem[j] \in SemRec
      BY <1>4, <3>1
    <3> HIDE DEF j, k
    <3>3. sem'[j] = IF j = k THEN [sem[j] EXCEPT !.val = v] ELSE sem[j]
      BY <1>2, <1>4, <3>1 DEF k
    <3>4. [sem[j] EXCEPT !.val = v].val = v
      BY <3>2 DEF SemRec
    <3> QED BY <3>1, <3>3, <3>4 DEF j
  <2> HIDE DEF D
  <2> QED BY <2>1, <2>2, <2>3
<1>6. ASSUME NEW i \in SemId \ {id} PROVE (SetMap')[i] = SetMap[i]
  <2>1. CASE ~sema[i].alloc
    BY <2>1 DEF SetMap
  <2>2. CASE sema[i].alloc
    <3>1. i \in Live /\ i # id
      BY <2>2 DEF Live
    <3>2. SameValues(i)
      BY <1>1, <1>2, <1>4, <3>1, OneWrite
    <3>3. ValuesOf(sem, i)' = ValuesOf(sem, i)
      BY <3>2 DEF SameValues, ValuesOf, At
    <3> QED BY <3>3 DEF SetMap
  <2> QED BY <2>1, <2>2
<1>7. SetMap' = [SetMap EXCEPT ![id] = [@ EXCEPT ![n] = v]]
  BY <1>5, <1>6, OneSlotMaps
<1>8. SetMap[id] # NoSet /\ DOMAIN SetMap[id] = D
  BY MapFacts
<1>9. Sets!SetOne(id, n, v)
  <2>1. SetMap' = [SetMap EXCEPT ![id][n] = v]
    BY <1>7
  <2> HIDE DEF D
  <2> QED BY <1>1, <1>3, <1>8, <2>1 DEF Sets!SetOne, SetMap
<1>10. n \in Sets!Num
  BY DEF Num, Sets!Num
<1> QED BY <1>9, <1>10 DEF Mapped, Sets!Next

\* What an end makes of a value
LEMMA UndoneAtLeast0 ==
  ASSUME NEW val \in U16, NEW adj \in Int, val + adj <= Top
  PROVE  UndoneVal(val, adj) = Sets!AtLeast0(val + adj)
<1>1. val \in Nat /\ val <= Top
  BY Keeps16
<1>2. CASE adj < 0 /\ val < -adj
  BY <1>1, <1>2 DEF UndoneVal, Sets!AtLeast0
<1>3. CASE ~(adj < 0 /\ val < -adj)
  <2>1. val + adj \in Nat
    BY <1>1, <1>3
  <2>2. u16(val + adj) = val + adj
    BY <2>1, Same16
  <2> QED BY <1>3, <2>1, <2>2 DEF UndoneVal, Sets!AtLeast0
<1> QED BY <1>2, <1>3

\* semexit changes each value by what is owed to it.
LEMMA Redeemed ==
  ASSUME SInv, NoOverrun, NEW p \in Proc, ApplyUndo(p), NEW id \in Live,
         NEW n \in 0 .. sema[id].nsems - 1
  PROVE  sem'[At(id, n)].val = Sets!AtLeast0(sem[At(id, n)].val + undo[p][id][n])
<1> DEFINE j == At(id, n)
           adj == undo[p][id][n]
           hit == {e \in Entries(p) : At(e[1], e[2]) = j}
           c == CHOOSE e \in hit : TRUE
           val == UndoneVal(sem[j].val, undo[p][c[1]][c[2]])
<1>1. PoolInv /\ Types /\ UndoFits
  BY DEF SInv, TInv
<1>2. j \in Pool /\ n \in Num /\ id \in SemId /\ sem[j] \in SemRec /\ sem[j].val \in U16
  <2>1. j \in Pool /\ n \in Num /\ id \in SemId
    BY <1>1, SetFacts DEF Live
  <2>2. sem[j] \in SemRec
    BY <1>1, <2>1 DEF Types
  <2> QED BY <2>1, <2>2, SemFields
<1>3. adj \in Int /\ sem[j].val + adj <= Top
  BY <1>1, <1>2 DEF Types, NoOverrun
<1>4. \A e \in hit : e[1] = id /\ e[2] = n /\ e \in Entries(p)
  <2> SUFFICES ASSUME NEW e \in Entries(p), At(e[1], e[2]) = j PROVE e[1] = id /\ e[2] = n
    OBVIOUS
  <2>1. sema[e[1]].alloc /\ e[2] < sema[e[1]].nsems /\ e[1] \in SemId /\ e[2] \in Num
    BY <1>1 DEF UndoFits, EntriesMakeSense, Entries
  <2>2. e[1] \in Live /\ sema[e[1]].nsems \in 1 .. 5
    BY <1>1, <2>1, SetFacts
  <2>3. e[2] \in 0 .. sema[e[1]].nsems - 1
    BY <2>1, <2>2 DEF Num
  <2> QED BY <1>1, <2>2, <2>3, Apart
<1>5. sem'[j] = IF hit = {} THEN sem[j] ELSE [sem[j] EXCEPT !.val = val]
  BY <1>2 DEF ApplyUndo
<1>6. CASE adj = 0
  <2>1. hit = {}
    BY <1>4, <1>6 DEF Entries
  <2>2. sem'[j].val = sem[j].val /\ sem[j].val \in Nat
    BY <1>2, <1>5, <2>1, Keeps16
  <2> HIDE DEF j, adj
  <2> QED BY <1>6, <2>2 DEF Sets!AtLeast0, j, adj
<1>7. CASE adj # 0
  <2>1. <<id, n>> \in hit
    BY <1>2, <1>7 DEF Entries
  <2>2. c \in hit
    <3> HIDE DEF hit
    <3> QED BY <2>1
  <2>3. c[1] = id /\ c[2] = n
    <3> HIDE DEF c, hit
    <3> QED BY <1>4, <2>2
  <2>4. val = UndoneVal(sem[j].val, adj)
    BY <2>3
  <2> HIDE DEF val, hit, j, adj
  <2>5. sem'[j].val = val
    <3>1. sem'[j] = [sem[j] EXCEPT !.val = val]
      BY <1>5, <2>1
    <3> QED BY <1>2, <3>1 DEF SemRec
  <2>6. val = Sets!AtLeast0(sem[j].val + adj)
    BY <1>2, <1>3, <2>4, UndoneAtLeast0
  <2> QED BY <2>5, <2>6 DEF j, adj
<1> QED BY <1>6, <1>7

\* semexit
LEMMA EndMaps ==
  ASSUME SInv, NoSetApart, NoOverrun, NEW p \in Proc, ApplyUndo(p), UNCHANGED sema
  PROVE  Mapped
<1> DEFINE new(id) == IF SetMap[id] = NoSet THEN NoSet
                      ELSE [n \in DOMAIN SetMap[id] |->
                              Sets!AtLeast0(SetMap[id][n] + undo[p][id][n])]
<1>1. ASSUME NEW id \in SemId PROVE (SetMap')[id] = new(id)
  <2>1. CASE ~sema[id].alloc
    <3>1. SetMap[id] = NoSet
      BY <2>1, MapFacts
    <3>2. (SetMap')[id] = NoSet
      BY <2>1 DEF SetMap
    <3> QED BY <3>1, <3>2
  <2>2. CASE sema[id].alloc
    <3> DEFINE D == 0 .. sema[id].nsems - 1
    <3>1. /\ SetMap[id] # NoSet /\ SetMap[id] = ValuesOf(sem, id)
      BY <2>2, MapFacts
    <3>2. DOMAIN SetMap[id] = D /\ \A n \in D : SetMap[id][n] = sem[At(id, n)].val
      BY <3>1 DEF ValuesOf
    <3>3. (SetMap')[id] = [n \in D |-> sem'[At(id, n)].val]
      BY <2>2 DEF SetMap, ValuesOf, At
    <3>4. \A n \in D : sem'[At(id, n)].val = Sets!AtLeast0(SetMap[id][n] + undo[p][id][n])
      <4>1. id \in Live
        BY <2>2 DEF Live
      <4> QED BY <3>2, <4>1, Redeemed
    <3> HIDE DEF D
    <3> QED BY <3>1, <3>2, <3>3, <3>4
  <2> QED BY <2>1, <2>2
<1>2. SetMap' = [id \in SemId |-> new(id)]
  <2>1. SetMap' = [id \in SemId |-> (SetMap')[id]]
    BY DEF SetMap
  <2> HIDE DEF new
  <2> QED BY <1>1, <2>1
<1>3. undo' = [undo EXCEPT ![p] = [id \in SemId |-> [n \in Sets!Num |-> 0]]]
  BY DEF ApplyUndo, NoEntries, Sets!Num, Num
<1>4. Sets!End(p)
  BY <1>2, <1>3 DEF Sets!End, SetMap
<1> QED BY <1>4 DEF Mapped, Sets!Next

\* The parts of the invariant besides TInv and what is owed, in a step by p that leaves
\* the sets alone
LEMMA SInvSame ==
  ASSUME SInv, Settled, NEW p \in Proc, Step(p), UNCHANGED sema, OwedOnly(undo'),
         SetvalWell(call'[p]),
         \A q \in Proc \ {p} : call'[q].pc \in {"semwait", "woken"} \/ call'[q] = call[q]
  PROVE  SInv'
<1>1. TInv'
  BY TInvStep DEF SInv
<1>2. \A id \in Live' : sema'[id].nsems \in SetSizes
  BY DEF SInv, Live
<1>3. ASSUME NEW q \in Proc PROVE SetvalWell(call[q])'
  <2>1. SetvalWell(call'[q])
    BY DEF SInv, SetvalWell
  <2> QED BY <2>1 DEF SetvalWell
<1> QED BY <1>1, <1>2, <1>3 DEF SInv, OwedOnly

\* Entries that are cleared or stay keep to the semaphores of vectors with undo.
LEMMA LessOwed ==
  ASSUME SInv, NEW u, \A q \in Proc : \A i \in SemId : \A m \in Num : u[q][i][m] \in {0, undo[q][i][m]}
  PROVE  OwedOnly(u)
BY DEF SInv, OwedOnly

\* A vector enters something for the semaphores it names with undo only.
LEMMA PerformedOwed ==
  ASSUME SInv, NEW p \in Proc, NEW id \in SemId, NEW sops \in Vectors,
         undo' = [undo EXCEPT ![p] = Adjusted(@, id, Adjustments(sops))[Len(Adjustments(sops))]]
  PROVE  OwedOnly(undo')
<1> DEFINE adj == Adjustments(sops)
           n == Len(sops)
           e == undo[p][id]
           a == After(e, adj)[n]
<1>1. /\ n \in Nat /\ Len(adj) = n /\ Vector(adj, n) /\ Vector(sops, n)
      /\ DOMAIN sops = 1 .. n
      /\ \A k \in 1 .. n : sops[k].undo \in BOOLEAN
  BY VectorFacts
<1>2. \A k \in 1 .. n : /\ adj[k].num = sops[k].num
                        /\ ~sops[k].undo => adj[k].op = 0
  <2> SUFFICES ASSUME NEW k \in 1 .. n
               PROVE  adj[k].num = sops[k].num /\ (~sops[k].undo => adj[k].op = 0)
    OBVIOUS
  <2> DEFINE num == sops[k].num
             op == IF sops[k].undo THEN -sops[k].op ELSE 0
  <2>1. adj[k] = [num |-> num, op |-> op]
    BY <1>1 DEF Adjustments
  <2>2. ~sops[k].undo => op = 0
    OBVIOUS
  <2> HIDE DEF num, op
  <2>3. adj[k].num = num /\ adj[k].op = op
    BY <2>1
  <2> QED BY <2>2, <2>3 DEF num
<1>3. undo \in [Proc -> [SemId -> [Num -> Int]]] /\ e \in [Num -> Int]
  BY DEF SInv, TInv, Types
<1>4. undo' = [undo EXCEPT ![p] = [undo[p] EXCEPT ![id] = a]]
  <2>1. Adjusted(undo[p], id, adj)[n] = [undo[p] EXCEPT ![id] = a]
    BY <1>1 DEF Adjusted
  <2> QED BY <1>1, <2>1
<1> HIDE DEF adj, e
<1>5. ASSUME NEW m \in Num, a[m] # 0, m \notin Owing PROVE e[m] # 0
  <2>1. \A k \in 1 .. n : adj[k].num = m => adj[k].op = 0
    <3> SUFFICES ASSUME NEW k \in 1 .. n, adj[k].num = m PROVE adj[k].op = 0
      OBVIOUS
    <3>1. sops[k].num = m
      BY <1>2
    <3>2. ~sops[k].undo
      BY <1>5, <3>1 DEF Owing
    <3> QED BY <1>2, <3>2
  <2>2. /\ e \in [Num -> Int] /\ Len(adj) \in Nat /\ Vector(adj, Len(adj))
        /\ \A k \in 1 .. Len(adj) : adj[k].num = m => adj[k].op = 0
    BY <1>1, <1>3, <2>1
  <2>3. \A k \in 0 .. Len(adj) : After(e, adj)[k][m] = e[m]
    BY ONLY m \in Num, <2>2, AfterNothing
  <2> QED BY <1>1, <1>5, <2>3
<1> HIDE DEF a, n
<1>6. ASSUME NEW q \in Proc, NEW i \in SemId, NEW m \in Num, undo'[q][i][m] # 0
      PROVE  m \in Owing
  <2>1. undo[q][i][m] # 0 => m \in Owing
    BY DEF SInv, OwedOnly
  <2>2. CASE q = p /\ i = id
    <3>1. undo'[q][i][m] = a[m]
      BY <1>3, <1>4, <2>2
    <3> QED BY <1>5, <1>6, <2>1, <2>2, <3>1 DEF e
  <2>3. CASE ~(q = p /\ i = id)
    BY <1>3, <1>4, <1>6, <2>1, <2>3
  <2> QED BY <2>2, <2>3
<1> QED BY <1>6 DEF OwedOnly

\* A step of semop, up to its next sleep or return
LEMMA TrySInv ==
  ASSUME SInv, Orderly, NEW p \in Proc, Step(p), NEW S, NEW c \in CallType,
         c.sops \in Vectors, Try(p, S, c), UNCHANGED sema
  PROVE  SInv'
<1>1. call \in [Proc -> CallType] /\ Types /\ c.id \in SemId
  BY DEF SInv, TInv, Types, CallType
<1>2. OwedOnly(undo')
  <2>1. OwedOnly(undo)
    BY DEF SInv
  <2>2. \/ undo' = undo
        \/ undo' = [undo EXCEPT ![p] =
                      Adjusted(@, c.id, Adjustments(c.sops))[Len(Adjustments(c.sops))]]
    BY DEF Try, TooBig, WouldWait, Performed
  <2> QED BY <1>1, <2>1, <2>2, PerformedOwed
<1>3. \/ call' = Return(p) \/ call' = Wakeup(Return(p), c.id)
      \/ \E k, ptr : call' = [call EXCEPT ![p] = [c EXCEPT !.pc = "semwait",
                                                    !.at = k, !.semptr = ptr]]
  BY Zenon DEF Try, TooBig, WouldWait, Performed
<1>4. /\ SetvalWell(call'[p])
      /\ \A q \in Proc \ {p} : call'[q].pc \in {"semwait", "woken"} \/ call'[q] = call[q]
  <2>1. ASSUME call' = Return(p) \/ call' = Wakeup(Return(p), c.id)
        PROVE  /\ call'[p] = Idle
               /\ \A q \in Proc \ {p} : call'[q].pc \in {"semwait", "woken"} \/ call'[q] = call[q]
    <3>1. call'[p] = Idle /\ \A q \in Proc \ {p} : Woken(call, call', q)
      BY <1>1, <2>1, ReturnWoken
    <3> QED BY <1>1, <3>1 DEF Woken, CallType
  <2>2. SetvalWell(Idle)
    BY DEF SetvalWell, Idle
  <2>3. ASSUME NEW k, NEW ptr,
               call' = [call EXCEPT ![p] = [c EXCEPT !.pc = "semwait", !.at = k, !.semptr = ptr]]
        PROVE  /\ SetvalWell(call'[p])
               /\ \A q \in Proc \ {p} : call'[q] = call[q]
    <3> DEFINE d == [c EXCEPT !.pc = "semwait", !.at = k, !.semptr = ptr]
    <3>1. d.pc = "semwait"
      BY DEF CallType
    <3> HIDE DEF d
    <3>2. call' = [call EXCEPT ![p] = d]
      BY <2>3 DEF d
    <3> QED BY <1>1, <3>1, <3>2 DEF SetvalWell
  <2> QED BY <1>3, <2>1, <2>2, <2>3
<1> QED BY <1>2, <1>4, SInvSame DEF Orderly

\* A step of p that changes nothing but its own call, and the lock
LEMMA CallSets ==
  ASSUME SInv, Orderly, NEW p \in Proc, Step(p), NEW c, SetvalWell(c),
         call' = [call EXCEPT ![p] = c], UNCHANGED <<sema, sem, undo>>
  PROVE  SInv' /\ Mapped
<1>1. call \in [Proc -> CallType]
  BY DEF SInv, TInv, Types
<1>2. SetvalWell(call'[p]) /\ \A q \in Proc \ {p} : call'[q] = call[q]
  BY <1>1
<1>3. SInv'
  <2>1. OwedOnly(undo') /\ Settled
    BY DEF SInv, Orderly
  <2> QED BY <1>2, <2>1, SInvSame
<1>4. Mapped
  BY QuietMaps DEF Quiet
<1> QED BY <1>3, <1>4

\* An attempt to perform a vector
LEMMA TrySets ==
  ASSUME SInv, Orderly, NEW p \in Proc, Step(p), NEW S \in [Pool -> SemRec],
         \A j \in Pool : S[j].val = sem[j].val,
         NEW c \in CallType, c.sops \in Vectors, sema[c.id].alloc,
         Try(p, S, c), UNCHANGED sema
  PROVE  SInv' /\ Mapped
<1>1. SInv'
  BY TrySInv
<1>2. c.id \in SemId
  BY DEF CallType
<1>3. Quiet \/ Operated(p, c.id, c.sops)
  BY TryKinds
<1>4. Mapped
  BY <1>2, <1>3, QuietMaps, OperateMaps DEF Orderly
<1> QED BY <1>1, <1>4

\* semop
LEMMA SemopSets ==
  ASSUME SInv, Orderly, NEW p \in Proc, Step(p),
         \/ \E id \in SemId, sops \in Vectors : Semop(p, id, sops)
         \/ SemopCopied(p) \/ SemopWoken(p) \/ SemopInterrupted(p)
  PROVE  SInv' /\ Mapped
<1>1. /\ Types /\ PoolInv /\ (\A q \in Proc : InSemop(call[q])) /\ call[p] \in CallType
      /\ sem \in [Pool -> SemRec]
  BY DEF SInv, TInv, Types
<1>2. ASSUME NEW id \in SemId, NEW sops \in Vectors, Semop(p, id, sops) PROVE SInv' /\ Mapped
  <2> DEFINE c == [Idle EXCEPT !.pc = "copyin", !.id = id, !.seq = sema[id].seq,
                               !.sops = sops]
  <2>1. sema[id].alloc /\ UNCHANGED sema
    BY <1>2 DEF Semop
  <2>2. c \in CallType /\ c.id = id /\ c.sops = sops /\ c.pc = "copyin"
    <3>1. sema[id].seq \in 0 .. MaxSeq
      BY <1>1 DEF PoolInv, SlotType
    <3>2. c = Begun(id, sema[id].seq, sops)
      BY DEF Begun
    <3> HIDE DEF c
    <3> QED BY <3>1, <3>2, BeginType
  <2>3. CASE Try(p, sem, c)
    <3> HIDE DEF c
    <3> QED BY <1>1, <2>1, <2>2, <2>3, TrySets
  <2>4. CASE call' = [call EXCEPT ![p] = c] /\ UNCHANGED <<sem, undo, semu>>
    <3>1. SetvalWell(c)
      BY <2>2 DEF SetvalWell
    <3> HIDE DEF c
    <3> QED BY <2>1, <2>4, <3>1, CallSets
  <2> QED BY <1>2, <2>3, <2>4 DEF Semop
<1>3. ASSUME SemopCopied(p) PROVE SInv' /\ Mapped
  <2>1. Try(p, sem, call[p]) /\ UNCHANGED sema
    BY <1>3 DEF SemopCopied
  <2>2. call[p].sops \in Vectors /\ sema[call[p].id].alloc
    BY <1>1, <1>3 DEF SemopCopied, InSemop
  <2> QED BY <1>1, <2>1, <2>2, TrySets
<1>4. SetvalWell(Idle)
  BY DEF SetvalWell, Idle
<1>5. ASSUME SemopWoken(p) PROVE SInv' /\ Mapped
  <2> DEFINE c == call[p]
  <2>1. UNCHANGED sema /\ c.pc = "woken" /\ c.sops \in Vectors
    BY <1>1, <1>5 DEF SemopWoken, InSemop
  <2>2. CASE call' = Return(p) /\ UNCHANGED <<sem, undo, semu>>
    BY <1>4, <2>1, <2>2, CallSets DEF Return
  <2>3. CASE sema[c.id].alloc /\ Try(p, Uncounted(p), c)
    <3>1. Uncounted(p) \in [Pool -> SemRec]
      BY <1>1, UncountedType
    <3>2. \A j \in Pool : Uncounted(p)[j].val = sem[j].val
      <4> DEFINE i == c.semptr
                 x == u16(sem[i].zcnt - 1)
                 y == u16(sem[i].ncnt - 1)
      <4>1. Uncounted(p) = [sem EXCEPT ![i].zcnt = x] \/ Uncounted(p) = [sem EXCEPT ![i].ncnt = y]
        BY DEF Uncounted
      <4> HIDE DEF i, x, y
      <4>2. /\ \A j \in Pool : [sem EXCEPT ![i].zcnt = x][j].val = sem[j].val
            /\ \A j \in Pool : [sem EXCEPT ![i].ncnt = y][j].val = sem[j].val
        BY <1>1, CountsNotValues
      <4> QED BY <4>1, <4>2
    <3> QED BY <1>1, <2>1, <2>3, <3>1, <3>2, TrySets
  <2> QED BY <1>5, <2>2, <2>3 DEF SemopWoken
<1>6. ASSUME SemopInterrupted(p) PROVE SInv' /\ Mapped
  BY <1>4, <1>6, CallSets DEF SemopInterrupted, Return
<1> QED BY <1>2, <1>3, <1>5, <1>6

\* semget and IPC_RMID
LEMMA SlotSets ==
  ASSUME SInv, Orderly, NEW p \in Proc, Step(p),
         (\E n \in SetSizes : Semget(p, n)) \/ (\E id \in SemId : Rmid(p, id))
  PROVE  SInv' /\ Mapped
<1>1. TInv' /\ Types /\ PoolInv /\ call \in [Proc -> CallType]
  BY TInvStep DEF SInv, Orderly, TInv, Types
<1>2. ASSUME NEW n \in SetSizes, Semget(p, n) PROVE SInv' /\ Mapped
  <2>1. PICK new \in SemId :
          /\ ~sema[new].alloc
          /\ sema' = [sema EXCEPT ![new] = [alloc |-> TRUE, seq |-> @.seq + 1,
                                            base |-> semtot, nsems |-> n]]
          /\ UNCHANGED <<undo, call>>
    BY <1>2 DEF Semget
  <2>2. /\ sema'[new].alloc /\ sema'[new].nsems = n
        /\ \A i \in SemId \ {new} : sema'[i] = sema[i]
    BY <1>1, <2>1 DEF PoolInv, SlotType
  <2>3. \A id \in Live' : sema'[id].nsems \in SetSizes
    BY <2>2 DEF SInv, Live
  <2>4. ASSUME NEW q \in Proc PROVE SetvalWell(call[q])'
    <3>1. SetvalWell(call[q]) /\ call[q].id \in SemId
      BY <1>1 DEF SInv, CallType
    <3> QED BY <2>1, <2>2, <3>1 DEF SetvalWell
  <2>5. OwedOnly(undo)'
    BY <2>1 DEF SInv, OwedOnly
  <2>6. Mapped
    BY <1>2, SemgetMaps DEF Orderly
  <2> QED BY <1>1, <2>3, <2>4, <2>5, <2>6 DEF SInv
<1>3. ASSUME NEW old \in SemId, Rmid(p, old) PROVE SInv' /\ Mapped
  <2>1. /\ sema' = [Moved(old) EXCEPT ![old].alloc = FALSE]
        /\ undo' = AllUndoCleared(old) /\ call' = Wakeup(call, old)
        /\ "rmid" \in Calls
    BY <1>3 DEF Rmid
  <2>2. /\ ~sema'[old].alloc
        /\ \A i \in SemId \ {old} : /\ sema'[i].alloc = sema[i].alloc
                                    /\ sema'[i].nsems = sema[i].nsems
    <3>1. \A i \in SemId : sema[i] \in [alloc : BOOLEAN, seq : 0 .. MaxSeq,
                                        base : Nat, nsems : 0 .. 5]
      BY <1>1 DEF PoolInv, SlotType
    <3>2. DOMAIN Moved(old) = SemId /\ Moved(old)[old] = sema[old]
      BY <3>1 DEF Moved
    <3>3. sema'[old] = [sema[old] EXCEPT !.alloc = FALSE]
          /\ \A i \in SemId \ {old} : sema'[i] = Moved(old)[i]
      BY <2>1, <3>2
    <3>4. \A i \in SemId : /\ Moved(old)[i].alloc = sema[i].alloc
                           /\ Moved(old)[i].nsems = sema[i].nsems
      BY <3>1 DEF Moved
    <3>5. ~sema'[old].alloc
      BY <3>1, <3>3
    <3> QED BY <3>3, <3>4, <3>5
  <2>3. \A id \in Live' : sema'[id].nsems \in SetSizes
    BY <2>2 DEF SInv, Live
  <2>4. "fault" \notin Calls
    BY <2>1 DEF Orderly, Settled
  <2>5. ASSUME NEW q \in Proc PROVE SetvalWell(call[q])'
    <3>1. SetvalWell(call[q])
      BY DEF SInv
    <3>2. Woken(call, call', q)
      BY <2>1, WakeupWoken
    <3>3. call'[q].pc \in {call[q].pc, "woken"}
      BY <1>1, <3>2 DEF Woken, CallType
    <3> QED BY <2>4, <3>1, <3>3 DEF SetvalWell
  <2>6. OwedOnly(undo)'
    <3>1. \A q \in Proc : \A i \in SemId : \A m \in Num : undo'[q][i][m] \in {0, undo[q][i][m]}
      BY <1>1, <2>1, ClearedType
    <3>2. OwedOnly(undo')
      BY <3>1, LessOwed
    <3> QED BY <3>2 DEF OwedOnly
  <2>7. Mapped
    BY <1>3, RmidMaps DEF Orderly
  <2> QED BY <1>1, <2>3, <2>5, <2>6, <2>7 DEF SInv
<1> QED BY <1>2, <1>3

\* SETVAL
LEMMA SetvalSets ==
  ASSUME SInv, Orderly, NEW p \in Proc, Step(p),
         (\E id \in SemId, n \in Num : Setval(p, id, n)) \/ SetvalCopied(p)
  PROVE  SInv' /\ Mapped
<1>1. Types /\ PoolInv /\ call \in [Proc -> CallType]
  BY DEF SInv, TInv, Types
<1>2. ASSUME NEW id \in SemId, NEW n \in Num, NEW v \in Values, SetVal(p, id, n, v),
             sema[id].alloc, n < sema[id].nsems, "setval" \in Calls, UNCHANGED sema
      PROVE  SInv' /\ Mapped
  <2>1. Mapped
    BY <1>2, SetValMaps DEF Orderly
  <2>2. OwedOnly(undo')
    <3>1. \A q \in Proc : \A i \in SemId : \A m \in Num : undo'[q][i][m] \in {0, undo[q][i][m]}
      BY <1>1, <1>2, OneClearedType DEF SetVal
    <3> QED BY <3>1, LessOwed
  <2>3. call'[p] = Idle /\ \A q \in Proc \ {p} : Woken(call, call', q)
    BY <1>1, <1>2, ReturnWoken DEF SetVal
  <2>4. /\ SetvalWell(call'[p])
        /\ \A q \in Proc \ {p} : call'[q].pc \in {"semwait", "woken"} \/ call'[q] = call[q]
    <3>1. SetvalWell(call'[p])
      BY <2>3 DEF SetvalWell, Idle
    <3>2. \A q \in Proc \ {p} : call'[q].pc \in {"semwait", "woken"} \/ call'[q] = call[q]
      BY <1>1, <2>3 DEF Woken, CallType
    <3> QED BY <3>1, <3>2
  <2> QED BY <1>2, <2>1, <2>2, <2>4, SInvSame DEF Orderly
<1>3. ASSUME NEW id \in SemId, NEW n \in Num, Setval(p, id, n) PROVE SInv' /\ Mapped
  <2>1. /\ sema[id].alloc /\ n < sema[id].nsems /\ "setval" \in Calls /\ UNCHANGED sema
    BY <1>3 DEF Setval
  <2>2. CASE \E v \in Values : SetVal(p, id, n, v)
    BY <1>2, <2>1, <2>2
  <2>3. CASE /\ "fault" \in Calls
             /\ call' = [call EXCEPT ![p] = [Idle EXCEPT !.pc = "setval", !.id = id,
                                                         !.num = n]]
             /\ UNCHANGED <<sem, undo>>
    <3> DEFINE c == [Idle EXCEPT !.pc = "setval", !.id = id, !.num = n]
    <3>1. c.pc = "setval" /\ c.id = id /\ c.num = n
      BY IdleType DEF CallType
    <3>2. SetvalWell(c)
      BY <2>1, <2>3, <3>1 DEF SetvalWell
    <3> HIDE DEF c
    <3>3. call' = [call EXCEPT ![p] = c]
      BY <2>3 DEF c
    <3> QED BY <2>1, <2>3, <3>2, <3>3, CallSets
  <2> QED BY <1>3, <2>2, <2>3 DEF Setval
<1>4. ASSUME SetvalCopied(p) PROVE SInv' /\ Mapped
  <2> DEFINE c == call[p]
  <2>1. PICK v \in Values : SetVal(p, c.id, c.num, v)
    BY <1>4 DEF SetvalCopied
  <2>2. UNCHANGED sema /\ c.pc = "setval" /\ c \in CallType
    BY <1>1, <1>4 DEF SetvalCopied
  <2>3. sema[c.id].alloc /\ c.num < sema[c.id].nsems /\ "setval" \in Calls
    BY <2>2 DEF SInv, SetvalWell
  <2>4. c.id \in SemId /\ c.num \in Nat
    BY <2>2 DEF CallType
  <2>5. c.num \in Num
    <3>1. sema[c.id].nsems \in 1 .. 5
      BY <1>1, <2>3, <2>4, SetFacts
    <3> QED BY <2>3, <2>4, <3>1 DEF Num
  <2> QED BY <1>2, <2>1, <2>2, <2>3, <2>4, <2>5
<1> QED BY <1>3, <1>4

\* semexit
LEMMA ExitSets ==
  ASSUME SInv, Orderly, NoOverrun, NEW p \in Proc, Step(p), Semexit(p) \/ SemexitThawed(p)
  PROVE  SInv' /\ Mapped
<1>1. Types /\ PoolInv /\ call \in [Proc -> CallType]
  BY DEF SInv, TInv, Types
<1>2. ASSUME ApplyUndo(p), UNCHANGED sema PROVE SInv' /\ Mapped
  <2>1. Mapped
    BY <1>2, EndMaps DEF Orderly
  <2>2. OwedOnly(undo')
    BY <1>1, <1>2, UndoneType, LessOwed
  <2>3. /\ SetvalWell(call'[p])
        /\ \A q \in Proc \ {p} : call'[q].pc \in {"semwait", "woken"} \/ call'[q] = call[q]
    <3>1. call'[p] = Idle
      BY <1>2 DEF ApplyUndo
    <3>2. SetvalWell(call'[p])
      BY <3>1 DEF SetvalWell, Idle
    <3>3. ASSUME NEW q \in Proc \ {p}
          PROVE  call'[q].pc \in {"semwait", "woken"} \/ call'[q] = call[q]
      <4>1. call'[q] = call[q] \/ call'[q] = [call[q] EXCEPT !.pc = "woken"]
        BY <1>2 DEF ApplyUndo
      <4> QED BY <1>1, <4>1 DEF CallType
    <3> QED BY <3>2, <3>3
  <2> QED BY <1>2, <2>1, <2>2, <2>3, SInvSame DEF Orderly
<1>3. ASSUME Panic PROVE SInv' /\ Mapped
  <2>1. call' = [call EXCEPT ![p] = call[p]]
    BY <1>1, <1>3 DEF Panic
  <2>2. SetvalWell(call[p])
    BY DEF SInv
  <2> QED BY <1>3, <2>1, <2>2, CallSets DEF Panic
<1>4. ASSUME Finish(p) PROVE SInv' /\ Mapped
  BY <1>2, <1>3, <1>4 DEF Finish
<1>5. CASE Semexit(p)
  <2>1. CASE call' = [call EXCEPT ![p] = [Idle EXCEPT !.pc = "exiting"]]
             /\ UNCHANGED <<sema, sem, semtot, undo, semu, holder, panicked>>
    <3> DEFINE c == [Idle EXCEPT !.pc = "exiting"]
    <3>1. c.pc = "exiting"
      BY DEF Idle
    <3> HIDE DEF c
    <3>2. SetvalWell(c)
      BY <3>1 DEF SetvalWell
    <3>3. call' = [call EXCEPT ![p] = c]
      BY <2>1 DEF c
    <3> QED BY <2>1, <3>2, <3>3, CallSets
  <2> QED BY <1>4, <1>5, <2>1 DEF Semexit
<1>6. CASE SemexitThawed(p)
  BY <1>3, <1>4, <1>6 DEF SemexitThawed
<1> QED BY <1>5, <1>6

\* Each step keeps the invariant, and is one of SemaphoreSets or none.
LEMMA StepSets ==
  ASSUME SInv, Orderly, NoOverrun, NEW p \in Proc, Step(p)
  PROVE  SInv' /\ Mapped
<1>1. CASE \/ \E id \in SemId, sops \in Vectors : Semop(p, id, sops)
           \/ SemopCopied(p) \/ SemopWoken(p) \/ SemopInterrupted(p)
  BY <1>1, SemopSets
<1>2. CASE (\E n \in SetSizes : Semget(p, n)) \/ (\E id \in SemId : Rmid(p, id))
  BY <1>2, SlotSets
<1>3. CASE \/ \E id \in SemId : Setall(p, id)
           \/ SetallArg(p) \/ SetallCopied(p)
  <2>1. call[p].pc \notin {"setallarg", "setall"} /\ "setall" \notin Calls
    BY DEF SInv, SetvalWell, Orderly
  <2> QED BY <1>3, <2>1 DEF Setall, SetallArg, SetallCopied
<1>4. CASE (\E id \in SemId, n \in Num : Setval(p, id, n)) \/ SetvalCopied(p)
  BY <1>4, SetvalSets
<1>5. CASE Freeze(p) \/ Thaw(p)
  <2>1. call' = [call EXCEPT ![p] = call[p]] /\ UNCHANGED <<sema, sem, undo>>
    BY <1>5 DEF Freeze, Thaw, SInv, TInv, Types
  <2>2. SetvalWell(call[p])
    BY DEF SInv
  <2> QED BY <2>1, <2>2, CallSets
<1>6. CASE Semexit(p) \/ SemexitThawed(p)
  BY <1>6, ExitSets
<1> QED BY <1>1, <1>2, <1>3, <1>4, <1>5, <1>6 DEF Step

\* The beginning
LEMMA SetsInit == Init => SInv /\ Sets!Init
<1> SUFFICES ASSUME Init PROVE SInv /\ Sets!Init
  OBVIOUS
<1>1. TInv
  BY TInvInit
<1>2. \A id \in SemId : ~sema[id].alloc
  BY DEF Init
<1>3. \A q \in Proc : SetvalWell(call[q])
  BY DEF Init, SetvalWell, Idle
<1>4. OwedOnly(undo)
  BY DEF Init, OwedOnly, NoEntries
<1>5. SInv
  BY <1>1, <1>2, <1>3, <1>4 DEF SInv, Live
<1>6. SetMap = [id \in SemId |-> NoSet]
  BY <1>2 DEF SetMap
<1>7. undo = [p \in Proc |-> [id \in SemId |-> [n \in Sets!Num |-> 0]]]
  BY DEF Init, NoEntries, Sets!Num, Num
<1>8. Sets!Init
  BY <1>6, <1>7 DEF Sets!Init, SetMap
<1> QED BY <1>5, <1>8

\* Each vector is performed as a whole or not at all, an end undoes exactly what was asked
\* to be undone, and no set is touched through another (semop, semctl, semget and semexit
\* of sysv_sem.c), for the vectors and calls that Orderly admits, as long as no value
\* runs over when what is owed is added to it.
THEOREM VectorsAreAtomic == ASSUME Orderly PROVE Spec /\ []NoOverrun => AtomicSets
<1>1. Init => SInv /\ Sets!Init
  BY SetsInit
<1>2. SInv /\ NoOverrun /\ [Next]_vars => SInv' /\ Mapped
  <2> SUFFICES ASSUME SInv, NoOverrun, [Next]_vars PROVE SInv' /\ Mapped
    OBVIOUS
  <2>1. ASSUME NEW p \in Proc, Step(p) PROVE SInv' /\ Mapped
    BY <2>1, StepSets
  <2>2. CASE UNCHANGED vars
    <3>1. Mapped
      BY <2>2, QuietMaps DEF vars, Quiet
    <3>2. TInv'
      BY <2>2, SameSets DEF vars, SInv, TInv, Types
    <3>3. SInv'
      BY <2>2, <3>2 DEF vars, SInv, Live, SetvalWell, OwedOnly
    <3> QED BY <3>1, <3>3
  <2> QED BY <2>1, <2>2 DEF Next
<1>3. Mapped => [Sets!Next]_<<[id \in SemId |-> IF sema[id].alloc THEN ValuesOf(sem, id)
                                                              ELSE NoSet], undo>>
  BY DEF Mapped, SetMap
<1> QED BY <1>1, <1>2, <1>3, PTL DEF Spec, AtomicSets, Sets!Spec

================================================================================
