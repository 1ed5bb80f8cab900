-------------------------- MODULE AdvisoryLockProofs --------------------------
(***************************************************************************)
(* The safety of the advisory locks of a file, for all processes, files,   *)
(* requests and ranges.                                                    *)
(*                                                                         *)
(* The list of locks is rewritten in passes, one lock after the other, by  *)
(* what belongs to the owner of the request: each lock is kept, linked,    *)
(* woken, taken over or cut.  Kept says what such a pass has done with the *)
(* locks that it has seen and with the requests that were blocked on them, *)
(* and each of these small operations has a lemma about it.                *)
(*                                                                         *)
(* What a process does to the others is the same for all its actions: it   *)
(* leaves their requests on locks of the same owners, or wakes them        *)
(* (Effect).  The missed wake-ups and the cycles of sleepers are ruled out *)
(* from that and from what is known of a process that goes to sleep        *)
(* (SleepsFor).                                                            *)
(*                                                                         *)
(* For the refinement of ByteLocks the passes are looked at once more, by  *)
(* what they do to each byte (Has): one type is written on one range of    *)
(* one owner (Written) and all else stays as it was.                       *)
(***************************************************************************)
EXTENDS AdvisoryLock, Recursion, FiniteSetTheorems, TLAPS

--------------------------------------------------------------------------------
\* The types of what a pass works with

\* A lock, or the range of a request to unlock
AnyLock ==
    [id : Proc \cup {FileOf[p] : p \in Proc}, posix : BOOLEAN, type : {"RD", "WR", "UN"},
     start : Nat, end : Nat \cup {EOF}, blocks : Seq(Proc)]

\* Where a pass may be
PassType == [out : Seq(LockType), place : Nat, done : BOOLEAN,
             woken : SUBSET Proc, freed : SUBSET Proc]

\* What is left of a lock is such a lock, without blocked requests.
LEMMA LeftFacts ==
  ASSUME NEW x \in LockType, NEW new \in AnyLock
  PROVE  LET y == Piece(x, x.start, new.start - 1)
         IN  /\ ~(x.start < new.start) => LeftOf(x, new) = <<>>
             /\ x.start < new.start =>
                  /\ LeftOf(x, new) = <<y>> /\ y \in LockType
                  /\ y.id = x.id /\ y.posix = x.posix /\ y.type = x.type
                  /\ y.start = x.start /\ y.end = new.start - 1 /\ y.blocks = <<>>
<1> DEFINE y == Piece(x, x.start, new.start - 1)
<1>1. x.start \in Nat /\ new.start \in Nat /\ <<>> \in Seq(Proc)
  BY DEF LockType, AnyLock
<1>2. x.start < new.start => new.start - 1 \in Nat
  BY <1>1
<1>3. x.start < new.start =>
        /\ y \in LockType
        /\ y.id = x.id /\ y.posix = x.posix /\ y.type = x.type
        /\ y.start = x.start /\ y.end = new.start - 1 /\ y.blocks = <<>>
  BY <1>1, <1>2 DEF Piece, LockType
<1> HIDE DEF y
<1> QED BY <1>3 DEF LeftOf, y

\* What is right of a range
LEMMA RightFacts ==
  ASSUME NEW x \in LockType, NEW new \in AnyLock
  PROVE  LET y == Piece(x, new.end + 1, x.end)
             more == new.end # EOF /\ (x.end = EOF \/ x.end > new.end)
         IN  /\ ~more => RightOf(x, new) = <<>>
             /\ more =>
                  /\ RightOf(x, new) = <<y>> /\ y \in LockType
                  /\ y.id = x.id /\ y.posix = x.posix /\ y.type = x.type
                  /\ y.start = new.end + 1 /\ y.end = x.end /\ y.blocks = <<>>
<1> DEFINE y == Piece(x, new.end + 1, x.end)
           more == new.end # EOF /\ (x.end = EOF \/ x.end > new.end)
<1>1. new.end # EOF => new.end \in Nat /\ new.end + 1 \in Nat
  BY DEF AnyLock
<1>2. <<>> \in Seq(Proc)
  OBVIOUS
<1>3. more => /\ y \in LockType
              /\ y.id = x.id /\ y.posix = x.posix /\ y.type = x.type
              /\ y.start = new.end + 1 /\ y.end = x.end /\ y.blocks = <<>>
  BY <1>1, <1>2 DEF Piece, LockType
<1> HIDE DEF y
<1> QED BY <1>3 DEF RightOf, y

\* The small operations on a pass
LEMMA KeepFacts ==
  ASSUME NEW a \in PassType, NEW x \in LockType
  PROVE  LET b == Keep(a, x)
         IN  /\ b \in PassType /\ b.out = Append(a.out, x)
             /\ b.place = a.place /\ b.done = a.done
             /\ b.woken = a.woken /\ b.freed = a.freed
<1> DEFINE o == Append(a.out, x)
<1>1. a.out \in Seq(LockType)
  BY DEF PassType
<1>2. o \in Seq(LockType)
  BY <1>1
<1>3. Keep(a, x) = [a EXCEPT !.out = o]
  BY DEF Keep
<1> HIDE DEF o
<1>4. LET b == Keep(a, x)
      IN  /\ b \in PassType /\ b.out = o
          /\ b.place = a.place /\ b.done = a.done
          /\ b.woken = a.woken /\ b.freed = a.freed
  BY <1>2, <1>3 DEF PassType
<1> QED BY <1>4 DEF o

\* The other small operations change what they say and nothing else.
LEMMA WakeFacts ==
  ASSUME NEW a \in PassType, NEW x \in LockType
  PROVE  LET b == Wake(a, x)
         IN  /\ b \in PassType /\ b.out = a.out
             /\ b.place = a.place /\ b.done = a.done
             /\ b.woken = a.woken \cup Range(x.blocks) /\ b.freed = a.freed
<1>1. Range(x.blocks) \subseteq Proc
  BY DEF LockType, Range
<1> QED BY <1>1 DEF Wake, PassType

\* The new lock is linked once.
LEMMA LinkFacts ==
  ASSUME NEW a \in PassType, NEW new \in LockType
  PROVE  LET b == Link(a, new)
         IN  /\ b \in PassType
             /\ a.place # 0 => b = a
             /\ a.place = 0 => /\ b.out = Append(a.out, new)
                               /\ b.place = Len(a.out) + 1
             /\ b.place # 0 /\ b.done = a.done
             /\ b.woken = a.woken /\ b.freed = a.freed
<1> DEFINE o == Append(a.out, new)
           n == Len(a.out) + 1
<1>1. a.out \in Seq(LockType) /\ Len(a.out) \in Nat
  BY DEF PassType
<1>2. o \in Seq(LockType) /\ n \in Nat /\ n # 0
  BY <1>1
<1>3. Link(a, new) = IF a.place # 0 THEN a ELSE [a EXCEPT !.out = o, !.place = n]
  BY DEF Link
<1> HIDE DEF o, n
<1>4. LET b == Link(a, new)
      IN  /\ b \in PassType
          /\ a.place # 0 => b = a
          /\ a.place = 0 => b.out = o /\ b.place = n
          /\ b.place # 0 /\ b.done = a.done
          /\ b.woken = a.woken /\ b.freed = a.freed
  BY <1>2, <1>3 DEF PassType
<1> QED BY <1>4 DEF o, n

\* What is left of a lock is added at the end.
LEMMA AddFacts ==
  ASSUME NEW a \in PassType, NEW s \in Seq(LockType)
  PROVE  LET b == Add(a, s)
         IN  /\ b \in PassType /\ b.out = a.out \o s
             /\ b.place = a.place /\ b.done = a.done
             /\ b.woken = a.woken /\ b.freed = a.freed
<1> DEFINE o == a.out \o s
<1>1. a.out \in Seq(LockType)
  BY DEF PassType
<1>2. o \in Seq(LockType)
  BY <1>1
<1>3. Add(a, s) = [a EXCEPT !.out = o]
  BY DEF Add
<1> HIDE DEF o
<1>4. LET b == Add(a, s)
      IN  /\ b \in PassType /\ b.out = o
          /\ b.place = a.place /\ b.done = a.done
          /\ b.woken = a.woken /\ b.freed = a.freed
  BY <1>2, <1>3 DEF PassType
<1> QED BY <1>4 DEF o

\* The new lock takes a list over.
LEMMA TakeFacts ==
  ASSUME NEW a \in PassType, NEW x \in LockType
  PROVE  LET b == Take(a, x)
         IN  /\ b \in PassType
             /\ Len(b.out) = Len(a.out)
             /\ \A i \in 1 .. Len(a.out) :
                  b.out[i] = IF i = a.place
                             THEN [a.out[i] EXCEPT !.blocks = x.blocks \o @] ELSE a.out[i]
             /\ b.place = a.place /\ b.done = a.done
             /\ b.woken = a.woken /\ b.freed = a.freed \cup Range(x.blocks)
<1>1. Range(x.blocks) \subseteq Proc /\ x.blocks \in Seq(Proc)
  BY DEF LockType, Range
<1> DEFINE o == [a.out EXCEPT ![a.place].blocks = x.blocks \o @]
           y(i) == [a.out[i] EXCEPT !.blocks = x.blocks \o @]
<1>2. a.out \in Seq(LockType) /\ Len(a.out) \in Nat
  BY DEF PassType
<1>3. \A i \in 1 .. Len(a.out) : y(i) \in LockType
  <2> SUFFICES ASSUME NEW i \in 1 .. Len(a.out) PROVE y(i) \in LockType
    OBVIOUS
  <2>1. a.out[i] \in LockType
    BY <1>2
  <2>2. x.blocks \o a.out[i].blocks \in Seq(Proc)
    BY <1>1, <2>1 DEF LockType
  <2> QED BY <2>1, <2>2 DEF LockType
<1>4. /\ o \in Seq(LockType) /\ Len(o) = Len(a.out)
      /\ \A i \in 1 .. Len(a.out) : o[i] = IF i = a.place THEN y(i) ELSE a.out[i]
  <2> HIDE DEF y
  <2>1. a.out \in [1 .. Len(a.out) -> LockType]
    BY <1>2
  <2>2. o = [i \in 1 .. Len(a.out) |-> IF i = a.place THEN y(i) ELSE a.out[i]]
    BY <2>1 DEF y
  <2> HIDE DEF o
  <2>3. o \in [1 .. Len(a.out) -> LockType]
    BY <1>2, <1>3, <2>2
  <2> QED BY <1>2, <2>2, <2>3
<1>5. Take(a, x) = [a EXCEPT !.out = o, !.freed = @ \cup Range(x.blocks)]
  BY DEF Take, PassType
<1> HIDE DEF o
<1> QED BY <1>1, <1>4, <1>5 DEF PassType

--------------------------------------------------------------------------------
\* The requests on the lists of the locks

\* The processes whose requests are on the lists of the first n locks of s
On(s, n) == {q \in Proc : \E i \in 1 .. n : q \in Range(s[i].blocks)}

\* No request is on the list b twice.
NoTwice(b) == \A j, m \in 1 .. Len(b) : b[j] = b[m] => j = m

\* No request is on two lists, nor twice on one.
Once(s) ==
    /\ \A i \in 1 .. Len(s) : NoTwice(s[i].blocks)
    /\ \A i, k \in 1 .. Len(s) : i # k => Range(s[i].blocks) \cap Range(s[k].blocks) = {}

\* y stands in the way of all that x does.
Serves(y, x) ==
    /\ y.id = x.id
    /\ y.start <= x.start
    /\ y.end = EOF \/ (x.end # EOF /\ x.end <= y.end)
    /\ x.type = "WR" => y.type = "WR"

\* What a pass for the owner o has made of the first k locks of the list s: out, with the
\* requests on their lists, and the requests woken.  A request that was not woken is on
\* the list of a lock that serves the one it was on; only locks of o have theirs woken.
Kept(out, woken, s, k, o) ==
    /\ Once(out)
    /\ \A q \in Proc : q \in On(s, k) <=> q \in woken \/ q \in On(out, Len(out))
    /\ \A q \in Proc : ~(q \in woken /\ q \in On(out, Len(out)))
    /\ \A i \in 1 .. Len(out) : \A q \in Range(out[i].blocks) :
         \E j \in 1 .. k : q \in Range(s[j].blocks) /\ Serves(out[i], s[j])
    /\ \A q \in woken : \E j \in 1 .. k : q \in Range(s[j].blocks) /\ s[j].id = o

\* The processes on the lists after one lock more
LEMMA OnMore ==
  ASSUME NEW s \in Seq(LockType), Once(s), NEW k \in 1 .. Len(s)
  PROVE  /\ \A q \in Proc : q \in On(s, k) <=> q \in On(s, k-1) \/ q \in Range(s[k].blocks)
         /\ \A q \in Proc : ~(q \in On(s, k-1) /\ q \in Range(s[k].blocks))
<1>1. \A i \in 1 .. k-1 : i \in 1 .. k /\ i \in 1 .. Len(s) /\ i # k
  OBVIOUS
<1>2. \A i \in 1 .. k : i = k \/ i \in 1 .. k-1
  OBVIOUS
<1>3. k \in 1 .. k /\ k \in 1 .. Len(s)
  OBVIOUS
<1>4. \A q \in Proc : q \in On(s, k) <=> q \in On(s, k-1) \/ q \in Range(s[k].blocks)
  BY <1>1, <1>2, <1>3 DEF On
<1>5. \A i \in 1 .. k-1 : Range(s[i].blocks) \cap Range(s[k].blocks) = {}
  BY <1>1, <1>3 DEF Once
<1> QED BY <1>4, <1>5 DEF On

\* A list with one lock more
LEMMA OnAppend ==
  ASSUME NEW s \in Seq(LockType), NEW y \in LockType, Once(s), NoTwice(y.blocks),
         \A q \in Proc : ~(q \in On(s, Len(s)) /\ q \in Range(y.blocks))
  PROVE  LET t == Append(s, y)
         IN  /\ t \in Seq(LockType) /\ Len(t) = Len(s) + 1 /\ t[Len(s) + 1] = y
             /\ \A i \in 1 .. Len(s) : t[i] = s[i]
             /\ Once(t)
             /\ \A q \in Proc : q \in On(t, Len(t)) <=>
                                  q \in On(s, Len(s)) \/ q \in Range(y.blocks)
<1> DEFINE t == Append(s, y)
           n == Len(s)
<1>1. /\ n \in Nat /\ t \in Seq(LockType) /\ Len(t) = n + 1 /\ t[n+1] = y
      /\ \A i \in 1 .. n : t[i] = s[i]
  OBVIOUS
<1>2. \A i \in 1 .. n : Range(s[i].blocks) \subseteq Proc
  <2> SUFFICES ASSUME NEW i \in 1 .. n PROVE Range(s[i].blocks) \subseteq Proc
    OBVIOUS
  <2>1. s[i] \in LockType
    OBVIOUS
  <2>2. s[i].blocks \in Seq(Proc)
    BY <2>1 DEF LockType
  <2> QED BY <2>2 DEF Range
<1> HIDE DEF t, n
<1>3. \A i \in 1 .. n : Range(s[i].blocks) \cap Range(y.blocks) = {}
  BY <1>2 DEF On, n
<1>4. \A i \in 1 .. n+1 : i = n+1 \/ i \in 1 .. n
  BY <1>1
<1>5. n+1 \in 1 .. n+1 /\ \A i \in 1 .. n : i \in 1 .. n+1
  BY <1>1
<1>6. Once(t)
  <2>1. \A i \in 1 .. Len(t) : NoTwice(t[i].blocks)
    BY <1>1, <1>4 DEF Once, n
  <2>2. ASSUME NEW i \in 1 .. Len(t), NEW k \in 1 .. Len(t), i # k
        PROVE  Range(t[i].blocks) \cap Range(t[k].blocks) = {}
    <3>1. CASE i = n+1
      <4>1. k \in 1 .. n
        BY <1>1, <1>4, <2>2, <3>1
      <4> QED BY <1>1, <1>3, <3>1, <4>1
    <3>2. CASE k = n+1
      <4>1. i \in 1 .. n
        BY <1>1, <1>4, <2>2, <3>2
      <4> QED BY <1>1, <1>3, <3>2, <4>1
    <3>3. CASE i # n+1 /\ k # n+1
      <4>1. i \in 1 .. n /\ k \in 1 .. n
        BY <1>1, <1>4, <3>3
      <4> QED BY <1>1, <2>2, <4>1 DEF Once, n
    <3> QED BY <3>1, <3>2, <3>3
  <2> QED BY <2>1, <2>2 DEF Once
<1>7. \A q \in Proc : q \in On(t, n+1) <=> q \in On(s, n) \/ q \in Range(y.blocks)
  BY <1>1, <1>4, <1>5 DEF On
<1> QED BY <1>1, <1>6, <1>7 DEF t, n

\* A lock is kept, perhaps with a stronger type.
LEMMA KeptKeep ==
  ASSUME NEW s \in Seq(LockType), Once(s), NEW k \in 1 .. Len(s), NEW out \in Seq(LockType),
         NEW woken, NEW o, Kept(out, woken, s, k-1, o),
         NEW y \in LockType, y.blocks = s[k].blocks, Serves(y, s[k])
  PROVE  Kept(Append(out, y), woken, s, k, o)
<1> DEFINE t == Append(out, y)
           n == Len(out)
<1>1. /\ \A q \in Proc : q \in On(s, k) <=> q \in On(s, k-1) \/ q \in Range(s[k].blocks)
      /\ \A q \in Proc : ~(q \in On(s, k-1) /\ q \in Range(s[k].blocks))
  BY OnMore
<1>2. NoTwice(y.blocks)
  BY DEF Once
<1>3. /\ Once(out)
      /\ \A q \in Proc : q \in On(s, k-1) <=> q \in woken \/ q \in On(out, n)
      /\ \A q \in Proc : ~(q \in woken /\ q \in On(out, n))
  BY DEF Kept
<1>4. \A q \in Proc : ~(q \in On(out, n) /\ q \in Range(y.blocks))
  BY <1>1, <1>3
<1>5. /\ t \in Seq(LockType) /\ Len(t) = n + 1 /\ t[n+1] = y
      /\ \A i \in 1 .. n : t[i] = out[i]
      /\ Once(t)
      /\ \A q \in Proc : q \in On(t, n+1) <=> q \in On(out, n) \/ q \in Range(y.blocks)
  BY <1>2, <1>3, <1>4, OnAppend
<1>6. \A j \in 1 .. k-1 : j \in 1 .. k
  OBVIOUS
<1>7. ASSUME NEW i \in 1 .. n+1, NEW q \in Range(t[i].blocks)
      PROVE  \E j \in 1 .. k : q \in Range(s[j].blocks) /\ Serves(t[i], s[j])
  <2>1. CASE i = n+1
    BY <1>5, <2>1
  <2>2. CASE i # n+1
    <3>1. i \in 1 .. n
      BY <2>2
    <3>2. t[i] = out[i]
      BY <1>5, <3>1
    <3>3. \E j \in 1 .. k-1 : q \in Range(s[j].blocks) /\ Serves(out[i], s[j])
      BY <3>1, <3>2 DEF Kept
    <3> QED BY <1>6, <3>2, <3>3
  <2> QED BY <2>1, <2>2
<1>8. \A q \in woken : \E j \in 1 .. k : q \in Range(s[j].blocks) /\ s[j].id = o
  BY <1>6 DEF Kept
<1> HIDE DEF t, n
<1> QED BY <1>1, <1>3, <1>5, <1>7, <1>8 DEF Kept, t

\* The requests on a lock are woken.
LEMMA KeptWake ==
  ASSUME NEW s \in Seq(LockType), Once(s), NEW k \in 1 .. Len(s), NEW out \in Seq(LockType),
         NEW woken, NEW o, Kept(out, woken, s, k-1, o), s[k].id = o
  PROVE  Kept(out, woken \cup Range(s[k].blocks), s, k, o)
<1> DEFINE n == Len(out)
<1>1. /\ \A q \in Proc : q \in On(s, k) <=> q \in On(s, k-1) \/ q \in Range(s[k].blocks)
      /\ \A q \in Proc : ~(q \in On(s, k-1) /\ q \in Range(s[k].blocks))
  BY OnMore
<1>2. /\ Once(out)
      /\ \A q \in Proc : q \in On(s, k-1) <=> q \in woken \/ q \in On(out, n)
      /\ \A q \in Proc : ~(q \in woken /\ q \in On(out, n))
  BY DEF Kept
<1>3. \A j \in 1 .. k-1 : j \in 1 .. k
  OBVIOUS
<1>4. \A i \in 1 .. n : \A q \in Range(out[i].blocks) :
        \E j \in 1 .. k : q \in Range(s[j].blocks) /\ Serves(out[i], s[j])
  BY <1>3 DEF Kept
<1>5. \A q \in woken : \E j \in 1 .. k : q \in Range(s[j].blocks) /\ s[j].id = o
  BY <1>3 DEF Kept
<1>6. \A q \in Range(s[k].blocks) :
         \E j \in 1 .. k : q \in Range(s[j].blocks) /\ s[j].id = o
  OBVIOUS
<1> QED BY <1>1, <1>2, <1>4, <1>5, <1>6 DEF Kept

\* A lock or a piece of one is added that has no requests on it.
LEMMA KeptAdd ==
  ASSUME NEW s \in Seq(LockType), NEW k, NEW out \in Seq(LockType),
         NEW woken, NEW o, Kept(out, woken, s, k, o), NEW y \in LockType, y.blocks = <<>>
  PROVE  Kept(Append(out, y), woken, s, k, o)
<1> DEFINE t == Append(out, y)
           n == Len(out)
<1>1. Range(y.blocks) = {} /\ NoTwice(y.blocks)
  BY DEF Range, NoTwice
<1>2. Once(out)
  BY DEF Kept
<1>3. /\ t \in Seq(LockType) /\ Len(t) = n + 1 /\ t[n+1] = y
      /\ \A i \in 1 .. n : t[i] = out[i]
      /\ Once(t)
      /\ \A q \in Proc : q \in On(t, n+1) <=> q \in On(out, n) \/ q \in Range(y.blocks)
  BY <1>1, <1>2, OnAppend
<1>4. ASSUME NEW i \in 1 .. n+1, NEW q \in Range(t[i].blocks)
      PROVE  \E j \in 1 .. k : q \in Range(s[j].blocks) /\ Serves(t[i], s[j])
  <2>1. i # n+1
    BY <1>1, <1>3, <1>4
  <2>2. i \in 1 .. n
    BY <2>1
  <2> QED BY <1>3, <1>4, <2>2 DEF Kept
<1> HIDE DEF t
<1> QED BY <1>1, <1>3, <1>4 DEF Kept, t

\* One list of requests after another
LEMMA Joined ==
  ASSUME NEW b \in Seq(Proc), NEW c \in Seq(Proc), NoTwice(b), NoTwice(c),
         Range(b) \cap Range(c) = {}
  PROVE  /\ b \o c \in Seq(Proc) /\ NoTwice(b \o c)
         /\ Range(b \o c) = Range(b) \cup Range(c)
<1> DEFINE d == b \o c
           n == Len(b)
           m == Len(c)
<1>1. /\ n \in Nat /\ m \in Nat /\ d \in Seq(Proc) /\ Len(d) = n + m
      /\ \A i \in 1 .. n : d[i] = b[i]
      /\ \A i \in n+1 .. n+m : d[i] = c[i-n]
  OBVIOUS
<1>2. /\ \A i \in 1 .. n : b[i] \in Range(b)
      /\ \A i \in 1 .. m : c[i] \in Range(c)
  BY DEF Range
<1>3. \A i \in 1 .. n+m : i \in 1 .. n \/ (i \in n+1 .. n+m /\ i-n \in 1 .. m)
  BY <1>1
<1>4. /\ \A i \in 1 .. n : i \in 1 .. n+m
      /\ \A i \in 1 .. m : i+n \in n+1 .. n+m /\ i+n \in 1 .. n+m /\ (i+n)-n = i
  BY <1>1
<1>5. Range(d) = {d[i] : i \in 1 .. n+m}
  BY <1>1 DEF Range
<1>6. Range(b) = {b[i] : i \in 1 .. n} /\ Range(c) = {c[i] : i \in 1 .. m}
  BY DEF Range
<1> HIDE DEF d
<1>7. NoTwice(d)
  <2> SUFFICES ASSUME NEW j \in 1 .. n+m, NEW i \in 1 .. n+m, d[j] = d[i]
               PROVE  j = i
    BY <1>1 DEF NoTwice
  <2> HIDE DEF n, m
  <2>1. CASE j \in 1 .. n /\ i \in 1 .. n
    BY <1>1, <2>1 DEF NoTwice, n
  <2>2. CASE j \notin 1 .. n /\ i \notin 1 .. n
    <3>1. j \in n+1 .. n+m /\ j-n \in 1 .. m /\ i \in n+1 .. n+m /\ i-n \in 1 .. m
      BY <1>3, <2>2
    <3>2. c[j-n] = c[i-n]
      BY <1>1, <3>1
    <3>3. j-n = i-n
      BY <3>1, <3>2 DEF NoTwice, m
    <3> QED BY <1>1, <3>1, <3>3
  <2>3. CASE j \in 1 .. n /\ i \notin 1 .. n
    BY <1>1, <1>2, <1>3, <2>3
  <2>4. CASE j \notin 1 .. n /\ i \in 1 .. n
    BY <1>1, <1>2, <1>3, <2>4
  <2> QED BY <2>1, <2>2, <2>3, <2>4
<1>8. Range(d) \subseteq Range(b) \cup Range(c)
  <2> HIDE DEF n, m
  <2> QED BY <1>1, <1>2, <1>3, <1>5
<1>9. Range(b) \cup Range(c) \subseteq Range(d)
  <2>1. ASSUME NEW i \in 1 .. n PROVE b[i] \in Range(d)
    BY <1>1, <1>4, <1>5
  <2>2. ASSUME NEW i \in 1 .. m PROVE c[i] \in Range(d)
    <3>1. d[i+n] = c[i] /\ i+n \in 1 .. n+m
      BY <1>1, <1>4
    <3> QED BY <3>1, <1>5
  <2> QED BY <1>6, <2>1, <2>2
<1> QED BY <1>1, <1>7, <1>8, <1>9 DEF d

\* The new lock takes over the requests on a lock that it replaces.
LEMMA KeptTake ==
  ASSUME NEW s \in Seq(LockType), Once(s), NEW k \in 1 .. Len(s), NEW out \in Seq(LockType),
         NEW woken, NEW o, Kept(out, woken, s, k-1, o),
         NEW p \in 1 .. Len(out), Serves(out[p], s[k]),
         NEW t \in Seq(LockType), Len(t) = Len(out),
         \A i \in 1 .. Len(out) :
            t[i] = IF i = p THEN [out[i] EXCEPT !.blocks = s[k].blocks \o @] ELSE out[i]
  PROVE  Kept(t, woken, s, k, o)
<1> DEFINE n == Len(out)
           old == Range(s[k].blocks)
<1>1. /\ \A q \in Proc : q \in On(s, k) <=> q \in On(s, k-1) \/ q \in old
      /\ \A q \in Proc : ~(q \in On(s, k-1) /\ q \in old)
  BY OnMore
<1>2. /\ Once(out)
      /\ \A q \in Proc : q \in On(s, k-1) <=> q \in woken \/ q \in On(out, n)
      /\ \A q \in Proc : ~(q \in woken /\ q \in On(out, n))
  BY DEF Kept
<1>3. s[k] \in LockType /\ out[p] \in LockType
  OBVIOUS
<1>4. /\ s[k].blocks \in Seq(Proc) /\ NoTwice(s[k].blocks)
      /\ out[p].blocks \in Seq(Proc) /\ NoTwice(out[p].blocks)
  BY <1>2, <1>3 DEF LockType, Once
<1>5. old \subseteq Proc /\ \A i \in 1 .. n : Range(out[i].blocks) \subseteq Proc
  <2>1. old \subseteq Proc
    BY <1>4 DEF Range
  <2>2. ASSUME NEW i \in 1 .. n PROVE Range(out[i].blocks) \subseteq Proc
    <3>1. out[i] \in LockType
      OBVIOUS
    <3>2. out[i].blocks \in Seq(Proc)
      BY <3>1 DEF LockType
    <3> QED BY <3>2 DEF Range
  <2> QED BY <2>1, <2>2
<1>6. \A i \in 1 .. n : Range(out[i].blocks) \cap old = {}
  <2> HIDE DEF old
  <2> QED BY <1>1, <1>2, <1>5 DEF On
<1>7. /\ NoTwice(s[k].blocks \o out[p].blocks)
      /\ Range(s[k].blocks \o out[p].blocks) = old \cup Range(out[p].blocks)
  BY <1>4, <1>6, Joined
<1>8. t[p] = [out[p] EXCEPT !.blocks = s[k].blocks \o @]
  OBVIOUS
<1>9. /\ t[p].blocks = s[k].blocks \o out[p].blocks
      /\ t[p].id = out[p].id /\ t[p].type = out[p].type
      /\ t[p].start = out[p].start /\ t[p].end = out[p].end
  BY <1>3, <1>8 DEF LockType
<1>10. \A i \in 1 .. n : i # p => t[i] = out[i]
  OBVIOUS
<1>11. Range(t[p].blocks) = old \cup Range(out[p].blocks) /\ NoTwice(t[p].blocks)
  BY <1>7, <1>9
<1> HIDE DEF old
<1>12. Once(t)
  <2>1. \A i \in 1 .. Len(t) : NoTwice(t[i].blocks)
    BY <1>2, <1>10, <1>11 DEF Once
  <2>2. ASSUME NEW i \in 1 .. Len(t), NEW j \in 1 .. Len(t), i # j
        PROVE  Range(t[i].blocks) \cap Range(t[j].blocks) = {}
    <3>1. Range(out[i].blocks) \cap Range(out[j].blocks) = {}
      BY <1>2, <2>2 DEF Once
    <3>2. CASE i = p
      BY <1>6, <1>10, <1>11, <2>2, <3>1, <3>2
    <3>3. CASE j = p
      BY <1>6, <1>10, <1>11, <2>2, <3>1, <3>3
    <3> QED BY <1>10, <3>1, <3>2, <3>3
  <2> QED BY <2>1, <2>2 DEF Once
<1>13. \A q \in Proc : q \in On(t, n) <=> q \in On(out, n) \/ q \in old
  <2>1. ASSUME NEW q \in Proc, q \in On(t, n) PROVE q \in On(out, n) \/ q \in old
    BY <1>10, <1>11, <2>1 DEF On
  <2>2. ASSUME NEW q \in Proc, q \in old PROVE q \in On(t, n)
    BY <1>11, <2>2 DEF On
  <2>3. ASSUME NEW q \in Proc, q \in On(out, n) PROVE q \in On(t, n)
    BY <1>10, <1>11, <2>3 DEF On
  <2> QED BY <2>1, <2>2, <2>3
<1>14. \A j \in 1 .. k-1 : j \in 1 .. k
  OBVIOUS
<1>15. ASSUME NEW i \in 1 .. n, NEW q \in Range(t[i].blocks)
       PROVE  \E j \in 1 .. k : q \in Range(s[j].blocks) /\ Serves(t[i], s[j])
  <2>1. CASE q \in Range(out[i].blocks)
    <3>1. PICK j \in 1 .. k-1 : q \in Range(s[j].blocks) /\ Serves(out[i], s[j])
      BY <2>1 DEF Kept
    <3>2. Serves(t[i], s[j])
      BY <1>9, <1>10, <3>1 DEF Serves
    <3> QED BY <1>14, <3>1, <3>2
  <2>2. CASE q \notin Range(out[i].blocks)
    <3>1. i = p /\ q \in old
      BY <1>10, <1>11, <2>2
    <3>2. Serves(t[i], s[k])
      BY <1>9, <3>1 DEF Serves
    <3> QED BY <3>1, <3>2 DEF old
  <2> QED BY <2>1, <2>2
<1>16. \A q \in woken : \E j \in 1 .. k : q \in Range(s[j].blocks) /\ s[j].id = o
  BY <1>14 DEF Kept
<1> QED BY <1>1, <1>2, <1>12, <1>13, <1>15, <1>16 DEF Kept

--------------------------------------------------------------------------------
\* The order of the locks on the list

\* A range that has an end does not end before it starts; a lock is that of a process or
\* of the open file it uses.
Lawful(x) == x.end = EOF \/ x.start <= x.end
Named(x)  == \E p \in Proc : x.id = Id(p, x)

\* Locks there may be, those of one owner in order
InOrder(s) ==
    \A i \in 1 .. Len(s) :
        /\ Lawful(s[i]) /\ Named(s[i])
        /\ \A j \in 1 .. Len(s) : i < j /\ s[i].id = s[j].id => IsBefore(s[i], s[j])

\* Those of s, but perhaps the one at place skip, lie before the ones that come
\* after k on the list.
Ahead(s, skip, list, k) ==
    \A i \in 1 .. Len(s), j \in k+1 .. Len(list) :
        i # skip /\ s[i].id = list[j].id => IsBefore(s[i], list[j])

\* All of s that belong to the owner of y are before y.
AllBefore(s, y) == \A i \in 1 .. Len(s) : s[i].id = y.id => IsBefore(s[i], y)

\* Of three ranges, the first before the second and that before the third
LEMMA BeforeTransitive ==
  ASSUME NEW x \in AnyLock, NEW y \in AnyLock, NEW z \in AnyLock,
         IsBefore(x, y), IsBefore(y, z), Lawful(y)
  PROVE  IsBefore(x, z)
BY EOFAssumption DEF AnyLock, IsBefore, Lawful

\* One lock more at the end
LEMMA InOrderAppend ==
  ASSUME NEW s \in Seq(LockType), NEW y \in LockType, InOrder(s),
         Lawful(y), Named(y), AllBefore(s, y)
  PROVE  InOrder(Append(s, y))
<1> DEFINE t == Append(s, y)
           n == Len(s)
<1>1. /\ n \in Nat /\ Len(t) = n + 1 /\ t[n+1] = y
      /\ \A i \in 1 .. n : t[i] = s[i]
  OBVIOUS
<1> HIDE DEF t
<1>2. ASSUME NEW i \in 1 .. n+1 PROVE Lawful(t[i]) /\ Named(t[i])
  <2>1. CASE i = n+1
    BY <1>1, <2>1
  <2>2. CASE i # n+1
    <3>1. i \in 1 .. n
      BY <2>2
    <3> QED BY <1>1, <3>1 DEF InOrder
  <2> QED BY <2>1, <2>2
<1>3. ASSUME NEW i \in 1 .. n+1, NEW j \in 1 .. n+1, i < j, t[i].id = t[j].id
      PROVE  IsBefore(t[i], t[j])
  <2>1. i \in 1 .. n
    BY <1>3
  <2>2. CASE j = n+1
    BY <1>1, <1>3, <2>1, <2>2 DEF AllBefore
  <2>3. CASE j # n+1
    <3>1. j \in 1 .. n
      BY <2>3
    <3> QED BY <1>1, <1>3, <2>1, <3>1 DEF InOrder
  <2> QED BY <2>2, <2>3
<1> QED BY <1>1, <1>2, <1>3 DEF InOrder, t

\* A lock that lies before all that is to come may be added at the end.
LEMMA AheadAppend ==
  ASSUME NEW s \in Seq(LockType), NEW y \in LockType, NEW skip, NEW list, NEW k,
         Ahead(s, skip, list, k),
         NEW skip2, skip2 = skip \/ skip = 0,
         \/ skip2 = Len(s) + 1
         \/ \A j \in k+1 .. Len(list) : y.id = list[j].id => IsBefore(y, list[j])
  PROVE  Ahead(Append(s, y), skip2, list, k)
<1> DEFINE t == Append(s, y)
           n == Len(s)
<1>1. /\ n \in Nat /\ Len(t) = n + 1 /\ t[n+1] = y
      /\ \A i \in 1 .. n : t[i] = s[i]
  OBVIOUS
<1> HIDE DEF t
<1> SUFFICES ASSUME NEW i \in 1 .. n+1, NEW j \in k+1 .. Len(list),
                    i # skip2, t[i].id = list[j].id
             PROVE  IsBefore(t[i], list[j])
  BY <1>1 DEF Ahead, t
<1>2. CASE i = n+1
  BY <1>1, <1>2
<1>3. CASE i # n+1
  <2>1. i \in 1 .. n
    BY <1>3
  <2>2. i # skip
    BY <2>1
  <2> QED BY <1>1, <2>1, <2>2 DEF Ahead
<1> QED BY <1>2, <1>3

\* The locks seen so far lie before the next one, and those after it are after both.
LEMMA AheadNext ==
  ASSUME NEW list \in Seq(LockType), InOrder(list), NEW k \in 1 .. Len(list),
         NEW s, NEW skip, Ahead(s, skip, list, k-1)
  PROVE  /\ Ahead(s, skip, list, k)
         /\ \A i \in 1 .. Len(s) :
              i # skip /\ s[i].id = list[k].id => IsBefore(s[i], list[k])
         /\ \A j \in k+1 .. Len(list) :
              list[k].id = list[j].id => IsBefore(list[k], list[j])
<1>1. (k-1)+1 = k /\ k \in k .. Len(list) /\ \A j \in k+1 .. Len(list) : j \in k .. Len(list)
  OBVIOUS
<1>2. \A j \in k+1 .. Len(list) : j \in 1 .. Len(list) /\ k < j
  OBVIOUS
<1>3. Ahead(s, skip, list, k)
  BY <1>1 DEF Ahead
<1>4. \A i \in 1 .. Len(s) : i # skip /\ s[i].id = list[k].id => IsBefore(s[i], list[k])
  BY <1>1 DEF Ahead
<1> QED BY <1>2, <1>3, <1>4 DEF InOrder

--------------------------------------------------------------------------------
\* The pass of setting a lock

\* y takes the place of new, but for its list of requests.
Alike(y, new) == y.id = new.id /\ y.type = new.type /\ y.start = new.start /\ y.end = new.end

\* What the pass of setting new keeps true.  While the search goes on, the locks still
\* to come start after a new lock that is linked already, and may yet be replaced by it.
SetOrder(a, new, list, k) ==
    /\ a \in PassType
    /\ InOrder(a.out)
    /\ Ahead(a.out, IF a.done THEN 0 ELSE a.place, list, k)
    /\ a.done => a.place # 0
    /\ a.place = 0 => AllBefore(a.out, new)
    /\ a.place # 0 /\ ~a.done =>
         /\ a.place \in 1 .. Len(a.out) /\ Alike(a.out[a.place], new)
         /\ \A j \in k+1 .. Len(list) : list[j].id = new.id => list[j].start > new.start

\* A lock that the pass comes to, with all that is known of it
Comes(a, new, list, k) ==
    /\ list \in Seq(LockType) /\ InOrder(list) /\ k \in 1 .. Len(list)
    /\ new \in LockType /\ Lawful(new) /\ Named(new)
    /\ SetOrder(a, new, list, k-1)

\* What the cases use of the lock x that the pass has come to
LEMMA ComesFacts ==
  ASSUME NEW a, NEW new, NEW list, NEW k, Comes(a, new, list, k)
  PROVE  LET x    == list[k]
             skip == IF a.done THEN 0 ELSE a.place
         IN  /\ x \in LockType /\ x \in AnyLock /\ Lawful(x) /\ Named(x)
             /\ new \in LockType /\ new \in AnyLock /\ Lawful(new) /\ Named(new)
             /\ a \in PassType /\ a.out \in Seq(LockType) /\ Len(a.out) \in Nat
             /\ a.place \in Nat /\ a.done \in BOOLEAN
             /\ InOrder(a.out) /\ Ahead(a.out, skip, list, k)
             /\ \A i \in 1 .. Len(a.out) :
                  i # skip /\ a.out[i].id = x.id => IsBefore(a.out[i], x)
             /\ \A j \in k+1 .. Len(list) :
                  /\ list[j] \in AnyLock /\ Lawful(list[j])
                  /\ x.id = list[j].id => IsBefore(x, list[j])
             /\ a.done => a.place # 0
             /\ a.place = 0 => AllBefore(a.out, new)
             /\ a.place # 0 /\ ~a.done =>
                  /\ a.place \in 1 .. Len(a.out) /\ Alike(a.out[a.place], new)
                  /\ x.id = new.id => x.start > new.start
                  /\ \A j \in k+1 .. Len(list) :
                       list[j].id = new.id => list[j].start > new.start
<1> DEFINE x    == list[k]
           skip == IF a.done THEN 0 ELSE a.place
<1>1. /\ list \in Seq(LockType) /\ InOrder(list) /\ k \in 1 .. Len(list)
      /\ new \in LockType /\ Lawful(new) /\ Named(new)
      /\ SetOrder(a, new, list, k-1)
  BY DEF Comes
<1>2. \A y \in LockType : y \in AnyLock
  BY DEF LockType, AnyLock
<1>3. x \in LockType /\ \A j \in k+1 .. Len(list) : list[j] \in LockType
  BY <1>1
<1>4. Lawful(x) /\ Named(x) /\ \A j \in k+1 .. Len(list) : Lawful(list[j])
  <2>1. \A j \in k+1 .. Len(list) : j \in 1 .. Len(list)
    BY <1>1
  <2> QED BY <1>1, <2>1 DEF InOrder
<1>5. a \in PassType /\ InOrder(a.out) /\ Ahead(a.out, skip, list, k-1)
  BY <1>1 DEF SetOrder
<1>6. a.out \in Seq(LockType) /\ Len(a.out) \in Nat /\ a.place \in Nat /\ a.done \in BOOLEAN
  BY <1>5 DEF PassType
<1> HIDE DEF skip
<1>7. /\ Ahead(a.out, skip, list, k)
      /\ \A i \in 1 .. Len(a.out) : i # skip /\ a.out[i].id = x.id => IsBefore(a.out[i], x)
      /\ \A j \in k+1 .. Len(list) : x.id = list[j].id => IsBefore(x, list[j])
  BY <1>1, <1>5, AheadNext
<1>8. /\ a.done => a.place # 0
      /\ a.place = 0 => AllBefore(a.out, new)
      /\ a.place # 0 /\ ~a.done =>
           /\ a.place \in 1 .. Len(a.out) /\ Alike(a.out[a.place], new)
           /\ \A j \in (k-1)+1 .. Len(list) : list[j].id = new.id => list[j].start > new.start
  BY <1>1 DEF SetOrder
<1>9. /\ k \in (k-1)+1 .. Len(list)
      /\ \A j \in k+1 .. Len(list) : j \in (k-1)+1 .. Len(list)
  BY <1>1
<1>10. a.place # 0 /\ ~a.done =>
         /\ x.id = new.id => x.start > new.start
         /\ \A j \in k+1 .. Len(list) : list[j].id = new.id => list[j].start > new.start
  BY <1>8, <1>9
<1> HIDE DEF x
<1> QED BY <1>1, <1>2, <1>3, <1>4, <1>5, <1>6, <1>7, <1>8, <1>10 DEF x, skip

\* A lock that is kept as it is, and whose owner is another, or that lies before
LEMMA OrderKeep ==
  ASSUME NEW a, NEW new, NEW list, NEW k, Comes(a, new, list, k),
         a.done \/ list[k].id # new.id \/ IsBefore(list[k], new)
  PROVE  SetOrder(Keep(a, list[k]), new, list, k)
<1> DEFINE x    == list[k]
           skip == IF a.done THEN 0 ELSE a.place
           b    == Keep(a, x)
           n    == Len(a.out)
<1> HIDE DEF x, skip, b, n
<1>1. /\ x \in LockType /\ x \in AnyLock /\ Lawful(x) /\ Named(x)
      /\ new \in AnyLock /\ Lawful(new)
      /\ a \in PassType /\ a.out \in Seq(LockType) /\ n \in Nat
      /\ InOrder(a.out) /\ Ahead(a.out, skip, list, k)
      /\ \A i \in 1 .. n : i # skip /\ a.out[i].id = x.id => IsBefore(a.out[i], x)
      /\ \A j \in k+1 .. Len(list) : x.id = list[j].id => IsBefore(x, list[j])
      /\ a.done => a.place # 0
      /\ a.place = 0 => AllBefore(a.out, new)
  BY ComesFacts DEF x, skip, n
<1>2. a.place # 0 /\ ~a.done =>
        /\ a.place \in 1 .. n /\ Alike(a.out[a.place], new)
        /\ x.id = new.id => x.start > new.start
        /\ \A j \in k+1 .. Len(list) : list[j].id = new.id => list[j].start > new.start
  BY ComesFacts DEF x, n
<1>3. /\ b \in PassType /\ b.out = Append(a.out, x)
      /\ b.place = a.place /\ b.done = a.done
  BY <1>1, KeepFacts DEF b
<1>4. /\ Len(b.out) = n+1 /\ b.out[n+1] = x
      /\ \A i \in 1 .. n : b.out[i] = a.out[i]
  BY <1>1, <1>3 DEF n
<1>5. ~a.done /\ a.place # 0 => x.id # new.id
  <2>1. ASSUME IsBefore(x, new), x.start > new.start PROVE FALSE
    BY <1>1, <2>1 DEF IsBefore, Lawful, AnyLock
  <2> QED BY <1>2, <2>1 DEF x
<1>6. AllBefore(a.out, x)
  <2> SUFFICES ASSUME NEW i \in 1 .. n, a.out[i].id = x.id PROVE IsBefore(a.out[i], x)
    BY DEF AllBefore, n
  <2>1. i # skip
    BY <1>2, <1>5 DEF skip, Alike
  <2> QED BY <1>1, <2>1
<1>7. InOrder(b.out)
  BY <1>1, <1>3, <1>6, InOrderAppend
<1>8. Ahead(b.out, skip, list, k)
  BY <1>1, <1>3, AheadAppend
<1>9. b.place = 0 => AllBefore(b.out, new)
  <2> SUFFICES ASSUME a.place = 0, NEW i \in 1 .. n+1, b.out[i].id = new.id
               PROVE  IsBefore(b.out[i], new)
    BY <1>3, <1>4 DEF AllBefore
  <2>1. CASE i = n+1
    <3>1. ~a.done /\ b.out[i] = x /\ x.id = new.id
      BY <1>1, <1>4, <2>1
    <3> QED BY <3>1 DEF x
  <2>2. CASE i # n+1
    <3>1. i \in 1 .. n
      BY <1>1, <2>2
    <3> QED BY <1>1, <1>4, <3>1 DEF AllBefore, n
  <2> QED BY <2>1, <2>2
<1>10. b.place # 0 /\ ~b.done =>
         /\ b.place \in 1 .. Len(b.out) /\ Alike(b.out[b.place], new)
         /\ \A j \in k+1 .. Len(list) : list[j].id = new.id => list[j].start > new.start
  BY <1>1, <1>2, <1>3, <1>4
<1> QED BY <1>1, <1>3, <1>7, <1>8, <1>9, <1>10 DEF SetOrder, skip, x, b

\* The search ends at a lock past the range: the new lock goes before it.
LEMMA OrderAfter ==
  ASSUME NEW a, NEW new, NEW list, NEW k, Comes(a, new, list, k),
         ~a.done, list[k].id = new.id, IsAfter(list[k], new)
  PROVE  SetOrder([Keep(Link(a, new), list[k]) EXCEPT !.done = TRUE], new, list, k)
<1> DEFINE x == list[k]
           l == Link(a, new)
           c == Keep(l, x)
           b == [c EXCEPT !.done = TRUE]
           n == Len(a.out)
<1> HIDE DEF x, l, c, b, n
<1>1. /\ x \in LockType /\ x \in AnyLock /\ Lawful(x) /\ Named(x)
      /\ new \in LockType /\ new \in AnyLock /\ Lawful(new) /\ Named(new)
      /\ a \in PassType /\ a.out \in Seq(LockType) /\ n \in Nat
      /\ InOrder(a.out) /\ Ahead(a.out, a.place, list, k)
      /\ \A i \in 1 .. n : i # a.place /\ a.out[i].id = x.id => IsBefore(a.out[i], x)
      /\ \A j \in k+1 .. Len(list) :
           list[j] \in AnyLock /\ (x.id = list[j].id => IsBefore(x, list[j]))
      /\ a.place = 0 => AllBefore(a.out, new)
      /\ a.place # 0 => a.place \in 1 .. n /\ Alike(a.out[a.place], new)
  BY ComesFacts DEF x, n
<1>2. x.id = new.id /\ IsBefore(new, x)
  BY DEF x, IsAfter, IsBefore
<1>3. /\ l \in PassType /\ l.place # 0
      /\ a.place # 0 => l = a
      /\ a.place = 0 => l.out = Append(a.out, new) /\ l.place = n + 1
  BY <1>1, LinkFacts DEF l, n
<1>4. l.out \in Seq(LockType)
  BY <1>3 DEF PassType
<1>5. \A j \in k+1 .. Len(list) : new.id = list[j].id => IsBefore(new, list[j])
  BY <1>1, <1>2, BeforeTransitive
<1>6. InOrder(l.out) /\ Ahead(l.out, 0, list, k) /\ AllBefore(l.out, x)
  <2>1. CASE a.place = 0
    <3>1. InOrder(l.out)
      BY <1>1, <1>3, <2>1, InOrderAppend
    <3>2. Ahead(l.out, 0, list, k)
      BY <1>1, <1>3, <1>5, <2>1, AheadAppend
    <3>3. /\ Len(l.out) = n+1 /\ l.out[n+1] = new
          /\ \A i \in 1 .. n : l.out[i] = a.out[i]
      BY <1>1, <1>3, <2>1 DEF n
    <3>4. \A i \in 1 .. n+1 : i = n+1 \/ i \in 1 .. n
      BY <1>1
    <3>5. AllBefore(l.out, x)
      BY <1>1, <1>2, <2>1, <3>3, <3>4 DEF AllBefore
    <3> QED BY <3>1, <3>2, <3>5
  <2>2. CASE a.place # 0
    <3>1. l = a
      BY <1>3, <2>2
    <3>2. AllBefore(a.out, x)
      BY <1>1, <1>2, <2>2 DEF AllBefore, Alike, IsBefore, n
    <3>3. Ahead(a.out, 0, list, k)
      <4> SUFFICES ASSUME NEW i \in 1 .. n, NEW j \in k+1 .. Len(list),
                          a.out[i].id = list[j].id
                   PROVE  IsBefore(a.out[i], list[j])
        BY DEF Ahead, n
      <4>1. CASE i = a.place
        BY <1>1, <1>5, <2>2, <4>1 DEF Alike, IsBefore
      <4>2. CASE i # a.place
        BY <1>1, <4>2 DEF Ahead, n
      <4> QED BY <4>1, <4>2
    <3> QED BY <1>1, <3>1, <3>2, <3>3
  <2> QED BY <2>1, <2>2
<1>7. c \in PassType /\ c.out = Append(l.out, x) /\ c.place = l.place
  BY <1>1, <1>3, KeepFacts DEF c
<1>8. b \in PassType /\ b.out = c.out /\ b.place = l.place /\ b.done
  BY <1>7 DEF b, PassType
<1>9. InOrder(b.out)
  BY <1>1, <1>4, <1>6, <1>7, <1>8, InOrderAppend
<1>10. Ahead(b.out, 0, list, k)
  BY <1>1, <1>4, <1>6, <1>7, <1>8, AheadAppend
<1> QED BY <1>3, <1>8, <1>9, <1>10 DEF SetOrder, x, l, c, b

\* A lock of the same extent or one that the search ends in keeps its place, with the
\* type of the new one.
LEMMA OrderStop ==
  ASSUME NEW a, NEW new, NEW list, NEW k, Comes(a, new, list, k),
         ~a.done, list[k].id = new.id, ~(new.start < list[k].start),
         NEW c \in PassType, NEW y \in LockType, c.out = Append(a.out, y),
         y.id = list[k].id, y.posix = list[k].posix,
         y.start = list[k].start, y.end = list[k].end
  PROVE  SetOrder([c EXCEPT !.done = TRUE, !.place = Len(a.out) + 1], new, list, k)
<1> DEFINE x == list[k]
           n == Len(a.out)
           b == [c EXCEPT !.done = TRUE, !.place = n + 1]
<1> HIDE DEF x, b, n
<1>1. /\ x \in LockType /\ x \in AnyLock /\ Lawful(x) /\ Named(x)
      /\ new \in LockType /\ new \in AnyLock /\ Lawful(new) /\ Named(new)
      /\ a \in PassType /\ a.out \in Seq(LockType) /\ n \in Nat
      /\ InOrder(a.out) /\ Ahead(a.out, a.place, list, k)
      /\ \A i \in 1 .. n : i # a.place /\ a.out[i].id = x.id => IsBefore(a.out[i], x)
      /\ \A j \in k+1 .. Len(list) :
           list[j] \in AnyLock /\ (x.id = list[j].id => IsBefore(x, list[j]))
      /\ a.place # 0 => x.start > new.start
      /\ a.place \in Nat
  BY ComesFacts DEF x, n
<1>2. a.place = 0
  BY <1>1 DEF x, AnyLock
<1>3. y.id = x.id /\ y.posix = x.posix /\ y.start = x.start /\ y.end = x.end
  BY DEF x
<1>4. Lawful(y) /\ Named(y)
  BY <1>1, <1>3 DEF Lawful, Named, Id
<1>5. AllBefore(a.out, y)
  BY <1>1, <1>2, <1>3 DEF AllBefore, IsBefore, n
<1>6. \A j \in k+1 .. Len(list) : y.id = list[j].id => IsBefore(y, list[j])
  BY <1>1, <1>3 DEF IsBefore
<1>7. b \in PassType /\ b.out = Append(a.out, y) /\ b.place = n + 1 /\ b.done
  <2> DEFINE m == n + 1
  <2>1. m \in Nat
    BY <1>1
  <2> HIDE DEF m
  <2>2. b \in PassType /\ b.out = c.out /\ b.place = m /\ b.done
    BY <2>1 DEF b, PassType, m
  <2> QED BY <2>2 DEF m
<1>8. InOrder(b.out)
  BY <1>1, <1>4, <1>5, <1>7, InOrderAppend
<1>9. Ahead(b.out, 0, list, k)
  BY <1>1, <1>2, <1>6, <1>7, AheadAppend
<1> QED BY <1>1, <1>7, <1>8, <1>9 DEF SetOrder, b, n

\* A lock is covered when no part of it is left on either side.
LEMMA CoversFacts ==
  ASSUME NEW x \in LockType, NEW new \in AnyLock
  PROVE  Covers(new, x) <=> /\ ~(x.start < new.start)
                            /\ ~(new.end # EOF /\ (x.end = EOF \/ x.end > new.end))
<1>1. ~(x.start < new.start) <=> LeftOf(x, new) = <<>>
  <2>1. \A y : <<y>> # <<>>
    OBVIOUS
  <2> QED BY <2>1 DEF LeftOf
<1>2. ~(new.end # EOF /\ (x.end = EOF \/ x.end > new.end)) <=> RightOf(x, new) = <<>>
  <2>1. \A y : <<y>> # <<>>
    OBVIOUS
  <2> QED BY <2>1 DEF RightOf
<1> QED BY <1>1, <1>2 DEF Covers

\* The order does not depend on the types of the locks or their lists of requests.
LEMMA OrderAlike ==
  ASSUME NEW s \in Seq(LockType), NEW t \in Seq(LockType), Len(t) = Len(s),
         \A i \in 1 .. Len(s) : /\ t[i].id = s[i].id /\ t[i].posix = s[i].posix
                                /\ t[i].start = s[i].start /\ t[i].end = s[i].end
  PROVE  /\ InOrder(s) => InOrder(t)
         /\ \A skip, list, k : Ahead(s, skip, list, k) => Ahead(t, skip, list, k)
         /\ \A y : AllBefore(s, y) => AllBefore(t, y)
<1>1. ASSUME InOrder(s) PROVE InOrder(t)
  <2>1. ASSUME NEW i \in 1 .. Len(s) PROVE Lawful(t[i]) /\ Named(t[i])
    BY <1>1 DEF InOrder, Lawful, Named, Id
  <2>2. ASSUME NEW i \in 1 .. Len(s), NEW j \in 1 .. Len(s), i < j, t[i].id = t[j].id
        PROVE  IsBefore(t[i], t[j])
    BY <1>1, <2>2 DEF InOrder, IsBefore
  <2> QED BY <2>1, <2>2 DEF InOrder
<1>2. ASSUME NEW skip, NEW list, NEW k, Ahead(s, skip, list, k)
      PROVE  Ahead(t, skip, list, k)
  <2> SUFFICES ASSUME NEW i \in 1 .. Len(s), NEW j \in k+1 .. Len(list),
                      i # skip, t[i].id = list[j].id
               PROVE  IsBefore(t[i], list[j])
    BY DEF Ahead
  <2>1. IsBefore(s[i], list[j])
    BY <1>2 DEF Ahead
  <2> QED BY <2>1 DEF IsBefore
<1>3. ASSUME NEW y, AllBefore(s, y) PROVE AllBefore(t, y)
  BY <1>3 DEF AllBefore, IsBefore
<1> QED BY <1>1, <1>2, <1>3

\* The new lock is linked, at its place among the locks of its owner.
LEMMA OrderLink ==
  ASSUME NEW list, NEW k, NEW new \in LockType, Lawful(new), Named(new),
         NEW c \in PassType, InOrder(c.out), Ahead(c.out, c.place, list, k),
         c.place = 0 => AllBefore(c.out, new),
         c.place # 0 => c.place \in 1 .. Len(c.out) /\ Alike(c.out[c.place], new)
  PROVE  LET l == Link(c, new)
         IN  /\ l \in PassType /\ l.out \in Seq(LockType) /\ l.done = c.done
             /\ InOrder(l.out) /\ Ahead(l.out, l.place, list, k)
             /\ l.place \in 1 .. Len(l.out) /\ Alike(l.out[l.place], new)
             /\ c.place = 0 => \A i \in 1 .. Len(l.out) :
                                 i # l.place /\ l.out[i].id = new.id => IsBefore(l.out[i], new)
             /\ c.place # 0 => l = c
<1> DEFINE l == Link(c, new)
           n == Len(c.out)
<1>1. c.out \in Seq(LockType) /\ n \in Nat /\ c.place \in Nat
  BY DEF PassType
<1> HIDE DEF l, n
<1>2. /\ l \in PassType /\ l.place # 0 /\ l.done = c.done
      /\ c.place # 0 => l = c
      /\ c.place = 0 => l.out = Append(c.out, new) /\ l.place = n + 1
  BY LinkFacts DEF l, n
<1>3. l.out \in Seq(LockType)
  BY <1>2 DEF PassType
<1>4. CASE c.place # 0
  BY <1>2, <1>3, <1>4 DEF l
<1>5. CASE c.place = 0
  <2>1. InOrder(l.out)
    BY <1>1, <1>2, <1>5, InOrderAppend
  <2>2. Ahead(c.out, 0, list, k) /\ l.place = Len(c.out) + 1
    BY <1>2, <1>5 DEF n
  <2>3. Ahead(l.out, l.place, list, k)
    BY <1>1, <1>2, <1>5, <2>2, AheadAppend
  <2>4. /\ Len(l.out) = n+1 /\ l.out[n+1] = new
        /\ \A i \in 1 .. n : l.out[i] = c.out[i]
    BY <1>1, <1>2, <1>5 DEF n
  <2>5. n+1 \in 1 .. n+1 /\ \A i \in 1 .. n+1 : i # n+1 => i \in 1 .. n
    BY <1>1
  <2>6. l.place \in 1 .. Len(l.out) /\ Alike(l.out[l.place], new)
    BY <1>2, <1>5, <2>4, <2>5 DEF Alike
  <2>7. \A i \in 1 .. Len(l.out) :
          i # l.place /\ l.out[i].id = new.id => IsBefore(l.out[i], new)
    BY <1>2, <1>5, <2>4, <2>5 DEF AllBefore, n
  <2> QED BY <1>2, <1>3, <1>5, <2>1, <2>3, <2>6, <2>7 DEF l
<1> QED BY <1>4, <1>5

\* A lock that the new one covers goes, and the search goes on.
LEMMA OrderCover ==
  ASSUME NEW a, NEW new, NEW list, NEW k, Comes(a, new, list, k),
         ~a.done, list[k].id = new.id, ~IsBefore(list[k], new),
         NEW b \in PassType, b.place = Link(a, new).place, ~b.done,
         Len(b.out) = Len(Link(a, new).out),
         \A i \in 1 .. Len(b.out) :
            LET x == b.out[i]
                y == Link(a, new).out[i]
            IN  /\ x.id = y.id /\ x.posix = y.posix /\ x.type = y.type
                /\ x.start = y.start /\ x.end = y.end
  PROVE  SetOrder(b, new, list, k)
<1> DEFINE x == list[k]
           l == Link(a, new)
<1> HIDE DEF x, l
<1>1. /\ x \in LockType /\ x \in AnyLock /\ Lawful(x) /\ x.id = new.id /\ ~IsBefore(x, new)
      /\ new \in LockType /\ new \in AnyLock /\ Lawful(new) /\ Named(new)
      /\ a \in PassType /\ InOrder(a.out) /\ Ahead(a.out, a.place, list, k)
      /\ \A j \in k+1 .. Len(list) :
           list[j] \in AnyLock /\ (x.id = list[j].id => IsBefore(x, list[j]))
      /\ a.place = 0 => AllBefore(a.out, new)
      /\ a.place # 0 => a.place \in 1 .. Len(a.out) /\ Alike(a.out[a.place], new)
  BY ComesFacts DEF x
<1>2. /\ l.out \in Seq(LockType) /\ InOrder(l.out) /\ Ahead(l.out, l.place, list, k)
      /\ l.place \in 1 .. Len(l.out) /\ Alike(l.out[l.place], new)
  BY <1>1, OrderLink DEF l
<1>3. /\ b.out \in Seq(LockType) /\ b.place = l.place /\ Len(b.out) = Len(l.out)
      /\ \A i \in 1 .. Len(l.out) :
           /\ b.out[i].id = l.out[i].id /\ b.out[i].posix = l.out[i].posix
           /\ b.out[i].type = l.out[i].type
           /\ b.out[i].start = l.out[i].start /\ b.out[i].end = l.out[i].end
  BY DEF l, PassType
<1>4. InOrder(b.out) /\ Ahead(b.out, b.place, list, k)
  BY <1>2, <1>3, OrderAlike
<1>5. Alike(b.out[b.place], new)
  BY <1>2, <1>3 DEF Alike
<1>6. ASSUME NEW j \in k+1 .. Len(list), list[j].id = new.id
      PROVE  list[j].start > new.start
  BY <1>1, <1>6 DEF IsBefore, AnyLock
<1> QED BY <1>2, <1>3, <1>4, <1>5, <1>6 DEF SetOrder

\* Lists of one lock, and of none
LEMMA Single ==
  ASSUME NEW s \in Seq(LockType), NEW y \in LockType
  PROVE  /\ <<y>> \in Seq(LockType) /\ s \o <<y>> = Append(s, y)
         /\ <<>> \in Seq(LockType) /\ s \o <<>> = s
OBVIOUS

\* The parts left of a lock are lists of locks.
LEMMA PieceTypes ==
  ASSUME NEW x \in LockType, NEW new \in AnyLock
  PROVE  LeftOf(x, new) \in Seq(LockType) /\ RightOf(x, new) \in Seq(LockType)
<1>1. LeftOf(x, new) = <<>> \/ \E u \in LockType : LeftOf(x, new) = <<u>>
  BY LeftFacts
<1>2. RightOf(x, new) = <<>> \/ \E u \in LockType : RightOf(x, new) = <<u>>
  BY RightFacts
<1>3. <<>> \in Seq(LockType) /\ \A u \in LockType : <<u>> \in Seq(LockType)
  OBVIOUS
<1> QED BY <1>1, <1>2, <1>3

\* A lock that goes beyond the range is cut, and what is left of it lies on either
\* side of the new lock.
LEMMA OrderCut ==
  ASSUME NEW a, NEW new, NEW list, NEW k, Comes(a, new, list, k),
         ~a.done, list[k].id = new.id, Overlap(list[k], new)
  PROVE  SetOrder(Add(Link(Add(Wake(a, list[k]), LeftOf(list[k], new)), new),
                      RightOf(list[k], new)), new, list, k)
<1> DEFINE x == list[k]
           w == Wake(a, x)
           c == Add(w, LeftOf(x, new))
           l == Link(c, new)
           b == Add(l, RightOf(x, new))
           n == Len(a.out)
           m == Len(l.out)
           y == Piece(x, x.start, new.start - 1)
           z == Piece(x, new.end + 1, x.end)
<1> HIDE DEF x, w, c, l, b, n, m, y, z
<1>1. /\ x \in LockType /\ x \in AnyLock /\ Lawful(x) /\ Named(x)
      /\ new \in LockType /\ new \in AnyLock /\ Lawful(new) /\ Named(new)
      /\ a \in PassType /\ a.out \in Seq(LockType) /\ n \in Nat
      /\ InOrder(a.out) /\ Ahead(a.out, a.place, list, k)
      /\ \A i \in 1 .. n : i # a.place /\ a.out[i].id = x.id => IsBefore(a.out[i], x)
      /\ \A j \in k+1 .. Len(list) :
           list[j] \in AnyLock /\ (x.id = list[j].id => IsBefore(x, list[j]))
      /\ a.place = 0 => AllBefore(a.out, new)
      /\ a.place # 0 => /\ a.place \in 1 .. n /\ Alike(a.out[a.place], new)
                        /\ x.id = new.id => x.start > new.start
      /\ a.place \in Nat
  BY ComesFacts DEF x, n
<1>2. x.id = new.id /\ ~IsBefore(x, new) /\ ~IsAfter(x, new)
  BY DEF x, Overlap
<1>3. w \in PassType /\ w.out = a.out /\ w.place = a.place /\ w.done = a.done
  BY <1>1, WakeFacts DEF w
<1>4. /\ ~(x.start < new.start) => LeftOf(x, new) = <<>>
      /\ x.start < new.start =>
           /\ LeftOf(x, new) = <<y>> /\ y \in LockType
           /\ y.id = x.id /\ y.posix = x.posix
           /\ y.start = x.start /\ y.end = new.start - 1
  BY <1>1, LeftFacts DEF y
<1>5. LeftOf(x, new) \in Seq(LockType)
  BY <1>1, <1>4, Single
<1>6. c \in PassType /\ c.out = a.out \o LeftOf(x, new) /\ c.place = a.place /\ ~c.done
  BY <1>3, <1>5, AddFacts DEF c
<1>7. /\ InOrder(c.out) /\ Ahead(c.out, c.place, list, k)
      /\ c.place = 0 => AllBefore(c.out, new)
      /\ c.place # 0 => c.out = a.out
  <2>1. CASE ~(x.start < new.start)
    <3>1. c.out = a.out
      BY <1>1, <1>4, <1>6, <2>1, Single
    <3> QED BY <1>1, <1>6, <3>1
  <2>2. CASE x.start < new.start
    <3>1. a.place = 0
      BY <1>1, <1>2, <2>2 DEF AnyLock
    <3>2. /\ y \in LockType /\ y.id = x.id /\ y.posix = x.posix
          /\ y.start = x.start /\ y.end = new.start - 1 /\ y.end # EOF
          /\ x.start \in Nat /\ new.start \in Nat
      BY <1>1, <1>4, <2>2, EOFAssumption DEF AnyLock
    <3>3. c.out = Append(a.out, y)
      BY <1>1, <1>4, <1>6, <2>2, Single
    <3>4. Lawful(y) /\ Named(y) /\ IsBefore(y, new)
      BY <1>1, <2>2, <3>2 DEF Lawful, Named, IsBefore, Id
    <3>5. AllBefore(a.out, y)
      BY <1>1, <3>1, <3>2 DEF AllBefore, IsBefore, n
    <3>6. ASSUME NEW j \in k+1 .. Len(list), y.id = list[j].id PROVE IsBefore(y, list[j])
      BY <1>1, <1>2, <3>2, <3>6 DEF IsBefore, AnyLock
    <3>7. InOrder(c.out)
      BY <1>1, <3>2, <3>3, <3>4, <3>5, InOrderAppend
    <3>8. Ahead(c.out, c.place, list, k)
      BY <1>1, <1>6, <3>2, <3>3, <3>6, AheadAppend
    <3>9. /\ Len(c.out) = n+1 /\ c.out[n+1] = y
          /\ \A i \in 1 .. n : c.out[i] = a.out[i]
      BY <1>1, <3>2, <3>3 DEF n
    <3>10. \A i \in 1 .. n+1 : i = n+1 \/ i \in 1 .. n
      BY <1>1
    <3>11. AllBefore(c.out, new)
      BY <1>1, <3>1, <3>4, <3>9, <3>10 DEF AllBefore, n
    <3> QED BY <1>6, <3>1, <3>7, <3>8, <3>11
  <2> QED BY <2>1, <2>2
<1>8. c.place # 0 => c.place \in 1 .. Len(c.out) /\ Alike(c.out[c.place], new)
  BY <1>1, <1>6, <1>7 DEF n
<1>9. /\ l \in PassType /\ l.out \in Seq(LockType) /\ l.done = c.done
      /\ InOrder(l.out) /\ Ahead(l.out, l.place, list, k)
      /\ l.place \in 1 .. Len(l.out) /\ Alike(l.out[l.place], new)
      /\ c.place = 0 => \A i \in 1 .. Len(l.out) :
                          i # l.place /\ l.out[i].id = new.id => IsBefore(l.out[i], new)
      /\ c.place # 0 => l = c
  BY <1>1, <1>6, <1>7, <1>8, OrderLink DEF l
<1>10. \A i \in 1 .. Len(l.out) :
         i # l.place /\ l.out[i].id = new.id =>
            IsBefore(l.out[i], new) \/ IsBefore(l.out[i], x)
  BY <1>1, <1>2, <1>6, <1>7, <1>9 DEF n
<1> DEFINE more == new.end # EOF /\ (x.end = EOF \/ x.end > new.end)
<1>11. /\ ~more => RightOf(x, new) = <<>>
       /\ more => /\ RightOf(x, new) = <<z>> /\ z \in LockType
                  /\ z.id = x.id /\ z.posix = x.posix
                  /\ z.start = new.end + 1 /\ z.end = x.end
  BY <1>1, RightFacts DEF z
<1>12. RightOf(x, new) \in Seq(LockType)
  BY <1>1, <1>11, Single
<1>13. b \in PassType /\ b.out = l.out \o RightOf(x, new) /\ b.place = l.place /\ ~b.done
  BY <1>6, <1>9, <1>12, AddFacts DEF b
<1>14. ASSUME NEW j \in k+1 .. Len(list), list[j].id = new.id
       PROVE  list[j].start > new.start
  BY <1>1, <1>2, <1>14 DEF IsBefore, AnyLock
<1>15. CASE ~more
  <2>1. b.out = l.out
    BY <1>1, <1>9, <1>11, <1>13, <1>15, Single
  <2> QED BY <1>9, <1>13, <1>14, <2>1 DEF SetOrder, b, l, c, w, x
<1>16. CASE more
  <2>1. /\ z \in LockType /\ z.id = x.id /\ z.posix = x.posix
        /\ z.start = new.end + 1 /\ z.end = x.end
        /\ new.end \in Nat /\ x.start \in Nat /\ x.start <= new.end
    BY <1>1, <1>2, <1>11, <1>16 DEF AnyLock, IsAfter
  <2>2. b.out = Append(l.out, z)
    BY <1>9, <1>11, <1>13, <1>16, Single
  <2>3. Lawful(z) /\ Named(z)
    <3>1. Lawful(z)
      BY <1>1, <1>16, <2>1 DEF Lawful, AnyLock
    <3> QED BY <1>1, <2>1, <3>1 DEF Named, Id
  <2>4. AllBefore(l.out, z)
    <3> SUFFICES ASSUME NEW i \in 1 .. Len(l.out), l.out[i].id = z.id
                 PROVE  IsBefore(l.out[i], z)
      BY DEF AllBefore
    <3>1. l.out[i] \in LockType
      BY <1>9
    <3>2. CASE i = l.place
      BY <1>1, <1>9, <2>1, <3>2, EOFAssumption DEF Alike, IsBefore
    <3>3. CASE i # l.place
      <4>1. IsBefore(l.out[i], new) \/ IsBefore(l.out[i], x)
        BY <1>2, <1>10, <2>1, <3>3
      <4>2. new.start <= new.end
        BY <1>1, <1>16 DEF Lawful
      <4> HIDE DEF more
      <4> QED BY <1>1, <2>1, <3>1, <4>1, <4>2 DEF IsBefore, AnyLock, LockType
    <3> QED BY <3>2, <3>3
  <2>5. \A j \in k+1 .. Len(list) : z.id = list[j].id => IsBefore(z, list[j])
    BY <1>1, <2>1 DEF IsBefore
  <2>6. InOrder(b.out)
    BY <1>9, <2>1, <2>2, <2>3, <2>4, InOrderAppend
  <2>7. Ahead(b.out, b.place, list, k)
    BY <1>9, <1>13, <2>1, <2>2, <2>5, AheadAppend
  <2>8. /\ m \in Nat /\ Len(b.out) = m+1
        /\ \A i \in 1 .. m : b.out[i] = l.out[i]
    BY <1>9, <2>1, <2>2 DEF m
  <2>9. l.place \in 1 .. m
    BY <1>9 DEF m
  <2>10. b.place \in 1 .. Len(b.out) /\ Alike(b.out[b.place], new)
    BY <1>9, <1>13, <2>8, <2>9
  <2>11. b.place # 0
    BY <2>9, <1>13
  <2> QED BY <1>13, <1>14, <2>6, <2>7, <2>10, <2>11 DEF SetOrder, b, l, c, w, x
<1> QED BY <1>15, <1>16

\* What the pass of setting new has done with the requests on the locks
SetKept(a, new, list, k) ==
    /\ Kept(a.out, a.woken, list, k, new.id)
    /\ a.freed \subseteq On(list, k)

\* The new lock brings no requests with it.
LEMMA KeptLink ==
  ASSUME NEW s \in Seq(LockType), NEW k, NEW a \in PassType, NEW o, NEW new \in LockType,
         new.blocks = <<>>, Kept(a.out, a.woken, s, k, o)
  PROVE  Kept(Link(a, new).out, Link(a, new).woken, s, k, o)
<1>1. a.out \in Seq(LockType)
  BY DEF PassType
<1>2. Kept(Append(a.out, new), a.woken, s, k, o)
  BY <1>1, KeptAdd
<1>3. /\ a.place # 0 => Link(a, new) = a
      /\ a.place = 0 => Link(a, new).out = Append(a.out, new)
      /\ Link(a, new).woken = a.woken
  BY LinkFacts
<1> QED BY <1>2, <1>3

\* The piece or the lack of one that a cut leaves on a side
LEMMA KeptPiece ==
  ASSUME NEW s \in Seq(LockType), NEW k, NEW out \in Seq(LockType), NEW woken, NEW o,
         Kept(out, woken, s, k, o), NEW x \in LockType, NEW new \in AnyLock
  PROVE  /\ LeftOf(x, new) \in Seq(LockType) /\ RightOf(x, new) \in Seq(LockType)
         /\ Kept(out \o LeftOf(x, new), woken, s, k, o)
         /\ Kept(out \o RightOf(x, new), woken, s, k, o)
<1>1. LeftOf(x, new) = <<>> \/ \E y \in LockType : y.blocks = <<>> /\ LeftOf(x, new) = <<y>>
  BY LeftFacts
<1>2. \/ RightOf(x, new) = <<>>
      \/ \E y \in LockType : y.blocks = <<>> /\ RightOf(x, new) = <<y>>
  BY RightFacts
<1>3. ASSUME NEW y \in LockType, y.blocks = <<>>
      PROVE  <<y>> \in Seq(LockType) /\ Kept(out \o <<y>>, woken, s, k, o)
  <2>1. <<y>> \in Seq(LockType) /\ out \o <<y>> = Append(out, y)
    BY Single
  <2> QED BY <1>3, <2>1, KeptAdd
<1>4. <<>> \in Seq(LockType) /\ out \o <<>> = out
  BY x \in LockType, Single
<1>5. LeftOf(x, new) \in Seq(LockType) /\ Kept(out \o LeftOf(x, new), woken, s, k, o)
  BY <1>1, <1>3, <1>4
<1>6. RightOf(x, new) \in Seq(LockType) /\ Kept(out \o RightOf(x, new), woken, s, k, o)
  BY <1>2, <1>3, <1>4
<1> QED BY <1>5, <1>6

\* One lock more of the list, with the requests on it
LEMMA OnGrows ==
  ASSUME NEW s \in Seq(LockType), Once(s), NEW k \in 1 .. Len(s)
  PROVE  /\ On(s, k-1) \subseteq On(s, k)
         /\ Range(s[k].blocks) \subseteq On(s, k)
<1>1. s[k] \in LockType
  OBVIOUS
<1>2. s[k].blocks \in Seq(Proc)
  BY <1>1 DEF LockType
<1>3. Range(s[k].blocks) \subseteq Proc
  BY <1>2 DEF Range
<1>4. On(s, k-1) \subseteq Proc
  BY DEF On
<1> QED BY <1>3, <1>4, OnMore

\* A lock serves for itself.
LEMMA ServesItself ==
  ASSUME NEW x \in LockType
  PROVE  Serves(x, x)
BY DEF Serves, LockType

\* What the pass becomes in each of the cases, one of which is taken
Cases(a, x, new, b) ==
    /\ IsAfter(x, new) => b = [Keep(Link(a, new), x) EXCEPT !.done = TRUE]
    /\ IsBefore(x, new) => b = Keep(a, x)
    /\ Same(x, new) =>
         b = IF Downgrade(x, new)
             THEN [Keep(Wake(a, x), [x EXCEPT !.type = "RD", !.blocks = <<>>])
                     EXCEPT !.done = TRUE, !.place = Len(a.out) + 1]
             ELSE [Keep(a, [x EXCEPT !.type = new.type])
                     EXCEPT !.done = TRUE, !.place = Len(a.out) + 1]
    /\ Overlap(x, new) /\ Covers(new, x) /\ ~Same(x, new) =>
         b = IF Downgrade(x, new) THEN Wake(Link(a, new), x) ELSE Take(Link(a, new), x)
    /\ Overlap(x, new) /\ ~Covers(new, x) =>
         b = IF Covers(x, new) /\ x.type = new.type
             THEN [Keep(a, x) EXCEPT !.done = TRUE, !.place = Len(a.out) + 1]
             ELSE Add(Link(Add(Wake(a, x), LeftOf(x, new)), new), RightOf(x, new))
    /\ \/ IsAfter(x, new) \/ IsBefore(x, new) \/ Same(x, new)
       \/ Overlap(x, new) /\ Covers(new, x) /\ ~Same(x, new)
       \/ Overlap(x, new) /\ ~Covers(new, x)

\* One of the cases is taken, and the pass becomes what it says.
LEMMA SetCaseIs ==
  ASSUME NEW a, NEW x \in LockType, NEW new \in LockType, Lawful(x), Lawful(new)
  PROVE  Cases(a, x, new, SetCase(a, x, new))
<1>1. /\ x.start \in Nat /\ x.end \in Nat \cup {EOF}
      /\ new.start \in Nat /\ new.end \in Nat \cup {EOF}
  BY DEF LockType
<1>2. new \in AnyLock
  BY DEF AnyLock, LockType
<1>3. Same(x, new) => Covers(new, x)
  BY <1>1, <1>2, CoversFacts DEF Same
<1>4. /\ ~(IsAfter(x, new) /\ IsBefore(x, new))
      /\ Same(x, new) => ~IsAfter(x, new) /\ ~IsBefore(x, new)
  BY <1>1 DEF IsAfter, IsBefore, Same, Lawful
<1>5. Overlap(x, new) <=> ~IsBefore(x, new) /\ ~IsAfter(x, new)
  BY DEF Overlap
<1>6. CASE IsAfter(x, new)
  BY <1>3, <1>4, <1>5, <1>6 DEF SetCase, Cases
<1>7. CASE IsBefore(x, new)
  BY <1>3, <1>4, <1>5, <1>7 DEF SetCase, Cases
<1>8. CASE Same(x, new)
  BY <1>3, <1>4, <1>5, <1>8 DEF SetCase, Cases
<1>9. CASE Overlap(x, new) /\ Covers(new, x) /\ ~Same(x, new)
  BY <1>3, <1>4, <1>5, <1>9 DEF SetCase, Cases
<1>10. CASE Overlap(x, new) /\ ~Covers(new, x)
  BY <1>3, <1>4, <1>5, <1>10 DEF SetCase, Cases
<1> QED BY <1>5, <1>6, <1>7, <1>8, <1>9, <1>10

\* A lock that is kept in the pass, perhaps with a stronger type
LEMMA SetKeeps ==
  ASSUME NEW list \in Seq(LockType), Once(list), NEW k \in 1 .. Len(list),
         NEW a \in PassType, NEW o, Kept(a.out, a.woken, list, k-1, o),
         NEW y \in LockType, y.blocks = list[k].blocks, Serves(y, list[k])
  PROVE  Kept(Keep(a, y).out, Keep(a, y).woken, list, k, o)
<1>1. a.out \in Seq(LockType)
  BY DEF PassType
<1>2. Kept(Append(a.out, y), a.woken, list, k, o)
  BY <1>1, KeptKeep
<1> QED BY <1>2, KeepFacts

\* A lock whose list is woken before it is cut or goes
LEMMA SetWakes ==
  ASSUME NEW list \in Seq(LockType), Once(list), NEW k \in 1 .. Len(list),
         NEW a \in PassType, Kept(a.out, a.woken, list, k-1, list[k].id)
  PROVE  Kept(Wake(a, list[k]).out, Wake(a, list[k]).woken, list, k, list[k].id)
<1>1. a.out \in Seq(LockType) /\ list[k] \in LockType
  BY DEF PassType
<1>2. Kept(a.out, a.woken \cup Range(list[k].blocks), list, k, list[k].id)
  BY <1>1, KeptWake
<1> QED BY <1>1, <1>2, WakeFacts

\* A case of the search that ends it changes no list.
LEMMA Stopped ==
  ASSUME NEW c \in PassType, NEW n \in Nat
  PROVE  LET b == [c EXCEPT !.done = TRUE, !.place = n]
             d == [c EXCEPT !.done = TRUE]
         IN  /\ b.out = c.out /\ b.woken = c.woken /\ b.freed = c.freed
             /\ d.out = c.out /\ d.woken = c.woken /\ d.freed = c.freed
BY DEF PassType

\* Each case keeps the order and loses no request.
LEMMA SetCaseKeeps ==
  ASSUME NEW a, NEW new, NEW list, NEW k, Comes(a, new, list, k), Once(list),
         new.blocks = <<>>, SetKept(a, new, list, k-1), ~a.done, list[k].id = new.id
  PROVE  /\ SetOrder(SetCase(a, list[k], new), new, list, k)
         /\ SetKept(SetCase(a, list[k], new), new, list, k)
<1> DEFINE x == list[k]
           l == Link(a, new)
           b == SetCase(a, x, new)
           n == Len(a.out) + 1
<1>1. /\ x \in LockType /\ x \in AnyLock /\ Lawful(x)
      /\ new \in LockType /\ new \in AnyLock /\ Lawful(new)
      /\ a \in PassType /\ a.out \in Seq(LockType) /\ n \in Nat
      /\ a.place = 0 => AllBefore(a.out, new)
      /\ a.place # 0 => /\ a.place \in 1 .. Len(a.out) /\ Alike(a.out[a.place], new)
                        /\ x.id = new.id => x.start > new.start
      /\ InOrder(a.out) /\ Ahead(a.out, a.place, list, k)
  BY ComesFacts
<1>2. list \in Seq(LockType) /\ k \in 1 .. Len(list) /\ Named(new)
  BY DEF Comes
<1>3. Kept(a.out, a.woken, list, k-1, new.id) /\ a.freed \subseteq On(list, k-1)
  BY DEF SetKept
<1>4. On(list, k-1) \subseteq On(list, k) /\ Range(x.blocks) \subseteq On(list, k)
  BY <1>2, OnGrows
<1>5. l \in PassType /\ l.freed = a.freed /\ l.woken = a.woken /\ l.done = a.done
  BY <1>1, LinkFacts
<1>6. Kept(l.out, l.woken, list, k-1, new.id)
  BY <1>1, <1>2, <1>3, KeptLink
<1>7. Serves(x, x) /\ x.id = new.id
  BY <1>1, ServesItself
<1>8. l.out \in Seq(LockType) /\ l.place \in 1 .. Len(l.out) /\ Alike(l.out[l.place], new)
  BY <1>1, <1>2, OrderLink
<1> HIDE DEF x, b
<1>9. Cases(a, x, new, b)
  BY <1>1, SetCaseIs DEF b
<1> HIDE DEF l, n
<1>10. CASE IsAfter(x, new)
  <2> DEFINE c == Keep(l, x)
  <2> HIDE DEF c
  <2>1. b = [c EXCEPT !.done = TRUE]
    BY <1>10, <1>9 DEF Cases, c, l
  <2>2. SetOrder(b, new, list, k)
    BY <1>10, <2>1, OrderAfter DEF x, l, c
  <2>3. Kept(c.out, c.woken, list, k, new.id)
    BY <1>1, <1>2, <1>5, <1>6, <1>7, SetKeeps DEF c, x
  <2>4. c \in PassType /\ c.freed = a.freed
    BY <1>1, <1>5, KeepFacts DEF c
  <2>5. b.out = c.out /\ b.woken = c.woken /\ b.freed = c.freed
    BY <1>1, <2>1, <2>4, Stopped
  <2> QED BY <1>3, <1>4, <2>2, <2>3, <2>4, <2>5 DEF SetKept, b, x
<1>11. CASE IsBefore(x, new)
  <2>1. b = Keep(a, x)
    BY <1>11, <1>9 DEF Cases
  <2>2. SetOrder(b, new, list, k)
    BY <1>11, <2>1, OrderKeep DEF x
  <2>3. Kept(b.out, b.woken, list, k, new.id)
    BY <1>1, <1>2, <1>3, <1>7, <2>1, SetKeeps DEF x
  <2>4. b.freed = a.freed
    BY <1>1, <2>1, KeepFacts
  <2> QED BY <1>3, <1>4, <2>2, <2>3, <2>4 DEF SetKept, b, x
<1>12. CASE Same(x, new) /\ Downgrade(x, new)
  <2> DEFINE w == Wake(a, x)
             y == [x EXCEPT !.type = "RD", !.blocks = <<>>]
             c == Keep(w, y)
  <2>1. /\ y \in LockType /\ y.blocks = <<>> /\ y.id = x.id /\ y.posix = x.posix
        /\ y.start = x.start /\ y.end = x.end
    <3>1. <<>> \in Seq(Proc)
      OBVIOUS
    <3> QED BY <1>1, <3>1 DEF LockType
  <2> HIDE DEF w, y, c
  <2>2. b = [c EXCEPT !.done = TRUE, !.place = n]
    BY <1>12, <1>9 DEF Cases, c, w, y, n
  <2>3. w \in PassType /\ w.out = a.out /\ w.freed = a.freed
    BY <1>1, WakeFacts DEF w
  <2>4. Kept(w.out, w.woken, list, k, new.id)
    BY <1>1, <1>2, <1>3, <1>7, SetWakes DEF w, x
  <2>5. /\ c \in PassType /\ c.out = Append(a.out, y) /\ c.woken = w.woken
        /\ c.freed = a.freed
    BY <2>1, <2>3, KeepFacts DEF c
  <2>6. Kept(c.out, c.woken, list, k, new.id)
    BY <1>1, <1>2, <2>1, <2>3, <2>4, <2>5, KeptAdd
  <2>7. ~(new.start < x.start)
    BY <1>1, <1>12 DEF Same, AnyLock
  <2>8. SetOrder(b, new, list, k)
    BY <2>1, <2>2, <2>5, <2>7, OrderStop DEF x, n
  <2>9. b.out = c.out /\ b.woken = c.woken /\ b.freed = c.freed
    BY <1>1, <2>2, <2>5, Stopped
  <2> QED BY <1>3, <1>4, <2>5, <2>6, <2>8, <2>9 DEF SetKept, b, x
<1>13. CASE Same(x, new) /\ ~Downgrade(x, new)
  <2> DEFINE y == [x EXCEPT !.type = new.type]
             c == Keep(a, y)
  <2>1. /\ y \in LockType /\ y.blocks = x.blocks /\ y.id = x.id /\ y.posix = x.posix
        /\ y.start = x.start /\ y.end = x.end /\ y.type = new.type
    BY <1>1 DEF LockType
  <2>2. Serves(y, x)
    BY <1>1, <1>7, <1>13, <2>1 DEF Serves, Downgrade, LockType
  <2> HIDE DEF y, c
  <2>3. b = [c EXCEPT !.done = TRUE, !.place = n]
    BY <1>13, <1>9 DEF Cases, c, y, n
  <2>4. c \in PassType /\ c.out = Append(a.out, y) /\ c.freed = a.freed
    BY <1>1, <2>1, KeepFacts DEF c
  <2>5. Kept(c.out, c.woken, list, k, new.id)
    BY <1>1, <1>2, <1>3, <2>1, <2>2, SetKeeps DEF c, x
  <2>6. ~(new.start < x.start)
    BY <1>1, <1>13 DEF Same, AnyLock
  <2>7. SetOrder(b, new, list, k)
    BY <2>1, <2>3, <2>4, <2>6, OrderStop DEF x, n
  <2>8. b.out = c.out /\ b.woken = c.woken /\ b.freed = c.freed
    BY <1>1, <2>3, <2>4, Stopped
  <2> QED BY <1>3, <1>4, <2>4, <2>5, <2>7, <2>8 DEF SetKept, b, x
<1>14. CASE Overlap(x, new) /\ Covers(new, x) /\ ~Same(x, new) /\ Downgrade(x, new)
  <2>1. b = Wake(l, x)
    BY <1>14, <1>9 DEF Cases, l
  <2>2. /\ b \in PassType /\ b.out = l.out /\ b.place = l.place /\ b.done = a.done
        /\ b.freed = a.freed
    BY <1>1, <1>5, <2>1, WakeFacts
  <2>3. ~IsBefore(x, new)
    BY <1>14 DEF Overlap
  <2>4. SetOrder(b, new, list, k)
    BY <2>2, <2>3, OrderCover DEF x, l
  <2>5. Kept(b.out, b.woken, list, k, new.id)
    BY <1>2, <1>5, <1>6, <1>7, <2>1, SetWakes DEF x
  <2> QED BY <1>3, <1>4, <2>2, <2>4, <2>5 DEF SetKept, b, x
<1>15. CASE Overlap(x, new) /\ Covers(new, x) /\ ~Same(x, new) /\ ~Downgrade(x, new)
  <2>1. b = Take(l, x)
    BY <1>15, <1>9 DEF Cases, l
  <2>2. /\ b \in PassType
        /\ Len(b.out) = Len(l.out)
        /\ \A i \in 1 .. Len(l.out) :
             b.out[i] = IF i = l.place
                        THEN [l.out[i] EXCEPT !.blocks = x.blocks \o @] ELSE l.out[i]
        /\ b.place = l.place /\ b.done = l.done
        /\ b.woken = l.woken /\ b.freed = l.freed \cup Range(x.blocks)
    BY <1>1, <1>5, <2>1, TakeFacts
  <2>3. ~IsBefore(x, new)
    BY <1>15 DEF Overlap
  <2>4. \A i \in 1 .. Len(l.out) :
          /\ b.out[i].id = l.out[i].id /\ b.out[i].posix = l.out[i].posix
          /\ b.out[i].type = l.out[i].type
          /\ b.out[i].start = l.out[i].start /\ b.out[i].end = l.out[i].end
    <3> SUFFICES ASSUME NEW i \in 1 .. Len(l.out)
                 PROVE  /\ b.out[i].id = l.out[i].id /\ b.out[i].posix = l.out[i].posix
                        /\ b.out[i].type = l.out[i].type
                        /\ b.out[i].start = l.out[i].start /\ b.out[i].end = l.out[i].end
      OBVIOUS
    <3>1. l.out[i] \in LockType
      BY <1>8
    <3>2. b.out[i] = [l.out[i] EXCEPT !.blocks = x.blocks \o @] \/ b.out[i] = l.out[i]
      BY <2>2
    <3> QED BY <3>1, <3>2 DEF LockType
  <2>5. SetOrder(b, new, list, k)
    BY <1>5, <2>2, <2>3, <2>4, OrderCover DEF x, l
  <2>6. Serves(l.out[l.place], x)
    <3>1. /\ ~(x.start < new.start)
          /\ ~(new.end # EOF /\ (x.end = EOF \/ x.end > new.end))
      BY <1>1, <1>15, CoversFacts
    <3> DEFINE y == l.out[l.place]
    <3>2. /\ y.id = x.id /\ y.type = new.type /\ y.start = new.start /\ y.end = new.end
      BY <1>7, <1>8 DEF Alike
    <3> HIDE DEF y
    <3>3. /\ x.start \in Nat /\ x.end \in Nat \cup {EOF} /\ x.type \in {"RD", "WR"}
          /\ new.start \in Nat /\ new.end \in Nat \cup {EOF} /\ new.type \in {"RD", "WR"}
      BY <1>1 DEF LockType
    <3>4. x.type = "WR" => new.type = "WR"
      BY <1>15, <3>3 DEF Downgrade
    <3>5. Serves(y, x)
      BY <3>1, <3>2, <3>3, <3>4, EOFAssumption DEF Serves
    <3> QED BY <3>5 DEF y
  <2>7. b.out \in Seq(LockType)
    BY <2>2 DEF PassType
  <2>8. Kept(b.out, b.woken, list, k, new.id)
    <3> DEFINE out == l.out
               t   == b.out
               p   == l.place
    <3>1. /\ out \in Seq(LockType) /\ t \in Seq(LockType) /\ p \in 1 .. Len(out)
          /\ Kept(out, l.woken, list, k-1, new.id) /\ Serves(out[p], list[k])
          /\ Len(t) = Len(out)
      BY <1>6, <1>8, <2>2, <2>6, <2>7 DEF x
    <3>2. \A i \in 1 .. Len(out) :
            t[i] = IF i = p THEN [out[i] EXCEPT !.blocks = list[k].blocks \o @] ELSE out[i]
      BY <2>2 DEF x
    <3> HIDE DEF out, t, p
    <3>3. Kept(t, l.woken, list, k, new.id)
      BY ONLY <1>2, <3>1, <3>2, KeptTake, Once(list)
    <3> QED BY <2>2, <3>3 DEF t
  <2> QED BY <1>3, <1>4, <1>5, <2>2, <2>5, <2>8 DEF SetKept, b, x
<1>16. CASE Overlap(x, new) /\ ~Covers(new, x) /\ (Covers(x, new) /\ x.type = new.type)
  <2> DEFINE c == Keep(a, x)
  <2> HIDE DEF c
  <2>1. b = [c EXCEPT !.done = TRUE, !.place = n]
    BY <1>16, <1>9 DEF Cases, c, n
  <2>2. c \in PassType /\ c.out = Append(a.out, x) /\ c.freed = a.freed
    BY <1>1, KeepFacts DEF c
  <2>3. Kept(c.out, c.woken, list, k, new.id)
    BY <1>1, <1>2, <1>3, <1>7, SetKeeps DEF c, x
  <2>4. ~(new.start < x.start)
    BY <1>1, <1>16, CoversFacts
  <2>5. SetOrder(b, new, list, k)
    BY <1>1, <2>1, <2>2, <2>4, OrderStop DEF x, n
  <2>6. b.out = c.out /\ b.woken = c.woken /\ b.freed = c.freed
    BY <1>1, <2>1, <2>2, Stopped
  <2> QED BY <1>3, <1>4, <2>2, <2>3, <2>5, <2>6 DEF SetKept, b, x
<1>17. CASE Overlap(x, new) /\ ~Covers(new, x) /\ ~(Covers(x, new) /\ x.type = new.type)
  <2> DEFINE w == Wake(a, x)
             c == Add(w, LeftOf(x, new))
             m == Link(c, new)
  <2> HIDE DEF w, c, m
  <2>1. b = Add(m, RightOf(x, new))
    BY <1>17, <1>9 DEF Cases, c, w, m
  <2>2. SetOrder(b, new, list, k)
    BY <1>17, <2>1, OrderCut DEF x, w, c, m
  <2>3. w \in PassType /\ w.out \in Seq(LockType) /\ w.freed = a.freed
    BY <1>1, WakeFacts DEF w
  <2>4. Kept(w.out, w.woken, list, k, new.id)
    BY <1>1, <1>2, <1>3, <1>7, SetWakes DEF w, x
  <2>5. LeftOf(x, new) \in Seq(LockType)
        /\ Kept(w.out \o LeftOf(x, new), w.woken, list, k, new.id)
    BY <1>1, <1>2, <2>3, <2>4, KeptPiece
  <2>6. /\ c \in PassType /\ c.freed = a.freed
        /\ Kept(c.out, c.woken, list, k, new.id)
    BY <2>3, <2>5, AddFacts DEF c
  <2>7. Kept(m.out, m.woken, list, k, new.id)
    BY <1>1, <1>2, <2>6, KeptLink DEF m
  <2>8. m \in PassType /\ m.freed = a.freed
    BY <1>1, <2>6, LinkFacts DEF m
  <2>9. m.out \in Seq(LockType)
    BY <2>8 DEF PassType
  <2>10. RightOf(x, new) \in Seq(LockType)
         /\ Kept(m.out \o RightOf(x, new), m.woken, list, k, new.id)
    BY <1>1, <1>2, <2>7, <2>9, KeptPiece
  <2>11. b.freed = a.freed /\ Kept(b.out, b.woken, list, k, new.id)
    BY <2>1, <2>8, <2>10, AddFacts
  <2> QED BY <1>3, <1>4, <2>2, <2>11 DEF SetKept, b, x
<1> QED BY <1>9, <1>10, <1>11, <1>12, <1>13, <1>14, <1>15, <1>16, <1>17 DEF Cases

--------------------------------------------------------------------------------
\* The passes, lock by lock

\* The pass before the first lock
LEMMA FirstPass == Pass \in PassType
<1>1. <<>> \in Seq(LockType)
  OBVIOUS
<1> QED BY <1>1 DEF Pass, PassType

\* Each case leads to a pass again.
LEMMA SetCaseType ==
  ASSUME NEW a \in PassType, NEW x \in LockType, NEW new \in LockType,
         Lawful(x), Lawful(new)
  PROVE  SetCase(a, x, new) \in PassType
<1> DEFINE n == Len(a.out) + 1
           y == [x EXCEPT !.type = "RD", !.blocks = <<>>]
           z == [x EXCEPT !.type = new.type]
           b == SetCase(a, x, new)
<1>1. Cases(a, x, new, b)
  BY SetCaseIs
<1>2. n \in Nat /\ y \in LockType /\ z \in LockType /\ new \in AnyLock
  <2>1. a.out \in Seq(LockType) /\ <<>> \in Seq(Proc)
    BY DEF PassType
  <2>2. n \in Nat
    BY <2>1
  <2> QED BY <2>1, <2>2 DEF LockType, AnyLock
<1> HIDE DEF n, y, z, b
<1>3. \A c \in PassType : [c EXCEPT !.done = TRUE] \in PassType
                          /\ [c EXCEPT !.done = TRUE, !.place = n] \in PassType
  BY <1>2 DEF PassType
<1>4. Link(a, new) \in PassType /\ Wake(a, x) \in PassType /\ Keep(a, x) \in PassType
      /\ Keep(a, z) \in PassType
  BY <1>2, LinkFacts, WakeFacts, KeepFacts
<1>5. /\ Keep(Link(a, new), x) \in PassType /\ Keep(Wake(a, x), y) \in PassType
      /\ Wake(Link(a, new), x) \in PassType /\ Take(Link(a, new), x) \in PassType
  BY <1>2, <1>4, WakeFacts, KeepFacts, TakeFacts
<1>6. LeftOf(x, new) \in Seq(LockType) /\ RightOf(x, new) \in Seq(LockType)
  BY <1>2, PieceTypes
<1> DEFINE c == Add(Wake(a, x), LeftOf(x, new))
<1>7. c \in PassType
  BY <1>4, <1>6, AddFacts
<1> HIDE DEF c
<1>8. Link(c, new) \in PassType
  BY <1>7, LinkFacts
<1>9. Add(Link(c, new), RightOf(x, new)) \in PassType
  BY <1>6, <1>8, AddFacts
<1> QED BY <1>1, <1>3, <1>4, <1>5, <1>9 DEF Cases, b, c, n, y, z

\* Setting a lock, one lock after the other
SetStep(a, x, new) ==
    IF a.done \/ x.id # new.id THEN Keep(a, x) ELSE SetCase(a, x, new)

\* The passes of setting a lock are what their recursive definition says.
LEMMA SetPassSteps ==
  ASSUME locks \in Seq(LockType), InOrder(locks), NEW new \in LockType, Lawful(new)
  PROVE  /\ SetPasses(new) \in [0 .. Len(locks) -> PassType]
         /\ SetPasses(new)[0] = Pass
         /\ \A k \in 1 .. Len(locks) :
              SetPasses(new)[k] = SetStep(SetPasses(new)[k-1], locks[k], new)
<1> DEFINE n == Len(locks)
           b == SetPasses(new)
           One(u, k) == SetStep(u, locks[k], new)
           Rec(a) == a = [k \in 0 .. n |-> IF k = 0 THEN Pass ELSE One(a[k-1], k)]
           step == [x \in (1 .. n) \X PassType |-> One(x[2], x[1])]
<1>1. Pass \in PassType /\ n \in Nat
  BY FirstPass
<1>2. ASSUME NEW u \in PassType, NEW k \in 1 .. n PROVE One(u, k) \in PassType
  <2>1. locks[k] \in LockType /\ Lawful(locks[k])
    BY DEF InOrder
  <2> QED BY <2>1, KeepFacts, SetCaseType DEF SetStep
<1>3. b = CHOOSE a : Rec(a)
  BY Zenon DEF SetPasses, SetStep
<1>4. b \in [0 .. n -> PassType] /\ b[0] = Pass /\ \A k \in 1 .. n : b[k] = One(b[k-1], k)
  <2> HIDE DEF n, b, One
  <2>1. step \in [(1 .. n) \X PassType -> PassType]
    BY <1>2
  <2>2. \A k \in 1 .. n : \A u \in PassType : step[<<k, u>>] = One(u, k)
    OBVIOUS
  <2> HIDE DEF step
  <2>3. PICK a \in [0 .. n -> PassType] :
            a[0] = Pass /\ \A k \in 1 .. n : a[k] = step[<<k, a[k-1]>>]
    <3>1. n \in Nat
      BY <1>1
    <3>2. Pass \in PassType
      BY <1>1
    <3>3. \E a : a \in [0 .. n -> PassType] /\ Iterates(a, n, Pass, step)
      BY ONLY <3>1, <3>2, <2>1, Iteration, Zenon
    <3> QED BY <3>3 DEF Iterates
  <2>4. a = [k \in 0 .. n |-> IF k = 0 THEN Pass ELSE One(a[k-1], k)]
    <3>1. \A k \in 1 .. n : a[k-1] \in PassType
      BY <1>1
    <3>2. \A k \in 0 .. n : a[k] = IF k = 0 THEN Pass ELSE One(a[k-1], k)
      <4> SUFFICES ASSUME NEW k \in 0 .. n
                   PROVE  a[k] = IF k = 0 THEN Pass ELSE One(a[k-1], k)
        OBVIOUS
      <4>1. CASE k = 0
        BY <2>3, <4>1
      <4>2. CASE k # 0
        <5>1. k \in 1 .. n
          BY <4>2, <1>1
        <5> QED BY <2>2, <2>3, <3>1, <5>1, <4>2
      <4> QED BY <4>1, <4>2
    <3> QED BY <3>2
  <2>5. Rec(b)
    <3>1. Rec(a)
      BY <2>4
    <3> HIDE DEF Rec
    <3> QED BY <1>3, <3>1
  <2>6. b[0] = Pass /\ \A k \in 1 .. n : b[k] = One(b[k-1], k)
    BY <2>5, <1>1
  <2> DEFINE T == {k \in 0 .. n : b[k] \in PassType}
  <2>7. 0 .. n \subseteq T
    <3>1. 0 \in T
      BY <1>1, <2>6
    <3>2. ASSUME NEW k \in 1 .. n, k-1 \in T PROVE k \in T
      BY <1>1, <1>2, <2>6, <3>2
    <3> HIDE DEF T
    <3> QED BY <1>1, <3>1, <3>2, UpTo
  <2>8. b = [k \in 0 .. n |-> b[k]]
    <3> DEFINE R == [k \in 0 .. n |-> IF k = 0 THEN Pass ELSE One(b[k-1], k)]
    <3>1. b = R
      BY <2>5
    <3>2. R = [k \in 0 .. n |-> R[k]]
      OBVIOUS
    <3> HIDE DEF R
    <3> QED BY <3>1, <3>2
  <2> QED BY <2>6, <2>7, <2>8
<1> QED BY <1>4

\* The whole pass of setting a lock: the list stays in order, and each request is on
\* the list of a lock that serves the one it was on, or is woken.
LEMMA SetPassKeeps ==
  ASSUME locks \in Seq(LockType), InOrder(locks), Once(locks),
         NEW new \in LockType, Lawful(new), Named(new), new.blocks = <<>>
  PROVE  LET a == SetPass(new)
         IN  /\ a \in PassType /\ InOrder(a.out)
             /\ Kept(a.out, a.woken, locks, Len(locks), new.id)
             /\ a.freed \subseteq On(locks, Len(locks))
<1> DEFINE n == Len(locks)
           b == SetPasses(new)
           T == {k \in 0 .. n : SetOrder(b[k], new, locks, k) /\ SetKept(b[k], new, locks, k)}
           l == Link(b[n], new)
<1>1. n \in Nat
  OBVIOUS
<1> HIDE DEF b
<1>2. b[0] = Pass /\ \A k \in 1 .. n : b[k] = SetStep(b[k-1], locks[k], new)
  BY SetPassSteps DEF b
<1>3. 0 \in T
  <2>1. b[0] \in PassType /\ b[0].out = <<>> /\ b[0].place = 0 /\ ~b[0].done
        /\ b[0].woken = {} /\ b[0].freed = {}
    BY <1>2, FirstPass DEF Pass
  <2>2. Len(<<>>) = 0 /\ \A i : i \notin 1 .. 0
    OBVIOUS
  <2>3. SetOrder(b[0], new, locks, 0)
    BY <2>1, <2>2 DEF SetOrder, InOrder, Ahead, AllBefore
  <2>4. SetKept(b[0], new, locks, 0)
    BY <2>1, <2>2 DEF SetKept, Kept, Once, On
  <2> QED BY <1>1, <2>3, <2>4
<1>4. ASSUME NEW k \in 1 .. n, k-1 \in T PROVE k \in T
  <2> DEFINE a == b[k-1]
             x == locks[k]
  <2>1. SetOrder(a, new, locks, k-1) /\ SetKept(a, new, locks, k-1)
    BY <1>4
  <2>2. Comes(a, new, locks, k)
    BY <2>1 DEF Comes
  <2>3. b[k] = SetStep(a, x, new)
    BY <1>2
  <2> HIDE DEF a, n
  <2>4. CASE a.done \/ x.id # new.id
    <3>1. b[k] = Keep(a, x)
      BY <2>3, <2>4 DEF SetStep
    <3>2. SetOrder(b[k], new, locks, k)
      BY <2>2, <2>4, <3>1, OrderKeep
    <3>3. a \in PassType /\ x \in LockType
      BY <2>2, ComesFacts
    <3>4. Kept(b[k].out, b[k].woken, locks, k, new.id)
      BY <2>1, <3>1, <3>3, SetKeeps, ServesItself DEF SetKept, n
    <3>5. b[k].freed = a.freed
      BY <3>1, <3>3, KeepFacts
    <3>6. SetKept(b[k], new, locks, k)
      BY <2>1, <3>4, <3>5, OnGrows DEF SetKept, n
    <3> QED BY <3>2, <3>6 DEF n
  <2>5. CASE ~a.done /\ x.id = new.id
    <3>1. b[k] = SetCase(a, x, new)
      BY <2>3, <2>5 DEF SetStep
    <3> QED BY <2>1, <2>2, <2>5, <3>1, SetCaseKeeps DEF n
  <2> QED BY <2>4, <2>5
<1>5. n \in T
  <2> HIDE DEF T, n
  <2>1. 0 .. n \subseteq T
    BY <1>1, <1>3, <1>4, UpTo
  <2> QED BY <1>1, <2>1
<1>6. SetOrder(b[n], new, locks, n) /\ SetKept(b[n], new, locks, n)
  BY <1>5
<1> HIDE DEF T, n
<1>7. SetPass(new) = l
  BY DEF SetPass, b, n
<1>8. b[n] \in PassType /\ InOrder(b[n].out) /\ (b[n].place = 0 => AllBefore(b[n].out, new))
  BY <1>6 DEF SetOrder
<1>9. b[n].out \in Seq(LockType)
  BY <1>8 DEF PassType
<1>10. InOrder(Append(b[n].out, new)) \/ b[n].place # 0
  BY <1>8, <1>9, InOrderAppend
<1>11. /\ l \in PassType /\ l.freed = b[n].freed
       /\ b[n].place # 0 => l = b[n]
       /\ b[n].place = 0 => l.out = Append(b[n].out, new)
  BY <1>8, LinkFacts
<1>12. Kept(l.out, l.woken, locks, n, new.id)
  BY <1>6, <1>8, KeptLink DEF SetKept
<1> QED BY <1>6, <1>7, <1>8, <1>10, <1>11, <1>12 DEF SetKept, n

--------------------------------------------------------------------------------
\* The pass of clearing a range

\* The pieces of a lock that a range is cut out of lie in order, behind the locks
\* before it.
LEMMA OrderPieces ==
  ASSUME NEW list, NEW k, NEW s \in Seq(LockType), InOrder(s), Ahead(s, 0, list, k),
         NEW x \in LockType, Lawful(x), Named(x), AllBefore(s, x),
         \A j \in k+1 .. Len(list) :
            list[j] \in AnyLock /\ (x.id = list[j].id => IsBefore(x, list[j])),
         NEW gone \in AnyLock, Lawful(gone), Overlap(x, gone)
  PROVE  LET t == s \o (LeftOf(x, gone) \o RightOf(x, gone))
         IN  /\ LeftOf(x, gone) \o RightOf(x, gone) \in Seq(LockType)
             /\ t \in Seq(LockType) /\ InOrder(t) /\ Ahead(t, 0, list, k)
             /\ t = (s \o LeftOf(x, gone)) \o RightOf(x, gone)
<1> DEFINE left  == LeftOf(x, gone)
           right == RightOf(x, gone)
           c     == s \o left
           t     == s \o (left \o right)
           n     == Len(s)
           y     == Piece(x, x.start, gone.start - 1)
           z     == Piece(x, gone.end + 1, x.end)
           more  == gone.end # EOF /\ (x.end = EOF \/ x.end > gone.end)
<1> HIDE DEF left, right, c, t, n, y, z, more
<1>1. ~IsBefore(x, gone) /\ ~IsAfter(x, gone) /\ x \in AnyLock /\ n \in Nat
  BY DEF Overlap, AnyLock, LockType, n
<1>2. /\ ~(x.start < gone.start) => left = <<>>
      /\ x.start < gone.start =>
           /\ left = <<y>> /\ y \in LockType
           /\ y.id = x.id /\ y.posix = x.posix
           /\ y.start = x.start /\ y.end = gone.start - 1
  BY LeftFacts DEF y, left
<1>3. /\ ~more => right = <<>>
      /\ more => /\ right = <<z>> /\ z \in LockType
                 /\ z.id = x.id /\ z.posix = x.posix
                 /\ z.start = gone.end + 1 /\ z.end = x.end
  BY RightFacts DEF z, right, more
<1>4. left \in Seq(LockType) /\ right \in Seq(LockType)
  BY <1>2, <1>3, Single
<1>5. /\ left \o right \in Seq(LockType) /\ t \in Seq(LockType) /\ c \in Seq(LockType)
      /\ t = c \o right
  BY <1>4 DEF t, c
<1>6. /\ InOrder(c) /\ Ahead(c, 0, list, k)
      /\ \A i \in 1 .. Len(c) : c[i].id = x.id =>
           IsBefore(c[i], x) \/ (c[i].end # EOF /\ c[i].end = gone.start - 1)
  <2>1. CASE ~(x.start < gone.start)
    <3>1. c = s
      BY <1>2, <2>1, Single DEF c
    <3> QED BY <3>1 DEF AllBefore
  <2>2. CASE x.start < gone.start
    <3>1. /\ y \in LockType /\ y.id = x.id /\ y.posix = x.posix
          /\ y.start = x.start /\ y.end = gone.start - 1 /\ y.end # EOF
          /\ x.start \in Nat /\ gone.start \in Nat
      BY <1>1, <1>2, <2>2, EOFAssumption DEF AnyLock
    <3>2. c = Append(s, y)
      BY <1>2, <2>2, Single DEF c
    <3>3. Lawful(y) /\ Named(y)
      BY <2>2, <3>1 DEF Lawful, Named, Id
    <3>4. AllBefore(s, y)
      BY <3>1 DEF AllBefore, IsBefore
    <3>5. ASSUME NEW j \in k+1 .. Len(list), y.id = list[j].id PROVE IsBefore(y, list[j])
      BY <1>1, <3>1, <3>5 DEF IsBefore, AnyLock
    <3>6. InOrder(c)
      BY <3>1, <3>2, <3>3, <3>4, InOrderAppend
    <3>7. Ahead(c, 0, list, k)
      BY <3>1, <3>2, <3>5, AheadAppend
    <3>8. /\ Len(c) = n+1 /\ c[n+1] = y
          /\ \A i \in 1 .. n : c[i] = s[i]
      BY <3>1, <3>2 DEF n
    <3>9. \A i \in 1 .. n+1 : i = n+1 \/ i \in 1 .. n
      BY <1>1
    <3> QED BY <3>1, <3>6, <3>7, <3>8, <3>9 DEF AllBefore, n
  <2> QED BY <2>1, <2>2
<1>7. CASE ~more
  <2>1. t = c
    BY <1>2, <1>3, <1>5, <1>7, Single
  <2> QED BY <1>5, <1>6, <2>1 DEF t, c, left, right
<1>8. CASE more
  <2>1. /\ z \in LockType /\ z.id = x.id /\ z.posix = x.posix
        /\ z.start = gone.end + 1 /\ z.end = x.end
        /\ gone.end \in Nat /\ x.start \in Nat /\ x.start <= gone.end
        /\ gone.start \in Nat /\ gone.start <= gone.end
    BY <1>1, <1>3, <1>8 DEF AnyLock, IsAfter, more, Lawful
  <2>2. t = Append(c, z)
    BY <1>3, <1>5, <1>8, Single
  <2>3. Lawful(z) /\ Named(z)
    <3>1. Lawful(z)
      BY <1>1, <1>8, <2>1 DEF Lawful, AnyLock, more
    <3> QED BY <2>1, <3>1 DEF Named, Id
  <2>4. AllBefore(c, z)
    <3> SUFFICES ASSUME NEW i \in 1 .. Len(c), c[i].id = z.id PROVE IsBefore(c[i], z)
      BY DEF AllBefore
    <3>1. c[i] \in LockType
      BY <1>5
    <3>2. c[i].end \in Nat \cup {EOF}
      BY <3>1 DEF LockType
    <3>3. IsBefore(c[i], x) \/ (c[i].end # EOF /\ c[i].end = gone.start - 1)
      BY <1>6, <2>1
    <3> QED BY <2>1, <3>2, <3>3 DEF IsBefore
  <2>5. \A j \in k+1 .. Len(list) : z.id = list[j].id => IsBefore(z, list[j])
    BY <2>1 DEF IsBefore
  <2>6. InOrder(t)
    BY <1>5, <1>6, <2>1, <2>2, <2>3, <2>4, InOrderAppend
  <2>7. Ahead(t, 0, list, k)
    BY <1>5, <1>6, <2>1, <2>2, <2>5, AheadAppend
  <2> QED BY <1>5, <2>6, <2>7 DEF t, c, left, right
<1> QED BY <1>7, <1>8

\* Clearing a range, one lock after the other
ClearStep(a, x, gone) ==
    IF a.done \/ x.id # gone.id THEN Keep(a, x) ELSE ClearCase(a, x, gone)

\* What the pass of clearing gone keeps true
ClearKeeps(a, gone, list, k) ==
    /\ a \in PassType
    /\ InOrder(a.out) /\ Ahead(a.out, 0, list, k)
    /\ Kept(a.out, a.woken, list, k, gone.id)
    /\ a.freed = {}

\* One lock more in the pass of clearing a range
LEMMA ClearStepKeeps ==
  ASSUME NEW list \in Seq(LockType), InOrder(list), Once(list), NEW k \in 1 .. Len(list),
         NEW gone \in AnyLock, Lawful(gone), NEW a, ClearKeeps(a, gone, list, k-1)
  PROVE  ClearKeeps(ClearStep(a, list[k], gone), gone, list, k)
<1> DEFINE x == list[k]
           b == ClearStep(a, x, gone)
<1>1. /\ a \in PassType /\ InOrder(a.out) /\ Ahead(a.out, 0, list, k-1)
      /\ Kept(a.out, a.woken, list, k-1, gone.id) /\ a.freed = {}
  BY DEF ClearKeeps
<1>2. a.out \in Seq(LockType) /\ x \in LockType
  BY <1>1 DEF PassType
<1>3. /\ Ahead(a.out, 0, list, k)
      /\ \A i \in 1 .. Len(a.out) : i # 0 /\ a.out[i].id = x.id => IsBefore(a.out[i], x)
      /\ \A j \in k+1 .. Len(list) : x.id = list[j].id => IsBefore(x, list[j])
  BY <1>1, AheadNext
<1>4. AllBefore(a.out, x)
  BY <1>3 DEF AllBefore
<1>5. /\ Lawful(x) /\ Named(x) /\ Serves(x, x)
      /\ \A j \in k+1 .. Len(list) : list[j] \in AnyLock
  <2>1. Lawful(x) /\ Named(x)
    BY DEF InOrder
  <2>2. ASSUME NEW j \in k+1 .. Len(list) PROVE list[j] \in AnyLock
    <3>1. list[j] \in LockType
      OBVIOUS
    <3> QED BY <3>1 DEF LockType, AnyLock
  <2> QED BY <1>2, <2>1, <2>2, ServesItself
<1>6. ClearKeeps(Keep(a, x), gone, list, k)
  <2> DEFINE c == Keep(a, x)
  <2>1. c \in PassType /\ c.out = Append(a.out, x) /\ c.freed = {}
    BY <1>1, <1>2, KeepFacts
  <2>2. InOrder(c.out)
    BY <1>1, <1>2, <1>4, <1>5, <2>1, InOrderAppend
  <2>3. Ahead(c.out, 0, list, k)
    BY <1>2, <1>3, <2>1, AheadAppend
  <2>4. Kept(c.out, c.woken, list, k, gone.id)
    BY <1>1, <1>2, <1>5, SetKeeps
  <2> QED BY <2>1, <2>2, <2>3, <2>4 DEF ClearKeeps
<1> HIDE DEF x, b
<1>7. CASE a.done \/ x.id # gone.id \/ IsBefore(x, gone)
  <2>1. b = Keep(a, x)
    BY <1>7 DEF b, ClearStep, ClearCase
  <2> QED BY <1>6, <2>1 DEF x, b
<1>8. CASE ~(a.done \/ x.id # gone.id \/ IsBefore(x, gone)) /\ IsAfter(x, gone)
  <2> DEFINE c == Keep(a, x)
  <2> HIDE DEF c
  <2>1. b = [c EXCEPT !.done = TRUE]
    BY <1>8 DEF b, c, ClearStep, ClearCase
  <2>2. c \in PassType
    BY <1>6 DEF c, ClearKeeps
  <2>3. b \in PassType /\ b.out = c.out /\ b.woken = c.woken /\ b.freed = c.freed
    BY <2>1, <2>2 DEF PassType
  <2> QED BY <1>6, <2>3 DEF ClearKeeps, c, x, b
<1>9. CASE ~(a.done \/ x.id # gone.id \/ IsBefore(x, gone)) /\ ~IsAfter(x, gone)
  <2> DEFINE w == Wake(a, x)
             u == LeftOf(x, gone) \o RightOf(x, gone)
  <2>1. b = Add(w, u)
    BY <1>9 DEF b, ClearStep, ClearCase
  <2>2. w \in PassType /\ w.out = a.out /\ w.freed = {}
    BY <1>1, <1>2, WakeFacts
  <2>3. Kept(w.out, w.woken, list, k, gone.id)
    BY <1>1, <1>9, SetWakes DEF x
  <2>4. Overlap(x, gone)
    BY <1>9 DEF Overlap
  <2>5. /\ u \in Seq(LockType) /\ a.out \o u \in Seq(LockType)
        /\ InOrder(a.out \o u) /\ Ahead(a.out \o u, 0, list, k)
        /\ a.out \o u = (a.out \o LeftOf(x, gone)) \o RightOf(x, gone)
    <3> DEFINE s == a.out
    <3>1. /\ s \in Seq(LockType) /\ InOrder(s) /\ Ahead(s, 0, list, k)
          /\ x \in LockType /\ Lawful(x) /\ Named(x) /\ AllBefore(s, x)
          /\ \A j \in k+1 .. Len(list) :
               list[j] \in AnyLock /\ (x.id = list[j].id => IsBefore(x, list[j]))
          /\ gone \in AnyLock /\ Lawful(gone) /\ Overlap(x, gone)
      BY <1>1, <1>2, <1>3, <1>4, <1>5, <2>4
    <3> HIDE DEF s
    <3>2. LET t == s \o u
          IN  /\ u \in Seq(LockType)
              /\ t \in Seq(LockType) /\ InOrder(t) /\ Ahead(t, 0, list, k)
              /\ t = (s \o LeftOf(x, gone)) \o RightOf(x, gone)
      BY ONLY <3>1, OrderPieces
    <3> QED BY <3>2 DEF s
  <2> HIDE DEF w, u
  <2>6. b \in PassType /\ b.out = a.out \o u /\ b.woken = w.woken /\ b.freed = {}
    <3>1. w \in PassType /\ w.out = a.out /\ w.freed = {} /\ u \in Seq(LockType)
      BY <2>2, <2>5
    <3>2. LET c == Add(w, u)
          IN  c \in PassType /\ c.out = w.out \o u /\ c.woken = w.woken /\ c.freed = w.freed
      BY ONLY <3>1, AddFacts
    <3> QED BY ONLY <2>1, <3>1, <3>2
  <2>7. LeftOf(x, gone) \in Seq(LockType)
        /\ Kept(a.out \o LeftOf(x, gone), w.woken, list, k, gone.id)
    BY <1>2, <2>2, <2>3, KeptPiece
  <2> DEFINE v == a.out \o LeftOf(x, gone)
  <2>8. v \in Seq(LockType)
    BY <1>2, <2>7
  <2> HIDE DEF v
  <2>9. Kept(v \o RightOf(x, gone), w.woken, list, k, gone.id)
    BY <1>2, <2>7, <2>8, KeptPiece DEF v
  <2>10. Kept(b.out, b.woken, list, k, gone.id)
    BY <2>5, <2>6, <2>9 DEF v
  <2> QED BY <2>5, <2>6, <2>10 DEF ClearKeeps, x, b
<1> QED BY <1>7, <1>8, <1>9

\* The passes of clearing a range are what their recursive definition says.
LEMMA ClearPassSteps ==
  ASSUME NEW list \in Seq(LockType), NEW gone \in AnyLock
  PROVE  /\ ClearPasses(list, gone) \in [0 .. Len(list) -> PassType]
         /\ ClearPasses(list, gone)[0] = Pass
         /\ \A k \in 1 .. Len(list) :
              ClearPasses(list, gone)[k] =
                 ClearStep(ClearPasses(list, gone)[k-1], list[k], gone)
<1> DEFINE n == Len(list)
           b == ClearPasses(list, gone)
           One(u, k) == ClearStep(u, list[k], gone)
           Rec(a) == a = [k \in 0 .. n |-> IF k = 0 THEN Pass ELSE One(a[k-1], k)]
           step == [x \in (1 .. n) \X PassType |-> One(x[2], x[1])]
<1>1. Pass \in PassType /\ n \in Nat
  BY FirstPass
<1>2. ASSUME NEW u \in PassType, NEW k \in 1 .. n PROVE One(u, k) \in PassType
  <2> DEFINE x == list[k]
             v == LeftOf(x, gone) \o RightOf(x, gone)
  <2>1. x \in LockType
    OBVIOUS
  <2>2. v \in Seq(LockType)
    BY <2>1, PieceTypes
  <2> HIDE DEF v
  <2>3. Keep(u, x) \in PassType /\ [Keep(u, x) EXCEPT !.done = TRUE] \in PassType
    <3>1. Keep(u, x) \in PassType
      BY <2>1, KeepFacts
    <3> QED BY <3>1 DEF PassType
  <2>4. Wake(u, x) \in PassType
    BY <2>1, WakeFacts
  <2>5. Add(Wake(u, x), v) \in PassType
    BY <2>2, <2>4, AddFacts
  <2> QED BY <2>3, <2>5 DEF ClearStep, ClearCase, v
<1>3. b = CHOOSE a : Rec(a)
  BY Zenon DEF ClearPasses, ClearStep
<1>4. b \in [0 .. n -> PassType] /\ b[0] = Pass /\ \A k \in 1 .. n : b[k] = One(b[k-1], k)
  <2> HIDE DEF n, b, One
  <2>1. step \in [(1 .. n) \X PassType -> PassType]
    BY <1>2
  <2>2. \A k \in 1 .. n : \A u \in PassType : step[<<k, u>>] = One(u, k)
    OBVIOUS
  <2> HIDE DEF step
  <2>3. PICK a \in [0 .. n -> PassType] :
            a[0] = Pass /\ \A k \in 1 .. n : a[k] = step[<<k, a[k-1]>>]
    <3>1. n \in Nat
      BY <1>1
    <3>2. Pass \in PassType
      BY <1>1
    <3>3. \E a : a \in [0 .. n -> PassType] /\ Iterates(a, n, Pass, step)
      BY ONLY <3>1, <3>2, <2>1, Iteration, Zenon
    <3> QED BY <3>3 DEF Iterates
  <2>4. a = [k \in 0 .. n |-> IF k = 0 THEN Pass ELSE One(a[k-1], k)]
    <3>1. \A k \in 1 .. n : a[k-1] \in PassType
      BY <1>1
    <3>2. \A k \in 0 .. n : a[k] = IF k = 0 THEN Pass ELSE One(a[k-1], k)
      <4> SUFFICES ASSUME NEW k \in 0 .. n
                   PROVE  a[k] = IF k = 0 THEN Pass ELSE One(a[k-1], k)
        OBVIOUS
      <4>1. CASE k = 0
        BY <2>3, <4>1
      <4>2. CASE k # 0
        <5>1. k \in 1 .. n
          BY <4>2, <1>1
        <5> QED BY <2>2, <2>3, <3>1, <5>1, <4>2
      <4> QED BY <4>1, <4>2
    <3> QED BY <3>2
  <2>5. Rec(b)
    <3>1. Rec(a)
      BY <2>4
    <3> HIDE DEF Rec
    <3> QED BY <1>3, <3>1
  <2>6. b[0] = Pass /\ \A k \in 1 .. n : b[k] = One(b[k-1], k)
    BY <2>5, <1>1
  <2> DEFINE T == {k \in 0 .. n : b[k] \in PassType}
  <2>7. 0 .. n \subseteq T
    <3>1. 0 \in T
      BY <1>1, <2>6
    <3>2. ASSUME NEW k \in 1 .. n, k-1 \in T PROVE k \in T
      BY <1>1, <1>2, <2>6, <3>2
    <3> HIDE DEF T
    <3> QED BY <1>1, <3>1, <3>2, UpTo
  <2>8. b = [k \in 0 .. n |-> b[k]]
    <3> DEFINE R == [k \in 0 .. n |-> IF k = 0 THEN Pass ELSE One(b[k-1], k)]
    <3>1. b = R
      BY <2>5
    <3>2. R = [k \in 0 .. n |-> R[k]]
      OBVIOUS
    <3> HIDE DEF R
    <3> QED BY <3>1, <3>2
  <2> QED BY <2>6, <2>7, <2>8
<1> QED BY <1>4

\* The whole pass of clearing a range: the list stays in order, and each request on
\* a lock of another owner stays where it was.
LEMMA ClearPassKeeps ==
  ASSUME NEW list \in Seq(LockType), InOrder(list), Once(list),
         NEW gone \in AnyLock, Lawful(gone)
  PROVE  LET a == ClearPass(list, gone)
         IN  /\ a \in PassType /\ InOrder(a.out)
             /\ Kept(a.out, a.woken, list, Len(list), gone.id)
             /\ a.freed = {}
<1> DEFINE n == Len(list)
           b == ClearPasses(list, gone)
           T == {k \in 0 .. n : ClearKeeps(b[k], gone, list, k)}
<1>1. n \in Nat
  OBVIOUS
<1> HIDE DEF b
<1>2. b[0] = Pass /\ \A k \in 1 .. n : b[k] = ClearStep(b[k-1], list[k], gone)
  BY ClearPassSteps DEF b
<1>3. 0 \in T
  <2>1. b[0] \in PassType /\ b[0].out = <<>> /\ b[0].woken = {} /\ b[0].freed = {}
    BY <1>2, FirstPass DEF Pass
  <2>2. Len(<<>>) = 0 /\ \A i : i \notin 1 .. 0
    OBVIOUS
  <2>3. InOrder(b[0].out) /\ Ahead(b[0].out, 0, list, 0)
    BY <2>1, <2>2 DEF InOrder, Ahead
  <2>4. Kept(b[0].out, b[0].woken, list, 0, gone.id)
    BY <2>1, <2>2 DEF Kept, Once, On
  <2>5. ClearKeeps(b[0], gone, list, 0)
    BY <2>1, <2>3, <2>4 DEF ClearKeeps
  <2> QED BY <1>1, <2>5
<1>4. ASSUME NEW k \in 1 .. n, k-1 \in T PROVE k \in T
  <2>1. ClearKeeps(b[k-1], gone, list, k-1)
    BY <1>4
  <2>2. b[k] = ClearStep(b[k-1], list[k], gone)
    BY <1>2
  <2> QED BY <2>1, <2>2, ClearStepKeeps
<1>5. n \in T
  <2> HIDE DEF T, n
  <2>1. 0 .. n \subseteq T
    BY <1>1, <1>3, <1>4, UpTo
  <2> QED BY <1>1, <2>1
<1>6. ClearPass(list, gone) = b[n]
  BY DEF ClearPass, b
<1> QED BY <1>5, <1>6 DEF ClearKeeps

--------------------------------------------------------------------------------
\* The invariant

\* Where a process may be, and with which requests
States == {"user", "asleep", "ready", "malloc", "unmalloc"}
AnyRequest == {NoReq} \cup UNION {Requests[p] \cup Unlocks[p] : p \in Proc}

\* The list of locks is in order and no request is on it twice.
ListInv == locks \in Seq(LockType) /\ InOrder(locks) /\ Once(locks)

\* The types of the state of the processes
TypeInv ==
    /\ at \in [Proc -> States] /\ next \in [Proc -> {"none", "lock", "freed"}]
    /\ req \in [Proc -> AnyRequest]
    /\ sig \in [Proc -> BOOLEAN] /\ broken \in BOOLEAN

\* q's request is on the list of some lock.
Listed(q) == q \in On(locks, Len(locks))

\* q is on a list when its lf_next says so, always when it sleeps, and else only when a
\* signal has ended its sleep; and it has the request that its place in the code is for.
Fine(q) ==
    /\ next[q] # "none" <=> Listed(q)
    /\ at[q] = "asleep" => Listed(q)
    /\ Listed(q) => at[q] = "asleep" \/ (at[q] = "ready" /\ sig[q])
    /\ at[q] \in {"asleep", "ready", "malloc"} => req[q] \in Requests[q]
    /\ at[q] = "unmalloc" => req[q] \in Unlocks[q]
    /\ at[q] \in {"malloc", "unmalloc"} => MallocSleeps
    /\ req[q] \in Requests[q] \cup Unlocks[q] \cup {NoReq}

\* The inductive invariant
IInv == ListInv /\ TypeInv /\ \A q \in Proc : Fine(q)

\* q is on the list of lock i.
OnLock(q, i) == q \in Range(locks[i].blocks)

\* What a step of p does to the locks and to the others: it wakes some, takes over the locks
\* that others are blocked on, and leaves the rest on locks that serve the ones they were on.
\* A lock that is split after a wait for memory may be the exception.
Effect(p, woken, freed) ==
    /\ ListInv'
    /\ \A q \in Proc \ {p} :
         /\ Listed(q) <=> q \in woken \/ Listed(q)'
         /\ ~(q \in woken /\ Listed(q)')
         /\ q \in freed => Listed(q)
         /\ at'[q] = IF q \in woken /\ at[q] = "asleep" THEN "ready" ELSE at[q]
         /\ next'[q] = IF q \in woken THEN "none"
                       ELSE IF q \in freed THEN "freed" ELSE next[q]
         /\ req'[q] = req[q] /\ sig'[q] = sig[q]
         /\ \A i \in 1 .. Len(locks') : OnLock(q, i)' =>
              \E j \in 1 .. Len(locks) :
                 /\ OnLock(q, j) /\ locks'[i].id = locks[j].id
                 /\ MallocSleeps \/ Serves(locks'[i], locks[j])

\* A step with such an effect leaves the other processes as they should be.
LEMMA OthersFine ==
  ASSUME NEW p, NEW woken, NEW freed, IInv, Effect(p, woken, freed)
  PROVE  \A q \in Proc \ {p} : Fine(q)'
<1> SUFFICES ASSUME NEW q \in Proc, q # p PROVE Fine(q)'
  OBVIOUS
<1>1. Fine(q)
  BY DEF IInv
<1>2. /\ Listed(q) <=> q \in woken \/ Listed(q)'
      /\ ~(q \in woken /\ Listed(q)')
      /\ q \in freed => Listed(q)
      /\ at'[q] = IF q \in woken /\ at[q] = "asleep" THEN "ready" ELSE at[q]
      /\ next'[q] = IF q \in woken THEN "none"
                    ELSE IF q \in freed THEN "freed" ELSE next[q]
      /\ req'[q] = req[q] /\ sig'[q] = sig[q]
  BY DEF Effect
<1>3. (next[q] # "none" <=> Listed(q))'
  BY <1>1, <1>2 DEF Fine
<1>4. (at[q] = "asleep" => Listed(q))'
  BY <1>1, <1>2 DEF Fine
<1>5. (Listed(q) => at[q] = "asleep" \/ (at[q] = "ready" /\ sig[q]))'
  BY <1>1, <1>2 DEF Fine
<1>6. /\ (at[q] \in {"asleep", "ready", "malloc"} => req[q] \in Requests[q])'
      /\ (at[q] = "unmalloc" => req[q] \in Unlocks[q])'
      /\ (at[q] \in {"malloc", "unmalloc"} => MallocSleeps)'
      /\ (req[q] \in Requests[q] \cup Unlocks[q] \cup {NoReq})'
  BY <1>1, <1>2 DEF Fine
<1> QED BY <1>3, <1>4, <1>5, <1>6 DEF Fine

\* A request as a lock
LEMMA LockFacts ==
  ASSUME NEW p \in Proc
  PROVE  /\ \A r \in Requests[p] :
              /\ Lock(p, r) \in LockType /\ Lock(p, r) \in AnyLock
              /\ Lawful(Lock(p, r)) /\ Named(Lock(p, r))
              /\ Lock(p, r).blocks = <<>> /\ Lock(p, r).id = Id(p, r)
              /\ Lock(p, r).posix = r.posix /\ Lock(p, r).type = r.type
         /\ \A r \in Unlocks[p] :
              Lock(p, r) \in AnyLock /\ Lawful(Lock(p, r)) /\ Lock(p, r).type = "UN"
<1>1. <<>> \in Seq(Proc)
  OBVIOUS
<1>2. ASSUME NEW r \in Requests[p]
      PROVE  /\ Lock(p, r) \in LockType /\ Lock(p, r) \in AnyLock
             /\ Lawful(Lock(p, r)) /\ Named(Lock(p, r))
             /\ Lock(p, r).blocks = <<>> /\ Lock(p, r).id = Id(p, r)
             /\ Lock(p, r).posix = r.posix /\ Lock(p, r).type = r.type
  <2>1. r \in Ranges({"RD", "WR"})
    BY RequestAssumption
  <2>2. /\ r.posix \in BOOLEAN /\ r.type \in {"RD", "WR"}
        /\ r.start \in Nat /\ r.end \in Nat \cup {EOF}
        /\ r.end = EOF \/ r.start <= r.end
    BY <2>1 DEF Ranges
  <2>3. Id(p, r) \in Proc \cup {FileOf[q] : q \in Proc}
    BY DEF Id
  <2> DEFINE id == Id(p, r)
  <2> HIDE DEF id
  <2>4. Lock(p, r) = [id |-> id, posix |-> r.posix, type |-> r.type,
                      start |-> r.start, end |-> r.end, blocks |-> <<>>]
    BY DEF Lock, id
  <2>5. Lock(p, r) \in LockType /\ Lock(p, r) \in AnyLock
    BY <1>1, <2>2, <2>3, <2>4 DEF LockType, AnyLock, id
  <2>6. Named(Lock(p, r))
    BY <2>4 DEF Named, Id, id
  <2> QED BY <2>2, <2>4, <2>5, <2>6 DEF Lawful, id
<1>3. ASSUME NEW r \in Unlocks[p]
      PROVE  Lock(p, r) \in AnyLock /\ Lawful(Lock(p, r)) /\ Lock(p, r).type = "UN"
  <2>1. r \in Ranges({"UN"})
    BY RequestAssumption
  <2>2. /\ r.posix \in BOOLEAN /\ r.type = "UN"
        /\ r.start \in Nat /\ r.end \in Nat \cup {EOF}
        /\ r.end = EOF \/ r.start <= r.end
    BY <2>1 DEF Ranges
  <2>3. Id(p, r) \in Proc \cup {FileOf[q] : q \in Proc}
    BY DEF Id
  <2> DEFINE id == Id(p, r)
  <2> HIDE DEF id
  <2>4. Lock(p, r) = [id |-> id, posix |-> r.posix, type |-> r.type,
                      start |-> r.start, end |-> r.end, blocks |-> <<>>]
    BY DEF Lock, id
  <2>5. Lock(p, r) \in AnyLock
    BY <1>1, <2>2, <2>3, <2>4 DEF AnyLock, id
  <2> QED BY <2>2, <2>4, <2>5 DEF Lawful
<1> QED BY <1>2, <1>3

--------------------------------------------------------------------------------
\* What the steps do

\* What of it is about the processes and not the locks
OthersMove(p, woken, freed) ==
    \A q \in Proc \ {p} :
        /\ at'[q] = IF q \in woken /\ at[q] = "asleep" THEN "ready" ELSE at[q]
        /\ next'[q] = IF q \in woken THEN "none"
                      ELSE IF q \in freed THEN "freed" ELSE next[q]
        /\ req'[q] = req[q] /\ sig'[q] = sig[q]

\* The same locks, with the same requests of all but p on them
SameBut(p, s, t) ==
    /\ Len(s) = Len(t)
    /\ \A j \in 1 .. Len(t) :
         /\ s[j].id = t[j].id /\ s[j].type = t[j].type
         /\ s[j].start = t[j].start /\ s[j].end = t[j].end
         /\ \A q \in Proc \ {p} : q \in Range(s[j].blocks) <=> q \in Range(t[j].blocks)

\* A pass over the locks, or over the locks with p on a list more
LEMMA PassEffect ==
  ASSUME IInv, NEW p \in Proc, NEW s \in Seq(LockType), SameBut(p, s, locks),
         NEW woken, NEW freed, freed \subseteq On(s, Len(s)), NEW o,
         locks' \in Seq(LockType), InOrder(locks'), Kept(locks', woken, s, Len(s), o),
         OthersMove(p, woken, freed)
  PROVE  Effect(p, woken, freed)
<1>1. ListInv'
  BY DEF Kept, ListInv
<1>2. \A q \in Proc \ {p} : Listed(q) <=> q \in On(s, Len(s))
  BY DEF Listed, On, SameBut
<1>3. ASSUME NEW q \in Proc \ {p}, NEW i \in 1 .. Len(locks'), OnLock(q, i)'
      PROVE  \E j \in 1 .. Len(locks) :
                /\ OnLock(q, j) /\ locks'[i].id = locks[j].id
                /\ MallocSleeps \/ Serves(locks'[i], locks[j])
  <2>1. q \in Range(locks'[i].blocks)
    BY <1>3 DEF OnLock
  <2>2. PICK j \in 1 .. Len(s) : q \in Range(s[j].blocks) /\ Serves(locks'[i], s[j])
    BY <2>1 DEF Kept
  <2>3. /\ j \in 1 .. Len(locks) /\ q \in Range(locks[j].blocks)
        /\ s[j].id = locks[j].id /\ s[j].type = locks[j].type
        /\ s[j].start = locks[j].start /\ s[j].end = locks[j].end
    BY <2>2 DEF SameBut
  <2> QED BY <2>2, <2>3 DEF Serves, OnLock
<1>4. \A q \in Proc \ {p} :
        /\ Listed(q) <=> q \in woken \/ Listed(q)'
        /\ ~(q \in woken /\ Listed(q)')
        /\ q \in freed => Listed(q)
  BY <1>2 DEF Kept, Listed
<1> QED BY <1>1, <1>3, <1>4 DEF Effect, OthersMove

\* The locks stay as they are.
LEMMA SameEffect ==
  ASSUME IInv, NEW p \in Proc, UNCHANGED locks, OthersMove(p, {}, {})
  PROVE  Effect(p, {}, {})
<1>1. ListInv'
  BY DEF ListInv, IInv
<1>2. \A q \in Proc : Listed(q)' <=> Listed(q)
  BY DEF Listed
<1>3. ASSUME NEW q \in Proc \ {p}, NEW i \in 1 .. Len(locks'), OnLock(q, i)'
      PROVE  \E j \in 1 .. Len(locks) :
                /\ OnLock(q, j) /\ locks'[i].id = locks[j].id
                /\ MallocSleeps \/ Serves(locks'[i], locks[j])
  <2>1. i \in 1 .. Len(locks) /\ OnLock(q, i) /\ locks'[i] = locks[i]
    BY <1>3 DEF OnLock
  <2>2. locks[i] \in LockType
    BY <2>1 DEF IInv, ListInv
  <2> QED BY <2>1, <2>2, ServesItself
<1> QED BY <1>1, <1>2, <1>3 DEF Effect, OthersMove

\* What a pass that wakes only processes that are on lists does to the others
LEMMA PassMoves ==
  ASSUME TypeInv, NEW p \in Proc, NEW pass \in PassType, NEW state \in States,
         at' = [Ready(pass) EXCEPT ![p] = state],
         NEW mark \in {"none", "lock", "freed"},
         next' = NextAfter(pass) \/ next' = [NextAfter(pass) EXCEPT ![p] = mark],
         NEW r \in AnyRequest, req' = [req EXCEPT ![p] = r] \/ req' = req,
         UNCHANGED <<sig, broken>>
  PROVE  /\ TypeInv'
         /\ OthersMove(p, pass.woken, pass.freed)
         /\ at'[p] = state
         /\ next' = [NextAfter(pass) EXCEPT ![p] = mark] => next'[p] = mark
         /\ next' = NextAfter(pass) /\ p \notin pass.woken /\ p \notin pass.freed =>
              next'[p] = next[p]
         /\ req' = [req EXCEPT ![p] = r] => req'[p] = r
<1>1. /\ at \in [Proc -> States] /\ next \in [Proc -> {"none", "lock", "freed"}]
      /\ req \in [Proc -> AnyRequest]
      /\ sig \in [Proc -> BOOLEAN] /\ broken \in BOOLEAN
  BY DEF TypeInv
<1>2. /\ at' \in [Proc -> States] /\ at'[p] = state
      /\ \A q \in Proc \ {p} :
           at'[q] = IF q \in pass.woken /\ at[q] = "asleep" THEN "ready" ELSE at[q]
  BY <1>1 DEF Ready, States
<1>3. /\ NextAfter(pass) \in [Proc -> {"none", "lock", "freed"}]
      /\ \A q \in Proc : NextAfter(pass)[q] =
           IF q \in pass.woken THEN "none" ELSE IF q \in pass.freed THEN "freed" ELSE next[q]
  BY <1>1 DEF NextAfter
<1>4. /\ next' \in [Proc -> {"none", "lock", "freed"}]
      /\ \A q \in Proc \ {p} : next'[q] = NextAfter(pass)[q]
      /\ next' = [NextAfter(pass) EXCEPT ![p] = mark] => next'[p] = mark
  BY <1>3
<1>5. /\ req' \in [Proc -> AnyRequest]
      /\ \A q \in Proc \ {p} : req'[q] = req[q]
      /\ req' = [req EXCEPT ![p] = r] => req'[p] = r
  BY <1>1
<1>6. TypeInv'
  BY <1>1, <1>2, <1>4, <1>5 DEF TypeInv
<1>7. OthersMove(p, pass.woken, pass.freed)
  BY <1>2, <1>3, <1>4, <1>5 DEF OthersMove
<1> QED BY <1>2, <1>3, <1>4, <1>5, <1>6, <1>7

\* p goes to sleep for a lock that is in its way, and no cycle was found.
SleepsFor(p) ==
    \E r \in Requests[p], b \in 1 .. Len(locks) :
        /\ InTheWay(locks[b], Lock(p, r))
        /\ r.posix /\ locks[b].posix =>
              ~UsesFreed(p, locks[b].id) /\ ~Deadlock(p, locks[b].id)
        /\ req'[p] = r
        /\ \E i \in 1 .. Len(locks') : OnLock(p, i)' /\ Serves(locks'[i], locks[b])

\* What every step of p comes to
Done(p) ==
    /\ \E woken, freed : Effect(p, woken, freed)
    /\ TypeInv' /\ Fine(p)'
    /\ at'[p] = "asleep" => SleepsFor(p)

\* No lock is in the way: the pass over the list puts the new lock on it.
LEMMA GrantDone ==
  ASSUME IInv, NEW p \in Proc, NEW r \in Requests[p], ~Listed(p), Grant(p, r)
  PROVE  Done(p)
<1> DEFINE new  == Lock(p, r)
           pass == SetPass(new)
<1>1. locks \in Seq(LockType) /\ InOrder(locks) /\ Once(locks) /\ TypeInv /\ Fine(p)
  BY DEF IInv, ListInv
<1>2. new \in LockType /\ Lawful(new) /\ Named(new) /\ new.blocks = <<>>
  BY LockFacts
<1> HIDE DEF new
<1>3. /\ pass \in PassType /\ InOrder(pass.out)
      /\ Kept(pass.out, pass.woken, locks, Len(locks), new.id)
      /\ pass.freed \subseteq On(locks, Len(locks))
  BY <1>1, <1>2, SetPassKeeps
<1> HIDE DEF pass
<1>4. /\ locks' = pass.out /\ at' = [Ready(pass) EXCEPT ![p] = "user"]
      /\ req' = [req EXCEPT ![p] = NoReq] /\ next' = NextAfter(pass)
      /\ UNCHANGED <<sig, broken>>
  BY DEF Grant, pass, new
<1>5. p \notin pass.woken /\ p \notin pass.freed /\ ~Listed(p)'
  BY <1>3, <1>4 DEF Kept, Listed
<1>6. NoReq \in AnyRequest /\ "user" \in States /\ "none" \in {"none", "lock", "freed"}
  BY DEF AnyRequest, States
<1>7. /\ TypeInv' /\ OthersMove(p, pass.woken, pass.freed)
      /\ at'[p] = "user" /\ next'[p] = next[p] /\ req'[p] = NoReq
  BY <1>1, <1>3, <1>4, <1>5, <1>6, PassMoves
<1>8. Effect(p, pass.woken, pass.freed)
  <2>1. SameBut(p, locks, locks)
    BY DEF SameBut
  <2>2. locks' \in Seq(LockType)
    BY <1>3, <1>4 DEF PassType
  <2> QED BY <1>1, <1>3, <1>4, <1>7, <2>1, <2>2, PassEffect
<1>9. Fine(p)'
  BY <1>1, <1>5, <1>7 DEF Fine
<1> QED BY <1>7, <1>8, <1>9 DEF Done

\* p at the end of the list of lock b
LEMMA JoinFacts ==
  ASSUME ListInv, NEW p \in Proc, ~Listed(p), NEW b \in 1 .. Len(locks)
  PROVE  LET list == [locks EXCEPT ![b].blocks = Append(@, p)]
         IN  /\ list \in Seq(LockType) /\ InOrder(list) /\ Once(list)
             /\ SameBut(p, list, locks)
             /\ \A j \in 1 .. Len(list) : p \in Range(list[j].blocks) <=> j = b
<1> DEFINE list == [locks EXCEPT ![b].blocks = Append(@, p)]
           n    == Len(locks)
           c    == locks[b].blocks
           y    == [locks[b] EXCEPT !.blocks = Append(c, p)]
<1>1. locks \in Seq(LockType) /\ InOrder(locks) /\ Once(locks) /\ n \in Nat
  BY DEF ListInv
<1>2. /\ locks[b] \in LockType /\ c \in Seq(Proc) /\ NoTwice(c) /\ b \in 1 .. n
  <2>1. locks[b] \in LockType
    BY <1>1
  <2>2. c \in Seq(Proc)
    BY <2>1 DEF LockType
  <2> QED BY <1>1, <2>1, <2>2 DEF Once
<1>3. \A j \in 1 .. n : p \notin Range(locks[j].blocks)
  BY DEF Listed, On
<1>4. /\ <<p>> \in Seq(Proc) /\ NoTwice(<<p>>) /\ Range(<<p>>) = {p}
      /\ Append(c, p) = c \o <<p>>
  BY <1>2 DEF NoTwice, Range
<1>5. Range(c) \cap {p} = {}
  BY <1>2, <1>3
<1> HIDE DEF c
<1>6. /\ Append(c, p) \in Seq(Proc) /\ NoTwice(Append(c, p))
      /\ Range(Append(c, p)) = Range(c) \cup {p}
  BY <1>2, <1>4, <1>5, Joined
<1>7. /\ y \in LockType /\ y.blocks = Append(c, p) /\ y.id = locks[b].id
      /\ y.posix = locks[b].posix /\ y.type = locks[b].type
      /\ y.start = locks[b].start /\ y.end = locks[b].end
  BY <1>2, <1>6 DEF LockType
<1> HIDE DEF y
<1>8. list = [locks EXCEPT ![b] = y]
  BY <1>1 DEF y, c
<1> HIDE DEF list
<1>9. /\ list \in Seq(LockType) /\ Len(list) = n /\ list[b] = y
      /\ \A j \in 1 .. n : j # b => list[j] = locks[j]
  BY <1>1, <1>2, <1>7, <1>8
<1>10. Range(locks[b].blocks) = Range(c)
  BY DEF c
<1> HIDE DEF n
<1>11. SameBut(p, list, locks)
  <2> SUFFICES ASSUME NEW j \in 1 .. n
               PROVE  /\ list[j].id = locks[j].id /\ list[j].type = locks[j].type
                      /\ list[j].start = locks[j].start /\ list[j].end = locks[j].end
                      /\ \A q \in Proc \ {p} : q \in Range(list[j].blocks)
                                                <=> q \in Range(locks[j].blocks)
    BY <1>9 DEF SameBut, n
  <2>1. CASE j = b
    BY <1>6, <1>7, <1>9, <1>10, <2>1
  <2>2. CASE j # b
    BY <1>9, <2>2
  <2> QED BY <2>1, <2>2
<1>12. InOrder(list)
  <2>1. \A j \in 1 .. Len(locks) :
          /\ list[j].id = locks[j].id /\ list[j].posix = locks[j].posix
          /\ list[j].start = locks[j].start /\ list[j].end = locks[j].end
    BY <1>7, <1>9 DEF n
  <2> QED BY <1>1, <1>9, <2>1, OrderAlike DEF n
<1>13. \A j \in 1 .. n : p \in Range(list[j].blocks) <=> j = b
  BY <1>2, <1>3, <1>6, <1>7, <1>9 DEF n
<1>14. Once(list)
  <2>1. \A j \in 1 .. n : NoTwice(list[j].blocks)
    BY <1>1, <1>6, <1>7, <1>9 DEF Once, n
  <2>2. ASSUME NEW j \in 1 .. n, NEW i \in 1 .. n, j # i
        PROVE  Range(list[j].blocks) \cap Range(list[i].blocks) = {}
    <3>1. Range(locks[j].blocks) \cap Range(locks[i].blocks) = {}
      BY <1>1, <2>2 DEF Once, n
    <3>2. CASE j = b
      BY <1>3, <1>6, <1>7, <1>9, <1>10, <2>2, <3>1, <3>2 DEF n
    <3>3. CASE i = b
      BY <1>3, <1>6, <1>7, <1>9, <1>10, <2>2, <3>1, <3>3 DEF n
    <3>4. CASE i # b /\ j # b
      BY <1>9, <3>1, <3>4
    <3> QED BY <3>2, <3>3, <3>4
  <2> QED BY <1>9, <2>1, <2>2 DEF Once
<1> QED BY <1>9, <1>11, <1>12, <1>13, <1>14 DEF list

\* A pass that leaves the list as it is
LEMMA KeptSame ==
  ASSUME NEW s \in Seq(LockType), Once(s), NEW o
  PROVE  Kept(s, {}, s, Len(s), o)
<1>1. \A i \in 1 .. Len(s) : Serves(s[i], s[i])
  <2> SUFFICES ASSUME NEW i \in 1 .. Len(s) PROVE Serves(s[i], s[i])
    OBVIOUS
  <2>1. s[i] \in LockType
    OBVIOUS
  <2> QED BY <2>1, ServesItself
<1> QED BY <1>1 DEF Kept

\* A lock is in the way: p goes on its list, and may give up its own shared lock.
LEMMA SleepDone ==
  ASSUME IInv, NEW p \in Proc, NEW r \in Requests[p], ~Listed(p),
         NEW b \in 1 .. Len(locks), InTheWay(locks[b], Lock(p, r)), Sleep(p, r, b),
         r.posix /\ locks[b].posix =>
            ~UsesFreed(p, locks[b].id) /\ ~Deadlock(p, locks[b].id)
  PROVE  Done(p)
<1> DEFINE new  == Lock(p, r)
           list == [locks EXCEPT ![b].blocks = Append(@, p)]
           pass == IF r.posix \/ r.type # "WR" THEN [Pass EXCEPT !.out = list]
                   ELSE ClearPass(list, new)
           n    == Len(list)
<1>1. ListInv /\ TypeInv /\ Fine(p)
  BY DEF IInv
<1>2. /\ list \in Seq(LockType) /\ InOrder(list) /\ Once(list)
      /\ SameBut(p, list, locks)
      /\ \A j \in 1 .. n : p \in Range(list[j].blocks) <=> j = b
  BY <1>1, JoinFacts
<1>3. /\ locks' = pass.out /\ at' = [Ready(pass) EXCEPT ![p] = "asleep"]
      /\ req' = [req EXCEPT ![p] = r] /\ next' = [NextAfter(pass) EXCEPT ![p] = "lock"]
      /\ UNCHANGED <<sig, broken>>
  BY DEF Sleep
<1>4. new \in AnyLock /\ Lawful(new) /\ locks[b].id # new.id
  BY LockFacts DEF InTheWay
<1> HIDE DEF list, new
<1>5. /\ pass \in PassType /\ InOrder(pass.out)
      /\ Kept(pass.out, pass.woken, list, n, new.id)
      /\ pass.freed = {}
  <2>1. CASE r.posix \/ r.type # "WR"
    <3>1. pass = [Pass EXCEPT !.out = list]
      BY <2>1
    <3>2. /\ pass \in PassType /\ pass.out = list
          /\ pass.woken = {} /\ pass.freed = {}
      BY <1>2, <3>1, FirstPass DEF Pass, PassType
    <3>3. Kept(list, {}, list, n, new.id)
      BY <1>2, KeptSame
    <3> QED BY <1>2, <3>2, <3>3
  <2>2. CASE ~(r.posix \/ r.type # "WR")
    <3>1. pass = ClearPass(list, new)
      BY <2>2
    <3> QED BY <1>2, <1>4, <3>1, ClearPassKeeps
  <2> QED BY <2>1, <2>2
<1> HIDE DEF pass
<1>6. b \in 1 .. n /\ list[b].id = locks[b].id /\ n = Len(locks)
  BY <1>2 DEF SameBut
<1>7. p \in On(list, n)
  BY <1>2, <1>6 DEF On
<1>8. p \notin pass.woken
  <2> SUFFICES ASSUME p \in pass.woken PROVE FALSE
    OBVIOUS
  <2>1. PICK j \in 1 .. n : p \in Range(list[j].blocks) /\ list[j].id = new.id
    BY <1>5 DEF Kept
  <2>2. j = b
    BY <1>2, <2>1
  <2> QED BY <1>4, <1>6, <2>1, <2>2
<1>9. Listed(p)'
  BY <1>3, <1>5, <1>7, <1>8 DEF Kept, Listed
<1>10. \E i \in 1 .. Len(locks') : OnLock(p, i)' /\ Serves(locks'[i], locks[b])
  <2>1. PICK i \in 1 .. Len(locks') : p \in Range(locks'[i].blocks)
    BY <1>9 DEF Listed, On
  <2>2. PICK j \in 1 .. n : p \in Range(list[j].blocks) /\ Serves(locks'[i], list[j])
    BY <1>3, <1>5, <2>1 DEF Kept
  <2>3. j = b
    BY <1>2, <2>2
  <2>4. Serves(locks'[i], locks[b])
    BY <1>2, <1>6, <2>2, <2>3 DEF SameBut, Serves
  <2> QED BY <2>1, <2>4 DEF OnLock
<1>11. r \in AnyRequest /\ "asleep" \in States /\ "lock" \in {"none", "lock", "freed"}
  BY DEF AnyRequest, States
<1>12. /\ TypeInv' /\ OthersMove(p, pass.woken, pass.freed)
       /\ at'[p] = "asleep" /\ next'[p] = "lock" /\ req'[p] = r
  BY <1>1, <1>3, <1>5, <1>11, PassMoves
<1>13. Effect(p, pass.woken, pass.freed)
  <2>1. locks' \in Seq(LockType) /\ pass.freed \subseteq On(list, n)
    BY <1>3, <1>5 DEF PassType
  <2> QED BY <1>2, <1>3, <1>5, <1>12, <2>1, PassEffect
<1>14. Fine(p)'
  BY <1>9, <1>12 DEF Fine
<1> QED BY <1>10, <1>12, <1>13, <1>14 DEF Done, SleepsFor

\* GetBlock finds a lock in the way.
LEMMA GetBlockFacts ==
  ASSUME locks \in Seq(LockType), NEW new, GetBlock(new) # 0
  PROVE  GetBlock(new) \in 1 .. Len(locks) /\ InTheWay(locks[GetBlock(new)], new)
<1>1. Blocks(new) \subseteq 1 .. Len(locks)
  BY DEF Blocks
<1>2. Blocks(new) # {} /\ Blocks(new) \subseteq Nat
  BY <1>1 DEF GetBlock
<1>3. \E i \in Blocks(new) : \A j \in Blocks(new) : i <= j
  BY <1>2, Least
<1>4. GetBlock(new) \in Blocks(new)
  BY <1>2, <1>3 DEF GetBlock
<1> QED BY <1>1, <1>4 DEF Blocks

\* The steps that change no lock and wake nobody
LEMMA QuietDone ==
  ASSUME IInv, NEW p \in Proc, UNCHANGED locks, TypeInv',
         \A q \in Proc \ {p} : at'[q] = at[q] /\ next'[q] = next[q]
                               /\ req'[q] = req[q] /\ sig'[q] = sig[q],
         Fine(p)', at'[p] # "asleep"
  PROVE  Done(p)
<1>1. OthersMove(p, {}, {})
  BY DEF OthersMove
<1> QED BY <1>1, SameEffect DEF Done

\* A structure that was freed is used: the state of the locks is left as it is.
LEMMA BreakDone ==
  ASSUME IInv, NEW p \in Proc, at[p] # "asleep", Break
  PROVE  Done(p)
<1>1. TypeInv /\ Fine(p)
  BY DEF IInv
<1>2. TypeInv' /\ Fine(p)'
  BY <1>1 DEF Break, TypeInv, Fine, Listed
<1> QED BY <1>2, QuietDone DEF Break

\* One turn of the loop of lf_setlock
LEMMA TryDone ==
  ASSUME IInv, NEW p \in Proc, NEW r \in Requests[p],
         at[p] = "user" \/ (at[p] = "ready" /\ ~sig[p]), Try(p, r)
  PROVE  Done(p)
<1> DEFINE new == Lock(p, r)
           b   == GetBlock(new)
<1>1. locks \in Seq(LockType) /\ TypeInv /\ Fine(p) /\ ~Listed(p)
  BY DEF IInv, ListInv, Fine
<1>2. /\ b = 0 => Grant(p, r) \/ WaitForMemory(p, r)
      /\ b # 0 =>
           \/ ~(r.posix /\ locks[b].posix) /\ Sleep(p, r, b)
           \/ Break
           \/ Return(p)
           \/ /\ Sleep(p, r, b)
              /\ ~UsesFreed(p, locks[b].id) /\ ~Deadlock(p, locks[b].id)
  BY DEF Try
<1>3. b # 0 => b \in 1 .. Len(locks) /\ InTheWay(locks[b], new)
  BY <1>1, GetBlockFacts
<1> HIDE DEF b
<1>4. CASE Grant(p, r)
  BY <1>1, <1>4, GrantDone
<1>5. CASE WaitForMemory(p, r)
  <2>1. at \in [Proc -> States] /\ req \in [Proc -> AnyRequest] /\ r \in AnyRequest
    BY <1>1 DEF TypeInv, AnyRequest
  <2>2. /\ MallocSleeps /\ at' = [at EXCEPT ![p] = "malloc"] /\ req' = [req EXCEPT ![p] = r]
        /\ UNCHANGED <<locks, next, sig, broken>>
    BY <1>5 DEF WaitForMemory
  <2>3. TypeInv'
    BY <1>1, <2>1, <2>2 DEF TypeInv, States
  <2>4. at'[p] = "malloc" /\ req'[p] = r /\ (Listed(p)' <=> Listed(p))
    BY <2>1, <2>2 DEF Listed
  <2>5. Fine(p)'
    BY <1>1, <2>2, <2>4 DEF Fine
  <2> QED BY <2>1, <2>2, <2>3, <2>4, <2>5, QuietDone
<1>6. CASE Return(p)
  <2>1. at \in [Proc -> States] /\ req \in [Proc -> AnyRequest] /\ NoReq \in AnyRequest
    BY <1>1 DEF TypeInv, AnyRequest
  <2>2. /\ at' = [at EXCEPT ![p] = "user"] /\ req' = [req EXCEPT ![p] = NoReq]
        /\ UNCHANGED <<locks, next, sig, broken>>
    BY <1>6 DEF Return
  <2>3. TypeInv'
    BY <1>1, <2>1, <2>2 DEF TypeInv, States
  <2>4. at'[p] = "user" /\ req'[p] = NoReq /\ (Listed(p)' <=> Listed(p))
    BY <2>1, <2>2 DEF Listed
  <2>5. Fine(p)'
    BY <1>1, <2>2, <2>4 DEF Fine
  <2> QED BY <2>1, <2>2, <2>3, <2>4, <2>5, QuietDone
<1>7. CASE Break
  BY <1>7, BreakDone
<1>8. CASE b # 0 /\ Sleep(p, r, b)
           /\ (r.posix /\ locks[b].posix =>
                 ~UsesFreed(p, locks[b].id) /\ ~Deadlock(p, locks[b].id))
  BY <1>1, <1>3, <1>8, SleepDone
<1> QED BY <1>2, <1>4, <1>5, <1>6, <1>7, <1>8

\* The requests on one lock are woken, before the lock is split.
LEMMA KeptEmptied ==
  ASSUME NEW s \in Seq(LockType), InOrder(s), Once(s), NEW i \in 1 .. Len(s)
  PROVE  LET t == [s EXCEPT ![i].blocks = <<>>]
         IN  /\ t \in Seq(LockType) /\ InOrder(t)
             /\ Kept(t, Range(s[i].blocks), s, Len(s), s[i].id)
<1> DEFINE n == Len(s)
           y == [s[i] EXCEPT !.blocks = <<>>]
           t == [s EXCEPT ![i].blocks = <<>>]
<1>1. s[i] \in LockType /\ <<>> \in Seq(Proc) /\ Len(<<>>) = 0 /\ n \in Nat
  OBVIOUS
<1>2. /\ y \in LockType /\ y.blocks = <<>> /\ y.id = s[i].id /\ y.posix = s[i].posix
      /\ y.type = s[i].type /\ y.start = s[i].start /\ y.end = s[i].end
  BY <1>1 DEF LockType
<1> HIDE DEF y
<1>3. t = [s EXCEPT ![i] = y]
  BY DEF y
<1> HIDE DEF t
<1>4. /\ t \in Seq(LockType) /\ Len(t) = n /\ t[i] = y
      /\ \A j \in 1 .. n : j # i => t[j] = s[j]
  BY <1>1, <1>2, <1>3
<1>5. \A j \in 1 .. n : /\ t[j].id = s[j].id /\ t[j].posix = s[j].posix
                        /\ t[j].start = s[j].start /\ t[j].end = s[j].end
                        /\ t[j].type = s[j].type
  BY <1>2, <1>4
<1>6. InOrder(t)
  BY <1>4, <1>5, OrderAlike
<1>7. Range(t[i].blocks) = {} /\ NoTwice(t[i].blocks)
  BY <1>1, <1>2, <1>4 DEF Range, NoTwice
<1>8. Once(t)
  <2>1. \A j \in 1 .. n : NoTwice(t[j].blocks)
    BY <1>4, <1>7 DEF Once
  <2>2. ASSUME NEW j \in 1 .. n, NEW m \in 1 .. n, j # m
        PROVE  Range(t[j].blocks) \cap Range(t[m].blocks) = {}
    BY <1>4, <1>7, <2>2 DEF Once
  <2> QED BY <1>4, <2>1, <2>2 DEF Once
<1>9. \A q \in Proc : q \in On(s, n) <=> q \in Range(s[i].blocks) \/ q \in On(t, n)
  <2> SUFFICES ASSUME NEW q \in Proc
               PROVE  q \in On(s, n) <=> q \in Range(s[i].blocks) \/ q \in On(t, n)
    OBVIOUS
  <2>1. \A j \in 1 .. n : q \in Range(t[j].blocks) <=> j # i /\ q \in Range(s[j].blocks)
    BY <1>4, <1>7
  <2> QED BY <2>1 DEF On
<1>10. \A q \in Proc : ~(q \in Range(s[i].blocks) /\ q \in On(t, n))
  <2> SUFFICES ASSUME NEW q \in Proc, q \in Range(s[i].blocks), NEW j \in 1 .. n,
                      q \in Range(t[j].blocks)
               PROVE  FALSE
    BY DEF On
  <2>1. j # i /\ q \in Range(s[j].blocks)
    BY <1>4, <1>7
  <2> QED BY <2>1 DEF Once
<1>11. ASSUME NEW j \in 1 .. n, NEW q \in Range(t[j].blocks)
       PROVE  \E m \in 1 .. n : q \in Range(s[m].blocks) /\ Serves(t[j], s[m])
  <2>1. j # i /\ t[j] = s[j] /\ s[j] \in LockType
    BY <1>4, <1>7, <1>11
  <2> QED BY <2>1, <1>11, ServesItself
<1> QED BY <1>4, <1>6, <1>8, <1>9, <1>10, <1>11 DEF Kept, t

\* lf_clearlock wakes a list before it waits for the memory to split the lock.
LEMMA ClearWaitsDone ==
  ASSUME IInv, NEW p \in Proc, NEW u \in Unlocks[p], ClearWaits(p, u)
  PROVE  Done(p)
<1>1. locks \in Seq(LockType) /\ InOrder(locks) /\ Once(locks) /\ TypeInv /\ Fine(p)
      /\ at[p] = "user" /\ ~Listed(p)
  BY DEF IInv, ListInv, Fine, ClearWaits
<1>2. PICK i \in DOMAIN locks :
        LET pass == Wake(Pass, locks[i])
        IN  /\ locks' = [locks EXCEPT ![i].blocks = <<>>]
            /\ at' = [Ready(pass) EXCEPT ![p] = "unmalloc"]
            /\ next' = NextAfter(pass)
  BY DEF ClearWaits, SplitBy
<1> DEFINE pass == Wake(Pass, locks[i])
<1>3. i \in 1 .. Len(locks) /\ locks[i] \in LockType
  BY <1>1
<1>4. pass \in PassType /\ pass.woken = Range(locks[i].blocks) /\ pass.freed = {}
  <2>1. Pass.woken = {} /\ Pass.freed = {}
    BY DEF Pass
  <2> QED BY <1>3, <2>1, FirstPass, WakeFacts
<1> HIDE DEF pass
<1>5. /\ locks' \in Seq(LockType) /\ InOrder(locks')
      /\ Kept(locks', pass.woken, locks, Len(locks), locks[i].id)
  BY <1>1, <1>2, <1>3, <1>4, KeptEmptied
<1>6. p \notin pass.woken /\ p \notin pass.freed /\ ~Listed(p)'
  BY <1>1, <1>4, <1>5 DEF Kept, Listed
<1>7. u \in AnyRequest /\ "unmalloc" \in States /\ "none" \in {"none", "lock", "freed"}
  BY DEF AnyRequest, States
<1>8. /\ at' = [Ready(pass) EXCEPT ![p] = "unmalloc"] /\ next' = NextAfter(pass)
      /\ req' = [req EXCEPT ![p] = u] /\ UNCHANGED <<sig, broken>> /\ MallocSleeps
  BY <1>2 DEF ClearWaits, pass
<1>9. /\ TypeInv' /\ OthersMove(p, pass.woken, pass.freed)
      /\ at'[p] = "unmalloc" /\ next'[p] = next[p] /\ req'[p] = u
  <2> DEFINE state == "unmalloc"
  <2>1. /\ p \in Proc /\ TypeInv /\ pass \in PassType
        /\ at' = [Ready(pass) EXCEPT ![p] = state] /\ state \in States
        /\ next' = NextAfter(pass) /\ "none" \in {"none", "lock", "freed"}
        /\ req' = [req EXCEPT ![p] = u] /\ u \in AnyRequest
        /\ UNCHANGED <<sig, broken>>
    BY <1>1, <1>4, <1>7, <1>8
  <2> HIDE DEF state
  <2>2. /\ TypeInv' /\ OthersMove(p, pass.woken, pass.freed) /\ at'[p] = state
        /\ next' = NextAfter(pass) /\ p \notin pass.woken /\ p \notin pass.freed =>
             next'[p] = next[p]
        /\ req' = [req EXCEPT ![p] = u] => req'[p] = u
    BY ONLY <2>1, PassMoves
  <2> QED BY <1>6, <2>1, <2>2 DEF state
<1>10. Effect(p, pass.woken, pass.freed)
  <2>1. SameBut(p, locks, locks)
    BY DEF SameBut
  <2> QED BY <1>1, <1>4, <1>5, <1>9, <2>1, PassEffect
<1>11. Fine(p)'
  BY <1>1, <1>6, <1>8, <1>9 DEF Fine
<1> QED BY <1>9, <1>10, <1>11 DEF Done

\* lf_clearlock without a wait
LEMMA ClearLockDone ==
  ASSUME IInv, NEW p \in Proc, NEW u \in Unlocks[p], ClearLock(p, u)
  PROVE  Done(p)
<1> DEFINE gone == Lock(p, u)
           pass == ClearPass(locks, gone)
<1>1. locks \in Seq(LockType) /\ InOrder(locks) /\ Once(locks) /\ TypeInv /\ Fine(p)
      /\ at[p] = "user" /\ ~Listed(p)
  BY DEF IInv, ListInv, Fine, ClearLock
<1>2. gone \in AnyLock /\ Lawful(gone)
  BY LockFacts
<1> HIDE DEF gone
<1>3. /\ pass \in PassType /\ InOrder(pass.out)
      /\ Kept(pass.out, pass.woken, locks, Len(locks), gone.id)
      /\ pass.freed = {}
  BY <1>1, <1>2, ClearPassKeeps
<1> HIDE DEF pass
<1>4. /\ locks' = pass.out /\ at' = Ready(pass) /\ next' = NextAfter(pass)
      /\ UNCHANGED <<req, sig, broken>>
  BY DEF ClearLock, pass, gone
<1>5. p \notin pass.woken /\ p \notin pass.freed /\ ~Listed(p)'
  BY <1>1, <1>3, <1>4 DEF Kept, Listed
<1>6. at' = [Ready(pass) EXCEPT ![p] = "user"]
  BY <1>1, <1>4, <1>5 DEF Ready
<1>7. NoReq \in AnyRequest /\ "user" \in States /\ "none" \in {"none", "lock", "freed"}
  BY DEF AnyRequest, States
<1>8. /\ TypeInv' /\ OthersMove(p, pass.woken, pass.freed)
      /\ at'[p] = "user" /\ next'[p] = next[p]
  BY <1>1, <1>3, <1>4, <1>5, <1>6, <1>7, PassMoves
<1>9. Effect(p, pass.woken, pass.freed)
  <2>1. SameBut(p, locks, locks) /\ pass.freed \subseteq On(locks, Len(locks))
    BY <1>3 DEF SameBut
  <2>2. locks' \in Seq(LockType)
    BY <1>3, <1>4 DEF PassType
  <2> QED BY <1>1, <1>3, <1>4, <1>8, <2>1, <2>2, PassEffect
<1>10. Fine(p)'
  BY <1>1, <1>4, <1>5, <1>8 DEF Fine
<1> QED BY <1>8, <1>9, <1>10 DEF Done

\* A signal leaves the request on its list until p runs.
LEMMA SignalDone ==
  ASSUME IInv, NEW p \in Proc, Signal(p)
  PROVE  Done(p)
<1>1. TypeInv /\ Fine(p) /\ at[p] \in {"asleep", "ready"}
  BY DEF IInv, Signal
<1>2. /\ sig' = [sig EXCEPT ![p] = TRUE] /\ at' = [at EXCEPT ![p] = "ready"]
      /\ UNCHANGED <<locks, req, next, broken>>
  BY DEF Signal
<1>3. /\ at \in [Proc -> States] /\ sig \in [Proc -> BOOLEAN] /\ "ready" \in States
  BY <1>1 DEF TypeInv, States
<1>4. TypeInv'
  BY <1>1, <1>2, <1>3 DEF TypeInv
<1>5. at'[p] = "ready" /\ sig'[p] /\ (Listed(p)' <=> Listed(p))
  BY <1>2, <1>3 DEF Listed
<1>6. Fine(p)'
  BY <1>1, <1>2, <1>5 DEF Fine
<1> QED BY <1>2, <1>3, <1>4, <1>5, <1>6, QuietDone

\* The memory for a split is there, and the lock is set.
LEMMA GetMemoryDone ==
  ASSUME IInv, NEW p \in Proc, GetMemory(p)
  PROVE  Done(p)
<1>1. Fine(p) /\ at[p] = "malloc" /\ Grant(p, req[p])
  BY DEF IInv, GetMemory
<1>2. req[p] \in Requests[p] /\ ~Listed(p)
  BY <1>1 DEF Fine
<1> QED BY <1>1, <1>2, GrantDone

\* A list of requests without that of p
LEMMA WithoutFacts ==
  ASSUME NEW s \in Seq(Proc), NoTwice(s), NEW p
  PROVE  /\ Without(s, p) \in Seq(Proc) /\ NoTwice(Without(s, p))
         /\ Range(Without(s, p)) = Range(s) \ {p}
<1> DEFINE n == Len(s)
           i == CHOOSE i \in DOMAIN s : s[i] = p
           t == SubSeq(s, 1, i-1) \o SubSeq(s, i+1, Len(s))
<1>1. n \in Nat /\ DOMAIN s = 1 .. n /\ Range(s) = {s[j] : j \in 1 .. n}
  BY DEF Range
<1>2. CASE p \notin Range(s)
  <2>1. Without(s, p) = s
    BY <1>2 DEF Without
  <2> QED BY <1>2, <2>1
<1>3. CASE p \in Range(s)
  <2>1. Without(s, p) = t
    BY <1>3 DEF Without
  <2>2. i \in 1 .. n /\ s[i] = p
    BY <1>1, <1>3
  <2> HIDE DEF i
  <2>3. /\ t \in Seq(Proc) /\ Len(t) = n-1
        /\ \A j \in 1 .. n-1 : t[j] = IF j < i THEN s[j] ELSE s[j+1]
    <3> DEFINE u == SubSeq(s, 1, i-1)
               v == SubSeq(s, i+1, n)
    <3>1. u \in Seq(Proc) /\ Len(u) = i-1 /\ \A j \in 1 .. i-1 : u[j] = s[j]
      BY <2>2
    <3>2. v \in Seq(Proc) /\ Len(v) = n-i /\ \A j \in 1 .. n-i : v[j] = s[i+j]
      BY <2>2
    <3>3. t = u \o v
      OBVIOUS
    <3> HIDE DEF t, u, v, n
    <3>4. /\ t \in Seq(Proc) /\ Len(t) = (i-1) + (n-i)
          /\ \A j \in 1 .. (i-1) + (n-i) : t[j] = IF j <= i-1 THEN u[j] ELSE v[j-(i-1)]
      BY <3>1, <3>2, <3>3
    <3>5. (i-1) + (n-i) = n-1
      BY <1>1, <2>2
    <3>6. ASSUME NEW j \in 1 .. n-1 PROVE t[j] = IF j < i THEN s[j] ELSE s[j+1]
      <4>1. CASE j < i
        <5>1. j \in 1 .. i-1 /\ j <= i-1
          BY <1>1, <2>2, <4>1
        <5> QED BY <3>1, <3>4, <3>5, <4>1, <5>1
      <4>2. CASE ~(j < i)
        <5>1. ~(j <= i-1) /\ j-(i-1) \in 1 .. n-i /\ i + (j-(i-1)) = j+1
          BY <1>1, <2>2, <4>2
        <5> QED BY <3>2, <3>4, <3>5, <4>2, <5>1
      <4> QED BY <4>1, <4>2
    <3> QED BY <3>4, <3>5, <3>6
  <2> HIDE DEF t, n
  <2>4. \A j \in 1 .. n-1 : j \in 1 .. n /\ j+1 \in 1 .. n
    BY <1>1
  <2>5. NoTwice(t)
    <3> SUFFICES ASSUME NEW j \in 1 .. n-1, NEW m \in 1 .. n-1, t[j] = t[m] PROVE j = m
      BY <2>3 DEF NoTwice
    <3>1. CASE j < i /\ m < i
      BY <2>3, <2>4, <3>1 DEF NoTwice, n
    <3>2. CASE ~(j < i) /\ ~(m < i)
      <4>1. s[j+1] = s[m+1]
        BY <2>3, <3>2
      <4>2. j+1 = m+1
        BY <2>4, <4>1 DEF NoTwice, n
      <4> QED BY <4>2
    <3>3. CASE j < i /\ ~(m < i)
      <4>1. s[j] = s[m+1] /\ j # m+1
        BY <1>1, <2>2, <2>3, <3>3
      <4> QED BY <2>4, <4>1 DEF NoTwice, n
    <3>4. CASE ~(j < i) /\ m < i
      <4>1. s[j+1] = s[m] /\ j+1 # m
        BY <1>1, <2>2, <2>3, <3>4
      <4> QED BY <2>4, <4>1 DEF NoTwice, n
    <3> QED BY <3>1, <3>2, <3>3, <3>4
  <2>6. Range(t) = {t[j] : j \in 1 .. n-1}
    BY <2>3 DEF Range
  <2>7. ASSUME NEW j \in 1 .. n-1 PROVE t[j] \in Range(s) \ {p}
    <3>1. CASE j < i
      <4>1. j \in 1 .. n /\ j # i /\ t[j] = s[j]
        BY <1>1, <2>2, <2>3, <2>4, <3>1
      <4>2. s[j] # s[i]
        BY <2>2, <4>1 DEF NoTwice, n
      <4> QED BY <1>1, <2>2, <4>1, <4>2
    <3>2. CASE ~(j < i)
      <4>1. j+1 \in 1 .. n /\ j+1 # i /\ t[j] = s[j+1]
        BY <1>1, <2>2, <2>3, <2>4, <3>2
      <4>2. s[j+1] # s[i]
        BY <2>2, <4>1 DEF NoTwice, n
      <4> QED BY <1>1, <2>2, <4>1, <4>2
    <3> QED BY <3>1, <3>2
  <2>8. ASSUME NEW j \in 1 .. n, s[j] # p PROVE s[j] \in Range(t)
    <3>1. CASE j < i
      <4>1. j \in 1 .. n-1
        BY <1>1, <2>2, <3>1
      <4>2. t[j] = s[j]
        BY <2>3, <3>1, <4>1
      <4> QED BY <2>6, <4>1, <4>2
    <3>2. CASE ~(j < i)
      <4>1. j-1 \in 1 .. n-1 /\ ~(j-1 < i) /\ (j-1)+1 = j
        BY <1>1, <2>2, <2>8, <3>2
      <4>2. t[j-1] = s[j]
        BY <2>3, <4>1
      <4> QED BY <2>6, <4>1, <4>2
    <3> QED BY <3>1, <3>2
  <2>9. Range(t) = Range(s) \ {p}
    BY <1>1, <2>6, <2>7, <2>8
  <2> QED BY <2>1, <2>3, <2>5, <2>9
<1> QED BY <1>2, <1>3

\* The request leaves the list it is on, if any.
LEMMA GiveUpDone ==
  ASSUME IInv, NEW p \in Proc, GiveUp(p)
  PROVE  Done(p)
<1> DEFINE n == Len(locks)
           t == [i \in DOMAIN locks |-> [locks[i] EXCEPT !.blocks = Without(@, p)]]
           b(i) == Without(locks[i].blocks, p)
           y(i) == [locks[i] EXCEPT !.blocks = b(i)]
<1>1. locks \in Seq(LockType) /\ InOrder(locks) /\ Once(locks) /\ TypeInv /\ Fine(p)
      /\ at[p] = "ready" /\ sig[p] /\ n \in Nat
  BY DEF IInv, ListInv, GiveUp
<1>2. CASE Break
  BY <1>1, <1>2, BreakDone
<1>3. CASE /\ locks' = t
           /\ at' = [at EXCEPT ![p] = "user"]
           /\ req' = [req EXCEPT ![p] = NoReq]
           /\ next' = [next EXCEPT ![p] = "none"]
           /\ sig' = [sig EXCEPT ![p] = FALSE]
           /\ UNCHANGED broken
  <2>1. ASSUME NEW i \in 1 .. n
        PROVE  /\ b(i) \in Seq(Proc) /\ NoTwice(b(i))
               /\ Range(b(i)) = Range(locks[i].blocks) \ {p}
    <3>1. locks[i] \in LockType
      BY <1>1
    <3>2. locks[i].blocks \in Seq(Proc) /\ NoTwice(locks[i].blocks)
      BY <1>1, <3>1 DEF LockType, Once
    <3> QED BY <3>2, WithoutFacts
  <2>2. ASSUME NEW i \in 1 .. n
        PROVE  /\ y(i) \in LockType /\ y(i).blocks = b(i) /\ y(i).id = locks[i].id
               /\ y(i).posix = locks[i].posix /\ y(i).type = locks[i].type
               /\ y(i).start = locks[i].start /\ y(i).end = locks[i].end
    <3>1. locks[i] \in LockType
      BY <1>1
    <3> HIDE DEF b
    <3> QED BY <2>1, <3>1 DEF LockType
  <2>3. t = [i \in 1 .. n |-> y(i)]
    BY <1>1
  <2> HIDE DEF t, y
  <2>4. t \in [1 .. n -> LockType] /\ \A i \in 1 .. n : t[i] = y(i)
    BY <2>2, <2>3
  <2>5. t \in Seq(LockType) /\ Len(t) = n
    BY <1>1, <2>4
  <2> HIDE DEF b
  <2>6. \A i \in 1 .. n :
          /\ t[i].id = locks[i].id /\ t[i].posix = locks[i].posix /\ t[i].type = locks[i].type
          /\ t[i].start = locks[i].start /\ t[i].end = locks[i].end
          /\ Range(t[i].blocks) = Range(locks[i].blocks) \ {p}
          /\ NoTwice(t[i].blocks)
    BY <2>1, <2>2, <2>4
  <2> HIDE DEF n
  <2>7. InOrder(t)
    BY <1>1, <2>5, <2>6, OrderAlike DEF n
  <2>8. Once(t)
    <3>1. ASSUME NEW i \in 1 .. n, NEW j \in 1 .. n, i # j
          PROVE  Range(t[i].blocks) \cap Range(t[j].blocks) = {}
      <4>1. Range(locks[i].blocks) \cap Range(locks[j].blocks) = {}
        BY <1>1, <3>1 DEF Once, n
      <4> QED BY <2>6, <4>1
    <3> QED BY <2>5, <2>6, <3>1 DEF Once
  <2>9. ListInv'
    BY <1>3, <2>5, <2>7, <2>8 DEF ListInv
  <2>10. \A q \in Proc : Listed(q)' <=> Listed(q) /\ q # p
    <3>1. \A q \in Proc : Listed(q)' <=> \E i \in 1 .. n : q \in Range(t[i].blocks)
      BY <1>3, <2>5 DEF Listed, On
    <3>2. \A q \in Proc : Listed(q) <=> \E i \in 1 .. n : q \in Range(locks[i].blocks)
      BY DEF Listed, On, n
    <3> QED BY <2>6, <3>1, <3>2
  <2>11. /\ at \in [Proc -> States] /\ req \in [Proc -> AnyRequest]
         /\ next \in [Proc -> {"none", "lock", "freed"}] /\ sig \in [Proc -> BOOLEAN]
         /\ NoReq \in AnyRequest /\ "user" \in States
    BY <1>1 DEF TypeInv, AnyRequest, States
  <2>12. TypeInv'
    BY <1>1, <1>3, <2>11 DEF TypeInv
  <2>13. OthersMove(p, {}, {})
    BY <1>3, <2>11 DEF OthersMove
  <2>14. ASSUME NEW q \in Proc \ {p}, NEW i \in 1 .. Len(locks'), OnLock(q, i)'
         PROVE  \E j \in 1 .. Len(locks) :
                   /\ OnLock(q, j) /\ locks'[i].id = locks[j].id
                   /\ MallocSleeps \/ Serves(locks'[i], locks[j])
    <3>1. i \in 1 .. n /\ locks' = t
      BY <1>3, <2>5
    <3>2. OnLock(q, i)
      BY <2>6, <2>14, <3>1 DEF OnLock
    <3>3. locks[i] \in LockType
      BY <1>1, <3>1 DEF n
    <3>4. Serves(t[i], locks[i])
      BY <2>6, <3>1, <3>3, ServesItself DEF Serves
    <3> QED BY <2>6, <3>1, <3>2, <3>4 DEF n
  <2>15. Effect(p, {}, {})
    BY <2>9, <2>10, <2>13, <2>14 DEF Effect, OthersMove
  <2>16. at'[p] = "user" /\ next'[p] = "none" /\ req'[p] = NoReq /\ ~Listed(p)'
    BY <1>3, <2>10, <2>11
  <2>17. Fine(p)'
    BY <2>16 DEF Fine
  <2> QED BY <2>12, <2>15, <2>16, <2>17 DEF Done
<1> QED BY <1>2, <1>3 DEF GiveUp

\* One list of locks after another
LEMMA JoinedLocks ==
  ASSUME NEW w \in Seq(LockType), NEW v \in Seq(LockType)
  PROVE  /\ w \o v \in Seq(LockType) /\ Len(w \o v) = Len(w) + Len(v)
         /\ \A j \in 1 .. Len(w) + Len(v) :
              (w \o v)[j] = IF j <= Len(w) THEN w[j] ELSE v[j - Len(w)]
OBVIOUS

\* The list s with the locks y and z in the place of its lock i
Splice(s, i, y, z) ==
    SubSeq(s, 1, i-1) \o <<y>> \o <<z>> \o SubSeq(s, i+1, Len(s))

\* t is that list.
Spliced(t, s, i, y, z) ==
    /\ t \in Seq(LockType) /\ Len(t) = Len(s) + 1
    /\ \A j \in 1 .. Len(s) + 1 :
         t[j] = IF j < i THEN s[j] ELSE IF j = i THEN y ELSE IF j = i+1 THEN z ELSE s[j-1]

\* What splicing makes of a list of locks
LEMMA SpliceFacts ==
  ASSUME NEW s \in Seq(LockType), NEW i \in 1 .. Len(s),
         NEW y \in LockType, NEW z \in LockType
  PROVE  Spliced(Splice(s, i, y, z), s, i, y, z)
<1> DEFINE n == Len(s)
           u == SubSeq(s, 1, i-1)
           v == SubSeq(s, i+1, n)
           w == u \o <<y>> \o <<z>>
           t == Splice(s, i, y, z)
<1>1. n \in Nat /\ i \in 1 .. n
  OBVIOUS
<1>2. u \in Seq(LockType) /\ Len(u) = i-1 /\ \A j \in 1 .. i-1 : u[j] = s[j]
  OBVIOUS
<1>3. v \in Seq(LockType) /\ Len(v) = n-i /\ \A j \in 1 .. n-i : v[j] = s[i+j]
  OBVIOUS
<1>10. t = w \o v
  BY DEF Splice
<1> HIDE DEF u, v, n, t
<1>4. w = Append(Append(u, y), z)
  BY <1>2
<1> HIDE DEF w
<1>5. /\ w \in Seq(LockType) /\ Len(w) = (i-1) + 2
      /\ \A j \in 1 .. i-1 : w[j] = u[j]
      /\ w[(i-1)+1] = y /\ w[(i-1)+2] = z
  BY <1>1, <1>2, <1>4
<1>6. (i-1)+1 = i /\ (i-1)+2 = i+1
  BY <1>1
<1>7. /\ t \in Seq(LockType) /\ Len(t) = (i+1) + (n-i)
      /\ \A j \in 1 .. (i+1) + (n-i) : t[j] = IF j <= i+1 THEN w[j] ELSE v[j-(i+1)]
  <2> DEFINE a == Len(w)
             b == Len(v)
  <2>1. a = i+1 /\ b = n-i
    BY <1>1, <1>3, <1>5, <1>6
  <2>2. /\ t \in Seq(LockType) /\ Len(t) = a + b
        /\ \A j \in 1 .. a + b : t[j] = IF j <= a THEN w[j] ELSE v[j-a]
    BY <1>3, <1>5, <1>10, JoinedLocks
  <2> HIDE DEF a, b
  <2> QED BY <2>1, <2>2
<1>8. (i+1) + (n-i) = n+1
  BY <1>1
<1>9. ASSUME NEW j \in 1 .. n+1
      PROVE  t[j] = IF j < i THEN s[j] ELSE IF j = i THEN y
                    ELSE IF j = i+1 THEN z ELSE s[j-1]
  <2>1. CASE j < i
    <3>1. j \in 1 .. i-1 /\ j <= i+1
      BY <1>1, <2>1
    <3> QED BY <1>2, <1>5, <1>7, <1>8, <2>1, <3>1
  <2>2. CASE j = i
    BY <1>1, <1>5, <1>6, <1>7, <1>8, <2>2
  <2>3. CASE j = i+1
    BY <1>1, <1>5, <1>6, <1>7, <1>8, <2>3
  <2>4. CASE j > i+1
    <3>1. /\ ~(j <= i+1) /\ j-(i+1) \in 1 .. n-i /\ i + (j-(i+1)) = j-1
          /\ ~(j < i) /\ j # i /\ j # i+1
      BY <1>1, <2>4
    <3> QED BY <1>3, <1>7, <1>8, <3>1
  <2> QED BY <1>1, <2>1, <2>2, <2>3, <2>4
<1> QED BY <1>7, <1>8, <1>9 DEF n, t, Spliced

\* The memory is there, and the lock is cut in two: the first part keeps the requests
\* that came meanwhile.
LEMMA ClearSplitsDone ==
  ASSUME IInv, NEW p \in Proc, ClearSplits(p)
  PROVE  Done(p)
<1> DEFINE gone == Lock(p, req[p])
           n == Len(locks)
<1>1. locks \in Seq(LockType) /\ InOrder(locks) /\ Once(locks) /\ TypeInv /\ Fine(p)
      /\ at[p] = "unmalloc" /\ n \in Nat
  BY DEF IInv, ListInv, ClearSplits
<1>2. req[p] \in Unlocks[p] /\ ~Listed(p) /\ MallocSleeps
  BY <1>1 DEF Fine
<1>3. gone \in AnyLock /\ Lawful(gone)
  BY <1>2, LockFacts
<1>4. PICK i \in SplitBy(gone) :
        locks' = SubSeq(locks, 1, i-1) \o FirstPart(locks[i], gone)
                 \o RightOf(locks[i], gone) \o SubSeq(locks, i+1, Len(locks))
  BY DEF ClearSplits
<1> HIDE DEF gone
<1> DEFINE x == locks[i]
           c == gone.start - 1
           y == [x EXCEPT !.end = c]
           z == Piece(x, gone.end + 1, x.end)
<1>5. /\ i \in 1 .. n /\ x \in LockType /\ Overlap(x, gone)
      /\ LeftOf(x, gone) # <<>> /\ RightOf(x, gone) # <<>>
  BY <1>1 DEF SplitBy
<1>6. x.start < gone.start /\ gone.end # EOF /\ (x.end = EOF \/ x.end > gone.end)
  BY <1>5 DEF LeftOf, RightOf
<1> HIDE DEF z
<1>7. /\ RightOf(x, gone) = <<z>> /\ z \in LockType
      /\ z.id = x.id /\ z.posix = x.posix /\ z.type = x.type
      /\ z.start = gone.end + 1 /\ z.end = x.end /\ z.blocks = <<>>
  BY <1>3, <1>5, <1>6, RightFacts DEF z
<1>8. /\ x.start \in Nat /\ gone.start \in Nat /\ gone.end \in Nat
      /\ x.end \in Nat \cup {EOF} /\ gone.start <= gone.end
  BY <1>3, <1>5, <1>6 DEF LockType, AnyLock, Lawful
<1>9. c \in Nat /\ c # EOF /\ x.start <= c /\ c < gone.start
  BY <1>6, <1>8, EOFAssumption
<1> HIDE DEF c
<1>10. /\ y \in LockType /\ y.id = x.id /\ y.posix = x.posix /\ y.type = x.type
       /\ y.start = x.start /\ y.end = c /\ y.blocks = x.blocks
  BY <1>5, <1>9 DEF LockType
<1>11. FirstPart(x, gone) = <<y>>
  BY DEF FirstPart, c
<1> HIDE DEF y
<1> DEFINE t == locks'
<1>12. /\ t \in Seq(LockType) /\ Len(t) = n+1
       /\ \A j \in 1 .. n+1 :
            t[j] = IF j < i THEN locks[j] ELSE IF j = i THEN y
                   ELSE IF j = i+1 THEN z ELSE locks[j-1]
  <2>1. t = Splice(locks, i, y, z)
    BY <1>4, <1>7, <1>11 DEF Splice
  <2>2. locks \in Seq(LockType) /\ i \in 1 .. Len(locks) /\ y \in LockType /\ z \in LockType
    BY <1>1, <1>5, <1>7, <1>10
  <2> HIDE DEF t, x, n
  <2> HIDE DEF z
  <2>3. Spliced(Splice(locks, i, y, z), locks, i, y, z)
    BY ONLY <2>2, SpliceFacts
  <2> QED BY <2>1, <2>3 DEF n, t, Spliced
<1>13. x.start <= gone.end /\ (x.end = EOF \/ gone.start <= x.end)
  BY <1>5, <1>6, <1>8 DEF Overlap, IsAfter, IsBefore
<1> HIDE DEF n, t
<1> DEFINE src(j) == IF j <= i THEN j ELSE j-1
<1>14. \A j \in 1 .. n+1 : src(j) \in 1 .. n
  BY <1>1, <1>5
<1>15. \A j \in 1 .. n+1 : /\ j # i /\ j # i+1 => t[j] = locks[src(j)]
                           /\ t[j].id = locks[src(j)].id /\ t[j].type = locks[src(j)].type
                           /\ j # i+1 => t[j].blocks = locks[src(j)].blocks
  <2> SUFFICES ASSUME NEW j \in 1 .. n+1
               PROVE  /\ j # i /\ j # i+1 => t[j] = locks[src(j)]
                      /\ t[j].id = locks[src(j)].id /\ t[j].type = locks[src(j)].type
                      /\ j # i+1 => t[j].blocks = locks[src(j)].blocks
    OBVIOUS
  <2>1. CASE j < i
    BY <1>5, <1>12, <2>1
  <2>2. CASE j = i
    BY <1>5, <1>10, <1>12, <2>2
  <2>3. CASE j = i+1
    <3>1. src(j) = i /\ t[j] = z
      BY <1>5, <1>12, <2>3
    <3> QED BY <1>5, <1>7, <2>3, <3>1
  <2>4. CASE j > i+1
    BY <1>5, <1>12, <2>4
  <2> QED BY <1>5, <2>1, <2>2, <2>3, <2>4
<1>16. /\ i \in 1 .. n+1 /\ i+1 \in 1 .. n+1 /\ t[i] = y /\ t[i+1] = z
       /\ src(i) = i /\ src(i+1) = i
  BY <1>1, <1>5, <1>12
<1>17. InOrder(t)
  <2>1. ASSUME NEW j \in 1 .. n+1 PROVE Lawful(t[j]) /\ Named(t[j])
    <3>1. Lawful(locks[src(j)]) /\ Named(locks[src(j)])
      BY <1>1, <1>14 DEF InOrder, n
    <3>2. CASE j = i
      <4>1. t[j] = y /\ Lawful(x) /\ Named(x)
        BY <1>16, <3>1, <3>2
      <4> QED BY <1>9, <1>10, <4>1 DEF Lawful, Named, Id
    <3>3. CASE j = i+1
      <4>1. t[j] = z /\ Lawful(x) /\ Named(x)
        BY <1>16, <3>1, <3>3
      <4>2. z.end = EOF \/ z.start <= z.end
        BY <1>6, <1>7, <1>8
      <4> QED BY <1>7, <4>1, <4>2 DEF Lawful, Named, Id
    <3>4. CASE j # i /\ j # i+1
      BY <1>15, <3>1, <3>4
    <3> QED BY <3>2, <3>3, <3>4
  <2>2. ASSUME NEW j \in 1 .. n+1, NEW k \in 1 .. n+1, j < k, t[j].id = t[k].id
        PROVE  IsBefore(t[j], t[k])
    <3>1. CASE j = i /\ k = i+1
      <4>1. t[j] = y /\ t[k] = z
        BY <1>16, <3>1
      <4>2. c < gone.end + 1
        BY <1>8, <1>9
      <4> QED BY <1>7, <1>9, <1>10, <4>1, <4>2 DEF IsBefore
    <3>2. CASE ~(j = i /\ k = i+1)
      <4>1. src(j) < src(k) /\ src(j) \in 1 .. n /\ src(k) \in 1 .. n
        BY <1>5, <1>14, <2>2, <3>2
      <4>2. locks[src(j)].id = locks[src(k)].id
        BY <1>15, <2>2
      <4>3. IsBefore(locks[src(j)], locks[src(k)])
        BY <1>1, <4>1, <4>2 DEF InOrder, n
      <4>4. locks[src(j)] \in LockType /\ locks[src(k)] \in LockType
        BY <1>1, <4>1 DEF n
      <4> DEFINE f == locks[src(j)]
                 g == locks[src(k)]
      <4>5. /\ t[j].end = f.end \/ (f = x /\ t[j].end = c)
            /\ t[k].start = g.start \/ (g = x /\ t[k].start = gone.end + 1)
        <5>1. t[j].end = f.end \/ (f = x /\ t[j].end = c)
          BY <1>7, <1>10, <1>15, <1>16
        <5>2. t[k].start = g.start \/ (g = x /\ t[k].start = gone.end + 1)
          BY <1>7, <1>10, <1>15, <1>16
        <5> QED BY <5>1, <5>2
      <4> HIDE DEF f, g, x, src
      <4>6. f.end # EOF /\ f.end \in Nat /\ g.start \in Nat /\ g.start > f.end
        BY <4>3, <4>4 DEF IsBefore, LockType, f, g
      <4> QED BY <1>8, <1>9, <1>13, <4>5, <4>6 DEF IsBefore
    <3> QED BY <3>1, <3>2
  <2> QED BY <1>12, <2>1, <2>2 DEF InOrder
<1>18. Range(t[i+1].blocks) = {} /\ NoTwice(t[i+1].blocks)
  <2>1. Len(<<>>) = 0 /\ \A j : j \notin 1 .. 0
    OBVIOUS
  <2>2. t[i+1].blocks = <<>>
    BY <1>7, <1>16
  <2> QED BY <2>1, <2>2 DEF Range, NoTwice
<1>19. Once(t)
  <2>1. \A j \in 1 .. n+1 : NoTwice(t[j].blocks)
    BY <1>1, <1>14, <1>15, <1>18 DEF Once, n
  <2>2. ASSUME NEW j \in 1 .. n+1, NEW k \in 1 .. n+1, j # k
        PROVE  Range(t[j].blocks) \cap Range(t[k].blocks) = {}
    <3>1. CASE j = i+1 \/ k = i+1
      BY <1>18, <3>1
    <3>2. CASE j # i+1 /\ k # i+1
      <4>1. src(j) \in 1 .. n /\ src(k) \in 1 .. n /\ src(j) # src(k)
        BY <1>5, <1>14, <2>2, <3>2
      <4>2. t[j].blocks = locks[src(j)].blocks /\ t[k].blocks = locks[src(k)].blocks
        BY <1>15, <3>2
      <4> HIDE DEF src
      <4> QED BY <1>1, <4>1, <4>2 DEF Once, n
    <3> QED BY <3>1, <3>2
  <2> QED BY <1>12, <2>1, <2>2 DEF Once
<1>20. \A q \in Proc : Listed(q)' <=> Listed(q)
  <2> SUFFICES ASSUME NEW q \in Proc PROVE Listed(q)' <=> Listed(q)
    OBVIOUS
  <2>1. Listed(q)' <=> \E j \in 1 .. n+1 : q \in Range(t[j].blocks)
    BY <1>12 DEF Listed, On, t
  <2>2. Listed(q) <=> \E j \in 1 .. n : q \in Range(locks[j].blocks)
    BY DEF Listed, On, n
  <2>3. ASSUME NEW j \in 1 .. n+1, q \in Range(t[j].blocks)
        PROVE  \E k \in 1 .. n : q \in Range(locks[k].blocks)
    BY <1>14, <1>15, <1>18, <2>3
  <2>4. ASSUME NEW k \in 1 .. n, q \in Range(locks[k].blocks)
        PROVE  \E j \in 1 .. n+1 : q \in Range(t[j].blocks)
    <3>1. CASE k <= i
      <4>1. k \in 1 .. n+1 /\ src(k) = k /\ k # i+1
        BY <1>1, <1>5, <3>1
      <4> QED BY <1>15, <2>4, <4>1
    <3>2. CASE ~(k <= i)
      <4>1. k+1 \in 1 .. n+1 /\ src(k+1) = k /\ k+1 # i+1
        BY <1>1, <1>5, <3>2
      <4>2. t[k+1].blocks = locks[k].blocks
        BY <1>15, <4>1
      <4> QED BY <2>4, <4>1, <4>2
    <3> QED BY <3>1, <3>2
  <2> QED BY <2>1, <2>2, <2>3, <2>4
<1>21. ListInv'
  BY <1>12, <1>17, <1>19 DEF ListInv, t
<1>22. /\ at' = [at EXCEPT ![p] = "user"] /\ req' = [req EXCEPT ![p] = NoReq]
       /\ UNCHANGED <<next, sig, broken>>
  BY DEF ClearSplits
<1>23. /\ at \in [Proc -> States] /\ req \in [Proc -> AnyRequest]
       /\ NoReq \in AnyRequest /\ "user" \in States
  BY <1>1 DEF TypeInv, AnyRequest, States
<1>24. TypeInv' /\ OthersMove(p, {}, {}) /\ at'[p] = "user" /\ req'[p] = NoReq
  BY <1>1, <1>22, <1>23 DEF TypeInv, OthersMove
<1>25. ASSUME NEW q \in Proc \ {p}, NEW j \in 1 .. Len(locks'), OnLock(q, j)'
       PROVE  \E k \in 1 .. Len(locks) :
                 /\ OnLock(q, k) /\ locks'[j].id = locks[k].id
                 /\ MallocSleeps \/ Serves(locks'[j], locks[k])
  <2>1. j \in 1 .. n+1 /\ q \in Range(t[j].blocks)
    BY <1>12, <1>25 DEF OnLock, t
  <2>2. j # i+1
    BY <1>18, <2>1
  <2>3. src(j) \in 1 .. n /\ q \in Range(locks[src(j)].blocks) /\ t[j].id = locks[src(j)].id
    BY <1>14, <1>15, <2>1, <2>2
  <2> QED BY <1>2, <2>3 DEF OnLock, n, t
<1>26. Effect(p, {}, {})
  BY <1>20, <1>21, <1>24, <1>25 DEF Effect, OthersMove
<1>27. Fine(p)'
  BY <1>1, <1>2, <1>20, <1>22, <1>24 DEF Fine
<1> QED BY <1>24, <1>26, <1>27 DEF Done

--------------------------------------------------------------------------------
\* The invariant, and what follows from it

\* Every step is one of those above.
LEMMA StepDone ==
  ASSUME IInv, Next
  PROVE  \E p \in Proc : Done(p)
<1>1. PICK p \in Proc : \/ \E r \in Requests[p] : SetLock(p, r)
                        \/ \E u \in Unlocks[p] : ClearLock(p, u) \/ ClearWaits(p, u)
                        \/ Signal(p)
                        \/ Run(p)
  BY DEF Next
<1>2. CASE \E r \in Requests[p] : SetLock(p, r)
  BY <1>2, TryDone DEF SetLock
<1>3. CASE \E u \in Unlocks[p] : ClearLock(p, u) \/ ClearWaits(p, u)
  BY <1>3, ClearLockDone, ClearWaitsDone
<1>4. CASE Signal(p)
  BY <1>4, SignalDone
<1>5. CASE Retry(p)
  <2>1. at[p] = "ready" /\ ~sig[p] /\ Try(p, req[p])
    BY <1>5 DEF Retry
  <2>2. req[p] \in Requests[p]
    BY <2>1 DEF IInv, Fine
  <2> QED BY <2>1, <2>2, TryDone
<1>6. CASE GiveUp(p)
  BY <1>6, GiveUpDone
<1>7. CASE GetMemory(p)
  BY <1>7, GetMemoryDone
<1>8. CASE ClearSplits(p)
  BY <1>8, ClearSplitsDone
<1> QED BY <1>1, <1>2, <1>3, <1>4, <1>5, <1>6, <1>7, <1>8 DEF Run

\* At first there are no locks and no requests.
LEMMA InvariantInit == Init => IInv
<1> SUFFICES ASSUME Init PROVE IInv
  OBVIOUS
<1>1. Len(<<>>) = 0 /\ <<>> \in Seq(LockType) /\ \A i : i \notin 1 .. 0
  OBVIOUS
<1>2. ListInv
  BY <1>1 DEF Init, ListInv, InOrder, Once
<1>3. TypeInv
  BY DEF Init, TypeInv, States, AnyRequest
<1>4. \A q \in Proc : ~Listed(q)
  BY <1>1 DEF Init, Listed, On
<1> QED BY <1>2, <1>3, <1>4 DEF IInv, Fine, Init

\* Every step keeps the invariant, of p and of the others.
LEMMA InvariantStep == IInv /\ [Next]_vars => IInv'
<1>1. ASSUME IInv, Next PROVE IInv'
  <2>1. PICK p \in Proc : Done(p)
    BY <1>1, StepDone
  <2>2. PICK woken, freed : Effect(p, woken, freed)
    BY <2>1 DEF Done
  <2>3. \A q \in Proc \ {p} : Fine(q)'
    BY <1>1, <2>2, OthersFine
  <2> QED BY <2>1, <2>2, <2>3 DEF Done, Effect, IInv
<1>2. ASSUME IInv, UNCHANGED vars PROVE IInv'
  BY <1>2 DEF IInv, ListInv, TypeInv, Fine, Listed, vars
<1> QED BY <1>1, <1>2

\* The list is in order, each request is on one list at most, and its lf_next and its sleep
\* agree with that.
THEOREM Invariant == Spec => []IInv
<1> QED BY InvariantInit, InvariantStep, PTL DEF Spec

\* The locks of the list are well formed, and those of one owner lie on it in order
\* and do not overlap: what lf_findoverlap relies on when it stops at the first lock
\* past the range.
THEOREM TypeCorrect == Spec => []TypeOK
<1>1. IInv => TypeOK
  <2> SUFFICES ASSUME IInv PROVE TypeOK
    OBVIOUS
  <2>1. locks \in Seq(LockType) /\ DOMAIN locks = 1 .. Len(locks) /\ InOrder(locks)
    BY DEF IInv, ListInv
  <2>2. \A i \in DOMAIN locks :
           /\ \E p \in Proc : locks[i].id = Id(p, locks[i])
           /\ locks[i].end = EOF \/ locks[i].start <= locks[i].end
           /\ \A j \in DOMAIN locks :
                  i < j /\ locks[i].id = locks[j].id => IsBefore(locks[i], locks[j])
    BY <2>1 DEF InOrder, Lawful, Named
  <2> QED BY <2>1, <2>2 DEF IInv, TypeInv, Fine, States, TypeOK
<1> QED BY <1>1, Invariant, PTL

\* The places of the request of p
LEMMA PlacesFacts ==
  ASSUME IInv, NEW p \in Proc
  PROVE  Cardinality(Places(p)) = IF Listed(p) THEN 1 ELSE 0
<1>1. /\ locks \in Seq(LockType) /\ DOMAIN locks = 1 .. Len(locks) /\ Once(locks)
      /\ \A i \in 1 .. Len(locks) :
            /\ locks[i].blocks \in Seq(Proc)
            /\ DOMAIN locks[i].blocks = 1 .. Len(locks[i].blocks)
  <2>1. locks \in Seq(LockType) /\ Once(locks)
    BY DEF IInv, ListInv
  <2>2. ASSUME NEW i \in 1 .. Len(locks) PROVE locks[i].blocks \in Seq(Proc)
    <3>1. locks[i] \in LockType
      BY <2>1
    <3> QED BY <3>1 DEF LockType
  <2> QED BY <2>1, <2>2
<1>2. \A x : x \in Places(p) <=>
               \E i \in 1 .. Len(locks) : \E j \in 1 .. Len(locks[i].blocks) :
                                   x = <<i, j>> /\ locks[i].blocks[j] = p
  BY <1>1 DEF Places
<1>3. Listed(p) <=> \E i \in 1 .. Len(locks) : \E j \in 1 .. Len(locks[i].blocks) :
                       locks[i].blocks[j] = p
  BY <1>1 DEF Listed, On, Range
<1>4. ASSUME NEW x \in Places(p), NEW y \in Places(p) PROVE x = y
  <2>1. PICK i \in 1 .. Len(locks) : \E j \in 1 .. Len(locks[i].blocks) :
           x = <<i, j>> /\ locks[i].blocks[j] = p
    BY <1>2
  <2>2. PICK k \in 1 .. Len(locks) : \E m \in 1 .. Len(locks[k].blocks) :
           y = <<k, m>> /\ locks[k].blocks[m] = p
    BY <1>2
  <2>3. PICK j \in 1 .. Len(locks[i].blocks) : x = <<i, j>> /\ locks[i].blocks[j] = p
    BY <2>1
  <2>4. PICK m \in 1 .. Len(locks[k].blocks) : y = <<k, m>> /\ locks[k].blocks[m] = p
    BY <2>2
  <2>5. p \in Range(locks[i].blocks) /\ p \in Range(locks[k].blocks)
    BY <1>1, <2>3, <2>4 DEF Range
  <2>6. i = k
    BY <1>1, <2>5 DEF Once
  <2>7. j = m
    BY <1>1, <2>6, <2>3, <2>4 DEF Once, NoTwice
  <2> QED BY <2>6, <2>7, <2>3, <2>4
<1>5. CASE Listed(p)
  <2>1. PICK x : x \in Places(p)
    BY <1>2, <1>3, <1>5
  <2>2. Places(p) = {x}
    BY <1>4, <2>1
  <2> QED BY <1>5, <2>2, FS_Singleton
<1>6. CASE ~Listed(p)
  <2>1. Places(p) = {}
    BY <1>2, <1>3, <1>6
  <2> QED BY <1>6, <2>1, FS_EmptySet
<1> QED BY <1>5, <1>6

\* A request is on the list of one lock, once, from its sleep until it is woken or leaves,
\* and on no list otherwise, whatever locks are cut, joined and taken over meanwhile.
THEOREM RequestsListed == Spec => []OnItsList
<1>1. IInv => OnItsList
  <2> SUFFICES ASSUME IInv, NEW p \in Proc
               PROVE  /\ Cardinality(Places(p)) = IF next[p] = "none" THEN 0 ELSE 1
                      /\ at[p] = "asleep" => next[p] # "none"
                      /\ at[p] \in {"user", "malloc", "unmalloc"} => next[p] = "none"
    BY DEF OnItsList
  <2>1. Fine(p)
    BY DEF IInv
  <2> QED BY <2>1, PlacesFacts DEF Fine
<1> QED BY <1>1, Invariant, PTL

--------------------------------------------------------------------------------
\* No wake-up is missed.

\* Every request that sleeps is on the list of a lock in its way.
BlockedOn(q) ==
    at[q] = "asleep" =>
        \E i \in 1 .. Len(locks) : OnLock(q, i) /\ InTheWay(locks[i], Lock(q, req[q]))

\* A lock that serves another is in the way of all that the other was.
LEMMA ServesBlocks ==
  ASSUME NEW x \in LockType, NEW y \in LockType, NEW new \in LockType,
         Serves(y, x), InTheWay(x, new)
  PROVE  InTheWay(y, new)
<1>1. /\ x.start \in Nat /\ y.start \in Nat /\ new.start \in Nat
      /\ x.end \in Nat \cup {EOF} /\ y.end \in Nat \cup {EOF} /\ new.end \in Nat \cup {EOF}
      /\ x.type \in {"RD", "WR"} /\ y.type \in {"RD", "WR"} /\ new.type \in {"RD", "WR"}
  BY DEF LockType
<1>2. y.id # new.id /\ "WR" \in {y.type, new.type}
  BY <1>1 DEF Serves, InTheWay
<1>3. ~IsBefore(y, new)
  BY <1>1, EOFAssumption DEF Serves, InTheWay, Overlap, IsBefore
<1>4. ~IsAfter(y, new)
  BY <1>1, EOFAssumption DEF Serves, InTheWay, Overlap, IsAfter
<1> QED BY <1>2, <1>3, <1>4 DEF InTheWay, Overlap

\* A request is on the list of one lock.
LEMMA OneLock ==
  ASSUME ListInv, NEW q \in Proc, NEW i \in 1 .. Len(locks), NEW j \in 1 .. Len(locks),
         OnLock(q, i), OnLock(q, j)
  PROVE  i = j
BY DEF ListInv, Once, OnLock

\* What a step leaves of the lock that q is blocked on is in its way still, or q was woken.
LEMMA BlockedOnStep ==
  ASSUME MallocSleeps = FALSE, IInv, IInv', \A q \in Proc : BlockedOn(q), [Next]_vars
  PROVE  \A q \in Proc : BlockedOn(q)'
<1> SUFFICES ASSUME NEW q \in Proc, at'[q] = "asleep"
             PROVE  \E i \in 1 .. Len(locks') :
                       OnLock(q, i)' /\ InTheWay(locks'[i], Lock(q, req'[q]))
  BY DEF BlockedOn
<1>1. CASE UNCHANGED vars
  BY <1>1 DEF vars, BlockedOn, OnLock
<1>2. CASE Next
  <2>1. PICK p \in Proc : Done(p)
    BY <1>2, StepDone
  <2>2. PICK woken, freed : Effect(p, woken, freed)
    BY <2>1 DEF Done
  <2>3. locks \in Seq(LockType) /\ locks' \in Seq(LockType)
    BY DEF IInv, ListInv
  <2>4. CASE q = p
    <3>1. PICK r \in Requests[q], b \in 1 .. Len(locks) :
             /\ InTheWay(locks[b], Lock(q, r)) /\ req'[q] = r
             /\ \E i \in 1 .. Len(locks') : OnLock(q, i)' /\ Serves(locks'[i], locks[b])
      BY <2>1, <2>4 DEF Done, SleepsFor
    <3>2. PICK i \in 1 .. Len(locks') : OnLock(q, i)' /\ Serves(locks'[i], locks[b])
      BY <3>1
    <3>3. locks[b] \in LockType /\ locks'[i] \in LockType /\ Lock(q, r) \in LockType
      BY <2>3, LockFacts
    <3>4. InTheWay(locks'[i], Lock(q, r))
      BY <3>1, <3>2, <3>3, ServesBlocks
    <3> QED BY <3>1, <3>2, <3>4
  <2>5. CASE q # p
    <3>1. /\ at'[q] = IF q \in woken /\ at[q] = "asleep" THEN "ready" ELSE at[q]
          /\ req'[q] = req[q]
          /\ \A i \in 1 .. Len(locks') : OnLock(q, i)' =>
               \E j \in 1 .. Len(locks) :
                  /\ OnLock(q, j) /\ locks'[i].id = locks[j].id
                  /\ MallocSleeps \/ Serves(locks'[i], locks[j])
      BY <2>2, <2>5 DEF Effect
    <3>2. at[q] = "asleep" /\ Listed(q)'
      BY <3>1 DEF IInv, Fine
    <3>3. PICK i \in 1 .. Len(locks') : OnLock(q, i)'
      BY <3>2 DEF Listed, On, OnLock
    <3>4. PICK j \in 1 .. Len(locks) : OnLock(q, j) /\ Serves(locks'[i], locks[j])
      BY <3>1, <3>3
    <3>5. PICK k \in 1 .. Len(locks) :
             OnLock(q, k) /\ InTheWay(locks[k], Lock(q, req[q]))
      BY <3>2 DEF BlockedOn
    <3>6. j = k
      BY <3>4, <3>5, OneLock DEF IInv
    <3>7. req[q] \in Requests[q]
      BY <3>2 DEF IInv, Fine
    <3>8. locks[j] \in LockType /\ locks'[i] \in LockType /\ Lock(q, req[q]) \in LockType
      BY <2>3, <3>7, LockFacts
    <3>9. InTheWay(locks'[i], Lock(q, req[q]))
      BY <3>4, <3>5, <3>6, <3>8, ServesBlocks
    <3> QED BY <3>1, <3>3, <3>9
  <2> QED BY <2>4, <2>5
<1> QED BY <1>1, <1>2

\* Unless lf_split sleeps for memory, a request sleeps only on the list of a lock that
\* is in its way still: whatever no longer excludes it has woken it.
THEOREM WakeupsKept ==
  ASSUME MallocSleeps = FALSE
  PROVE  Spec => []NoMissedWakeup
<1> DEFINE WInv == \A q \in Proc : BlockedOn(q)
<1>1. Init => WInv
  BY DEF Init, BlockedOn
<1>2. IInv /\ IInv' /\ WInv /\ [Next]_vars => WInv'
  BY BlockedOnStep
<1>3. IInv /\ WInv => NoMissedWakeup
  <2> SUFFICES ASSUME IInv, WInv, NEW p \in Proc, at[p] = "asleep"
               PROVE  LET new == Lock(p, req[p]) IN
                      \E i \in DOMAIN locks :
                         /\ p \in Range(locks[i].blocks)
                         /\ locks[i].id # new.id /\ Overlap(locks[i], new)
                         /\ "WR" \in {locks[i].type, new.type}
    BY DEF NoMissedWakeup
  <2>1. PICK i \in 1 .. Len(locks) : OnLock(p, i) /\ InTheWay(locks[i], Lock(p, req[p]))
    BY DEF BlockedOn
  <2>2. i \in DOMAIN locks
    BY DEF IInv, ListInv
  <2> QED BY <2>1, <2>2 DEF OnLock, InTheWay
<1> HIDE DEF WInv
<1> QED BY <1>1, <1>2, <1>3, Invariant, PTL DEF Spec

--------------------------------------------------------------------------------
\* No cycle of sleepers

\* The process that a sleeping request waits for
Waits(q) == locks[BlockOf(q)].id

\* The lock whose list q is on
LEMMA BlockOfFacts ==
  ASSUME IInv, NEW q \in Proc, Listed(q)
  PROVE  /\ BlockOf(q) \in 1 .. Len(locks) /\ OnLock(q, BlockOf(q))
         /\ \A i \in 1 .. Len(locks) : OnLock(q, i) => BlockOf(q) = i
<1>1. DOMAIN locks = 1 .. Len(locks) /\ ListInv
  BY DEF IInv, ListInv
<1>2. \E i \in DOMAIN locks : q \in Range(locks[i].blocks)
  BY <1>1 DEF Listed, On
<1>3. BlockOf(q) \in DOMAIN locks /\ q \in Range(locks[BlockOf(q)].blocks)
  BY <1>2 DEF BlockOf
<1>4. BlockOf(q) \in 1 .. Len(locks) /\ OnLock(q, BlockOf(q))
  BY <1>1, <1>3 DEF OnLock
<1>5. \A i \in 1 .. Len(locks) : OnLock(q, i) => BlockOf(q) = i
  BY <1>1, <1>4, OneLock
<1> QED BY <1>4, <1>5

\* A lock that belongs to a process and not to an open file is a POSIX lock.
LEMMA OwnerFacts ==
  ASSUME IInv, NEW i \in 1 .. Len(locks)
  PROVE  locks[i].posix <=> locks[i].id \in Proc
<1>1. locks[i] \in LockType /\ Named(locks[i])
  BY DEF IInv, ListInv, InOrder
<1>2. PICK p \in Proc : locks[i].id = Id(p, locks[i])
  BY <1>1 DEF Named
<1>3. locks[i].posix \in BOOLEAN
  BY <1>1 DEF LockType
<1> QED BY <1>2, <1>3, ProcAssumption DEF Id

\* Who is looked at after q
LEMMA BlockerFacts ==
  ASSUME IInv, NEW q \in Proc
  PROVE  /\ Blocker(q) \in Proc \cup {Stop}
         /\ at[q] = "asleep" /\ Waits(q) \in Proc => Blocker(q) = Waits(q)
<1>1. q # Stop
  BY ProcAssumption
<1>2. CASE at[q] # "asleep"
  BY <1>2 DEF Blocker
<1>3. CASE at[q] = "asleep"
  <2>1. Listed(q)
    BY <1>3 DEF IInv, Fine
  <2>2. locks[BlockOf(q)].posix <=> Waits(q) \in Proc
    BY <2>1, BlockOfFacts, OwnerFacts DEF Waits
  <2>3. Blocker(q) = IF locks[BlockOf(q)].posix THEN Waits(q) ELSE Stop
    BY <1>1, <1>3 DEF Blocker, Waits
  <2> QED BY <2>2, <2>3
<1> QED BY <1>2, <1>3

\* The chain of processes that the detection of deadlocks follows
LEMMA ChainFacts ==
  ASSUME IInv, NEW q \in Proc
  PROVE  /\ Chain(q)[0] = q
         /\ \A i \in 1 .. maxlockdepth : Chain(q)[i] = Blocker(Chain(q)[i-1])
<1> DEFINE n == maxlockdepth
           S == Proc \cup {Stop}
           b == Chain(q)
           Rec(a) == a = [i \in 0 .. n |-> IF i = 0 THEN q ELSE Blocker(a[i-1])]
           step == [x \in (1 .. n) \X S |-> Blocker(x[2])]
<1>1. n \in Nat /\ q \in S
  BY DepthAssumption
<1>2. \A u \in S : Blocker(u) \in S
  <2>1. Blocker(Stop) = Stop
    BY DEF Blocker
  <2> QED BY <2>1, BlockerFacts
<1>3. b = CHOOSE a : Rec(a)
  BY Zenon DEF Chain
<1> HIDE DEF n, b, S
<1>4. step \in [(1 .. n) \X S -> S]
  BY <1>2
<1>5. \A k \in 1 .. n : \A u \in S : step[<<k, u>>] = Blocker(u)
  OBVIOUS
<1> HIDE DEF step
<1>6. PICK a \in [0 .. n -> S] : a[0] = q /\ \A k \in 1 .. n : a[k] = step[<<k, a[k-1]>>]
  <2>1. n \in Nat /\ q \in S
    BY <1>1
  <2>2. \E a : a \in [0 .. n -> S] /\ Iterates(a, n, q, step)
    BY ONLY <2>1, <1>4, Iteration, Zenon
  <2> QED BY <2>2 DEF Iterates
<1>7. a = [i \in 0 .. n |-> IF i = 0 THEN q ELSE Blocker(a[i-1])]
  <2>1. \A i \in 1 .. n : a[i-1] \in S
    BY <1>1
  <2>2. ASSUME NEW i \in 0 .. n PROVE a[i] = IF i = 0 THEN q ELSE Blocker(a[i-1])
    <3>1. CASE i = 0
      BY <1>6, <3>1
    <3>2. CASE i # 0
      <4>1. i \in 1 .. n
        BY <1>1, <3>2
      <4> QED BY <1>5, <1>6, <2>1, <3>2, <4>1
    <3> QED BY <3>1, <3>2
  <2> QED BY <2>2
<1>8. Rec(b)
  <2>1. Rec(a)
    BY <1>7
  <2> HIDE DEF Rec
  <2> QED BY <1>3, <2>1
<1> QED BY <1>1, <1>8 DEF b, n

\* The same in the next state
LEMMA BlockOfFactsNext ==
  ASSUME NEW q \in Proc
  PROVE  (IInv /\ Listed(q) => \A i \in 1 .. Len(locks) : OnLock(q, i) => BlockOf(q) = i)'
<1>1. IInv /\ Listed(q) => \A i \in 1 .. Len(locks) : OnLock(q, i) => BlockOf(q) = i
  BY BlockOfFacts
<1> QED BY <1>1, PTL

\* A walk through a finite set that is long enough comes back to where it was.
LEMMA WalkReturns ==
  ASSUME NEW S, IsFiniteSet(S), NEW n \in Nat, Cardinality(S) <= n, NEW c \in [0 .. n -> S]
  PROVE  \E a, b \in 0 .. n : a < b /\ c[a] = c[b]
<1>1. IsFiniteSet(0 .. n) /\ Cardinality(0 .. n) = n+1
  BY FS_Interval
<1>2. Cardinality(S) \in Nat
  BY FS_CardinalityType
<1>3. \E a, b \in 0 .. n : a # b /\ c[a] = c[b]
  <2>1. Cardinality(S) < Cardinality(0 .. n)
    BY <1>1, <1>2
  <2> QED BY <1>1, <2>1, FS_PigeonHole
<1> QED BY <1>3

\* Processes that sleep for one another: S is not empty, and each waits for one in S.
Closed(S) == S # {} /\ \A q \in S : at[q] = "asleep" /\ Waits(q) \in S

\* A set of sleepers of which each waits for another of them, or for p, from which
\* the chain does not come to p, has a part in which they wait for one another.
LEMMA ChainCloses ==
  ASSUME IInv, NEW p \in Proc, NEW S, S \subseteq Proc \ {p},
         \A q \in S : at[q] = "asleep" /\ Waits(q) \in S \cup {p},
         NEW o \in S, ~Deadlock(p, o), Cardinality(Proc) <= maxlockdepth + 1
  PROVE  \E R \in SUBSET Proc : Closed(R)
<1> DEFINE n == maxlockdepth
           c == Chain(o)
           T == {k \in 0 .. n : \A j \in 0 .. k : c[j] \in S}
<1>1. n \in Nat
  BY DepthAssumption
<1>2. c[0] = o /\ \A i \in 1 .. n : c[i] = Blocker(c[i-1])
  BY ChainFacts
<1>3. ~(\E m \in 1 .. n : (\A i \in 0 .. m-1 : c[i] \notin {p, Stop}) /\ c[m] = p)
  BY DEF Deadlock, Reaches
<1> HIDE DEF c, n
<1>4. \A q \in S : Blocker(q) = Waits(q)
  BY BlockerFacts
<1>5. 0 .. n \subseteq T
  <2>1. 0 \in T
    BY <1>1, <1>2
  <2>2. ASSUME NEW k \in 1 .. n, k-1 \in T PROVE k \in T
    <3>1. \A j \in 0 .. k-1 : c[j] \in S
      BY <2>2
    <3>2. k-1 \in 0 .. k-1 /\ c[k-1] \in S
      BY <1>1, <3>1
    <3>3. c[k] = Waits(c[k-1]) /\ c[k] \in S \cup {p}
      BY <1>2, <1>4, <3>2
    <3>4. \A i \in 0 .. k-1 : c[i] \notin {p, Stop}
      BY <3>1, ProcAssumption
    <3>5. c[k] # p
      BY <1>3, <3>4
    <3>6. \A j \in 0 .. k : j \in 0 .. k-1 \/ j = k
      BY <1>1
    <3> QED BY <1>1, <3>1, <3>3, <3>5, <3>6
  <2> HIDE DEF T
  <2> QED BY <1>1, <2>1, <2>2, UpTo
<1>6. \A k \in 0 .. n : c[k] \in S
  BY <1>1, <1>5
<1>7. IsFiniteSet(S) /\ Cardinality(S) <= n
  <2>1. IsFiniteSet(Proc \ {p}) /\ Cardinality(Proc \ {p}) = Cardinality(Proc) - 1
    BY ProcAssumption, FS_RemoveElement
  <2>2. IsFiniteSet(S) /\ Cardinality(S) <= Cardinality(Proc \ {p})
    BY <2>1, FS_Subset
  <2>3. Cardinality(Proc) \in Nat /\ Cardinality(S) \in Nat
    BY <2>2, ProcAssumption, FS_CardinalityType
  <2> QED BY <1>1, <2>1, <2>2, <2>3 DEF n
<1> DEFINE w == [k \in 0 .. n |-> c[k]]
<1>8. w \in [0 .. n -> S] /\ \A k \in 0 .. n : w[k] = c[k]
  BY <1>6
<1> HIDE DEF w
<1>9. PICK a \in 0 .. n, b \in 0 .. n : a < b /\ c[a] = c[b]
  <2>1. PICK a \in 0 .. n, b \in 0 .. n : a < b /\ w[a] = w[b]
    BY <1>1, <1>7, <1>8, WalkReturns
  <2> QED BY <1>8, <2>1
<1> DEFINE R == {c[k] : k \in a .. b-1}
<1>10. a \in a .. b-1 /\ \A k \in a .. b-1 : k \in 0 .. n /\ k+1 \in 1 .. n
  BY <1>1, <1>9
<1>11. R \in SUBSET Proc /\ R # {}
  BY <1>6, <1>10
<1>12. ASSUME NEW q \in R PROVE at[q] = "asleep" /\ Waits(q) \in R
  <2>1. PICK k \in a .. b-1 : q = c[k]
    OBVIOUS
  <2>2. k \in 0 .. n /\ k+1 \in 1 .. n /\ (k+1)-1 = k
    BY <1>10
  <2>3. q \in S /\ c[k+1] = Waits(q)
    BY <1>2, <1>4, <1>6, <2>1, <2>2
  <2>4. c[k+1] \in R
    <3>1. k+1 \in a .. b-1 \/ k+1 = b
      BY <1>1, <1>9
    <3> QED BY <1>9, <1>10, <3>1
  <2> QED BY <2>3, <2>4
<1> HIDE DEF R
<1> QED BY <1>11, <1>12 DEF Closed

\* A request that is not tried anew waits for the same owner after a step.
LEMMA WaitsSame ==
  ASSUME IInv, IInv', NEW p \in Proc, Done(p), NEW q \in Proc \ {p}, at'[q] = "asleep"
  PROVE  at[q] = "asleep" /\ Waits(q)' = Waits(q)
<1>1. PICK woken, freed : Effect(p, woken, freed)
  BY DEF Done
<1>2. /\ at'[q] = IF q \in woken /\ at[q] = "asleep" THEN "ready" ELSE at[q]
      /\ \A i \in 1 .. Len(locks') : OnLock(q, i)' =>
           \E j \in 1 .. Len(locks) : OnLock(q, j) /\ locks'[i].id = locks[j].id
  BY <1>1 DEF Effect
<1>3. at[q] = "asleep" /\ Listed(q) /\ Listed(q)'
  BY <1>2 DEF IInv, Fine
<1>4. PICK i \in 1 .. Len(locks') : OnLock(q, i)'
  BY <1>3 DEF Listed, On, OnLock
<1>5. PICK j \in 1 .. Len(locks) : OnLock(q, j) /\ locks'[i].id = locks[j].id
  BY <1>2, <1>4
<1>6. BlockOf(q)' = i
  BY <1>3, <1>4, BlockOfFactsNext
<1>7. BlockOf(q) = j
  BY <1>3, <1>5, BlockOfFacts
<1> QED BY <1>3, <1>5, <1>6, <1>7 DEF Waits

\* The owner that p waits for when it has gone to sleep is another process, and from it
\* the chain of sleepers did not lead to p.
LEMMA WaitsNew ==
  ASSUME IInv, IInv', NEW p \in Proc, Done(p), \A r \in Requests[p] : r.posix,
         at'[p] = "asleep", Waits(p)' \in Proc
  PROVE  Waits(p)' # p /\ ~Deadlock(p, Waits(p)')
<1>1. PICK r \in Requests[p], b \in 1 .. Len(locks) :
         /\ InTheWay(locks[b], Lock(p, r))
         /\ r.posix /\ locks[b].posix =>
               ~UsesFreed(p, locks[b].id) /\ ~Deadlock(p, locks[b].id)
         /\ \E i \in 1 .. Len(locks') : OnLock(p, i)' /\ Serves(locks'[i], locks[b])
  BY DEF Done, SleepsFor
<1>2. PICK i \in 1 .. Len(locks') : OnLock(p, i)' /\ Serves(locks'[i], locks[b])
  BY <1>1
<1>3. Listed(p)'
  BY DEF IInv, Fine
<1>4. Waits(p)' = locks[b].id
  BY <1>2, <1>3, BlockOfFactsNext DEF Waits, Serves
<1>5. locks[b].posix
  BY <1>4, OwnerFacts
<1>6. ~Deadlock(p, locks[b].id)
  BY <1>1, <1>5
<1>7. locks[b].id # p
  BY <1>1 DEF InTheWay, Lock, Id
<1> QED BY <1>4, <1>6, <1>7

\* No step closes a cycle: a new sleep was checked, and the others wait for whom they did.
LEMMA NoCycleStep ==
  ASSUME \A p \in Proc : \A r \in Requests[p] : r.posix,
         Cardinality(Proc) <= maxlockdepth + 1,
         IInv, IInv', \A S \in SUBSET Proc : ~Closed(S), [Next]_vars
  PROVE  \A S \in SUBSET Proc : ~Closed(S)'
<1> SUFFICES ASSUME NEW S \in SUBSET Proc, Closed(S)' PROVE FALSE
  OBVIOUS
<1>1. S # {} /\ \A q \in S : at'[q] = "asleep" /\ Waits(q)' \in S
  BY DEF Closed
<1>2. CASE UNCHANGED vars
  <2>1. at' = at /\ locks' = locks
    BY <1>2 DEF vars
  <2>2. \A q \in S : Waits(q)' = Waits(q)
    BY <2>1 DEF Waits, BlockOf
  <2>3. Closed(S)
    BY <1>1, <2>1, <2>2 DEF Closed
  <2> QED BY <2>3
<1>3. CASE Next
  <2>1. PICK p \in Proc : Done(p)
    BY <1>3, StepDone
  <2>2. \A q \in S \ {p} : at[q] = "asleep" /\ Waits(q)' = Waits(q)
    BY <1>1, <2>1, WaitsSame
  <2>3. CASE p \notin S
    <3>1. Closed(S)
      BY <1>1, <2>2, <2>3 DEF Closed
    <3> QED BY <3>1
  <2>4. CASE p \in S
    <3> DEFINE o == Waits(p)'
               Rest == S \ {p}
    <3>1. o \in S /\ o # p /\ ~Deadlock(p, o)
      BY <1>1, <2>1, <2>4, WaitsNew
    <3>2. Rest \subseteq Proc \ {p} /\ o \in Rest
          /\ \A q \in Rest : at[q] = "asleep" /\ Waits(q) \in Rest \cup {p}
      BY <1>1, <2>2, <3>1
    <3> HIDE DEF Rest, o
    <3>3. \E R \in SUBSET Proc : Closed(R)
      BY <2>1, <3>1, <3>2, ChainCloses
    <3> QED BY <3>3
  <2> QED BY <2>3, <2>4
<1> QED BY <1>2, <1>3

\* When all requests are for POSIX locks and the search is as deep as there are
\* other processes, no processes ever sleep for one another's locks: the check made
\* before each sleep is enough, whatever becomes of the locks during the sleeps.
THEOREM DeadlockAvoided ==
  ASSUME \A p \in Proc : \A r \in Requests[p] : r.posix,
         Cardinality(Proc) <= maxlockdepth + 1
  PROVE  Spec => []NoDeadlock
<1> DEFINE DInv == \A S \in SUBSET Proc : ~Closed(S)
<1>1. Init => DInv
  BY DEF Init, Closed
<1>2. IInv /\ IInv' /\ DInv /\ [Next]_vars => DInv'
  BY NoCycleStep
<1>3. DInv => NoDeadlock
  BY DEF NoDeadlock, Closed, Waits
<1> HIDE DEF DInv
<1> QED BY <1>1, <1>2, <1>3, Invariant, PTL DEF Spec

--------------------------------------------------------------------------------
\* The bytes

\* The lock x is on the byte b.
At(x, b) == x.start <= b /\ (x.end = EOF \/ b <= x.end)

\* x is a lock of q of type t on b, and there is such a lock among the first n of s.
Of(x, q, b, t) == x.id = q /\ At(x, b) /\ x.type = t
Has(s, n, q, b, t) == \E i \in 1 .. n : Of(s[i], q, b, t)

\* A list with one lock more
LEMMA HasAppend ==
  ASSUME NEW s \in Seq(LockType), NEW y \in LockType
  PROVE  \A q, b, t : Has(Append(s, y), Len(Append(s, y)), q, b, t)
                         <=> Has(s, Len(s), q, b, t) \/ Of(y, q, b, t)
<1> DEFINE u == Append(s, y)
           n == Len(s)
<1>1. /\ n \in Nat /\ Len(u) = n + 1 /\ u[n+1] = y
      /\ \A i \in 1 .. n : u[i] = s[i]
  OBVIOUS
<1> HIDE DEF u, n
<1>2. /\ \A i \in 1 .. n+1 : i = n+1 \/ i \in 1 .. n
      /\ n+1 \in 1 .. n+1 /\ \A i \in 1 .. n : i \in 1 .. n+1
  BY <1>1
<1>3. \A q, b, t : Has(u, n+1, q, b, t) <=> Has(s, n, q, b, t) \/ Of(y, q, b, t)
  BY <1>1, <1>2 DEF Has
<1> QED BY <1>1, <1>3 DEF u, n

\* One lock more of a list
LEMMA HasMore ==
  ASSUME NEW s, NEW n \in Nat, NEW k \in 1 .. n
  PROVE  \A q, b, t : Has(s, k, q, b, t) <=> Has(s, k-1, q, b, t) \/ Of(s[k], q, b, t)
<1>1. /\ \A i \in 1 .. k : i = k \/ i \in 1 .. k-1
      /\ k \in 1 .. k /\ \A i \in 1 .. k-1 : i \in 1 .. k
  OBVIOUS
<1> QED BY <1>1 DEF Has

\* What is left of a lock on the left of a range is on the bytes before that.
LEMMA HasLeft ==
  ASSUME NEW s \in Seq(LockType), NEW x \in LockType, NEW new \in AnyLock,
         Overlap(x, new)
  PROVE  \A q, t : \A b \in Nat :
            Has(s \o LeftOf(x, new), Len(s \o LeftOf(x, new)), q, b, t)
               <=> Has(s, Len(s), q, b, t) \/ (Of(x, q, b, t) /\ b < new.start)
<1> DEFINE y == Piece(x, x.start, new.start - 1)
<1>1. /\ ~(x.start < new.start) => LeftOf(x, new) = <<>>
      /\ x.start < new.start =>
           /\ LeftOf(x, new) = <<y>> /\ y \in LockType
           /\ y.id = x.id /\ y.type = x.type
           /\ y.start = x.start /\ y.end = new.start - 1
  BY LeftFacts
<1> HIDE DEF y
<1>2. x.start \in Nat /\ new.start \in Nat /\ x.end \in Nat \cup {EOF}
  BY DEF LockType, AnyLock
<1>3. ASSUME NEW b \in Nat, b < new.start PROVE x.end = EOF \/ b <= x.end
  BY <1>2, <1>3 DEF Overlap, IsBefore
<1>4. CASE x.start < new.start
  <2>1. \A b \in Nat : At(y, b) <=> At(x, b) /\ b < new.start
    <3> SUFFICES ASSUME NEW b \in Nat PROVE At(y, b) <=> At(x, b) /\ b < new.start
      OBVIOUS
    <3>1. y.end # EOF /\ (b <= y.end <=> b < new.start) /\ y.start = x.start
      BY <1>1, <1>2, <1>4, EOFAssumption
    <3> QED BY <1>3, <3>1 DEF At
  <2>2. s \o LeftOf(x, new) = Append(s, y) /\ y \in LockType
    BY <1>1, <1>4, Single
  <2>3. \A q, b, t : Has(Append(s, y), Len(Append(s, y)), q, b, t)
                        <=> Has(s, Len(s), q, b, t) \/ Of(y, q, b, t)
    BY <2>2, HasAppend
  <2>4. \A q, t : \A b \in Nat : Of(y, q, b, t) <=> Of(x, q, b, t) /\ b < new.start
    BY <1>1, <1>4, <2>1 DEF Of
  <2> QED BY <2>2, <2>3, <2>4
<1>5. CASE ~(x.start < new.start)
  <2>1. s \o LeftOf(x, new) = s
    BY <1>1, <1>5, Single
  <2>2. \A q, t : \A b \in Nat : ~(Of(x, q, b, t) /\ b < new.start)
    BY <1>2, <1>5 DEF Of, At
  <2> QED BY <2>1, <2>2
<1> QED BY <1>4, <1>5

\* And on the right, on those behind it
LEMMA HasRight ==
  ASSUME NEW s \in Seq(LockType), NEW x \in LockType, NEW new \in AnyLock,
         Overlap(x, new)
  PROVE  \A q, t : \A b \in Nat :
            Has(s \o RightOf(x, new), Len(s \o RightOf(x, new)), q, b, t)
               <=> \/ Has(s, Len(s), q, b, t)
                   \/ Of(x, q, b, t) /\ new.end # EOF /\ b > new.end
<1> DEFINE more == new.end # EOF /\ (x.end = EOF \/ x.end > new.end)
           z == Piece(x, new.end + 1, x.end)
<1>1. /\ ~more => RightOf(x, new) = <<>>
      /\ more => /\ RightOf(x, new) = <<z>> /\ z \in LockType
                 /\ z.id = x.id /\ z.type = x.type
                 /\ z.start = new.end + 1 /\ z.end = x.end
  BY RightFacts
<1> HIDE DEF z
<1>2. /\ x.start \in Nat /\ x.end \in Nat \cup {EOF} /\ new.end \in Nat \cup {EOF}
      /\ new.end = EOF \/ x.start <= new.end
  BY DEF LockType, AnyLock, Overlap, IsAfter
<1>3. CASE more
  <2>1. \A b \in Nat : At(z, b) <=> At(x, b) /\ new.end # EOF /\ b > new.end
    <3> SUFFICES ASSUME NEW b \in Nat
                 PROVE  At(z, b) <=> At(x, b) /\ new.end # EOF /\ b > new.end
      OBVIOUS
    <3>1. (z.start <= b <=> b > new.end) /\ z.end = x.end /\ new.end # EOF
      BY <1>1, <1>2, <1>3
    <3>2. b > new.end => x.start <= b
      BY <1>2, <1>3
    <3> QED BY <3>1, <3>2 DEF At
  <2>2. s \o RightOf(x, new) = Append(s, z) /\ z \in LockType
    BY <1>1, <1>3, Single
  <2>3. \A q, b, t : Has(Append(s, z), Len(Append(s, z)), q, b, t)
                        <=> Has(s, Len(s), q, b, t) \/ Of(z, q, b, t)
    BY <2>2, HasAppend
  <2>4. \A q, t : \A b \in Nat :
           Of(z, q, b, t) <=> Of(x, q, b, t) /\ new.end # EOF /\ b > new.end
    BY <1>1, <1>3, <2>1 DEF Of
  <2> QED BY <2>2, <2>3, <2>4
<1>4. CASE ~more
  <2>1. s \o RightOf(x, new) = s
    BY <1>1, <1>4, Single
  <2>2. \A q, t : \A b \in Nat : ~(Of(x, q, b, t) /\ new.end # EOF /\ b > new.end)
    BY <1>2, <1>4 DEF Of, At
  <2> QED BY <2>1, <2>2
<1> QED BY <1>3, <1>4

\* What a pass that sets or clears new has done to the bytes of the first k locks: all
\* that others have and all that is not in the range is as it was.
Elsewhere(out, new, list, k) ==
    \A q, t : \A b \in Nat : ~(q = new.id /\ At(new, b)) =>
        (Has(out, Len(out), q, b, t) <=> Has(list, k, q, b, t))

\* The list s is on what y is on.
Laid(s, y) == \A b \in Nat : At(y, b) => Has(s, Len(s), y.id, b, y.type)

\* A lock that is as the next of the list elsewhere
LEMMA ElsewhereKeep ==
  ASSUME NEW list, NEW n \in Nat, NEW k \in 1 .. n, NEW new,
         NEW s \in Seq(LockType), Elsewhere(s, new, list, k-1), NEW y \in LockType,
         \A q, t : \A b \in Nat : ~(q = new.id /\ At(new, b)) =>
            (Of(y, q, b, t) <=> Of(list[k], q, b, t))
  PROVE  Elsewhere(Append(s, y), new, list, k)
<1>1. \A q, b, t : Has(Append(s, y), Len(Append(s, y)), q, b, t)
                      <=> Has(s, Len(s), q, b, t) \/ Of(y, q, b, t)
  BY HasAppend
<1>2. \A q, b, t : Has(list, k, q, b, t) <=> Has(list, k-1, q, b, t) \/ Of(list[k], q, b, t)
  BY HasMore
<1> QED BY <1>1, <1>2 DEF Elsewhere

\* The next of the list is covered, and goes.
LEMMA ElsewhereDrop ==
  ASSUME NEW list, NEW n \in Nat, NEW k \in 1 .. n, NEW new,
         NEW s, Elsewhere(s, new, list, k-1), list[k].id = new.id,
         \A b \in Nat : At(list[k], b) => At(new, b)
  PROVE  Elsewhere(s, new, list, k)
<1>1. \A q, b, t : Has(list, k, q, b, t) <=> Has(list, k-1, q, b, t) \/ Of(list[k], q, b, t)
  BY HasMore
<1> QED BY <1>1 DEF Elsewhere, Of

\* The lock itself is on the range alone.
LEMMA ElsewhereLink ==
  ASSUME NEW list, NEW k, NEW new \in LockType, NEW a \in PassType,
         Elsewhere(a.out, new, list, k), a.place # 0 => Laid(a.out, new)
  PROVE  /\ Elsewhere(Link(a, new).out, new, list, k)
         /\ Laid(Link(a, new).out, new)
         /\ Link(a, new) \in PassType /\ Link(a, new).place # 0
<1>1. a.out \in Seq(LockType) /\ a.place \in Nat
  BY DEF PassType
<1>2. /\ Link(a, new) \in PassType
      /\ a.place # 0 => Link(a, new) = a
      /\ a.place = 0 => /\ Link(a, new).out = Append(a.out, new)
                        /\ Link(a, new).place = Len(a.out) + 1
  BY LinkFacts
<1>3. \A q, b, t : Has(Append(a.out, new), Len(Append(a.out, new)), q, b, t)
                      <=> Has(a.out, Len(a.out), q, b, t) \/ Of(new, q, b, t)
  BY <1>1, HasAppend
<1>4. Elsewhere(Append(a.out, new), new, list, k) /\ Laid(Append(a.out, new), new)
  BY <1>3 DEF Elsewhere, Laid, Of
<1>5. Len(a.out) + 1 # 0
  BY <1>1
<1> QED BY <1>2, <1>4, <1>5

\* What is laid stays so when locks are added.
LEMMA LaidAppend ==
  ASSUME NEW s \in Seq(LockType), NEW y \in LockType, NEW new, Laid(s, new)
  PROVE  Laid(Append(s, y), new)
<1>1. \A q, b, t : Has(Append(s, y), Len(Append(s, y)), q, b, t)
                      <=> Has(s, Len(s), q, b, t) \/ Of(y, q, b, t)
  BY HasAppend
<1> QED BY <1>1 DEF Laid

\* What the pass of setting new keeps true of the bytes
SetBytes(a, new, list, k) ==
    /\ Elsewhere(a.out, new, list, k)
    /\ a.place # 0 => Laid(a.out, new)

\* Each case of setting a lock
LEMMA SetCaseBytes ==
  ASSUME NEW list \in Seq(LockType), InOrder(list), NEW k \in 1 .. Len(list),
         NEW new \in LockType, Lawful(new), NEW a \in PassType,
         SetBytes(a, new, list, k-1), list[k].id = new.id
  PROVE  SetBytes(SetCase(a, list[k], new), new, list, k)
<1> DEFINE x == list[k]
           b == SetCase(a, x, new)
           n == Len(list)
           m == Len(a.out) + 1
           l == Link(a, new)
<1>1. n \in Nat /\ x \in LockType /\ Lawful(x) /\ new \in AnyLock /\ a.out \in Seq(LockType)
  <2>1. n \in Nat /\ x \in LockType /\ Lawful(x) /\ a.out \in Seq(LockType)
    BY DEF InOrder, PassType
  <2> QED BY <2>1 DEF LockType, AnyLock
<1>2. /\ Elsewhere(a.out, new, list, k-1)
      /\ a.place # 0 => Laid(a.out, new)
  BY DEF SetBytes
<1>3. Cases(a, x, new, b)
  BY <1>1, SetCaseIs
<1>4. /\ x.start \in Nat /\ new.start \in Nat
      /\ x.end \in Nat \cup {EOF} /\ new.end \in Nat \cup {EOF}
  BY <1>1 DEF LockType
<1>5. m \in Nat /\ m # 0
  BY <1>1
<1>6. /\ Elsewhere(l.out, new, list, k-1) /\ Laid(l.out, new)
      /\ l \in PassType /\ l.place # 0 /\ l.out \in Seq(LockType)
  <2>1. Elsewhere(l.out, new, list, k-1) /\ Laid(l.out, new) /\ l \in PassType /\ l.place # 0
    BY <1>2, ElsewhereLink
  <2> QED BY <2>1 DEF PassType
<1>7. k \in 1 .. n /\ x.id = new.id
  OBVIOUS
<1> HIDE DEF x, b, n, m, l
<1>8. CASE IsAfter(x, new)
  <2> DEFINE c == Keep(l, x)
  <2>1. c \in PassType /\ c.out = Append(l.out, x) /\ c.place = l.place
    BY <1>1, <1>6, KeepFacts
  <2> HIDE DEF c
  <2>2. b = [c EXCEPT !.done = TRUE]
    BY <1>3, <1>8 DEF Cases, c, l
  <2>3. b.out = c.out /\ b.place = c.place
    BY <2>1, <2>2 DEF PassType
  <2>4. Elsewhere(b.out, new, list, k)
    BY <1>1, <1>6, <1>7, <2>1, <2>3, ElsewhereKeep DEF x
  <2>5. Laid(b.out, new)
    BY <1>1, <1>6, <2>1, <2>3, LaidAppend
  <2> QED BY <2>4, <2>5 DEF SetBytes, b, x
<1>9. CASE IsBefore(x, new)
  <2>1. b = Keep(a, x)
    BY <1>3, <1>9 DEF Cases
  <2>2. b.out = Append(a.out, x) /\ b.place = a.place
    BY <1>1, <2>1, KeepFacts
  <2>3. Elsewhere(b.out, new, list, k)
    BY <1>1, <1>2, <1>7, <2>2, ElsewhereKeep DEF x
  <2>4. b.place # 0 => Laid(b.out, new)
    BY <1>1, <1>2, <2>2, LaidAppend
  <2> QED BY <2>3, <2>4 DEF SetBytes, b, x
<1>10. ASSUME Same(x, new), NEW c \in PassType, c.out = a.out,
              NEW y \in LockType, y.id = x.id, y.start = x.start, y.end = x.end,
              y.type = new.type, b = [Keep(c, y) EXCEPT !.done = TRUE, !.place = m]
       PROVE  SetBytes(b, new, list, k)
  <2> DEFINE d == Keep(c, y)
  <2>1. d \in PassType /\ d.out = Append(a.out, y)
    <3>1. c \in PassType /\ y \in LockType /\ c.out = a.out
      BY <1>10
    <3>2. LET e == Keep(c, y) IN e \in PassType /\ e.out = Append(c.out, y)
      BY ONLY <3>1, KeepFacts
    <3> QED BY <3>1, <3>2
  <2> HIDE DEF d
  <2>2. b.out = d.out
    BY <1>5, <1>10, <2>1 DEF PassType, d
  <2>3. \A bb : (At(y, bb) <=> At(new, bb)) /\ (At(x, bb) <=> At(new, bb))
    BY <1>10 DEF At, Same
  <2>4. Elsewhere(b.out, new, list, k)
    BY <1>1, <1>2, <1>7, <1>10, <2>1, <2>2, <2>3, ElsewhereKeep DEF Of, x
  <2>5. \A q, bb, t : Has(b.out, Len(b.out), q, bb, t)
                         <=> Has(a.out, Len(a.out), q, bb, t) \/ Of(y, q, bb, t)
    BY <1>1, <2>1, <2>2, HasAppend
  <2>6. Laid(b.out, new)
    BY <1>7, <1>10, <2>3, <2>5 DEF Laid, Of
  <2> QED BY <2>4, <2>6 DEF SetBytes
<1>11. CASE Same(x, new)
  <2>1. CASE Downgrade(x, new)
    <3> DEFINE y == [x EXCEPT !.type = "RD", !.blocks = <<>>]
               c == Wake(a, x)
    <3>1. /\ y \in LockType /\ y.id = x.id /\ y.start = x.start /\ y.end = x.end
          /\ y.type = new.type
      <4>1. <<>> \in Seq(Proc)
        OBVIOUS
      <4> QED BY <1>1, <2>1, <4>1 DEF LockType, Downgrade
    <3>2. c \in PassType /\ c.out = a.out
      BY <1>1, WakeFacts
    <3>3. b = [Keep(c, y) EXCEPT !.done = TRUE, !.place = m]
      BY <1>3, <1>11, <2>1 DEF Cases, m
    <3> HIDE DEF y, c
    <3>4. SetBytes(b, new, list, k)
      BY <1>10, <1>11, <3>1, <3>2, <3>3
    <3> QED BY <3>4 DEF b, x
  <2>2. CASE ~Downgrade(x, new)
    <3> DEFINE y == [x EXCEPT !.type = new.type]
    <3>1. /\ y \in LockType /\ y.id = x.id /\ y.start = x.start /\ y.end = x.end
          /\ y.type = new.type
      BY <1>1 DEF LockType
    <3>2. b = [Keep(a, y) EXCEPT !.done = TRUE, !.place = m]
      BY <1>3, <1>11, <2>2 DEF Cases, m
    <3> HIDE DEF y
    <3>3. SetBytes(b, new, list, k)
      BY <1>10, <1>11, <3>1, <3>2
    <3> QED BY <3>3 DEF b, x
  <2> QED BY <2>1, <2>2
<1>12. CASE Overlap(x, new) /\ Covers(new, x) /\ ~Same(x, new)
  <2>1. \A bb \in Nat : At(x, bb) => At(new, bb)
    <3>1. /\ ~(x.start < new.start)
          /\ ~(new.end # EOF /\ (x.end = EOF \/ x.end > new.end))
      BY <1>1, <1>12, CoversFacts
    <3> QED BY <1>4, <3>1 DEF At
  <2>2. Elsewhere(l.out, new, list, k)
    BY <1>1, <1>6, <1>7, <2>1, ElsewhereDrop DEF x
  <2>3. CASE Downgrade(x, new)
    <3>1. b = Wake(l, x)
      BY <1>3, <1>12, <2>3 DEF Cases, l
    <3>2. b.out = l.out
      BY <1>1, <1>6, <3>1, WakeFacts
    <3> QED BY <1>6, <2>2, <3>2 DEF SetBytes, b, x
  <2>4. CASE ~Downgrade(x, new)
    <3>1. b = Take(l, x)
      BY <1>3, <1>12, <2>4 DEF Cases, l
    <3>2. /\ Len(b.out) = Len(l.out)
          /\ \A i \in 1 .. Len(l.out) :
               b.out[i] = IF i = l.place
                          THEN [l.out[i] EXCEPT !.blocks = x.blocks \o @] ELSE l.out[i]
      BY <1>1, <1>6, <3>1, TakeFacts
    <3>3. \A i \in 1 .. Len(l.out) : \A q, bb, t :
             Of(b.out[i], q, bb, t) <=> Of(l.out[i], q, bb, t)
      <4> SUFFICES ASSUME NEW i \in 1 .. Len(l.out)
                   PROVE  /\ b.out[i].id = l.out[i].id /\ b.out[i].type = l.out[i].type
                          /\ b.out[i].start = l.out[i].start /\ b.out[i].end = l.out[i].end
        BY DEF Of, At
      <4>1. l.out[i] \in LockType
        BY <1>6
      <4> QED BY <3>2, <4>1 DEF LockType
    <3>4. \A q, bb, t : Has(b.out, Len(b.out), q, bb, t) <=> Has(l.out, Len(l.out), q, bb, t)
      BY <3>2, <3>3 DEF Has
    <3>5. Elsewhere(b.out, new, list, k) /\ Laid(b.out, new)
      BY <1>6, <2>2, <3>4 DEF Elsewhere, Laid
    <3> QED BY <3>5 DEF SetBytes, b, x
  <2> QED BY <2>3, <2>4
<1>13. CASE Overlap(x, new) /\ ~Covers(new, x) /\ Covers(x, new) /\ x.type = new.type
  <2> DEFINE c == Keep(a, x)
  <2>1. c \in PassType /\ c.out = Append(a.out, x)
    BY <1>1, KeepFacts
  <2> HIDE DEF c
  <2>2. b = [c EXCEPT !.done = TRUE, !.place = m]
    BY <1>3, <1>13 DEF Cases, c, m
  <2>3. b.out = c.out
    BY <1>5, <2>1, <2>2 DEF PassType
  <2>4. Elsewhere(b.out, new, list, k)
    BY <1>1, <1>2, <1>7, <2>1, <2>3, ElsewhereKeep DEF x
  <2>5. \A bb \in Nat : At(new, bb) => At(x, bb)
    <3>1. /\ ~(new.start < x.start)
          /\ ~(x.end # EOF /\ (new.end = EOF \/ new.end > x.end))
      <4>1. x \in AnyLock
        BY <1>1 DEF LockType, AnyLock
      <4> QED BY <1>1, <1>13, <4>1, CoversFacts
    <3> QED BY <1>4, <3>1 DEF At
  <2>6. \A q, bb, t : Has(b.out, Len(b.out), q, bb, t)
                         <=> Has(a.out, Len(a.out), q, bb, t) \/ Of(x, q, bb, t)
    BY <1>1, <2>1, <2>3, HasAppend
  <2>7. Laid(b.out, new)
    BY <1>7, <1>13, <2>5, <2>6 DEF Laid, Of
  <2> QED BY <2>4, <2>7 DEF SetBytes, b, x
<1>14. CASE Overlap(x, new) /\ ~Covers(new, x) /\ ~(Covers(x, new) /\ x.type = new.type)
  <2> DEFINE w == Wake(a, x)
             c == Add(w, LeftOf(x, new))
             d == Link(c, new)
             u == RightOf(x, new)
  <2>1. w \in PassType /\ w.out = a.out /\ w.place = a.place
    BY <1>1, WakeFacts
  <2>2. LeftOf(x, new) \in Seq(LockType) /\ u \in Seq(LockType)
    BY <1>1, PieceTypes
  <2> HIDE DEF w
  <2>3. c \in PassType /\ c.out = a.out \o LeftOf(x, new) /\ c.place = a.place
    <3> DEFINE s == LeftOf(x, new)
    <3>1. w \in PassType /\ s \in Seq(LockType)
      BY <2>1, <2>2
    <3> HIDE DEF s
    <3>2. LET e == Add(w, s)
          IN  e \in PassType /\ e.out = w.out \o s /\ e.place = w.place
      BY ONLY <3>1, AddFacts
    <3> QED BY <2>1, <3>2 DEF s
  <2>4. b = Add(d, u)
    BY <1>3, <1>14 DEF Cases, w
  <2> HIDE DEF c
  <2>5. /\ d \in PassType /\ d.place # 0
        /\ c.place # 0 => d = c
        /\ c.place = 0 => d.out = Append(c.out, new)
    BY <2>3, ElsewhereLink, LinkFacts, <1>5 DEF PassType
  <2> HIDE DEF d, u
  <2>6. c.out \in Seq(LockType) /\ d.out \in Seq(LockType)
    BY <2>3, <2>5 DEF PassType
  <2>7. b.out = d.out \o u /\ b.place = d.place
    BY <2>2, <2>4, <2>5, AddFacts
  <2>8. \A q, t : \A bb \in Nat : Has(c.out, Len(c.out), q, bb, t)
           <=> Has(a.out, Len(a.out), q, bb, t) \/ (Of(x, q, bb, t) /\ bb < new.start)
    <3>1. a.out \in Seq(LockType) /\ x \in LockType /\ new \in AnyLock /\ Overlap(x, new)
      BY <1>1, <1>14
    <3> DEFINE s == a.out
    <3> HIDE DEF s
    <3>2. s \in Seq(LockType) /\ x \in LockType /\ new \in AnyLock /\ Overlap(x, new)
      BY <3>1 DEF s
    <3>3. \A q, t : \A bb \in Nat :
             Has(s \o LeftOf(x, new), Len(s \o LeftOf(x, new)), q, bb, t)
                <=> Has(s, Len(s), q, bb, t) \/ (Of(x, q, bb, t) /\ bb < new.start)
      BY ONLY <3>2, HasLeft
    <3> QED BY ONLY <2>3, <3>3 DEF s
  <2>9. \A q, t : \A bb \in Nat : Has(b.out, Len(b.out), q, bb, t)
           <=> \/ Has(d.out, Len(d.out), q, bb, t)
               \/ Of(x, q, bb, t) /\ new.end # EOF /\ bb > new.end
    <3> DEFINE s == d.out
    <3> HIDE DEF s
    <3>2. s \in Seq(LockType) /\ x \in LockType /\ new \in AnyLock /\ Overlap(x, new)
      BY <1>1, <1>14, <2>6 DEF s
    <3>3. \A q, t : \A bb \in Nat :
             Has(s \o RightOf(x, new), Len(s \o RightOf(x, new)), q, bb, t)
                <=> \/ Has(s, Len(s), q, bb, t)
                    \/ Of(x, q, bb, t) /\ new.end # EOF /\ bb > new.end
      BY ONLY <3>2, HasRight
    <3> QED BY ONLY <2>7, <3>3 DEF s, u
  <2>10. \A q, bb, t : c.place = 0 =>
           (Has(d.out, Len(d.out), q, bb, t) <=> Has(c.out, Len(c.out), q, bb, t)
                                                   \/ Of(new, q, bb, t))
    BY <2>5, <2>6, HasAppend
  <2>11. \A q, bb, t : c.place # 0 =>
           (Has(d.out, Len(d.out), q, bb, t) <=> Has(c.out, Len(c.out), q, bb, t))
    BY <2>5
  <2>12. \A q, bb, t : Has(list, k, q, bb, t) <=> Has(list, k-1, q, bb, t) \/ Of(x, q, bb, t)
    BY <1>1, <1>7, HasMore DEF x
  <2>13. Elsewhere(b.out, new, list, k)
    <3> SUFFICES ASSUME NEW q, NEW t, NEW bb \in Nat, ~(q = new.id /\ At(new, bb))
                 PROVE  Has(b.out, Len(b.out), q, bb, t) <=> Has(list, k, q, bb, t)
      BY DEF Elsewhere
    <3>1. Has(a.out, Len(a.out), q, bb, t) <=> Has(list, k-1, q, bb, t)
      BY <1>2 DEF Elsewhere
    <3>2. ~Of(new, q, bb, t)
      BY DEF Of
    <3>3. Of(x, q, bb, t) => bb < new.start \/ (new.end # EOF /\ bb > new.end)
      BY <1>4, <1>7 DEF Of, At
    <3> QED BY <2>8, <2>9, <2>10, <2>11, <2>12, <3>1, <3>2, <3>3
  <2>14. Laid(b.out, new)
    <3> SUFFICES ASSUME NEW bb \in Nat, At(new, bb)
                 PROVE  Has(b.out, Len(b.out), new.id, bb, new.type)
      BY DEF Laid
    <3>1. CASE c.place = 0
      BY <2>9, <2>10, <3>1 DEF Of
    <3>2. CASE c.place # 0
      BY <1>2, <2>3, <2>8, <2>9, <2>11, <3>2 DEF Laid
    <3> QED BY <3>1, <3>2
  <2> QED BY <2>13, <2>14 DEF SetBytes, b, x
<1> QED BY <1>3, <1>8, <1>9, <1>11, <1>12, <1>13, <1>14 DEF Cases

\* A list of which nothing was seen has no locks.
LEMMA HasNone == \A s, q, b, t : ~Has(s, 0, q, b, t)
<1>1. \A i : i \notin 1 .. 0
  OBVIOUS
<1> QED BY <1>1 DEF Has

\* In order, an owner has at most one lock on a byte.
LEMMA HasOne ==
  ASSUME NEW s \in Seq(LockType), InOrder(s), NEW b \in Nat, NEW q, NEW t, NEW u,
         Has(s, Len(s), q, b, t), Has(s, Len(s), q, b, u)
  PROVE  t = u
<1>1. PICK i \in 1 .. Len(s) : Of(s[i], q, b, t)
  BY DEF Has
<1>2. PICK j \in 1 .. Len(s) : Of(s[j], q, b, u)
  BY DEF Has
<1>3. /\ s[i] \in LockType /\ s[j] \in LockType
      /\ i < j => IsBefore(s[i], s[j])
      /\ j < i => IsBefore(s[j], s[i])
  BY <1>1, <1>2 DEF InOrder, Of
<1>4. ~(i < j)
  BY <1>1, <1>2, <1>3 DEF Of, At, IsBefore, LockType
<1>5. ~(j < i)
  BY <1>1, <1>2, <1>3 DEF Of, At, IsBefore, LockType
<1>6. i = j
  BY <1>4, <1>5
<1> QED BY <1>1, <1>2, <1>6 DEF Of

\* u holds what s does, but for the owner of x, who has a lock of type ty, or none, on all
\* of x.
Written(u, s, x, ty) ==
    \A q : \A t \in {"RD", "WR"} : \A b \in Nat :
        Has(u, Len(u), q, b, t) <=> IF q = x.id /\ At(x, b) THEN t = ty
                                    ELSE Has(s, Len(s), q, b, t)

\* The whole pass of setting a lock sets it on its range and changes nothing else.
LEMMA SetPassWrites ==
  ASSUME locks \in Seq(LockType), InOrder(locks), Once(locks),
         NEW new \in LockType, Lawful(new), Named(new), new.blocks = <<>>
  PROVE  Written(SetPass(new).out, locks, new, new.type)
<1> DEFINE n == Len(locks)
           b == SetPasses(new)
           T == {k \in 0 .. n : SetBytes(b[k], new, locks, k)}
           l == Link(b[n], new)
<1>1. n \in Nat
  OBVIOUS
<1> HIDE DEF b
<1>2. /\ b \in [0 .. n -> PassType] /\ b[0] = Pass
      /\ \A k \in 1 .. n : b[k] = SetStep(b[k-1], locks[k], new)
  BY SetPassSteps DEF b
<1>3. 0 \in T
  <2>1. b[0].out = <<>> /\ b[0].place = 0
    BY <1>2 DEF Pass
  <2>2. Len(<<>>) = 0
    OBVIOUS
  <2>3. SetBytes(b[0], new, locks, 0)
    BY <2>1, <2>2, HasNone DEF SetBytes, Elsewhere
  <2> QED BY <1>1, <2>3
<1>4. ASSUME NEW k \in 1 .. n, k-1 \in T PROVE k \in T
  <2> DEFINE a == b[k-1]
             x == locks[k]
  <2>1. SetBytes(a, new, locks, k-1)
    BY <1>4
  <2>2. b[k] = SetStep(a, x, new)
    BY <1>2
  <2>3. a \in PassType /\ x \in LockType
    <3>1. k-1 \in 0 .. n
      BY <1>1
    <3> QED BY <1>2, <3>1
  <2> HIDE DEF a
  <2>4. CASE x.id # new.id
    <3>1. b[k] = Keep(a, x)
      BY <2>2, <2>4 DEF SetStep
    <3> HIDE DEF n
    <3>2. a.out \in Seq(LockType) /\ b[k].out = Append(a.out, x) /\ b[k].place = a.place
      BY <2>3, <3>1, KeepFacts DEF PassType
    <3>3. Elsewhere(b[k].out, new, locks, k)
      BY <1>1, <2>1, <2>3, <3>2, ElsewhereKeep DEF SetBytes
    <3>4. b[k].place # 0 => Laid(b[k].out, new)
      BY <2>1, <2>3, <3>2, LaidAppend DEF SetBytes
    <3> QED BY <3>3, <3>4 DEF SetBytes
  <2>5. CASE a.done /\ x.id = new.id
    <3>1. b[k] = Keep(a, x)
      BY <2>2, <2>5 DEF SetStep
    <3> HIDE DEF n
    <3>2. a.out \in Seq(LockType) /\ b[k].out = Append(a.out, x) /\ b[k].place = a.place
      BY <2>3, <3>1, KeepFacts DEF PassType
    <3>3. Elsewhere(b[k].out, new, locks, k)
      BY <1>1, <2>1, <2>3, <3>2, ElsewhereKeep DEF SetBytes
    <3>4. b[k].place # 0 => Laid(b[k].out, new)
      BY <2>1, <2>3, <3>2, LaidAppend DEF SetBytes
    <3> QED BY <3>3, <3>4 DEF SetBytes
  <2>6. CASE ~a.done /\ x.id = new.id
    <3>1. b[k] = SetCase(a, x, new)
      BY <2>2, <2>6 DEF SetStep
    <3> HIDE DEF n
    <3>2. SetBytes(b[k], new, locks, k)
      BY <2>1, <2>3, <2>6, <3>1, SetCaseBytes DEF n
    <3> QED BY <3>2
  <2> QED BY <2>4, <2>5, <2>6
<1>5. n \in T
  <2> HIDE DEF T, n
  <2>1. 0 .. n \subseteq T
    BY <1>1, <1>3, <1>4, UpTo
  <2> QED BY <1>1, <2>1
<1>6. SetBytes(b[n], new, locks, n) /\ b[n] \in PassType
  BY <1>1, <1>2, <1>5
<1> HIDE DEF T, n
<1>7. SetPass(new) = l
  BY DEF SetPass, b, n
<1>8. Elsewhere(l.out, new, locks, n) /\ Laid(l.out, new)
  BY <1>6, ElsewhereLink DEF SetBytes
<1>9. l.out \in Seq(LockType) /\ InOrder(l.out)
  <2>1. SetPass(new) \in PassType /\ InOrder(SetPass(new).out)
    BY SetPassKeeps
  <2> QED BY <1>7, <2>1 DEF PassType
<1> HIDE DEF l
<1>10. ASSUME NEW q, NEW t \in {"RD", "WR"}, NEW c \in Nat
       PROVE  Has(l.out, Len(l.out), q, c, t)
                 <=> IF q = new.id /\ At(new, c) THEN t = new.type ELSE Has(locks, n, q, c, t)
  <2>1. CASE q = new.id /\ At(new, c)
    <3>1. Has(l.out, Len(l.out), q, c, new.type)
      BY <1>8, <2>1 DEF Laid
    <3> QED BY <1>9, <2>1, <3>1, HasOne
  <2>2. CASE ~(q = new.id /\ At(new, c))
    BY <1>8, <2>2 DEF Elsewhere
  <2> QED BY <2>1, <2>2
<1> QED BY <1>7, <1>10 DEF Written, n

--------------------------------------------------------------------------------
\* The bytes of a range that is cleared

\* No lock of the owner of x is left on x.
Clean(s, x) == \A t : \A b \in Nat : At(x, b) => ~Has(s, Len(s), x.id, b, t)

\* What the pass of clearing gone keeps true of the bytes, and after the end of the search
\* the owner has no lock on them.
ClearBytes(a, gone, list, k) ==
    /\ Elsewhere(a.out, gone, list, k) /\ Clean(a.out, gone)
    /\ a.done => \A j \in k+1 .. Len(list) : list[j].id = gone.id => IsAfter(list[j], gone)

\* A lock that is not on the range, one more on the list
LEMMA CleanKeep ==
  ASSUME NEW list \in Seq(LockType), NEW k \in 1 .. Len(list), NEW gone,
         NEW s \in Seq(LockType), Elsewhere(s, gone, list, k-1), Clean(s, gone),
         NEW x \in LockType, x = list[k],
         \A b \in Nat : x.id = gone.id => ~At(x, b) \/ ~At(gone, b)
  PROVE  Elsewhere(Append(s, x), gone, list, k) /\ Clean(Append(s, x), gone)
<1>1. \A q, b, t : Has(Append(s, x), Len(Append(s, x)), q, b, t)
                      <=> Has(s, Len(s), q, b, t) \/ Of(x, q, b, t)
  BY HasAppend
<1>2. Elsewhere(Append(s, x), gone, list, k)
  <2>1. Len(list) \in Nat
    OBVIOUS
  <2> QED BY <2>1, ElsewhereKeep
<1>3. Clean(Append(s, x), gone)
  BY <1>1 DEF Clean, Of
<1> QED BY <1>2, <1>3

\* Ranges before and behind one another have no byte in common.
LEMMA Apart ==
  ASSUME NEW x \in AnyLock, NEW y \in AnyLock, IsBefore(x, y) \/ IsAfter(x, y),
         NEW b \in Nat
  PROVE  ~At(x, b) \/ ~At(y, b)
BY DEF At, IsBefore, IsAfter, AnyLock

\* One lock more in the pass of clearing a range
LEMMA ClearStepBytes ==
  ASSUME NEW list \in Seq(LockType), InOrder(list), NEW k \in 1 .. Len(list),
         NEW gone \in AnyLock, Lawful(gone), NEW a \in PassType,
         ClearBytes(a, gone, list, k-1)
  PROVE  ClearBytes(ClearStep(a, list[k], gone), gone, list, k)
<1> DEFINE x == list[k]
           b == ClearStep(a, x, gone)
           n == Len(list)
<1>1. /\ a.out \in Seq(LockType) /\ x \in LockType /\ x \in AnyLock /\ Lawful(x) /\ n \in Nat
      /\ k \in (k-1)+1 .. n
  <2>1. a.out \in Seq(LockType) /\ x \in LockType /\ Lawful(x) /\ n \in Nat
    BY DEF PassType, InOrder
  <2> QED BY <2>1 DEF LockType, AnyLock
<1>2. /\ Elsewhere(a.out, gone, list, k-1) /\ Clean(a.out, gone)
      /\ a.done => \A j \in (k-1)+1 .. n : list[j].id = gone.id => IsAfter(list[j], gone)
  BY DEF ClearBytes
<1>3. \A j \in k+1 .. n : j \in (k-1)+1 .. n /\ j \in 1 .. n /\ k < j
  BY <1>1
<1>4. \A j \in k+1 .. n : x.id = list[j].id => IsBefore(x, list[j])
  BY <1>3 DEF InOrder
<1>5. Keep(a, x).out = Append(a.out, x) /\ Keep(a, x).done = a.done /\ Keep(a, x) \in PassType
  BY <1>1, KeepFacts
<1> HIDE DEF x, b, n
<1>6. CASE a.done \/ x.id # gone.id \/ IsBefore(x, gone)
  <2>1. b = Keep(a, x)
    BY <1>6 DEF b, ClearStep, ClearCase
  <2>2. x.id = gone.id => IsAfter(x, gone) \/ IsBefore(x, gone)
    BY <1>1, <1>2, <1>6 DEF x
  <2>3. \A c \in Nat : x.id = gone.id => ~At(x, c) \/ ~At(gone, c)
    BY <1>1, <2>2, Apart
  <2>4. Elsewhere(b.out, gone, list, k) /\ Clean(b.out, gone)
    BY <1>1, <1>2, <1>5, <2>1, <2>3, CleanKeep DEF x
  <2>5. b.done => \A j \in k+1 .. n : list[j].id = gone.id => IsAfter(list[j], gone)
    BY <1>2, <1>3, <1>5, <2>1
  <2> QED BY <2>4, <2>5 DEF ClearBytes, b, x, n
<1>7. CASE ~(a.done \/ x.id # gone.id \/ IsBefore(x, gone)) /\ IsAfter(x, gone)
  <2> DEFINE c == Keep(a, x)
  <2> HIDE DEF c
  <2>1. b = [c EXCEPT !.done = TRUE]
    BY <1>7 DEF b, c, ClearStep, ClearCase
  <2>2. b.out = Append(a.out, x)
    BY <1>5, <2>1 DEF c, PassType
  <2>3. \A d \in Nat : ~At(x, d) \/ ~At(gone, d)
    BY <1>1, <1>7, Apart
  <2>4. Elsewhere(b.out, gone, list, k) /\ Clean(b.out, gone)
    BY <1>1, <1>2, <2>2, <2>3, CleanKeep DEF x
  <2>5. ASSUME NEW j \in k+1 .. n, list[j].id = gone.id PROVE IsAfter(list[j], gone)
    <3>1. IsBefore(x, list[j]) /\ list[j] \in LockType
      BY <1>3, <1>4, <1>7, <2>5 DEF n
    <3>2. /\ x.start \in Nat /\ x.end \in Nat \cup {EOF} /\ list[j].start \in Nat
          /\ gone.end \in Nat \cup {EOF}
      BY <1>1, <3>1 DEF LockType, AnyLock
    <3> QED BY <1>1, <1>7, <3>1, <3>2 DEF IsBefore, IsAfter, Lawful
  <2> QED BY <2>4, <2>5 DEF ClearBytes, b, x, n
<1>8. CASE ~(a.done \/ x.id # gone.id \/ IsBefore(x, gone)) /\ ~IsAfter(x, gone)
  <2> DEFINE w == Wake(a, x)
             u == LeftOf(x, gone) \o RightOf(x, gone)
             v == a.out \o LeftOf(x, gone)
  <2>1. b = Add(w, u)
    BY <1>8 DEF b, ClearStep, ClearCase
  <2>2. w \in PassType /\ w.out = a.out /\ w.done = a.done
    BY <1>1, WakeFacts
  <2>3. Overlap(x, gone)
    BY <1>8 DEF Overlap
  <2>4. LeftOf(x, gone) \in Seq(LockType) /\ RightOf(x, gone) \in Seq(LockType)
    BY <1>1, PieceTypes
  <2>5. u \in Seq(LockType) /\ v \in Seq(LockType) /\ a.out \o u = v \o RightOf(x, gone)
    <3> DEFINE s     == a.out
               left  == LeftOf(x, gone)
               right == RightOf(x, gone)
    <3>1. s \in Seq(LockType) /\ left \in Seq(LockType) /\ right \in Seq(LockType)
      BY <1>1, <2>4
    <3> HIDE DEF s, left, right
    <3>2. /\ left \o right \in Seq(LockType) /\ s \o left \in Seq(LockType)
          /\ s \o (left \o right) = (s \o left) \o right
      BY ONLY <3>1
    <3> QED BY <3>2 DEF s, left, right
  <2> HIDE DEF w, u, v
  <2>6. b.out = v \o RightOf(x, gone) /\ b.done = a.done
    <3>1. LET c == Add(w, u) IN c.out = w.out \o u /\ c.done = w.done
      BY ONLY <2>2, <2>5, AddFacts
    <3> QED BY <2>1, <2>2, <2>5, <3>1
  <2>7. \A q, t : \A c \in Nat : Has(v, Len(v), q, c, t)
           <=> Has(a.out, Len(a.out), q, c, t) \/ (Of(x, q, c, t) /\ c < gone.start)
    <3> DEFINE s == a.out
    <3> HIDE DEF s
    <3>1. s \in Seq(LockType) /\ x \in LockType /\ gone \in AnyLock /\ Overlap(x, gone)
      BY <1>1, <2>3 DEF s
    <3>2. \A q, t : \A c \in Nat :
             Has(s \o LeftOf(x, gone), Len(s \o LeftOf(x, gone)), q, c, t)
                <=> Has(s, Len(s), q, c, t) \/ (Of(x, q, c, t) /\ c < gone.start)
      BY ONLY <3>1, HasLeft
    <3> QED BY ONLY <3>2 DEF s, v
  <2>8. \A q, t : \A c \in Nat : Has(b.out, Len(b.out), q, c, t)
           <=> \/ Has(v, Len(v), q, c, t)
               \/ Of(x, q, c, t) /\ gone.end # EOF /\ c > gone.end
    <3>1. v \in Seq(LockType) /\ x \in LockType /\ gone \in AnyLock /\ Overlap(x, gone)
      BY <1>1, <2>3, <2>5
    <3>2. \A q, t : \A c \in Nat :
             Has(v \o RightOf(x, gone), Len(v \o RightOf(x, gone)), q, c, t)
                <=> \/ Has(v, Len(v), q, c, t)
                    \/ Of(x, q, c, t) /\ gone.end # EOF /\ c > gone.end
      BY ONLY <3>1, HasRight
    <3> QED BY ONLY <2>6, <3>2
  <2>9. \A q, c, t : Has(list, k, q, c, t) <=> Has(list, k-1, q, c, t) \/ Of(x, q, c, t)
    <3>1. n \in Nat /\ k \in 1 .. n
      BY <1>1 DEF n
    <3> QED BY <3>1, HasMore DEF x
  <2>10. /\ x.start \in Nat /\ x.end \in Nat \cup {EOF}
         /\ gone.start \in Nat /\ gone.end \in Nat \cup {EOF}
    BY <1>1 DEF AnyLock
  <2>11. Elsewhere(b.out, gone, list, k)
    <3> SUFFICES ASSUME NEW q, NEW t, NEW c \in Nat, ~(q = gone.id /\ At(gone, c))
                 PROVE  Has(b.out, Len(b.out), q, c, t) <=> Has(list, k, q, c, t)
      BY DEF Elsewhere
    <3>1. Has(a.out, Len(a.out), q, c, t) <=> Has(list, k-1, q, c, t)
      BY <1>2 DEF Elsewhere
    <3>2. Of(x, q, c, t) => c < gone.start \/ (gone.end # EOF /\ c > gone.end)
      BY <1>8, <2>10 DEF Of, At
    <3> QED BY <2>7, <2>8, <2>9, <3>1, <3>2
  <2>12. Clean(b.out, gone)
    <3> SUFFICES ASSUME NEW t, NEW c \in Nat, At(gone, c)
                 PROVE  ~Has(b.out, Len(b.out), gone.id, c, t)
      BY DEF Clean
    <3>1. ~(c < gone.start) /\ ~(gone.end # EOF /\ c > gone.end)
      BY <2>10 DEF At
    <3>2. ~Has(a.out, Len(a.out), gone.id, c, t)
      BY <1>2 DEF Clean
    <3> QED BY <2>7, <2>8, <3>1, <3>2
  <2>13. ~b.done
    BY <1>8, <2>6
  <2> QED BY <2>11, <2>12, <2>13 DEF ClearBytes, b, x
<1> QED BY <1>6, <1>7, <1>8

\* The whole pass of clearing a range takes it from its owner and nothing else.
LEMMA ClearPassWrites ==
  ASSUME NEW list \in Seq(LockType), InOrder(list),
         NEW gone \in AnyLock, Lawful(gone)
  PROVE  Written(ClearPass(list, gone).out, list, gone, "UN")
<1> DEFINE n == Len(list)
           b == ClearPasses(list, gone)
           T == {k \in 0 .. n : ClearBytes(b[k], gone, list, k)}
<1>1. n \in Nat
  OBVIOUS
<1> HIDE DEF b
<1>2. /\ b \in [0 .. n -> PassType] /\ b[0] = Pass
      /\ \A k \in 1 .. n : b[k] = ClearStep(b[k-1], list[k], gone)
  BY ClearPassSteps DEF b
<1>3. 0 \in T
  <2>1. b[0].out = <<>> /\ ~b[0].done
    BY <1>2 DEF Pass
  <2>2. Len(<<>>) = 0
    OBVIOUS
  <2>3. ClearBytes(b[0], gone, list, 0)
    BY <2>1, <2>2, HasNone DEF ClearBytes, Clean, Elsewhere
  <2> QED BY <1>1, <2>3
<1>4. ASSUME NEW k \in 1 .. n, k-1 \in T PROVE k \in T
  <2>1. ClearBytes(b[k-1], gone, list, k-1)
    BY <1>4
  <2>2. b[k] = ClearStep(b[k-1], list[k], gone)
    BY <1>2
  <2>3. b[k-1] \in PassType
    <3>1. k-1 \in 0 .. n
      BY <1>1
    <3> QED BY <1>2, <3>1
  <2> DEFINE a == b[k-1]
  <2> HIDE DEF a
  <2>4. ClearBytes(b[k], gone, list, k)
    BY <2>1, <2>2, <2>3, ClearStepBytes DEF a
  <2> QED BY <2>4
<1>5. n \in T
  <2> HIDE DEF T, n
  <2>1. 0 .. n \subseteq T
    BY <1>1, <1>3, <1>4, UpTo
  <2> QED BY <1>1, <2>1
<1>6. ClearBytes(b[n], gone, list, n)
  BY <1>5
<1>7. ClearPass(list, gone) = b[n]
  BY DEF ClearPass, b
<1> HIDE DEF T, n
<1>8. \A t \in {"RD", "WR"} : t # "UN"
  OBVIOUS
<1> QED BY <1>6, <1>7, <1>8 DEF ClearBytes, Elsewhere, Clean, Written, n

--------------------------------------------------------------------------------
\* The bytes and the steps

\* s has on every byte what t has.
SameBytes(s, t) ==
    \A q : \A ty \in {"RD", "WR"} : \A b \in Nat :
        Has(s, Len(s), q, b, ty) <=> Has(t, Len(t), q, b, ty)

\* Locks that differ in the requests blocked on them alone
LEMMA SameHas ==
  ASSUME NEW s, NEW t, Len(s) = Len(t),
         \A i \in 1 .. Len(t) : /\ s[i].id = t[i].id /\ s[i].type = t[i].type
                                /\ s[i].start = t[i].start /\ s[i].end = t[i].end
  PROVE  SameBytes(s, t)
<1>1. \A i \in 1 .. Len(t) : \A q, b, ty : Of(s[i], q, b, ty) <=> Of(t[i], q, b, ty)
  BY DEF Of, At
<1> QED BY <1>1 DEF SameBytes, Has

\* What a step does to the bytes: nothing, or an owner's lock is set or cleared on the whole
\* range of a request, set only when no lock is in the way.
Sets(p, r)   == /\ r \in Requests[p] /\ GetBlock(Lock(p, r)) = 0
                /\ Written(locks', locks, Lock(p, r), r.type)
Clears(p, r) == Written(locks', locks, Lock(p, r), "UN")
ByteStep ==
    \/ SameBytes(locks', locks)
    \/ \E p \in Proc : \E r \in Requests[p] : Sets(p, r)
    \/ \E p \in Proc : \E r \in Requests[p] \cup Unlocks[p] : Clears(p, r)

\* A lock is granted.
LEMMA GrantBytes ==
  ASSUME IInv, NEW p \in Proc, NEW r \in Requests[p], GetBlock(Lock(p, r)) = 0, Grant(p, r)
  PROVE  ByteStep
<1> DEFINE new == Lock(p, r)
<1>1. locks \in Seq(LockType) /\ InOrder(locks) /\ Once(locks)
  BY DEF IInv, ListInv
<1>2. /\ new \in LockType /\ Lawful(new) /\ Named(new) /\ new.blocks = <<>>
      /\ new.type = r.type
  BY LockFacts
<1> HIDE DEF new
<1>3. Written(SetPass(new).out, locks, new, new.type)
  BY <1>1, <1>2, SetPassWrites
<1>4. locks' = SetPass(new).out
  BY DEF Grant, new
<1>5. Sets(p, r)
  BY <1>2, <1>3, <1>4 DEF Sets, new
<1> QED BY <1>5 DEF ByteStep

\* A request goes to sleep; an exclusive one of flock gives up the shared lock.
LEMMA SleepBytes ==
  ASSUME IInv, NEW p \in Proc, NEW r \in Requests[p], ~Listed(p),
         NEW b \in 1 .. Len(locks), Sleep(p, r, b)
  PROVE  ByteStep
<1> DEFINE new  == Lock(p, r)
           list == [locks EXCEPT ![b].blocks = Append(@, p)]
<1>1. list \in Seq(LockType) /\ InOrder(list) /\ SameBut(p, list, locks)
  <2>1. ListInv
    BY DEF IInv
  <2> QED BY <2>1, JoinFacts
<1>2. new \in AnyLock /\ Lawful(new)
  BY LockFacts
<1>3. /\ r.posix \/ r.type # "WR" => locks' = [Pass EXCEPT !.out = list].out
      /\ ~(r.posix \/ r.type # "WR") => locks' = ClearPass(list, new).out
  BY DEF Sleep
<1> HIDE DEF list, new
<1>4. SameBytes(list, locks)
  BY <1>1, SameHas DEF SameBut
<1>5. CASE r.posix \/ r.type # "WR"
  <2>1. locks' = list
    BY <1>3, <1>5 DEF Pass
  <2> QED BY <1>4, <2>1 DEF ByteStep
<1>6. CASE ~(r.posix \/ r.type # "WR")
  <2>1. Written(locks', list, new, "UN")
    BY <1>1, <1>2, <1>3, <1>6, ClearPassWrites
  <2>2. Written(locks', locks, new, "UN")
    BY <1>4, <2>1 DEF Written, SameBytes
  <2>3. Clears(p, r)
    BY <2>2 DEF Clears, new
  <2> QED BY <2>3 DEF ByteStep
<1> QED BY <1>5, <1>6

\* One turn of the loop of lf_setlock
LEMMA TryBytes ==
  ASSUME MallocSleeps = FALSE, IInv, NEW p \in Proc, NEW r \in Requests[p], ~Listed(p),
         Try(p, r)
  PROVE  ByteStep
<1> DEFINE b == GetBlock(Lock(p, r))
<1>1. /\ b = 0 => Grant(p, r) \/ WaitForMemory(p, r)
      /\ b # 0 => Sleep(p, r, b) \/ Break \/ Return(p)
  BY DEF Try
<1>2. locks \in Seq(LockType)
  BY DEF IInv, ListInv
<1>3. b # 0 => b \in 1 .. Len(locks)
  BY <1>2, GetBlockFacts
<1>4. ~WaitForMemory(p, r)
  BY DEF WaitForMemory
<1>5. CASE b = 0
  BY <1>1, <1>4, <1>5, GrantBytes
<1>6. CASE b # 0 /\ Sleep(p, r, b)
  <2> HIDE DEF b
  <2> QED BY <1>3, <1>6, SleepBytes
<1>7. CASE b # 0 /\ (Break \/ Return(p))
  BY <1>7 DEF Break, Return, ByteStep, SameBytes
<1> QED BY <1>1, <1>5, <1>6, <1>7

\* A range is given up.
LEMMA ClearLockBytes ==
  ASSUME IInv, NEW p \in Proc, NEW u \in Unlocks[p], ClearLock(p, u)
  PROVE  ByteStep
<1> DEFINE gone == Lock(p, u)
<1>1. locks \in Seq(LockType) /\ InOrder(locks)
  BY DEF IInv, ListInv
<1>2. gone \in AnyLock /\ Lawful(gone)
  BY LockFacts
<1>3. locks' = ClearPass(locks, gone).out
  BY DEF ClearLock
<1> HIDE DEF gone
<1>4. Written(locks', locks, gone, "UN")
  BY <1>1, <1>2, <1>3, ClearPassWrites
<1>5. Clears(p, u)
  BY <1>4 DEF Clears, gone
<1> QED BY <1>5 DEF ByteStep

\* A request that ends with an error leaves its list, and the locks are as they were.
LEMMA GiveUpBytes ==
  ASSUME IInv, NEW p \in Proc, GiveUp(p)
  PROVE  ByteStep
<1> DEFINE n == Len(locks)
           t == [i \in DOMAIN locks |-> [locks[i] EXCEPT !.blocks = Without(@, p)]]
<1>1. locks \in Seq(LockType) /\ n \in Nat /\ DOMAIN locks = 1 .. n
  BY DEF IInv, ListInv
<1>2. Break \/ locks' = t
  BY DEF GiveUp
<1>3. CASE Break
  BY <1>3 DEF Break, ByteStep, SameBytes
<1>4. CASE locks' = t
  <2>1. Len(t) = n
    BY <1>1
  <2>2. ASSUME NEW i \in 1 .. n
        PROVE  /\ t[i].id = locks[i].id /\ t[i].type = locks[i].type
               /\ t[i].start = locks[i].start /\ t[i].end = locks[i].end
    <3>1. locks[i] \in LockType /\ t[i] = [locks[i] EXCEPT !.blocks = Without(@, p)]
      BY <1>1
    <3> QED BY <3>1 DEF LockType
  <2> HIDE DEF t
  <2>3. SameBytes(t, locks)
    BY <2>1, <2>2, SameHas
  <2> QED BY <1>4, <2>3 DEF ByteStep
<1> QED BY <1>2, <1>3, <1>4

\* Every step, if lf_split never sleeps for memory
LEMMA NextBytes ==
  ASSUME MallocSleeps = FALSE, IInv, Next
  PROVE  ByteStep
<1>1. PICK p \in Proc : \/ \E r \in Requests[p] : SetLock(p, r)
                        \/ \E u \in Unlocks[p] : ClearLock(p, u) \/ ClearWaits(p, u)
                        \/ Signal(p)
                        \/ Run(p)
  BY DEF Next
<1>2. Fine(p)
  BY DEF IInv
<1>3. CASE \E r \in Requests[p] : SetLock(p, r)
  BY <1>2, <1>3, TryBytes DEF SetLock, Fine
<1>4. CASE \E u \in Unlocks[p] : ClearLock(p, u) \/ ClearWaits(p, u)
  BY <1>4, ClearLockBytes DEF ClearWaits
<1>5. CASE Signal(p)
  BY <1>5 DEF Signal, ByteStep, SameBytes
<1>6. CASE Retry(p)
  BY <1>2, <1>6, TryBytes DEF Retry, Fine
<1>7. CASE GiveUp(p)
  BY <1>7, GiveUpBytes
<1>8. CASE GetMemory(p) \/ ClearSplits(p)
  BY <1>2, <1>8 DEF GetMemory, ClearSplits, Fine
<1> QED BY <1>1, <1>3, <1>4, <1>5, <1>6, <1>7, <1>8 DEF Run

--------------------------------------------------------------------------------
\* The locks are what is promised of them.

\* No owner has a lock on a byte on which another has an exclusive one.
Exclusive ==
    \A o, q : \A t \in {"RD", "WR"} : \A b \in Nat :
        o # q /\ Has(locks, Len(locks), o, b, "WR") => ~Has(locks, Len(locks), q, b, t)

\* When no lock is in the way, none of another owner on the range excludes the new one.
LEMMA NoConflict ==
  ASSUME locks \in Seq(LockType), NEW p \in Proc, NEW r \in Requests[p],
         GetBlock(Lock(p, r)) = 0, NEW b \in Nat, At(Lock(p, r), b),
         NEW q, q # Lock(p, r).id, NEW t, Has(locks, Len(locks), q, b, t)
  PROVE  t # "WR" /\ r.type # "WR"
<1> DEFINE new == Lock(p, r)
<1>1. PICK i \in 1 .. Len(locks) : Of(locks[i], q, b, t)
  BY DEF Has
<1>2. locks[i] \in LockType /\ new \in LockType /\ new.type = r.type
  BY LockFacts
<1>3. Blocks(new) = {}
  <2> SUFFICES ASSUME Blocks(new) # {} PROVE FALSE
    OBVIOUS
  <2>1. Blocks(new) \subseteq 1 .. Len(locks) /\ Blocks(new) \subseteq Nat
    BY DEF Blocks
  <2>2. \E j \in Blocks(new) : \A k \in Blocks(new) : j <= k
    BY <2>1, Least
  <2>3. GetBlock(new) \in Blocks(new)
    BY <2>2 DEF GetBlock
  <2> QED BY <2>1, <2>3
<1> HIDE DEF new
<1>4. ~InTheWay(locks[i], new)
  BY <1>3 DEF Blocks
<1>5. Overlap(locks[i], new)
  <2>1. At(new, b) /\ At(locks[i], b)
    BY <1>1 DEF new, Of
  <2> QED BY <1>2, <2>1 DEF At, Overlap, IsBefore, IsAfter, LockType
<1>6. locks[i].id # new.id /\ locks[i].type = t
  BY <1>1 DEF new, Of
<1> QED BY <1>2, <1>4, <1>5, <1>6 DEF InTheWay

\* No step gives two owners locks that exclude one another.
LEMMA ExclusiveStep ==
  ASSUME IInv, Exclusive, ByteStep
  PROVE  Exclusive'
<1> SUFFICES ASSUME NEW o, NEW q, o # q, NEW t \in {"RD", "WR"}, NEW b \in Nat,
                    Has(locks', Len(locks'), o, b, "WR"), Has(locks', Len(locks'), q, b, t)
             PROVE  FALSE
  BY DEF Exclusive
<1>1. ~(Has(locks, Len(locks), o, b, "WR") /\ Has(locks, Len(locks), q, b, t))
  BY DEF Exclusive
<1>2. CASE SameBytes(locks', locks)
  BY <1>1, <1>2 DEF SameBytes
<1>3. ASSUME NEW p \in Proc, NEW r \in Requests[p], Sets(p, r) PROVE FALSE
  <2> DEFINE x == Lock(p, r)
  <2>1. Written(locks', locks, x, r.type) /\ GetBlock(x) = 0 /\ locks \in Seq(LockType)
    BY <1>3 DEF Sets, IInv, ListInv
  <2>2. \A c : \A u \in {"RD", "WR"} : Has(locks, Len(locks), c, b, u) /\ c # x.id /\ At(x, b)
           => u # "WR" /\ r.type # "WR"
    BY <2>1, NoConflict
  <2> HIDE DEF x
  <2>3. /\ IF o = x.id /\ At(x, b) THEN "WR" = r.type ELSE Has(locks, Len(locks), o, b, "WR")
        /\ IF q = x.id /\ At(x, b) THEN t = r.type ELSE Has(locks, Len(locks), q, b, t)
    BY <2>1 DEF Written
  <2> QED BY <1>1, <2>2, <2>3
<1>4. ASSUME NEW p \in Proc, NEW r, Clears(p, r) PROVE FALSE
  BY <1>1, <1>4 DEF Clears, Written
<1> QED BY <1>2, <1>3, <1>4 DEF ByteStep

\* What Held says of a byte
LEMMA HeldFacts ==
  ASSUME ListInv, NEW b \in Nat, NEW o
  PROVE  /\ Held(o, b) \in {"UN", "RD", "WR"}
         /\ \A t \in {"RD", "WR"} : Held(o, b) = t <=> Has(locks, Len(locks), o, b, t)
<1> DEFINE n == Len(locks)
           on == {i \in DOMAIN locks : locks[i].id = o /\ locks[i].start <= b
                                          /\ (locks[i].end = EOF \/ b <= locks[i].end)}
           c == CHOOSE i \in on : TRUE
<1>1. locks \in Seq(LockType) /\ InOrder(locks) /\ DOMAIN locks = 1 .. n
  BY DEF ListInv
<1>2. Held(o, b) = IF on = {} THEN "UN" ELSE locks[c].type
  BY DEF Held
<1>3. \A i : i \in on <=> i \in 1 .. n /\ Of(locks[i], o, b, locks[i].type)
  BY <1>1 DEF Of, At
<1>4. CASE on = {}
  <2>1. \A t : ~Has(locks, n, o, b, t)
    BY <1>3, <1>4 DEF Has, Of
  <2> QED BY <1>2, <1>4, <2>1
<1>5. CASE on # {}
  <2>1. c \in on
    BY <1>5
  <2> HIDE DEF on, c
  <2>2. c \in 1 .. n /\ Of(locks[c], o, b, locks[c].type) /\ locks[c] \in LockType
    BY <1>1, <1>3, <2>1
  <2>3. Has(locks, n, o, b, locks[c].type) /\ locks[c].type \in {"RD", "WR"}
    BY <2>2 DEF Has, LockType
  <2>4. \A t : Has(locks, n, o, b, t) => t = locks[c].type
    BY <1>1, <2>3, HasOne
  <2> QED BY <1>2, <1>5, <2>3, <2>4
<1> QED BY <1>4, <1>5

\* An owner's lock is written on a range: what each owner holds after that
LEMMA HeldWritten ==
  ASSUME ListInv, ListInv', NEW x, NEW ty \in {"UN", "RD", "WR"},
         Written(locks', locks, x, ty), NEW o, NEW b \in Nat
  PROVE  Held(o, b)' = IF o = x.id /\ At(x, b) THEN ty ELSE Held(o, b)
<1>1. /\ Held(o, b) \in {"UN", "RD", "WR"}
      /\ \A t \in {"RD", "WR"} : Held(o, b) = t <=> Has(locks, Len(locks), o, b, t)
  BY HeldFacts
<1>2. (ListInv => /\ Held(o, b) \in {"UN", "RD", "WR"}
                  /\ \A t \in {"RD", "WR"} : Held(o, b) = t
                        <=> Has(locks, Len(locks), o, b, t))'
  BY HeldFacts, PTL
<1>3. /\ Held(o, b)' \in {"UN", "RD", "WR"}
      /\ \A t \in {"RD", "WR"} : Held(o, b)' = t <=> Has(locks', Len(locks'), o, b, t)
  BY <1>2 DEF Has
<1>4. \A t \in {"RD", "WR"} : Has(locks', Len(locks'), o, b, t)
         <=> IF o = x.id /\ At(x, b) THEN t = ty ELSE Has(locks, Len(locks), o, b, t)
  BY DEF Written
<1> QED BY <1>1, <1>3, <1>4

\* And when the bytes are as they were
LEMMA HeldSame ==
  ASSUME ListInv, ListInv', SameBytes(locks', locks), NEW o, NEW b \in Nat
  PROVE  Held(o, b)' = Held(o, b)
<1>1. /\ Held(o, b) \in {"UN", "RD", "WR"}
      /\ \A t \in {"RD", "WR"} : Held(o, b) = t <=> Has(locks, Len(locks), o, b, t)
  BY HeldFacts
<1>2. (ListInv => /\ Held(o, b) \in {"UN", "RD", "WR"}
                  /\ \A t \in {"RD", "WR"} : Held(o, b) = t
                        <=> Has(locks, Len(locks), o, b, t))'
  BY HeldFacts, PTL
<1>3. /\ Held(o, b)' \in {"UN", "RD", "WR"}
      /\ \A t \in {"RD", "WR"} : Held(o, b)' = t <=> Has(locks', Len(locks'), o, b, t)
  BY <1>2 DEF Has
<1> QED BY <1>1, <1>3 DEF SameBytes

\* The step of the promise that a step of the locks is
LEMMA PromiseStep ==
  ASSUME ListInv, ListInv', Exclusive, ByteStep
  PROVE  LET held == [o \in Owners |-> [b \in Byte |-> Held(o, b)]]
         IN  Bytes!Next \/ UNCHANGED held
<1> DEFINE held == [o \in Owners |-> [b \in Byte |-> Held(o, b)]]
<1>1. Byte \subseteq Nat
  BY ByteAssumption
<1>2. /\ held' = [o \in Owners |-> [b \in Byte |-> Held(o, b)']]
      /\ \A o \in Owners : \A b \in Byte :
            held[o][b] = Held(o, b) /\ held'[o][b] = Held(o, b)'
  OBVIOUS
<1>3. CASE SameBytes(locks', locks)
  <2>1. \A o \in Owners : \A b \in Byte : Held(o, b)' = Held(o, b)
    BY <1>1, <1>3, HeldSame
  <2>2. UNCHANGED held
    BY <1>2, <2>1
  <2> QED BY <2>2
<1>4. ASSUME NEW x, NEW ty \in {"UN", "RD", "WR"}, Written(locks', locks, x, ty)
      PROVE  /\ x.id \notin Owners => UNCHANGED held
             /\ x.id \in Owners => Bytes!Put(x.id, {b \in Byte : held'[x.id][b] = ty}, ty)
  <2>1. \A o \in Owners : \A b \in Byte :
           Held(o, b)' = IF o = x.id /\ At(x, b) THEN ty ELSE Held(o, b)
    BY <1>1, <1>4, HeldWritten
  <2>2. CASE x.id \notin Owners
    <3>1. \A o \in Owners : \A b \in Byte : Held(o, b)' = Held(o, b)
      BY <2>1, <2>2
    <3>2. UNCHANGED held
      BY <1>2, <3>1
    <3> QED BY <2>2, <3>2
  <2>3. CASE x.id \in Owners
    <3> DEFINE range == {b \in Byte : held'[x.id][b] = ty}
               row   == [b \in Byte |-> IF b \in range THEN ty ELSE held[x.id][b]]
    <3>1. [b \in Byte |-> Held(x.id, b)'] = row
      BY <1>2, <2>1, <2>3
    <3>2. \A o \in Owners \ {x.id} : [b \in Byte |-> Held(o, b)'] = held[o]
      BY <2>1
    <3> HIDE DEF row
    <3>3. held' = [held EXCEPT ![x.id] = row]
      BY <1>2, <2>3, <3>1, <3>2
    <3> QED BY <2>3, <3>3 DEF Bytes!Put, row
  <2> QED BY <2>2, <2>3
<1>5. ASSUME NEW p \in Proc, NEW r, Clears(p, r) PROVE Bytes!Next \/ UNCHANGED held
  <2> DEFINE x == Lock(p, r)
  <2>1. Written(locks', locks, x, "UN")
    BY <1>5 DEF Clears
  <2> HIDE DEF x
  <2>2. /\ x.id \notin Owners => UNCHANGED held
        /\ x.id \in Owners => Bytes!Put(x.id, {b \in Byte : held'[x.id][b] = "UN"}, "UN")
    BY <1>4, <2>1
  <2> QED BY <2>2 DEF Bytes!Next
<1>6. ASSUME NEW p \in Proc, NEW r \in Requests[p], Sets(p, r)
      PROVE  Bytes!Next
  <2> DEFINE x == Lock(p, r)
             range == {b \in Byte : held'[x.id][b] = r.type}
  <2>1. Written(locks', locks, x, r.type) /\ GetBlock(x) = 0
    BY <1>6 DEF Sets
  <2>2. r.type \in {"RD", "WR"} /\ x.id \in Owners
    BY LockFacts DEF Owners, LockType
  <2>3. \A q : \A b \in Nat : \A t : Has(locks, Len(locks), q, b, t) /\ q # x.id /\ At(x, b)
           => t # "WR" /\ r.type # "WR"
    BY <2>1, NoConflict DEF ListInv
  <2> HIDE DEF x
  <2>4. Bytes!Put(x.id, range, r.type)
    <3> DEFINE ty == r.type
    <3>1. ty \in {"UN", "RD", "WR"} /\ Written(locks', locks, x, ty)
      BY <2>1, <2>2
    <3> HIDE DEF ty
    <3>2. x.id \in Owners => Bytes!Put(x.id, {b \in Byte : held'[x.id][b] = ty}, ty)
      BY <1>4, <3>1
    <3> QED BY <2>2, <3>2 DEF ty
  <2>5. ASSUME NEW q \in Owners \ {x.id}, NEW b \in range
        PROVE  held[q][b] # "WR" /\ (r.type = "WR" => held[q][b] = "UN")
    <3>1. b \in Byte /\ b \in Nat /\ held[q][b] = Held(q, b) /\ Held(x.id, b)' = r.type
      BY <1>1, <1>2, <2>2, <2>5
    <3>2. At(x, b) \/ Held(x.id, b) = r.type
      BY <2>1, <2>2, <3>1, HeldWritten
    <3>3. /\ Held(q, b) \in {"UN", "RD", "WR"}
          /\ \A t \in {"RD", "WR"} : Held(q, b) = t <=> Has(locks, Len(locks), q, b, t)
          /\ \A t \in {"RD", "WR"} : Held(x.id, b) = t <=> Has(locks, Len(locks), x.id, b, t)
      BY <3>1, HeldFacts
    <3> HIDE DEF held
    <3>4. CASE At(x, b)
      BY <2>3, <3>1, <3>3, <3>4
    <3>5. CASE Held(x.id, b) = r.type
      <4>1. Has(locks, Len(locks), x.id, b, r.type)
        BY <2>2, <3>3, <3>5
      <4>2. ~Has(locks, Len(locks), q, b, "WR")
        BY <2>2, <3>1, <4>1 DEF Exclusive
      <4>3. r.type = "WR" => \A t \in {"RD", "WR"} : ~Has(locks, Len(locks), q, b, t)
        BY <3>1, <4>1 DEF Exclusive
      <4> QED BY <3>1, <3>3, <4>2, <4>3
    <3> QED BY <3>2, <3>4, <3>5
  <2>6. Bytes!Set(x.id, range, r.type)
    BY <2>4, <2>5 DEF Bytes!Set
  <2> QED BY <2>2, <2>6 DEF Bytes!Next
<1> QED BY <1>3, <1>5, <1>6 DEF ByteStep

\* Unless lf_split sleeps for memory, the list with its splits, its cut and joined locks and
\* the sleeps in between sets and clears whole ranges at once, gives no two owners locks
\* that exclude one another, and leaves each owner what it asked for and nothing else.
THEOREM PromiseKept ==
  ASSUME MallocSleeps = FALSE
  PROVE  Spec => KeepsPromise
<1> DEFINE held == [o \in Owners |-> [b \in Byte |-> Held(o, b)]]
<1>1. Init => Exclusive /\ Bytes!Init
  <2> SUFFICES ASSUME Init PROVE Exclusive /\ Bytes!Init
    OBVIOUS
  <2>1. locks = <<>> /\ Len(<<>>) = 0 /\ DOMAIN <<>> = {}
    BY DEF Init
  <2>2. Exclusive
    BY <2>1, HasNone DEF Exclusive
  <2>3. \A o, b : Held(o, b) = "UN"
    BY <2>1 DEF Held
  <2> QED BY <2>2, <2>3 DEF Bytes!Init
<1>2. IInv /\ Exclusive /\ [Next]_vars => Exclusive' /\ ByteStep
  <2>1. ASSUME IInv, Exclusive, Next PROVE Exclusive' /\ ByteStep
    BY <2>1, NextBytes, ExclusiveStep
  <2>2. ASSUME Exclusive, UNCHANGED vars PROVE Exclusive' /\ ByteStep
    BY <2>2 DEF vars, Exclusive, ByteStep, SameBytes
  <2> QED BY <2>1, <2>2
<1>3. IInv /\ IInv' /\ Exclusive /\ ByteStep => [Bytes!Next]_held
  BY PromiseStep DEF IInv
<1> QED BY <1>1, <1>2, <1>3, Invariant, PTL DEF Spec, KeepsPromise, Bytes!Spec

================================================================================
